--------------------------- MODULE BranchCommits ---------------------------
(***************************************************************************)
(* The commit authority of one branch: reserve, initialize, append and     *)
(* appendBatch of SqliteBranchCommitStatePlane in                          *)
(* src/server/state-plane/sqlite-commits.ts, with the preparation          *)
(* functions of shared/drop/branch-commit.ts, branch-batch.ts and          *)
(* branch-lifecycle.ts.                                                    *)
(*                                                                         *)
(* Every statement is keyed by the branch, so one branch is modelled.  A   *)
(* call reads in one SQL transaction, awaits hashing and preparation, and  *)
(* writes in a second transaction; any other call may run in between.  A   *)
(* call that throws leaves the rows alone and ends with an error code.     *)
(* The process may stop at any await: rows stay, calls are gone and the    *)
(* clients send their commands again.                                      *)
(*                                                                         *)
(* Hashes are taken to be injective: the hash of an event is the event,    *)
(* the hash of a text is the text.                                         *)
(***************************************************************************)
EXTENDS Integers, Sequences, FiniteSets, Functions

CONSTANTS
  Calls,        \* concurrently executing calls
  Commands,     \* the commands clients send: see CommandShape
  MaxAttempts,  \* preparations of one batch before it gives up (32)
  MaxSafe,      \* Number.MAX_SAFE_INTEGER
  Seeds,        \* local fixtures: [generation, content]
  Patch(_, _)   \* Patch(content, ops): applyDiff over the operations of an event

Undefined == -2   \* an absent followsSeq, or a generation that nobody has

(***************************************************************************)
(* Commands.  An event is [id, ops, follows] and is its own payload hash.  *)
(* An append carries exactly one event, whose followsSeq is the sequence   *)
(* of the expected version (BranchAppendCommand.create).                   *)
(***************************************************************************)
CommandShape(cmd) ==
  CASE cmd.op = "append"     -> /\ cmd.events \in Seq(Range(cmd.events)) /\ Len(cmd.events) = 1
                                /\ cmd.events[1].follows = cmd.expected.seq
    [] cmd.op = "batch"      -> cmd.events \in Seq(Range(cmd.events)) /\ Len(cmd.events) >= 1
    [] cmd.op = "reserve"    -> DOMAIN cmd.reservation = {"id", "identity", "revision"}
    [] cmd.op = "initialize" -> DOMAIN cmd.intent = {"id", "revision", "content"}
    [] OTHER                 -> FALSE

ASSUME CommitConstants ==
  /\ MaxAttempts \in Nat \ {0}
  /\ MaxSafe \in Nat \ {0}
  /\ \A cmd \in Commands : CommandShape(cmd)

VARIABLES
  authority,   \* row of branch_authorities: owner, reservation, initialization intent
  head,        \* row of branch_heads
  snapshots,   \* rows of branch_snapshots
  events,      \* rows of branch_events
  receipts,    \* rows of branch_receipts
  outbox,      \* rows of branch_outbox, one per publication
  delivery,    \* outbox ids registered in branch_outbox_delivery
  migration,   \* is there a migration of this branch that is not rolled back?
  call         \* the calls in progress and their last answers

rows == <<authority, head, snapshots, events, receipts, outbox, delivery>>
vars == <<authority, head, snapshots, events, receipts, outbox, delivery, migration, call>>

Version(n, seq, content) == [snapshot |-> n, seq |-> seq, content |-> content]

NoVersion == Version(-1, -1, "")

Idle == [step |-> "idle", cmd |-> [op |-> "none"], seen |-> NoVersion,
         known |-> {}, attempt |-> 0, since |-> 0,
         answer |-> "none", acks |-> {}]

Reserved == migration = "open"

(***************************************************************************)
(* head(): the code with which a query of this generation fails, or "ok".  *)
(* A head without an authority is a seeded fixture; a head with one must   *)
(* agree with its authority and with the initialization receipt.           *)
(***************************************************************************)
AuthorityHead ==
  /\ authority.state = "active"
  /\ head.origin = "lifecycle"
  /\ authority.generation = head.generation
  /\ IF head.version.snapshot = 0
     THEN head.version = Version(0, -1, authority.intent.content)
     ELSE head.version.seq >= head.version.snapshot - 1

HeadCheck(generation) ==
  IF head.state = "absent"
  THEN IF authority.state = "none" THEN "branch_not_found"
       ELSE IF authority.generation # generation THEN "routing_generation_mismatch"
       ELSE IF authority.state = "pending" THEN "branch_initialization_pending"
       ELSE "state_corrupt"
  ELSE IF authority.state = "none"
       THEN IF head.origin # "fixture" THEN "state_corrupt"
            ELSE IF head.generation # generation THEN "routing_generation_mismatch"
            ELSE "ok"
       ELSE IF authority.generation # generation THEN "routing_generation_mismatch"
            ELSE IF AuthorityHead THEN "ok" ELSE "state_corrupt"

(***************************************************************************)
(* snapshot(), currentSnapshot(): the row of a version exists, carries     *)
(* that very version and continues the sequence of its parent row.         *)
(***************************************************************************)
SnapshotRow(n) == CHOOSE s \in snapshots : s.version.snapshot = n

SnapshotIsSound(v) ==
  /\ \E s \in snapshots : s.version = v
  /\ LET s == SnapshotRow(v.snapshot) IN
     IF v.snapshot = 0
     THEN s.ids = <<>> /\ v.seq = -1
     ELSE /\ s.parent = v.snapshot - 1
          /\ Len(s.ids) = v.seq - s.start + 1
          /\ Len(s.ids) >= 1
          /\ \E p \in snapshots : /\ p.version.snapshot = s.parent
                                  /\ p.version.seq = s.start - 1

(***************************************************************************)
(* duplicate(): a receipt under the same event id replays when the hash    *)
(* agrees.  Its snapshot and its event are looked up again.                *)
(***************************************************************************)
ReceiptOf(id) == {r \in receipts : r.id = id}

Reuses(e) == \E r \in ReceiptOf(e.id) : r.hash # e

ReceiptIsSound(r) ==
  /\ r.seq \in 0..r.version.seq
  /\ r.version.snapshot <= head.version.snapshot
  /\ r.version.seq <= head.version.seq
  /\ SnapshotIsSound(r.version)
  /\ \E e \in events : e.seq = r.seq /\ e.event.id = r.id /\ e.snapshot = r.version.snapshot
  /\ LET s == SnapshotRow(r.version.snapshot) IN s.ids[r.seq - s.start + 1] = r.id

(***************************************************************************)
(* Preparation of a publication of the events es on top of version v:      *)
(* prepareBranchCommit for one event, prepareBranchBatch for an envelope.  *)
(***************************************************************************)
\* The operations of the events es applied to a text, in order.
PatchAll(text, es) ==
  LET after[n \in 0..Len(es)] == IF n = 0 THEN text ELSE Patch(after[n - 1], es[n].ops)
  IN after[Len(es)]

\* Mutant: every event of an envelope is applied to the captured text.
NextVersionLastOnly(es, v) ==
  Version(v.snapshot + 1, v.seq + Len(es), Patch(v.content, es[Len(es)].ops))

NextVersion(es, v) ==
  Version(v.snapshot + 1, v.seq + Len(es), PatchAll(v.content, es))

Exhausted(es, v) == v.snapshot + 1 > MaxSafe \/ v.seq + Len(es) + 1 > MaxSafe

\* Mutant: receipts of an envelope carry its terminal sequence.
ReceiptRowsTerminal(es, v) ==
  {[id |-> es[i].id, hash |-> es[i], seq |-> v.seq + Len(es), version |-> NextVersion(es, v)]
     : i \in DOMAIN es}

ReceiptRows(es, v) ==
  {[id |-> es[i].id, hash |-> es[i], seq |-> v.seq + i, version |-> NextVersion(es, v)]
     : i \in DOMAIN es}

EventRows(es, v) ==
  {[seq |-> v.seq + i, snapshot |-> v.snapshot + 1, event |-> es[i]] : i \in DOMAIN es}

PublishedSnapshot(es, v) ==
  [version |-> NextVersion(es, v), parent |-> v.snapshot, start |-> v.seq + 1,
   ids |-> [i \in DOMAIN es |-> es[i].id]]

\* An append is keyed by its event, a batch by its snapshot.
OutboxRow(op, es, v) ==
  [outboxId |-> IF op = "append" THEN <<op, es[1].id>> ELSE <<op, v.snapshot + 1>>,
   eventId  |-> es[1].id, version |-> NextVersion(es, v), ids |-> {es[i].id : i \in DOMAIN es}]

\* PRIMARY KEY and UNIQUE constraints of the five tables.
Conflicts(op, es, v) ==
  \/ \E e \in events, f \in EventRows(es, v) : e.seq = f.seq \/ e.event.id = f.event.id
  \/ \E s \in snapshots : s.version.snapshot = v.snapshot + 1
  \/ \E r \in receipts, i \in DOMAIN es : r.id = es[i].id
  \/ \E i, j \in DOMAIN es : i # j /\ es[i].id = es[j].id
  \/ \E o \in outbox : \/ o.eventId = es[1].id
                       \/ o.outboxId = OutboxRow(op, es, v).outboxId

(***************************************************************************)
(* The rows of one publication commit together or not at all.              *)
(***************************************************************************)
\* Mutant: registerOutbox runs for single commits only.
PublishForgetsDelivery(op, es, v) ==
  /\ events' = events \cup EventRows(es, v)
  /\ snapshots' = snapshots \cup {PublishedSnapshot(es, v)}
  /\ head' = [head EXCEPT !.version = NextVersion(es, v)]
  /\ receipts' = receipts \cup ReceiptRows(es, v)
  /\ outbox' = outbox \cup {OutboxRow(op, es, v)}
  /\ delivery' = IF op = "append" THEN delivery \cup {OutboxRow(op, es, v).outboxId}
                                  ELSE delivery
  /\ UNCHANGED <<authority, migration>>

Publish(op, es, v) ==
  /\ events' = events \cup EventRows(es, v)
  /\ snapshots' = snapshots \cup {PublishedSnapshot(es, v)}
  /\ head' = [head EXCEPT !.version = NextVersion(es, v)]
  /\ receipts' = receipts \cup ReceiptRows(es, v)
  /\ outbox' = outbox \cup {OutboxRow(op, es, v)}
  /\ delivery' = delivery \cup {OutboxRow(op, es, v).outboxId}
  /\ UNCHANGED <<authority, migration>>

-----------------------------------------------------------------------------
(***************************************************************************)
(* Calls.                                                                  *)
(***************************************************************************)
Receive(c, cmd) ==
  /\ call[c].step = "idle"
  /\ call' = [call EXCEPT ![c] = [Idle EXCEPT !.step = "received", !.cmd = cmd]]
  /\ UNCHANGED <<rows, migration>>

Answer(c, code, acks) ==
  call' = [call EXCEPT ![c] = [@ EXCEPT !.step = "idle", !.seen = NoVersion, !.known = {},
                                        !.answer = code, !.acks = acks]]

Fail(c, code) == Answer(c, code, {}) /\ UNCHANGED <<rows, migration>>

Ack(r, status) == [receipt |-> r, status |-> status]

(***************************************************************************)
(* append: the same three checks, in the same order, before and after the  *)
(* preparation: placement, then duplicate identity, then predecessor.      *)
(***************************************************************************)
AppendCheck(cmd) ==
  LET e == cmd.events[1] IN
  IF HeadCheck(cmd.generation) # "ok" THEN HeadCheck(cmd.generation)
  ELSE IF Reuses(e) THEN "diff_event_id_reused"
  ELSE IF ReceiptOf(e.id) # {}
       THEN IF \A r \in ReceiptOf(e.id) : ReceiptIsSound(r) THEN "duplicate"
                                                            ELSE "state_corrupt"
  ELSE IF head.version # cmd.expected THEN "diff_predecessor_mismatch"
  ELSE IF ~SnapshotIsSound(head.version) THEN "state_corrupt"
  ELSE "ok"

\* Mutant: a replay answers with the current head instead of its receipt.
AppendRefusedWithHead(c) ==
  LET cmd == call[c].cmd
      code == AppendCheck(cmd)
  IN /\ code # "ok"
     /\ Answer(c, code, IF code = "duplicate"
                        THEN {Ack([r EXCEPT !.version = head.version], code)
                                : r \in ReceiptOf(cmd.events[1].id)} ELSE {})
     /\ UNCHANGED <<rows, migration>>

AppendRefused(c) ==
  LET cmd == call[c].cmd
      code == AppendCheck(cmd)
  IN /\ code # "ok"
     /\ Answer(c, code, IF code = "duplicate"
                        THEN {Ack(r, code) : r \in ReceiptOf(cmd.events[1].id)} ELSE {})
     /\ UNCHANGED <<rows, migration>>

\* The first transaction captures the expected version; prepareBranchCommit
\* then fails or leaves a publication for the second one.
AppendCapture(c) ==
  /\ call[c].step = "received" /\ call[c].cmd.op = "append"
  /\ \/ AppendRefused(c)
     \/ /\ AppendCheck(call[c].cmd) = "ok"
        /\ IF Exhausted(call[c].cmd.events, head.version)
           THEN Fail(c, "diff_sequence_exhausted")
           ELSE /\ call' = [call EXCEPT ![c] = [@ EXCEPT !.step = "prepared", !.seen = head.version]]
                /\ UNCHANGED <<rows, migration>>

AppendPublishes(c) ==
  LET cmd == call[c].cmd IN
  IF Conflicts("append", cmd.events, call[c].seen)
  THEN Fail(c, "state_unavailable")
  ELSE /\ Publish("append", cmd.events, call[c].seen)
       /\ Answer(c, "accepted", {Ack(r, "accepted") : r \in ReceiptRows(cmd.events, call[c].seen)})

\* Mutant: the predecessor is checked before the duplicate identity.
AppendCommitPredecessorFirst(c) ==
  /\ call[c].step = "prepared" /\ call[c].cmd.op = "append"
  /\ IF head.version # call[c].cmd.expected
     THEN Fail(c, "diff_predecessor_mismatch")
     ELSE \/ AppendRefused(c)
          \/ AppendCheck(call[c].cmd) = "ok" /\ AppendPublishes(c)

AppendCommit(c) ==
  /\ call[c].step = "prepared" /\ call[c].cmd.op = "append"
  /\ \/ AppendRefused(c)
     \/ AppendCheck(call[c].cmd) = "ok" /\ AppendPublishes(c)

(***************************************************************************)
(* appendBatch: prepareBranchBatch keeps the first event of every id and   *)
(* drops the ones that already have a receipt; the rest is one snapshot.   *)
(***************************************************************************)
FirstOfId(es, i) == \A j \in 1..(i - 1) : es[j].id # es[i].id

Accepted(es, known) ==
  LET picks == {i \in DOMAIN es : FirstOfId(es, i) /\ \A r \in known : r.id # es[i].id}
  IN  [k \in 1..Cardinality(picks) |->
         es[CHOOSE i \in picks : Cardinality({j \in picks : j <= i}) = k]]

BatchCheck(cmd) ==
  LET ids == {cmd.events[i].id : i \in DOMAIN cmd.events} IN
  IF HeadCheck(cmd.generation) # "ok" THEN HeadCheck(cmd.generation)
  ELSE IF \E i \in DOMAIN cmd.events : Reuses(cmd.events[i]) THEN "diff_event_id_reused"
  ELSE IF \E id \in ids : \E r \in ReceiptOf(id) : ~ReceiptIsSound(r) THEN "state_corrupt"
  ELSE IF ~SnapshotIsSound(head.version) THEN "state_corrupt"
  ELSE "ok"

KnownReceipts(cmd) ==
  UNION {ReceiptOf(cmd.events[i].id) : i \in DOMAIN cmd.events}

PrepareBatchCheck(es, known, v) ==
  LET new == Accepted(es, known) IN
  IF v.seq >= MaxSafe THEN "diff_sequence_exhausted"
  ELSE IF \E i, j \in DOMAIN es : es[i].id = es[j].id /\ es[i] # es[j]
       THEN "diff_event_id_reused"
  ELSE IF \E i \in DOMAIN new : new[i].follows \notin {Undefined, v.seq + i - 1}
       THEN "diff_predecessor_mismatch"
  ELSE IF new # <<>> /\ Exhausted(new, v) THEN "diff_sequence_exhausted"
  ELSE "ok"

BatchCapture(c) ==
  LET cmd == call[c].cmd
      known == KnownReceipts(cmd)
      code == IF BatchCheck(cmd) # "ok" THEN BatchCheck(cmd)
              ELSE PrepareBatchCheck(cmd.events, known, head.version)
  IN /\ call[c].step = "received" /\ cmd.op = "batch"
     /\ IF code # "ok" THEN Fail(c, code)
        ELSE /\ call' = [call EXCEPT ![c] =
                  [@ EXCEPT !.step = "prepared", !.seen = head.version, !.known = known,
                            !.since = IF call[c].attempt = 0 THEN head.version.snapshot
                                                             ELSE call[c].since]]
             /\ UNCHANGED <<rows, migration>>

\* The loop counter: a changed head restarts the classification.
BatchRetries(c) ==
  /\ IF call[c].attempt + 1 < MaxAttempts
     THEN call' = [call EXCEPT ![c] = [@ EXCEPT !.step = "received",
                                                !.attempt = call[c].attempt + 1]]
     ELSE call' = [call EXCEPT ![c] = [@ EXCEPT !.step = "idle",
                                                !.attempt = call[c].attempt + 1,
                                                !.seen = NoVersion, !.known = {},
                                                !.answer = "state_unavailable"]]
  /\ UNCHANGED <<rows, migration>>

BatchPublishes(c) ==
  LET cmd == call[c].cmd
      v == call[c].seen
      known == call[c].known
      new == Accepted(cmd.events, known)
      replayed == {Ack(r, "duplicate") : r \in known}
  IN IF new = <<>> THEN Answer(c, "batch", replayed) /\ UNCHANGED <<rows, migration>>
     ELSE IF Conflicts("batch", new, v) THEN Fail(c, "state_unavailable")
     ELSE /\ Publish("batch", new, v)
          /\ Answer(c, "batch", replayed \cup {Ack(r, "accepted") : r \in ReceiptRows(new, v)})

BatchCommit(c) ==
  LET cmd == call[c].cmd IN
  /\ call[c].step = "prepared" /\ cmd.op = "batch"
  /\ IF HeadCheck(cmd.generation) # "ok" THEN Fail(c, HeadCheck(cmd.generation))
     ELSE IF head.version # call[c].seen THEN BatchRetries(c)
     ELSE IF BatchCheck(cmd) # "ok" THEN Fail(c, BatchCheck(cmd))
     ELSE IF KnownReceipts(cmd) # call[c].known THEN Fail(c, "state_corrupt")
     ELSE BatchPublishes(c)

(***************************************************************************)
(* reserve: one transaction.  The first reservation wins; a competing one  *)
(* receives the winner.  The client of an account is incidental.           *)
(***************************************************************************)
SameIdentity(a, b) ==
  /\ a.account = b.account
  /\ a.account = "anonymous" => a.client = b.client

ReserveCheck(cmd) ==
  IF Reserved THEN "branch_initialization_pending"
  ELSE IF authority.state = "none"
       THEN IF head.state = "present" THEN "branch_initialization_conflict" ELSE "reserved"
  ELSE IF authority.generation # cmd.generation THEN "routing_generation_mismatch"
  ELSE IF ~SameIdentity(authority.reservation.identity, cmd.reservation.identity)
       THEN "branch_initialization_conflict"
  ELSE IF authority.state = "active" /\ HeadCheck(cmd.generation) # "ok"
       THEN HeadCheck(cmd.generation)
  ELSE "existing"

Reserve(c) ==
  LET cmd == call[c].cmd
      code == ReserveCheck(cmd)
  IN /\ call[c].step = "received" /\ cmd.op = "reserve"
     /\ CASE code = "reserved" ->
               /\ authority' = [authority EXCEPT !.state = "pending",
                                                 !.generation = cmd.generation,
                                                 !.reservation = cmd.reservation]
               /\ Answer(c, code, {cmd.reservation})
               /\ UNCHANGED <<head, snapshots, events, receipts, outbox, delivery, migration>>
          [] code = "existing" -> /\ Answer(c, code, {authority.reservation})
                                  /\ UNCHANGED <<rows, migration>>
          [] OTHER -> Fail(c, code)

(***************************************************************************)
(* initialize: the reservation is captured, the content hashed, and the    *)
(* branch activated if it is still pending.  Only the first transaction    *)
(* looks at the migrations.                                                *)
(***************************************************************************)
FencedAuthority(cmd) ==
  IF authority.state = "none" THEN "branch_not_found"
  ELSE IF authority.generation # cmd.generation THEN "routing_generation_mismatch"
  ELSE "ok"

InitializeCapture(c) ==
  LET cmd == call[c].cmd
      code == IF Reserved THEN "branch_initialization_pending"
              ELSE IF FencedAuthority(cmd) # "ok" THEN FencedAuthority(cmd)
              ELSE IF \/ authority.reservation.id # cmd.intent.id
                      \/ authority.reservation.revision # cmd.intent.revision
                   THEN "branch_initialization_conflict"
              ELSE "ok"
  IN /\ call[c].step = "received" /\ cmd.op = "initialize"
     /\ IF code # "ok" THEN Fail(c, code)
        ELSE /\ call' = [call EXCEPT ![c] = [@ EXCEPT !.step = "prepared",
                                                   !.known = {authority.reservation}]]
             /\ UNCHANGED <<rows, migration>>

\* The active branch answers a replay of its own initialization.
InitializeReplay(cmd) ==
  IF HeadCheck(cmd.generation) # "ok" THEN HeadCheck(cmd.generation)
  ELSE IF authority.intent # cmd.intent THEN "branch_initialization_conflict"
  ELSE IF SnapshotIsSound(Version(0, -1, cmd.intent.content)) THEN "duplicate"
  ELSE "state_corrupt"

Activate(cmd) ==
  LET v == Version(0, -1, cmd.intent.content) IN
  /\ head' = [state |-> "present", origin |-> "lifecycle",
              generation |-> cmd.generation, version |-> v]
  /\ snapshots' = {[version |-> v, parent |-> -1, start |-> -1, ids |-> <<>>]}
  /\ authority' = [authority EXCEPT !.state = "active", !.intent = cmd.intent]
  /\ UNCHANGED <<events, receipts, outbox, delivery, migration>>

InitializeCommit(c) ==
  LET cmd == call[c].cmd IN
  /\ call[c].step = "prepared" /\ cmd.op = "initialize"
  /\ IF FencedAuthority(cmd) # "ok" THEN Fail(c, FencedAuthority(cmd))
     ELSE IF call[c].known # {authority.reservation} THEN Fail(c, "state_corrupt")
     ELSE IF authority.state = "active"
          THEN /\ Answer(c, InitializeReplay(cmd),
                         IF InitializeReplay(cmd) = "duplicate" THEN {authority.intent} ELSE {})
               /\ UNCHANGED <<rows, migration>>
     ELSE IF head.state = "present" \/ snapshots # {} THEN Fail(c, "state_corrupt")
     ELSE Activate(cmd) /\ Answer(c, "created", {cmd.intent})

(***************************************************************************)
(* A migration of the branch (BranchMigration) is admitted only where no   *)
(* head and no authority exists, and gives the branch back on rollback.    *)
(***************************************************************************)
\* Mutant: admission looks for a head but not for a pending authority.
MigrationAdmitsPending ==
  /\ migration = "none"
  /\ head.state = "absent"
  /\ migration' = "open"
  /\ UNCHANGED <<rows, call>>

MigrationAdmits ==
  /\ migration = "none"
  /\ head.state = "absent" /\ authority.state = "none"
  /\ migration' = "open"
  /\ UNCHANGED <<rows, call>>

MigrationRollsBack ==
  /\ migration = "open"
  /\ migration' = "none"
  /\ UNCHANGED <<rows, call>>

\* The process stops: the calls in flight are gone, without an answer.
Crash ==
  /\ \E c \in Calls : call[c].step # "idle"
  /\ call' = [c \in Calls |-> IF call[c].step = "idle" THEN call[c] ELSE Idle]
  /\ UNCHANGED <<rows, migration>>

-----------------------------------------------------------------------------
EmptyBranch ==
  /\ head = [state |-> "absent", origin |-> "lifecycle", generation |-> Undefined,
             version |-> NoVersion]
  /\ snapshots = {}

\* seed: a local fixture has a head and snapshot zero but no authority.
SeededBranch(generation, content) ==
  /\ head = [state |-> "present", origin |-> "fixture", generation |-> generation,
             version |-> Version(0, -1, content)]
  /\ snapshots = {[version |-> Version(0, -1, content), parent |-> -1, start |-> -1,
                   ids |-> <<>>]}

InitWith(branch) ==
  /\ branch
  /\ authority = [state |-> "none", generation |-> Undefined,
                  reservation |-> [id |-> "none"], intent |-> [content |-> "none"]]
  /\ events = {} /\ receipts = {} /\ outbox = {} /\ delivery = {}
  /\ migration = "none"
  /\ call = [c \in Calls |-> Idle]

Init ==
  \/ InitWith(EmptyBranch)
  \/ \E s \in Seeds : InitWith(SeededBranch(s.generation, s.content))

Step(c) ==
  \/ AppendCapture(c)
  \/ AppendCommit(c)
  \/ BatchCapture(c)
  \/ BatchCommit(c)
  \/ Reserve(c)
  \/ InitializeCapture(c)
  \/ InitializeCommit(c)

Next ==
  \/ \E c \in Calls : \E cmd \in Commands : Receive(c, cmd)
  \/ \E c \in Calls : Step(c)
  \/ MigrationAdmits
  \/ MigrationRollsBack
  \/ Crash

Spec == Init /\ [][Next]_vars

-----------------------------------------------------------------------------
(***************************************************************************)
(* Properties.                                                             *)
(***************************************************************************)
\* Types: the steps of a call, the counters of its batch loop, and the states
\* of the authority and head rows that the CHECK constraints and the record
\* validators of sqlite-commits.ts allow.
TypeOK ==
  /\ authority.state \in {"none", "pending", "active"}
  /\ head.state \in {"absent", "present"}
  /\ head.version.seq \in -1..(MaxSafe - 1)
  /\ head.version.snapshot \in -1..MaxSafe
  /\ migration \in {"none", "open"}
  /\ \A c \in Calls : /\ call[c].step \in {"idle", "received", "prepared"}
                      /\ call[c].attempt \in 0..MaxAttempts
                      /\ call[c].step = "received" => call[c].attempt < MaxAttempts

\* The history is whole: the snapshots are numbered 0..head without a gap or a
\* duplicate, the event sequences 0..head likewise, every snapshot continues
\* where its parent ended and names exactly the events stored for it, in
\* order, and the head is the last snapshot.
HistoryIsWhole ==
  IF head.state = "absent" THEN snapshots = {} /\ events = {} /\ receipts = {}
  ELSE
  /\ \A s, t \in snapshots : s.version.snapshot = t.version.snapshot => s = t
  /\ \A e, f \in events : e.seq = f.seq \/ e.event.id = f.event.id => e = f
  /\ {s.version.snapshot : s \in snapshots} = 0..head.version.snapshot
  /\ {e.seq : e \in events} = 0..head.version.seq
  /\ \E s \in snapshots : s.version = head.version
  /\ \A s \in snapshots : s.version.snapshot > 0 =>
       /\ \E p \in snapshots : /\ p.version.snapshot = s.version.snapshot - 1
                               /\ p.version.seq = s.start - 1
       /\ \A q \in s.start..s.version.seq : \E e \in events :
            e.seq = q /\ e.snapshot = s.version.snapshot /\ e.event.id = s.ids[q - s.start + 1]

EventAt(q) == CHOOSE e \in events : e.seq = q

EventsBetween(p, s) ==
  [i \in 1..(s.version.seq - p.version.seq) |-> EventAt(p.version.seq + i).event]

\* No update is lost: the text of every snapshot is the text of its parent
\* with the operations of exactly its own events applied in sequence order.
NoLostUpdate ==
  \A s, p \in snapshots : p.version.snapshot = s.version.snapshot - 1 =>
    s.version.content = PatchAll(p.version.content, EventsBetween(p, s))

\* An event that states which sequence it follows is stored directly behind
\* it, and an append lands on exactly the version its client expected, however
\* many other calls ran while it was prepared.
EventsLandWhereExpected ==
  /\ \A e \in events : e.event.follows \in {Undefined, e.seq - 1}
  /\ \A c \in Calls : call[c].answer = "accepted" =>
       \E a \in call[c].acks, p \in snapshots :
         /\ p.version = call[c].cmd.expected
         /\ a.receipt.version.snapshot = p.version.snapshot + 1

Told(c) == IF call[c].cmd.op \in {"append", "batch"} THEN call[c].acks ELSE {}

\* What a client was told stays true: every acknowledgement is the stored
\* receipt, and no two calls are told that they were the one that was
\* accepted for an event.
AnswersAreDurable ==
  /\ \A c \in Calls : Told(c) # {} =>
       /\ \A a \in Told(c) : a.receipt \in receipts
       /\ {a.receipt.hash : a \in Told(c)} =
            {call[c].cmd.events[i] : i \in DOMAIN call[c].cmd.events}
  /\ \A c, d \in Calls : \A a \in Told(c), b \in Told(d) :
       (/\ a.status = "accepted" /\ b.status = "accepted"
        /\ a.receipt.id = b.receipt.id) => c = d

\* Every publication has its outbox row, registered for delivery in the same
\* transaction, and no outbox row speaks of something that was not published.
OutboxWitnessesEveryCommit ==
  /\ \A s \in snapshots : s.version.snapshot > 0 =>
       \E o \in outbox : /\ o.version = s.version
                         /\ o.ids = {s.ids[i] : i \in DOMAIN s.ids}
  /\ Cardinality(outbox) = Cardinality({s \in snapshots : s.version.snapshot > 0})
  /\ delivery = {o.outboxId : o \in outbox}

\* The validators that re-read the rows never fire on rows these operations
\* wrote: no interleaving makes a call report state_corrupt.
NeverCorrupt ==
  \A c \in Calls : call[c].answer # "state_corrupt"

\* state_unavailable without a failing store has one reason: a batch saw the
\* head move between each of its MaxAttempts preparations and its commit.
GivesUpOnlyUnderContention ==
  \A c \in Calls : call[c].answer = "state_unavailable" =>
    /\ call[c].cmd.op = "batch"
    /\ head.version.snapshot >= call[c].since + MaxAttempts

\* A branch has one owner: while a migration of it is open no reservation
\* and no head exists, although initialize looks only once.
OneOwner ==
  migration = "open" => authority.state = "none" /\ head.state = "absent"

\* Nothing that was stored is changed or removed again.
HistoryIsAppendOnly ==
  [][/\ snapshots \subseteq snapshots' /\ events \subseteq events'
     /\ receipts \subseteq receipts' /\ outbox \subseteq outbox'
     /\ delivery \subseteq delivery']_vars

\* The first reservation stays the reservation, and the first initialization
\* stays the initialization, whatever later callers send.
WinnerIsImmutable ==
  [][/\ authority.state # "none" =>
          /\ authority'.reservation = authority.reservation
          /\ authority'.generation = authority.generation
          /\ authority'.state # "none"
     /\ authority.state = "active" =>
          authority'.state = "active" /\ authority'.intent = authority.intent]_vars

\* Matching identity precedes predecessor checks: a command whose events are
\* all stored is never refused for its predecessor, however old that is.
ReplayPrecedesPredecessor ==
  [][\A c \in Calls :
       call[c].step # "idle" /\ call'[c].answer = "diff_predecessor_mismatch" =>
         \E i \in DOMAIN call[c].cmd.events :
           \A r \in receipts : r.hash # call[c].cmd.events[i]]_vars

\* One transaction of append, appendBatch or initialize publishes all of its
\* rows: what it stores is a whole history, with the outbox rows that announce it.
PublicationsAreWhole == HistoryIsWhole /\ OutboxWitnessesEveryCommit

\* Every answer is true when it is given and stays true: an acceptance is
\* durable and where the client expected it, the validators that re-read the
\* rows never report state_corrupt, and state_unavailable means contention.
AnswersAreTrue ==
  /\ AnswersAreDurable
  /\ EventsLandWhereExpected
  /\ NeverCorrupt
  /\ GivesUpOnlyUnderContention

-----------------------------------------------------------------------------
(***************************************************************************)
(* The rows implement an atomic log (module BranchLog).                    *)
(***************************************************************************)
LogOfRows ==
  [i \in 1..(head.version.seq + 1) |->
     [id |-> EventAt(i - 1).event.id, snapshot |-> EventAt(i - 1).snapshot]]

AnswersOfCalls ==
  [c \in Calls |->
     {[id |-> a.receipt.id, seq |-> a.receipt.seq, snapshot |-> a.receipt.version.snapshot]
        : a \in Told(c)}]

Log == INSTANCE BranchLog WITH log <- LogOfRows, answers <- AnswersOfCalls

\* append and appendBatch, whose two transactions interleave with others,
\* behave like single atomic appends to one log that answer truthfully.
ImplementsLog == Log!Spec
=============================================================================
