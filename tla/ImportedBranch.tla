--------------------------- MODULE ImportedBranch ---------------------------
(***************************************************************************)
(* What a branch of the SQLite plane answers once it is active: snapshots, *)
(* events, runtime facts and NullMem records                               *)
(* (src/server/state-plane/sqlite-commits.ts), whether it was created      *)
(* there or imported from the legacy store                                 *)
(* (src/server/state-plane/sqlite-migration.ts).                           *)
(*                                                                         *)
(* An imported row is stored twice: in the plane's own form and as the     *)
(* legacy store had it.  Reads check the first against the second and      *)
(* answer the second.  Every operation re-validates what it reads and      *)
(* answers state_corrupt at the first disagreement.  On the way out the    *)
(* application adapter and the RPC router                                  *)
(* (packages/nulldown-state-plane/src/shard-router.ts) check once more.    *)
(*                                                                         *)
(* A transaction is one step; each operation awaits a hash or an RPC       *)
(* before or between its transactions, and others run there.               *)
(***************************************************************************)
EXTENDS Integers, Sequences, SequencesExt, FiniteSets, TLC

CONSTANTS
  Callers,      \* requests in flight
  Captures,     \* what the legacy store may hand over, see Admits
  Texts,        \* contents of the document, standing for their hashes
  PublicName,   \* by runtime fact identity: its colon-joined public id
  Sends,        \* facts the clients send: name, body, text it was made on, by whom
  Owner, Reader,\* an account that may write the branch, and one that may not
  Kinds, Ids,   \* NullMem identities are pairs of these
  Times,        \* values of the clock
  Ops,          \* operations the requests perform
  Limit,        \* rows of one page (200)
  MaxBatch, MaxSnapshots, MaxRevision, MaxFacts,  \* bounds
  None

BranchConstants ==
  /\ \A q \in Sends : q.name \in DOMAIN PublicName
  /\ Limit \in Nat \ {0}
  /\ Owner /= Reader /\ None \notin {Owner, Reader} \cup Texts

VARIABLES
  snaps,    \* branch_snapshots by id + 1; empty until the branch is active
  events,   \* branch_events by seq + 1
  facts,    \* branch_runtime_facts, receipts and outbox by seq + 1
  factHead, \* branch_runtime_fact_heads, -1 without a row
  rows,     \* branch_nullmem_records in rowid order
  base,     \* branch_nullmem_import_baseline, None without a row
  rev,      \* branch_nullmem_heads, 0 without a row
  outbox,   \* branch_nullmem_outbox by revision
  call      \* each request: operation, progress, answer

history == <<snaps, events>>
factTables == <<facts, factHead>>
memory == <<rows, base, rev, outbox>>
vars == <<history, factTables, memory, call>>

Idle == [op |-> "idle", pc |-> "done", got |-> None]
Active == snaps /= <<>>
HeadId == Len(snaps) - 1
EventHead == snaps[Len(snaps)].last
Set(c, r) == call' = [call EXCEPT ![c] = r]
Answer(c, r) == Set(c, [call[c] EXCEPT !.pc = "done", !.got = r])
Done(c, status) == Set(c, [op |-> call[c].op, pc |-> "done", got |-> [status |-> status]])
Refuse(c, code) == Answer(c, [status |-> code])

Init ==
  /\ snaps = <<>> /\ events = <<>> /\ facts = <<>> /\ factHead = -1
  /\ rows = <<>> /\ base = None /\ rev = 0 /\ outbox = <<>>
  /\ call = [c \in Callers |-> Idle]

-----------------------------------------------------------------------------
(* Becoming active: initialization, or activation of a verified capture. *)

\* The form of a snapshot: whether it carries its hash, and is a checkpoint.
Whole == [hashed |-> TRUE, checkpointed |-> TRUE]

Create ==
  /\ ~Active
  /\ \E t \in Texts : snaps' = <<[text |-> t, first |-> 0, last |-> -1, form |-> Whole]>>
  /\ UNCHANGED <<events, factTables, memory, call>>

Matches(c, text) == {i \in 1..Len(c.snaps) : c.snaps[i].text = text}

\* The snapshot a fact is pinned to: the one it names, or the only one with
\* the content it was made on.
RuntimeSourceSnapshotId(c, f) ==
  IF f.snap /= None THEN f.snap ELSE (CHOOSE i \in Matches(c, f.text) : TRUE) - 1

NullMemRecordIdentity(r) == <<r.kind, r.id>>

\* validateRecords.  Snapshots have consecutive ids; each but the first owns a
\* range of events that replays to its content, and no event is owned twice.
AdmitsSnapshots(c) ==
  /\ c.snaps /= <<>> /\ c.snaps[1].last = -1
  /\ \A i \in 2..Len(c.snaps) :
       LET s == c.snaps[i] IN
       /\ 0 <= s.first /\ s.first <= s.last /\ s.last < Len(c.events)
       /\ c.events[s.last + 1].text = s.text
       /\ \A q \in s.first .. s.last :
            \A j \in 2..(i - 1) : q \notin c.snaps[j].first .. c.snaps[j].last

\* Every event is owned, by the snapshot it names if it names one.
AdmitsEvents(c) ==
  \A q \in 0..(Len(c.events) - 1) :
    \E i \in 2..Len(c.snaps) : /\ q \in c.snaps[i].first .. c.snaps[i].last
                               /\ c.events[q + 1].snap \in {None, i - 1}

\* Facts were made on a stored content and can be pinned to one snapshot.
AdmitsFacts(c) ==
  \A k \in 1..Len(c.facts) :
    LET f == c.facts[k] IN
    IF f.snap = None THEN Cardinality(Matches(c, f.text)) = 1
    ELSE f.snap + 1 \in Matches(c, f.text)

\* Memory has at most one record of each identity.
AdmitsMemory(c) ==
  \A i, j \in 1..Len(c.memory) :
    NullMemRecordIdentity(c.memory[i]) = NullMemRecordIdentity(c.memory[j]) => i = j

Admits(c) == AdmitsSnapshots(c) /\ AdmitsEvents(c) /\ AdmitsFacts(c) /\ AdmitsMemory(c)

\* Which snapshot an event belongs to.
SnapshotOf(c, seq) ==
  CHOOSE i \in 2..Len(c.snaps) : seq \in c.snaps[i].first .. c.snaps[i].last

\* publishRuntimeFact: the stored event names its snapshot; its source stays.
ImportedFact(c, k) ==
  LET f == c.facts[k] IN
  [name |-> f.name, body |-> f.body, text |-> f.text, actor |-> f.actor,
   snap |-> RuntimeSourceSnapshotId(c, f), seq |-> k - 1, raw |-> f]

\* publish, in one transaction: the head is the last snapshot, rows keep their
\* source beside their own form.
PublishHistory(c) ==
  /\ snaps' = c.snaps
  /\ events' = [q \in 1..Len(c.events) |->
                  [text |-> c.events[q].text, snap |-> SnapshotOf(c, q - 1) - 1,
                   raw |-> c.events[q]]]

\* The records, and the same as the baseline of revision zero.
PublishMemory(c) == rows' = c.memory /\ base' = c.memory

Import ==
  /\ ~Active
  /\ \E c \in Captures :
       /\ Admits(c) /\ PublishHistory(c) /\ PublishMemory(c)
       /\ facts' = [k \in 1..Len(c.facts) |-> ImportedFact(c, k)]
       /\ factHead' = Len(c.facts) - 1
  /\ UNCHANGED <<rev, outbox, call>>

\* A commit of n events; the last one leaves the new content.
Commit ==
  /\ Active /\ Len(snaps) < MaxSnapshots
  /\ \E n \in 1..MaxBatch, t \in Texts :
       /\ snaps' = Append(snaps, [text |-> t, first |-> EventHead + 1, last |-> EventHead + n,
                                  form |-> Whole])
       /\ events' = events \o [i \in 1..n |-> [text |-> t, snap |-> Len(snaps), raw |-> None]]
  /\ UNCHANGED <<factTables, memory, call>>

-----------------------------------------------------------------------------
(* Integrity of the stored rows, checked by every operation that reads them. *)

\* snapshotRecord; a snapshot's own form is always whole.
SnapshotSound(id) ==
  LET s == snaps[id + 1] IN
  IF id = 0 THEN s.last = -1
  ELSE s.first = snaps[id].last + 1 /\ s.first <= s.last

\* nullMemState's replay of one outbox entry over the expected records.
Applied(records, e) ==
  IF e.op = "put"
  THEN {r \in records : NullMemRecordIdentity(r) /= NullMemRecordIdentity(e.record)}
         \cup {e.record}
  ELSE {r \in records : r.id /= e.id}

Baseline == IF base = None THEN <<>> ELSE base

\* validateNullMemState: one entry per revision, at heads that never recede,
\* which replay to exactly the stored records.
ValidateNullMemState ==
  /\ Len(outbox) = rev
  /\ \A i \in 1..rev :
       /\ outbox[i].revision = i
       /\ outbox[i].head <= HeadId /\ SnapshotSound(outbox[i].head)
       /\ i > 1 => outbox[i - 1].head <= outbox[i].head
       /\ outbox[i].actor = Owner
  /\ Cardinality(ToSet(rows)) = Len(rows)
  /\ FoldLeft(Applied, ToSet(Baseline), outbox) = ToSet(rows)

\* runtimeHead.
FactHeadSound == factHead = Len(facts) - 1

\* runtimeReceipt: the row's snapshot has the content the fact was made on,
\* and an imported row is its source with the snapshot filled in.
FactSound(f) ==
  /\ f.snap \in 0..HeadId /\ SnapshotSound(f.snap) /\ snaps[f.snap + 1].text = f.text
  /\ f.raw = None => f.actor /= None
  /\ f.raw /= None => /\ f.raw.snap \in {None, f.snap}
                      /\ <<f.raw.name, f.raw.body, f.raw.text>> = <<f.name, f.body, f.text>>

-----------------------------------------------------------------------------
(* NullMem.  The import baseline is hashed before the transaction. *)

\* createdAt descending, then the record id.
Before(r, s) == r.at > s.at \/ (r.at = s.at /\ r.id < s.id)

\* Insertion into a selection of at most n, behind its equals.
Insert(selected, r, n) ==
  LET later == {i \in 1..Len(selected) : Before(r, selected[i])}
      at    == CHOOSE i \in later : \A j \in later : i <= j
      grown == IF later = {} THEN Append(selected, r) ELSE InsertAt(selected, at, r)
  IN SubSeq(grown, 1, IF Len(grown) > n THEN n ELSE Len(grown))

\* queryNullMemRecords: the first n of the records, of one kind or of all.
QueryNullMemRecords(records, kind, n) ==
  FoldLeft(LAMBDA sel, r : IF kind \in {None, r.kind} THEN Insert(sel, r, n) ELSE sel,
           <<>>, records)

StartQuery(c) ==
  /\ "query" \in Ops
  /\ \E k \in Kinds \cup {None} :
       Set(c, [op |-> "query", pc |-> "hashed", got |-> None, kind |-> k])
  /\ UNCHANGED <<history, factTables, memory>>

StartPut(c) ==
  /\ "put" \in Ops
  /\ \E k \in Kinds, i \in Ids, a \in {Owner, Reader} :
       Set(c, [op |-> "put", pc |-> "hashed", got |-> None, kind |-> k, id |-> i, by |-> a])
  /\ UNCHANGED <<history, factTables, memory>>

StartDelete(c) ==
  /\ "delete" \in Ops
  /\ \E i \in Ids, a \in {Owner, Reader} :
       Set(c, [op |-> "delete", pc |-> "hashed", got |-> None, id |-> i, by |-> a])
  /\ UNCHANGED <<history, factTables, memory>>

\* validateNullMemQueryResult, of the adapter and of the router.
ValidQueryResult(revision, records, kind) ==
  /\ ~(revision = 0 /\ records /= <<>>)
  /\ QueryNullMemRecords(records, kind, Limit) = records

QueryNullMem(c) ==
  LET q == call[c]  found == QueryNullMemRecords(rows, q.kind, Limit) IN
  /\ q.op = "query" /\ q.pc = "hashed"
  /\ IF ~Active THEN Done(c, "branch_not_found")
     ELSE IF ~ValidateNullMemState THEN Done(c, "state_corrupt")
     ELSE IF ~ValidQueryResult(rev, found, q.kind) THEN Done(c, "memory_refused")
     ELSE Done(c, "ok")
  /\ UNCHANGED <<history, factTables, memory>>

\* ON CONFLICT DO UPDATE keeps the row where it is.
Upsert(r) ==
  LET same(s) == NullMemRecordIdentity(s) = NullMemRecordIdentity(r) IN
  IF \E i \in 1..Len(rows) : same(rows[i])
  THEN [i \in 1..Len(rows) |-> IF same(rows[i]) THEN r ELSE rows[i]]
  ELSE Append(rows, r)

\* publishNullMem: the head row and the outbox row.
PublishNullMem(entry) ==
  /\ rev' = rev + 1
  /\ outbox' = Append(outbox, entry)

\* The checks put and delete share, in their order.
MemoryRefusal(q) ==
  IF ~Active THEN "branch_not_found"
  ELSE IF ~ValidateNullMemState THEN "state_corrupt"
  ELSE IF q.by /= Owner THEN "forbidden" ELSE None

PutNullMem(c) ==
  LET q == call[c] IN
  /\ q.op = "put" /\ q.pc = "hashed"
  /\ \/ /\ MemoryRefusal(q) /= None
        /\ Done(c, MemoryRefusal(q)) /\ UNCHANGED <<rows, rev, outbox>>
     \/ /\ MemoryRefusal(q) = None /\ rev < MaxRevision
        /\ \E now \in Times :
             LET r == [kind |-> q.kind, id |-> q.id, at |-> now] IN
             /\ rows' = Upsert(r)
             /\ PublishNullMem([op |-> "put", revision |-> rev + 1, head |-> HeadId,
                                actor |-> q.by, record |-> r])
             /\ Done(c, "ok")
  /\ UNCHANGED <<history, factTables, base>>

\* Mutant: only the fact of that id is deleted, not the procedure.
RemainAfterOneKind(id) == SelectSeq(rows, LAMBDA r : r.id /= id \/ r.kind /= "fact")

Remain(id) == SelectSeq(rows, LAMBDA r : r.id /= id)

DeleteNullMem(c) ==
  LET q == call[c] IN
  /\ q.op = "delete" /\ q.pc = "hashed"
  /\ \/ /\ MemoryRefusal(q) /= None
        /\ Done(c, MemoryRefusal(q)) /\ UNCHANGED <<rows, rev, outbox>>
     \/ /\ MemoryRefusal(q) = None /\ rev < MaxRevision
        /\ rows' = Remain(q.id)
        /\ PublishNullMem([op |-> "delete", revision |-> rev + 1, head |-> HeadId,
                           actor |-> q.by, id |-> q.id])
        /\ Done(c, "ok")
  /\ UNCHANGED <<history, factTables, base>>

-----------------------------------------------------------------------------
(* Runtime facts.  The intent is hashed before the transaction. *)

StartAppend(c) ==
  /\ "append" \in Ops
  /\ \E f \in Sends :
       Set(c, [op |-> "append", pc |-> "hashed", got |-> None,
               name |-> f.name, body |-> f.body, text |-> f.text, by |-> f.by])
  /\ UNCHANGED <<history, factTables, memory>>

\* runtimeFactIntent: all the client sent and who sent it.
Intent(f) == <<f.name, f.body, f.text, f.actor>>
Sent(q) == <<q.name, q.body, q.text, q.by>>

Stored(name) == {k \in 1..Len(facts) : facts[k].name = name}
Receipt(k) == [status |-> "ok", seq |-> facts[k].seq, snap |-> facts[k].snap]

\* Mutant: the receipt is looked up only for a fact made on the current content.
ReplayedIfCurrent(q) ==
  IF q.text = snaps[Len(snaps)].text THEN Stored(q.name) ELSE {}

\* An existing identity is answered from its receipt, whatever the head is now.
Replayed(q) == Stored(q.name)

\* The checks of an append in their order; a stored identity is a replay.
AppendRefusal(q) ==
  IF ~Active THEN "branch_not_found"
  ELSE IF q.by /= Owner THEN "forbidden"
  ELSE IF ~FactHeadSound \/ \E k \in Stored(q.name) : ~FactSound(facts[k]) THEN "state_corrupt"
  ELSE IF \E k \in Replayed(q) : Intent(facts[k]) /= Sent(q) THEN "idempotency_key_reused"
  ELSE IF Replayed(q) /= {} THEN None
  ELSE IF \E k \in 1..Len(facts) : PublicName[facts[k].name] = PublicName[q.name]
  THEN "idempotency_key_reused"
  ELSE IF q.text = None THEN "source_hash_required"
  ELSE IF q.text /= snaps[Len(snaps)].text THEN "stale_source" ELSE None

\* appendRuntimeFact: fact, receipt, head and outbox in one transaction.
AppendRuntimeFact(c) ==
  LET q == call[c] IN
  /\ q.op = "append" /\ q.pc = "hashed"
  /\ \/ /\ AppendRefusal(q) /= None
        /\ Refuse(c, AppendRefusal(q)) /\ UNCHANGED factTables
     \/ /\ AppendRefusal(q) = None
        /\ \E k \in Replayed(q) : Answer(c, Receipt(k))
        /\ UNCHANGED factTables
     \/ /\ AppendRefusal(q) = None /\ Replayed(q) = {} /\ Len(facts) < MaxFacts
        /\ facts' = Append(facts, [name |-> q.name, body |-> q.body, text |-> q.text,
                                   actor |-> q.by, snap |-> HeadId, seq |-> factHead + 1,
                                   raw |-> None])
        /\ factHead' = factHead + 1
        /\ Answer(c, [status |-> "ok", seq |-> factHead + 1, snap |-> HeadId])
  /\ UNCHANGED <<history, memory>>

\* readRuntimeFactHead: the horizon of the poll.
StartPage(c) ==
  /\ "page" \in Ops
  /\ \E after \in -1..(MaxFacts - 1) :
       Set(c, [op |-> "page", pc |-> "page", got |-> None, after |-> after, head |-> factHead])
  /\ Active
  /\ UNCHANGED <<history, factTables, memory>>

\* The next rows up to the horizon, at most Limit.
Window(q) ==
  LET n == q.head - q.after
  IN SubSeq(facts, q.after + 2, q.after + 1 + IF n < 0 THEN 0 ELSE IF n < Limit THEN n ELSE Limit)

\* The page's transaction; the hashes of its rows are awaited after it.
ReadRuntimeFacts(c) ==
  LET q == call[c] IN
  /\ q.op = "page" /\ q.pc = "page"
  /\ IF ~FactHeadSound \/ \E f \in ToSet(Window(q)) : ~FactSound(f)
     THEN Refuse(c, "state_corrupt")
     ELSE IF q.head > factHead THEN Refuse(c, "invalid_command")
     ELSE Set(c, [op |-> "page", pc |-> "return", got |-> None, after |-> q.after, head |-> q.head,
                  page |-> Window(q)])
  /\ UNCHANGED <<history, factTables, memory>>

\* What leaves the plane: the source of an imported fact.
Shown(f) == IF f.raw = None THEN [snap |-> f.snap, actor |-> f.actor]
            ELSE [snap |-> f.raw.snap, actor |-> f.raw.actor]

\* validateRuntimeFactEvent, of the router.
ValidFactEvent(e) == e.snap /= None /\ e.actor /= None

ReturnRuntimeFacts(c) ==
  LET q == call[c] IN
  /\ q.op = "page" /\ q.pc = "return"
  /\ IF \E f \in ToSet(q.page) : ~ValidFactEvent(Shown(f)) THEN Refuse(c, "rejected")
     ELSE Answer(c, [status |-> "ok", seqs |-> [i \in 1..Len(q.page) |-> q.page[i].seq]])
  /\ UNCHANGED <<history, factTables, memory>>

-----------------------------------------------------------------------------
(* History: the adapter pins a head, then reads pages up to it. *)

Pin(op, head) == [op |-> op, pc |-> "page", got |-> None, head |-> head,
                  text |-> snaps[head + 1].text, read |-> <<>>]

StartList(c) ==
  /\ Active /\ "list" \in Ops
  /\ Set(c, Pin("list", HeadId) @@ [after |-> -1])
  /\ UNCHANGED <<history, factTables, memory>>

\* readRange: the head of now.
StartRange(c) ==
  /\ Active /\ "range" \in Ops
  /\ \E a, b \in 0..EventHead :
       a <= b /\ Set(c, Pin("range", HeadId) @@ [next |-> a, end |-> b])
  /\ UNCHANGED <<history, factTables, memory>>

\* The router's snapshot and the adapter's captureSnapshot.
RouterSnapshot(s) == s.form.checkpointed /\ s.form.hashed
CaptureSnapshot(s) == s.form.hashed

\* queryDocument: one snapshot, its content, and events no later than it.
QueryDocument(c) ==
  /\ Active /\ "document" \in Ops
  /\ \E id \in 0..HeadId :
       IF ~SnapshotSound(id) THEN Set(c, [Idle EXCEPT !.got = [status |-> "state_corrupt"]])
       ELSE IF ~(RouterSnapshot(snaps[id + 1]) /\ CaptureSnapshot(snaps[id + 1]))
       THEN Set(c, [Idle EXCEPT !.got = [status |-> "rejected"]])
       ELSE \E a, b \in 0..snaps[id + 1].last :
              a <= b /\ Set(c, Pin("range", id) @@ [next |-> a, end |-> b])
  /\ UNCHANGED <<history, factTables, memory>>

Least(a, b) == IF a < b THEN a ELSE b

\* The last id of a page, of the router.
ListEnd(q) == Least(q.head, q.after + Limit)

\* listSnapshots of the plane: the pinned head, then each row of the page.
SnapshotPage(q) ==
  IF snaps[q.head + 1].text /= q.text THEN "snapshot_version_mismatch"
  ELSE IF \E id \in (q.after + 1)..ListEnd(q) : ~SnapshotSound(id) THEN "state_corrupt"
  ELSE "ok"

\* listSnapshotsForBranch, one round of its loop.
ListSnapshots(c) ==
  LET q == call[c]
      end  == ListEnd(q)
      page == SubSeq(snaps, q.after + 2, end + 1)
      read == q.read \o [i \in 1..Len(page) |-> q.after + i] IN
  /\ q.op = "list" /\ q.pc = "page"
  /\ IF SnapshotPage(q) /= "ok" THEN Refuse(c, SnapshotPage(q))
     ELSE IF \E s \in ToSet(page) : ~RouterSnapshot(s) \/ ~CaptureSnapshot(s)
     THEN Refuse(c, "rejected")
     ELSE IF end = q.head THEN Answer(c, [status |-> "ok", ids |-> read])
     ELSE Set(c, [q EXCEPT !.after = end, !.read = read])
  /\ UNCHANGED <<history, factTables, memory>>

\* readEvents of the plane: every row of the range is there, in the range of a
\* snapshot up to the pinned one.
EventSound(seq, q) ==
  /\ seq < Len(events)
  /\ LET e == events[seq + 1] IN
     /\ e.snap \in 1..q.head /\ SnapshotSound(e.snap)
     /\ seq \in snaps[e.snap + 1].first .. snaps[e.snap + 1].last
     /\ e.raw /= None => e.raw.snap \in {None, e.snap} /\ e.raw.text = e.text

\* readEvents of the router.
RouterEvent(e) == e.raw /= None => e.raw.snap /= None

\* readEventsBySeqRange and queryDocument, one round of their loops.
ReadEvents(c) ==
  LET q == call[c]
      end == Least(q.end, q.next + Limit - 1)
      read == q.read \o [i \in 1..(end - q.next + 1) |-> q.next + i - 1] IN
  /\ q.op = "range" /\ q.pc = "page"
  /\ IF \E s \in q.next..end : ~EventSound(s, q) THEN Refuse(c, "state_corrupt")
     ELSE IF \E s \in q.next..end : ~RouterEvent(events[s + 1]) THEN Refuse(c, "rejected")
     ELSE IF end = q.end THEN Answer(c, [status |-> "ok", seqs |-> read])
     ELSE Set(c, [q EXCEPT !.next = end + 1, !.read = read])
  /\ UNCHANGED <<history, factTables, memory>>

-----------------------------------------------------------------------------
Start(c) ==
  /\ call[c].pc = "done"
  /\ StartQuery(c) \/ StartPut(c) \/ StartDelete(c) \/ StartAppend(c) \/ StartPage(c)
     \/ StartList(c) \/ StartRange(c) \/ QueryDocument(c)

Next ==
  \/ Create \/ Import \/ Commit
  \/ \E c \in Callers :
       \/ Start(c)
       \/ QueryNullMem(c) \/ PutNullMem(c) \/ DeleteNullMem(c)
       \/ AppendRuntimeFact(c) \/ ReadRuntimeFacts(c) \/ ReturnRuntimeFacts(c)
       \/ ListSnapshots(c) \/ ReadEvents(c)

Spec == Init /\ [][Next]_vars

-----------------------------------------------------------------------------
Got(c, status) == call[c].got /= None /\ call[c].got.status = status

\* The integrity checks never fire on what the plane itself wrote or imported:
\* however memory writes, deletes, commits and facts of several requests
\* follow an import or a creation, the records stay what the outbox replays
\* to, every fact stays pinned to the content it was made on, every event
\* stays in its snapshot's range, and no request is answered state_corrupt
\* (validateNullMemState, runtimeReceipt, snapshotRecord, readEvents).
PlaneNeverCorrupt ==
  /\ \A c \in Callers : ~Got(c, "state_corrupt")
  /\ Active => ValidateNullMemState /\ \A f \in ToSet(facts) : FactSound(f)

\* What a request is told is a state the branch had: a page of facts is the
\* consecutive numbers after the cursor up to the horizon captured first, a
\* listing is every snapshot up to the pinned head, an event range has no
\* gap, whatever was appended in between; and a fact sent again, after any
\* number of commits, is answered with the number it was first given.
AnswersAreTheHistory ==
  /\ \A c \in Callers : Got(c, "idempotency_key_reused") =>
       \A k \in Stored(call[c].name) : Intent(facts[k]) /= Sent(call[c])
  /\ \A c \in Callers : Got(c, "ok") =>
    LET q == call[c] IN
    CASE q.op = "page" ->
           q.got.seqs = [i \in 1..Least(Limit, IF q.head > q.after THEN q.head - q.after ELSE 0)
                           |-> q.after + i]
      [] q.op = "list" -> q.got.ids = [i \in 1..(q.head + 1) |-> i - 1]
      [] q.op = "range" -> \A i \in 1..Len(q.got.seqs) - 1 :
                             q.got.seqs[i + 1] = q.got.seqs[i] + 1
      [] q.op = "append" -> /\ facts[q.got.seq + 1].name = q.name
                            /\ \A k \in Stored(q.name) : k = q.got.seq + 1
      [] OTHER -> TRUE

\* The memory records an import published can be queried: what the plane answers
\* is not refused by the validation in the adapter and the router
\* (validateNullMemQueryResult).
ImportedMemoryIsRead == \A c \in Callers : ~Got(c, "memory_refused")
=============================================================================
