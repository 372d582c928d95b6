---------------------------- MODULE MemoryPlane ----------------------------
(***************************************************************************)
(* MemoryBranchCommitStatePlane of                                         *)
(* src/server/state-plane/memory-commits.ts, the in-memory reference that  *)
(* the contract tests hold against the SQLite authority: reservation and   *)
(* initialization, append, appendBatch, branch-local memory (NullMem) and  *)
(* runtime facts of one branch.                                            *)
(*                                                                         *)
(* All of a branch is one State object, replaced as a whole by every       *)
(* mutation.  append, appendBatch and initialize await hashing between the *)
(* read of that object and its replacement; NullMem and runtime-fact       *)
(* mutations run to the end without an await and may land in between.      *)
(* Every mutation lengthens one of the object's sequences, so comparing    *)
(* two objects by identity is comparing their values.  A hash is taken for *)
(* what it hashes, and the text of a snapshot is the bodies that made it.  *)
(***************************************************************************)
EXTENDS Integers, Sequences, FiniteSets, Functions, Null

CONSTANTS
    Calls,         \* concurrently executing calls
    Commands,      \* what clients send
    MaxPreparations,  \* preparations of one batch before it gives up (32)
    MaxRevision    \* bound: memory revisions after which no more are asked for

OfOp(op) == {cmd \in Commands : cmd.op = op}
Events == {cmd.event : cmd \in OfOp("append")} \cup UNION {Range(cmd.events) : cmd \in OfOp("batch")}
Ids == {e.id : e \in Events}
Bodies == {e.body : e \in Events}
Contents == {cmd.content : cmd \in OfOp("initialize")}
Records == {cmd.record : cmd \in OfOp("put")}
Mutations == [cmd : OfOp("put") \cup OfOp("delete"), snapshot : Nat]
Facts == [id : {cmd.id : cmd \in OfOp("fact")}, body : {cmd.body : cmd \in OfOp("fact")},
          snapshot : Nat]

\* The State objects of a branch.
States == [log : Seq([id : Ids, body : Bodies, snapshot : Nat]), snapshot : Nat,
           content : Contents, records : SUBSET Records, memory : Seq(Mutations),
           facts : Seq(Facts)]

ASSUME MemoryConstants ==
    /\ None \notin States
    /\ MaxPreparations \in Nat /\ MaxRevision \in Nat
    /\ \A cmd \in OfOp("batch") : cmd.events \in Seq(Events)

VARIABLES
    authority,   \* the entry of authorities and initializations
    state,       \* the State object of the branch, None before initialization
    registered,    \* ids registered for delivery
    call         \* the calls in progress and their last answers

memVars == <<authority, state, registered, call>>

NoAnswer == [code |-> "none", acks |-> {}, kept |-> None]
Unasked == [step |-> "idle", cmd |-> None, seen |-> None, attempt |-> 0, answer |-> NoAnswer]

Empty(content) == [log |-> <<>>, snapshot |-> 0, content |-> content,
                   records |-> {}, memory |-> <<>>, facts |-> <<>>]

MemInit ==
    /\ authority = [state |-> "none", identity |-> None, content |-> None]
    /\ state = None
    /\ registered = {}
    /\ call = [c \in Calls |-> Unasked]

Revision == IF state = None THEN 0 ELSE Len(state.memory)

Receive(c, cmd) ==
    /\ call[c].step = "idle"
    /\ cmd.op \in {"put", "delete"} => Revision < MaxRevision
    /\ call' = [call EXCEPT ![c] = [Unasked EXCEPT !.step = "received", !.cmd = cmd]]
    /\ UNCHANGED <<authority, state, registered>>

Cmd(c) == call[c].cmd
At(c, step, op) == call[c].step = step /\ Cmd(c).op = op

Tell(c, answer) == call' = [call EXCEPT ![c] = [Unasked EXCEPT !.answer = answer]]
Code(code) == [NoAnswer EXCEPT !.code = code]
Keeps(code, kept) == [NoAnswer EXCEPT !.code = code, !.kept = kept]
Refuse(c, code) == Tell(c, Code(code)) /\ UNCHANGED <<authority, state, registered>>

\* The error state() throws, or "ok".
StateError ==
    CASE state # None -> "ok"
      [] authority.state = "pending" -> "branch_initialization_pending"
      [] OTHER -> "branch_not_found"

-----------------------------------------------------------------------------
(* Lifecycle. *)
Reserve(c) ==
    /\ At(c, "received", "reserve")
    /\ \/ /\ authority.state = "none"
          /\ authority' = [authority EXCEPT !.state = "pending", !.identity = Cmd(c).identity]
          /\ Tell(c, Code("reserved"))
          /\ UNCHANGED <<state, registered>>
       \/ /\ authority.state # "none"
          /\ Refuse(c, IF authority.identity = Cmd(c).identity
                         THEN "existing" ELSE "branch_initialization_conflict")

\* prepareBranchInitialization checks the identity against the authority
\* read first, then hashes; the authority is read again afterwards.
InitializePrepares(c) ==
    /\ At(c, "received", "initialize")
    /\ \/ authority.state = "none" /\ Refuse(c, "branch_not_found")
       \/ /\ authority.state # "none" /\ authority.identity # Cmd(c).identity
          /\ Refuse(c, "branch_initialization_conflict")
       \/ /\ authority.state # "none" /\ authority.identity = Cmd(c).identity
          /\ call' = [call EXCEPT ![c].step = "prepared"]
          /\ UNCHANGED <<authority, state, registered>>

InitializePublishes(c) ==
    /\ At(c, "prepared", "initialize")
    /\ \/ /\ authority.state = "active"
          /\ Refuse(c, IF authority.content = Cmd(c).content
                         THEN "duplicate" ELSE "branch_initialization_conflict")
       \/ /\ authority.state = "pending"
          /\ state' = Empty(Cmd(c).content)
          /\ authority' = [authority EXCEPT !.state = "active", !.content = Cmd(c).content]
          /\ Tell(c, Code("created"))
          /\ UNCHANGED registered

-----------------------------------------------------------------------------
(* append and appendBatch. *)
Receipt(s, id) == {i \in DOMAIN s.log : s.log[i].id = id}
Ack(s, i) == [id |-> s.log[i].id, seq |-> i - 1, snapshot |-> s.log[i].snapshot]

\* What append answers before it publishes: "ok" when nothing stands in the way.
AppendCheck(s, cmd) ==
    CASE \E i \in Receipt(s, cmd.event.id) : s.log[i].body # cmd.event.body -> "diff_event_id_reused"
      [] Receipt(s, cmd.event.id) # {} -> "duplicate"
      [] s.snapshot # cmd.expected -> "diff_predecessor_mismatch"
      [] OTHER -> "ok"

Duplicate(s, cmd, code) ==
    [Code(code) EXCEPT !.acks = IF code = "duplicate"
                                  THEN {Ack(s, i) : i \in Receipt(s, cmd.event.id)} ELSE {}]

AppendPrepares(c) ==
    /\ At(c, "received", "append")
    /\ \/ StateError # "ok" /\ Refuse(c, StateError)
       \/ /\ StateError = "ok" /\ AppendCheck(state, Cmd(c)) # "ok"
          /\ Tell(c, Duplicate(state, Cmd(c), AppendCheck(state, Cmd(c))))
          /\ UNCHANGED <<authority, state, registered>>
       \/ /\ StateError = "ok" /\ AppendCheck(state, Cmd(c)) = "ok"
          /\ call' = [call EXCEPT ![c].step = "prepared", ![c].seen = state]
          /\ UNCHANGED <<authority, state, registered>>

\* The events es on top of what was captured, with everything that is not
\* about the log taken from the object being replaced.
NextStateSeen(seen, latest, es) ==
    [seen EXCEPT !.snapshot = seen.snapshot + 1,
                 !.log = @ \o [i \in DOMAIN es |-> [id |-> es[i].id, body |-> es[i].body,
                                                    snapshot |-> seen.snapshot + 1]]]
NextState(seen, latest, es) ==
    [latest EXCEPT !.snapshot = seen.snapshot + 1,
                   !.log = @ \o [i \in DOMAIN es |-> [id |-> es[i].id, body |-> es[i].body,
                                                      snapshot |-> seen.snapshot + 1]]]

Publish(c, es, outboxId) ==
    /\ state' = NextState(call[c].seen, state, es)
    /\ registered' = registered \cup {outboxId}
    /\ UNCHANGED authority

\* What the final checks of append look at: the object as it is now, after
\* the last await.
LatestSeen(c) == call[c].seen
Latest(c) == state

AppendPublishes(c) ==
    /\ At(c, "prepared", "append")
    /\ LET code == AppendCheck(Latest(c), Cmd(c)) IN
       \/ /\ code # "ok"
          /\ Tell(c, Duplicate(state, Cmd(c), code))
          /\ UNCHANGED <<authority, state, registered>>
       \/ /\ code = "ok"
          /\ Publish(c, <<Cmd(c).event>>, <<"commit", Cmd(c).event.id>>)
          /\ Tell(c, [Code("accepted") EXCEPT !.acks = {Ack(state', Len(state'.log))}])

\* prepareBranchBatch: the first event of every id that has no receipt.
Fresh(s, es) ==
    {i \in DOMAIN es : Receipt(s, es[i].id) = {} /\ \A j \in 1..(i - 1) : es[j].id # es[i].id}

\* The one sequence of the fresh events in their order.
Accepted(s, es) ==
    LET Orders(n) == {f \in [1..n -> Fresh(s, es)] :
                        /\ Range(f) = Fresh(s, es)
                        /\ \A k \in 1..n : \A l \in 1..(k - 1) : f[l] < f[k]}
    IN  UNION {{[k \in 1..n |-> es[f[k]]] : f \in Orders(n)} : n \in 0..Len(es)}

BatchCheck(s, cmd) ==
    LET es == cmd.events IN
    CASE \/ \E i, j \in DOMAIN es : es[i].id = es[j].id /\ es[i].body # es[j].body
         \/ \E i \in DOMAIN es : \E k \in Receipt(s, es[i].id) : s.log[k].body # es[i].body
           -> "diff_event_id_reused"
      [] cmd.follows # None /\ Fresh(s, es) # {} /\ cmd.follows # Len(s.log) - 1
           -> "diff_predecessor_mismatch"
      [] OTHER -> "ok"

BatchPrepares(c) ==
    /\ At(c, "received", "batch")
    /\ \/ StateError # "ok" /\ Refuse(c, StateError)
       \/ /\ StateError = "ok" /\ BatchCheck(state, Cmd(c)) # "ok"
          /\ Refuse(c, BatchCheck(state, Cmd(c)))
       \/ /\ StateError = "ok" /\ BatchCheck(state, Cmd(c)) = "ok"
          /\ call' = [call EXCEPT ![c].step = "prepared", ![c].seen = state,
                                  ![c].attempt = @ + 1]
          /\ UNCHANGED <<authority, state, registered>>

\* Anything published during the preparation, memory and facts included,
\* starts the classification again.
BatchAgain(c) ==
    /\ At(c, "prepared", "batch")
    /\ state # call[c].seen
    /\ \/ /\ call[c].attempt = MaxPreparations
          /\ Refuse(c, "state_unavailable")
       \/ /\ call[c].attempt < MaxPreparations
          /\ call' = [call EXCEPT ![c].step = "received", ![c].seen = None]
          /\ UNCHANGED <<authority, state, registered>>

BatchPublishes(c) ==
    /\ At(c, "prepared", "batch")
    /\ state = call[c].seen
    /\ \/ Fresh(state, Cmd(c).events) = {} /\ UNCHANGED <<authority, state, registered>>
       \/ /\ Fresh(state, Cmd(c).events) # {}
          /\ \E es \in Accepted(state, Cmd(c).events) :
               Publish(c, es, <<"batch", state.snapshot + 1>>)
    /\ Tell(c, [Code("accepted") EXCEPT !.acks =
         {Ack(state', i) : i \in UNION {Receipt(state', e.id) : e \in Range(Cmd(c).events)}}])

-----------------------------------------------------------------------------
(* Branch-local memory: each mutation is one step. *)
Entry(cmd, s) == [cmd |-> cmd, snapshot |-> s.snapshot]
Identity(r) == <<r.kind, r.id>>

\* The records after an upsert or a delete; a delete takes every kind.
Applied(records, cmd) ==
    IF cmd.op = "put" THEN {r \in records : Identity(r) # Identity(cmd.record)} \cup {cmd.record}
                      ELSE {r \in records : r.id # cmd.id}

\* validateNullMemState: one entry per revision, the heads they name never
\* go back and exist, and replaying the entries gives the records.
ReplayOf(memory) ==
    LET after[n \in 0..Len(memory)] ==
          IF n = 0 THEN {}
          ELSE Applied(after[n - 1], memory[n].cmd)
    IN  after[Len(memory)]

ValidMemory(s) ==
    /\ \A i \in DOMAIN s.memory :
         /\ s.memory[i].snapshot \in 0..s.snapshot
         /\ i > 1 => s.memory[i - 1].snapshot <= s.memory[i].snapshot
    /\ ReplayOf(s.memory) = s.records

ChangeMemory(c) ==
    /\ call[c].step = "received" /\ Cmd(c).op \in {"put", "delete"}
    /\ \/ StateError # "ok" /\ Refuse(c, StateError)
       \/ /\ StateError = "ok"
          /\ IF ~ValidMemory(state) THEN Refuse(c, "state_corrupt")
             ELSE /\ state' = [state EXCEPT !.records = Applied(@, Cmd(c)),
                                            !.memory = Append(@, Entry(Cmd(c), state))]
                  /\ registered' = registered \cup {<<"nullmem", Len(state.memory) + 1>>}
                  /\ Tell(c, Keeps("stored", [in |-> "memory", at |-> Len(state.memory) + 1,
                                              entry |-> Entry(Cmd(c), state)]))
                  /\ UNCHANGED authority

-----------------------------------------------------------------------------
(* Runtime facts: the intent is hashed before the state is read. *)
Text(s) == <<s.content, SelectSeq([i \in DOMAIN s.log |-> s.log[i].body], LAMBDA b : b # "blank")>>

AppendRuntimeFact(c) ==
    /\ At(c, "received", "fact")
    /\ LET cmd == Cmd(c)
           known == {i \in DOMAIN state.facts : state.facts[i].id = cmd.id}
           fact == [id |-> cmd.id, body |-> cmd.body, snapshot |-> state.snapshot]
       IN \/ StateError # "ok" /\ Refuse(c, StateError)
          \/ /\ StateError = "ok"
             /\ \E i \in known :
                  IF state.facts[i].body # cmd.body THEN Refuse(c, "idempotency_key_reused")
                  ELSE /\ Tell(c, Keeps("known", [in |-> "facts", at |-> i, entry |-> state.facts[i]]))
                       /\ UNCHANGED <<authority, state, registered>>
          \/ /\ StateError = "ok" /\ known = {}
             /\ IF Text(state) # cmd.source THEN Refuse(c, "stale_source")
                ELSE /\ state' = [state EXCEPT !.facts = Append(@, fact)]
                     /\ registered' = registered \cup {<<"fact", cmd.id>>}
                     /\ Tell(c, Keeps("appended", [in |-> "facts", at |-> Len(state.facts) + 1,
                                                   entry |-> fact]))
                     /\ UNCHANGED authority

MemNext ==
    \E c \in Calls :
        \/ \E cmd \in Commands : Receive(c, cmd)
        \/ Reserve(c) \/ InitializePrepares(c) \/ InitializePublishes(c)
        \/ AppendPrepares(c) \/ AppendPublishes(c)
        \/ BatchPrepares(c) \/ BatchAgain(c) \/ BatchPublishes(c)
        \/ ChangeMemory(c) \/ AppendRuntimeFact(c)

MemSpec == MemInit /\ [][MemNext]_memVars

(***************************************************************************)
(* Properties.                                                             *)
(***************************************************************************)
\* The reference keeps the promise the SQLite authority keeps: appends and
\* batches extend one log by whole publications, and every acknowledgement
\* says where its event really is, whatever else replaced the State object
\* while the publication was being prepared.
Log == INSTANCE BranchLog WITH
         log <- IF state = None THEN <<>>
                ELSE [i \in DOMAIN state.log |-> [id |-> state.log[i].id,
                                                  snapshot |-> state.log[i].snapshot]],
         answers <- [c \in Calls |-> call[c].answer.acks]

ReferenceImplementsLog == Log!Init /\ [][Log!Next \/ Log!logVars' = Log!logVars]_memVars

\* A publication replaces the whole object, and still takes nothing away: a
\* memory revision or a runtime fact that a call was told is stored stays
\* where it was told, across the publications prepared before it.
AnsweredIsKept ==
    \A c \in Calls :
        LET kept == call[c].answer.kept IN
        kept # None =>
            /\ kept.at \in DOMAIN state[kept.in]
            /\ state[kept.in][kept.at] = kept.entry

\* The state never trips the integrity check that guards every memory
\* operation: replaying all mutations gives exactly the stored records, so
\* no later call is answered state_corrupt.
MemoryReplays == state # None => ValidMemory(state)

\* A publication replaces the whole State object and still takes nothing
\* away, and the memory stays sound.
MemoryIsKept == AnsweredIsKept /\ MemoryReplays
=============================================================================
