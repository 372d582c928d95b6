---------------------------- MODULE ResolvedHeap ----------------------------
(***************************************************************************)
(* The runtime-refs heaps of a branch: functions/api/_lib/resolved/heap.   *)
(*                                                                         *)
(* A heap lists the nodes of one snapshot: its plugin references, taken    *)
(* from the content, the runtime facts stored for the branch, and the UI   *)
(* primitives an update request supplied.  SQL keeps a heap as a delta     *)
(* over the heap of the snapshot before it, back to a checkpoint; a heap   *)
(* is regenerated in place when a query finds more facts than it covers or *)
(* other content than it shows, also while later heaps are still deltas    *)
(* over it.  Only the content of snapshot zero can change: the checkpoint  *)
(* object may be replaced.                                                 *)
(*                                                                         *)
(* A node is named by a hash of what it shows, so a heap is a set of nodes *)
(* and payload rows (content-addressed, written before the delta that      *)
(* needs them) can be left out.  Leases do not expire here: MutationLease  *)
(* has that fault.                                                         *)
(***************************************************************************)
EXTENDS Integers, Sequences, Null

CONSTANTS
  Proc,         \* requests that can be under way at once
  Content,      \* snapshot id -> content, from snapshot 0
  Replacement,  \* what snapshot zero may be replaced by
  Primitive,    \* UI primitives an update may supply
  Interval,     \* every how many snapshots a heap is a checkpoint (24)
  MaxFacts,     \* bound: facts of the branch
  MaxRequests   \* bound: queries and updates

VARIABLES
  stored,   \* facts 1 .. stored have their objects
  numbered, \* the branch's fact log: the facts numbered, in order
  zero,     \* the content of snapshot zero
  lock,     \* the branch mutation lock: a request, a fact being written, or None
  delta,    \* resolved_heap_deltas: snapshot -> None or a delta record
  blob,     \* the full state in R2: snapshot -> None or a state
  run,      \* each request's progress
  count     \* requests so far

heapVars == <<stored, numbered, zero, lock, delta, blob, run, count>>

Snapshot == DOMAIN Content
head == Len(numbered)
FactNodes(n) == {<<"fact", i>> : i \in 1 .. n}
Plugins(content) == {<<"plugin", content>>}
ReadContent(s) == IF s = 0 THEN zero ELSE Content[s]
NoRequest == [at |-> "idle"]

PluginNodes == UNION {Plugins(c) : c \in {Content[s] : s \in Snapshot} \cup {Replacement}}

ASSUME HeapConstants ==
  /\ Snapshot \subseteq Nat /\ \A s \in Snapshot \ {0} : s - 1 \in Snapshot
  /\ Interval \in Nat \ {0} /\ MaxFacts \in Nat /\ MaxRequests \in Nat
  /\ Primitive \cap (FactNodes(MaxFacts) \cup PluginNodes) = {}

HeapInit ==
  /\ stored = 0 /\ numbered = <<>> /\ zero = Content[0] /\ lock = None /\ count = 0
  /\ delta = [s \in Snapshot |-> None]
  /\ blob = [s \in Snapshot |-> None]
  /\ run = [p \in Proc |-> NoRequest]

-----------------------------------------------------------------------------
(* A fact is stored, then numbered, under the branch mutation lock.  When the
   numbering fails, or the storing after its effect, the fact stays unnumbered
   until it is sent again. *)

StoreFact(i) ==
  /\ lock = None
  /\ i <= stored + 1
  /\ i \notin {numbered[n] : n \in DOMAIN numbered}
  /\ stored' = IF i > stored THEN i ELSE stored
  /\ lock' = i
  /\ UNCHANGED <<numbered, zero, delta, blob, run, count>>

NumberFact(i) ==
  /\ lock = i
  /\ numbered' \in {Append(numbered, i), numbered}
  /\ lock' = None
  /\ UNCHANGED <<stored, zero, delta, blob, run, count>>

\* External: the checkpoint object of snapshot zero is replaced, between requests.
ReplaceZero ==
  /\ \A p \in Proc : run[p].at \in {"idle", "done"}
  /\ zero' = Replacement /\ zero' # zero
  /\ UNCHANGED <<stored, numbered, lock, delta, blob, run, count>>

-----------------------------------------------------------------------------
(* Walking a delta chain, one SQL read per step.  walk.next is the snapshot
   to read, walk.ops the operations collected, composed: applying them one
   after the other, oldest first, is applying their composition. *)

Start(s) == [next |-> s, ops |-> [up |-> {}, del |-> {}], refs |-> None, over |-> FALSE]

Apply(refs, op) == (refs \ op.del) \cup op.up

Then(a, b) == [up |-> (a.up \ b.del) \cup b.up, del |-> a.del \cup b.del]

Walked(w) ==
  LET d == delta[w.next]
  IN IF d = None THEN [w EXCEPT !.over = TRUE]
     ELSE IF d.checkpointed THEN [w EXCEPT !.over = TRUE, !.refs = Apply(d.refs, w.ops)]
     ELSE [w EXCEPT !.next = @ - 1, !.ops = Then(d.ops, @)]

-----------------------------------------------------------------------------
(* Queries and updates. *)

Begin(p) == count < MaxRequests /\ run[p].at \in {"idle", "done"} /\ count' = count + 1

\* The content is read first, then ensureResolvedHeapProjection starts with the
\* delta's own record.
Query(p, s) ==
  /\ Begin(p)
  /\ run' = [run EXCEPT ![p] =
       IF delta[s] = None
       THEN [at |-> "blob", s |-> s, content |-> ReadContent(s)]
       ELSE [at |-> "walk", s |-> s, content |-> ReadContent(s),
             to |-> delta[s].to, hash |-> delta[s].hash, walk |-> Start(s)]]
  /\ UNCHANGED <<stored, numbered, zero, lock, delta, blob>>

\* updateResolvedHeap: always projects, with the primitives of the request.
Update(p, s, prims) ==
  /\ Begin(p)
  /\ run' = [run EXCEPT ![p] =
       [at |-> "project", s |-> s, content |-> ReadContent(s), prims |-> prims]]
  /\ UNCHANGED <<stored, numbered, zero, lock, delta, blob>>

\* What a request does next with what it knows of its heap.
Generates(q) == [at |-> "project", s |-> q.s, content |-> q.content, prims |-> {}]
Answers(q, nodes, saw) ==
  [at |-> "done", s |-> q.s, content |-> q.content, nodes |-> nodes, saw |-> saw]
Compares(q, state, nodes) ==
  [at |-> "compare", s |-> q.s, content |-> q.content, to |-> state.to, hash |-> state.hash,
   nodes |-> nodes]

\* The chain of the queried heap; an unreadable chain falls back to R2.
WalkHeap(p) ==
  /\ run[p].at = "walk"
  /\ LET q == run[p]
         w == Walked(q.walk)
     IN run' = [run EXCEPT ![p] =
          IF ~w.over THEN [q EXCEPT !.walk = w]
          ELSE IF w.refs = None THEN [at |-> "blob", s |-> q.s, content |-> q.content]
          ELSE Compares(q, q, w.refs)]
  /\ UNCHANGED <<stored, numbered, zero, lock, delta, blob, count>>

ReadBlob(p) ==
  /\ run[p].at = "blob"
  /\ LET q == run[p]
     IN run' = [run EXCEPT ![p] =
          IF blob[q.s] = None THEN Generates(q)
          ELSE Compares(q, blob[q.s], blob[q.s].nodes)]
  /\ UNCHANGED <<stored, numbered, zero, lock, delta, blob, count>>

\* Mutant: only the fact cursor is compared.
CoversFacts(q) == q.to = head

\* The state shows the content the request has read and covers every numbered fact.
UpToDate(q) == q.hash = q.content /\ q.to = head

Compare(p) ==
  /\ run[p].at = "compare"
  /\ LET q == run[p]
     IN run' = [run EXCEPT ![p] =
          IF UpToDate(q) THEN Answers(q, q.nodes, head) ELSE Generates(q)]
  /\ UNCHANGED <<stored, numbered, zero, lock, delta, blob, count>>

-----------------------------------------------------------------------------
(* projectResolvedHeap for runtime refs, under the branch mutation lock. *)

\* Mutant: the projection does not wait for the lock.
EnterAnyway(p) == lock' = lock

Enter(p) == lock = None /\ lock' = p

Leaves(p) == lock' = IF lock = p THEN None ELSE lock

Project(p) ==
  /\ run[p].at = "project"
  /\ Enter(p)
  /\ run' = [run EXCEPT ![p] =
       [at |-> "list", s |-> run[p].s, content |-> run[p].content, prims |-> run[p].prims,
        before |-> head]]
  /\ UNCHANGED <<stored, numbered, zero, delta, blob, count>>

ListFacts(p) ==
  /\ run[p].at = "list"
  /\ run' = [run EXCEPT ![p] =
       [at |-> "heapify", s |-> run[p].s, content |-> run[p].content, before |-> run[p].before,
        nodes |-> Plugins(run[p].content) \cup run[p].prims \cup FactNodes(stored)]]
  /\ UNCHANGED <<stored, numbered, zero, lock, delta, blob, count>>

\* The older of the two heads is the heap's cursor; the full state goes to R2.
Heapify(p) ==
  /\ run[p].at = "heapify"
  /\ LET q  == run[p]
         to == IF q.before = head THEN head ELSE q.before
     IN /\ blob' = [blob EXCEPT ![q.s] = [nodes |-> q.nodes, to |-> to, hash |-> q.content]]
        /\ run' = [run EXCEPT ![p] =
             [at |-> "parent", s |-> q.s, content |-> q.content, nodes |-> q.nodes, to |-> to,
              walk |-> IF q.s = 0 THEN [Start(0) EXCEPT !.over = TRUE] ELSE Start(q.s - 1)]]
  /\ UNCHANGED <<stored, numbered, zero, lock, delta, count>>

\* The parent's refs, one SQL read per step.
WalkParent(p) ==
  /\ run[p].at = "parent"
  /\ ~run[p].walk.over
  /\ run' = [run EXCEPT ![p].walk = Walked(@)]
  /\ UNCHANGED <<stored, numbered, zero, lock, delta, blob, count>>

Checkpointed(s, parent) == s = 0 \/ parent = None \/ s % Interval = 0

Record(q) ==
  IF Checkpointed(q.s, q.walk.refs)
  THEN [checkpointed |-> TRUE, to |-> q.to, hash |-> q.content, refs |-> q.nodes]
  ELSE LET parent == IF q.walk.refs = None THEN {} ELSE q.walk.refs
       IN [checkpointed |-> FALSE, to |-> q.to, hash |-> q.content,
           ops |-> [up |-> q.nodes \ parent, del |-> parent \ q.nodes]]

\* The delta row; the answer is the state just built.
PutDelta(p) ==
  /\ run[p].at = "parent"
  /\ run[p].walk.over
  /\ delta' = [delta EXCEPT ![run[p].s] = Record(run[p])]
  /\ run' = [run EXCEPT ![p] = Answers(run[p], run[p].nodes, run[p].to)]
  /\ Leaves(p)
  /\ UNCHANGED <<stored, numbered, zero, blob, count>>

\* A request fails at any of its reads or writes and releases the lock.
HeapFails(p) ==
  /\ run[p].at \notin {"idle", "done"}
  /\ run' = [run EXCEPT ![p] = NoRequest]
  /\ Leaves(p)
  /\ UNCHANGED <<stored, numbered, zero, delta, blob, count>>

HeapNext ==
  \/ \E i \in 1 .. MaxFacts : StoreFact(i) \/ NumberFact(i)
  \/ ReplaceZero
  \/ \E p \in Proc :
       \/ \E s \in Snapshot : Query(p, s)
       \/ \E s \in Snapshot, prims \in SUBSET Primitive : Update(p, s, prims)
       \/ WalkHeap(p) \/ ReadBlob(p) \/ Compare(p)
       \/ Project(p) \/ ListFacts(p) \/ Heapify(p) \/ WalkParent(p) \/ PutDelta(p)
       \/ HeapFails(p)

HeapSpec == HeapInit /\ [][HeapNext]_heapVars

-----------------------------------------------------------------------------
(* A heap that is answered as current lists exactly the plugin references of the
   content the request read for its snapshot, every fact that was numbered when
   the heap was compared, and no fact that is not stored: a heap read as a delta
   over a parent that was regenerated since, while the chain was walked, or by a
   request that overlapped, loses no fact and keeps no plugin of the parent, and
   the heap of snapshot zero follows a replaced checkpoint (projector.ts
   ensureResolvedHeapProjection, projection-repository.ts
   resolveResolvedNodeRefsFromD1).  Once snapshot zero was replaced this is said of
   the facts only for the later snapshots: their own hash and cursor are checked,
   not those of the parents they are deltas over. *)
AnswerIsCurrent ==
  \A p \in Proc :
    run[p].at = "done" =>
      LET shown == run[p].nodes \ Primitive
      IN /\ \E n \in 0 .. stored : shown \ PluginNodes = FactNodes(n)
         /\ \A i \in 1 .. run[p].saw : <<"fact", numbered[i]>> \in shown
         /\ run[p].s = 0 \/ zero = Content[0]
              => shown \cap PluginNodes = Plugins(run[p].content)

=============================================================================
