------------------------------ MODULE MC_Plane ------------------------------
(***************************************************************************)
(* What is kept beside and behind the log, in scenes chosen initially: the *)
(* variables a scene does not use keep their initial values.               *)
(*   log        the in-memory plane: appends, batches that repeat an       *)
(*              event, a reused id, a fact sent again with another body,   *)
(*              and two owners                                             *)
(*   memory     the plane with records of both kinds under one id, a fact  *)
(*              and publications                                           *)
(*   heap       three snapshots, the last one restores the first content   *)
(*   prims      two snapshots and a primitive                              *)
(*   replaced   the content of snapshot zero is replaced once, and the     *)
(*              numbering of a fact may fail                               *)
(*   order      outbox jobs that overtake each other; the newer one is     *)
(*              claimed once                                               *)
(*   bootstrap  outbox rows older than the bookkeeping, one imported, with *)
(*              new commits and a move of the branch                       *)
(***************************************************************************)
EXTENDS MemoryPlane, ResolvedHeap, OutboxDelivery, TLC

CONSTANT Scenes

VARIABLE scene

Ev(i, b) == [id |-> i, body |-> b]
AppendOf(e, n) == [op |-> "append", event |-> e, expected |-> n]
BatchOf(es, n) == [op |-> "batch", events |-> es, follows |-> n]
PutOf(k, b) == [op |-> "put", record |-> [kind |-> k, id |-> "m", body |-> b]]
DeleteOf == [op |-> "delete", id |-> "m"]
FactOf(b, text) == [op |-> "fact", id |-> "f", body |-> b, source |-> <<"root", text>>]
ReserveOf(who) == [op |-> "reserve", identity |-> who]
InitializeOf(who, content) == [op |-> "initialize", identity |-> who, content |-> content]

Publications ==
  {AppendOf(Ev("x", "one"), 0), AppendOf(Ev("x", "other"), 0),
   BatchOf(<<Ev("x", "one"), Ev("z", "blank"), Ev("x", "one")>>, None),
   BatchOf(<<Ev("z", "blank")>>, 0),
   FactOf("p", <<"one">>), FactOf("q", <<"one">>),
   ReserveOf("owner"), ReserveOf("other"),
   InitializeOf("owner", "root"), InitializeOf("other", "root")}

Edits ==
  {AppendOf(Ev("x", "one"), 0), BatchOf(<<Ev("z", "blank")>>, None),
   PutOf("fact", "a"), PutOf("procedure", "a"), DeleteOf, FactOf("p", <<"one">>),
   ReserveOf("owner"), InitializeOf("owner", "root")}

Sent == Publications \cup Edits

Restoring == [s \in 0..2 |-> IF s = 1 THEN "b" ELSE "a"]

First == {1}

-----------------------------------------------------------------------------
\* Clients send only these commands.
Sending(cmds) == \A c \in Calls : call'[c].cmd \in cmds \cup {None}

\* No update supplies a primitive.
PlainHeap == \A p \in Proc : run'[p].at = "project" => run'[p].prims = {}

\* A stored fact is numbered, and snapshot zero keeps its content.
Untroubled == zero' = zero /\ (lock \in 1 .. MaxFacts => numbered' # numbered)

SceneInit ==
  /\ scene \in Scenes
  /\ MemInit /\ HeapInit /\ Init

SceneNext ==
  \/ /\ \/ scene = "log" /\ MemNext /\ Sending(Publications)
        \/ scene = "memory" /\ MemNext /\ Sending(Edits)
     /\ UNCHANGED <<heapVars, vars, scene>>
  \/ /\ \/ scene = "heap" /\ HeapNext /\ PlainHeap /\ Untroubled
        \/ scene = "prims" /\ HeapNext /\ Untroubled /\ stored' <= 1 /\ count' <= 3
        \/ scene = "replaced" /\ HeapNext /\ PlainHeap /\ count' <= 3
           /\ (stored' <= 1 \/ zero' = Content[0])
     /\ UNCHANGED <<memVars, vars, scene>>
  \/ /\ \/ scene = "order" /\ Next /\ UNCHANGED <<committed, generation>>
           /\ delivery'[3].attempts <= 1
        \/ scene = "bootstrap" /\ Next /\ UNCHANGED <<queue, consumer>>
     /\ UNCHANGED <<memVars, heapVars, scene>>

allVars == <<scene, memVars, heapVars, vars>>

SceneSpec == SceneInit /\ [][SceneNext]_allVars

Symmetry == Permutations(Calls) \cup Permutations(Proc) \cup Permutations(Consumers)
=============================================================================
