----------------------------- MODULE BranchLog -----------------------------
(***************************************************************************)
(* What the commit authority promises its clients                          *)
(* (BranchCommitStatePlane of shared/drop/branch-state.ts): one log of     *)
(* uniquely identified events, extended by whole publications at a time,   *)
(* and answers that say where in the log an event is.                      *)
(***************************************************************************)
EXTENDS Integers, Sequences

CONSTANT Calls

VARIABLES
  log,      \* the events of the branch: id and publication number
  answers   \* per call: what its client has been told

logVars == <<log, answers>>

Truthful(a, l) ==
  /\ a.seq + 1 \in DOMAIN l
  /\ l[a.seq + 1] = [id |-> a.id, snapshot |-> a.snapshot]

Init == log = <<>> /\ answers = [c \in Calls |-> {}]

\* A publication: one number larger than all before it, fresh event ids.
Extends(l, m) ==
  /\ Len(m) > Len(l)
  /\ SubSeq(m, 1, Len(l)) = l
  /\ \A i \in (Len(l) + 1)..Len(m) :
       /\ m[i].snapshot = IF l = <<>> THEN 1 ELSE l[Len(l)].snapshot + 1
       /\ \A j \in 1..(i - 1) : m[j].id # m[i].id

Tells(c) ==
  /\ \A a \in answers'[c] : Truthful(a, log')
  /\ \A d \in Calls \ {c} : answers'[d] = answers[d]

Publish(c) == Extends(log, log') /\ Tells(c)

Reply(c) == log' = log /\ Tells(c)

Next == \E c \in Calls : Publish(c) \/ Reply(c)

Spec == Init /\ [][Next]_logVars
=============================================================================
