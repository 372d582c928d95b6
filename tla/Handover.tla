------------------------------ MODULE Handover ------------------------------
(***************************************************************************)
(* What a migration promises: the branch has one owner at a time, only the *)
(* owner changes its value, and the value survives the change of owner.    *)
(* Between the two owners the branch may be held by neither.               *)
(***************************************************************************)
EXTENDS Naturals

VARIABLES
  owner,  \* "legacy", "nobody" or "plane"
  value   \* the branch: the number of accepted mutations

handoverVars == <<owner, value>>

Init == owner = "legacy" /\ value = 0

LegacyMutates == owner = "legacy" /\ value' = value + 1 /\ UNCHANGED owner

Freeze == owner = "legacy" /\ owner' = "nobody" /\ UNCHANGED value

Reopen == owner = "nobody" /\ owner' = "legacy" /\ UNCHANGED value

TakeOver == owner = "nobody" /\ owner' = "plane" /\ UNCHANGED value

PlaneMutates == owner = "plane" /\ value' = value + 1 /\ UNCHANGED owner

Next == LegacyMutates \/ Freeze \/ Reopen \/ TakeOver \/ PlaneMutates

Spec == Init /\ [][Next]_handoverVars
=============================================================================
