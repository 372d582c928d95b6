-------------------------- MODULE MC_LegacyAppend --------------------------
(***************************************************************************)
(* LegacyAppend, in scenes chosen initially.  "single": one event per      *)
(* request, one id sent under two payloads, and two failing calls.         *)
(* "frozen": whole batches are repeated, one call fails and one holder is  *)
(* frozen past the stale limit.  "stranded": one call fails.               *)
(***************************************************************************)
EXTENDS LegacyAppend

CONSTANT Scenes
VARIABLE scene

MCEvents == {"a", "b", "c", "a2"}
MCIdOf == [e \in MCEvents |-> IF e = "a2" THEN "a" ELSE e]
MCSource == [e \in MCEvents |-> IF e = "b" THEN "second" ELSE "first"]
MCFollows == [e \in MCEvents |-> IF e = "c" THEN 0 ELSE NoSeq]
MCUnordered == [e \in MCEvents |-> NoSeq]
MCSingles == {<<"a">>, <<"b">>, <<"c">>, <<"a2">>}
MCDisjoint == {<<"a", "b">>, <<"c", "c">>}

Frozen == INSTANCE LegacyAppend WITH MaxStalls <- 1, MaxFaults <- 1,
            Follows <- MCUnordered, Batches <- MCDisjoint

OneFault == INSTANCE LegacyAppend WITH MaxFaults <- 1, Follows <- MCUnordered,
              Batches <- MCDisjoint

SceneInit == scene \in Scenes /\ LegacyInit

SceneNext ==
  /\ \/ scene = "single" /\ LegacyNext
     \/ scene = "frozen" /\ Frozen!LegacyNext
     \/ scene = "stranded" /\ OneFault!LegacyNext
  /\ UNCHANGED scene

SceneSpec == SceneInit /\ [][SceneNext]_<<vars, scene>>

Symmetry == Permutations(Requests)
=============================================================================
