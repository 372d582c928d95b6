----------------------------- MODULE MC_Outbox -----------------------------
(***************************************************************************)
(* The outbox, in two scenes chosen initially.  "overlap": attempts of one *)
(* job that overlap, with two archive keys and unrelated clocks.  "wake":  *)
(* the alarm of the shard, with a commit delay of one tick, polls and      *)
(* leases of two, a backoff of one or two polls, and one of three polls    *)
(* left for a wake without work.                                           *)
(***************************************************************************)
EXTENDS OutboxDelivery, OutboxWake, TLC

VARIABLE scene

MCNoJobs == {}

SceneInit == scene \in {"overlap", "wake"} /\ Init /\ WakeInit

SceneNext ==
  \/ scene = "overlap" /\ Next /\ UNCHANGED <<wakeVars, scene>>
  \/ scene = "wake" /\ WakeNext /\ UNCHANGED <<vars, scene>>

SceneSpec == SceneInit /\ [][SceneNext]_<<vars, wakeVars, scene>>

Symmetry == Permutations(Dispatchers) \cup Permutations(Consumers) \cup Permutations(Tasks)
=============================================================================
