------------------------- MODULE MC_BranchMigration -------------------------
(***************************************************************************)
(* Scenes, chosen initially; a scene leaves the variables of the others    *)
(* alone.                                                                  *)
(*   move      requests, captures and migrations of BranchMigration: two   *)
(*             of one and one of the other                                 *)
(*   writers   the LegacySourceWriter it extends, with deferred tasks and  *)
(*             several writes of each request, while there is no           *)
(*             destination to transfer the source to                       *)
(*   memory    an activated branch: two requests write, delete and query   *)
(*             its NullMem records                                         *)
(*   facts     the same branch: facts are appended, repeated and paged     *)
(*   history   the same branch: snapshots, events, facts and records are   *)
(*             read                                                        *)
(***************************************************************************)
EXTENDS BranchMigration, TLC

CONSTANTS Scenes, None, Callers

VARIABLES
  scene,
  snaps, events, facts, factHead, rows, base, rev, outbox, call

Writers == INSTANCE LegacySourceWriter WITH MaxTasks <- 1, MaxWrites <- 2

-----------------------------------------------------------------------------
(* Captures as the legacy store leaves them: only every 24th snapshot is a *)
(* checkpoint, older records carry no hash, events and facts may not name  *)
(* their snapshot.                                                         *)

Snap(t, a, b, h, k) ==
  [text |-> t, first |-> a, last |-> b, form |-> [hashed |-> h, checkpointed |-> k]]
Ev(t, s) == [text |-> t, snap |-> s]
Fact(n, t, s, who) == [name |-> n, body |-> "x", text |-> t, snap |-> s, actor |-> who]
Record(k, i) == [kind |-> k, id |-> i, at |-> 1]

Plain == [snaps |-> <<Snap("a", 0, -1, TRUE, TRUE), Snap("b", 0, 1, TRUE, TRUE)>>,
          events |-> <<Ev("a", 1), Ev("b", 1)>>,
          facts |-> <<Fact("f", "a", 0, "owner")>>, memory |-> <<>>]
Old == [snaps |-> <<Snap("a", 0, -1, FALSE, TRUE), Snap("b", 0, 1, TRUE, FALSE)>>,
        events |-> <<Ev("a", None), Ev("b", None)>>,
        facts |-> <<Fact("f", "a", None, None)>>,
        memory |-> <<Record("fact", 1), Record("procedure", 1)>>]
\* The content of snapshot 0 comes back: the fact cannot be pinned.
Undone == [snaps |-> <<Snap("a", 0, -1, TRUE, TRUE), Snap("b", 0, 0, TRUE, FALSE),
                       Snap("a", 1, 1, TRUE, FALSE)>>,
           events |-> <<Ev("b", 1), Ev("a", 2)>>,
           facts |-> <<Fact("f", "a", None, "owner")>>, memory |-> <<Record("fact", 1)>>]
UndonePinned == [Undone EXCEPT !.facts = <<Fact("f", "a", 2, "owner")>>]

AllCaptures == {Plain, Old, Undone, UndonePinned}
Public == [n \in {"f", "g", "h"} |-> IF n = "h" THEN "f" ELSE n]

Send(n, b, t, who) == [name |-> n, body |-> b, text |-> t, by |-> who]
Sending == {Send("f", "x", "a", "owner"), Send("f", "y", "a", "owner"),
            Send("g", "x", "b", "owner"),
            Send("h", "x", "b", "owner"), Send("g", "x", None, "owner"),
            Send("g", "x", "a", "reader")}

Memory == INSTANCE ImportedBranch WITH Captures <- {Old}, Texts <- {"a"},
            PublicName <- <<>>, Sends <- {}, Owner <- "owner", Reader <- "reader",
            Kinds <- {"fact"}, Ids <- {1, 2}, Times <- {1, 2},
            Ops <- {"query", "put", "delete"}, Limit <- 2,
            MaxBatch <- 1, MaxSnapshots <- 3, MaxRevision <- 2, MaxFacts <- 1
FactLog == INSTANCE ImportedBranch WITH Captures <- {Plain, UndonePinned}, Texts <- {"a", "b"},
            PublicName <- Public, Sends <- Sending, Owner <- "owner", Reader <- "reader",
            Kinds <- {}, Ids <- {}, Times <- {}, Ops <- {"append", "page"}, Limit <- 1,
            MaxBatch <- 1, MaxSnapshots <- 3, MaxRevision <- 0, MaxFacts <- 3
History == INSTANCE ImportedBranch WITH Callers <- {"reader"}, Captures <- AllCaptures,
            Texts <- {"a", "b"}, PublicName <- <<>>, Sends <- {}, Owner <- "owner",
            Reader <- "reader", Kinds <- {"fact", "procedure"}, Ids <- {}, Times <- {},
            Ops <- {"query", "page", "list", "range", "document"}, Limit <- 2,
            MaxBatch <- 2, MaxSnapshots <- 4, MaxRevision <- 0, MaxFacts <- 1

ASSUME Memory!BranchConstants /\ FactLog!BranchConstants /\ History!BranchConstants

-----------------------------------------------------------------------------
branchVars == <<snaps, events, facts, factHead, rows, base, rev, outbox, call>>
destinationVars == <<capture, staging, handler, branch>>

SceneInit ==
  /\ scene \in Scenes /\ MigrationInit
  /\ IF scene = "history" THEN History!Init ELSE Memory!Init

\* The requests that have begun, and the migrations that hold the gate or have
\* read or staged anything.
Busy == {r \in RequestIds : writer[r].pc # "idle"}
        \cup {m \in Migrations : \/ gate.migrationId = m
                                 \/ capture[m].step # "idle" \/ staging[m].phase # "none"}

SceneNext ==
  \/ /\ \/ scene = "move" /\ MigrationNext /\ Cardinality(Busy') <= 3
        \/ /\ scene = "writers" /\ Writers!Next /\ UNCHANGED destinationVars
           /\ gate'.phase # "transferred"
     /\ UNCHANGED <<branchVars, scene>>
  \/ /\ \/ scene = "memory" /\ Memory!Next
        \/ scene = "facts" /\ FactLog!Next
        \/ scene = "history" /\ History!Next
     /\ UNCHANGED <<migrationVars, scene>>

SceneSpec == SceneInit /\ [][SceneNext]_<<migrationVars, branchVars, scene>>

Symmetry == Permutations(RequestIds) \cup Permutations(Migrations) \cup Permutations(Callers)

-----------------------------------------------------------------------------
\* The integrity checks of the plane never fire on what it wrote or imported
\* itself (sqlite-commits.ts validateNullMemState, runtimeReceipt,
\* snapshotRecord, readEvents).
PlaneNeverCorrupt ==
  /\ scene = "memory" => Memory!PlaneNeverCorrupt
  /\ scene = "facts" => FactLog!PlaneNeverCorrupt
  /\ scene = "history" => History!PlaneNeverCorrupt

\* Pages, listings and repeated facts are answered as the branch had them when
\* the head was captured, whatever was appended since (commit-application.ts,
\* sqlite-commits.ts).
AnswersAreTheHistory ==
  /\ scene = "facts" => FactLog!AnswersAreTheHistory
  /\ scene = "history" => History!AnswersAreTheHistory

\* The memory of an imported branch can be queried: reads of State Plane continue
\* after the import (nullmem-application.ts query, branch-nullmem.ts
\* validateNullMemQueryResult).
ImportedMemoryIsRead == scene = "history" => History!ImportedMemoryIsRead
=============================================================================
