-------------------------- MODULE BranchMigration --------------------------
(***************************************************************************)
(* The migration of a branch from its legacy source to the State Plane:    *)
(* captureLegacyMigrationSource (legacy-migration-source.ts) and           *)
(* SqliteBranchMigrationStaging (sqlite-migration.ts), composed with the   *)
(* admission ledger and the legacy writers of LegacySourceWriter.          *)
(*                                                                         *)
(* The source fence and the staging tables are separate stores: every      *)
(* transaction is an action of its own and the process that runs a method  *)
(* may stop between two of them.  The methods are retried with the same    *)
(* arguments.  The branch is abstracted to the number of mutations applied *)
(* to it; a capture reads it in Parts pieces (snapshots, events, runtime   *)
(* facts, memory pages), each of which sees the value of its moment.       *)
(***************************************************************************)
EXTENDS LegacySourceWriter, Sequences

CONSTANTS
  Parts,        \* pieces a capture reads, and chunks a manifest announces
  MaxAccepted   \* bound on mutations accepted by the destination

ASSUME MigrationConstants == Parts \in Nat \ {0} /\ MaxAccepted \in Nat

VARIABLES
  capture,   \* per migration: the export in progress
  staging,   \* per migration: its row of branch_migrations and its chunks
  handler,   \* per migration: how far the verify or activate call has come
  branch     \* the destination: head and authority, or absent

stagingVars == <<capture, staging, handler, branch>>
migrationVars == <<gate, permit, writer, source, capture, staging, handler, branch>>

Damaged == MaxWrites + 1   \* a chunk that is not what was captured

Values == 0..MaxWrites

StagingPhases ==
  {"none", "importing", "verified", "activated", "rollback-pending", "rolled-back"}

HandlerSteps == {"idle", "verifying", "activating", "checked", "transferring"}

OpenPhases == StagingPhases \ {"none", "rolled-back"}

MigrationInit ==
  /\ FenceInit /\ WriterInit
  /\ capture = [m \in Migrations |-> [step |-> "idle", generation |-> 0, parts |-> <<>>]]
  /\ staging = [m \in Migrations |-> [phase |-> "none", generation |-> 0,
                                      manifest |-> <<>>, chunks |-> <<>>]]
  /\ handler = [m \in Migrations |-> "idle"]
  /\ branch = [state |-> "absent", content |-> <<>>, accepted |-> 0]

Certified(m) == AssertFrozen(staging[m].generation, m)

TransferredTo(m) ==
  /\ gate.phase = "transferred"
  /\ gate.generation = staging[m].generation
  /\ gate.migrationId = m
  /\ gate.active = 0

(***************************************************************************)
(* captureLegacyMigrationSource.  assertFrozen is awaited before each      *)
(* read: the gate may move between the assertion and the read.  The final  *)
(* comparison of the branch etag and of the fact head only refuses more    *)
(* captures; a refused or interrupted one starts again.                    *)
(***************************************************************************)
CaptureStart(m) ==
  /\ capture[m].step \in {"idle", "done"}
  /\ AssertFrozen(gate.generation, m)
  /\ capture[m].step = "done" => capture[m].generation # gate.generation
  /\ capture' = [capture EXCEPT ![m] = [step |-> "asserted", generation |-> gate.generation,
                                        parts |-> <<>>]]
  /\ UNCHANGED <<staging, handler, branch>>

CaptureRead(m) ==
  /\ capture[m].step = "asserted"
  /\ Len(capture[m].parts) < Parts
  /\ capture' = [capture EXCEPT ![m].step = "reading", ![m].parts = Append(@, source)]
  /\ UNCHANGED <<staging, handler, branch>>

CaptureAsserts(m) ==
  /\ capture[m].step = "reading"
  /\ Len(capture[m].parts) < Parts
  /\ AssertFrozen(capture[m].generation, m)
  /\ capture' = [capture EXCEPT ![m].step = "asserted"]
  /\ UNCHANGED <<staging, handler, branch>>

CaptureEnds(m) ==
  /\ capture[m].step = "reading"
  /\ Len(capture[m].parts) = Parts
  /\ AssertFrozen(capture[m].generation, m)
  /\ capture' = [capture EXCEPT ![m].step = "done"]
  /\ UNCHANGED <<staging, handler, branch>>

CaptureFails(m) ==
  /\ capture[m].step \in {"asserted", "reading"}
  /\ capture' = [capture EXCEPT ![m].step = "idle", ![m].parts = <<>>]
  /\ UNCHANGED <<staging, handler, branch>>

(***************************************************************************)
(* admit: the manifest is the one committed for this capture, and its own  *)
(* generation is the next safe one; neither a head or authority nor        *)
(* another open migration of the branch exists.                            *)
(***************************************************************************)
StagingAdmits(m) ==
  /\ capture[m].step = "done"
  /\ AssertFrozen(capture[m].generation, m)
  /\ staging[m].phase = "none"
  /\ capture[m].generation + 1 \in Generations
  /\ branch.state = "absent"
  /\ \A n \in Migrations : staging[n].phase \notin OpenPhases
  /\ staging' = [staging EXCEPT ![m] =
                   [phase |-> "importing", generation |-> capture[m].generation,
                    manifest |-> capture[m].parts, chunks |-> <<>>]]
  /\ UNCHANGED <<capture, handler, branch>>

\* putChunk: exactly the next index.  What arrives need not be what was
\* captured; only verify compares the hashes with the manifest.
\*
PutChunk(m, v) ==
  /\ staging[m].phase = "importing"
  /\ Len(staging[m].chunks) < Parts
  /\ v \in {staging[m].manifest[Len(staging[m].chunks) + 1], Damaged}
  /\ staging' = [staging EXCEPT ![m].chunks = Append(@, v)]
  /\ UNCHANGED <<capture, handler, branch>>

\* verifyStagedPayload: every chunk is there and hashes to the manifest.  It
\* also stands for assertChunksUnchanged, which compares the rows with the
\* chunks that were verified before the await.
\* Mutant: the chunks are counted but not hashed.
StagedPayloadCounted(m) == Len(staging[m].chunks) = Parts

StagedPayloadVerified(m) ==
  Len(staging[m].chunks) = Parts /\ staging[m].chunks = staging[m].manifest

VerifyStarts(m) ==
  /\ handler[m] = "idle"
  /\ staging[m].phase \in {"importing", "verified"}
  /\ Certified(m)
  /\ StagedPayloadVerified(m)
  /\ handler' = [handler EXCEPT ![m] = "verifying"]
  /\ UNCHANGED <<capture, staging, branch>>

VerifyCommits(m) ==
  /\ handler[m] = "verifying"
  /\ Certified(m)
  /\ staging[m].phase \in {"importing", "verified"}
  /\ StagedPayloadVerified(m)
  /\ staging' = [staging EXCEPT ![m].phase = "verified"]
  /\ handler' = [handler EXCEPT ![m] = "idle"]
  /\ UNCHANGED <<capture, branch>>

(***************************************************************************)
(* activate: verify again, check the destination, transfer the source, and *)
(* publish.  A retry finds the source transferred and continues from there.*)
(***************************************************************************)
ActivateStarts(m) ==
  /\ handler[m] = "idle"
  /\ staging[m].phase = "verified"
  /\ StagedPayloadVerified(m)
  /\ handler' = [handler EXCEPT ![m] = "activating"]
  /\ UNCHANGED <<capture, staging, branch>>

ActivateChecks(m) ==
  /\ handler[m] = "activating"
  /\ staging[m].phase = "verified"
  /\ StagedPayloadVerified(m)
  /\ branch.state = "absent"
  /\ handler' = [handler EXCEPT ![m] = "checked"]
  /\ UNCHANGED <<capture, staging, branch>>

\* Mutant: a source that is already transferred ends the call.
ActivateTransfersOnce(m) ==
  /\ handler[m] = "checked"
  /\ Transfer(staging[m].generation, m)
  /\ handler' = [handler EXCEPT ![m] = "transferring"]
  /\ UNCHANGED <<writer, source, capture, staging, branch>>

ActivateTransfers(m) ==
  /\ handler[m] = "checked"
  /\ \/ Transfer(staging[m].generation, m)
     \/ TransferredTo(m) /\ UNCHANGED fenceVars
  /\ handler' = [handler EXCEPT ![m] = "transferring"]
  /\ UNCHANGED <<writer, source, capture, staging, branch>>

\* Mutant: the destination is published before the source is retired, on the
\* strength of the row that was checked.
ActivatePublishesEarly(m) ==
  /\ handler[m] \in {"checked", "transferring"}
  /\ staging[m].phase \in {"verified", "rollback-pending"}
  /\ branch' = [state |-> "active", content |-> staging[m].chunks, accepted |-> 0]
  /\ staging' = [staging EXCEPT ![m].phase = "activated"]
  /\ handler' = [handler EXCEPT ![m] = "idle"]
  /\ UNCHANGED capture

ActivatePublishes(m) ==
  /\ handler[m] = "transferring"
  /\ staging[m].phase = "verified"
  /\ TransferredTo(m)
  /\ StagedPayloadVerified(m)
  /\ branch' = [state |-> "active", content |-> staging[m].chunks, accepted |-> 0]
  /\ staging' = [staging EXCEPT ![m].phase = "activated"]
  /\ handler' = [handler EXCEPT ![m] = "idle"]
  /\ UNCHANGED capture

\* The call rejects or its process stops: the rows stay as they are.
HandlerEnds(m) ==
  /\ handler[m] # "idle"
  /\ handler' = [handler EXCEPT ![m] = "idle"]
  /\ UNCHANGED <<capture, staging, branch>>

(***************************************************************************)
(* rollback: mark the row, reopen the source, delete the chunks.  A retry  *)
(* continues from the row and from what the source says; a source that was *)
(* transferred in the meantime sends the row back to verified.             *)
(***************************************************************************)
RollbackMarks(m) ==
  /\ staging[m].phase \in {"importing", "verified"}
  /\ Certified(m)
  /\ staging' = [staging EXCEPT ![m].phase = "rollback-pending"]
  /\ UNCHANGED <<capture, handler, branch>>

RollbackReopens(m) ==
  /\ staging[m].phase = "rollback-pending"
  /\ Abort(staging[m].generation, m)
  /\ UNCHANGED <<writer, source, capture, staging, handler, branch>>

\* Mutant: the row is given up although the source was transferred.
RollbackYieldsToNobody(m) ==
  /\ staging[m].phase = "rollback-pending"
  /\ gate.phase = "transferred"
  /\ staging' = [staging EXCEPT ![m].phase = "rolled-back", ![m].chunks = <<>>]
  /\ UNCHANGED <<capture, handler, branch>>

RollbackYields(m) ==
  /\ staging[m].phase = "rollback-pending"
  /\ gate.phase = "transferred"
  /\ staging' = [staging EXCEPT ![m].phase = "verified"]
  /\ UNCHANGED <<capture, handler, branch>>

RollbackDeletes(m) ==
  /\ staging[m].phase = "rollback-pending"
  /\ gate.phase = "legacy"
  /\ gate.generation = staging[m].generation + 1
  /\ gate.migrationId = NoMigration
  /\ staging' = [staging EXCEPT ![m].phase = "rolled-back", ![m].chunks = <<>>]
  /\ UNCHANGED <<capture, handler, branch>>

\* The destination accepts mutations once it is active (BranchCommits).
DestinationAccepts ==
  /\ branch.state = "active"
  /\ branch.accepted < MaxAccepted
  /\ branch' = [branch EXCEPT !.accepted = @ + 1]
  /\ UNCHANGED <<capture, staging, handler>>

(***************************************************************************)
(* The controller fences the source for a migration, and may reopen it     *)
(* directly as long as no import of the migration is under way ("after the *)
(* caller durably aborts the destination import").                         *)
(***************************************************************************)
ControllerStep ==
  /\ \/ Register
     \/ \E m \in Migrations : Fence(gate.generation, m)
     \/ \E m \in Migrations : /\ staging[m].phase \notin {"importing", "verified", "activated"}
                              /\ Abort(gate.generation, m)
  /\ UNCHANGED <<writer, source, stagingVars>>

CaptureStep(m) ==
  \/ CaptureStart(m)
  \/ CaptureRead(m)
  \/ CaptureAsserts(m)
  \/ CaptureEnds(m)
  \/ CaptureFails(m)

StagingStep(m) ==
  \/ StagingAdmits(m)
  \/ \E v \in Values \cup {Damaged} : PutChunk(m, v)
  \/ VerifyStarts(m)
  \/ VerifyCommits(m)
  \/ ActivateStarts(m)
  \/ ActivateChecks(m)
  \/ ActivatePublishes(m)
  \/ HandlerEnds(m)
  \/ RollbackMarks(m)
  \/ RollbackYields(m)
  \/ RollbackDeletes(m)

MigrationNext ==
  \/ \E r \in RequestIds : WriterStep(r) /\ UNCHANGED stagingVars
  \/ ControllerStep
  \/ \E m \in Migrations : CaptureStep(m) /\ UNCHANGED writerVars
  \/ \E m \in Migrations : StagingStep(m) /\ UNCHANGED writerVars
  \/ \E m \in Migrations : ActivateTransfers(m) \/ RollbackReopens(m)
  \/ DestinationAccepts /\ UNCHANGED writerVars

MigrationSpec == MigrationInit /\ [][MigrationNext]_migrationVars

-----------------------------------------------------------------------------
\* Types of the staging rows, of the capture and of the destination
\* (branch_migrations in sqlite-schema.ts, CapturedLegacyBranch).
MigrationTypeOK ==
  /\ capture \in [Migrations -> [step : {"idle", "asserted", "reading", "done"},
                                 generation : Generations, parts : Seq(Values)]]
  /\ staging \in [Migrations -> [phase : StagingPhases, generation : Generations,
                                 manifest : Seq(Values),
                                 chunks : Seq(Values \cup {Damaged})]]
  /\ \A m \in Migrations : Len(staging[m].chunks) <= Parts
  /\ handler \in [Migrations -> HandlerSteps]
  /\ branch \in [state : {"absent", "active"}, content : Seq(Values \cup {Damaged}),
                 accepted : 0..MaxAccepted]

Whole == [i \in 1..Parts |-> source]

\* No accepted mutation is left behind: what the destination was activated
\* with is, piece by piece, what the source holds, then and ever after.
ActivatedHoldsTheSource ==
  branch.state = "active" => branch.content = Whole

\* A capture that was returned is one moment of the source, although its
\* reads are separate and the gate may be reopened between any two.
CaptureIsConsistent ==
  \A m \in Migrations : capture[m].step = "done" =>
    \A i, j \in 1..Parts : capture[m].parts[i] = capture[m].parts[j]

\* A retired source always has a destination that can be completed: the
\* migration it was transferred to keeps its verified chunks.
TransferCanRecover ==
  gate.phase = "transferred" =>
    /\ gate.migrationId \in Migrations
    /\ LET s == staging[gate.migrationId] IN
       /\ s.phase \in {"verified", "activated", "rollback-pending"}
       /\ s.chunks = Whole
       /\ s.generation = gate.generation

\* At most one migration of a branch is open, and the branch becomes active
\* only through it.
OneOpenMigration ==
  /\ \A m, n \in Migrations :
       staging[m].phase \in OpenPhases /\ staging[n].phase \in OpenPhases => m = n
  /\ branch.state = "active" <=> \E m \in Migrations : staging[m].phase = "activated"

\* Rolling back outruns the certificate: once a migration is rolled back its
\* generation is over and no call that still holds its certificate passes
\* the fence.
RolledBackIsFenced ==
  \A m \in Migrations : staging[m].phase = "rolled-back" =>
    /\ gate.generation > staging[m].generation
    /\ staging[m].chunks = <<>>

\* The store never reaches a state it cannot leave safely: captures are one
\* moment, a retired source keeps a completable destination, one migration is
\* open, and a certificate of a rolled-back one passes no fence.
MigrationIsRecoverable ==
  /\ CaptureIsConsistent
  /\ TransferCanRecover
  /\ OneOpenMigration
  /\ RolledBackIsFenced

\* An uncertain activation recovers forward.
RecoversForward == gate.phase = "transferred" ~> branch.state = "active"

Refenced(m) ==
  \/ gate.generation > staging[m].generation + 1
  \/ gate.generation = staging[m].generation + 1 /\ gate.phase # "legacy"

\* A rollback, once marked, ends: reopened and deleted, or overtaken by the
\* transfer it raced with.  The exception is a source that is fenced again
\* before the last transaction: it then never accepts the source's state.
RollbackEnds ==
  \A m \in Migrations :
    staging[m].phase = "rollback-pending" ~>
      staging[m].phase # "rollback-pending" \/ Refenced(m)

Ownership ==
  IF branch.state = "active" THEN IF Closed THEN "plane" ELSE "both"
                             ELSE IF Closed THEN "nobody" ELSE "legacy"

BranchValue ==
  IF branch.state = "active" THEN branch.content[1] + branch.accepted ELSE source

Moves == INSTANCE Handover WITH owner <- Ownership, value <- BranchValue

\* The migration is a handover of the branch between two owners.
ImplementsHandover == Moves!Spec
=============================================================================
