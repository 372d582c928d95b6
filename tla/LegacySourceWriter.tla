------------------------- MODULE LegacySourceWriter -------------------------
(***************************************************************************)
(* Legacy writers that enter the source through the admission ledger:      *)
(* createLegacySourceWriter of src/server/state-plane/                     *)
(* legacy-source-writer.ts on top of SourceFence.                          *)
(*                                                                         *)
(* A run of a writer admits one permit, performs the main work and any     *)
(* number of tracked background tasks, closes once all of them settled and *)
(* completes the permit only when all of them succeeded.  The ledger may   *)
(* be remote: an admission or a completion can be applied and its answer   *)
(* lost, or not be applied at all.  A run that failed, or whose process    *)
(* stopped, may have left a source mutation in flight that lands later.    *)
(***************************************************************************)
EXTENDS SourceFence

CONSTANTS
  MaxTasks,   \* bound on the background tasks one run registers
  MaxWrites   \* bound on the source mutations of a behaviour

ASSUME WriterConstants == MaxTasks \in Nat /\ MaxWrites \in Nat

VARIABLES
  writer,   \* per request: the run of legacy-source-writer.ts:run
  source    \* number of mutations applied to the legacy source so far

writerVars == <<gate, permit, writer, source>>

WriterStates ==
  {"idle", "selected", "working", "draining", "settled",
   "done", "rejected", "uncertain", "stopped"}

Outcomes == {"clean", "unknown"}

(***************************************************************************)
(* pc, the generation captured when the writer was composed, how many      *)
(* tasks were registered and how many of them are unsettled, and whether   *)
(* the outcome of some mutation is unknown (failed || uncertain, or the    *)
(* process stopped over it): it may then still be in flight.               *)
(***************************************************************************)
Run == [pc : WriterStates, generation : Generations, registered : 0..MaxTasks,
        tasks : 0..MaxTasks, outcome : Outcomes]

WriterInit ==
  /\ writer = [r \in RequestIds |->
                [pc |-> "idle", generation |-> 0, registered |-> 0, tasks |-> 0,
                 outcome |-> "clean"]]
  /\ source = 0

(***************************************************************************)
(* The request composes a writer for the generation it observed.  By the   *)
(* time it runs the generation may be stale.                               *)
(***************************************************************************)
Compose(r) ==
  /\ writer[r].pc = "idle"
  /\ gate.phase # "unregistered"
  /\ writer' = [writer EXCEPT ![r].pc = "selected",
                              ![r].generation = gate.generation]
  /\ UNCHANGED <<gate, permit, source>>

RunAdmitted(r) ==
  /\ writer[r].pc = "selected"
  /\ Admit(writer[r].generation, r)
  /\ writer' = [writer EXCEPT ![r].pc = "working"]
  /\ UNCHANGED source

\* The admission commits but its answer never arrives: the run throws
\* state_unavailable before any work and leaves the permit open.
RunAdmissionLost(r) ==
  /\ writer[r].pc = "selected"
  /\ Admit(writer[r].generation, r)
  /\ writer' = [writer EXCEPT ![r].pc = "uncertain"]
  /\ UNCHANGED source

\* The ledger refuses, or the call never reaches it: nothing was written.
RunRejected(r) ==
  /\ writer[r].pc = "selected"
  /\ writer' = [writer EXCEPT ![r].pc = "rejected"]
  /\ UNCHANGED <<gate, permit, source>>

\* A mutation by the main work or by a tracked task.
Write(r) ==
  /\ \/ writer[r].pc = "working"
     \/ writer[r].pc = "draining" /\ writer[r].tasks > 0
  /\ source < MaxWrites
  /\ source' = source + 1
  /\ UNCHANGED <<gate, permit, writer>>

\* waitUntil and a nested same-scope run: both append to the pending list,
\* also while the list is being drained, and never after closed.
WaitUntil(r) ==
  /\ \/ writer[r].pc = "working"
     \/ writer[r].pc = "draining" /\ writer[r].tasks > 0
  /\ writer[r].registered < MaxTasks
  /\ writer' = [writer EXCEPT ![r].registered = @ + 1, ![r].tasks = @ + 1]
  /\ UNCHANGED <<gate, permit, source>>

\* A tracked task settles; a rejection is caught and marks the run uncertain.
TaskSettles(r, o) ==
  /\ writer[r].pc \in {"working", "draining"}
  /\ writer[r].tasks > 0
  /\ writer' = [writer EXCEPT ![r].tasks = @ - 1,
                              ![r].outcome = IF o = "clean" THEN @ ELSE "unknown"]
  /\ UNCHANGED <<gate, permit, source>>

\* await work(context): the result or the failure is kept until the drain.
WorkSettles(r, o) ==
  /\ writer[r].pc = "working"
  /\ writer' = [writer EXCEPT ![r].pc = "draining",
                              ![r].outcome = IF o = "clean" THEN @ ELSE "unknown"]
  /\ UNCHANGED <<gate, permit, source>>

\* The drain loop reached the end of the pending list: closed = true.  A
\* failed or uncertain run throws here and keeps its permit.
\* Mutant: the outcome of the background tasks is not looked at.
CloseIgnoresFailure(r) ==
  /\ writer[r].pc = "draining"
  /\ writer[r].tasks = 0
  /\ writer' = [writer EXCEPT ![r].pc = "settled"]
  /\ UNCHANGED <<gate, permit, source>>

Close(r) ==
  /\ writer[r].pc = "draining"
  /\ writer[r].tasks = 0
  /\ writer' = [writer EXCEPT ![r].pc =
                                IF writer[r].outcome = "clean" THEN "settled"
                                                               ELSE "uncertain"]
  /\ UNCHANGED <<gate, permit, source>>

RunCompletes(r) ==
  /\ writer[r].pc = "settled"
  /\ Complete(writer[r].generation, r)
  /\ writer' = [writer EXCEPT ![r].pc = "done"]
  /\ UNCHANGED source

\* completion_unconfirmed with the completion applied ...
CompletionAnswerLost(r) ==
  /\ writer[r].pc = "settled"
  /\ Complete(writer[r].generation, r)
  /\ writer' = [writer EXCEPT ![r].pc = "uncertain"]
  /\ UNCHANGED source

\* ... and with the completion not applied.
CompletionLost(r) ==
  /\ writer[r].pc = "settled"
  /\ writer' = [writer EXCEPT ![r].pc = "uncertain"]
  /\ UNCHANGED <<gate, permit, source>>

\* The process that owns the run stops.  Work that had not settled may have
\* mutations on the wire.
Stop(r) ==
  /\ writer[r].pc \in {"selected", "working", "draining", "settled"}
  /\ writer' = [writer EXCEPT
                  ![r].pc = "stopped",
                  ![r].outcome = IF writer[r].pc = "working" \/ writer[r].tasks > 0
                                 THEN "unknown" ELSE @]
  /\ UNCHANGED <<gate, permit, source>>

\* A mutation of a run that already gave up is applied by the remote store.
LateWrite(r) ==
  /\ writer[r].pc \in {"uncertain", "stopped"}
  /\ writer[r].outcome = "unknown"
  /\ source < MaxWrites
  /\ source' = source + 1
  /\ UNCHANGED <<gate, permit, writer>>

WriterStep(r) ==
  \/ Compose(r)
  \/ RunAdmitted(r)
  \/ RunAdmissionLost(r)
  \/ RunRejected(r)
  \/ Write(r)
  \/ WaitUntil(r)
  \/ \E o \in Outcomes : TaskSettles(r, o) \/ WorkSettles(r, o)
  \/ Close(r)
  \/ RunCompletes(r)
  \/ CompletionAnswerLost(r)
  \/ CompletionLost(r)
  \/ Stop(r)
  \/ LateWrite(r)

FenceStep ==
  /\ \/ Register
     \/ \E g \in Generations, m \in Migrations :
          Fence(g, m) \/ Transfer(g, m) \/ Abort(g, m)
  /\ UNCHANGED <<writer, source>>

Init == FenceInit /\ WriterInit

Next == FenceStep \/ \E r \in RequestIds : WriterStep(r)

Spec == Init /\ [][Next]_writerVars

(***************************************************************************)
(* Properties.                                                             *)
(***************************************************************************)

\* Types of the gate row, of the permit rows and of the runs (the CHECK
\* constraints of source-fence.ts, the locals of run).
TypeOK ==
  /\ gate \in GateRow
  /\ permit \in [Generations -> [RequestIds -> PermitStates]]
  /\ writer \in [RequestIds -> Run]
  /\ source \in 0..MaxWrites

OpenPermits == {p \in Generations \X RequestIds : permit[p[1]][p[2]] = "open"}

Closed == gate.phase \in {"frozen", "transferred"}

CanStillWrite(r) ==
  \/ writer[r].pc \in {"working", "draining"}
  \/ writer[r].pc \in {"uncertain", "stopped"} /\ writer[r].outcome = "unknown"

\* The counter in the gate row and the permit rows are updated by separate
\* statements of one transaction and never disagree; a lost or repeated
\* completion (source-fence.ts:complete) does not let the counter drift.
ActiveCountsOpenPermits == gate.active = Cardinality(OpenPermits)

\* Any run that can still change the source, including one that failed,
\* lost an answer or died with a mutation on the wire, holds an open permit
\* of the gate's own generation, and the gate has not frozen.
NoWriterBehindTheFence ==
  \A r \in RequestIds :
    CanStillWrite(r) =>
      /\ permit[writer[r].generation][r] = "open"
      /\ writer[r].generation = gate.generation
      /\ gate.phase \in {"legacy", "draining"}

\* What holds of one run and its permits: an open permit is one of the
\* gate's generation and of a run past admission that is not known to be
\* done; a run that can still write holds its permit; a run that has not
\* started its work or has settled it has nothing outstanding.
RunIsAccountedFor(r) ==
  /\ \A g \in Generations :
       permit[g][r] = "open" =>
         /\ g = gate.generation
         /\ writer[r].generation = g
         /\ writer[r].pc \in {"working", "draining", "settled", "uncertain", "stopped"}
  /\ CanStillWrite(r) \/ writer[r].pc = "settled" =>
       permit[writer[r].generation][r] = "open"
  /\ writer[r].pc \in {"idle", "selected", "settled"} =>
       writer[r].outcome = "clean" /\ writer[r].tasks = 0
  /\ writer[r].tasks <= writer[r].registered

\* The strengthening from which the other invariants follow: every run is
\* accounted for, and a gate that neither takes nor drains admissions counts
\* none (source-fence.ts:admit to :abort).
OpenPermitsAreLive ==
  /\ \A r \in RequestIds : RunIsAccountedFor(r)
  /\ gate.phase \notin {"legacy", "draining"} => gate.active = 0

\* complete throws state_corrupt on a gate that moved on; a run that settled
\* all its work never meets that branch.
CompletionIsNeverCorrupt ==
  \A r \in RequestIds :
    writer[r].pc = "settled" => CompleteAccepts(writer[r].generation)

\* Freezing the source stops its content: while the gate is frozen or
\* transferred no step changes the source.
FrozenSourceIsStable == [][Closed => source' = source]_writerVars

(***************************************************************************)
(* Fairness: a run makes progress (its promises settle and its event loop  *)
(* runs), and the migration keeps repeating its fence call as the comment  *)
(* on fence asks.  Nothing makes a run succeed.                            *)
(***************************************************************************)
RunProgress(r) ==
  \/ \E o \in Outcomes : TaskSettles(r, o) \/ WorkSettles(r, o)
  \/ Close(r)
  \/ RunCompletes(r)
  \/ CompletionAnswerLost(r)
  \/ CompletionLost(r)

RepeatFence == \E m \in Migrations :
  /\ gate.migrationId = m
  /\ Fence(gate.generation, m)
  /\ UNCHANGED <<writer, source>>

Unresolved ==
  \E r \in RequestIds :
    /\ writer[r].pc \in {"uncertain", "stopped"}
    /\ permit[writer[r].generation][r] = "open"

\* A drain ends: a draining gate becomes frozen unless an admission was left
\* unresolved, in which case the migration stays blocked.
DrainEnds == (gate.phase = "draining") ~> (gate.phase = "frozen" \/ Unresolved)
=============================================================================
