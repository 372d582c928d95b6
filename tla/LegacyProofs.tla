---------------------------- MODULE LegacyProofs ----------------------------
(***************************************************************************)
(* Proofs about the legacy store of a branch: the migration that moves a   *)
(* branch out of it, and the appends under its mutation lease.             *)
(***************************************************************************)
EXTENDS BranchMigration, LegacyAppend, FiniteSetTheorems, TLAPS

\* Back ends, in the order in which they are tried.
USE SMTT(15), Zenon, Z3T(60)

-----------------------------------------------------------------------------
(***************************************************************************)
(* Moving a branch.                                                        *)
(*                                                                         *)
(* For any finite set of requests, any set of migrations and any bounds:   *)
(* no writer of the legacy source works behind a closed gate; a migration  *)
(* leaves no accepted mutation behind, can always be completed or undone,  *)
(* and is a handover of the branch from the legacy source to the plane.    *)
(*                                                                         *)
(* The first part is about the admission ledger and its writers: the       *)
(* invariant counts the open permits and says that whoever can still       *)
(* change the source holds one.                                            *)
(*                                                                         *)
(* The second part is about the migration. None of its properties is       *)
(* inductive. The argument runs over the generation of the gate: as long   *)
(* as the generation of a capture or of a staging row is the gate's, the   *)
(* gate is closed for that migration and the source cannot move            *)
(* (CaptureHolds, StagingHolds), so every value read or staged under it is *)
(* the value of the source; once the generation has moved on, no call of   *)
(* the migration passes assertFrozen. A transfer then meets verified       *)
(* chunks although the row may meanwhile be marked for rollback, because a *)
(* call past its check has seen them and chunks never change after         *)
(* verification (the handler's part of StagingHolds).                      *)
(***************************************************************************)

(***************************************************************************)
(* The admission ledger and its writers.                                   *)
(***************************************************************************)
IInv == TypeOK /\ ActiveCountsOpenPermits /\ OpenPermitsAreLive

\* The permit rows of a branch are finitely many, so they can be counted.
LEMMA OpenPermitsFinite ==
  IsFiniteSet(OpenPermits) /\ Cardinality(OpenPermits) \in Nat
<1>1. IsFiniteSet(Generations)
  BY FS_Interval, FenceConstants DEF Generations
<1>2. IsFiniteSet(Generations \X RequestIds)
  BY <1>1, FS_Product, FenceConstants
<1>3. OpenPermits \in SUBSET (Generations \X RequestIds)
  BY DEF OpenPermits
<1>4. IsFiniteSet(OpenPermits)
  BY <1>2, <1>3, FS_Subset
<1>. QED
  BY <1>4, FS_CardinalityType

\* admit opens one permit row and counts it.
LEMMA AdmitCounts ==
  ASSUME TypeOK, NEW g \in Generations, NEW r \in RequestIds, Admit(g, r)
  PROVE  /\ OpenPermits' = OpenPermits \cup {<<g, r>>}
         /\ Cardinality(OpenPermits') = Cardinality(OpenPermits) + 1
<1>1. OpenPermits' = OpenPermits \cup {<<g, r>>}
  BY DEF OpenPermits, Admit, TypeOK
<1>2. <<g, r>> \notin OpenPermits
  BY DEF OpenPermits, Admit
<1>. QED
  BY <1>1, <1>2, OpenPermitsFinite, FS_AddElement

\* complete closes one permit row and stops counting it.
LEMMA CompleteCounts ==
  ASSUME TypeOK, NEW g \in Generations, NEW r \in RequestIds, Complete(g, r)
  PROVE  /\ OpenPermits' = OpenPermits \ {<<g, r>>}
         /\ Cardinality(OpenPermits') = Cardinality(OpenPermits) - 1
<1>1. OpenPermits' = OpenPermits \ {<<g, r>>}
  BY DEF OpenPermits, Complete, TypeOK
<1>2. <<g, r>> \in OpenPermits
  BY DEF OpenPermits, Complete
<1>. QED
  BY Zenon, <1>1, <1>2, OpenPermitsFinite, FS_RemoveElement

\* An empty counter means that no permit is open.
LEMMA NoneActive ==
  ASSUME ActiveCountsOpenPermits, gate.active = 0,
         NEW g \in Generations, NEW r \in RequestIds
  PROVE  permit[g][r] # "open"
<1>1. OpenPermits = {}
  BY ZenonT(30), OpenPermitsFinite, FS_EmptySet DEF ActiveCountsOpenPermits
<1>2. permit[g][r] = "open" => <<g, r>> \in OpenPermits
  BY DEF OpenPermits
<1>. QED
  BY <1>1, <1>2

\* A step that moves one run and leaves the ledger alone preserves the
\* invariant when the moved run is still accounted for.
LEMMA LocalStep ==
  ASSUME IInv, NEW r \in RequestIds, NEW w \in Run,
         writer' = [writer EXCEPT ![r] = w], source' \in 0..MaxWrites,
         UNCHANGED <<gate, permit>>, RunIsAccountedFor(r)'
  PROVE  IInv'
<1>1. TypeOK' /\ ActiveCountsOpenPermits'
  BY DEF IInv, TypeOK, ActiveCountsOpenPermits, OpenPermits
<1>2. \A q \in RequestIds \ {r} : RunIsAccountedFor(q)'
  BY DEF IInv, TypeOK, OpenPermitsAreLive, RunIsAccountedFor, CanStillWrite
<1>. QED
  BY <1>1, <1>2 DEF IInv, OpenPermitsAreLive

\* The steps of a run between its admission and its completion.
LEMMA LocalStepsPreserve ==
  ASSUME IInv, NEW r \in RequestIds,
         \/ Compose(r) \/ RunRejected(r) \/ Write(r) \/ WaitUntil(r)
         \/ \E o \in Outcomes : TaskSettles(r, o) \/ WorkSettles(r, o)
         \/ Close(r) \/ CompletionLost(r) \/ Stop(r) \/ LateWrite(r)
  PROVE  IInv'
<1>. DEFINE w == writer[r]
<1>0. /\ w \in Run /\ RunIsAccountedFor(r) /\ source \in 0..MaxWrites
      /\ gate.generation \in Generations
      /\ writer \in [RequestIds -> Run]
  BY DEF IInv, TypeOK, OpenPermitsAreLive, GateRow
<1>1. CASE Compose(r)
  <2>. DEFINE v == [w EXCEPT !.pc = "selected", !.generation = gate.generation]
  <2>1. v \in Run
    BY ZenonT(30), <1>0, <1>1, WriterConstants DEF Compose, Run, WriterStates, Outcomes, RunIsAccountedFor
  <2>2. writer' = [writer EXCEPT ![r] = v] /\ writer'[r] = v /\ UNCHANGED <<gate, permit, source>>
    BY ZenonT(30), <1>0, <1>1 DEF Compose, Run
  <2>3. RunIsAccountedFor(r)'
    BY <1>0, <1>1, <2>2, WriterConstants DEF Compose, RunIsAccountedFor, CanStillWrite, Run, WriterStates, Outcomes
  <2>. QED
    BY ZenonT(30), <1>0, <2>1, <2>2, <2>3, LocalStep
<1>2. CASE RunRejected(r)
  <2>. DEFINE v == [w EXCEPT !.pc = "rejected"]
  <2>1. v \in Run
    BY <1>0, <1>2, WriterConstants DEF RunRejected, Run, WriterStates, Outcomes, RunIsAccountedFor
  <2>2. writer' = [writer EXCEPT ![r] = v] /\ writer'[r] = v /\ UNCHANGED <<gate, permit, source>>
    BY <1>0, <1>2 DEF RunRejected, Run
  <2>3. RunIsAccountedFor(r)'
    BY <1>0, <1>2, <2>2, WriterConstants DEF RunRejected, RunIsAccountedFor, CanStillWrite, Run, WriterStates, Outcomes
  <2>. QED
    BY ZenonT(30), <1>0, <2>1, <2>2, <2>3, LocalStep
<1>3. CASE Write(r) \/ LateWrite(r)
  <2>1. writer' = [writer EXCEPT ![r] = w] /\ UNCHANGED <<gate, permit, writer>>
    BY <1>0, <1>3 DEF Write, LateWrite
  <2>2. source' \in 0..MaxWrites
    BY <1>0, <1>3, WriterConstants DEF Write, LateWrite
  <2>3. RunIsAccountedFor(r)'
    BY <1>0, <2>1 DEF RunIsAccountedFor, CanStillWrite
  <2>. QED
    BY <1>0, <2>1, <2>2, <2>3, LocalStep
<1>4. CASE WaitUntil(r)
  <2>. DEFINE v == [w EXCEPT !.registered = @ + 1, !.tasks = @ + 1]
  <2>1. v \in Run
    BY <1>0, <1>4, WriterConstants DEF WaitUntil, Run, WriterStates, Outcomes, RunIsAccountedFor
  <2>2. writer' = [writer EXCEPT ![r] = v] /\ writer'[r] = v /\ UNCHANGED <<gate, permit, source>>
    BY <1>0, <1>4 DEF WaitUntil, Run
  <2>3. RunIsAccountedFor(r)'
    BY <1>0, <1>4, <2>2, WriterConstants DEF WaitUntil, RunIsAccountedFor, CanStillWrite, Run, WriterStates, Outcomes
  <2>. QED
    BY ZenonT(30), <1>0, <2>1, <2>2, <2>3, LocalStep
<1>5. ASSUME NEW o \in Outcomes, TaskSettles(r, o) PROVE IInv'
  <2>. DEFINE v == [w EXCEPT !.tasks = @ - 1, !.outcome = IF o = "clean" THEN @ ELSE "unknown"]
  <2>1. v \in Run
    BY <1>0, <1>5, WriterConstants DEF TaskSettles, Run, WriterStates, Outcomes, RunIsAccountedFor
  <2>2. writer' = [writer EXCEPT ![r] = v] /\ writer'[r] = v /\ UNCHANGED <<gate, permit, source>>
    BY ZenonT(30), <1>0, <1>5 DEF TaskSettles, Run
  <2>3. RunIsAccountedFor(r)'
    BY <1>0, <1>5, <2>2, WriterConstants DEF TaskSettles, RunIsAccountedFor, CanStillWrite, Run, WriterStates, Outcomes
  <2>. QED
    BY ZenonT(30), <1>0, <2>1, <2>2, <2>3, LocalStep
<1>6. ASSUME NEW o \in Outcomes, WorkSettles(r, o) PROVE IInv'
  <2>. DEFINE v == [w EXCEPT !.pc = "draining", !.outcome = IF o = "clean" THEN @ ELSE "unknown"]
  <2>1. v \in Run
    BY <1>0, <1>6, WriterConstants DEF WorkSettles, Run, WriterStates, Outcomes, RunIsAccountedFor
  <2>2. writer' = [writer EXCEPT ![r] = v] /\ writer'[r] = v /\ UNCHANGED <<gate, permit, source>>
    BY ZenonT(30), <1>0, <1>6 DEF WorkSettles, Run
  <2>3. RunIsAccountedFor(r)'
    BY <1>0, <1>6, <2>2, WriterConstants DEF WorkSettles, RunIsAccountedFor, CanStillWrite, Run, WriterStates, Outcomes
  <2>. QED
    BY ZenonT(30), <1>0, <2>1, <2>2, <2>3, LocalStep
<1>7. CASE Close(r)
  <2>. DEFINE v == [w EXCEPT !.pc = IF w.outcome = "clean" THEN "settled" ELSE "uncertain"]
  <2>1. v \in Run
    BY <1>0, <1>7, WriterConstants DEF Close, Run, WriterStates, Outcomes, RunIsAccountedFor
  <2>2. writer' = [writer EXCEPT ![r] = v] /\ writer'[r] = v /\ UNCHANGED <<gate, permit, source>>
    BY <1>0, <1>7 DEF Close, Run
  <2>3. RunIsAccountedFor(r)'
    BY <1>0, <1>7, <2>2, WriterConstants DEF Close, RunIsAccountedFor, CanStillWrite, Run, WriterStates, Outcomes
  <2>. QED
    BY ZenonT(30), <1>0, <2>1, <2>2, <2>3, LocalStep
<1>8. CASE CompletionLost(r)
  <2>. DEFINE v == [w EXCEPT !.pc = "uncertain"]
  <2>1. v \in Run
    BY <1>0, <1>8, WriterConstants DEF CompletionLost, Run, WriterStates, Outcomes, RunIsAccountedFor
  <2>2. writer' = [writer EXCEPT ![r] = v] /\ writer'[r] = v /\ UNCHANGED <<gate, permit, source>>
    BY <1>0, <1>8 DEF CompletionLost, Run
  <2>3. RunIsAccountedFor(r)'
    BY <1>0, <1>8, <2>2, WriterConstants DEF CompletionLost, RunIsAccountedFor, CanStillWrite, Run, WriterStates, Outcomes
  <2>. QED
    BY ZenonT(30), <1>0, <2>1, <2>2, <2>3, LocalStep
<1>9. CASE Stop(r)
  <2>. DEFINE v == [w EXCEPT !.pc = "stopped",
                            !.outcome = IF w.pc = "working" \/ w.tasks > 0
                                        THEN "unknown" ELSE @]
  <2>1. v \in Run
    BY ZenonT(30), <1>0, <1>9, WriterConstants DEF Stop, Run, WriterStates, Outcomes, RunIsAccountedFor
  <2>2. writer' = [writer EXCEPT ![r] = v] /\ writer'[r] = v /\ UNCHANGED <<gate, permit, source>>
    BY ZenonT(30), <1>0, <1>9 DEF Stop, Run
  <2>3. RunIsAccountedFor(r)'
    BY <1>0, <1>9, <2>2, WriterConstants DEF Stop, RunIsAccountedFor, CanStillWrite, Run, WriterStates, Outcomes
  <2>. QED
    BY ZenonT(30), <1>0, <2>1, <2>2, <2>3, LocalStep
<1>. QED
  BY <1>1, <1>2, <1>3, <1>4, <1>5, <1>6, <1>7, <1>8, <1>9

\* Steps that move the ledger: an admission, a completion.
LEMMA AdmissionPreserves ==
  ASSUME IInv, NEW r \in RequestIds, RunAdmitted(r) \/ RunAdmissionLost(r)
  PROVE  IInv'
<1>. DEFINE g == writer[r].generation
<1>0. /\ TypeOK /\ g \in Generations /\ Admit(g, r)
      /\ writer[r] \in Run /\ gate.active \in Nat
      /\ \A q \in RequestIds : RunIsAccountedFor(q)
  BY DEF IInv, TypeOK, OpenPermitsAreLive, Run, GateRow, RunAdmitted, RunAdmissionLost
<1>1. TypeOK'
  <2>1. gate' \in GateRow
    BY <1>0 DEF TypeOK, GateRow, Admit
  <2>2. permit' \in [Generations -> [RequestIds -> PermitStates]]
    BY <1>0 DEF TypeOK, PermitStates, Admit
  <2>3. writer' \in [RequestIds -> Run] /\ source' \in 0..MaxWrites
    <3>1. PICK p \in WriterStates : writer' = [writer EXCEPT ![r] = [writer[r] EXCEPT !.pc = p]]
      BY DEF WriterStates, RunAdmitted, RunAdmissionLost
    <3>2. [writer[r] EXCEPT !.pc = p] \in Run
      BY <1>0 DEF Run
    <3>3. source' = source
      BY DEF RunAdmitted, RunAdmissionLost
    <3>. QED
      BY <1>0, <3>1, <3>2, <3>3 DEF TypeOK
  <2>. QED
    BY <2>1, <2>2, <2>3 DEF TypeOK
<1>2. ActiveCountsOpenPermits'
  BY ZenonT(30), <1>0, AdmitCounts DEF IInv, ActiveCountsOpenPermits, Admit, TypeOK, GateRow
<1>3. ASSUME NEW q \in RequestIds PROVE RunIsAccountedFor(q)'
  <2>1. /\ gate'.generation = gate.generation /\ gate.generation = g
        /\ \A h \in Generations : permit'[h][q] = IF h = g /\ q = r THEN "open"
                                                                   ELSE permit[h][q]
    BY <1>0 DEF TypeOK, GateRow, Admit
  <2>2. CASE q # r
    <3>1. writer'[q] = writer[q] /\ writer[q].generation \in Generations
      BY <1>0, <2>2 DEF TypeOK, Run, RunAdmitted, RunAdmissionLost
    <3>. QED
      BY <1>0, <2>1, <2>2, <3>1 DEF RunIsAccountedFor, CanStillWrite
  <2>3. CASE q = r
    <3>1. /\ writer'[r].pc \in {"working", "uncertain"} /\ writer'[r].generation = g
          /\ writer'[r].tasks = writer[r].tasks
          /\ writer'[r].registered = writer[r].registered
          /\ writer'[r].outcome = writer[r].outcome
      BY <1>0 DEF TypeOK, Run, RunAdmitted, RunAdmissionLost
    <3>2. writer[r].pc = "selected"
      BY DEF RunAdmitted, RunAdmissionLost
    <3>. QED
      BY <1>0, <2>1, <2>3, <3>1, <3>2 DEF RunIsAccountedFor, CanStillWrite
  <2>. QED
    BY <2>2, <2>3
<1>4. gate'.phase = "legacy"
  BY <1>0 DEF Admit, TypeOK, GateRow
<1>. QED
  BY <1>1, <1>2, <1>3, <1>4 DEF IInv, OpenPermitsAreLive

LEMMA CompletionPreserves ==
  ASSUME IInv, NEW r \in RequestIds, RunCompletes(r) \/ CompletionAnswerLost(r)
  PROVE  IInv'
<1>. DEFINE g == writer[r].generation
<1>0. /\ TypeOK /\ g \in Generations /\ Complete(g, r)
      /\ writer[r] \in Run /\ gate.active \in Nat
      /\ \A q \in RequestIds : RunIsAccountedFor(q)
  BY DEF IInv, TypeOK, OpenPermitsAreLive, Run, GateRow, RunCompletes,
         CompletionAnswerLost
<1>1. TypeOK'
  <2>1. gate' \in GateRow
    BY <1>0 DEF TypeOK, GateRow, Complete, CompleteAccepts
  <2>2. permit' \in [Generations -> [RequestIds -> PermitStates]]
    BY <1>0 DEF TypeOK, PermitStates, Complete
  <2>3. writer' \in [RequestIds -> Run] /\ source' \in 0..MaxWrites
    <3>1. PICK p \in WriterStates : writer' = [writer EXCEPT ![r] = [writer[r] EXCEPT !.pc = p]]
      BY DEF WriterStates, RunCompletes, CompletionAnswerLost
    <3>2. [writer[r] EXCEPT !.pc = p] \in Run
      BY <1>0 DEF Run
    <3>3. source' = source
      BY DEF RunCompletes, CompletionAnswerLost
    <3>. QED
      BY <1>0, <3>1, <3>2, <3>3 DEF TypeOK
  <2>. QED
    BY <2>1, <2>2, <2>3 DEF TypeOK
<1>2. ActiveCountsOpenPermits'
  BY ZenonT(30), <1>0, CompleteCounts
  DEF IInv, ActiveCountsOpenPermits, Complete, TypeOK, GateRow
<1>3. ASSUME NEW q \in RequestIds PROVE RunIsAccountedFor(q)'
  <2>1. /\ gate'.generation = gate.generation /\ gate.generation = g
        /\ \A h \in Generations : permit'[h][q] = IF h = g /\ q = r THEN "completed"
                                                                   ELSE permit[h][q]
    BY <1>0 DEF TypeOK, GateRow, Complete, CompleteAccepts
  <2>2. CASE q # r
    <3>1. writer'[q] = writer[q] /\ writer[q].generation \in Generations
      BY <1>0, <2>2 DEF TypeOK, Run, RunCompletes, CompletionAnswerLost
    <3>. QED
      BY <1>0, <2>1, <2>2, <3>1 DEF RunIsAccountedFor, CanStillWrite
  <2>3. CASE q = r
    <3>1. /\ writer'[r].pc \in {"done", "uncertain"} /\ writer'[r].generation = g
          /\ writer'[r].tasks = writer[r].tasks
          /\ writer'[r].registered = writer[r].registered
          /\ writer'[r].outcome = writer[r].outcome
      BY <1>0 DEF TypeOK, Run, RunCompletes, CompletionAnswerLost
    <3>2. writer[r].pc = "settled"
      BY DEF RunCompletes, CompletionAnswerLost
    <3>. QED
      BY <1>0, <2>1, <2>3, <3>1, <3>2 DEF RunIsAccountedFor, CanStillWrite
  <2>. QED
    BY <2>2, <2>3
<1>4. gate'.phase \in {"legacy", "draining"}
  BY <1>0 DEF Complete, CompleteAccepts, TypeOK, GateRow
<1>. QED
  BY <1>1, <1>2, <1>3, <1>4 DEF IInv, OpenPermitsAreLive

\* Steps of the migration: they never touch a permit, and they change the
\* generation only when no permit is open.
LEMMA FenceStepPreserves ==
  ASSUME IInv, FenceStep
  PROVE  IInv'
<1>0. /\ TypeOK /\ \A q \in RequestIds : RunIsAccountedFor(q)
      /\ UNCHANGED <<permit, writer, source>>
  BY ZenonT(30) DEF IInv, OpenPermitsAreLive, FenceStep, Register, Fence, Transfer, Abort
<1>1. TypeOK' /\ gate'.active = gate.active
  BY ZenonT(30), <1>0 DEF TypeOK, GateRow, GatePhases, FenceStep, Register, Fence, Transfer, Abort,
              AssertFrozen
<1>2. ActiveCountsOpenPermits'
  BY <1>0, <1>1 DEF IInv, ActiveCountsOpenPermits, OpenPermits
<1>3. gate'.generation = gate.generation \/ gate.active = 0
  BY ZenonT(30), <1>0 DEF TypeOK, GateRow, FenceStep, Register, Fence, Transfer, Abort, AssertFrozen
<1>4. ASSUME NEW q \in RequestIds PROVE RunIsAccountedFor(q)'
  <2>1. CASE gate'.generation = gate.generation
    BY <1>0, <2>1 DEF RunIsAccountedFor, CanStillWrite
  <2>2. CASE gate.active = 0
    <3>1. \A g \in Generations : permit[g][q] # "open"
      BY <2>2, NoneActive DEF IInv
    <3>. QED
      BY <1>0, <3>1 DEF RunIsAccountedFor, CanStillWrite
  <2>. QED
    BY <1>3, <2>1, <2>2
<1>5. gate'.phase \notin {"legacy", "draining"} => gate'.active = 0
  BY ZenonT(30), <1>0, <1>1 DEF IInv, OpenPermitsAreLive, TypeOK, GateRow, FenceStep, Register,
                    Fence, Transfer, Abort, AssertFrozen
<1>. QED
  BY <1>1, <1>2, <1>4, <1>5 DEF IInv, OpenPermitsAreLive

\* A branch starts without permits, runs and writes.
LEMMA InitEstablishes == Init => IInv
<1>. SUFFICES ASSUME Init PROVE IInv
  OBVIOUS
<1>1. TypeOK
  BY FenceConstants, WriterConstants
  DEF Init, FenceInit, WriterInit, TypeOK, GateRow, Generations, GatePhases,
      PermitStates, Run, WriterStates, Outcomes
<1>2. OpenPermits = {}
  BY DEF Init, FenceInit, OpenPermits
<1>3. ActiveCountsOpenPermits
  BY <1>2, FS_EmptySet DEF ActiveCountsOpenPermits, Init, FenceInit
<1>4. OpenPermitsAreLive
  BY DEF Init, FenceInit, WriterInit, OpenPermitsAreLive, RunIsAccountedFor,
         CanStillWrite
<1>. QED
  BY <1>1, <1>3, <1>4 DEF IInv

\* Every step of the ledger and of its writers preserves the invariant.
LEMMA NextPreserves ==
  ASSUME IInv, [Next]_writerVars
  PROVE  IInv'
<1>1. CASE FenceStep
  BY <1>1, FenceStepPreserves
<1>2. ASSUME NEW r \in RequestIds, WriterStep(r) PROVE IInv'
  BY <1>2, LocalStepsPreserve, AdmissionPreserves, CompletionPreserves DEF WriterStep
<1>3. CASE UNCHANGED writerVars
  BY <1>3 DEF writerVars, IInv, TypeOK, ActiveCountsOpenPermits, OpenPermits,
              OpenPermitsAreLive, RunIsAccountedFor, CanStillWrite
<1>. QED
  BY <1>1, <1>2, <1>3 DEF Next

\* The inductive invariant holds in every reachable state.
THEOREM Invariance == Spec => []IInv
<1>1. IInv /\ [Next]_writerVars => IInv'
  BY NextPreserves
<1>. QED
  BY <1>1, InitEstablishes, PTL DEF Spec

\* A run that can still write holds an open permit, so the counter is not
\* zero and the gate is not frozen.
LEMMA FencedOut == IInv => NoWriterBehindTheFence
<1>. SUFFICES ASSUME IInv, NEW r \in RequestIds, CanStillWrite(r)
              PROVE  /\ permit[writer[r].generation][r] = "open"
                     /\ writer[r].generation = gate.generation
                     /\ gate.phase \in {"legacy", "draining"}
  BY DEF NoWriterBehindTheFence
<1>1. writer[r].generation \in Generations
  BY DEF IInv, TypeOK, Run
<1>2. permit[writer[r].generation][r] = "open" /\ writer[r].generation = gate.generation
  BY <1>1 DEF IInv, OpenPermitsAreLive, RunIsAccountedFor
<1>3. gate.active # 0
  BY <1>1, <1>2, NoneActive DEF IInv
<1>. QED
  BY <1>2, <1>3 DEF IInv, OpenPermitsAreLive

\* No step behind the fence writes.
LEMMA ClosedIsStable ==
  ASSUME NoWriterBehindTheFence, [Next]_writerVars, Closed
  PROVE  source' = source
<1>1. CASE FenceStep
  BY <1>1 DEF FenceStep
<1>2. ASSUME NEW r \in RequestIds, WriterStep(r) PROVE source' = source
  <2>1. ~Write(r) /\ ~LateWrite(r)
    BY DEF NoWriterBehindTheFence, CanStillWrite, Closed, Write, LateWrite
  <2>. QED
    BY <1>2, <2>1 DEF WriterStep, Compose, RunAdmitted, RunAdmissionLost, RunRejected,
                      WaitUntil, TaskSettles, WorkSettles, Close, RunCompletes,
                      CompletionAnswerLost, CompletionLost, Stop
<1>. QED
  BY <1>1, <1>2 DEF Next, writerVars

\* No writer behind the fence: a run that can still change the legacy source
\* holds an open permit of the gate's generation and the gate is not frozen
\* (source-fence.ts:fence, legacy-source-writer.ts:run).
THEOREM WritersAreFenced == Spec => []NoWriterBehindTheFence
<1>. QED
  BY FencedOut, Invariance, PTL

\* A settled run's completion is always accepted (source-fence.ts:complete).
THEOREM CompletionAccepted == Spec => []CompletionIsNeverCorrupt
<1>1. IInv => CompletionIsNeverCorrupt
  <2>. SUFFICES ASSUME IInv, NEW r \in RequestIds, writer[r].pc = "settled"
                PROVE  CompleteAccepts(writer[r].generation)
    BY DEF CompletionIsNeverCorrupt
  <2>1. writer[r].generation \in Generations /\ gate.active \in Nat
    BY DEF IInv, TypeOK, Run, GateRow
  <2>2. permit[writer[r].generation][r] = "open" /\ writer[r].generation = gate.generation
    BY <2>1 DEF IInv, OpenPermitsAreLive, RunIsAccountedFor
  <2>3. gate.active # 0
    BY <2>1, <2>2, NoneActive DEF IInv
  <2>. QED
    BY <2>1, <2>2, <2>3 DEF IInv, OpenPermitsAreLive, CompleteAccepts
<1>. QED
  BY <1>1, Invariance, PTL

\* While the gate is frozen or transferred no step changes the source, which
\* is what an export of the frozen source relies on
\* (legacy-migration-source.ts:captureLegacyMigrationSource).
THEOREM FrozenSourceStability == Spec => FrozenSourceIsStable
<1>1. NoWriterBehindTheFence /\ [Next]_writerVars => [Closed => source' = source]_writerVars
  BY ClosedIsStable
<1>. QED
  BY <1>1, WritersAreFenced, PTL DEF Spec, FrozenSourceIsStable

(***************************************************************************)
(* The migration.                                                          *)
(***************************************************************************)
\* A capture belongs to a generation of the gate.  As long as that generation
\* lasts the gate is closed for its migration, so that what was read is what
\* the source holds.
CaptureHolds(m) ==
  LET c == capture[m] IN
  /\ c.step # "idle" => c.generation <= gate.generation
  /\ c.step # "idle" /\ c.generation = gate.generation =>
       /\ Closed /\ gate.migrationId = m
       /\ \A i \in 1..Len(c.parts) : c.parts[i] = source
  /\ c.step = "done" =>
       /\ Len(c.parts) = Parts
       /\ \A i, j \in 1..Parts : c.parts[i] = c.parts[j]

\* The same of a staging row, and what verify and the calls after it have
\* established about its chunks.
StagingHolds(m) ==
  LET s == staging[m] IN
  /\ s.phase # "none" => s.generation <= gate.generation /\ Len(s.manifest) = Parts
  /\ s.phase # "none" /\ s.generation = gate.generation =>
       /\ Closed /\ gate.migrationId = m
       /\ \A i \in 1..Parts : s.manifest[i] = source
  /\ s.phase \in {"verified", "activated"} => s.chunks = s.manifest
  /\ s.phase = "activated" => branch.state = "active"
  /\ s.phase = "rolled-back" => s.generation < gate.generation /\ s.chunks = <<>>
  /\ handler[m] \in {"activating", "checked", "transferring"} =>
       /\ s.phase \in {"verified", "rollback-pending", "rolled-back"}
       /\ s.phase = "rollback-pending" => s.chunks = s.manifest

\* At most one row is open.
OneOpen ==
  \A m, n \in Migrations :
    staging[m].phase \in OpenPhases /\ staging[n].phase \in OpenPhases => m = n

\* A retired source belongs to a migration whose chunks are verified, and the
\* destination is active only with those chunks.
TransferHolds ==
  /\ gate.phase = "transferred" =>
       /\ gate.migrationId \in Migrations
       /\ LET s == staging[gate.migrationId] IN
          /\ s.phase \in {"verified", "activated", "rollback-pending"}
          /\ s.generation = gate.generation /\ s.chunks = s.manifest
  /\ branch.state = "active" =>
       /\ gate.phase = "transferred"
       /\ LET s == staging[gate.migrationId] IN
          s.phase = "activated" /\ branch.content = s.chunks

\* The inductive invariant, beside the one of the writers (IInv).
MigrationInv ==
  /\ MigrationTypeOK /\ OneOpen /\ TransferHolds
  /\ \A m \in Migrations : CaptureHolds(m) /\ StagingHolds(m)

-----------------------------------------------------------------------------
\* What a step does to the gate and to the source, as far as a migration can
\* tell: a closed gate stays closed for its migration and keeps the source
\* until the generation moves on, and a transferred one never reopens.
GateStep ==
  /\ gate'.generation >= gate.generation
  /\ Closed /\ gate'.generation = gate.generation =>
       /\ Closed' /\ source' = source
       /\ gate.migrationId \in Migrations => gate'.migrationId = gate.migrationId
  /\ gate.phase = "transferred" => gate' = gate /\ source' = source

\* Every step of a migration is a step of the ledger, or of a writer, or
\* leaves both alone.
LEMMA UsesLedger ==
  ASSUME IInv, [MigrationNext]_migrationVars
  PROVE  [Next]_writerVars
<1>1. gate.generation \in Generations
  BY DEF IInv, TypeOK, GateRow
<1>2. CASE \E r \in RequestIds : WriterStep(r)
  BY <1>2 DEF Next
<1>3. CASE ControllerStep
  <2>1. FenceStep
    BY <1>1, <1>3 DEF ControllerStep, FenceStep
  <2>. QED
    BY <2>1 DEF Next
<1>4. ASSUME NEW m \in Migrations, ActivateTransfers(m) \/ RollbackReopens(m)
      PROVE  [Next]_writerVars
  <2>1. staging[m].generation = gate.generation \/ UNCHANGED fenceVars
    BY <1>4 DEF ActivateTransfers, RollbackReopens, Transfer, Abort, AssertFrozen
  <2>2. UNCHANGED writerVars \/ FenceStep
    BY <1>1, <1>4, <2>1 DEF ActivateTransfers, RollbackReopens, FenceStep, fenceVars, writerVars
  <2>. QED
    BY <2>2 DEF Next
<1>5. CASE UNCHANGED migrationVars
  BY <1>5 DEF migrationVars, writerVars
<1>. QED
  BY <1>2, <1>3, <1>4, <1>5 DEF MigrationNext

\* Steps of the ledger and of the writers move the gate in this way.
LEMMA GateMoves ==
  ASSUME IInv, [Next]_writerVars
  PROVE  GateStep
<1>1. gate \in GateRow /\ \A g \in Generations : g \in Int
  BY FenceConstants DEF IInv, TypeOK, Generations
<1>2. Closed => source' = source
  BY FencedOut, ClosedIsStable
<1>3. CASE UNCHANGED writerVars
  BY <1>1, <1>3 DEF writerVars, GateStep, Closed, GateRow
<1>4. ASSUME NEW r \in RequestIds, WriterStep(r) PROVE GateStep
  <2>1. UNCHANGED gate \/ \E g \in Generations : Admit(g, r) \/ Complete(g, r)
    BY <1>4 DEF IInv, TypeOK, Run, WriterStep, Compose, RunAdmitted, RunAdmissionLost, RunRejected, Write,
                WaitUntil, TaskSettles, WorkSettles, Close, RunCompletes, CompletionAnswerLost,
                CompletionLost, Stop, LateWrite
  <2>2. CASE UNCHANGED gate
    BY <1>1, <1>2, <2>2 DEF GateStep, Closed, GateRow
  <2>3. ASSUME NEW g \in Generations, Admit(g, r) \/ Complete(g, r) PROVE GateStep
    <3>1. gate.phase \in {"legacy", "draining"}
      BY <2>3 DEF Admit, Complete, CompleteAccepts
    <3>2. gate'.generation = gate.generation
      BY <1>1, <2>3 DEF Admit, Complete, GateRow
    <3>. QED
      BY <1>1, <3>1, <3>2 DEF GateStep, Closed, GateRow
  <2>. QED
    BY <2>1, <2>2, <2>3
<1>5. CASE FenceStep
  <2>1. CASE Register
    BY <1>1, <2>1 DEF Register, GateStep, Closed, GateRow
  <2>2. ASSUME NEW g \in Generations, NEW m \in Migrations, Fence(g, m) PROVE GateStep
    <3>1. /\ gate'.generation = gate.generation /\ gate.phase # "transferred"
          /\ gate'.migrationId = m /\ gate.migrationId \in {NoMigration, m}
          /\ gate'.phase = IF gate.active = 0 THEN "frozen" ELSE "draining"
      BY <1>1, <2>2 DEF Fence, GateRow
    <3>. QED
      BY <1>1, <1>2, <3>1, FenceConstants DEF GateStep, Closed, GateRow, IInv, OpenPermitsAreLive
  <2>3. ASSUME NEW g \in Generations, NEW m \in Migrations, Transfer(g, m) PROVE GateStep
    BY <1>1, <1>2, <2>3 DEF Transfer, AssertFrozen, GateStep, Closed, GateRow
  <2>4. ASSUME NEW g \in Generations, NEW m \in Migrations, Abort(g, m) PROVE GateStep
    BY <1>1, <2>4 DEF Abort, AssertFrozen, GateStep, GateRow
  <2>. QED
    BY <1>5, <2>1, <2>2, <2>3, <2>4 DEF FenceStep
<1>. QED
  BY <1>3, <1>4, <1>5 DEF Next

\* Staging rows and captures.
Rows == [phase : StagingPhases, generation : Generations, manifest : Seq(Values),
         chunks : Seq(Values \cup {Damaged})]

Captured == [step : {"idle", "asserted", "reading", "done"}, generation : Generations,
             parts : Seq(Values)]

\* Migrations that a step leaves alone keep what they have established.
LEMMA CaptureWaits ==
  ASSUME IInv, TypeOK', GateStep, MigrationTypeOK, NEW m \in Migrations, CaptureHolds(m),
         capture'[m] = capture[m]
  PROVE  CaptureHolds(m)'
<1>1. /\ capture[m].generation \in Int /\ gate.generation \in Int /\ gate'.generation \in Int
      /\ gate'.generation >= gate.generation
  BY FenceConstants DEF IInv, TypeOK, GateRow, Generations, MigrationTypeOK, GateStep
<1>. QED
  BY <1>1 DEF CaptureHolds, GateStep

\* The same of a staging row.
LEMMA StagingWaits ==
  ASSUME IInv, TypeOK', GateStep, MigrationTypeOK, NEW m \in Migrations, StagingHolds(m),
         staging'[m] = staging[m], handler'[m] \in {handler[m], "idle"},
         branch.state = "active" => branch'.state = "active"
  PROVE  StagingHolds(m)'
<1>1. /\ staging[m].generation \in Int /\ gate.generation \in Int /\ gate'.generation \in Int
      /\ gate'.generation >= gate.generation
  BY FenceConstants DEF IInv, TypeOK, GateRow, Generations, MigrationTypeOK, GateStep
<1>. QED
  BY <1>1 DEF StagingHolds, GateStep

\* A step of the ledger or of a writer that transfers nothing.
LEMMA LedgerStep ==
  ASSUME IInv, TypeOK', MigrationInv, GateStep, UNCHANGED stagingVars,
         gate'.phase = "transferred" => gate.phase = "transferred"
  PROVE  MigrationInv'
<1>1. MigrationTypeOK' /\ OneOpen'
  BY DEF MigrationInv, MigrationTypeOK, OneOpen, stagingVars
<1>2. TransferHolds'
  BY DEF MigrationInv, TransferHolds, GateStep, stagingVars
<1>3. \A m \in Migrations : CaptureHolds(m)' /\ StagingHolds(m)'
  BY CaptureWaits, StagingWaits DEF MigrationInv, stagingVars
<1>. QED
  BY <1>1, <1>2, <1>3 DEF MigrationInv

\* A capture moves; the rest waits.
LEMMA CaptureMoves ==
  ASSUME IInv, MigrationInv, UNCHANGED <<writerVars, staging, handler, branch>>,
         NEW m \in Migrations, NEW c \in Captured, capture' = [capture EXCEPT ![m] = c],
         CaptureHolds(m)'
  PROVE  MigrationInv'
<1>0. TypeOK' /\ GateStep
  BY GateMoves, NextPreserves DEF IInv
<1>1. MigrationTypeOK' /\ OneOpen' /\ TransferHolds'
  BY DEF MigrationInv, MigrationTypeOK, OneOpen, TransferHolds, writerVars, Captured
<1>2. ASSUME NEW n \in Migrations PROVE CaptureHolds(n)'
  <2>1. n # m => capture'[n] = capture[n]
    BY DEF MigrationInv, MigrationTypeOK
  <2>. QED
    BY <1>0, <2>1, CaptureWaits DEF MigrationInv
<1>3. \A n \in Migrations : StagingHolds(n)'
  BY <1>0, StagingWaits DEF MigrationInv
<1>. QED
  BY <1>1, <1>2, <1>3 DEF MigrationInv

\* A staging row and its handler move; the ledger, the captures and the
\* destination wait.
LEMMA RowMoves ==
  ASSUME IInv, MigrationInv, UNCHANGED <<writerVars, capture, branch>>,
         NEW m \in Migrations, NEW s \in Rows, staging' = [staging EXCEPT ![m] = s],
         NEW h \in HandlerSteps, handler' = [handler EXCEPT ![m] = h],
         Len(s.chunks) <= Parts,
         StagingHolds(m)', OneOpen', TransferHolds'
  PROVE  MigrationInv'
<1>0. TypeOK' /\ GateStep
  BY GateMoves, NextPreserves DEF IInv
<1>1. MigrationTypeOK'
  BY DEF MigrationInv, MigrationTypeOK, Rows
<1>2. \A n \in Migrations : CaptureHolds(n)'
  BY <1>0, CaptureWaits DEF MigrationInv
<1>3. ASSUME NEW n \in Migrations PROVE StagingHolds(n)'
  <2>1. n # m => staging'[n] = staging[n] /\ handler'[n] = handler[n]
    BY DEF MigrationInv, MigrationTypeOK
  <2>. QED
    BY <1>0, <2>1, StagingWaits DEF MigrationInv
<1>. QED
  BY <1>1, <1>2, <1>3 DEF MigrationInv

\* captureLegacyMigrationSource: what is read between two assertions of the
\* same generation is the source of that generation.
LEMMA CapturePreserves ==
  ASSUME IInv, MigrationInv, NEW m \in Migrations, CaptureStep(m), UNCHANGED writerVars
  PROVE  MigrationInv'
<1> DEFINE c == capture[m]
<1>1. /\ c \in Captured /\ capture \in [Migrations -> Captured] /\ CaptureHolds(m)
      /\ gate.generation \in Generations /\ source \in Values
      /\ Parts \in Nat /\ \A g \in Generations : g \in Int
  BY FenceConstants, MigrationConstants
     DEF MigrationInv, MigrationTypeOK, Captured, IInv, TypeOK, GateRow, Generations, Values
<1>2. gate' = gate /\ source' = source
  BY DEF writerVars
<1>3. ASSUME NEW d \in Captured, capture' = [capture EXCEPT ![m] = d],
             UNCHANGED <<staging, handler, branch>>,
             d.step # "idle" => d.generation <= gate.generation,
             d.step # "idle" /\ d.generation = gate.generation =>
               /\ Closed /\ gate.migrationId = m
               /\ \A i \in 1..Len(d.parts) : d.parts[i] = source,
             d.step = "done" =>
               Len(d.parts) = Parts /\ \A i, j \in 1..Parts : d.parts[i] = d.parts[j]
      PROVE  MigrationInv'
  <2>1. capture'[m] = d
    BY <1>1, <1>3
  <2>2. CaptureHolds(m)'
    BY <1>2, <1>3, <2>1 DEF CaptureHolds, Closed
  <2>. QED
    BY Zenon, <1>3, <2>2, CaptureMoves
<1>4. CASE CaptureStart(m)
  <2>1. PICK d : d = [step |-> "asserted", generation |-> gate.generation, parts |-> <<>>]
    BY Zenon
  <2>2. d \in Captured /\ d.step = "asserted" /\ d.generation = gate.generation /\ Len(d.parts) = 0
    BY <1>1, <2>1 DEF Captured
  <2>3. capture' = [capture EXCEPT ![m] = d] /\ UNCHANGED <<staging, handler, branch>>
    BY <1>4, <2>1 DEF CaptureStart
  <2>4. Closed /\ gate.migrationId = m
    BY <1>4 DEF CaptureStart, AssertFrozen, Closed
  <2>5. /\ d.generation <= gate.generation /\ \A i \in 1..Len(d.parts) : d.parts[i] = source
        /\ d.step # "done"
    BY <1>1, <2>2
  <2>. QED
    BY Zenon, <1>3, <2>2, <2>3, <2>4, <2>5
<1>5. CASE CaptureRead(m)
  <2>0. PICK x : x = Append(c.parts, source)
    BY Zenon
  <2>1. PICK d : d = [c EXCEPT !.step = "reading", !.parts = x]
    OBVIOUS
  <2>a. x \in Seq(Values)
    BY <1>1, <2>0 DEF Captured
  <2>2. /\ d \in Captured /\ d.step = "reading" /\ d.generation = c.generation
        /\ d.parts = x
    BY Zenon, <1>1, <2>1, <2>a DEF Captured
  <2>3. capture' = [capture EXCEPT ![m] = d] /\ UNCHANGED <<staging, handler, branch>>
    BY Zenon, <1>1, <1>5, <2>0, <2>1 DEF CaptureRead
  <2>4. c.step = "asserted"
    BY <1>5 DEF CaptureRead
  <2>5. ASSUME d.generation = gate.generation
        PROVE  Closed /\ gate.migrationId = m /\ \A i \in 1..Len(d.parts) : d.parts[i] = source
    <3>1. Closed /\ gate.migrationId = m /\ \A i \in 1..Len(c.parts) : c.parts[i] = source
      BY <1>1, <2>2, <2>4, <2>5 DEF CaptureHolds
    <3>2. c.parts \in Seq(Values)
      BY <1>1 DEF Captured
    <3>. QED
      BY <1>1, <2>0, <2>2, <3>1, <3>2
  <2>6. d.generation <= gate.generation
    BY <1>1, <2>2, <2>4 DEF CaptureHolds
  <2>. QED
    BY Zenon, <1>3, <2>2, <2>3, <2>5, <2>6
<1>6. CASE CaptureAsserts(m) \/ CaptureEnds(m)
  <2>1. PICK d : d = [c EXCEPT !.step = IF CaptureEnds(m) THEN "done" ELSE "asserted"]
    BY Zenon
  <2>2. /\ d \in Captured /\ d.step \in {"asserted", "done"} /\ d.generation = c.generation
        /\ d.parts = c.parts
        /\ d.step = "done" => CaptureEnds(m)
    BY <1>1, <2>1 DEF Captured
  <2>3. /\ capture' = [capture EXCEPT ![m] = d] /\ UNCHANGED <<staging, handler, branch>>
        /\ c.step = "reading" /\ gate.generation = c.generation
        /\ d.step = "done" => Len(c.parts) = Parts
    BY <1>1, <1>6, <2>1, <2>2 DEF CaptureAsserts, CaptureEnds, AssertFrozen
  <2>4. Closed /\ gate.migrationId = m /\ \A i \in 1..Len(c.parts) : c.parts[i] = source
    BY <2>3, <1>1 DEF CaptureHolds
  <2>5. /\ d.generation <= gate.generation /\ \A i \in 1..Len(d.parts) : d.parts[i] = source
        /\ d.step = "done" =>
             Len(d.parts) = Parts /\ \A i, j \in 1..Parts : d.parts[i] = d.parts[j]
    <3>1. d.generation = gate.generation /\ d.parts = c.parts
      BY <2>2, <2>3
    <3>2. gate.generation <= gate.generation
      BY <1>1
    <3>. QED
      BY <2>3, <2>4, <3>1, <3>2
  <2>. QED
    BY Zenon, <1>3, <2>2, <2>3, <2>4, <2>5
<1>7. CASE CaptureFails(m)
  <2>1. PICK d : d = [c EXCEPT !.step = "idle", !.parts = <<>>]
    OBVIOUS
  <2>0. c.generation \in Generations /\ <<>> \in Seq(Values)
    BY <1>1 DEF Captured
  <2>2. d \in Captured /\ d.step = "idle"
    BY ZenonT(30), <1>1, <2>0, <2>1 DEF Captured
  <2>3. capture' = [capture EXCEPT ![m] = d] /\ UNCHANGED <<staging, handler, branch>>
    BY Zenon, <1>1, <1>7, <2>1 DEF CaptureFails
  <2>. QED
    BY Zenon, <1>3, <2>2, <2>3
<1>. QED
  BY <1>4, <1>5, <1>6, <1>7 DEF CaptureStep

\* A staging row takes a new phase and new chunks.
LEMMA RowStep ==
  ASSUME IInv, MigrationInv, UNCHANGED <<writerVars, capture, branch>>,
         NEW m \in Migrations, NEW p \in StagingPhases, NEW x \in Seq(Values \cup {Damaged}),
         NEW h \in HandlerSteps,
         staging' = [staging EXCEPT ![m].phase = p, ![m].chunks = x],
         handler' = [handler EXCEPT ![m] = h],
         staging[m].phase \in OpenPhases, staging[m].phase # "activated",
         Len(x) <= Parts, p \notin {"none", "activated"},
         p = "verified" => x = staging[m].manifest,
         p = "rolled-back" => staging[m].generation < gate.generation /\ x = <<>>,
         h \in {"activating", "checked", "transferring"} =>
           /\ p \in {"verified", "rollback-pending", "rolled-back"}
           /\ p = "rollback-pending" => x = staging[m].manifest,
         gate.phase = "transferred" => p \in {"verified", "rollback-pending"} /\ x = staging[m].chunks
  PROVE  MigrationInv'
<1>1. /\ staging \in [Migrations -> Rows] /\ staging[m] \in Rows /\ StagingHolds(m)
      /\ OneOpen /\ TransferHolds
  BY DEF MigrationInv, MigrationTypeOK, Rows
<1>2. PICK s : s = [staging[m] EXCEPT !.phase = p, !.chunks = x]
  OBVIOUS
<1>3. /\ s \in Rows /\ s.phase = p /\ s.chunks = x /\ s.manifest = staging[m].manifest
      /\ s.generation = staging[m].generation
  BY Zenon, <1>1, <1>2 DEF Rows
<1>4. staging' = [staging EXCEPT ![m] = s] /\ staging'[m] = s
  BY Zenon, <1>1, <1>2
<1>5. handler'[m] = h /\ gate' = gate /\ source' = source
  BY DEF writerVars, MigrationInv, MigrationTypeOK
<1>6. staging[m].phase # "none"
  BY DEF OpenPhases
<1>7. StagingHolds(m)'
  BY <1>1, <1>3, <1>4, <1>5, <1>6 DEF StagingHolds, Closed
<1>8. OneOpen'
  <2>1. \A n \in Migrations : n # m => staging'[n] = staging[n]
    BY <1>1, <1>4
  <2>. QED
    BY <1>1, <2>1 DEF OneOpen
<1>9. TransferHolds'
  <2>1. CASE gate.phase = "transferred"
    <3>1. gate.migrationId \in Migrations /\ staging[gate.migrationId].phase \in OpenPhases
      BY <1>1, <2>1 DEF TransferHolds, OpenPhases, StagingPhases
    <3>2. gate.migrationId = m
      BY <1>1, <3>1 DEF OneOpen
    <3>. QED
      BY <1>1, <1>3, <1>4, <1>5, <2>1, <3>2 DEF TransferHolds
  <2>2. CASE gate.phase # "transferred"
    BY <1>1, <1>5, <2>2 DEF TransferHolds
  <2>. QED
    BY <2>1, <2>2
<1>. QED
  BY Zenon, <1>3, <1>4, <1>7, <1>8, <1>9, RowMoves

\* An open row of a transferred source is the row it was transferred to.
LEMMA TransferredRow ==
  ASSUME MigrationInv, gate.phase = "transferred", NEW m \in Migrations,
         staging[m].phase \in OpenPhases
  PROVE  /\ gate.migrationId = m /\ staging[m].phase \in {"verified", "activated", "rollback-pending"}
         /\ staging[m].generation = gate.generation /\ staging[m].chunks = staging[m].manifest
<1>1. gate.migrationId \in Migrations /\ staging[gate.migrationId].phase \in OpenPhases
  BY DEF MigrationInv, TransferHolds, OpenPhases, StagingPhases
<1>2. gate.migrationId = m
  BY <1>1 DEF MigrationInv, OneOpen
<1>. QED
  BY <1>2 DEF MigrationInv, TransferHolds

\* Only the call of a migration moves.
LEMMA HandlerMoves ==
  ASSUME IInv, MigrationInv, UNCHANGED <<writerVars, capture, staging, branch>>,
         NEW m \in Migrations, NEW h \in HandlerSteps, handler' = [handler EXCEPT ![m] = h],
         h \in {"activating", "checked", "transferring"} =>
           /\ staging[m].phase \in {"verified", "rollback-pending", "rolled-back"}
           /\ staging[m].phase = "rollback-pending" => staging[m].chunks = staging[m].manifest
  PROVE  MigrationInv'
<1>1. staging[m] \in Rows /\ staging' = [staging EXCEPT ![m] = staging[m]]
  BY DEF MigrationInv, MigrationTypeOK, Rows
<1>2. handler'[m] = h /\ StagingHolds(m) /\ Len(staging[m].chunks) <= Parts
  BY DEF MigrationInv, MigrationTypeOK
<1>3. StagingHolds(m)'
  BY <1>2 DEF StagingHolds, Closed, writerVars
<1>4. OneOpen' /\ TransferHolds'
  BY DEF MigrationInv, OneOpen, TransferHolds, writerVars
<1>. QED
  BY Zenon, <1>1, <1>2, <1>3, <1>4, RowMoves

\* admit of the staging tables: the manifest is the source of the generation.
LEMMA AdmitPreserves ==
  ASSUME IInv, MigrationInv, NEW m \in Migrations, StagingAdmits(m), UNCHANGED writerVars
  PROVE  MigrationInv'
<1> DEFINE c == capture[m]
<1>1. /\ capture[m] \in Captured /\ CaptureHolds(m) /\ StagingHolds(m) /\ OneOpen
      /\ handler[m] \in HandlerSteps /\ handler' = [handler EXCEPT ![m] = handler[m]]
      /\ staging \in [Migrations -> Rows] /\ TransferHolds
      /\ handler'[m] = handler[m]
  BY DEF MigrationInv, MigrationTypeOK, Captured, Rows, StagingAdmits
<1>2. PICK s : s = [phase |-> "importing", generation |-> c.generation,
                    manifest |-> c.parts, chunks |-> <<>>]
  BY Zenon
<1>3. /\ s \in Rows /\ s.phase = "importing" /\ s.generation = c.generation
      /\ s.manifest = c.parts /\ s.chunks = <<>>
  BY <1>1, <1>2 DEF Rows, Captured, StagingPhases
<1>4. /\ staging' = [staging EXCEPT ![m] = s] /\ UNCHANGED <<writerVars, capture, branch>>
      /\ c.step = "done" /\ gate.generation = c.generation /\ gate.phase = "frozen"
      /\ staging[m].phase = "none" /\ \A n \in Migrations : staging[n].phase \notin OpenPhases
      /\ branch.state = "absent"
  BY <1>2 DEF StagingAdmits, AssertFrozen
<1>5. staging'[m] = s /\ \A n \in Migrations : n # m => staging'[n] = staging[n]
  BY <1>1, <1>4
<1>6. gate' = gate /\ source' = source /\ branch' = branch
  BY <1>4 DEF writerVars
<1>7. /\ Len(c.parts) = Parts /\ Closed /\ gate.migrationId = m
      /\ \A i \in 1..Parts : c.parts[i] = source
  BY <1>1, <1>4 DEF CaptureHolds
<1>8. gate.generation <= gate.generation /\ Len(s.chunks) <= Parts
  BY <1>3, FenceConstants, MigrationConstants DEF IInv, TypeOK, GateRow, Generations
<1>9. StagingHolds(m)'
  BY <1>1, <1>3, <1>4, <1>5, <1>6, <1>7, <1>8 DEF StagingHolds, Closed
<1>10. OneOpen'
  BY <1>4, <1>5 DEF OneOpen
<1>11. TransferHolds'
  BY <1>4, <1>6 DEF TransferHolds
<1>. QED
  BY Zenon, <1>1, <1>3, <1>4, <1>8, <1>9, <1>10, <1>11, RowMoves

\* activate publishes: the chunks are what the retired source holds.
LEMMA PublishPreserves ==
  ASSUME IInv, MigrationInv, NEW m \in Migrations, ActivatePublishes(m), UNCHANGED writerVars
  PROVE  MigrationInv'
<1>0. TypeOK' /\ GateStep
  BY GateMoves, NextPreserves DEF IInv
<1>1. /\ staging \in [Migrations -> Rows] /\ staging[m] \in Rows /\ StagingHolds(m)
      /\ OneOpen /\ TransferHolds /\ handler \in [Migrations -> HandlerSteps]
      /\ gate' = gate /\ source' = source
  BY DEF MigrationInv, MigrationTypeOK, Rows, writerVars
<1>2. PICK s : s = [staging[m] EXCEPT !.phase = "activated"]
  BY ZenonT(60)
<1>3. /\ s \in Rows /\ s.phase = "activated" /\ s.chunks = staging[m].chunks
      /\ s.manifest = staging[m].manifest /\ s.generation = staging[m].generation
  BY <1>1, <1>2 DEF Rows, StagingPhases
<1>4. /\ staging' = [staging EXCEPT ![m] = s] /\ staging'[m] = s
      /\ \A n \in Migrations : n # m => staging'[n] = staging[n]
      /\ staging[m].phase = "verified" /\ capture' = capture
      /\ gate.phase = "transferred" /\ gate.migrationId = m /\ gate.generation = s.generation
      /\ handler' = [handler EXCEPT ![m] = "idle"]
  BY <1>1, <1>2, <1>3 DEF ActivatePublishes, TransferredTo
<1>5. /\ branch'.state = "active" /\ branch'.content = s.chunks /\ branch'.accepted = 0
      /\ branch' = [state |-> "active", content |-> s.chunks, accepted |-> 0]
  BY <1>3 DEF ActivatePublishes
<1>6. /\ handler'[m] = "idle"
      /\ \A n \in Migrations : handler'[n] \in {handler[n], "idle"}
  BY <1>1, <1>4
<1>7. MigrationTypeOK'
  <2>1. s.chunks \in Seq(Values \cup {Damaged}) /\ Len(s.chunks) <= Parts
    BY <1>3 DEF Rows, MigrationInv, MigrationTypeOK
  <2>2. branch' \in [state : {"absent", "active"}, content : Seq(Values \cup {Damaged}),
                     accepted : 0..MaxAccepted]
    BY <1>5, <2>1, MigrationConstants
  <2>3. staging' \in [Migrations -> Rows] /\ handler' \in [Migrations -> HandlerSteps]
    BY <1>1, <1>3, <1>4 DEF HandlerSteps
  <2>4. \A n \in Migrations : Len(staging'[n].chunks) <= Parts
    BY <1>4, <2>1 DEF MigrationInv, MigrationTypeOK
  <2>. QED
    BY <1>4, <2>2, <2>3, <2>4 DEF MigrationInv, MigrationTypeOK, Rows
<1>8. StagingHolds(m)'
  BY <1>1, <1>3, <1>4, <1>5, <1>6 DEF StagingHolds, Closed
<1>9. OneOpen'
  BY <1>1, <1>4 DEF OneOpen, OpenPhases, StagingPhases
<1>10. TransferHolds'
  <2>1. s.chunks = s.manifest
    BY <1>1, <1>3, <1>4 DEF StagingHolds
  <2>. QED
    BY <1>1, <1>3, <1>4, <1>5, <2>1 DEF TransferHolds
<1>11. ASSUME NEW n \in Migrations PROVE CaptureHolds(n)' /\ StagingHolds(n)'
  <2>1. CaptureHolds(n)'
    BY <1>0, <1>4, CaptureWaits DEF MigrationInv
  <2>2. n # m => StagingHolds(n)'
    BY <1>0, <1>4, <1>5, <1>6, StagingWaits DEF MigrationInv
  <2>. QED
    BY <1>8, <2>1, <2>2
<1>. QED
  BY <1>7, <1>9, <1>10, <1>11 DEF MigrationInv

\* putChunk, verify, activate up to the transfer, and rollback.
LEMMA StagingPreserves ==
  ASSUME IInv, MigrationInv, NEW m \in Migrations, StagingStep(m), UNCHANGED writerVars
  PROVE  MigrationInv'
<1> DEFINE s == staging[m]
<1>1. /\ staging \in [Migrations -> Rows] /\ staging[m] \in Rows /\ StagingHolds(m)
      /\ Len(staging[m].chunks) <= Parts
      /\ handler[m] \in HandlerSteps /\ handler = [handler EXCEPT ![m] = handler[m]]
      /\ Parts \in Nat
  BY MigrationConstants DEF MigrationInv, MigrationTypeOK, Rows
<1>2. CASE StagingAdmits(m)
  BY <1>2, AdmitPreserves
<1>3. CASE ActivatePublishes(m)
  BY <1>3, PublishPreserves
<1>4. CASE VerifyStarts(m) \/ ActivateStarts(m) \/ ActivateChecks(m) \/ HandlerEnds(m)
  <2>1. PICK h \in {"verifying", "activating", "checked", "idle"} :
          /\ handler' = [handler EXCEPT ![m] = h] /\ UNCHANGED <<capture, staging, branch>>
          /\ h \in {"activating", "checked"} => staging[m].phase = "verified"
    BY <1>4 DEF VerifyStarts, ActivateStarts, ActivateChecks, HandlerEnds
  <2>2. h \in HandlerSteps
    BY DEF HandlerSteps
  <2>. QED
    BY Zenon, <2>1, <2>2, HandlerMoves
<1>5. ASSUME NEW v \in Values \cup {Damaged}, PutChunk(m, v) PROVE MigrationInv'
  <2>1. PICK x : x = Append(s.chunks, v)
    BY Zenon
  <2>2. x \in Seq(Values \cup {Damaged}) /\ Len(x) <= Parts
    BY <1>1, <1>5, <2>1 DEF PutChunk, Rows
  <2>3. /\ s.phase = "importing" /\ UNCHANGED <<capture, handler, branch>>
        /\ staging' = [staging EXCEPT ![m].chunks = x]
    BY <1>5, <2>1 DEF PutChunk
  <2>4. staging' = [staging EXCEPT ![m].phase = "importing", ![m].chunks = x]
    BY Zenon, <1>1, <2>3 DEF Rows
  <2>5. s.phase \in OpenPhases /\ "importing" \in StagingPhases
    BY <2>3 DEF OpenPhases, StagingPhases
  <2>6. gate.phase # "transferred"
    BY <2>3, <2>5, TransferredRow
  <2>7. handler[m] \notin {"activating", "checked", "transferring"}
    BY <1>1, <2>3 DEF StagingHolds
  <2>. QED
    BY ZenonT(60), <1>1, <2>2, <2>3, <2>4, <2>5, <2>6, <2>7, RowStep
<1>6. CASE VerifyCommits(m) \/ RollbackMarks(m) \/ RollbackYields(m)
  <2>1. PICK p \in {"verified", "rollback-pending"}, h \in {"idle", handler[m]} :
          /\ staging' = [staging EXCEPT ![m].phase = p] /\ handler' = [handler EXCEPT ![m] = h]
          /\ UNCHANGED <<capture, branch>>
          /\ s.phase \in {"importing", "verified", "rollback-pending"}
          /\ p = "verified" => s.chunks = s.manifest
          /\ p = "rollback-pending" => s.phase # "rollback-pending"
    <3>1. CASE VerifyCommits(m)
      BY <3>1 DEF VerifyCommits, StagedPayloadVerified
    <3>2. CASE RollbackMarks(m)
      BY <1>1, <3>2 DEF RollbackMarks
    <3>3. CASE RollbackYields(m)
      <4>1. s.phase \in OpenPhases /\ gate.phase = "transferred"
        BY <3>3 DEF RollbackYields, OpenPhases, StagingPhases
      <4>2. s.chunks = s.manifest
        BY <4>1, TransferredRow
      <4>. QED
        BY <1>1, <3>3, <4>2 DEF RollbackYields
    <3>. QED
      BY <1>6, <3>1, <3>2, <3>3
  <2>2. PICK x : x = s.chunks
    OBVIOUS
  <2>3. staging' = [staging EXCEPT ![m].phase = p, ![m].chunks = x]
    BY Zenon, <1>1, <2>1, <2>2 DEF Rows
  <2>4. /\ p \in StagingPhases /\ h \in HandlerSteps /\ s.phase \in OpenPhases
        /\ x \in Seq(Values \cup {Damaged}) /\ Len(x) <= Parts
    BY <1>1, <2>1, <2>2 DEF StagingPhases, HandlerSteps, OpenPhases, Rows
  <2>5. h \in {"activating", "checked", "transferring"} => x = s.manifest
    BY <1>1, <2>1, <2>2 DEF StagingHolds
  <2>. QED
    BY Zenon, <2>1, <2>2, <2>3, <2>4, <2>5, RowStep
<1>7. CASE RollbackDeletes(m)
  <2>1. PICK x : x = <<>>
    OBVIOUS
  <2>2. /\ s.phase = "rollback-pending" /\ gate.phase = "legacy"
        /\ gate.generation = s.generation + 1 /\ UNCHANGED <<capture, handler, branch>>
        /\ staging' = [staging EXCEPT ![m].phase = "rolled-back", ![m].chunks = x]
    BY <1>7, <2>1 DEF RollbackDeletes
  <2>3. s.generation \in Int
    BY <1>1, FenceConstants DEF Rows, Generations
  <2>4. /\ s.generation < gate.generation /\ Len(x) <= Parts /\ x \in Seq(Values \cup {Damaged})
    BY <1>1, <2>1, <2>2, <2>3
  <2>5. s.phase \in OpenPhases /\ "rolled-back" \in StagingPhases
    BY <2>2 DEF OpenPhases, StagingPhases
  <2>. QED
    BY ZenonT(60), <1>1, <2>1, <2>2, <2>4, <2>5, RowStep
<1>. QED
  BY <1>2, <1>3, <1>4, <1>5, <1>6, <1>7 DEF StagingStep

\* activate retires the source: the gate is frozen in the generation of the
\* row, so the row was not rolled back and its chunks were verified.
LEMMA TransferPreserves ==
  ASSUME IInv, MigrationInv, NEW m \in Migrations, ActivateTransfers(m)
  PROVE  MigrationInv'
<1>1. StagingHolds(m) /\ staging[m].phase \in {"verified", "rollback-pending", "rolled-back"}
  BY DEF ActivateTransfers, MigrationInv, StagingHolds
<1>2. /\ handler' = [handler EXCEPT ![m] = "transferring"] /\ "transferring" \in HandlerSteps
      /\ UNCHANGED <<writer, source, capture, staging, branch>>
  BY DEF ActivateTransfers, HandlerSteps
<1>3. CASE UNCHANGED fenceVars
  BY Zenon, <1>1, <1>2, <1>3, HandlerMoves DEF fenceVars, writerVars, StagingHolds, ActivateTransfers
<1>4. CASE Transfer(staging[m].generation, m)
  <2>1. /\ gate.generation = staging[m].generation /\ gate.migrationId = m /\ gate.phase = "frozen"
        /\ gate'.phase = "transferred" /\ gate'.generation = gate.generation
        /\ gate'.migrationId = m /\ gate'.active = gate.active
    BY <1>4 DEF Transfer, AssertFrozen, IInv, TypeOK, GateRow
  <2>2. staging[m].phase \in {"verified", "rollback-pending"} /\ staging[m].chunks = staging[m].manifest
    <3>1. staging[m].generation \in Int
      BY FenceConstants DEF MigrationInv, MigrationTypeOK, Generations
    <3>. QED
      BY <1>1, <2>1, <3>1 DEF StagingHolds, ActivateTransfers
  <2>3. FenceStep
    <3>1. gate.generation \in Generations
      BY DEF IInv, TypeOK, GateRow
    <3>. QED
      BY <1>2, <1>4, <2>1, <3>1 DEF FenceStep
  <2>4. TypeOK' /\ GateStep
    BY <2>3, GateMoves, NextPreserves DEF IInv, Next
  <2>5. \A n \in Migrations : CaptureHolds(n)'
    BY <1>2, <2>4, CaptureWaits DEF MigrationInv
  <2>6. StagingHolds(m)'
    <3>1. handler'[m] = "transferring"
      BY <1>2 DEF MigrationInv, MigrationTypeOK
    <3>. QED
      BY <1>1, <1>2, <2>1, <2>2, <3>1 DEF StagingHolds, Closed
  <2>7. ASSUME NEW n \in Migrations, n # m PROVE StagingHolds(n)'
    <3>1. handler'[n] = handler[n]
      BY <1>2, <2>7 DEF MigrationInv, MigrationTypeOK
    <3>. QED
      BY <1>2, <2>4, <3>1, StagingWaits DEF MigrationInv
  <2>8. MigrationTypeOK' /\ OneOpen'
    BY <1>2 DEF MigrationInv, MigrationTypeOK, OneOpen
  <2>9. TransferHolds'
    BY <1>2, <2>1, <2>2 DEF MigrationInv, TransferHolds
  <2>. QED
    BY <2>5, <2>6, <2>7, <2>8, <2>9 DEF MigrationInv
<1>. QED
  BY <1>3, <1>4 DEF ActivateTransfers

\* Every step preserves the invariant.
LEMMA MigrationPreserves ==
  ASSUME IInv, MigrationInv, [MigrationNext]_migrationVars
  PROVE  MigrationInv'
<1>1. [Next]_writerVars
  BY UsesLedger
<1>2. TypeOK' /\ GateStep
  BY <1>1, GateMoves, NextPreserves DEF IInv
<1>3. ASSUME NEW r \in RequestIds, WriterStep(r), UNCHANGED stagingVars PROVE MigrationInv'
  <2>1. gate'.phase = gate.phase
    BY <1>3 DEF WriterStep, Compose, RunAdmitted, RunAdmissionLost, RunRejected, Write,
                WaitUntil, TaskSettles, WorkSettles, Close, RunCompletes, CompletionAnswerLost,
                CompletionLost, Stop, LateWrite, Admit, Complete, IInv, TypeOK, GateRow
  <2>. QED
    BY <1>2, <1>3, <2>1, LedgerStep
<1>4. CASE ControllerStep
  <2>1. gate'.phase # "transferred" /\ UNCHANGED stagingVars
    BY Zenon, <1>4 DEF ControllerStep, Register, Fence, Abort, IInv, TypeOK, GateRow
  <2>. QED
    BY <1>2, <2>1, LedgerStep
<1>5. ASSUME NEW m \in Migrations, RollbackReopens(m) PROVE MigrationInv'
  <2>1. gate'.phase # "transferred" /\ UNCHANGED stagingVars
    BY <1>5 DEF RollbackReopens, Abort, IInv, TypeOK, GateRow, stagingVars
  <2>. QED
    BY <1>2, <2>1, LedgerStep
<1>6. CASE DestinationAccepts /\ UNCHANGED writerVars
  <2>1. /\ branch'.state = branch.state /\ branch'.content = branch.content
        /\ branch' \in [state : {"absent", "active"}, content : Seq(Values \cup {Damaged}),
                        accepted : 0..MaxAccepted]
    <3>1. PICK a : a = branch.accepted + 1
      OBVIOUS
    <3>2. a \in 0..MaxAccepted
      BY <1>6, <3>1, MigrationConstants DEF DestinationAccepts, MigrationInv, MigrationTypeOK
    <3>3. branch' = [branch EXCEPT !.accepted = a]
      BY <1>6, <3>1 DEF DestinationAccepts
    <3>4. branch \in [state : {"absent", "active"}, content : Seq(Values \cup {Damaged}),
                      accepted : 0..MaxAccepted]
      BY DEF MigrationInv, MigrationTypeOK
    <3>. QED
      BY ZenonT(30), <3>2, <3>3, <3>4
  <2>2. MigrationTypeOK' /\ OneOpen' /\ TransferHolds'
    BY <1>6, <2>1 DEF DestinationAccepts, MigrationInv, MigrationTypeOK, OneOpen, TransferHolds,
                      writerVars
  <2>3. \A m \in Migrations : CaptureHolds(m)' /\ StagingHolds(m)'
    BY <1>2, <1>6, <2>1, CaptureWaits, StagingWaits DEF MigrationInv, DestinationAccepts
  <2>. QED
    BY <2>2, <2>3 DEF MigrationInv
<1>7. CASE UNCHANGED migrationVars
  BY <1>2, <1>7, LedgerStep DEF migrationVars, stagingVars
<1>. QED
  BY <1>3, <1>4, <1>5, <1>6, <1>7, CapturePreserves, StagingPreserves, TransferPreserves
     DEF MigrationNext

\* A branch starts with a source that is not fenced and no rows.
LEMMA MigrationStarts == MigrationInit => IInv /\ MigrationInv
<1>. SUFFICES ASSUME MigrationInit PROVE IInv /\ MigrationInv
  OBVIOUS
<1>1. IInv
  BY InitEstablishes DEF MigrationInit, Init
<1>2. MigrationTypeOK
  <2>1. 0 \in Generations /\ 0 \in 0..MaxAccepted /\ 0 <= Parts
    BY FenceConstants, MigrationConstants DEF Generations
  <2>2. \A m \in Migrations : staging[m].chunks = <<>> /\ Len(<<>>) <= Parts
    BY <2>1 DEF MigrationInit
  <2>. QED
    BY <2>1, <2>2 DEF MigrationInit, MigrationTypeOK, StagingPhases, HandlerSteps
<1>3. OneOpen /\ TransferHolds
  BY DEF MigrationInit, FenceInit, OneOpen, TransferHolds, OpenPhases
<1>4. \A m \in Migrations : CaptureHolds(m) /\ StagingHolds(m)
  BY DEF MigrationInit, CaptureHolds, StagingHolds
<1>. QED
  BY <1>1, <1>2, <1>3, <1>4 DEF MigrationInv

-----------------------------------------------------------------------------
(***************************************************************************)
(* What the invariant gives.                                               *)
(***************************************************************************)
\* Whatever requests, captures, imports, activations and rollbacks interleave
\* and wherever a call stops.
THEOREM MigrationInvariance == MigrationSpec => [](IInv /\ MigrationInv)
<1>1. IInv /\ MigrationInv /\ [MigrationNext]_migrationVars => (IInv /\ MigrationInv)'
  <2>1. IInv /\ [MigrationNext]_migrationVars => IInv'
    BY UsesLedger, NextPreserves
  <2>. QED
    BY <2>1, MigrationPreserves
<1>. QED
  BY <1>1, MigrationStarts, PTL DEF MigrationSpec

\* A sequence that holds the source in each of its parts.
LEMMA WholeParts ==
  ASSUME NEW S, NEW s \in Seq(S), Len(s) = Parts, \A i \in 1..Parts : s[i] = source
  PROVE  s = Whole
BY DEF Whole

\* The row that a closed gate belongs to holds the source.
LEMMA RowIsWhole ==
  ASSUME MigrationInv, NEW m \in Migrations, staging[m].phase # "none",
         staging[m].generation = gate.generation
  PROVE  staging[m].manifest = Whole
<1>1. staging[m].manifest \in Seq(Values)
  BY DEF MigrationInv, MigrationTypeOK
<1>2. Len(staging[m].manifest) = Parts /\ \A i \in 1..Parts : staging[m].manifest[i] = source
  BY DEF MigrationInv, StagingHolds
<1>. QED
  BY <1>1, <1>2, WholeParts

\* An active destination holds the chunks of the row it was transferred to.
LEMMA ActiveIsWhole == MigrationInv => ActivatedHoldsTheSource
<1>. SUFFICES ASSUME MigrationInv, branch.state = "active" PROVE branch.content = Whole
  BY DEF ActivatedHoldsTheSource
<1>1. /\ gate.migrationId \in Migrations /\ gate.phase = "transferred"
      /\ branch.content = staging[gate.migrationId].manifest
      /\ staging[gate.migrationId].phase = "activated"
      /\ staging[gate.migrationId].generation = gate.generation
  BY DEF MigrationInv, TransferHolds
<1>. QED
  BY <1>1, RowIsWhole

\* No accepted mutation is left behind: what a destination was activated with
\* is what the legacy source holds, then and ever after, whatever writers,
\* captures and other migrations were under way (sqlite-migration.ts:activate).
THEOREM NothingLeftBehind == MigrationSpec => []ActivatedHoldsTheSource
<1>. QED
  BY MigrationInvariance, ActiveIsWhole, PTL

\* No interleaving of capture, import, activation and rollback leads to a
\* state that cannot be completed or undone: captures are one moment of the
\* source, a retired source keeps a destination that can be completed, one
\* migration is open, and a rolled-back one is behind the generation.
THEOREM AlwaysRecoverable == MigrationSpec => []MigrationIsRecoverable
<1>1. ASSUME IInv, MigrationInv PROVE MigrationIsRecoverable
  <2>1. CaptureIsConsistent
    BY <1>1 DEF MigrationInv, CaptureHolds, CaptureIsConsistent
  <2>2. TransferCanRecover
    <3>. SUFFICES ASSUME gate.phase = "transferred" PROVE TransferCanRecover
      BY DEF TransferCanRecover
    <3>1. /\ gate.migrationId \in Migrations
          /\ staging[gate.migrationId].phase \in {"verified", "activated", "rollback-pending"}
          /\ staging[gate.migrationId].chunks = staging[gate.migrationId].manifest
          /\ staging[gate.migrationId].generation = gate.generation
      BY <1>1 DEF MigrationInv, TransferHolds
    <3>2. staging[gate.migrationId].chunks = Whole
      BY <1>1, <3>1, RowIsWhole
    <3>. QED
      BY <3>1, <3>2 DEF TransferCanRecover
  <2>3. OneOpenMigration
    <3>1. branch.state = "active" => \E m \in Migrations : staging[m].phase = "activated"
      BY <1>1 DEF MigrationInv, TransferHolds
    <3>2. \A m \in Migrations : staging[m].phase = "activated" => branch.state = "active"
      BY <1>1 DEF MigrationInv, StagingHolds
    <3>. QED
      BY <1>1, <3>1, <3>2 DEF OneOpenMigration, OneOpen, MigrationInv
  <2>4. RolledBackIsFenced
    <3>. SUFFICES ASSUME NEW m \in Migrations, staging[m].phase = "rolled-back"
                  PROVE  gate.generation > staging[m].generation /\ staging[m].chunks = <<>>
      BY DEF RolledBackIsFenced
    <3>1. gate.generation \in Int /\ staging[m].generation \in Int
      BY <1>1, FenceConstants DEF IInv, TypeOK, GateRow, MigrationInv, MigrationTypeOK, Generations
    <3>. QED
      BY <1>1, <3>1 DEF MigrationInv, StagingHolds
  <2>. QED
    BY <2>1, <2>2, <2>3, <2>4 DEF MigrationIsRecoverable
<1>. QED
  BY MigrationInvariance, <1>1, PTL

\* The fence holds while branches are migrated, too: no run of a writer can
\* change a source that was frozen or transferred.
THEOREM WritersAreFencedOut == MigrationSpec => []NoWriterBehindTheFence
<1>. QED
  BY MigrationInvariance, FencedOut, PTL

-----------------------------------------------------------------------------
(***************************************************************************)
(* The migration is a handover.                                            *)
(***************************************************************************)
\* The source changes by writes before the fence, one at a time.
LEMMA SourceMoves ==
  ASSUME IInv, [Next]_writerVars, source' # source
  PROVE  source' = source + 1 /\ gate' = gate /\ ~Closed
<1>1. ~Closed
  BY FencedOut, ClosedIsStable
<1>2. ~FenceStep
  BY DEF FenceStep
<1>3. PICK r \in RequestIds : WriterStep(r)
  BY <1>2 DEF Next, writerVars
<1>4. Write(r) \/ LateWrite(r)
  BY <1>3 DEF WriterStep, Compose, RunAdmitted, RunAdmissionLost, RunRejected,
              WaitUntil, TaskSettles, WorkSettles, Close, RunCompletes,
              CompletionAnswerLost, CompletionLost, Stop
<1>. QED
  BY <1>1, <1>4 DEF Write, LateWrite

\* The destination changes by its activation and by what it accepts.
LEMMA BranchMoves ==
  ASSUME [MigrationNext]_migrationVars, branch' # branch
  PROVE  \/ branch.state = "active" /\ DestinationAccepts /\ UNCHANGED writerVars
         \/ \E m \in Migrations : ActivatePublishes(m) /\ UNCHANGED writerVars
<1>1. CASE \E r \in RequestIds : WriterStep(r) /\ UNCHANGED stagingVars
  BY <1>1 DEF stagingVars
<1>2. CASE ControllerStep \/ UNCHANGED migrationVars
  BY <1>2 DEF ControllerStep, stagingVars, migrationVars
<1>3. CASE \E m \in Migrations : CaptureStep(m) /\ UNCHANGED writerVars
  BY <1>3 DEF CaptureStep, CaptureStart, CaptureRead, CaptureAsserts, CaptureEnds, CaptureFails
<1>4. CASE \E m \in Migrations : StagingStep(m) /\ UNCHANGED writerVars
  BY <1>4 DEF StagingStep, StagingAdmits, PutChunk, VerifyStarts, VerifyCommits, ActivateStarts,
              ActivateChecks, HandlerEnds, RollbackMarks, RollbackYields, RollbackDeletes
<1>5. CASE \E m \in Migrations : ActivateTransfers(m) \/ RollbackReopens(m)
  BY <1>5 DEF ActivateTransfers, RollbackReopens
<1>6. CASE DestinationAccepts /\ UNCHANGED writerVars
  BY <1>6 DEF DestinationAccepts
<1>. QED
  BY <1>1, <1>2, <1>3, <1>4, <1>5, <1>6 DEF MigrationNext

\* Every step of a migration is a step of the handover or none.
LEMMA HandoverStep ==
  ASSUME IInv, MigrationInv, MigrationInv', [MigrationNext]_migrationVars
  PROVE  [Moves!Next]_(Moves!handoverVars)
<1>1. [Next]_writerVars /\ GateStep /\ source \in Nat
  <2>1. source \in Nat
    BY WriterConstants DEF IInv, TypeOK
  <2>. QED
    BY <2>1, UsesLedger, GateMoves
<1>2. /\ branch.state = "active" => gate.phase = "transferred" /\ Closed
      /\ branch'.state = "active" => gate'.phase = "transferred" /\ Closed'
  BY DEF MigrationInv, TransferHolds, Closed
<1>3. branch.state = "active" => branch.content[1] = source
  BY ActiveIsWhole, MigrationConstants DEF ActivatedHoldsTheSource, Whole
<1>4. branch'.state = "active" => branch'.content[1] = source'
  <2>1. (MigrationInv => ActivatedHoldsTheSource)'
    BY ActiveIsWhole, PTL
  <2>. QED
    BY <2>1, MigrationConstants DEF ActivatedHoldsTheSource, Whole
<1>5. branch.state \in {"absent", "active"} /\ branch'.state \in {"absent", "active"}
      /\ branch.accepted \in Nat
  BY MigrationConstants DEF MigrationInv, MigrationTypeOK
<1>6. CASE branch' # branch /\ branch.state = "active"
  <2>1. gate' = gate /\ source' = source /\ Closed'
    BY <1>1, <1>2, <1>6 DEF GateStep, Closed
  <2>2. DestinationAccepts
    <3>1. ASSUME NEW m \in Migrations, ActivatePublishes(m) PROVE FALSE
      <4>1. staging[m].phase \in OpenPhases /\ staging[m].phase # "activated"
        BY <3>1 DEF ActivatePublishes, OpenPhases, StagingPhases
      <4>2. gate.migrationId = m
        BY <1>2, <1>6, <4>1, TransferredRow
      <4>. QED
        BY <1>6, <4>1, <4>2 DEF MigrationInv, TransferHolds
    <3>. QED
      BY <1>6, <3>1, BranchMoves
  <2>3. /\ branch'.state = "active" /\ branch'.content = branch.content
        /\ branch'.accepted = branch.accepted + 1
    BY <1>6, <2>2 DEF DestinationAccepts, MigrationInv, MigrationTypeOK
  <2>4. BranchValue' = BranchValue + 1 /\ Ownership = "plane" /\ Ownership' = "plane"
    BY <1>1, <1>2, <1>3, <1>5, <1>6, <2>1, <2>3 DEF BranchValue, Ownership
  <2>. QED
    BY <2>4 DEF Moves!Next, Moves!PlaneMutates
<1>7. CASE branch' # branch /\ branch.state = "absent"
  <2>1. PICK m \in Migrations : ActivatePublishes(m) /\ UNCHANGED writerVars
    BY <1>7, BranchMoves
  <2>2. branch'.state = "active" /\ branch'.accepted = 0 /\ source' = source /\ Closed /\ Closed'
    BY <1>2, <2>1 DEF ActivatePublishes, TransferredTo, writerVars, Closed
  <2>3. BranchValue' = BranchValue /\ Ownership = "nobody" /\ Ownership' = "plane"
    BY <1>1, <1>4, <1>7, <2>2 DEF BranchValue, Ownership
  <2>. QED
    BY <2>3 DEF Moves!Next, Moves!TakeOver
<1>8. CASE branch' = branch /\ branch.state = "active"
  <2>1. gate' = gate /\ source' = source
    BY <1>1, <1>2, <1>8 DEF GateStep
  <2>2. BranchValue' = BranchValue /\ Ownership' = Ownership
    BY <1>8, <2>1 DEF BranchValue, Ownership, Closed
  <2>. QED
    BY <2>2 DEF Moves!handoverVars
<1>9. CASE branch' = branch /\ branch.state = "absent" /\ source' # source
  <2>1. source' = source + 1 /\ gate' = gate /\ ~Closed
    BY <1>1, <1>9, SourceMoves
  <2>2. BranchValue' = BranchValue + 1 /\ Ownership = "legacy" /\ Ownership' = "legacy"
    BY <1>9, <2>1 DEF BranchValue, Ownership, Closed
  <2>. QED
    BY <2>2 DEF Moves!Next, Moves!LegacyMutates
<1>10. CASE branch' = branch /\ branch.state = "absent" /\ source' = source
  <2>1. /\ BranchValue' = BranchValue
        /\ Ownership \in {"legacy", "nobody"} /\ Ownership' \in {"legacy", "nobody"}
    BY <1>10 DEF BranchValue, Ownership
  <2>. QED
    BY <2>1 DEF Moves!Next, Moves!Freeze, Moves!Reopen, Moves!handoverVars
<1>. QED
  BY <1>5, <1>6, <1>7, <1>8, <1>9, <1>10

\* The migration is a handover of the branch: one owner at a time, only the
\* owner changes its value, and the value survives the change of owner.
THEOREM HandoverImplemented == MigrationSpec => ImplementsHandover
<1>1. MigrationInit => Moves!Init
  BY DEF MigrationInit, FenceInit, WriterInit, Moves!Init, Ownership, BranchValue, Closed
<1>2. /\ IInv /\ MigrationInv /\ (IInv /\ MigrationInv)' /\ [MigrationNext]_migrationVars
      => [Moves!Next]_(Moves!handoverVars)
  BY HandoverStep
<1>. QED
  BY <1>1, <1>2, MigrationInvariance, PTL DEF MigrationSpec, ImplementsHandover, Moves!Spec

-----------------------------------------------------------------------------
(***************************************************************************)
(* The branch mutation lease and its appends.                              *)
(*                                                                         *)
(* Proofs about the branch mutation lease, for every set of requests and   *)
(* every bound on faults and frozen processes, and about the appends that  *)
(* run under it: every step of an append is a step of MutationLease or     *)
(* leaves the lease alone, so what is proved of the lease holds of         *)
(* appends.                                                                *)
(***************************************************************************)

(* The lease names the only request that may still believe it holds it:    *)
(* a working request lost the lease exactly when it was robbed of it.      *)
Tenure ==
  /\ \A r \in Requests : phase[r] = "working" => (Holds(r) <=> r \notin robbed)
  /\ \A r \in Requests : phase[r] = "idle" => r \notin robbed /\ lease.token # r
  /\ \A r \in Requests : answer[r] # "none" => phase[r] = "ended"

(* Without frozen processes a live holder is never stale, so never robbed. *)
NeverRobbed ==
  MaxStalls = 0 =>
    /\ stalls = 0
    /\ \A r \in Requests : phase[r] = "working" => Holds(r) /\ lease.state # "stale"

LeaseInv == LeaseTypeOK /\ Tenure /\ OkKeptTheLease /\ NeverRobbed

USE DEF Phases, Answers, LeaseStates

LEMMA LeaseInitInv == LeaseInit => LeaseInv
BY LeaseConstants DEF LeaseInit, LeaseInv, LeaseTypeOK, Tenure, OkKeptTheLease, NeverRobbed, Holds

\* A lease is taken from nobody, or from whoever let it go stale.
LEMMA TakesKeeps ==
  ASSUME LeaseInv, NEW r \in Requests, phase[r] = "idle", Takes(r)
  PROVE  /\ lease' \in [token : Requests \cup {NoToken}, state : LeaseStates]
         /\ robbed' \in SUBSET Requests
         /\ r \notin robbed' /\ lease'.token = r /\ lease'.state = "held"
         /\ \A q \in Requests : phase[q] = "working" => q \in robbed'
         /\ \A q \in Requests : phase[q] # "working" => (q \in robbed' <=> q \in robbed)
         /\ MaxStalls = 0 => \A q \in Requests : phase[q] # "working"
BY DEF LeaseInv, LeaseTypeOK, Tenure, NeverRobbed, Takes, Takeable, Holds

LEMMA AcquireKeeps ==
  ASSUME LeaseInv, NEW r \in Requests, Acquire(r) \/ AcquireTimesOut(r)
  PROVE  LeaseInv'
<1>1. CASE Acquire(r)
  BY <1>1, TakesKeeps, LeaseConstants
  DEF LeaseInv, LeaseTypeOK, Tenure, OkKeptTheLease, NeverRobbed, Acquire, Holds, Sound
<1>2. CASE AcquireTimesOut(r)
  <2>1. CASE Takes(r) /\ Fault
    BY <1>2, <2>1, TakesKeeps, LeaseConstants
    DEF LeaseInv, LeaseTypeOK, Tenure, OkKeptTheLease, NeverRobbed, AcquireTimesOut, Ends,
        Holds, Fault
  <2>2. CASE ~Takeable /\ Sound /\ UNCHANGED <<lease, robbed>>
    BY <1>2, <2>2, LeaseConstants
    DEF LeaseInv, LeaseTypeOK, Tenure, OkKeptTheLease, NeverRobbed, AcquireTimesOut, Ends,
        Holds, Sound
  <2>. QED BY <1>2, <2>1, <2>2 DEF AcquireTimesOut
<1>. QED BY <1>1, <1>2

\* Renewals and refusals move no token.
LEMMA RenewKeeps ==
  ASSUME LeaseInv, NEW r \in Requests,
         Renew(r) \/ BeginCommit(r) \/ BeginCommitRefused(r) \/ WorkThrows(r)
  PROVE  LeaseInv'
<1>1. /\ UNCHANGED <<phase, answer, robbed, stalls>>
      /\ \/ lease' = lease
         \/ lease' = [lease EXCEPT !.state = "held"] /\ lease.state \in {"held", "stale"}
      /\ faults' = faults \/ faults' = faults + 1
  <2>1. CASE Renew(r) BY <2>1 DEF Renew, RenewsHeld, RenewsNot, Sound, Fault, Holds
  <2>2. CASE BeginCommit(r) BY <2>2 DEF BeginCommit, RenewsHeld, Sound, Fault, Holds
  <2>3. CASE BeginCommitRefused(r) BY <2>3 DEF BeginCommitRefused, RenewsNot, Sound, Fault
  <2>4. CASE WorkThrows(r) BY <2>4 DEF WorkThrows, Fault
  <2>. QED BY <2>1, <2>2, <2>3, <2>4
<1>3. /\ lease'.token = lease.token
      /\ lease' \in [token : Requests \cup {NoToken}, state : LeaseStates]
      /\ lease'.state = "stale" => lease.state = "stale"
      /\ \A q \in Requests : Holds(q)' <=> Holds(q)
      /\ faults' \in Nat
  BY <1>1 DEF LeaseInv, LeaseTypeOK, Holds
<1>2. started' \in [Requests -> BOOLEAN] /\ lost' \in [Requests -> BOOLEAN]
  BY Zenon DEF LeaseInv, LeaseTypeOK, Renew, BeginCommit, BeginCommitRefused, WorkThrows
<1>. QED
  BY <1>1, <1>2, <1>3 DEF LeaseInv, LeaseTypeOK, Tenure, OkKeptTheLease, NeverRobbed, Holds

\* Only the end of a mutation answers ok, and then it still holds the lease.
LEMMA FinishKeeps ==
  ASSUME LeaseInv, NEW r \in Requests, NEW failed \in BOOLEAN, FinishWork(r, failed)
  PROVE  LeaseInv'
<1>1. /\ UNCHANGED <<started, lost, robbed, stalls>> /\ phase[r] = "working"
      /\ \/ lease' = lease
         \/ Holds(r) /\ lease' = [lease EXCEPT !.state = "released"]
         \/ Holds(r) /\ lease' = [lease EXCEPT !.state = "held"]
      /\ faults' = faults \/ faults' = faults + 1
  BY Zenon DEF FinishWork, RenewsNot, Sound, Fault
<1>2. \E a \in Answers : Ends(r, a) /\ (a = "ok" => Holds(r))
  <2>1. /\ Outcome(r, failed, TRUE) \in Answers
        /\ Outcome(r, failed, FALSE) \in Answers \ {"ok"}
    BY DEF Outcome
  <2>. QED BY Zenon, <2>1 DEF FinishWork
<1>3. PICK a \in Answers : Ends(r, a) /\ (a = "ok" => Holds(r))
  BY <1>2
<1>4. a = "ok" => r \notin robbed
  BY <1>1, <1>3 DEF LeaseInv, Tenure
<1>5. /\ phase' = [phase EXCEPT ![r] = "ended"] /\ phase' \in [Requests -> Phases]
      /\ answer' = [answer EXCEPT ![r] = a] /\ answer' \in [Requests -> Answers]
      /\ faults' \in Nat
  BY <1>1, <1>3 DEF Ends, LeaseInv, LeaseTypeOK
<1>6. /\ lease'.token = lease.token
      /\ lease'.state = "stale" => lease.state = "stale"
      /\ lease' \in [token : Requests \cup {NoToken}, state : LeaseStates]
      /\ \A q \in Requests : q # r => (Holds(q)' <=> Holds(q))
  BY <1>1 DEF LeaseInv, LeaseTypeOK, Holds
<1>. QED
  BY <1>1, <1>4, <1>5, <1>6
  DEF LeaseInv, LeaseTypeOK, Tenure, OkKeptTheLease, NeverRobbed, Holds

LEMMA CrashKeeps ==
  ASSUME LeaseInv, NEW r \in Requests, Crash(r)
  PROVE  LeaseInv'
BY DEF LeaseInv, LeaseTypeOK, Tenure, OkKeptTheLease, NeverRobbed, Crash, Fault, Holds

LEMMA ExpireKeeps ==
  ASSUME LeaseInv, Expire
  PROVE  LeaseInv'
BY LeaseConstants
DEF LeaseInv, LeaseTypeOK, Tenure, OkKeptTheLease, NeverRobbed, Expire, Holds

LEMMA LeaseStepInv == LeaseInv /\ [LeaseNext]_leaseVars => LeaseInv'
<1>. SUFFICES ASSUME LeaseInv, [LeaseNext]_leaseVars PROVE LeaseInv'
  OBVIOUS
<1>1. CASE UNCHANGED leaseVars
  BY <1>1 DEF LeaseInv, LeaseTypeOK, Tenure, OkKeptTheLease, NeverRobbed, leaseVars, Holds
<1>2. CASE LeaseNext
  BY <1>2, AcquireKeeps, RenewKeeps, FinishKeeps, CrashKeeps, ExpireKeeps DEF LeaseNext
<1>. QED BY <1>1, <1>2

THEOREM LeaseInvariant == LeaseSpec => []LeaseInv
<1>. QED BY LeaseInitInv, LeaseStepInv, PTL DEF LeaseSpec

(* However processes freeze and calls fail, a mutation answered as         *)
(* committed was never overtaken by another holder of the lease.           *)
THEOREM CommittedKeptTheLease == LeaseSpec => []OkKeptTheLease
<1>1. LeaseInv => OkKeptTheLease BY DEF LeaseInv
<1>. QED BY <1>1, LeaseInvariant, PTL

(* When no live holder freezes past the stale limit, beginCommit admits    *)
(* one mutation at a time.                                                 *)
THEOREM CommitsAreExclusive == LeaseSpec => []OneCommitAtATime
<1>1. LeaseInv => OneCommitAtATime
  BY DEF LeaseInv, NeverRobbed, OneCommitAtATime, Holds
<1>. QED BY <1>1, LeaseInvariant, PTL

-----------------------------------------------------------------------------
\* The steps of one append, by the part of the lease protocol they take.
LEMMA AppendStepUsesLease ==
  ASSUME NEW r \in Requests, Step(r) \/ WorkFails(r) \/ Stops(r)
  PROVE  [LeaseNext]_leaseVars
<1>1. CASE Start(r)
  BY <1>1 DEF Start, LeaseNext
<1>2. CASE Begin(r)
  BY <1>2 DEF Begin, LeaseNext
<1>3. CASE Finish(r)
  <2>1. (job[r].error # "none") \in BOOLEAN OBVIOUS
  <2>. QED BY Zenon, <1>3, <2>1 DEF Finish, LeaseNext
<1>4. CASE WorkFails(r)
  BY <1>4 DEF WorkFails, LeaseNext
<1>5. CASE Stops(r)
  BY <1>5 DEF Stops, LeaseNext
<1>6. CASE ReadHead(r) \/ LookupNext(r) \/ CheckPredecessor(r)
  BY Zenon, <1>6 DEF ReadHead, LookupNext, CheckPredecessor, Quiet
<1>7. CASE WriteSnapshot(r) \/ WriteCheckpoint(r) \/ Publish(r)
  BY <1>7 DEF WriteSnapshot, WriteCheckpoint, Publish, Quiet
<1>8. CASE \E i \in job[r].todo : WriteEvent(r, i) \/ WriteMarker(r, i)
  BY <1>8 DEF WriteEvent, WriteMarker
<1>. QED BY Zenon, <1>1, <1>2, <1>3, <1>4, <1>5, <1>6, <1>7, <1>8 DEF Step

(* appendEventsToBranch follows the protocol of withBranchMutationLock.    *)
THEOREM AppendsFollowTheLease == LegacySpec => LeaseSpec
<1>1. LegacyInit => LeaseInit BY DEF LegacyInit
<1>2. ASSUME [LegacyNext]_vars PROVE [LeaseNext]_leaseVars
  <2>1. CASE UNCHANGED vars BY <2>1 DEF vars
  <2>2. CASE \E r \in Requests : Step(r) \/ WorkFails(r) \/ Stops(r)
    BY <2>2, AppendStepUsesLease
  <2>3. CASE \E p \in flight : LandsLate(p)
    BY <2>3 DEF LandsLate
  <2>4. CASE LeaseOnly
    BY <2>4 DEF LeaseOnly, LeaseNext
  <2>. QED BY <1>2, <2>1, <2>2, <2>3, <2>4 DEF LegacyNext
<1>. QED BY <1>1, <1>2, PTL DEF LegacySpec, LeaseSpec

(* An append answered with acknowledgements was never overtaken: no other  *)
(* append began on the branch between its acquisition and its answer.      *)
THEOREM AcknowledgedKeptTheLease == LegacySpec => []OkKeptTheLease
<1>. QED BY AppendsFollowTheLease, CommittedKeptTheLease, PTL

=============================================================================
