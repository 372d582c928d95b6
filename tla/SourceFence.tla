---------------------------- MODULE SourceFence ----------------------------
(***************************************************************************)
(* The durable admission ledger of a legacy branch source, class           *)
(* SqliteSourceWriteFence of src/server/state-plane/source-fence.ts.       *)
(*                                                                         *)
(* The ledger holds one gate row per branch and one permit row per         *)
(* (generation, requestId).  All statements are keyed by the branch, so    *)
(* the module describes the rows of a single branch.  Every method is one  *)
(* SQL transaction and is one action here; a method that throws leaves     *)
(* the rows alone and is therefore a step that is simply not enabled.      *)
(***************************************************************************)
EXTENDS Integers, FiniteSets

CONSTANTS
  RequestIds,       \* request identities, crypto.randomUUID() in the writer
  Migrations,     \* migration identities
  MaxGeneration,  \* the largest safe generation (Number.MAX_SAFE_INTEGER)
  NoMigration     \* SQL NULL in the column migration_id

ASSUME FenceConstants ==
  /\ IsFiniteSet(RequestIds)
  /\ MaxGeneration \in Nat
  /\ NoMigration \notin Migrations

VARIABLES
  gate,    \* the row of migration_source_gate
  permit   \* the rows of migration_source_permit, "none" where there is no row

fenceVars == <<gate, permit>>

Generations == 0..MaxGeneration

GatePhases == {"unregistered", "legacy", "draining", "frozen", "transferred"}

GateRow ==
  [generation : Generations, phase : GatePhases,
   migrationId : Migrations \cup {NoMigration}, active : Nat]

PermitStates == {"none", "open", "completed"}

FenceInit ==
  /\ gate = [generation |-> 0, phase |-> "unregistered",
             migrationId |-> NoMigration, active |-> 0]
  /\ permit = [g \in Generations |-> [r \in RequestIds |-> "none"]]

(***************************************************************************)
(* register: INSERT ... ON CONFLICT DO NOTHING keeps an existing row.      *)
(***************************************************************************)
Register ==
  /\ gate.phase = "unregistered"
  /\ gate' = [gate EXCEPT !.phase = "legacy"]
  /\ UNCHANGED permit

(***************************************************************************)
(* admit: the exact live generation, an open gate, a fresh requestId.      *)
(***************************************************************************)
Admit(g, r) ==
  /\ gate.generation = g
  /\ gate.phase = "legacy"
  /\ permit[g][r] = "none"
  /\ permit' = [permit EXCEPT ![g][r] = "open"]
  /\ gate' = [gate EXCEPT !.active = @ + 1]

(***************************************************************************)
(* complete: a completed permit is returned unchanged; an open one must    *)
(* meet a gate of its own generation that still counts it.                 *)
(***************************************************************************)
CompleteAccepts(g) ==
  /\ gate.generation = g
  /\ gate.active >= 1
  /\ gate.phase \in {"legacy", "draining"}

Complete(g, r) ==
  /\ permit[g][r] = "open"
  /\ CompleteAccepts(g)
  /\ permit' = [permit EXCEPT ![g][r] = "completed"]
  /\ gate' = [gate EXCEPT !.active = @ - 1]

(***************************************************************************)
(* fence: closes admissions; frozen only once no admission is active.      *)
(***************************************************************************)
Fence(g, m) ==
  /\ gate.phase \in {"legacy", "draining", "frozen"}
  /\ gate.generation = g
  /\ gate.migrationId \in {NoMigration, m}
  /\ gate' = [gate EXCEPT !.phase = IF gate.active = 0 THEN "frozen" ELSE "draining",
                          !.migrationId = m]
  /\ UNCHANGED permit

AssertFrozen(g, m) ==
  /\ gate.generation = g
  /\ gate.migrationId = m
  /\ gate.phase = "frozen"
  /\ gate.active = 0

(***************************************************************************)
(* transfer and abort: the two ways out of a frozen gate.  A repeated      *)
(* transfer by the same certificate changes nothing.                       *)
(***************************************************************************)
Transfer(g, m) ==
  /\ AssertFrozen(g, m)
  /\ gate' = [gate EXCEPT !.phase = "transferred"]
  /\ UNCHANGED permit

Abort(g, m) ==
  /\ AssertFrozen(g, m)
  /\ g + 1 \in Generations
  /\ gate' = [gate EXCEPT !.phase = "legacy", !.generation = g + 1,
                          !.migrationId = NoMigration]
  /\ UNCHANGED permit
=============================================================================
