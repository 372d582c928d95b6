---------------------------- MODULE OutboxLedger ----------------------------
(***************************************************************************)
(* The delivery bookkeeping of a shard: registerOutbox, bootstrapOutbox,   *)
(* claimOutbox, readClaimedOutbox, acknowledgeOutbox, retryOutbox and      *)
(* pruneCompletedOutbox of sqlite-commits.ts, with outbox-delivery.ts.     *)
(*                                                                         *)
(* Jobs are the canonical outbox rows of one source table of one branch,   *)
(* numbered by rowid, which is the order of their commits and of the       *)
(* versions they carry.  A lease is identified by the job and the attempt: *)
(* attempts grow with every claim and the token hashes them together with  *)
(* a fresh leaseId.  Times are abstracted to what callers tell apart: a    *)
(* row's next_attempt_at is reached ("due") or not ("waiting").  A claimed *)
(* row has next_attempt_at = lease_until, so the same flag says whether    *)
(* its lease has run out.                                                  *)
(***************************************************************************)
EXTENDS Integers, FiniteSets, FiniteSetsExt

CONSTANTS
  Jobs,         \* the number of canonical rows of a behaviour
  Legacy,       \* how many of them predate the delivery bookkeeping
  Imported,     \* those of them that a migration imported
  Limit,        \* rows per claim
  Page,         \* rows per bootstrap page
  MaxAttempts,  \* bound on the claims of a job
  MaxMoves,     \* bound on the changes of the head's generation
  Clocks        \* "shared", or "skewed": callers' clocks are unrelated

ASSUME LedgerConstants ==
  /\ Jobs \in Nat /\ Legacy \in 0..Jobs /\ Imported \subseteq 1..Legacy
  /\ Limit \in Nat \ {0} /\ Page \in Nat \ {0}
  /\ MaxAttempts \in Nat \ {0} /\ MaxMoves \in Nat
  /\ Clocks \in {"shared", "skewed"}

VARIABLES
  committed,   \* jobs 1..committed have a canonical row
  generation,  \* the generation of the branch head
  delivery,    \* the rows of branch_outbox_delivery
  bootstrap    \* the row of branch_outbox_delivery_bootstrap

ledgerVars == <<committed, generation, delivery, bootstrap>>

Job == 1..Jobs

Ref == [job : Job, attempt : 1..MaxAttempts]

Row == [status : {"absent", "pending", "claimed", "completed", "fenced"},
        attempts : 0..MaxAttempts, timing : {"due", "waiting"},
        generation : 0..MaxMoves]

NoRow == [status |-> "absent", attempts |-> 0, timing |-> "due", generation |-> 0]

Registered(g) == [status |-> "pending", attempts |-> 0, timing |-> "due", generation |-> g]

LedgerInit ==
  /\ committed = Legacy
  /\ generation = 0
  /\ delivery = [o \in Job |-> NoRow]
  /\ bootstrap = [cursor |-> 0, complete |-> "no"]

\* A publication writes its canonical row and, in the same transaction,
\* registers it for delivery (BranchCommits!Publish).
Commit ==
  /\ committed < Jobs
  /\ committed' = committed + 1
  /\ delivery' = [delivery EXCEPT ![committed + 1] = Registered(generation)]
  /\ UNCHANGED <<generation, bootstrap>>

\* bootstrapOutbox: the next page of canonical rows after the cursor; rows
\* that are already registered are left alone, imported ones are skipped.
Unvisited == {o \in 1..committed : o > bootstrap.cursor /\ o \notin Imported}

BootstrapPage ==
  IF bootstrap.complete = "yes" THEN {}
  ELSE {o \in Unvisited : Cardinality({p \in Unvisited : p < o}) < Page}

\* Mutant: a full page is taken for the last one.
BootstrapAdvancesShort ==
  IF bootstrap.complete = "yes" THEN bootstrap
  ELSE [cursor |-> IF BootstrapPage = {} THEN bootstrap.cursor ELSE Max(BootstrapPage),
        complete |-> IF Cardinality(BootstrapPage) <= Page THEN "yes" ELSE "no"]

BootstrapAdvances ==
  IF bootstrap.complete = "yes" THEN bootstrap
  ELSE [cursor |-> IF BootstrapPage = {} THEN bootstrap.cursor ELSE Max(BootstrapPage),
        complete |-> IF Cardinality(BootstrapPage) < Page THEN "yes" ELSE "no"]

Bootstrapped ==
  [o \in Job |-> IF o \in BootstrapPage /\ delivery[o].status = "absent"
                 THEN Registered(0) ELSE delivery[o]]

\* What a caller's clock may say of a row.  A row that was never claimed has
\* next_attempt_at = 0 and is due on every clock.
Reads(row) ==
  IF Clocks = "shared" \/ row.attempts = 0 THEN {row.timing} ELSE {"due", "waiting"}

\* Mutant: a claim whose lease ran out is not a candidate.
ActivePending(rows) == {o \in Job : rows[o].status = "pending"}

Active(rows) == {o \in Job : rows[o].status \in {"pending", "claimed"}}

\* The last attempt the bound allows keeps its lease.
InBound(row) == row.attempts < MaxAttempts \/ row.generation # generation

\* The candidates of a claim, for every clock: Limit rows, or all if fewer.
Candidates(rows) ==
  {S \in SUBSET {o \in Active(rows) : "due" \in Reads(rows[o]) /\ InBound(rows[o])} :
     LET sure == {o \in Active(rows) : Reads(rows[o]) = {"due"} /\ InBound(rows[o])} IN
     /\ Cardinality(S) <= Limit
     /\ Cardinality(S) < Limit => sure \subseteq S}

ClaimRow(row) ==
  IF row.generation # generation
  THEN [row EXCEPT !.status = "fenced"]
  ELSE [row EXCEPT !.status = "claimed", !.attempts = @ + 1, !.timing = "waiting"]

\* claimOutbox: bootstrap a page, then claim or fence the candidates.
ClaimOutbox(S) ==
  /\ S \in Candidates(Bootstrapped)
  /\ delivery' = [o \in Job |-> IF o \in S THEN ClaimRow(Bootstrapped[o]) ELSE Bootstrapped[o]]
  /\ bootstrap' = BootstrapAdvances
  /\ UNCHANGED <<committed, generation>>

\* The references a claim hands out.
Items(S) ==
  {[job |-> o, attempt |-> Bootstrapped[o].attempts + 1] :
     o \in {p \in S : Bootstrapped[p].generation = generation}}

Current(ref) == delivery[ref.job].generation = generation

\* The lease of ref as a caller sees it that reads the row as r.
\* Mutant: the token is not compared, any claim of the job will do.
HoldsAnyLease(ref, r) ==
  /\ delivery[ref.job].status = "claimed"
  /\ r = "waiting"
  /\ Current(ref)

HoldsLease(ref, r) ==
  /\ delivery[ref.job].status = "claimed"
  /\ delivery[ref.job].attempts = ref.attempt
  /\ r = "waiting"
  /\ Current(ref)

\* acknowledgeOutbox: a live claim is completed; a completed row counts as a
\* duplicate; anything else is stale and changes nothing.
Acknowledge(ref, r) ==
  /\ delivery' = IF HoldsLease(ref, r)
                 THEN [delivery EXCEPT ![ref.job].status = "completed"] ELSE delivery
  /\ UNCHANGED <<committed, generation, bootstrap>>

\* retryOutbox: a live claim goes back to pending with a later next attempt.
Retry(ref, r) ==
  /\ delivery' = IF HoldsLease(ref, r)
                 THEN [delivery EXCEPT ![ref.job].status = "pending"] ELSE delivery
  /\ UNCHANGED <<committed, generation, bootstrap>>

\* pruneCompletedOutbox: old completed rows keep their id and status.
Prune(o) ==
  /\ delivery[o].status = "completed"
  /\ delivery[o].attempts > 0
  /\ delivery' = [delivery EXCEPT ![o].attempts = 0, ![o].timing = "due"]
  /\ UNCHANGED <<committed, generation, bootstrap>>

\* The clock reaches the next_attempt_at of a row.
TimePasses(o) ==
  /\ delivery[o].timing = "waiting"
  /\ delivery[o].status = "claimed" => InBound(delivery[o])
  /\ delivery' = [delivery EXCEPT ![o].timing = "due"]
  /\ UNCHANGED <<committed, generation, bootstrap>>

\* The branch is placed at a new generation.  No code of the repository does
\* this yet; the delivery tests do it with SQL to exercise the fence.
GenerationMoves ==
  /\ generation < MaxMoves
  /\ generation' = generation + 1
  /\ UNCHANGED <<committed, delivery, bootstrap>>
=============================================================================
