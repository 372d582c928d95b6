---------------------------- MODULE MutationLease ----------------------------
(***************************************************************************)
(* The lease that serialises the mutations of one legacy branch:           *)
(* withBranchMutationLock (branches/storage/mutation-lock.ts).             *)
(*                                                                         *)
(* The lease is one blob, changed only by puts conditional on its etag, so *)
(* a read followed by such a put is one step here: the put fails whenever  *)
(* the blob moved in between.  Time appears as the state stale, entered  *)
(* BRANCH_LOCK_STALE_MS after the last write of the blob.  A live          *)
(* holder writes it every BRANCH_LOCK_RENEW_MS; it goes stale under a live *)
(* holder only when that process is frozen, at most MaxStalls times.  A    *)
(* storage call fails, before or after its effect, at most MaxFaults times.*)
(***************************************************************************)
EXTENDS Naturals, FiniteSets

CONSTANTS
  Requests,   \* requests for a mutation; each brings its own token
  NoToken,    \* the lock blob does not exist yet
  MaxStalls,  \* bound on leases that expire under a live holder
  MaxFaults   \* bound on failing storage calls and stopped processes

ASSUME LeaseConstants ==
  NoToken \notin Requests /\ MaxStalls \in Nat /\ MaxFaults \in Nat

VARIABLES
  lease,    \* the lock blob: absent, held, held with a stale createdAt, released
  phase,    \* per request: idle, working (inside work), ended or dead
  started,  \* commitStarted
  lost,     \* commitLost
  answer,   \* what withBranchMutationLock gave back
  robbed,   \* history: requests whose lease another request took from them
  stalls, faults

leaseVars == <<lease, phase, started, lost, answer, robbed, stalls, faults>>

LeaseStates == {"absent", "held", "stale", "released"}
Phases == {"idle", "working", "ended", "dead"}
Answers == {"none", "ok", "failed", "not_committed", "unknown"}

LeaseTypeOK ==
  /\ lease \in [token : Requests \cup {NoToken}, state : LeaseStates]
  /\ phase \in [Requests -> Phases]
  /\ started \in [Requests -> BOOLEAN] /\ lost \in [Requests -> BOOLEAN]
  /\ answer \in [Requests -> Answers]
  /\ robbed \in SUBSET Requests
  /\ stalls \in Nat /\ faults \in Nat

LeaseInit ==
  /\ lease = [token |-> NoToken, state |-> "absent"]
  /\ phase = [r \in Requests |-> "idle"]
  /\ started = [r \in Requests |-> FALSE] /\ lost = [r \in Requests |-> FALSE]
  /\ answer = [r \in Requests |-> "none"]
  /\ robbed = {}
  /\ stalls = 0 /\ faults = 0

Holds(r) == lease.state \in {"held", "stale"} /\ lease.token = r

Takeable == lease.state # "held"

Fault == faults < MaxFaults /\ faults' = faults + 1

Sound == UNCHANGED faults

-----------------------------------------------------------------------------
\* acquireBranchMutationLock: create-only put, else replace a released or
\* stale blob under its etag.
Takes(r) ==
  /\ Takeable
  /\ lease' = [token |-> r, state |-> "held"]
  /\ robbed' = robbed \cup {q \in Requests : phase[q] = "working"}

Acquire(r) ==
  /\ phase[r] = "idle"
  /\ Takes(r)
  /\ phase' = [phase EXCEPT ![r] = "working"]
  /\ Sound
  /\ UNCHANGED <<started, lost, answer, stalls>>

Ends(r, a) ==
  /\ phase' = [phase EXCEPT ![r] = "ended"]
  /\ answer' = [answer EXCEPT ![r] = a]

\* branch_lock_timeout; or the put succeeded, its response and
\* recoverOwnedLease failed, and the lease stays with a token nobody uses.
AcquireTimesOut(r) ==
  /\ phase[r] = "idle"
  /\ \/ ~Takeable /\ Sound /\ UNCHANGED <<lease, robbed>>
     \/ Takes(r) /\ Fault
  /\ Ends(r, "not_committed")
  /\ UNCHANGED <<started, lost, stalls>>

\* renewBranchMutationLock answers "held": written, or found unchanged by
\* recoverOwnedLease after a failed put.
RenewsHeld(r) ==
  /\ Holds(r)
  /\ \/ lease' = [lease EXCEPT !.state = "held"] /\ Sound
     \/ UNCHANGED lease /\ Fault

\* It answers "not_held", or "unknown" when the reads fail too.
RenewsNot(r) ==
  /\ \/ ~Holds(r) /\ Sound
     \/ Holds(r) /\ Fault
  /\ UNCHANGED lease

\* The renewal timer.
Renew(r) ==
  /\ phase[r] = "working"
  /\ \/ lease.state = "stale" /\ RenewsHeld(r) /\ UNCHANGED lost
     \/ ~lost[r] /\ RenewsNot(r) /\ lost' = [lost EXCEPT ![r] = TRUE]
  /\ UNCHANGED <<phase, started, answer, robbed, stalls>>

BeginCommit(r) ==
  /\ phase[r] = "working"
  /\ ~lost[r]
  /\ RenewsHeld(r)
  /\ started' = [started EXCEPT ![r] = TRUE]
  /\ UNCHANGED <<phase, lost, answer, robbed, stalls>>

\* branch_lock_lost_before_commit is thrown into work.
BeginCommitRefused(r) ==
  /\ phase[r] = "working"
  /\ \/ lost[r] /\ Sound /\ UNCHANGED lease
     \/ ~lost[r] /\ RenewsNot(r)
  /\ UNCHANGED <<phase, started, lost, answer, robbed, stalls>>

\* What is returned once work ended; held is ownershipAfterWork = "held".
\* Mutant: the ownership after the work is not looked at.
OutcomeUnchecked(r, failed, held) ==
  IF failed THEN IF started[r] THEN "unknown" ELSE "failed"
  ELSE "ok"

Outcome(r, failed, held) ==
  IF failed THEN IF started[r] THEN "unknown" ELSE "failed"
  ELSE IF ~held \/ (started[r] /\ lost[r]) THEN "unknown"
  ELSE "ok"

\* The end of withBranchMutationLock: renew, release, answer.  A release
\* that fails leaves the lease held and only logs a warning.
FinishWork(r, failed) ==
  /\ phase[r] = "working"
  /\ \/ /\ Holds(r)
        /\ \/ lease' = [lease EXCEPT !.state = "released"] /\ Sound
           \/ lease' = [lease EXCEPT !.state = "held"] /\ Fault
        /\ Ends(r, Outcome(r, failed, TRUE))
     \/ RenewsNot(r) /\ Ends(r, Outcome(r, failed, FALSE))
  /\ UNCHANGED <<started, lost, robbed, stalls>>

\* A storage call of work throws.
WorkThrows(r) ==
  /\ phase[r] = "working"
  /\ Fault
  /\ UNCHANGED <<lease, phase, started, lost, answer, robbed, stalls>>

\* The process stops inside work; nobody renews or releases its lease.
Crash(r) ==
  /\ phase[r] = "working"
  /\ phase' = [phase EXCEPT ![r] = "dead"]
  /\ Fault
  /\ UNCHANGED <<lease, started, lost, answer, robbed, stalls>>

\* BRANCH_LOCK_STALE_MS pass without a write of the lock blob.
Expire ==
  /\ lease.state = "held"
  /\ \/ phase[lease.token] # "working" /\ UNCHANGED stalls
     \/ /\ phase[lease.token] = "working"
        /\ stalls < MaxStalls /\ stalls' = stalls + 1
  /\ lease' = [lease EXCEPT !.state = "stale"]
  /\ UNCHANGED <<phase, started, lost, answer, robbed, faults>>

LeaseNext ==
  \/ \E r \in Requests :
       \/ Acquire(r) \/ AcquireTimesOut(r) \/ Renew(r)
       \/ BeginCommit(r) \/ BeginCommitRefused(r)
       \/ \E failed \in BOOLEAN : FinishWork(r, failed)
       \/ WorkThrows(r) \/ Crash(r)
  \/ Expire

LeaseSpec == LeaseInit /\ [][LeaseNext]_leaseVars

-----------------------------------------------------------------------------
(* A mutation that is answered as committed kept its lease from the        *)
(* acquisition to the answer: nobody else can have begun in between.       *)
(* withBranchMutationLock: "Runs a branch mutation under a lease with      *)
(* explicit pre-commit ownership proof".                                   *)
OkKeptTheLease ==
  \A r \in Requests : answer[r] = "ok" => r \notin robbed

(* Without frozen processes, two mutations are never between beginCommit   *)
(* and the end of their work at the same time.                             *)
OneCommitAtATime ==
  MaxStalls = 0 =>
    \A r, q \in Requests :
      /\ phase[r] = "working" /\ started[r]
      /\ phase[q] = "working" /\ started[q]
      => r = q
=============================================================================
