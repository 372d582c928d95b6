----------------------------- MODULE OutboxWake -----------------------------
(***************************************************************************)
(* The alarm of one Durable Object shard: BranchStateObject.alarm and the  *)
(* wake calls of its mutations (branch-state-object.ts), the persisted     *)
(* wake state (outbox-alarm.ts) and the due rows the alarm claims          *)
(* (claimOutbox and retryOutbox of sqlite-commits.ts).                     *)
(*                                                                         *)
(* Times are relative to the present and never pass below Floor; a tick is *)
(* the shortest delay of the code.  The alarm handler remembers how long   *)
(* ago it read the clock.  A mutation and its wake are one step: nothing   *)
(* outside the object is awaited between them.                             *)
(* #scheduleOutboxWake swallows a failure of the storage that would keep   *)
(* the wake; that step is left out here, and its work to the cron sweep.   *)
(***************************************************************************)
EXTENDS Integers, FiniteSets, FiniteSetsExt, Null

CONSTANTS
  Tasks,       \* outbox jobs
  Poll,        \* OUTBOX_RETRY_POLL_MS, and the lease of a claim
  PollLimit,   \* OUTBOX_RETRY_POLL_LIMIT
  Ceiling,     \* attempts after which the backoff no longer grows
  Batch,       \* OUTBOX_ALARM_BATCH_SIZE
  MaxAge,      \* bound on the ticks an alarm handler runs
  MaxReplays,  \* bound on wakes without new work
  MaxSweeps    \* bound on claims by the cron sweep and post-commit calls

Delay(attempts) == Poll * 2^((IF attempts < Ceiling THEN attempts ELSE Ceiling) - 1)

\* The backoff fits the polls: 1,024 and 1,440 minutes in the code.
ASSUME WakeConstants ==
  /\ None \notin Int
  /\ Poll \in Nat \ {0} /\ Batch \in Nat \ {0} /\ Ceiling \in Nat \ {0}
  /\ MaxAge \in Nat /\ MaxReplays \in Nat /\ MaxSweeps \in Nat
  /\ PollLimit \in Nat
  /\ \A n \in 1..Ceiling :
       Delay(n) \in Nat /\ Delay(n) + MaxReplays * Poll <= PollLimit * Poll

VARIABLES
  job,      \* rows: status, next_attempt_at (relative), attempts
  wake,     \* OutboxWakeState: leaseUntil (relative), polling, polls, at
  alarm,    \* the alarm handler: pc, age of its clock, claimed items
  replays, sweeps

wakeVars == <<job, wake, alarm, replays, sweeps>>

Floor == -(MaxAge + 1)

AtLeast(low, n) == IF n < low THEN low ELSE n

Clear == [lease |-> Floor, polling |-> FALSE, polls |-> 0, at |-> None]

Rest == [pc |-> "idle", age |-> 0, items |-> {}]

WakeInit ==
  /\ job = [j \in Tasks |-> [status |-> "none", due |-> 0, attempts |-> 0]]
  /\ wake = Clear /\ alarm = Rest /\ replays = 0 /\ sweeps = 0

-----------------------------------------------------------------------------
\* Mutant: a later wake replaces the earlier one, and a retry keeps the count.
ScheduleOutboxWakeLast(state, kind, at, lease) ==
  [lease |-> AtLeast(state.lease, lease), polling |-> state.polling,
   polls |-> state.polls, at |-> at]

ScheduleOutboxWake(state, kind, at, lease) ==
  [lease |-> AtLeast(state.lease, lease),
   polling |-> kind = "retry" \/ state.polling,
   polls |-> IF kind = "retry" THEN 0 ELSE state.polls,
   at |-> IF state.at = None THEN at ELSE IF state.at < at THEN state.at ELSE at]

\* age is how long ago the handler read the clock.
\* Mutant: the lease of a claim is not waited for.
OutboxWakeAfterEmptyNow(state, age) ==
  IF state.at # None /\ state.at + age > 0 THEN state
  ELSE IF state.polling /\ state.polls < PollLimit
       THEN [state EXCEPT !.polls = @ + 1, !.at = AtLeast(0, Poll - age)]
  ELSE Clear

OutboxWakeAfterEmpty(state, age) ==
  IF state.at # None /\ state.at + age > 0 THEN state
  ELSE IF state.lease + age >= 0 THEN [state EXCEPT !.at = AtLeast(0, state.lease + 1)]
  ELSE IF state.polling /\ state.polls < PollLimit
       THEN [state EXCEPT !.polls = @ + 1, !.at = AtLeast(0, Poll - age)]
  ELSE Clear

Schedule(kind, at, lease) == wake' = ScheduleOutboxWake(wake, kind, at, lease)

-----------------------------------------------------------------------------
(* The plane *)

Due(age) == {j \in Tasks : job[j].status \in {"pending", "claimed"} /\ job[j].due <= -age}

\* The oldest due rows, at most Batch of them: all if they fit, else a full page.
DueFirst(S, age) ==
  /\ S \subseteq Due(age)
  /\ \/ S = Due(age) /\ Cardinality(S) <= Batch
     \/ S # {} /\ Cardinality(S) = Batch
  /\ \A j \in S, k \in Due(age) \ S : job[j].due <= job[k].due

\* The lease ends Poll after the clock of the caller.
Claim(S, age) ==
  job' = [j \in Tasks |-> IF j \in S
            THEN [status |-> "claimed", due |-> Poll - age,
                  attempts |-> Min({job[j].attempts + 1, Ceiling})]
            ELSE job[j]]

\* The wake after a claim: soon after a full page, else when the lease ends.
ClaimWake(S, age) ==
  Schedule("claim", IF Cardinality(S) = Batch THEN AtLeast(0, 1 - age) ELSE Poll - age + 1,
           Poll - age)

Live(j) == job[j].status = "claimed" /\ job[j].due > 0

\* retryOutbox of a live claim.
Release(j) == job' = [job EXCEPT ![j].status = "pending", ![j].due = Delay(job[j].attempts)]

-----------------------------------------------------------------------------
(* RPCs of the object *)

WakeCommit(j) ==
  /\ job[j].status = "none"
  /\ job' = [job EXCEPT ![j].status = "pending", ![j].due = 0]
  /\ Schedule("new", 1, Floor)
  /\ UNCHANGED <<alarm, replays, sweeps>>

\* A replayed mutation commits nothing and still asks for a wake.
Replay ==
  /\ replays < MaxReplays
  /\ replays' = replays + 1
  /\ Schedule("new", 1, Floor)
  /\ UNCHANGED <<job, alarm, sweeps>>

\* claimOutbox called by dispatchOutboxShard.
Sweep ==
  /\ sweeps < MaxSweeps
  /\ sweeps' = sweeps + 1
  /\ \E S \in (SUBSET Tasks) \ {{}} : DueFirst(S, 0) /\ Claim(S, 0) /\ ClaimWake(S, 0)
  /\ UNCHANGED <<alarm, replays>>

\* retryOutbox called by a consumer or by dispatchOutboxShard.
RetryOutbox(j) ==
  /\ Live(j)
  /\ Release(j)
  /\ Schedule("retry", Poll, Floor)
  /\ UNCHANGED <<alarm, replays, sweeps>>

AcknowledgeOutbox(j) ==
  /\ Live(j)
  /\ job' = [job EXCEPT ![j] = [status |-> "completed", due |-> 0, attempts |-> 0]]
  /\ UNCHANGED <<wake, alarm, replays, sweeps>>

-----------------------------------------------------------------------------
(* alarm *)

Alarm ==
  /\ alarm.pc = "idle" /\ wake.at # None /\ wake.at <= 0
  /\ alarm' = [Rest EXCEPT !.pc = "claim"]
  /\ wake' = [wake EXCEPT !.at = None]
  /\ UNCHANGED <<job, replays, sweeps>>

AlarmClaims ==
  /\ alarm.pc = "claim"
  /\ \E S \in SUBSET Tasks :
       /\ DueFirst(S, alarm.age) /\ Claim(S, alarm.age)
       /\ IF S = {} THEN /\ alarm' = [alarm EXCEPT !.pc = "empty"]
                         /\ UNCHANGED wake
                    ELSE /\ alarm' = [alarm EXCEPT !.pc = "send", !.items = S]
                         /\ ClaimWake(S, alarm.age)
  /\ UNCHANGED <<replays, sweeps>>

\* claimOutbox throws: the catch block asks for a retry wake.
AlarmFails ==
  /\ alarm.pc = "claim"
  /\ alarm' = Rest
  /\ Schedule("retry", Poll, Floor)
  /\ UNCHANGED <<job, replays, sweeps>>

AlarmEmpty ==
  /\ alarm.pc = "empty"
  /\ wake' = OutboxWakeAfterEmpty(wake, alarm.age)
  /\ alarm' = Rest
  /\ UNCHANGED <<job, replays, sweeps>>

AlarmSends(j) ==
  /\ alarm.pc = "send" /\ j \in alarm.items
  /\ alarm' = IF alarm.items = {j} THEN Rest ELSE [alarm EXCEPT !.items = @ \ {j}]
  /\ \/ UNCHANGED <<job, wake>>
     \/ /\ \/ Live(j) /\ Release(j)
           \/ UNCHANGED job
        /\ Schedule("retry", Poll, Floor)
  /\ UNCHANGED <<replays, sweeps>>

Tick ==
  /\ alarm.age < MaxAge
  /\ job' = [j \in Tasks |-> [job[j] EXCEPT !.due = AtLeast(-MaxAge, @ - 1)]]
  /\ wake' = [wake EXCEPT !.lease = AtLeast(Floor, @ - 1),
                          !.at = IF @ = None THEN None ELSE AtLeast(0, @ - 1)]
  /\ alarm' = IF alarm.pc = "idle" THEN alarm ELSE [alarm EXCEPT !.age = @ + 1]
  /\ UNCHANGED <<replays, sweeps>>

AlarmStep == Alarm \/ AlarmClaims \/ AlarmEmpty \/ \E j \in Tasks : AlarmSends(j)

WakeNext ==
  \/ \E j \in Tasks : WakeCommit(j) \/ RetryOutbox(j) \/ AcknowledgeOutbox(j)
  \/ Replay \/ Sweep \/ AlarmStep \/ AlarmFails \/ Tick

WakeSpec == WakeInit /\ [][WakeNext]_wakeVars

-----------------------------------------------------------------------------
(* While work is unsettled the object has an alarm, no later than the end  *)
(* of a lease taken now, or its handler runs: concurrent commits, sweeps,  *)
(* retries and wakes without work never cancel or outrun the alarm that    *)
(* unfinished work needs (scheduleOutboxWake: "without postponing an       *)
(* earlier persisted alarm"; outboxWakeAfterEmpty: "preserving concurrent  *)
(* writes and lease expiry").                                              *)
WorkIsArmed ==
  (\E j \in Tasks : job[j].status \in {"pending", "claimed"}) =>
    alarm.pc # "idle" \/ (wake.at # None /\ wake.at <= Poll + 1)

(* A released job is claimed again by the alarm alone, with no sweep and   *)
(* no client traffic ("polls durable retries without client traffic,       *)
(* bounded by the 24-hour retry ceiling").                                 *)
RetriedByTheAlarm ==
  \A j \in Tasks : job[j].status = "pending" ~> job[j].status # "pending"
=============================================================================
