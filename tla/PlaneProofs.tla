---------------------------- MODULE PlaneProofs -----------------------------
(***************************************************************************)
(* Proofs about the in-memory reference plane, and about the alarm that    *)
(* starts the deliveries of a branch.                                      *)
(***************************************************************************)
EXTENDS MemoryPlane, OutboxWake, WellFoundedInduction, TLAPS

\* Back ends, in the order in which they are tried.
USE SMTT(15), Zenon, Z3T(60)

-----------------------------------------------------------------------------
(***************************************************************************)
(* The alarm.                                                              *)
(*                                                                         *)
(* For any number of tasks and any constants that satisfy WakeConstants:   *)
(* work that is not settled has an alarm armed, or a handler under way     *)
(* that arms it.                                                           *)
(*                                                                         *)
(* WorkIsArmed is not inductive: an alarm that finds an empty page may     *)
(* stop polling, so the invariant counts the polls that are left against   *)
(* the longest backoff of a released job (BackoffIsCovered), and relates a *)
(* claim to the persisted lease (ClaimsAreLeased).                         *)
(***************************************************************************)

\* The shapes of the state.
Times == Int \cup {None}
JobStates == [status : {"none", "pending", "claimed", "completed"}, due : Int, attempts : Nat]
WakeStates == [lease : Int, polling : BOOLEAN, polls : Nat, at : Times]
AlarmStates == [pc : {"idle", "claim", "empty", "send"}, age : 0..MaxAge, items : SUBSET Tasks]

WakeTypeOK ==
  /\ job \in [Tasks -> JobStates]
  /\ wake \in WakeStates
  /\ alarm \in AlarmStates
  /\ replays \in 0..MaxReplays
  /\ sweeps \in Nat

\* Jobs that still need a delivery, and those that are due at a clock.
Unsettled(j) == job[j].status \in {"pending", "claimed"}
Overdue(age) == \E j \in Tasks : Unsettled(j) /\ job[j].due <= -age

(* A claim is live no longer than the persisted lease says, until both are *)
(* past every clock in use.                                                *)
ClaimsAreLeased ==
  /\ wake.lease <= Poll
  /\ \A j \in Tasks : job[j].status = "claimed" =>
       job[j].attempts \in 1..Ceiling /\ (job[j].due <= wake.lease \/ job[j].due <= -MaxAge)

(* The armed alarm is near; the handler disarms the alarm it was called    *)
(* for, so one that is armed while it runs was asked for meanwhile.        *)
AlarmIsNear ==
  /\ alarm.pc = "idle" => alarm.age = 0
  /\ alarm.pc = "send" => wake.at # None
  /\ alarm.pc # "idle" /\ wake.at # None => wake.at + alarm.age > 0
  /\ wake.at # None => wake.at <= Poll \/ wake.at <= wake.lease + 1

(* A page found empty was empty at the handler's clock, unless more was    *)
(* asked for since.                                                        *)
EmptyIsEmpty == alarm.pc = "empty" /\ wake.at = None => ~Overdue(alarm.age)

(* The polls left, less the ones wakes without work may still waste.       *)
Left == (PollLimit - wake.polls - MaxReplays + replays) * Poll

(* No poll is counted before the next alarm, before the lease ends, or,    *)
(* while a job is due, before the lease of its claim ends; from then on    *)
(* the polls left cover the backoff of j.                                  *)
Most == (PollLimit - MaxReplays) * Poll

PollsCover(j) ==
  \/ wake.at = None /\ job[j].due + alarm.age <= Left
  \/ wake.at # None /\ job[j].due <= Left
  \/ job[j].due <= Left + wake.lease + 1
  \/ alarm.pc = "idle" /\ wake.at # None /\ job[j].due <= Left + wake.at
  \/ alarm.pc = "idle" /\ Overdue(0) /\ job[j].due <= Left + Poll
  \/ alarm.pc = "claim" /\ Overdue(alarm.age) /\ job[j].due <= Left + Poll - alarm.age

BackoffIsCovered ==
  /\ \A j \in Tasks : job[j].status = "pending" => job[j].due <= Most
  /\ \A j \in Tasks :
       job[j].status = "pending" /\ job[j].due > (IF wake.at = None THEN -alarm.age ELSE 0) =>
         wake.polling /\ PollsCover(j)

\* The inductive invariant.
WakeInv == /\ WakeTypeOK /\ ClaimsAreLeased /\ AlarmIsNear /\ EmptyIsEmpty /\ BackoffIsCovered
           /\ WorkIsArmed

\* Helpers: a minimum, an empty page, and what scheduling does.
LEMMA LesserOfTwo ==
  ASSUME NEW a \in Int, NEW b \in Int
  PROVE  Min({a, b}) = IF a <= b THEN a ELSE b
<1>. DEFINE m == IF a <= b THEN a ELSE b
<1>1. m \in {a, b} /\ \A y \in {a, b} : m <= y
  OBVIOUS
<1>2. \A n \in {a, b} : (\A y \in {a, b} : n <= y) => n = m
  OBVIOUS
<1>. QED BY <1>1, <1>2 DEF Min

LEMMA DueFirstIsEmpty ==
  ASSUME NEW S \in SUBSET Tasks, NEW age \in Int, DueFirst(S, age)
  PROVE  S \subseteq Due(age) /\ (S = {} => Due(age) = {})
BY DEF DueFirst

LEMMA Scheduling ==
  ASSUME WakeTypeOK, NEW kind, NEW at \in Int, NEW lease \in Int, Schedule(kind, at, lease)
  PROVE  /\ wake' \in WakeStates /\ wake'.at \in Int /\ wake'.at # None
         /\ wake'.at <= at /\ (wake.at = None => wake'.at = at)
         /\ wake.at # None => wake.at \in Int /\ wake'.at <= wake.at /\ wake'.at \in {at, wake.at}
         /\ wake'.lease >= wake.lease /\ wake'.lease >= lease /\ wake'.lease \in {wake.lease, lease}
         /\ kind = "retry" => wake'.polling /\ wake'.polls = 0
         /\ kind # "retry" => wake'.polling = wake.polling /\ wake'.polls = wake.polls
<1>1. /\ wake.lease \in Int /\ wake.polling \in BOOLEAN /\ wake.polls \in Nat
      /\ wake.at # None => wake.at \in Int
  BY DEF WakeTypeOK, WakeStates, Times
<1>2. /\ wake' = [lease |-> wake'.lease, polling |-> wake'.polling, polls |-> wake'.polls,
                  at |-> wake'.at]
      /\ wake'.lease = AtLeast(wake.lease, lease)
      /\ wake'.polling = (kind = "retry" \/ wake.polling)
      /\ wake'.polls = IF kind = "retry" THEN 0 ELSE wake.polls
      /\ wake'.at = IF wake.at = None THEN at ELSE IF wake.at < at THEN wake.at ELSE at
  BY DEF Schedule, ScheduleOutboxWake
<1>3. wake'.lease \in Int /\ wake'.lease >= wake.lease /\ wake'.lease >= lease
      /\ wake'.lease \in {wake.lease, lease}
  BY <1>1, <1>2 DEF AtLeast
<1>4. /\ wake'.at \in Int /\ wake'.at # None /\ wake'.at <= at /\ (wake.at = None => wake'.at = at)
      /\ wake.at # None => wake.at \in Int /\ wake'.at <= wake.at /\ wake'.at \in {at, wake.at}
  BY <1>1, <1>2, WakeConstants
<1>5. /\ kind = "retry" => wake'.polling /\ wake'.polls = 0
      /\ kind # "retry" => wake'.polling = wake.polling /\ wake'.polls = wake.polls
  BY Zenon, <1>1, <1>2
<1>6. wake'.polls \in Nat /\ wake'.polling \in BOOLEAN
  BY <1>1, <1>2
<1>7. wake' \in WakeStates
  BY Zenon, <1>2, <1>3, <1>4, <1>6 DEF WakeStates, Times
<1>. QED BY <1>3, <1>4, <1>5, <1>7

\* The invariant holds initially.
LEMMA WakeInitInv == WakeInit => WakeInv
<1>. SUFFICES ASSUME WakeInit PROVE WakeInv
  OBVIOUS
<1>0. /\ Poll \in Nat \ {0} /\ MaxAge \in Nat /\ MaxReplays \in Nat
  BY WakeConstants
<1>1. WakeTypeOK
  BY <1>0 DEF WakeInit, WakeTypeOK, JobStates, WakeStates, AlarmStates, Times, Clear, Rest, Floor
<1>. QED BY <1>0, <1>1
  DEF WakeInit, WakeInv, ClaimsAreLeased, AlarmIsNear, EmptyIsEmpty, BackoffIsCovered, WorkIsArmed,
      Clear, Rest, Floor
(* What the provers are told of a state: the scalars of the invariant.     *)
LEMMA Scalars ==
  ASSUME WakeInv
  PROVE  /\ wake.lease \in Int /\ wake.polling \in BOOLEAN /\ wake.polls \in Nat
         /\ wake.at # None => wake.at \in Int
         /\ alarm.pc \in {"idle", "claim", "empty", "send"} /\ alarm.age \in 0..MaxAge
         /\ alarm.items \in SUBSET Tasks /\ replays \in 0..MaxReplays /\ sweeps \in Nat
         /\ \A j \in Tasks : job[j] \in JobStates /\ job[j].due \in Int
                              /\ job[j].attempts \in Nat
         /\ Poll \in Nat \ {0} /\ MaxAge \in Nat /\ MaxReplays \in Nat /\ PollLimit \in Nat
         /\ Ceiling \in Nat \ {0} /\ Floor = -(MaxAge + 1)
         /\ Left \in Int /\ Most \in Nat /\ (wake.polls = 0 => Most <= Left)
         /\ \A n \in 1..Ceiling : Delay(n) \in Nat /\ Delay(n) <= Most
<1>1. /\ wake.lease \in Int /\ wake.polling \in BOOLEAN /\ wake.polls \in Nat
      /\ wake.at # None => wake.at \in Int
  BY DEF WakeInv, WakeTypeOK, WakeStates, Times
<1>2. /\ alarm.pc \in {"idle", "claim", "empty", "send"} /\ alarm.age \in 0..MaxAge
      /\ alarm.items \in SUBSET Tasks /\ replays \in 0..MaxReplays /\ sweeps \in Nat
  BY DEF WakeInv, WakeTypeOK, AlarmStates
<1>3. \A j \in Tasks : job[j] \in JobStates /\ job[j].due \in Int /\ job[j].attempts \in Nat
  BY DEF WakeInv, WakeTypeOK, JobStates
<1>4. /\ Poll \in Nat \ {0} /\ MaxAge \in Nat /\ MaxReplays \in Nat /\ PollLimit \in Nat
      /\ Ceiling \in Nat \ {0} /\ Floor = -(MaxAge + 1)
  BY WakeConstants DEF Floor
<1>5. Left \in Int
  BY <1>1, <1>2, <1>4 DEF Left
<1>6. wake.polls = 0 => Left = Most + replays * Poll
  BY <1>1, <1>2, <1>4 DEF Left, Most
<1>7. replays * Poll \in Nat
  BY <1>2, <1>4
<1>8. Most = PollLimit * Poll - MaxReplays * Poll /\ Most \in Int
  BY <1>4 DEF Most
<1>9. \A n \in 1..Ceiling : Delay(n) \in Nat /\ Delay(n) + MaxReplays * Poll <= PollLimit * Poll
  BY WakeConstants
<1>10. MaxReplays * Poll \in Int /\ PollLimit * Poll \in Int
  BY <1>4
<1>11. \A n \in 1..Ceiling : Delay(n) \in Nat /\ Delay(n) <= Most
  BY <1>8, <1>9, <1>10
<1>12. Most \in Nat
  BY <1>4, <1>8, <1>11
<1>13. wake.polls = 0 => Most <= Left
  BY <1>5, <1>6, <1>7, <1>8
<1>. QED BY <1>1, <1>2, <1>3, <1>4, <1>5, <1>11, <1>12, <1>13

\* One lemma per action.
LEMMA WakeCommitKeeps ==
  ASSUME WakeInv, NEW k \in Tasks, WakeCommit(k)
  PROVE  WakeInv'
<1>1. /\ UNCHANGED <<alarm, replays, sweeps>>
      /\ job[k].status = "none" /\ Schedule("new", 1, Floor)
  BY DEF WakeCommit
<1>2. job' \in [Tasks -> JobStates]
  <2>1. [job[k] EXCEPT !.status = "pending", !.due = 0] \in JobStates
    <3>1. job[k] \in JobStates BY Scalars
    <3>2. ASSUME NEW q \in JobStates PROVE [q EXCEPT !.status = "pending", !.due = 0] \in JobStates
      <4>1. [q EXCEPT !.status = "pending"] \in JobStates BY DEF JobStates
      <4>2. ASSUME NEW p \in JobStates PROVE [p EXCEPT !.due = 0] \in JobStates BY DEF JobStates
      <4>3. [q EXCEPT !.status = "pending", !.due = 0]
              = [[q EXCEPT !.status = "pending"] EXCEPT !.due = 0]
        OBVIOUS
      <4>. QED BY ZenonT(60), <4>1, <4>2, <4>3
    <3>. QED BY ZenonT(60), <3>1, <3>2
  <2>. QED BY <2>1 DEF WakeInv, WakeTypeOK, WakeCommit
<1>3. /\ \A j \in Tasks : j # k => job'[j] = job[j]
      /\ job'[k].status = "pending" /\ job'[k].due = 0
  BY DEF WakeInv, WakeTypeOK, JobStates, WakeCommit
<1>4. Floor \in Int BY Scalars
<1>5. /\ wake' \in WakeStates /\ wake'.at \in Int /\ wake'.at # None
      /\ wake'.at <= 1 /\ (wake.at = None => wake'.at = 1)
      /\ wake.at # None => wake.at \in Int /\ wake'.at <= wake.at /\ wake'.at \in {1, wake.at}
      /\ wake'.lease >= wake.lease /\ wake'.lease \in {wake.lease, Floor}
      /\ wake'.polling = wake.polling /\ wake'.polls = wake.polls
  BY <1>1, <1>4, Scheduling DEF WakeInv
<1>6. WakeTypeOK' BY <1>1, <1>2, <1>5 DEF WakeInv, WakeTypeOK
<1>7. ClaimsAreLeased'
  BY <1>1, <1>3, <1>5, Scalars DEF WakeInv, ClaimsAreLeased
<1>8. AlarmIsNear'
  BY <1>1, <1>5, Scalars DEF WakeInv, AlarmIsNear
<1>9. EmptyIsEmpty' BY <1>5 DEF EmptyIsEmpty
<1>10. WorkIsArmed' BY <1>5, Scalars DEF WorkIsArmed
<1>11. BackoffIsCovered'
  <2>0. \A j \in Tasks : job'[j].status = "pending" => job'[j].due <= Most
    BY <1>3, Scalars DEF WakeInv, BackoffIsCovered
  <2>. SUFFICES ASSUME NEW j \in Tasks, job'[j].status = "pending", job'[j].due > 0
                PROVE  wake'.polling /\ PollsCover(j)'
    BY <1>5, <2>0 DEF BackoffIsCovered, Most
  <2>1. j # k /\ job'[j] = job[j] BY <1>3
  <2>2. wake.polling /\ PollsCover(j)
    BY <2>1, Scalars DEF WakeInv, BackoffIsCovered
  <2>3. Left' = Left /\ Left \in Int BY <1>1, <1>5, Scalars DEF Left
  <2>4. job[j].due \in Int BY Scalars
  <2>5. Overdue(alarm.age) => Overdue(alarm.age)'
    BY <1>1, <1>3 DEF Overdue, Unsettled
  <2>6. Overdue(0)' BY <1>3 DEF Overdue, Unsettled
  <2>7. wake.at # None => wake.at <= Poll \/ wake.at <= wake.lease + 1
    BY DEF WakeInv, AlarmIsNear
  <2>8. PollsCover(j)'
    BY <1>1, <1>5, <2>1, <2>2, <2>3, <2>4, <2>5, <2>6, <2>7, Scalars DEF PollsCover
  <2>. QED BY Zenon, <1>5, <2>2, <2>8
<1>. QED BY <1>6, <1>7, <1>8, <1>9, <1>10, <1>11 DEF WakeInv

LEMMA ReplayKeeps ==
  ASSUME WakeInv, Replay
  PROVE  WakeInv'
<1>1. /\ UNCHANGED <<job, alarm, sweeps>> /\ Schedule("new", 1, Floor)
      /\ replays' = replays + 1 /\ replays' \in 0..MaxReplays
  BY Scalars DEF Replay
<1>4. Floor \in Int BY Scalars
<1>5. /\ wake' \in WakeStates /\ wake'.at \in Int /\ wake'.at # None
      /\ wake'.at <= 1 /\ (wake.at = None => wake'.at = 1)
      /\ wake.at # None => wake.at \in Int /\ wake'.at <= wake.at /\ wake'.at \in {1, wake.at}
      /\ wake'.lease >= wake.lease /\ wake'.lease \in {wake.lease, Floor}
      /\ wake'.polling = wake.polling /\ wake'.polls = wake.polls
  BY <1>1, <1>4, Scheduling DEF WakeInv
<1>6. WakeTypeOK' BY <1>1, <1>5 DEF WakeInv, WakeTypeOK
<1>7. ClaimsAreLeased'
  BY <1>1, <1>5, Scalars DEF WakeInv, ClaimsAreLeased
<1>8. AlarmIsNear'
  BY <1>1, <1>5, Scalars DEF WakeInv, AlarmIsNear
<1>9. EmptyIsEmpty' BY <1>5 DEF EmptyIsEmpty
<1>10. WorkIsArmed' BY <1>5, Scalars DEF WorkIsArmed
<1>11. BackoffIsCovered'
  <2>0. \A j \in Tasks : job'[j].status = "pending" => job'[j].due <= Most
    BY <1>1 DEF WakeInv, BackoffIsCovered
  <2>. SUFFICES ASSUME NEW j \in Tasks, job'[j].status = "pending", job'[j].due > 0
                PROVE  wake'.polling /\ PollsCover(j)'
    BY <1>5, <2>0 DEF BackoffIsCovered, Most
  <2>1. job' = job BY <1>1
  <2>2. wake.polling /\ PollsCover(j)
    BY <2>1, Scalars DEF WakeInv, BackoffIsCovered
  <2>3. Left' = Left + Poll /\ Left \in Int BY <1>1, <1>5, Scalars DEF Left
  <2>4. job[j].due \in Int BY Scalars
  <2>7. wake.at # None => wake.at <= Poll \/ wake.at <= wake.lease + 1
    BY DEF WakeInv, AlarmIsNear
  <2>8. PollsCover(j)'
    BY <1>1, <1>5, <2>1, <2>2, <2>3, <2>4, <2>7, Scalars DEF PollsCover
  <2>. QED BY Zenon, <1>5, <2>2, <2>8
<1>. QED BY <1>6, <1>7, <1>8, <1>9, <1>10, <1>11 DEF WakeInv

(* A claim, by a sweep or by the alarm: the lease covers what was due.     *)
LEMMA WakeClaimKeeps ==
  ASSUME WakeInv, NEW S \in SUBSET Tasks, S # {}, NEW age \in 0..alarm.age,
         S \subseteq Due(age), Claim(S, age), ClaimWake(S, age), sweeps' \in Nat,
         UNCHANGED replays,
         \/ UNCHANGED alarm /\ age = 0
         \/ /\ alarm.pc = "claim" /\ age = alarm.age
            /\ alarm' = [alarm EXCEPT !.pc = "send", !.items = S]
  PROVE  WakeInv'
<1>1. PICK at \in Int :
        /\ Schedule("claim", at, Poll - age) /\ at + age > 0
        /\ at <= 1 \/ at = Poll - age + 1
  BY Scalars DEF ClaimWake, AtLeast
<1>2. job' \in [Tasks -> JobStates] /\ \A j \in S : job'[j].attempts \in 1..Ceiling
  <2>. DEFINE n(j) == Min({job[j].attempts + 1, Ceiling})
  <2>1. \A j \in Tasks : n(j) \in 1..Ceiling
    <3>. TAKE j \in Tasks
    <3>1. job[j].attempts + 1 \in Int /\ Ceiling \in Int /\ job[j].attempts + 1 > 0 /\ Ceiling > 0
      BY Scalars
    <3>2. n(j) = IF job[j].attempts + 1 <= Ceiling THEN job[j].attempts + 1 ELSE Ceiling
      BY <3>1, LesserOfTwo
    <3>. QED BY <3>1, <3>2
  <2>. HIDE DEF n
  <2>2. job' = [j \in Tasks |-> IF j \in S
                 THEN [status |-> "claimed", due |-> Poll - age, attempts |-> n(j)] ELSE job[j]]
    BY DEF Claim, n
  <2>3. Poll - age \in Int BY Scalars
  <2>4. \A j \in Tasks :
          [status |-> "claimed", due |-> Poll - age, attempts |-> n(j)] \in JobStates
    BY <2>1, <2>3 DEF JobStates
  <2>. QED BY <2>1, <2>2, <2>4, Scalars
<1>3. /\ \A j \in Tasks \ S : job'[j] = job[j]
      /\ \A j \in S : job'[j].status = "claimed" /\ job'[j].due = Poll - age
  BY DEF Claim
<1>4. Poll - age \in Int /\ age \in Nat /\ age <= alarm.age /\ age <= MaxAge BY Scalars
<1>5. /\ wake' \in WakeStates /\ wake'.at \in Int /\ wake'.at # None
      /\ wake'.at <= at /\ (wake.at = None => wake'.at = at)
      /\ wake.at # None => wake.at \in Int /\ wake'.at <= wake.at /\ wake'.at \in {at, wake.at}
      /\ wake'.lease >= wake.lease /\ wake'.lease >= Poll - age
      /\ wake'.lease \in {wake.lease, Poll - age}
      /\ wake'.polling = wake.polling /\ wake'.polls = wake.polls
  BY <1>1, <1>4, Scheduling DEF WakeInv
<1>6. alarm' \in AlarmStates /\ alarm'.age = alarm.age
      /\ (alarm'.pc = "idle" <=> alarm.pc = "idle")
  BY ZenonT(60), Scalars DEF WakeInv, WakeTypeOK, AlarmStates
<1>7. WakeTypeOK' BY <1>2, <1>5, <1>6 DEF WakeInv, WakeTypeOK
<1>8. ClaimsAreLeased'
  BY <1>2, <1>3, <1>4, <1>5, Scalars DEF WakeInv, ClaimsAreLeased
<1>9. AlarmIsNear'
  BY <1>1, <1>4, <1>5, <1>6, Scalars DEF WakeInv, AlarmIsNear
<1>10. EmptyIsEmpty' BY <1>5 DEF EmptyIsEmpty
<1>11. WorkIsArmed' BY <1>1, <1>4, <1>5, Scalars DEF WorkIsArmed
<1>12. BackoffIsCovered'
  <2>0. \A j \in Tasks : job'[j].status = "pending" => job'[j].due <= Most
    BY <1>3 DEF WakeInv, BackoffIsCovered
  <2>. SUFFICES ASSUME NEW j \in Tasks, job'[j].status = "pending", job'[j].due > 0
                PROVE  wake'.polling /\ PollsCover(j)'
    BY <1>5, <2>0 DEF BackoffIsCovered, Most
  <2>1. job'[j] = job[j] BY <1>3
  <2>2. wake.polling /\ PollsCover(j)
    BY <2>1, Scalars DEF WakeInv, BackoffIsCovered
  <2>3. Left' = Left /\ Left \in Int BY <1>5, Scalars DEF Left
  <2>4. job[j].due \in Int BY Scalars
  <2>5. job[j].due <= Left \/ job[j].due <= Left + wake'.lease + 1
    <3>1. wake.at # None => wake.at <= Poll \/ wake.at <= wake.lease + 1
      BY DEF WakeInv, AlarmIsNear
    <3>2. alarm.pc = "idle" => alarm.age = 0
      BY DEF WakeInv, AlarmIsNear
    <3>3. wake'.lease \in Int /\ wake'.lease >= Poll - alarm.age
      BY <1>4, <1>5, Scalars
    <3>. QED BY <1>5, <2>2, <2>4, <3>1, <3>2, <3>3, Scalars DEF PollsCover
  <2>6. PollsCover(j)' BY <1>5, <2>1, <2>3, <2>5 DEF PollsCover
  <2>. QED BY <1>5, <2>2, <2>6
<1>. QED BY <1>7, <1>8, <1>9, <1>10, <1>11, <1>12 DEF WakeInv
(* A retry, asked for by a consumer, by a sweep or by the handler: the     *)
(* count of polls starts again.                                            *)
LEMMA WakeRetryKeeps ==
  ASSUME WakeInv, UNCHANGED job \/ (\E k \in Tasks : Live(k) /\ Release(k)),
         Schedule("retry", Poll, Floor), UNCHANGED <<replays, sweeps>>,
         alarm' \in AlarmStates,
         (alarm'.pc = "idle" /\ alarm'.age = 0) \/ (alarm'.pc = alarm.pc /\ alarm'.age = alarm.age)
  PROVE  WakeInv'
<1>1. /\ job' \in [Tasks -> JobStates]
      /\ \A j \in Tasks : job'[j] = job[j]
                          \/ (job'[j].status = "pending" /\ job'[j].due <= Most)
  <2>1. ASSUME NEW k \in Tasks, Live(k), Release(k)
        PROVE  /\ job' \in [Tasks -> JobStates]
               /\ \A j \in Tasks \ {k} : job'[j] = job[j]
               /\ job'[k].status = "pending" /\ job'[k].due <= Most
    <3>1. Delay(job[k].attempts) \in Int /\ Delay(job[k].attempts) <= Most
      BY <2>1, Scalars DEF Live, WakeInv, ClaimsAreLeased
    <3>. DEFINE d == Delay(job[k].attempts)
                p == [job[k] EXCEPT !.status = "pending"]
                q == [p EXCEPT !.due = d]
    <3>. HIDE DEF d
    <3>2. job[k] \in JobStates /\ d \in Int BY <3>1, Scalars DEF d
    <3>3. p \in JobStates BY <3>2 DEF JobStates
    <3>4. q \in JobStates /\ q.status = "pending" /\ q.due = d BY Zenon, <3>2, <3>3 DEF JobStates
    <3>5. job' = [job EXCEPT ![k] = q] BY Zenon, <2>1 DEF Release, d
    <3>. QED BY <3>1, <3>4, <3>5 DEF WakeInv, WakeTypeOK, d
  <2>2. ASSUME UNCHANGED job PROVE job' \in [Tasks -> JobStates]
    BY <2>2 DEF WakeInv, WakeTypeOK
  <2>3. CASE UNCHANGED job BY <2>2, <2>3
  <2>4. CASE \E k \in Tasks : Live(k) /\ Release(k)
    <3>1. PICK k \in Tasks : Live(k) /\ Release(k) BY <2>4
    <3>2. /\ job' \in [Tasks -> JobStates]
          /\ \A j \in Tasks \ {k} : job'[j] = job[j]
          /\ job'[k].status = "pending" /\ job'[k].due <= Most
      BY <2>1, <3>1
    <3>. QED BY <3>2
  <2>. QED BY <2>3, <2>4
<1>4. Floor \in Int /\ Poll \in Int BY Scalars
<1>5. /\ wake' \in WakeStates /\ wake'.at \in Int /\ wake'.at # None
      /\ wake'.at <= Poll /\ (wake.at = None => wake'.at = Poll)
      /\ wake.at # None => wake.at \in Int /\ wake'.at <= wake.at /\ wake'.at \in {Poll, wake.at}
      /\ wake'.lease >= wake.lease /\ wake'.lease \in {wake.lease, Floor}
      /\ wake'.polling /\ wake'.polls = 0
  BY <1>4, Scheduling DEF WakeInv
<1>6. WakeTypeOK' BY <1>1, <1>5 DEF WakeInv, WakeTypeOK
<1>7. ClaimsAreLeased'
  BY <1>1, <1>5, Scalars DEF WakeInv, ClaimsAreLeased
<1>8. AlarmIsNear'
  <2>1. alarm.pc = "idle" => alarm.age = 0 BY DEF WakeInv, AlarmIsNear
  <2>2. alarm'.pc = "idle" => alarm'.age = 0 BY <2>1
  <2>3. alarm'.pc # "idle" => alarm'.age = alarm.age /\ alarm.pc # "idle" OBVIOUS
  <2>4. alarm.pc # "idle" /\ wake.at # None => wake.at + alarm.age > 0 BY DEF WakeInv, AlarmIsNear
  <2>5. alarm.pc # "idle" => wake'.at + alarm.age > 0
    BY <1>5, <2>4, Scalars
  <2>. QED BY <1>5, <2>2, <2>3, <2>5 DEF AlarmIsNear
<1>9. EmptyIsEmpty' BY <1>5 DEF EmptyIsEmpty
<1>10. WorkIsArmed' BY <1>5, Scalars DEF WorkIsArmed
<1>11. BackoffIsCovered'
  <2>1. \A j \in Tasks : job'[j].status = "pending" => job'[j].due <= Most
    BY <1>1 DEF WakeInv, BackoffIsCovered
  <2>2. Left' = Most + replays * Poll
    BY <1>5, Scalars DEF Left, Most
  <2>3. replays * Poll \in Nat /\ Most \in Int BY Scalars
  <2>4. \A j \in Tasks : job'[j].due \in Int BY <1>1 DEF JobStates
  <2>5. \A j \in Tasks : job'[j].status = "pending" => job'[j].due <= Left'
    BY <2>1, <2>2, <2>3, <2>4
  <2>. QED BY ZenonT(60), <1>5, <2>1, <2>5 DEF BackoffIsCovered, PollsCover, Most
<1>. QED BY <1>6, <1>7, <1>8, <1>9, <1>10, <1>11 DEF WakeInv

LEMMA WakeAcknowledgeKeeps ==
  ASSUME WakeInv, NEW k \in Tasks, AcknowledgeOutbox(k)
  PROVE  WakeInv'
<1>1. UNCHANGED <<wake, alarm, replays, sweeps>> /\ job[k].status = "claimed" /\ job[k].due > 0
  BY DEF AcknowledgeOutbox, Live
<1>2. /\ job' \in [Tasks -> JobStates] /\ \A j \in Tasks \ {k} : job'[j] = job[j]
      /\ job'[k].status = "completed"
  <2>1. [status |-> "completed", due |-> 0, attempts |-> 0] \in JobStates BY DEF JobStates
  <2>. QED BY <2>1 DEF AcknowledgeOutbox, WakeInv, WakeTypeOK
<1>3. WakeTypeOK' BY <1>1, <1>2 DEF WakeInv, WakeTypeOK
<1>4. \A j \in Tasks : job'[j].status \in {"pending", "claimed"} => job'[j] = job[j]
  BY <1>2
<1>5. ClaimsAreLeased' /\ AlarmIsNear' /\ WorkIsArmed'
  BY ZenonT(60), <1>1, <1>4 DEF WakeInv, ClaimsAreLeased, AlarmIsNear, WorkIsArmed
<1>6. EmptyIsEmpty'
  BY <1>1, <1>4 DEF WakeInv, EmptyIsEmpty, Overdue, Unsettled
<1>7. Overdue(0) => Overdue(0)'
  BY <1>1, <1>2, Scalars DEF Overdue, Unsettled
<1>8. Overdue(alarm.age) => Overdue(alarm.age)'
  <2>1. ASSUME NEW j \in Tasks, job[j].due <= -alarm.age PROVE j # k
    BY <1>1, <2>1, Scalars
  <2>. QED BY ZenonT(60), <1>1, <1>2, <2>1 DEF Overdue, Unsettled
<1>9. BackoffIsCovered'
  <2>1. \A j \in Tasks : job'[j].status = "pending" => job'[j].due <= Most
    BY <1>4 DEF WakeInv, BackoffIsCovered
  <2>2. ASSUME NEW j \in Tasks, job'[j] = job[j], PollsCover(j) PROVE PollsCover(j)'
    <3>1. Left' = Left BY <1>1 DEF Left
    <3>. QED BY ZenonT(60), <1>1, <1>7, <1>8, <2>2, <3>1 DEF PollsCover
  <2>. QED BY ZenonT(60), <1>1, <1>4, <2>1, <2>2 DEF WakeInv, BackoffIsCovered, Most
<1>. QED BY <1>3, <1>5, <1>6, <1>9 DEF WakeInv

LEMMA AlarmKeeps ==
  ASSUME WakeInv, Alarm
  PROVE  WakeInv'
<1>1. /\ UNCHANGED <<job, replays, sweeps>> /\ alarm.pc = "idle" /\ wake.at # None /\ wake.at <= 0
      /\ alarm' = [Rest EXCEPT !.pc = "claim"] /\ wake' = [wake EXCEPT !.at = None]
  BY DEF Alarm
<1>2. /\ alarm' \in AlarmStates /\ alarm'.pc = "claim" /\ alarm'.age = 0 /\ alarm.age = 0
  BY <1>1, Scalars DEF Rest, AlarmStates, WakeInv, AlarmIsNear
<1>3. /\ wake' \in WakeStates /\ wake'.at = None /\ wake'.lease = wake.lease
      /\ wake'.polls = wake.polls /\ wake'.polling = wake.polling
  BY <1>1 DEF WakeInv, WakeTypeOK, WakeStates, Times
<1>4. WakeTypeOK' BY <1>1, <1>2, <1>3 DEF WakeInv, WakeTypeOK
<1>5. ClaimsAreLeased' /\ AlarmIsNear' /\ WorkIsArmed' /\ EmptyIsEmpty'
  BY <1>1, <1>2, <1>3 DEF WakeInv, ClaimsAreLeased, AlarmIsNear, WorkIsArmed, EmptyIsEmpty
<1>6. BackoffIsCovered'
  <2>1. \A j \in Tasks : job'[j].status = "pending" => job'[j].due <= Most
    BY <1>1 DEF WakeInv, BackoffIsCovered
  <2>2. ASSUME NEW j \in Tasks, PollsCover(j) PROVE PollsCover(j)'
    <3>1. Left' = Left /\ Left \in Int BY <1>1, <1>3, Scalars DEF Left
    <3>2. Overdue(0) => Overdue(alarm.age)' BY <1>1, <1>2 DEF Overdue, Unsettled
    <3>3. job'[j].due = job[j].due /\ job[j].due \in Int /\ wake.at \in Int BY <1>1, Scalars
    <3>. QED BY <1>1, <1>2, <1>3, <2>2, <3>1, <3>2, <3>3, Scalars DEF PollsCover
  <2>. QED BY <1>1, <1>2, <1>3, <2>1, <2>2 DEF WakeInv, BackoffIsCovered, Most
<1>. QED BY <1>4, <1>5, <1>6 DEF WakeInv

LEMMA AlarmClaimsKeeps ==
  ASSUME WakeInv, AlarmClaims
  PROVE  WakeInv'
<1>1. PICK S \in SUBSET Tasks :
        /\ DueFirst(S, alarm.age) /\ Claim(S, alarm.age)
        /\ IF S = {} THEN /\ alarm' = [alarm EXCEPT !.pc = "empty"]
                          /\ UNCHANGED wake
                     ELSE /\ alarm' = [alarm EXCEPT !.pc = "send", !.items = S]
                          /\ ClaimWake(S, alarm.age)
  BY Zenon DEF AlarmClaims
<1>2. alarm.pc = "claim" /\ UNCHANGED <<replays, sweeps>> /\ alarm.age \in Int
  BY Scalars DEF AlarmClaims
<1>3. S \subseteq Due(alarm.age) /\ (S = {} => Due(alarm.age) = {})
  BY <1>1, <1>2, DueFirstIsEmpty
<1>4. CASE S # {}
  <2>1. alarm.age \in 0..alarm.age /\ sweeps' \in Nat
    BY <1>2, Scalars
  <2>2. Claim(S, alarm.age) /\ ClaimWake(S, alarm.age)
        /\ alarm' = [alarm EXCEPT !.pc = "send", !.items = S]
    BY <1>1, <1>4
  <2>. QED BY ZenonT(60), <1>2, <1>3, <1>4, <2>1, <2>2, WakeClaimKeeps
<1>5. CASE S = {}
  <2>1. UNCHANGED <<job, wake, replays, sweeps>>
    BY <1>1, <1>2, <1>5 DEF Claim, WakeInv, WakeTypeOK
  <2>2. alarm' \in AlarmStates /\ alarm'.pc = "empty" /\ alarm'.age = alarm.age
    BY <1>1, <1>5 DEF WakeInv, WakeTypeOK, AlarmStates
  <2>3. WakeTypeOK' BY <2>1, <2>2 DEF WakeInv, WakeTypeOK
  <2>4. ~Overdue(alarm.age) BY <1>3, <1>5 DEF Overdue, Unsettled, Due
  <2>5. EmptyIsEmpty' BY <2>1, <2>2, <2>4 DEF EmptyIsEmpty, Overdue, Unsettled
  <2>6. ClaimsAreLeased' /\ AlarmIsNear' /\ WorkIsArmed'
    BY <1>2, <2>1, <2>2 DEF WakeInv, ClaimsAreLeased, AlarmIsNear, WorkIsArmed
  <2>7. BackoffIsCovered'
    <3>1. Left' = Left BY <2>1 DEF Left
    <3>2. \A j \in Tasks : PollsCover(j) => PollsCover(j)'
      BY <1>2, <2>1, <2>2, <2>4, <3>1 DEF PollsCover
    <3>. QED BY Zenon, <1>2, <2>1, <2>2, <3>2 DEF WakeInv, BackoffIsCovered, Most
  <2>. QED BY <2>3, <2>5, <2>6, <2>7 DEF WakeInv
<1>. QED BY <1>4, <1>5

LEMMA SweepKeeps ==
  ASSUME WakeInv, Sweep
  PROVE  WakeInv'
<1>1. PICK S \in SUBSET Tasks : S # {} /\ DueFirst(S, 0) /\ Claim(S, 0) /\ ClaimWake(S, 0)
  <2>1. \E S \in (SUBSET Tasks) \ {{}} : DueFirst(S, 0) /\ Claim(S, 0) /\ ClaimWake(S, 0)
    BY DEF Sweep
  <2>. QED BY <2>1
<1>2. S \subseteq Due(0) BY <1>1, DueFirstIsEmpty
<1>3. UNCHANGED <<alarm, replays>> /\ sweeps' \in Nat /\ 0 \in 0..alarm.age
  BY Scalars DEF Sweep
<1>. QED BY ZenonT(60), <1>1, <1>2, <1>3, WakeClaimKeeps

(* The handler ends, or goes on with the rest of its page.                 *)
LEMMA HandlerKeeps ==
  ASSUME WakeInv, alarm.pc = "send", UNCHANGED <<job, wake, replays, sweeps>>,
         alarm' \in AlarmStates,
         (alarm'.pc = "idle" /\ alarm'.age = 0) \/ (alarm'.pc = "send" /\ alarm'.age = alarm.age)
  PROVE  WakeInv'
<1>1. WakeTypeOK' BY DEF WakeInv, WakeTypeOK
<1>2. wake.at # None /\ wake.at \in Int BY Scalars DEF WakeInv, AlarmIsNear
<1>3. ClaimsAreLeased' /\ AlarmIsNear' /\ EmptyIsEmpty'
  BY <1>2 DEF WakeInv, ClaimsAreLeased, AlarmIsNear, EmptyIsEmpty
<1>4. wake.at <= Poll + 1
  BY <1>2, Scalars DEF WakeInv, AlarmIsNear, ClaimsAreLeased
<1>5. WorkIsArmed' BY <1>2, <1>4 DEF WorkIsArmed
<1>6. BackoffIsCovered'
  <2>1. Left' = Left BY DEF Left
  <2>2. \A j \in Tasks : PollsCover(j) => PollsCover(j)'
    BY <1>2, <2>1 DEF PollsCover
  <2>. QED BY <1>2, <2>2 DEF WakeInv, BackoffIsCovered, Most
<1>. QED BY <1>1, <1>3, <1>5, <1>6 DEF WakeInv

LEMMA RestIsIdle == Rest \in AlarmStates /\ Rest.pc = "idle" /\ Rest.age = 0
BY WakeConstants DEF Rest, AlarmStates

LEMMA AlarmSendsKeeps ==
  ASSUME WakeInv, NEW k \in Tasks, AlarmSends(k)
  PROVE  WakeInv'
<1>1. /\ alarm.pc = "send" /\ UNCHANGED <<replays, sweeps>>
      /\ alarm' = Rest \/ alarm' = [alarm EXCEPT !.items = @ \ {k}]
  BY DEF AlarmSends
<1>2. [alarm EXCEPT !.items = @ \ {k}] \in AlarmStates
      /\ [alarm EXCEPT !.items = @ \ {k}].pc = "send"
      /\ [alarm EXCEPT !.items = @ \ {k}].age = alarm.age
  BY <1>1 DEF WakeInv, WakeTypeOK, AlarmStates
<1>3. /\ alarm' \in AlarmStates
      /\ (alarm'.pc = "idle" /\ alarm'.age = 0) \/ (alarm'.pc = "send" /\ alarm'.age = alarm.age)
  BY ZenonT(60), <1>1, <1>2, RestIsIdle
<1>4. CASE UNCHANGED <<job, wake>>
  BY <1>1, <1>3, <1>4, HandlerKeeps
<1>5. CASE (UNCHANGED job \/ (Live(k) /\ Release(k))) /\ Schedule("retry", Poll, Floor)
  BY <1>1, <1>3, <1>5, WakeRetryKeeps
<1>. QED BY <1>4, <1>5 DEF AlarmSends

LEMMA AlarmEmptyKeeps ==
  ASSUME WakeInv, AlarmEmpty
  PROVE  WakeInv'
<1>1. /\ alarm.pc = "empty" /\ wake' = OutboxWakeAfterEmpty(wake, alarm.age) /\ alarm' = Rest
      /\ UNCHANGED <<job, replays, sweeps>>
  BY DEF AlarmEmpty
<1>2. alarm' \in AlarmStates /\ alarm'.pc = "idle" /\ alarm'.age = 0
  BY <1>1, RestIsIdle
<1>3. EmptyIsEmpty' BY <1>2 DEF EmptyIsEmpty
<1>. DEFINE Stays == wake.at # None
            Lease == wake.at = None /\ wake.lease + alarm.age >= 0
            Polls == /\ wake.at = None /\ wake.lease + alarm.age < 0
                     /\ wake.polling /\ wake.polls < PollLimit
            Clears == /\ wake.at = None /\ wake.lease + alarm.age < 0
                      /\ ~(wake.polling /\ wake.polls < PollLimit)
<1>4. ASSUME NEW j \in Tasks, job[j].status = "pending", wake.at = None
      PROVE  job[j].due > -alarm.age /\ wake.polling /\ PollsCover(j)
  <2>1. ~Overdue(alarm.age) BY <1>1, <1>4 DEF WakeInv, EmptyIsEmpty
  <2>2. job[j].due > -alarm.age BY <1>4, <2>1, Scalars DEF Overdue, Unsettled
  <2>. QED BY <1>4, <2>2 DEF WakeInv, BackoffIsCovered
<1>5. \A j \in Tasks : job'[j].status = "pending" => job'[j].due <= Most
  BY <1>1 DEF WakeInv, BackoffIsCovered
<1>6. CASE Stays
  <2>1. wake' = wake
    BY <1>1, <1>6, Scalars DEF OutboxWakeAfterEmpty, WakeInv, AlarmIsNear
  <2>2. WakeTypeOK' /\ ClaimsAreLeased' /\ AlarmIsNear'
    BY <1>1, <1>2, <2>1 DEF WakeInv, WakeTypeOK, ClaimsAreLeased, AlarmIsNear
  <2>3. WorkIsArmed'
    BY <1>6, <2>1, Scalars DEF WorkIsArmed, WakeInv, AlarmIsNear, ClaimsAreLeased
  <2>4. BackoffIsCovered'
    <3>1. Left' = Left BY <1>1, <2>1 DEF Left
    <3>2. \A j \in Tasks : PollsCover(j) => PollsCover(j)'
      BY ZenonT(60), <1>1, <1>2, <1>6, <2>1, <3>1 DEF PollsCover
    <3>. QED BY Zenon, <1>1, <1>2, <1>5, <1>6, <2>1, <3>2 DEF WakeInv, BackoffIsCovered, Most
  <2>. QED BY <1>3, <2>2, <2>3, <2>4 DEF WakeInv
<1>7. CASE Lease
  <2>1. wake' = [wake EXCEPT !.at = AtLeast(0, wake.lease + 1)]
    BY <1>1, <1>7 DEF OutboxWakeAfterEmpty
  <2>2. AtLeast(0, wake.lease + 1) \in Int /\ AtLeast(0, wake.lease + 1) # None
        /\ AtLeast(0, wake.lease + 1) \in {0, wake.lease + 1}
    BY Scalars, WakeConstants DEF AtLeast
  <2>3. /\ wake' \in WakeStates /\ wake'.at = AtLeast(0, wake.lease + 1)
        /\ wake'.lease = wake.lease /\ wake'.polling = wake.polling /\ wake'.polls = wake.polls
    BY <2>1, <2>2 DEF WakeInv, WakeTypeOK, WakeStates, Times
  <2>4. WakeTypeOK' BY <1>1, <1>2, <2>3 DEF WakeInv, WakeTypeOK
  <2>5. ClaimsAreLeased' BY <1>1, <2>3 DEF WakeInv, ClaimsAreLeased
  <2>6. AlarmIsNear' BY <1>2, <2>2, <2>3, Scalars DEF AlarmIsNear
  <2>7. WorkIsArmed' BY <2>2, <2>3, Scalars DEF WorkIsArmed, WakeInv, ClaimsAreLeased
  <2>8. BackoffIsCovered'
    <3>1. Left' = Left /\ Left \in Int BY <1>1, <2>3, Scalars DEF Left
    <3>2. ASSUME NEW j \in Tasks, PollsCover(j) PROVE PollsCover(j)'
      <4>1. job[j].due <= Left \/ job[j].due <= Left + wake.lease + 1
        BY <1>1, <1>7, <3>1, <3>2, Scalars DEF PollsCover
      <4>. QED BY ZenonT(60), <1>1, <2>2, <2>3, <3>1, <4>1 DEF PollsCover
    <3>. QED BY Zenon, <1>1, <1>4, <1>5, <1>7, <2>2, <2>3, <3>2 DEF BackoffIsCovered, Most
  <2>. QED BY <1>3, <2>4, <2>5, <2>6, <2>7, <2>8 DEF WakeInv
<1>8. CASE Polls
  <2>. DEFINE at == AtLeast(0, Poll - alarm.age)
  <2>1. wake' = [wake EXCEPT !.polls = @ + 1, !.at = at]
    BY <1>1, <1>8, Scalars DEF OutboxWakeAfterEmpty
  <2>2. at \in Int /\ at # None /\ at <= Poll /\ at >= Poll - alarm.age
    BY Scalars, WakeConstants DEF AtLeast
  <2>. HIDE DEF at
  <2>3. /\ wake' \in WakeStates /\ wake'.at = at
        /\ wake'.lease = wake.lease /\ wake'.polling = wake.polling /\ wake'.polls = wake.polls + 1
    <3>. DEFINE n == wake.polls + 1
                w == [wake EXCEPT !.polls = n]
    <3>1. n \in Nat /\ wake \in WakeStates BY Scalars DEF WakeInv, WakeTypeOK
    <3>2. wake' = [w EXCEPT !.at = at] BY <2>1
    <3>. HIDE DEF n
    <3>3. /\ w \in WakeStates /\ w.lease = wake.lease /\ w.polling = wake.polling /\ w.polls = n
      BY <3>1 DEF WakeStates
    <3>. HIDE DEF w
    <3>4. /\ wake' \in WakeStates /\ wake'.at = at
          /\ wake'.lease = w.lease /\ wake'.polling = w.polling /\ wake'.polls = w.polls
      BY <2>2, <3>2, <3>3 DEF WakeStates, Times
    <3>. QED BY <3>3, <3>4 DEF n
  <2>4. WakeTypeOK' BY <1>1, <1>2, <2>3 DEF WakeInv, WakeTypeOK
  <2>5. ClaimsAreLeased' BY <1>1, <2>3 DEF WakeInv, ClaimsAreLeased
  <2>6. AlarmIsNear' BY <1>2, <2>2, <2>3, Scalars DEF AlarmIsNear
  <2>7. WorkIsArmed' BY <2>2, <2>3, Scalars DEF WorkIsArmed
  <2>8. BackoffIsCovered'
    <3>1. Left' = Left - Poll /\ Left \in Int BY <1>1, <2>3, Scalars DEF Left
    <3>2. ASSUME NEW j \in Tasks, PollsCover(j) PROVE PollsCover(j)'
      <4>1. job[j].due + alarm.age <= Left
        BY <1>1, <1>8, <3>1, <3>2, Scalars DEF PollsCover
      <4>2. job[j].due <= Left - Poll + at
        BY <2>2, <3>1, <4>1, Scalars
      <4>. QED BY ZenonT(60), <1>1, <1>2, <2>2, <2>3, <3>1, <4>2 DEF PollsCover
    <3>. QED BY ZenonT(60), <1>1, <1>4, <1>5, <1>8, <2>2, <2>3, <3>2 DEF BackoffIsCovered, Most
  <2>. QED BY <1>3, <2>4, <2>5, <2>6, <2>7, <2>8 DEF WakeInv
<1>9. CASE Clears
  <2>1. wake' = Clear
    BY <1>1, <1>9, Scalars DEF OutboxWakeAfterEmpty
  <2>2. /\ wake' \in WakeStates /\ wake'.at = None /\ wake'.lease = Floor
    BY <2>1, Scalars DEF Clear, WakeStates, Times
  <2>3. \A j \in Tasks : job[j].status \notin {"pending", "claimed"}
    <3>. SUFFICES ASSUME NEW j \in Tasks, job[j].status \in {"pending", "claimed"} PROVE FALSE
      OBVIOUS
    <3>1. CASE job[j].status = "claimed"
      <4>1. ~Overdue(alarm.age) BY ZenonT(60), <1>1, <1>9 DEF WakeInv, EmptyIsEmpty
      <4>2. job[j].due > -alarm.age BY <3>1, <4>1, Scalars DEF Overdue, Unsettled
      <4>3. job[j].due <= wake.lease \/ job[j].due <= -MaxAge
        BY <3>1 DEF WakeInv, ClaimsAreLeased
      <4>. QED BY <1>9, <4>2, <4>3, Scalars
    <3>2. CASE job[j].status = "pending"
      <4>1. job[j].due > -alarm.age /\ wake.polling /\ PollsCover(j)
        BY ZenonT(60), <1>4, <1>9, <3>2
      <4>2. job[j].due + alarm.age <= Left
        BY <1>1, <1>9, <4>1, Scalars DEF PollsCover
      <4>3. Left > 0 BY <4>1, <4>2, Scalars
      <4>4. wake.polls >= PollLimit BY <1>9, <4>1, Scalars
      <4>. DEFINE n == PollLimit - wake.polls - MaxReplays + replays
      <4>5. n \in Int /\ n <= 0 /\ Poll \in Nat
        BY <4>4, Scalars
      <4>6. Left = n * Poll BY DEF Left
      <4>. HIDE DEF n
      <4>7. n * Poll <= 0 BY <4>5
      <4>. QED BY <4>3, <4>6, <4>7, Scalars
    <3>. QED BY <3>1, <3>2
  <2>4. WakeTypeOK' BY <1>1, <1>2, <2>2 DEF WakeInv, WakeTypeOK
  <2>5. ClaimsAreLeased' /\ AlarmIsNear' /\ WorkIsArmed' /\ BackoffIsCovered'
    BY <1>1, <1>2, <2>2, <2>3, Scalars
    DEF ClaimsAreLeased, AlarmIsNear, WorkIsArmed, BackoffIsCovered
  <2>. QED BY <1>3, <2>4, <2>5 DEF WakeInv
<1>. QED BY <1>6, <1>7, <1>8, <1>9, Scalars

LEMMA TickKeeps ==
  ASSUME WakeInv, Tick
  PROVE  WakeInv'
<1>1. /\ alarm.age < MaxAge /\ UNCHANGED <<replays, sweeps>>
      /\ \A j \in Tasks : job'[j] = [job[j] EXCEPT !.due = AtLeast(-MaxAge, job[j].due - 1)]
  BY DEF Tick
<1>2. /\ job' \in [Tasks -> JobStates]
      /\ \A j \in Tasks : /\ job'[j].status = job[j].status /\ job'[j].attempts = job[j].attempts
                           /\ job'[j].due = AtLeast(-MaxAge, job[j].due - 1)
  <2>1. \A j \in Tasks : AtLeast(-MaxAge, job[j].due - 1) \in Int
    BY Scalars DEF AtLeast
  <2>2. ASSUME NEW q \in JobStates, NEW d \in Int
        PROVE  /\ [q EXCEPT !.due = d] \in JobStates /\ [q EXCEPT !.due = d].status = q.status
               /\ [q EXCEPT !.due = d].attempts = q.attempts /\ [q EXCEPT !.due = d].due = d
    <3>1. [q EXCEPT !.due = d] \in JobStates BY DEF JobStates
    <3>2. /\ [q EXCEPT !.due = d].status = q.status /\ [q EXCEPT !.due = d].attempts = q.attempts
          /\ [q EXCEPT !.due = d].due = d
      BY DEF JobStates
    <3>. QED BY <3>1, <3>2
  <2>3. \A j \in Tasks : /\ job'[j] \in JobStates
                         /\ job'[j].status = job[j].status /\ job'[j].attempts = job[j].attempts
                         /\ job'[j].due = AtLeast(-MaxAge, job[j].due - 1)
    <3>. TAKE j \in Tasks
    <3>. DEFINE d == AtLeast(-MaxAge, job[j].due - 1)
    <3>1. d \in Int /\ job[j] \in JobStates /\ job'[j] = [job[j] EXCEPT !.due = d]
      BY <1>1, <2>1, Scalars
    <3>. HIDE DEF d
    <3>2. /\ [job[j] EXCEPT !.due = d] \in JobStates
          /\ [job[j] EXCEPT !.due = d].status = job[j].status
          /\ [job[j] EXCEPT !.due = d].attempts = job[j].attempts
          /\ [job[j] EXCEPT !.due = d].due = d
      BY <2>2, <3>1
    <3>. QED BY <3>1, <3>2 DEF d
  <2>4. job' = [j \in Tasks |-> job'[j]] BY DEF Tick
  <2>. QED BY <2>3, <2>4
<1>3. \A j \in Tasks : /\ job'[j].due \in Int
                       /\ job'[j].due >= job[j].due - 1
                       /\ job'[j].due = job[j].due - 1
                          \/ (job'[j].due = -MaxAge /\ job[j].due <= -MaxAge)
  BY <1>2, Scalars DEF AtLeast
<1>4. /\ wake' \in WakeStates /\ wake'.polling = wake.polling /\ wake'.polls = wake.polls
      /\ wake'.lease = AtLeast(Floor, wake.lease - 1)
      /\ wake'.at = IF wake.at = None THEN None ELSE AtLeast(0, wake.at - 1)
  <2>. DEFINE l == AtLeast(Floor, wake.lease - 1)
              a == IF wake.at = None THEN None ELSE AtLeast(0, wake.at - 1)
  <2>1. l \in Int /\ a \in Times BY Scalars DEF AtLeast, Times
  <2>2. wake' = [wake EXCEPT !.lease = l, !.at = a] BY DEF Tick
  <2>. HIDE DEF l, a
  <2>3. /\ wake' \in WakeStates /\ wake'.polling = wake.polling /\ wake'.polls = wake.polls
        /\ wake'.lease = l /\ wake'.at = a
    BY Zenon, <2>1, <2>2 DEF WakeInv, WakeTypeOK, WakeStates
  <2>. QED BY ZenonT(60), <2>3 DEF l, a
<1>5. /\ wake'.lease \in Int /\ wake'.lease >= wake.lease - 1 /\ wake'.lease >= Floor
      /\ wake'.lease = wake.lease - 1 \/ wake'.lease = Floor
  BY <1>4, Scalars DEF AtLeast
<1>6. /\ (wake'.at = None) <=> (wake.at = None)
      /\ wake.at # None => /\ wake.at \in Int /\ wake'.at \in Int /\ wake'.at >= wake.at - 1
                           /\ wake'.at >= 0 /\ (wake'.at = wake.at - 1 \/ wake'.at = 0)
  BY <1>4, Scalars, WakeConstants DEF AtLeast
<1>7. /\ alarm' \in AlarmStates /\ alarm'.pc = alarm.pc
      /\ alarm'.age = IF alarm.pc = "idle" THEN alarm.age ELSE alarm.age + 1
  <2>1. alarm.age + 1 \in 0..MaxAge BY <1>1, Scalars
  <2>. QED BY <2>1 DEF Tick, WakeInv, WakeTypeOK, AlarmStates
<1>8. WakeTypeOK' BY <1>1, <1>2, <1>4, <1>7 DEF WakeInv, WakeTypeOK
<1>9. ClaimsAreLeased'
  <2>1. wake'.lease <= Poll BY <1>5, Scalars DEF WakeInv, ClaimsAreLeased
  <2>2. ASSUME NEW j \in Tasks, job'[j].status = "claimed"
        PROVE  /\ job'[j].attempts \in 1..Ceiling
               /\ job'[j].due <= wake'.lease \/ job'[j].due <= -MaxAge
    <3>1. /\ job[j].attempts \in 1..Ceiling
          /\ job[j].due <= wake.lease \/ job[j].due <= -MaxAge
      BY ZenonT(60), <1>2, <2>2 DEF WakeInv, ClaimsAreLeased
    <3>. QED BY <1>2, <1>3, <1>5, <3>1, Scalars
  <2>. QED BY <2>1, <2>2 DEF ClaimsAreLeased
<1>10. AlarmIsNear'
  <2>1. /\ alarm.pc = "idle" => alarm.age = 0
        /\ alarm.pc = "send" => wake.at # None
        /\ alarm.pc # "idle" /\ wake.at # None => wake.at + alarm.age > 0
        /\ wake.at # None => wake.at <= Poll \/ wake.at <= wake.lease + 1
    BY DEF WakeInv, AlarmIsNear
  <2>2. alarm.pc # "idle" /\ wake.at # None => wake'.at + alarm'.age > 0
    BY <1>6, <1>7, <2>1, Scalars
  <2>3. wake.at # None => wake'.at <= Poll \/ wake'.at <= wake'.lease + 1
    BY <1>5, <1>6, <2>1, Scalars
  <2>. QED BY <1>6, <1>7, <2>1, <2>2, <2>3 DEF AlarmIsNear
<1>11. EmptyIsEmpty'
  <2>. SUFFICES ASSUME alarm.pc = "empty", wake.at = None, NEW j \in Tasks, Unsettled(j)',
                       job'[j].due <= -alarm'.age
                PROVE  FALSE
    BY ZenonT(60), <1>6, <1>7 DEF EmptyIsEmpty, Overdue
  <2>1. Unsettled(j) BY <1>2 DEF Unsettled
  <2>2. job[j].due > -alarm.age
    BY <2>1, Scalars DEF WakeInv, EmptyIsEmpty, Overdue
  <2>. QED BY <1>3, <1>7, <2>2, Scalars
<1>12. WorkIsArmed'
  <2>1. wake.at # None /\ wake.at <= Poll + 1 => wake'.at # None /\ wake'.at <= Poll + 1
    BY <1>6, Scalars
  <2>. QED BY ZenonT(60), <1>2, <1>7, <2>1 DEF WakeInv, WorkIsArmed
<1>13. BackoffIsCovered'
  <2>1. \A j \in Tasks : job'[j].status = "pending" => job'[j].due <= Most
    BY <1>2, <1>3, Scalars DEF WakeInv, BackoffIsCovered
  <2>2. Left' = Left /\ Left \in Int BY <1>1, <1>4, Scalars DEF Left
  <2>3. Overdue(0) => Overdue(0)'
    BY <1>2, <1>3, Scalars DEF Overdue, Unsettled
  <2>4. alarm.pc = "claim" /\ Overdue(alarm.age) => Overdue(alarm.age)'
    <3>. SUFFICES ASSUME alarm.pc = "claim", NEW j \in Tasks, Unsettled(j), job[j].due <= -alarm.age
                  PROVE  Overdue(alarm.age)'
      BY DEF Overdue
    <3>1. Unsettled(j)' BY <1>2 DEF Unsettled
    <3>2. job'[j].due <= -alarm'.age BY <1>1, <1>3, <1>7, Scalars
    <3>. QED BY <3>1, <3>2 DEF Overdue
  <2>5. ASSUME NEW j \in Tasks, job'[j].status = "pending",
               job'[j].due > (IF wake'.at = None THEN -alarm'.age ELSE 0)
        PROVE  wake'.polling /\ PollsCover(j)'
    <3>1. job'[j].due = job[j].due - 1 /\ job[j].due \in Int
      BY <1>3, <1>6, <1>7, <2>5, Scalars DEF AlarmStates
    <3>2. job[j].status = "pending" /\ job[j].due > (IF wake.at = None THEN -alarm.age ELSE 0)
      BY <1>2, <1>6, <1>7, <2>5, <3>1, Scalars
    <3>3. wake.polling /\ PollsCover(j) BY Zenon, <3>2 DEF WakeInv, BackoffIsCovered
    <3>4. alarm.pc = "idle" => alarm.age = 0 BY DEF WakeInv, AlarmIsNear
    <3>5. PollsCover(j)'
      BY <1>5, <1>6, <1>7, <2>2, <2>3, <2>4, <3>1, <3>3, <3>4, Scalars DEF PollsCover
    <3>. QED BY <1>4, <3>3, <3>5
  <2>. QED BY ZenonT(60), <2>1, <2>5 DEF BackoffIsCovered, Most
<1>. QED BY <1>8, <1>9, <1>10, <1>11, <1>12, <1>13 DEF WakeInv

\* Every step keeps the invariant.
LEMMA WakeStepInv == WakeInv /\ [WakeNext]_wakeVars => WakeInv'
<1>. SUFFICES ASSUME WakeInv, [WakeNext]_wakeVars PROVE WakeInv'
  OBVIOUS
<1>1. CASE UNCHANGED wakeVars
  <2>1. Left' = Left /\ UNCHANGED <<job, wake, alarm, replays, sweeps>> BY <1>1 DEF Left, wakeVars
  <2>. QED BY ZenonT(60), <2>1 DEF WakeInv, WakeTypeOK, ClaimsAreLeased, AlarmIsNear, EmptyIsEmpty, BackoffIsCovered,
     WorkIsArmed, PollsCover, Overdue, Unsettled, Most
<1>2. ASSUME NEW k \in Tasks, RetryOutbox(k) PROVE WakeInv'
  BY <1>2, WakeRetryKeeps DEF RetryOutbox, WakeInv, WakeTypeOK, AlarmIsNear
<1>3. CASE AlarmFails
  BY <1>3, WakeRetryKeeps, RestIsIdle DEF AlarmFails
<1>. QED BY <1>1, <1>2, <1>3, WakeCommitKeeps, WakeAcknowledgeKeeps, ReplayKeeps, SweepKeeps, AlarmKeeps,
            AlarmClaimsKeeps, AlarmEmptyKeeps, AlarmSendsKeeps, TickKeeps
  DEF WakeNext, AlarmStep

(* While work is unsettled the object has an alarm, no later than the end  *)
(* of a lease taken now, or its handler runs.                              *)
THEOREM WorkStaysArmed == WakeSpec => []WorkIsArmed
<1>1. WakeSpec => []WakeInv
  BY WakeInitInv, WakeStepInv, PTL DEF WakeSpec
<1>2. WakeInv => WorkIsArmed
  BY DEF WakeInv
<1>. QED BY <1>1, <1>2, PTL

-----------------------------------------------------------------------------
(***************************************************************************)
(* The in-memory reference plane.                                          *)
(*                                                                         *)
(* For any commands, any number of calls and any number of preparations: a *)
(* publication replaces the whole State object and takes nothing away, and *)
(* the plane implements BranchLog.                                         *)
(*                                                                         *)
(* What replaying the mutations gives is a recursion over them; Sound says *)
(* that some function replays them and ends in the stored records, and     *)
(* OneReplay that there is only one.                                       *)
(***************************************************************************)

(* Replaying the memory. *)
IsReplay(f, m) == f = [n \in 0..Len(m) |-> IF n = 0 THEN {} ELSE Applied(f[n - 1], m[n].cmd)]

\* The stored records are the replay of the stored mutations.
Sound(s) == \E f : IsReplay(f, s.memory) /\ f[Len(s.memory)] = s.records

\* There is only one replay, so ReplayOf names it.
LEMMA OneReplay ==
  ASSUME NEW m, Len(m) \in Nat, NEW f, NEW g, IsReplay(f, m), IsReplay(g, m)
  PROVE  f[Len(m)] = g[Len(m)]
<1> DEFINE Bad == {n \in 0..Len(m) : f[n] # g[n]}
<1>1. SUFFICES ASSUME Bad # {} PROVE FALSE
  OBVIOUS
<1>2. PICK k \in Bad : \A n \in 0..(k - 1) : n \notin Bad
  <2>1. Bad \subseteq Nat
    OBVIOUS
  <2>2. IsWellFoundedOn(OpToRel(<, Nat), Nat)
    BY Zenon, NatLessThanWellFounded
  <2>3. PICK k \in Bad : \A n \in Bad : ~(<<n, k>> \in OpToRel(<, Nat))
    <3> HIDE DEF Bad
    <3> QED  BY Zenon, <1>1, <2>1, <2>2, WFMin
  <2>4. \A n \in 0..(k - 1) : n \in Nat /\ n < k
    BY <2>1
  <2> QED  BY Zenon, <2>1, <2>3, <2>4 DEF OpToRel
<1>3. k \in 0..Len(m) /\ f[k] # g[k]
  OBVIOUS
<1>4. f[k] = IF k = 0 THEN {} ELSE Applied(f[k - 1], m[k].cmd)
  BY Zenon, <1>3 DEF IsReplay
<1>5. g[k] = IF k = 0 THEN {} ELSE Applied(g[k - 1], m[k].cmd)
  BY Zenon, <1>3 DEF IsReplay
<1>6. CASE k = 0
  BY <1>3, <1>4, <1>5, <1>6
<1>7. CASE k # 0
  <2>1. k - 1 \in 0..(k - 1) /\ k - 1 \in 0..Len(m)
    BY <1>3, <1>7
  <2>2. f[k - 1] = g[k - 1]
    BY <1>2, <2>1
  <2> QED  BY <1>3, <1>4, <1>5, <1>7, <2>2
<1> QED  BY <1>6, <1>7

LEMMA SoundReplays ==
  ASSUME NEW s, Len(s.memory) \in Nat, Sound(s)
  PROVE  ReplayOf(s.memory) = s.records
<1>1. PICK f : IsReplay(f, s.memory) /\ f[Len(s.memory)] = s.records
  BY DEF Sound
<1> DEFINE g == CHOOSE h : IsReplay(h, s.memory)
<1>2. IsReplay(g, s.memory)
  BY <1>1
<1>3. ReplayOf(s.memory) = g[Len(s.memory)]
  BY DEF ReplayOf, IsReplay
<1> HIDE DEF g
<1> QED  BY <1>1, <1>2, <1>3, OneReplay

\* A mutation that is stored with its effect keeps the replay.
LEMMA SoundGrows ==
  ASSUME NEW s, NEW t, NEW e, s.memory \in Seq(Mutations), e \in Mutations, Sound(s),
         t.memory = Append(s.memory, e), t.records = Applied(s.records, e.cmd)
  PROVE  Sound(t)
<1>1. PICK f : IsReplay(f, s.memory) /\ f[Len(s.memory)] = s.records
  BY DEF Sound
<1> DEFINE n == Len(s.memory)
           g == [k \in 0..(n + 1) |-> IF k = n + 1 THEN t.records ELSE f[k]]
<1>2. n \in Nat /\ Len(t.memory) = n + 1 /\ t.memory[n + 1] = e
  OBVIOUS
<1>3. \A k \in 1..n : t.memory[k] = s.memory[k]
  OBVIOUS
<1>4. \A k \in 0..n : f[k] = IF k = 0 THEN {} ELSE Applied(f[k - 1], s.memory[k].cmd)
  BY Zenon, <1>1, <1>2 DEF IsReplay
<1>5. f[n] = s.records
  BY <1>1
<1> HIDE DEF n
<1>6. \A k \in 0..(n + 1) : g[k] = IF k = 0 THEN {} ELSE Applied(g[k - 1], t.memory[k].cmd)
  <2> TAKE k \in 0..(n + 1)
  <2>1. CASE k = 0
    BY <1>2, <1>4, <2>1
  <2>2. CASE k \in 1..n
    <3>1. g[k] = f[k] /\ g[k - 1] = f[k - 1]
      BY <1>2, <2>2
    <3> HIDE DEF g
    <3> QED  BY <1>2, <1>3, <1>4, <2>2, <3>1
  <2>3. CASE k = n + 1
    <3>1. g[k] = t.records /\ g[k - 1] = f[n]
      BY <1>2, <2>3
    <3> HIDE DEF g
    <3> QED  BY <1>2, <1>5, <2>3, <3>1
  <2> QED  BY <1>2, <2>1, <2>2, <2>3
<1>7. g[Len(t.memory)] = t.records
  BY <1>2
<1>8. g = [k \in 0..(n + 1) |-> g[k]]
  OBVIOUS
<1> HIDE DEF g
<1>9. IsReplay(g, t.memory)
  BY Zenon, <1>2, <1>6, <1>8 DEF IsReplay
<1> QED  BY <1>7, <1>9 DEF Sound

-----------------------------------------------------------------------------
(* State objects and what replaces them. *)
LogRows == [id : Ids, body : Bodies, snapshot : Nat]

\* Parts of a State object that agree with each other.
SnapshotOfLog(s) == s.snapshot = IF s.log = <<>> THEN 0 ELSE s.log[Len(s.log)].snapshot

MemoryInOrder(s) ==
  \A i \in DOMAIN s.memory :
    /\ s.memory[i].snapshot \in 0..s.snapshot
    /\ i > 1 => s.memory[i - 1].snapshot <= s.memory[i].snapshot

StateOK(s) == s \in States /\ SnapshotOfLog(s) /\ MemoryInOrder(s) /\ Sound(s)

Longer(a, b) == Len(a) <= Len(b) /\ \A i \in 1..Len(a) : b[i] = a[i]

\* No stored mutation or fact goes away.
Grows(s, t) ==
  s # None => t # None /\ Longer(s.memory, t.memory) /\ Longer(s.facts, t.facts)

\* What the refinement shows of a State object.
LogOf(s) == IF s = None THEN <<>>
            ELSE [i \in DOMAIN s.log |-> [id |-> s.log[i].id, snapshot |-> s.log[i].snapshot]]

\* The fields of a State object.
LEMMA StateFields ==
  ASSUME NEW s \in States
  PROVE  /\ s # None
         /\ s.log \in Seq(LogRows) /\ s.snapshot \in Nat /\ s.content \in Contents
         /\ s.records \subseteq Records /\ s.memory \in Seq(Mutations) /\ s.facts \in Seq(Facts)
         /\ Len(s.log) \in Nat /\ Len(s.memory) \in Nat /\ Len(s.facts) \in Nat
         /\ DOMAIN s.log = 1..Len(s.log) /\ DOMAIN s.memory = 1..Len(s.memory)
         /\ DOMAIN s.facts = 1..Len(s.facts)
<1>1. s # None
  BY MemoryConstants
<1>2. /\ s.log \in Seq(LogRows) /\ s.snapshot \in Nat /\ s.content \in Contents
      /\ s.records \subseteq Records /\ s.memory \in Seq(Mutations) /\ s.facts \in Seq(Facts)
  BY DEF States, LogRows
<1> QED  BY <1>1, <1>2

LEMMA Joined ==
  ASSUME NEW S, NEW a \in Seq(S), NEW b \in Seq(S)
  PROVE  a \o b \in Seq(S) /\ Len(a \o b) = Len(a) + Len(b)
OBVIOUS

LEMMA GrowsReflexive ==
  ASSUME NEW s, s = None \/ StateOK(s)
  PROVE  Grows(s, s)
BY StateFields DEF Grows, Longer, StateOK

\* The code's own check (ValidMemory) never fails.
LEMMA ValidIsOK ==
  ASSUME NEW s, StateOK(s)
  PROVE  ValidMemory(s)
BY SoundReplays, StateFields DEF StateOK, ValidMemory, MemoryInOrder

\* A branch that was just initialized.
LEMMA EmptyIsOK ==
  ASSUME NEW content \in Contents
  PROVE  StateOK(Empty(content)) /\ LogOf(Empty(content)) = <<>>
<1> DEFINE s == Empty(content)
<1>1. s \in States
  BY DEF Empty, States
<1>2. s.log = <<>> /\ s.snapshot = 0 /\ s.memory = <<>> /\ s.records = {}
  BY DEF Empty
<1>3. s # None
  BY <1>1, StateFields
<1> HIDE DEF s
<1>4. SnapshotOfLog(s) /\ MemoryInOrder(s)
  BY <1>2 DEF SnapshotOfLog, MemoryInOrder
<1>5. Sound(s)
  <2> DEFINE f == [n \in 0..0 |-> {}]
  <2>1. f = [n \in 0..0 |-> IF n = 0 THEN {} ELSE Applied(f[n - 1], s.memory[n].cmd)]
    OBVIOUS
  <2>2. Len(s.memory) = 0 /\ f[0] = {}
    BY <1>2
  <2> HIDE DEF f
  <2>3. IsReplay(f, s.memory)
    BY <2>1, <2>2 DEF IsReplay
  <2> QED  BY <1>2, <2>2, <2>3 DEF Sound
<1>6. LogOf(s) = <<>>
  BY <1>2, <1>3 DEF LogOf
<1> QED  BY <1>1, <1>4, <1>5, <1>6 DEF StateOK, s

\* Publishing fresh events over the snapshot they were prepared for keeps all
\* that is stored and extends the log by the whole publication.
LEMMA Publication ==
  ASSUME NEW s, StateOK(s), NEW seen, seen.snapshot = s.snapshot, NEW es \in Seq(Events), es # <<>>,
         \A i \in DOMAIN es : /\ Receipt(s, es[i].id) = {}
                              /\ \A j \in 1..(i - 1) : es[j].id # es[i].id
  PROVE  LET t == NextState(seen, s, es) IN
         StateOK(t) /\ Grows(s, t) /\ Log!Extends(LogOf(s), LogOf(t))
<1> DEFINE n == s.snapshot + 1
           rows == [i \in DOMAIN es |-> [id |-> es[i].id, body |-> es[i].body, snapshot |-> n]]
           u == [s EXCEPT !.snapshot = n]
           t == NextState(seen, s, es)
           k == Len(s.log)
           l == Len(es)
<1>1. s \in States
  BY DEF StateOK
<1>2. n \in Nat /\ k \in Nat /\ l \in Nat /\ l > 0 /\ DOMAIN es = 1..l
  BY <1>1, StateFields
<1>3. rows \in Seq(LogRows) /\ Len(rows) = l
  <2>1. \A i \in 1..l : es[i] \in Events
    BY <1>2
  <2>2. \A i \in 1..l : [id |-> es[i].id, body |-> es[i].body, snapshot |-> n] \in LogRows
    BY <1>2, <2>1 DEF LogRows, Ids, Bodies
  <2> HIDE DEF n
  <2> QED  BY <1>2, <2>2
<1>4. \A i \in 1..l : rows[i].id = es[i].id /\ rows[i].snapshot = n
  BY <1>2
<1>5. t = [u EXCEPT !.log = s.log \o rows]
  BY <1>1 DEF NextState, States
<1>6. u \in States /\ u.log = s.log /\ u.snapshot = n
  BY Zenon, <1>1, <1>2 DEF States
<1>7. /\ u.memory = s.memory /\ u.facts = s.facts /\ u.records = s.records
  BY <1>1 DEF States
<1> HIDE DEF n, u, rows
<1>8. s.log \o rows \in Seq(LogRows) /\ Len(s.log \o rows) = k + l
  <2>1. s.log \in Seq(LogRows)
    BY <1>1, StateFields
  <2>2. s.log \o rows \in Seq(LogRows) /\ Len(s.log \o rows) = Len(s.log) + Len(rows)
    BY Zenon, <1>3, <2>1, Joined
  <2> QED  BY <1>3, <2>2
<1>9. /\ \A i \in 1..k : (s.log \o rows)[i] = s.log[i]
      /\ \A i \in (k + 1)..(k + l) : i - k \in 1..l /\ (s.log \o rows)[i] = rows[i - k]
  BY <1>1, <1>2, <1>3, StateFields
<1> DEFINE m == s.log \o rows
<1> HIDE DEF m
<1>10. m \in Seq(LogRows) /\ Len(m) = k + l
  BY <1>8 DEF m
<1>11. t \in States /\ t.log = m /\ t.snapshot = n /\ t.memory = s.memory /\ t.facts = s.facts
       /\ t.records = s.records
  BY Zenon, <1>5, <1>6, <1>7, <1>10 DEF States, LogRows, m
<1> HIDE DEF t
<1>12. SnapshotOfLog(t)
  <2>1. k + l \in (k + 1)..(k + l) /\ l \in 1..l /\ (k + l) - k = l
    BY <1>2
  <2>2. m[k + l] = rows[l]
    BY Zenon, <1>9, <2>1 DEF m
  <2> HIDE DEF k, l
  <2>3. m # <<>>
    BY <1>2, <1>10
  <2> QED  BY <1>4, <1>10, <1>11, <2>1, <2>2, <2>3 DEF SnapshotOfLog
<1>13. MemoryInOrder(t)
  <2>1. MemoryInOrder(s) /\ s.snapshot \in Nat /\ s.snapshot <= n
    BY <1>1, StateFields DEF StateOK, n
  <2> QED  BY <1>2, <1>11, <2>1 DEF MemoryInOrder
<1>14. Sound(t)
  BY <1>11 DEF Sound, StateOK
<1>15. Grows(s, t)
  BY <1>1, <1>11, StateFields DEF Grows, Longer
<1>16. Log!Extends(LogOf(s), LogOf(t))
  <2> DEFINE L == LogOf(s)
             M == LogOf(t)
  <2>1. DOMAIN s.log = 1..k /\ DOMAIN m = 1..(k + l)
    BY <1>1, <1>2, <1>10, StateFields
  <2>2. L = [i \in 1..k |-> [id |-> s.log[i].id, snapshot |-> s.log[i].snapshot]]
    BY <1>1, <2>1, StateFields DEF LogOf
  <2>3. M = [i \in 1..(k + l) |-> [id |-> m[i].id, snapshot |-> m[i].snapshot]]
    BY Zenon, <1>11, <2>1, StateFields DEF LogOf
  <2> HIDE DEF L, M
  <2>4. /\ Len(L) = k /\ Len(M) = k + l
        /\ \A i \in 1..k : L[i].id = s.log[i].id /\ L[i].snapshot = s.log[i].snapshot
        /\ \A i \in 1..(k + l) : M[i].id = m[i].id /\ M[i].snapshot = m[i].snapshot
    <3> HIDE DEF k, l
    <3> QED  BY <1>2, <2>2, <2>3
  <2>5. \A i \in 1..k : M[i] = L[i]
    BY <1>2, <1>9, <2>2, <2>3 DEF m
  <2>6. Len(M) > Len(L)
    BY <1>2, <2>4
  <2>7. SubSeq(M, 1, Len(L)) = L
    <3> DEFINE S == [id : {m[i].id : i \in 1..(k + l)}, snapshot : {m[i].snapshot : i \in 1..(k + l)}]
    <3>1. M \in [1..(k + l) -> S]
      BY <2>3
    <3> HIDE DEF S, k, l
    <3>2. M \in Seq(S)
      BY <1>2, <3>1
    <3>3. L = [i \in 1..k |-> L[i]]
      BY <2>2
    <3>4. SubSeq(M, 1, k) = [i \in 1..k |-> M[i]]
      BY <1>2, <2>4, <3>2
    <3> QED  BY <2>4, <2>5, <3>3, <3>4
  <2>8. \A i \in (k + 1)..(k + l) : /\ i - k \in 1..l
                                    /\ M[i].snapshot = n /\ M[i].id = es[i - k].id
    <3> TAKE i \in (k + 1)..(k + l)
    <3>1. i - k \in 1..l /\ m[i] = rows[i - k]
      BY Zenon, <1>9 DEF m
    <3>2. i \in 1..(k + l)
      BY <1>2
    <3> HIDE DEF k, l
    <3> QED  BY <1>4, <2>4, <3>1, <3>2
  <2>9. n = IF L = <<>> THEN 1 ELSE L[Len(L)].snapshot + 1
    <3>1. SnapshotOfLog(s)
      BY DEF StateOK
    <3>2. (L = <<>>) <=> (k = 0)
      BY <1>2, <2>2, <2>4
    <3>3. (s.log = <<>>) <=> (k = 0)
      BY <1>1, StateFields
    <3>4. CASE k = 0
      BY <3>1, <3>2, <3>3, <3>4 DEF SnapshotOfLog, n
    <3>5. CASE k # 0
      <4>1. k \in 1..k
        BY <1>2, <3>5
      <4>2. L[k].snapshot = s.log[k].snapshot
        BY <2>4, <4>1
      <4> QED  BY <2>4, <3>1, <3>2, <3>3, <3>5, <4>2 DEF SnapshotOfLog, n
    <3> QED  BY <3>4, <3>5
  <2>10. \A i \in (k + 1)..(k + l) : \A j \in 1..(i - 1) : M[j].id # M[i].id
    <3> TAKE i \in (k + 1)..(k + l)
    <3> TAKE j \in 1..(i - 1)
    <3>1. i - k \in 1..l /\ M[i].id = es[i - k].id
      BY <2>8
    <3>2. CASE j <= k
      <4>1. j \in 1..k
        BY <1>2, <3>2
      <4>2. M[j].id = s.log[j].id
        BY <2>4, <2>5, <4>1
      <4>3. j \notin Receipt(s, es[i - k].id)
        BY Zenon, <1>2, <3>1
      <4>4. j \in DOMAIN s.log
        BY <2>1, <4>1
      <4> QED  BY <3>1, <4>2, <4>3, <4>4 DEF Receipt
    <3>3. CASE j > k
      <4>1. j \in (k + 1)..(k + l) /\ j - k \in 1..((i - k) - 1)
        BY <1>2, <3>3
      <4>2. M[j].id = es[j - k].id
        BY <2>8, <4>1
      <4> QED  BY Zenon, <1>2, <3>1, <4>1, <4>2
    <3> QED  BY <1>2, <3>2, <3>3
  <2> HIDE DEF k, l
  <2> QED  BY <2>4, <2>6, <2>7, <2>8, <2>9, <2>10 DEF Log!Extends, L, M
<1> QED  BY <1>11, <1>12, <1>13, <1>14, <1>15, <1>16 DEF StateOK, t

-----------------------------------------------------------------------------
(* The inductive invariant. *)
Shaped(q) == q = [step |-> q.step, cmd |-> q.cmd, seen |-> q.seen, attempt |-> q.attempt,
                  answer |-> q.answer]

\* What a call carries from its preparation to its publication.
Prepared(q, s) ==
  /\ q.step # "idle" => q.cmd \in Commands
  /\ (q.step = "prepared" /\ q.cmd.op \in {"append", "batch"}) => s # None
  /\ (q.step = "prepared" /\ q.cmd.op = "append") => q.seen.snapshot = q.cmd.expected

\* What a call was told is stored is where it was told.
KeptIn(kept, s) ==
  kept # None =>
    /\ s # None
    /\ \/ kept.in = "memory" /\ kept.at \in 1..Len(s.memory) /\ s.memory[kept.at] = kept.entry
       \/ kept.in = "facts" /\ kept.at \in 1..Len(s.facts) /\ s.facts[kept.at] = kept.entry

CallOK(q, s) == Shaped(q) /\ Prepared(q, s) /\ KeptIn(q.answer.kept, s)

AuthorityOK(a, s) ==
  /\ a = [state |-> a.state, identity |-> a.identity, content |-> a.content]
  /\ a.state = "active" <=> s # None

\* The inductive invariant.
MemInv ==
  /\ call = [c \in Calls |-> call[c]]
  /\ \A c \in Calls : CallOK(call[c], state)
  /\ AuthorityOK(authority, state)
  /\ state = None \/ StateOK(state)

TrueAcks(q, s) == \A a \in q.answer.acks : Log!Truthful(a, LogOf(s))

\* What a step may do to the log and to the acknowledgements of the call c.
LogStep(c) ==
  \/ LogOf(state') = LogOf(state) /\ call'[c].answer.acks = call[c].answer.acks
  \/ /\ TrueAcks(call'[c], state')
     /\ LogOf(state') = LogOf(state) \/ Log!Extends(LogOf(state), LogOf(state'))

\* What every step of a call does.
Step(c) ==
  /\ call' = [call EXCEPT ![c] = call'[c]]
  /\ CallOK(call'[c], state')
  /\ AuthorityOK(authority', state')
  /\ state' = None \/ StateOK(state')
  /\ Grows(state, state')
  /\ LogStep(c)

\* A call that answers.
LEMMA Told ==
  ASSUME MemInv, NEW c \in Calls, NEW a, Tell(c, a)
  PROVE  /\ call' = [call EXCEPT ![c] = call'[c]]
         /\ Shaped(call'[c]) /\ call'[c].step = "idle" /\ call'[c].answer = a
<1> DEFINE q == [Unasked EXCEPT !.answer = a]
<1>1. call' = [call EXCEPT ![c] = q]
  BY DEF Tell
<1>2. Shaped(q) /\ q.step = "idle" /\ q.answer = a
  BY DEF Unasked, Shaped
<1>3. call'[c] = q
  BY <1>1 DEF MemInv
<1> QED  BY Zenon, <1>1, <1>2, <1>3

LEMMA Unchanged ==
  ASSUME MemInv, authority' = authority, state' = state
  PROVE  /\ AuthorityOK(authority', state') /\ Grows(state, state')
         /\ state' = None \/ StateOK(state')
         /\ LogOf(state') = LogOf(state)
BY GrowsReflexive DEF MemInv

LEMMA Answered ==
  ASSUME MemInv, NEW c \in Calls, NEW a, Tell(c, a), a.kept = None,
         \A k \in a.acks : Log!Truthful(k, LogOf(state)),
         UNCHANGED <<authority, state, registered>>
  PROVE  Step(c)
<1>1. authority' = authority /\ state' = state
  OBVIOUS
<1>2. CallOK(call'[c], state')
  BY Told DEF CallOK, Prepared, KeptIn
<1>3. LogStep(c)
  BY <1>1, Told, Unchanged DEF LogStep, TrueAcks
<1> QED  BY <1>1, <1>2, <1>3, Told, Unchanged DEF Step

LEMMA Refused ==
  ASSUME MemInv, NEW c \in Calls, NEW code, Refuse(c, code)
  PROVE  Step(c)
<1>1. Code(code).kept = None /\ Code(code).acks = {}
  BY DEF Code, NoAnswer
<1> QED  BY <1>1, Answered DEF Refuse

\* A step that only notes how far a call has come.
LEMMA Proceeds ==
  ASSUME MemInv, NEW c \in Calls, NEW q, call' = [call EXCEPT ![c] = q], Shaped(q),
         Prepared(q, state), q.answer = call[c].answer \/ q.answer = NoAnswer,
         UNCHANGED <<authority, state, registered>>
  PROVE  Step(c)
<1>1. authority' = authority /\ state' = state
  OBVIOUS
<1>2. call'[c] = q
  BY DEF MemInv
<1>3. CallOK(q, state')
  BY <1>1 DEF CallOK, MemInv, KeptIn, NoAnswer
<1>4. LogStep(c)
  <2>1. LogOf(state') = LogOf(state)
    BY <1>1, Unchanged
  <2>2. CASE q.answer = call[c].answer
    BY <1>2, <2>1, <2>2 DEF LogStep
  <2>3. CASE q.answer = NoAnswer
    <3>1. q.answer.acks = {}
      BY <2>3 DEF NoAnswer
    <3> QED  BY <1>2, <2>1, <3>1 DEF LogStep, TrueAcks
  <2> QED  BY <2>2, <2>3
<1> QED  BY Zenon, <1>1, <1>2, <1>3, <1>4, Unchanged DEF Step

\* One lemma per action.
LEMMA ReceiveSteps ==
  ASSUME MemInv, NEW c \in Calls, NEW cmd \in Commands, Receive(c, cmd)
  PROVE  Step(c)
<1> DEFINE r == [Unasked EXCEPT !.step = "received"]
           q == [r EXCEPT !.cmd = cmd]
<1>1. call' = [call EXCEPT ![c] = q] /\ UNCHANGED <<authority, state, registered>>
  BY DEF Receive
<1>2. q = [step |-> "received", cmd |-> cmd, seen |-> None, attempt |-> 0, answer |-> NoAnswer]
  <2>1. r = [step |-> "received", cmd |-> None, seen |-> None, attempt |-> 0, answer |-> NoAnswer]
    BY DEF Unasked
  <2> HIDE DEF r
  <2> QED  BY <2>1
<1>3. Shaped(q) /\ Prepared(q, state) /\ q.answer = NoAnswer
  BY Zenon, <1>2 DEF Shaped, Prepared
<1> HIDE DEF q
<1> QED  BY Zenon, <1>1, <1>3, Proceeds

LEMMA ReserveSteps ==
  ASSUME MemInv, NEW c \in Calls, Reserve(c)
  PROVE  Step(c)
<1>1. CASE \E code : Refuse(c, code)
  BY <1>1, Refused
<1>2. CASE /\ authority.state = "none"
           /\ authority' = [authority EXCEPT !.state = "pending", !.identity = Cmd(c).identity]
           /\ Tell(c, Code("reserved"))
           /\ UNCHANGED <<state, registered>>
  <2>1. AuthorityOK(authority', state')
    BY Zenon, <1>2 DEF MemInv, AuthorityOK
  <2>2. Grows(state, state') /\ (state' = None \/ StateOK(state')) /\ LogOf(state') = LogOf(state)
    BY <1>2, GrowsReflexive DEF MemInv
  <2>3. Code("reserved").kept = None /\ Code("reserved").acks = {}
    BY DEF Code, NoAnswer
  <2>4. CallOK(call'[c], state') /\ LogStep(c)
    BY <1>2, <2>2, <2>3, Told DEF CallOK, Prepared, KeptIn, LogStep, TrueAcks
  <2> QED  BY <1>2, <2>1, <2>2, <2>4, Told DEF Step
<1> QED  BY <1>1, <1>2 DEF Reserve

LEMMA InitializePreparesSteps ==
  ASSUME MemInv, NEW c \in Calls, InitializePrepares(c)
  PROVE  Step(c)
<1>1. CASE \E code : Refuse(c, code)
  BY <1>1, Refused
<1>2. CASE call' = [call EXCEPT ![c].step = "prepared"] /\ UNCHANGED <<authority, state, registered>>
  <2> DEFINE q == [call[c] EXCEPT !.step = "prepared"]
  <2>1. call' = [call EXCEPT ![c] = q]
    BY <1>2
  <2>2. Shaped(call[c]) /\ Prepared(call[c], state)
    BY DEF MemInv, CallOK
  <2>3. Shaped(q) /\ q.cmd = call[c].cmd /\ q.answer = call[c].answer
    BY <2>2 DEF Shaped
  <2>4. q.cmd \in Commands /\ q.cmd.op = "initialize"
    BY <2>2, <2>3 DEF InitializePrepares, At, Cmd, Prepared
  <2> HIDE DEF q
  <2>5. Prepared(q, state)
    BY <2>4 DEF Prepared
  <2> QED  BY Zenon, <1>2, <2>1, <2>3, <2>5, Proceeds
<1> QED  BY <1>1, <1>2 DEF InitializePrepares

LEMMA InitializePublishesSteps ==
  ASSUME MemInv, NEW c \in Calls, InitializePublishes(c)
  PROVE  Step(c)
<1>1. CASE \E code : Refuse(c, code)
  BY <1>1, Refused
<1>2. CASE /\ authority.state = "pending"
           /\ state' = Empty(Cmd(c).content)
           /\ authority' = [authority EXCEPT !.state = "active", !.content = Cmd(c).content]
           /\ Tell(c, Code("created"))
  <2>1. Cmd(c).content \in Contents
    <3>1. Prepared(call[c], state) /\ Cmd(c).op = "initialize" /\ call[c].step = "prepared"
      BY DEF MemInv, CallOK, InitializePublishes, At
    <3> QED  BY <3>1 DEF Prepared, Cmd, Contents, OfOp
  <2>2. StateOK(state') /\ LogOf(state') = <<>> /\ state' # None
    BY <1>2, <2>1, EmptyIsOK, StateFields DEF StateOK
  <2>3. AuthorityOK(authority', state')
    BY Zenon, <1>2, <2>2 DEF MemInv, AuthorityOK
  <2>4. state = None /\ LogOf(state) = <<>>
    BY <1>2 DEF MemInv, AuthorityOK, LogOf
  <2>5. Grows(state, state')
    BY <2>4 DEF Grows
  <2>6. Code("created").kept = None /\ Code("created").acks = {}
    BY DEF Code, NoAnswer
  <2>7. CallOK(call'[c], state') /\ LogStep(c)
    BY <1>2, <2>2, <2>4, <2>6, Told DEF CallOK, Prepared, KeptIn, LogStep, TrueAcks
  <2> QED  BY <1>2, <2>2, <2>3, <2>5, <2>7, Told DEF Step
<1> QED  BY <1>1, <1>2 DEF InitializePublishes

-----------------------------------------------------------------------------
(* Publications. *)
LEMMA AckIsTrue ==
  ASSUME NEW s \in States, NEW i \in DOMAIN s.log
  PROVE  Log!Truthful(Ack(s, i), LogOf(s))
<1>1. s # None /\ i \in Nat /\ DOMAIN s.log = 1..Len(s.log) /\ Len(s.log) \in Nat
  BY StateFields
<1>2. LogOf(s) = [k \in DOMAIN s.log |-> [id |-> s.log[k].id, snapshot |-> s.log[k].snapshot]]
  BY <1>1 DEF LogOf
<1>3. DOMAIN LogOf(s) = DOMAIN s.log /\ LogOf(s)[i] = [id |-> s.log[i].id, snapshot |-> s.log[i].snapshot]
  BY <1>2
<1>4. Ack(s, i).seq + 1 = i /\ Ack(s, i).id = s.log[i].id /\ Ack(s, i).snapshot = s.log[i].snapshot
  BY <1>1 DEF Ack
<1> QED  BY <1>3, <1>4 DEF Log!Truthful

\* A duplicate is acknowledged where it is.
LEMMA DuplicateIsTrue ==
  ASSUME NEW s \in States, NEW cmd, NEW code
  PROVE  /\ Duplicate(s, cmd, code).kept = None
         /\ \A a \in Duplicate(s, cmd, code).acks : Log!Truthful(a, LogOf(s))
<1>1. Duplicate(s, cmd, code).kept = None
  BY DEF Duplicate, Code, NoAnswer
<1>2. Duplicate(s, cmd, code).acks \subseteq {Ack(s, i) : i \in Receipt(s, cmd.event.id)}
  BY DEF Duplicate, Code, NoAnswer
<1>3. Receipt(s, cmd.event.id) \subseteq DOMAIN s.log
  BY DEF Receipt
<1> QED  BY <1>1, <1>2, <1>3, AckIsTrue

LEMMA StateOrNone ==
  ASSUME MemInv, StateError = "ok"
  PROVE  state # None /\ StateOK(state) /\ state \in States
BY DEF StateError, MemInv, StateOK

LEMMA AppendPreparesSteps ==
  ASSUME MemInv, NEW c \in Calls, AppendPrepares(c)
  PROVE  Step(c)
<1>1. CASE \E code : Refuse(c, code)
  BY <1>1, Refused
<1>2. CASE /\ StateError = "ok"
           /\ Tell(c, Duplicate(state, Cmd(c), AppendCheck(state, Cmd(c))))
           /\ UNCHANGED <<authority, state, registered>>
  <2> DEFINE a == Duplicate(state, Cmd(c), AppendCheck(state, Cmd(c)))
  <2>1. a.kept = None /\ \A k \in a.acks : Log!Truthful(k, LogOf(state))
    BY <1>2, StateOrNone, DuplicateIsTrue
  <2>2. Tell(c, a)
    BY <1>2
  <2> HIDE DEF a
  <2> QED  BY <1>2, <2>1, <2>2, Answered
<1>3. CASE /\ StateError = "ok" /\ AppendCheck(state, Cmd(c)) = "ok"
           /\ call' = [call EXCEPT ![c].step = "prepared", ![c].seen = state]
           /\ UNCHANGED <<authority, state, registered>>
  <2> DEFINE r == [call[c] EXCEPT !.step = "prepared"]
             q == [r EXCEPT !.seen = state]
  <2>1. Shaped(call[c]) /\ Prepared(call[c], state) /\ DOMAIN call = Calls
    BY DEF MemInv, CallOK
  <2>2. call' = [call EXCEPT ![c] = q]
    BY Zenon, <1>3, <2>1
  <2>3. Shaped(r) /\ r.cmd = call[c].cmd /\ r.answer = call[c].answer /\ r.step = "prepared"
    BY <2>1 DEF Shaped
  <2> HIDE DEF r
  <2>4. Shaped(q) /\ q.cmd = call[c].cmd /\ q.answer = call[c].answer /\ q.seen = state
    BY <2>3 DEF Shaped
  <2>5. call[c].cmd \in Commands
    BY <2>1 DEF AppendPrepares, At, Prepared
  <2>6. state.snapshot = call[c].cmd.expected
    BY <1>3 DEF AppendCheck, Cmd
  <2> HIDE DEF q
  <2>7. Prepared(q, state)
    BY <1>3, <2>4, <2>5, <2>6, StateOrNone DEF Prepared
  <2> QED  BY Zenon, <1>3, <2>2, <2>4, <2>7, Proceeds
<1> QED  BY <1>1, <1>2, <1>3 DEF AppendPrepares

\* Publishing fresh events and telling where they, and others, are.
LEMMA PublishSteps ==
  ASSUME MemInv, NEW c \in Calls, state # None, call[c].seen.snapshot = state.snapshot,
         NEW es \in Seq(Events), es # <<>>,
         \A i \in DOMAIN es : /\ Receipt(state, es[i].id) = {}
                              /\ \A j \in 1..(i - 1) : es[j].id # es[i].id,
         NEW o, Publish(c, es, o),
         NEW a, Tell(c, a), a.kept = None,
         state' \in States => \A k \in a.acks : Log!Truthful(k, LogOf(state'))
  PROVE  Step(c)
<1>1. StateOK(state) /\ AuthorityOK(authority, state)
  BY DEF MemInv
<1>2. state' = NextState(call[c].seen, state, es) /\ authority' = authority
  BY DEF Publish
<1>3. StateOK(state') /\ Grows(state, state') /\ Log!Extends(LogOf(state), LogOf(state'))
  BY ZenonT(60), <1>1, <1>2, Publication
<1>4. state' \in States /\ state' # None
  BY <1>3, StateFields DEF StateOK
<1>5. AuthorityOK(authority', state')
  BY <1>1, <1>2, <1>4 DEF AuthorityOK
<1>6. CallOK(call'[c], state')
  BY Told DEF CallOK, Prepared, KeptIn
<1>7. LogStep(c)
  BY <1>3, <1>4, Told DEF LogStep, TrueAcks
<1> QED  BY <1>3, <1>5, <1>6, <1>7, Told DEF Step

LEMMA AppendPublishesSteps ==
  ASSUME MemInv, NEW c \in Calls, AppendPublishes(c)
  PROVE  Step(c)
<1>1. /\ Prepared(call[c], state) /\ call[c].step = "prepared" /\ Cmd(c).op = "append"
      /\ Cmd(c) \in Commands
  BY DEF MemInv, CallOK, AppendPublishes, At, Cmd, Prepared
<1>2. state # None /\ StateOK(state) /\ state \in States
  BY <1>1 DEF Prepared, Cmd, MemInv, StateOK
<1> DEFINE code == AppendCheck(state, Cmd(c))
<1>3. CASE Tell(c, Duplicate(state, Cmd(c), code)) /\ UNCHANGED <<authority, state, registered>>
  <2> DEFINE a == Duplicate(state, Cmd(c), code)
  <2>1. a.kept = None /\ \A k \in a.acks : Log!Truthful(k, LogOf(state))
    BY <1>2, DuplicateIsTrue
  <2>2. Tell(c, a)
    BY <1>3
  <2> HIDE DEF a
  <2> QED  BY <1>3, <2>1, <2>2, Answered
<1>4. CASE /\ code = "ok"
           /\ Publish(c, <<Cmd(c).event>>, <<"commit", Cmd(c).event.id>>)
           /\ Tell(c, [Code("accepted") EXCEPT !.acks = {Ack(state', Len(state'.log))}])
  <2> DEFINE es == <<Cmd(c).event>>
             a == [Code("accepted") EXCEPT !.acks = {Ack(state', Len(state'.log))}]
  <2>1. Cmd(c).event \in Events
    BY <1>1 DEF Events, OfOp
  <2>2. es \in Seq(Events) /\ es # <<>> /\ DOMAIN es = 1..1 /\ es[1] = Cmd(c).event
    BY <2>1
  <2>3. Receipt(state, Cmd(c).event.id) = {} /\ state.snapshot = Cmd(c).expected
    BY <1>4 DEF AppendCheck
  <2>4. call[c].seen.snapshot = state.snapshot
    BY <1>1, <2>3 DEF Prepared, Cmd
  <2>5. a.kept = None /\ a.acks = {Ack(state', Len(state'.log))}
    BY DEF Code, NoAnswer
  <2>6. Publish(c, es, <<"commit", Cmd(c).event.id>>) /\ Tell(c, a)
    BY <1>4
  <2>7. Len(state'.log) > 0
    <3>1. state' = NextState(call[c].seen, state, es)
      BY <2>6 DEF Publish
    <3> DEFINE rows == [i \in DOMAIN es |-> [id |-> es[i].id, body |-> es[i].body,
                                             snapshot |-> call[c].seen.snapshot + 1]]
               n == call[c].seen.snapshot + 1
    <3>2. rows \in Seq(LogRows) /\ Len(rows) = 1
      <4>1. n \in Nat
        BY <1>2, <2>4, StateFields
      <4>2. [id |-> es[1].id, body |-> es[1].body, snapshot |-> n] \in LogRows
        BY <2>1, <2>2, <4>1 DEF LogRows, Ids, Bodies
      <4>3. rows = <<[id |-> es[1].id, body |-> es[1].body, snapshot |-> n]>>
        BY <2>2
      <4> QED  BY <4>2, <4>3
    <3>3. state'.log = state.log \o rows
      BY <1>2, <3>1 DEF NextState, States
    <3> HIDE DEF rows, es
    <3>4. state.log \in Seq(LogRows) /\ Len(state.log) \in Nat
      BY <1>2, StateFields
    <3>5. Len(state.log \o rows) = Len(state.log) + Len(rows)
      BY Zenon, <3>2, <3>4, Joined
    <3> QED  BY <3>2, <3>3, <3>4, <3>5
  <2>8. state' \in States => \A k \in a.acks : Log!Truthful(k, LogOf(state'))
    <3> HAVE state' \in States
    <3>1. Len(state'.log) \in DOMAIN state'.log
      BY <2>7, StateFields
    <3> QED  BY <2>5, <3>1, AckIsTrue
  <2>9. \A i \in DOMAIN es : /\ Receipt(state, es[i].id) = {}
                             /\ \A j \in 1..(i - 1) : es[j].id # es[i].id
    BY <2>2, <2>3
  <2> HIDE DEF es, a
  <2> QED  BY <1>2, <2>2, <2>4, <2>5, <2>6, <2>8, <2>9, PublishSteps
<1> QED  BY <1>3, <1>4 DEF AppendPublishes, Latest

LEMMA BatchPreparesSteps ==
  ASSUME MemInv, NEW c \in Calls, BatchPrepares(c)
  PROVE  Step(c)
<1>1. CASE \E code : Refuse(c, code)
  BY <1>1, Refused
<1>2. CASE /\ StateError = "ok"
           /\ call' = [call EXCEPT ![c].step = "prepared", ![c].seen = state,
                                   ![c].attempt = @ + 1]
           /\ UNCHANGED <<authority, state, registered>>
  <2> DEFINE r == [call[c] EXCEPT !.step = "prepared"]
             s == [r EXCEPT !.seen = state]
             q == [s EXCEPT !.attempt = s.attempt + 1]
  <2>1. Shaped(call[c]) /\ Prepared(call[c], state) /\ DOMAIN call = Calls
    BY DEF MemInv, CallOK
  <2>2. call' = [call EXCEPT ![c] = q]
    BY Zenon, <1>2, <2>1
  <2>3. Shaped(r) /\ r.cmd = call[c].cmd /\ r.answer = call[c].answer
    BY <2>1 DEF Shaped
  <2> HIDE DEF r
  <2>4. Shaped(s) /\ s.cmd = call[c].cmd /\ s.answer = call[c].answer
    BY <2>3 DEF Shaped
  <2> HIDE DEF s
  <2>5. Shaped(q) /\ q.cmd = call[c].cmd /\ q.answer = call[c].answer
    BY <2>4 DEF Shaped
  <2>6. call[c].cmd \in Commands /\ call[c].cmd.op = "batch"
    BY <2>1 DEF BatchPrepares, At, Prepared, Cmd
  <2> HIDE DEF q
  <2>7. Prepared(q, state)
    BY <1>2, <2>5, <2>6, StateOrNone DEF Prepared
  <2> QED  BY Zenon, <1>2, <2>2, <2>5, <2>7, Proceeds
<1> QED  BY <1>1, <1>2 DEF BatchPrepares

LEMMA BatchAgainSteps ==
  ASSUME MemInv, NEW c \in Calls, BatchAgain(c)
  PROVE  Step(c)
<1>1. CASE \E code : Refuse(c, code)
  BY <1>1, Refused
<1>2. CASE /\ call' = [call EXCEPT ![c].step = "received", ![c].seen = None]
           /\ UNCHANGED <<authority, state, registered>>
  <2> DEFINE r == [call[c] EXCEPT !.step = "received"]
             q == [r EXCEPT !.seen = None]
  <2>1. Shaped(call[c]) /\ Prepared(call[c], state) /\ DOMAIN call = Calls
    BY DEF MemInv, CallOK
  <2>2. call' = [call EXCEPT ![c] = q]
    BY Zenon, <1>2, <2>1
  <2>3. Shaped(r) /\ r.cmd = call[c].cmd /\ r.answer = call[c].answer /\ r.step = "received"
    BY <2>1 DEF Shaped
  <2> HIDE DEF r
  <2>4. Shaped(q) /\ q.cmd = call[c].cmd /\ q.answer = call[c].answer /\ q.step = "received"
    BY <2>3 DEF Shaped
  <2>5. call[c].cmd \in Commands
    BY <2>1 DEF BatchAgain, At, Prepared
  <2> HIDE DEF q
  <2>6. Prepared(q, state)
    BY <2>4, <2>5 DEF Prepared
  <2> QED  BY Zenon, <1>2, <2>2, <2>4, <2>6, Proceeds
<1> QED  BY <1>1, <1>2 DEF BatchAgain

\* What a batch accepts is new, and once.
LEMMA AcceptedIsFresh ==
  ASSUME NEW s, NEW all \in Seq(Events), Fresh(s, all) # {}, NEW es \in Accepted(s, all)
  PROVE  /\ es \in Seq(Events) /\ es # <<>>
         /\ \A i \in DOMAIN es : /\ Receipt(s, es[i].id) = {}
                                 /\ \A j \in 1..(i - 1) : es[j].id # es[i].id
<1> DEFINE F == Fresh(s, all)
<1>1. Len(all) \in Nat /\ DOMAIN all = 1..Len(all) /\ \A i \in DOMAIN all : all[i] \in Events
  OBVIOUS
<1>2. F \subseteq 1..Len(all)
  BY <1>1 DEF Fresh
<1>3. PICK n \in 0..Len(all) : \E f \in [1..n -> F] :
        /\ Range(f) = F /\ \A k \in 1..n : \A l \in 1..(k - 1) : f[l] < f[k]
        /\ es = [k \in 1..n |-> all[f[k]]]
  BY DEF Accepted
<1>4. PICK f \in [1..n -> F] :
        /\ Range(f) = F /\ \A k \in 1..n : \A l \in 1..(k - 1) : f[l] < f[k]
        /\ es = [k \in 1..n |-> all[f[k]]]
  BY <1>3
<1>5. \A i \in F : Receipt(s, all[i].id) = {} /\ \A j \in 1..(i - 1) : all[j].id # all[i].id
  BY DEF Fresh
<1>6. n \in Nat /\ n # 0
  <2>1. n = 0 => F = {}
    BY <1>4 DEF Range
  <2> QED  BY <1>1, <1>3, <2>1
<1> HIDE DEF F
<1>7. DOMAIN es = 1..n /\ \A k \in 1..n : es[k] = all[f[k]] /\ f[k] \in F /\ f[k] \in 1..Len(all)
  BY Zenon, <1>2, <1>4
<1>8. es \in Seq(Events) /\ es # <<>>
  <2>1. es \in [1..n -> Events]
    BY <1>1, <1>4, <1>7
  <2>2. es \in Seq(Events) /\ Len(es) = n
    BY <1>6, <2>1
  <2> QED  BY <1>6, <2>2
<1>9. ASSUME NEW i \in DOMAIN es
      PROVE  Receipt(s, es[i].id) = {} /\ \A j \in 1..(i - 1) : es[j].id # es[i].id
  <2>1. i \in 1..n /\ es[i] = all[f[i]] /\ f[i] \in F
    BY <1>7
  <2>2. ASSUME NEW j \in 1..(i - 1)
        PROVE  es[j].id # es[i].id
    <3>1. j \in 1..n
      BY <1>6, <2>1
    <3>2. f[j] < f[i] /\ f[j] \in 1..Len(all) /\ f[i] \in 1..Len(all) /\ es[j] = all[f[j]]
      BY <1>4, <1>7, <2>1, <3>1
    <3>3. f[j] \in 1..(f[i] - 1)
      BY <1>1, <3>2
    <3> QED  BY <1>5, <2>1, <3>2, <3>3
  <2> QED  BY Zenon, <1>5, <2>1, <2>2
<1> QED  BY Zenon, <1>8, <1>9

LEMMA BatchPublishesSteps ==
  ASSUME MemInv, NEW c \in Calls, BatchPublishes(c)
  PROVE  Step(c)
<1>1. /\ Prepared(call[c], state) /\ call[c].step = "prepared" /\ Cmd(c).op = "batch"
      /\ Cmd(c) \in Commands /\ state = call[c].seen
  BY DEF MemInv, CallOK, BatchPublishes, At, Cmd, Prepared
<1>2. state # None /\ StateOK(state) /\ state \in States
  BY <1>1 DEF Prepared, Cmd, MemInv, StateOK
<1> DEFINE all == Cmd(c).events
           a == [Code("accepted") EXCEPT !.acks =
                  {Ack(state', i) : i \in UNION {Receipt(state', e.id) : e \in Range(all)}}]
<1>3. all \in Seq(Events)
  BY <1>1, MemoryConstants DEF OfOp
<1>4. Tell(c, a)
  BY DEF BatchPublishes
<1>5. /\ a.kept = None
      /\ a.acks = {Ack(state', i) : i \in UNION {Receipt(state', e.id) : e \in Range(all)}}
  BY DEF Code, NoAnswer
<1> HIDE DEF a
<1>6. state' \in States => \A k \in a.acks : Log!Truthful(k, LogOf(state'))
  <2> HAVE state' \in States
  <2>1. \A e \in Range(all) : Receipt(state', e.id) \subseteq DOMAIN state'.log
    BY DEF Receipt
  <2> QED  BY <1>5, <2>1, AckIsTrue
<1>7. CASE UNCHANGED <<authority, state, registered>>
  <2>1. state' = state
    BY <1>7
  <2>2. \A k \in a.acks : Log!Truthful(k, LogOf(state))
    BY <1>2, <1>6, <2>1
  <2> QED  BY <1>4, <1>5, <1>7, <2>2, Answered
<1>8. CASE /\ Fresh(state, all) # {}
           /\ \E es \in Accepted(state, all) : Publish(c, es, <<"batch", state.snapshot + 1>>)
  <2>1. PICK es \in Accepted(state, all) : Publish(c, es, <<"batch", state.snapshot + 1>>)
    BY <1>8
  <2>2. /\ es \in Seq(Events) /\ es # <<>>
        /\ \A i \in DOMAIN es : /\ Receipt(state, es[i].id) = {}
                                /\ \A j \in 1..(i - 1) : es[j].id # es[i].id
    BY ZenonT(60), <1>3, <1>8, AcceptedIsFresh
  <2>3. call[c].seen.snapshot = state.snapshot
    BY <1>1
  <2> QED  BY Zenon, <1>2, <1>4, <1>5, <1>6, <2>1, <2>2, <2>3, PublishSteps
<1> QED  BY <1>7, <1>8 DEF BatchPublishes

-----------------------------------------------------------------------------
(* Memory and facts. *)
LEMMA ChangeMemorySteps ==
  ASSUME MemInv, NEW c \in Calls, ChangeMemory(c)
  PROVE  Step(c)
<1>1. CASE \E code : Refuse(c, code)
  BY <1>1, Refused
<1> DEFINE e == Entry(Cmd(c), state)
           k == Len(state.memory)
           kept == [in |-> "memory", at |-> k + 1, entry |-> e]
           m == Append(state.memory, e)
           u == [state EXCEPT !.records = Applied(state.records, Cmd(c))]
<1>2. CASE /\ StateError = "ok"
           /\ state' = [state EXCEPT !.records = Applied(@, Cmd(c)),
                                     !.memory = Append(@, Entry(Cmd(c), state))]
           /\ Tell(c, Keeps("stored", [in |-> "memory", at |-> Len(state.memory) + 1,
                                       entry |-> Entry(Cmd(c), state)]))
           /\ UNCHANGED authority
  <2>1. state # None /\ StateOK(state) /\ state \in States
    BY <1>2, StateOrNone
  <2>2. Cmd(c) \in Commands /\ Cmd(c).op \in {"put", "delete"}
    BY DEF MemInv, CallOK, Prepared, Cmd, ChangeMemory
  <2>3. e \in Mutations /\ e.cmd = Cmd(c) /\ e.snapshot = state.snapshot
    BY Zenon, <2>1, <2>2, StateFields DEF Entry, Mutations, OfOp
  <2>4. Applied(state.records, Cmd(c)) \in SUBSET Records
    BY <2>1, <2>2, StateFields DEF Applied, Records, OfOp
  <2>5. state.memory \in Seq(Mutations) /\ k \in Nat /\ DOMAIN state.memory = 1..k
    BY <2>1, StateFields
  <2> HIDE DEF e
  <2>6. /\ m \in Seq(Mutations) /\ Len(m) = k + 1 /\ m[k + 1] = e
        /\ \A i \in 1..k : m[i] = state.memory[i]
    BY <2>3, <2>5
  <2>7. u \in States /\ u.records = Applied(state.records, Cmd(c)) /\ u.log = state.log
        /\ u.snapshot = state.snapshot /\ u.facts = state.facts
    BY Zenon, <2>1, <2>4 DEF States
  <2>8. state' = [u EXCEPT !.memory = m]
    BY <1>2, <2>1 DEF e, States
  <2> HIDE DEF m, u
  <2>9. /\ state' \in States /\ state'.memory = m /\ state'.log = state.log
        /\ state'.records = Applied(state.records, Cmd(c))
        /\ state'.snapshot = state.snapshot /\ state'.facts = state.facts
    BY ZenonT(60), <2>6, <2>7, <2>8 DEF States
  <2>10. state' # None
    BY <2>9, StateFields
  <2>11. SnapshotOfLog(state')
    BY <2>1, <2>9 DEF StateOK, SnapshotOfLog
  <2>12. Sound(state')
    BY <2>1, <2>3, <2>5, <2>9, SoundGrows DEF m, StateOK
  <2>13. MemoryInOrder(state')
    <3>1. state.snapshot \in Nat /\ MemoryInOrder(state)
      BY <2>1, StateFields DEF StateOK
    <3>2. DOMAIN m = 1..(k + 1)
      BY <2>5, <2>6
    <3> HIDE DEF k
    <3>3. ASSUME NEW i \in 1..(k + 1)
          PROVE  /\ m[i].snapshot \in 0..state.snapshot
                 /\ i > 1 => m[i - 1].snapshot <= m[i].snapshot
      <4>1. CASE i \in 1..k
        <5>1. m[i] = state.memory[i] /\ (i > 1 => m[i - 1] = state.memory[i - 1])
          BY <2>5, <2>6, <4>1
        <5> QED  BY Zenon, <2>5, <3>1, <4>1, <5>1 DEF MemoryInOrder
      <4>2. CASE i = k + 1
        <5>1. m[i].snapshot = state.snapshot
          BY <2>3, <2>6, <4>2
        <5>2. ASSUME i > 1
              PROVE  m[i - 1].snapshot <= state.snapshot
          <6>1. i - 1 = k /\ k \in 1..k
            BY <2>5, <4>2, <5>2
          <6>2. m[i - 1] = state.memory[k]
            BY <2>6, <6>1
          <6> QED  BY <2>5, <3>1, <6>1, <6>2 DEF MemoryInOrder
        <5> QED  BY <3>1, <5>1, <5>2
      <4> QED  BY <2>5, <4>1, <4>2
    <3> QED  BY <2>9, <3>2, <3>3 DEF MemoryInOrder
  <2>14. StateOK(state')
    BY <2>9, <2>11, <2>12, <2>13 DEF StateOK
  <2>15. Grows(state, state')
    <3>1. Longer(state.memory, state'.memory)
      BY <2>5, <2>6, <2>9 DEF Longer
    <3>2. Longer(state.facts, state'.facts)
      BY <2>1, <2>9, StateFields DEF Longer
    <3> QED  BY <2>10, <3>1, <3>2 DEF Grows
  <2>16. AuthorityOK(authority', state')
    BY <1>2, <2>1, <2>10 DEF MemInv, AuthorityOK
  <2>17. Tell(c, Keeps("stored", kept))
    BY <1>2 DEF e
  <2>18. Keeps("stored", kept).kept = kept /\ Keeps("stored", kept).acks = {}
    <3> HIDE DEF kept
    <3> QED  BY DEF Keeps, NoAnswer
  <2>19. KeptIn(kept, state')
    <3>1. k + 1 \in 1..Len(state'.memory) /\ state'.memory[k + 1] = e
      BY <2>5, <2>6, <2>9
    <3> HIDE DEF k
    <3> QED  BY <2>10, <3>1 DEF KeptIn
  <2>20. LogOf(state') = LogOf(state)
    BY <2>1, <2>9, <2>10 DEF LogOf
  <2> HIDE DEF kept
  <2>21. CallOK(call'[c], state') /\ LogStep(c)
    BY <2>17, <2>18, <2>19, <2>20, Told DEF CallOK, Prepared, LogStep, TrueAcks
  <2> QED  BY <2>14, <2>15, <2>16, <2>17, <2>21, Told DEF Step
<1> QED  BY <1>1, <1>2 DEF ChangeMemory

LEMMA AppendRuntimeFactSteps ==
  ASSUME MemInv, NEW c \in Calls, AppendRuntimeFact(c)
  PROVE  Step(c)
<1> DEFINE known == {i \in DOMAIN state.facts : state.facts[i].id = Cmd(c).id}
           fact == [id |-> Cmd(c).id, body |-> Cmd(c).body, snapshot |-> state.snapshot]
           k == Len(state.facts)
           kept == [in |-> "facts", at |-> k + 1, entry |-> fact]
           m == Append(state.facts, fact)
<1>1. CASE \E code : Refuse(c, code)
  BY <1>1, Refused
<1>2. CASE /\ StateError = "ok"
           /\ \E i \in known :
                Tell(c, Keeps("known", [in |-> "facts", at |-> i, entry |-> state.facts[i]]))
           /\ UNCHANGED <<authority, state, registered>>
  <2>1. state # None /\ StateOK(state) /\ state \in States
    BY <1>2, StateOrNone
  <2>2. PICK i \in known :
          Tell(c, Keeps("known", [in |-> "facts", at |-> i, entry |-> state.facts[i]]))
    BY <1>2
  <2> DEFINE old == [in |-> "facts", at |-> i, entry |-> state.facts[i]]
  <2>3. i \in 1..Len(state.facts)
    BY <2>1, StateFields
  <2>4. KeptIn(old, state)
    BY <2>1, <2>3 DEF KeptIn
  <2> HIDE DEF old
  <2>5. Keeps("known", old).kept = old /\ Keeps("known", old).acks = {}
    BY DEF Keeps, NoAnswer
  <2>6. Tell(c, Keeps("known", old))
    BY <2>2 DEF old
  <2>7. state' = state /\ authority' = authority
    BY <1>2
  <2>8. CallOK(call'[c], state') /\ LogStep(c)
    BY <2>4, <2>5, <2>6, <2>7, Told, Unchanged DEF CallOK, Prepared, LogStep, TrueAcks
  <2> QED  BY <2>6, <2>7, <2>8, Told, Unchanged DEF Step
<1>3. CASE /\ StateError = "ok"
           /\ state' = [state EXCEPT !.facts = Append(@, fact)]
           /\ Tell(c, Keeps("appended", [in |-> "facts", at |-> Len(state.facts) + 1,
                                         entry |-> fact]))
           /\ UNCHANGED authority
  <2>1. state # None /\ StateOK(state) /\ state \in States
    BY <1>3, StateOrNone
  <2>2. Cmd(c) \in Commands /\ Cmd(c).op = "fact"
    BY DEF MemInv, CallOK, Prepared, Cmd, AppendRuntimeFact, At
  <2>3. fact \in Facts
    BY Zenon, <2>1, <2>2, StateFields DEF Facts, OfOp
  <2>4. state.facts \in Seq(Facts) /\ k \in Nat /\ DOMAIN state.facts = 1..k
    BY <2>1, StateFields
  <2>5. state' = [state EXCEPT !.facts = m] /\ Tell(c, Keeps("appended", kept))
    BY <1>3
  <2> HIDE DEF fact
  <2>6. /\ m \in Seq(Facts) /\ Len(m) = k + 1 /\ m[k + 1] = fact
        /\ \A i \in 1..k : m[i] = state.facts[i]
    BY <2>3, <2>4
  <2> HIDE DEF m
  <2>7. /\ state' \in States /\ state'.memory = state.memory /\ state'.log = state.log
        /\ state'.records = state.records
        /\ state'.snapshot = state.snapshot /\ state'.facts = m
    BY Zenon, <2>1, <2>5, <2>6 DEF States
  <2>8. state' # None
    BY <2>7, StateFields
  <2>9. StateOK(state')
    BY <2>1, <2>7 DEF StateOK, SnapshotOfLog, MemoryInOrder, Sound
  <2>10. Grows(state, state')
    <3>1. Longer(state.facts, state'.facts)
      BY <2>4, <2>6, <2>7 DEF Longer
    <3>2. Longer(state.memory, state'.memory)
      BY <2>1, <2>7, StateFields DEF Longer
    <3> QED  BY <2>8, <3>1, <3>2 DEF Grows
  <2>11. AuthorityOK(authority', state')
    BY <1>3, <2>1, <2>8 DEF MemInv, AuthorityOK
  <2>12. KeptIn(kept, state')
    <3>1. k + 1 \in 1..Len(state'.facts) /\ state'.facts[k + 1] = fact
      BY <2>4, <2>6, <2>7
    <3> HIDE DEF k
    <3> QED  BY <2>8, <3>1 DEF KeptIn
  <2>13. LogOf(state') = LogOf(state)
    BY <2>1, <2>7, <2>8 DEF LogOf
  <2> HIDE DEF kept
  <2>14. Keeps("appended", kept).kept = kept /\ Keeps("appended", kept).acks = {}
    BY DEF Keeps, NoAnswer
  <2>15. CallOK(call'[c], state') /\ LogStep(c)
    BY <2>5, <2>12, <2>13, <2>14, Told DEF CallOK, Prepared, LogStep, TrueAcks
  <2> QED  BY <2>5, <2>9, <2>10, <2>11, <2>15, Told DEF Step
<1>4. \/ \E code : Refuse(c, code)
      \/ /\ StateError = "ok"
         /\ \E i \in known :
              Tell(c, Keeps("known", [in |-> "facts", at |-> i, entry |-> state.facts[i]]))
         /\ UNCHANGED <<authority, state, registered>>
      \/ /\ StateError = "ok"
         /\ state' = [state EXCEPT !.facts = Append(@, fact)]
         /\ Tell(c, Keeps("appended", [in |-> "facts", at |-> Len(state.facts) + 1,
                                       entry |-> fact]))
         /\ UNCHANGED authority
  BY Zenon DEF AppendRuntimeFact
<1> QED  BY <1>1, <1>2, <1>3, <1>4

-----------------------------------------------------------------------------
(* The theorems. *)
LEMMA EveryStep ==
  ASSUME MemInv, MemNext
  PROVE  \E c \in Calls : Step(c)
<1>1. PICK c \in Calls :
        \/ \E cmd \in Commands : Receive(c, cmd)
        \/ Reserve(c) \/ InitializePrepares(c) \/ InitializePublishes(c)
        \/ AppendPrepares(c) \/ AppendPublishes(c)
        \/ BatchPrepares(c) \/ BatchAgain(c) \/ BatchPublishes(c)
        \/ ChangeMemory(c) \/ AppendRuntimeFact(c)
  BY DEF MemNext
<1>2. Step(c)
  BY <1>1, ReceiveSteps, ReserveSteps, InitializePreparesSteps, InitializePublishesSteps,
     AppendPreparesSteps, AppendPublishesSteps, BatchPreparesSteps, BatchAgainSteps,
     BatchPublishesSteps, ChangeMemorySteps, AppendRuntimeFactSteps
<1> QED  BY <1>2

\* The invariant holds initially.
LEMMA MemInitInv == MemInit => MemInv
<1> SUFFICES ASSUME MemInit PROVE MemInv
  OBVIOUS
<1>1. state = None /\ authority = [state |-> "none", identity |-> None, content |-> None]
      /\ call = [c \in Calls |-> Unasked]
  BY DEF MemInit
<1>2. AuthorityOK(authority, state)
  BY <1>1 DEF AuthorityOK
<1>3. CallOK(Unasked, state)
  BY ZenonT(60) DEF CallOK, Shaped, Prepared, KeptIn, Unasked, NoAnswer
<1> QED  BY <1>1, <1>2, <1>3 DEF MemInv

\* What was kept stays kept.
LEMMA KeptStays ==
  ASSUME NEW kept, NEW s, NEW t, KeptIn(kept, s), Grows(s, t),
         s = None \/ StateOK(s), t = None \/ StateOK(t)
  PROVE  KeptIn(kept, t)
<1> SUFFICES ASSUME kept # None PROVE KeptIn(kept, t)
  BY DEF KeptIn
<1>1. s \in States /\ t \in States /\ s # None /\ t # None
  BY DEF KeptIn, Grows, StateOK
<1>2. /\ Len(s.memory) \in Nat /\ Len(t.memory) \in Nat /\ Len(s.facts) \in Nat
      /\ Len(t.facts) \in Nat
  BY <1>1, StateFields
<1>3. Longer(s.memory, t.memory) /\ Longer(s.facts, t.facts)
  BY <1>1 DEF Grows
<1> QED  BY <1>1, <1>2, <1>3 DEF KeptIn, Longer

\* A step of a call keeps it.
LEMMA StepInv ==
  ASSUME MemInv, NEW c \in Calls, Step(c)
  PROVE  MemInv'
<1>1. call' = [d \in Calls |-> call'[d]] /\ \A d \in Calls \ {c} : call'[d] = call[d]
  BY DEF MemInv, Step
<1>2. ASSUME NEW d \in Calls \ {c}
      PROVE  CallOK(call'[d], state')
  <2>1. CallOK(call[d], state) /\ call'[d] = call[d]
    BY <1>1 DEF MemInv
  <2>2. Grows(state, state') /\ (state = None \/ StateOK(state)) /\ (state' = None \/ StateOK(state'))
    BY DEF MemInv, Step
  <2>3. KeptIn(call[d].answer.kept, state')
    BY <2>1, <2>2, KeptStays DEF CallOK
  <2>4. Prepared(call[d], state')
    BY <2>1, <2>2 DEF CallOK, Prepared, Grows
  <2> QED  BY <2>1, <2>3, <2>4 DEF CallOK
<1>3. \A d \in Calls : CallOK(call'[d], state')
  BY <1>2 DEF Step
<1> QED  BY <1>1, <1>3 DEF MemInv, Step

\* The parts of the State object agree with each other in every reachable
\* state (memory-commits.ts).
THEOREM MemoryInvariant == MemSpec => []MemInv
<1>1. MemInv /\ [MemNext]_memVars => MemInv'
  <2> SUFFICES ASSUME MemInv, [MemNext]_memVars PROVE MemInv'
    OBVIOUS
  <2>1. CASE MemNext
    BY <2>1, EveryStep, StepInv
  <2>2. CASE UNCHANGED memVars
    BY <2>2 DEF memVars, MemInv
  <2> QED  BY <2>1, <2>2
<1> QED  BY <1>1, MemInitInv, PTL DEF MemSpec

\* Memory and facts that a call was told are stored stay, though a publication
\* replaces the whole State object, and replaying all mutations gives exactly
\* the stored records (memory-commits.ts).
THEOREM MemoryStaysWhole == MemSpec => []MemoryIsKept
<1>1. MemInv => MemoryIsKept
  <2> SUFFICES ASSUME MemInv PROVE MemoryIsKept
    OBVIOUS
  <2>1. MemoryReplays
    BY ValidIsOK DEF MemoryReplays, MemInv
  <2>2. ASSUME NEW c \in Calls, call[c].answer.kept # None
        PROVE  /\ call[c].answer.kept.at \in DOMAIN state[call[c].answer.kept.in]
               /\ state[call[c].answer.kept.in][call[c].answer.kept.at] = call[c].answer.kept.entry
    <3> DEFINE kept == call[c].answer.kept
    <3>1. KeptIn(kept, state) /\ state \in States
      BY <2>2 DEF MemInv, CallOK, StateOK, KeptIn
    <3> HIDE DEF kept
    <3>2. DOMAIN state.memory = 1..Len(state.memory) /\ DOMAIN state.facts = 1..Len(state.facts)
      BY <3>1, StateFields
    <3>3. kept.at \in DOMAIN state[kept.in] /\ state[kept.in][kept.at] = kept.entry
      BY <2>2, <3>1, <3>2 DEF KeptIn, kept
    <3> QED  BY <3>3 DEF kept
  <2> QED  BY <2>1, <2>2 DEF MemoryIsKept, AnsweredIsKept
<1> QED  BY <1>1, MemoryInvariant, PTL

\* The in-memory reference keeps the promise of BranchLog: it extends one log
\* by whole publications, and every acknowledgement says where its event
\* really is (memory-commits.ts).
THEOREM ReferenceRefinesLog == MemSpec => ReferenceImplementsLog
<1> DEFINE L == IF state = None THEN <<>>
                ELSE [i \in DOMAIN state.log |-> [id |-> state.log[i].id,
                                                  snapshot |-> state.log[i].snapshot]]
           A == [c \in Calls |-> call[c].answer.acks]
<1>1. MemInit => Log!Init
  <2> SUFFICES ASSUME MemInit PROVE Log!Init
    OBVIOUS
  <2>1. L = <<>>
    BY DEF MemInit
  <2>2. A = [c \in Calls |-> {}]
    BY DEF MemInit, Unasked, NoAnswer
  <2> QED  BY <2>1, <2>2 DEF Log!Init
<1>2. MemInv /\ [MemNext]_memVars => [Log!Next \/ Log!logVars' = Log!logVars]_memVars
  <2> SUFFICES ASSUME MemInv, MemNext PROVE Log!Next \/ Log!logVars' = Log!logVars
    OBVIOUS
  <2>1. PICK c \in Calls : Step(c)
    BY EveryStep
  <2>2. L = LogOf(state) /\ L' = LogOf(state')
    BY DEF LogOf
  <2>3. /\ \A d \in Calls : A[d] = call[d].answer.acks /\ A'[d] = call'[d].answer.acks
        /\ \A d \in Calls \ {c} : A'[d] = A[d]
    BY <2>1 DEF MemInv, Step
  <2>4. A = [d \in Calls |-> A[d]] /\ A' = [d \in Calls |-> A'[d]]
    OBVIOUS
  <2> HIDE DEF L, A
  <2>5. CASE LogOf(state') = LogOf(state) /\ call'[c].answer.acks = call[c].answer.acks
    <3>1. L' = L
      BY <2>2, <2>5
    <3>2. \A d \in Calls : A'[d] = A[d]
      BY <2>3, <2>5
    <3>3. A' = A
      BY <2>4, <3>2
    <3> QED  BY <3>1, <3>3 DEF Log!logVars, L, A
  <2>6. CASE /\ TrueAcks(call'[c], state')
             /\ LogOf(state') = LogOf(state) \/ Log!Extends(LogOf(state), LogOf(state'))
    <3>1. \A a \in A'[c] : Log!Truthful(a, L')
      BY <2>2, <2>3, <2>6 DEF TrueAcks
    <3>2. L' = L \/ Log!Extends(L, L')
      BY <2>2, <2>6
    <3>3. Log!Tells(c)
      BY <2>3, <3>1 DEF Log!Tells, L, A
    <3>4. Log!Reply(c) \/ Log!Publish(c)
      BY <3>2, <3>3 DEF Log!Reply, Log!Publish, L
    <3> QED  BY <3>4 DEF Log!Next
  <2> QED  BY <2>1, <2>5, <2>6 DEF Step, LogStep
<1> QED  BY <1>1, <1>2, MemoryInvariant, PTL DEF MemSpec, ReferenceImplementsLog

=============================================================================
