--------------------------- MODULE RuntimeFactLog ---------------------------
(***************************************************************************)
(* Nullplug UI facts of one branch: the state and submit controllers       *)
(* (nullplug/state-controller.ts, response-controller.ts), the fact        *)
(* objects (nullplug/facts/repository.ts) and the numbered timeline        *)
(* (branches/storage/runtime-fact-log.ts), under the lease of              *)
(* MutationLease.                                                          *)
(*                                                                         *)
(* Every write to R2 or D1 is one step, which may throw before or after    *)
(* its effect; what a request reads between two of its writes is one step. *)
(* Two requests with one id are a request and its retry, or a reuse of the *)
(* id with another body.  A poller follows the timeline by its cursor.     *)
(***************************************************************************)
EXTENDS MutationLease, Integers, FiniteSetsExt

CONSTANTS
  Id,         \* per request: the identity of its fact
  Body,       \* per request: the data of its fact
  PageLimit,  \* facts per poll
  MaxHead     \* bound on the snapshots of the branch

FactConstants ==
  /\ DOMAIN Id = Requests /\ DOMAIN Body = Requests
  /\ PageLimit \in Nat \ {0} /\ MaxHead \in Nat

Facts == {Id[r] : r \in Requests}
Seqs == 0..Cardinality(Requests)

VARIABLES
  head,   \* headSnapshotId, and what the source hash is compared with
  fact,   \* R2, per id: the fact objects stored, at most one
  row,    \* D1 nullplug_facts, per id
  d1,     \* D1 branch_runtime_facts: events
  seqs,   \* R2, per sequence number: the events stored, at most one
  ids,    \* R2, per id: the event of the identity index
  mark,   \* R2 head object: headSeq and the pending events, at most one
  job,    \* per request: its locals
  told,   \* per request: the events its client was answered with
  poll    \* the poller: cursor, page being read, and history of what it saw

timeline == <<d1, seqs, ids, mark>>
stores == <<head, fact, row, timeline>>
vars == <<leaseVars, stores, job, told, poll>>

Init ==
  /\ LeaseInit
  /\ head = 0
  /\ fact = [f \in Facts |-> {}] /\ row = [f \in Facts |-> {}]
  /\ d1 = {} /\ seqs = [n \in Seqs |-> {}] /\ ids = [f \in Facts |-> {}]
  /\ mark = [seq |-> -1, pending |-> {}]
  /\ job = [r \in Requests |-> [pc |-> "idle", snap |-> 0, event |-> {}, failed |-> "no"]]
  /\ told = [r \in Requests |-> {}]
  /\ poll = [pc |-> "idle", cursor |-> -1, rows |-> {}, listed |-> {}, seen |-> {}]

At(r, pc) == phase[r] = "working" /\ job[r].pc = pc

Moves(r, pc) == job' = [job EXCEPT ![r].pc = pc]

Throws(r) == job' = [job EXCEPT ![r].pc = "finish", ![r].failed = "yes"]

\* A write either has its effect and the request goes on, or it throws and
\* may have had it.
Writes(r, effect, none, next) ==
  \/ effect /\ next /\ UNCHANGED leaseVars
  \/ (effect \/ none) /\ WorkThrows(r) /\ Throws(r)

-----------------------------------------------------------------------------
(* The controllers *)

\* The page was rendered from the snapshot job.snap.
Start(r) ==
  /\ \/ Acquire(r) /\ \E s \in 0..head : job' = [job EXCEPT ![r].pc = "read", ![r].snap = s]
     \/ AcquireTimesOut(r) /\ UNCHANGED job
  /\ UNCHANGED <<stores, told, poll>>

\* A stored fact must be the same data; a new one must stem from the head.
Admits(r) ==
  \/ \E o \in fact[Id[r]] : o.body = Body[r]
  \/ fact[Id[r]] = {} /\ job[r].snap = head

ReadBranch(r) ==
  /\ At(r, "read")
  /\ IF Admits(r) THEN Moves(r, "begin") ELSE Throws(r)
  /\ UNCHANGED <<leaseVars, stores, told, poll>>

Begin(r) ==
  /\ At(r, "begin")
  /\ \/ BeginCommit(r) /\ Moves(r, "fact")
     \/ BeginCommitRefused(r) /\ Throws(r)
  /\ UNCHANGED <<stores, told, poll>>

\* putNullplugUiResponseFact, putNullplugUiStateFact: create-only, and what
\* is there is what the rest works with.
PutFact(r) ==
  /\ At(r, "fact")
  /\ Writes(r, fact' = [fact EXCEPT ![Id[r]] =
                  IF @ = {} THEN {[body |-> Body[r], snap |-> job[r].snap]} ELSE @],
            UNCHANGED fact, Moves(r, "row"))
  /\ UNCHANGED <<head, row, timeline, told, poll>>

\* writeFactToD1: INSERT OR IGNORE.
PutRow(r) ==
  /\ At(r, "row")
  /\ Writes(r, row' = [row EXCEPT ![Id[r]] = IF @ = {} THEN fact[Id[r]] ELSE @],
            UNCHANGED row, Moves(r, "repair"))
  /\ UNCHANGED <<head, fact, timeline, told, poll>>

-----------------------------------------------------------------------------
(* appendBranchRuntimeFactUnderLock *)

\* repairPendingR2RuntimeFact: a pending event is written out first.
Repair(r) ==
  /\ At(r, "repair")
  /\ job' = [job EXCEPT ![r].event = mark.pending,
                        ![r].pc = IF mark.pending = {} THEN "find" ELSE "repair_seq"]
  /\ UNCHANGED <<leaseVars, stores, told, poll>>

Largest(S) == IF S = {} THEN -1 ELSE Max(S)

\* readR2HeadRuntimeFactSeq.
R2Head == Largest({mark.seq} \cup {n \in Seqs : seqs[n] # {}})

\* readBranchHeadRuntimeFactSeq.
\* Mutant: only the sequence objects are counted.
HeadSeqListed == Largest({n \in Seqs : seqs[n] # {}})

HeadSeq == Largest({R2Head} \cup {e.seq : e \in d1})

\* readBranchRuntimeFactById: the row, else the index, else the pending event.
Known(f) ==
  LET rows == {e \in d1 : e.id = f}
      waiting == {e \in mark.pending : e.id = f} IN
  IF rows # {} THEN rows ELSE IF ids[f] # {} THEN ids[f] ELSE waiting

Find(r) ==
  /\ At(r, "find")
  /\ LET known == Known(Id[r]) IN
     job' = [job EXCEPT ![r].event = IF known # {} THEN known
                                     ELSE {[seq |-> HeadSeq + 1, id |-> Id[r]]},
                        ![r].pc = IF known # {} THEN "old_row" ELSE "new_row"]
  /\ UNCHANGED <<leaseVars, stores, told, poll>>

\* INSERT OR IGNORE under both unique keys.
Inserted(S) == d1 \cup {e \in S : \A d \in d1 : d.seq # e.seq /\ d.id # e.id}

InsertRow(r) ==
  /\ At(r, "old_row") \/ At(r, "new_row")
  /\ Writes(r, d1' = Inserted(job[r].event), UNCHANGED d1,
            Moves(r, IF job[r].pc = "old_row" THEN "old_seq" ELSE "new_mark"))
  /\ UNCHANGED <<head, fact, row, seqs, ids, mark, told, poll>>

Number(r) == (CHOOSE e \in job[r].event : TRUE).seq

MarkPending(r) ==
  /\ At(r, "new_mark")
  /\ Writes(r, mark' = [seq |-> Number(r), pending |-> job[r].event], UNCHANGED mark,
            Moves(r, "new_seq"))
  /\ UNCHANGED <<head, fact, row, d1, seqs, ids, told, poll>>

\* writeR2RuntimeFactSequence: create-only; another fact's number is a conflict.
PutSequence(r) ==
  /\ At(r, "repair_seq") \/ At(r, "old_seq") \/ At(r, "new_seq")
  /\ IF seqs[Number(r)] \in {{}, job[r].event}
     THEN Writes(r, seqs' = [seqs EXCEPT ![Number(r)] = job[r].event], UNCHANGED seqs,
                 Moves(r, IF job[r].pc = "repair_seq" THEN "repair_id"
                          ELSE IF job[r].pc = "old_seq" THEN "old_id" ELSE "new_id"))
     ELSE Throws(r) /\ UNCHANGED <<leaseVars, seqs>>
  /\ UNCHANGED <<head, fact, row, d1, ids, mark, told, poll>>

PutIndex(r) ==
  /\ At(r, "repair_id") \/ At(r, "old_id") \/ At(r, "new_id")
  /\ Writes(r, ids' = [f \in Facts |-> IF \E e \in job[r].event : e.id = f
                                       THEN job[r].event ELSE ids[f]],
            UNCHANGED ids,
            Moves(r, IF job[r].pc = "repair_id" THEN "repair_mark"
                     ELSE IF job[r].pc = "old_id" THEN "old_mark" ELSE "new_clear"))
  /\ UNCHANGED <<head, fact, row, d1, seqs, mark, told, poll>>

\* The head object is written without a pending event: the number repaired or
\* added, or the largest one found.
ClearMark(r) ==
  /\ At(r, "repair_mark") \/ At(r, "old_mark") \/ At(r, "new_clear")
  /\ Writes(r, mark' = [seq |-> IF job[r].pc = "old_mark" THEN Max({Number(r), R2Head})
                                ELSE Number(r),
                        pending |-> {}],
            UNCHANGED mark, Moves(r, IF job[r].pc = "repair_mark" THEN "find" ELSE "finish"))
  /\ UNCHANGED <<head, fact, row, d1, seqs, ids, told, poll>>

Finish(r) ==
  /\ At(r, "finish")
  /\ FinishWork(r, job[r].failed = "yes")
  /\ told' = IF answer'[r] = "ok" THEN [told EXCEPT ![r] = job[r].event] ELSE told
  /\ UNCHANGED <<stores, job, poll>>

Stops(r) == Crash(r) /\ UNCHANGED <<stores, job, told, poll>>

\* An edit moves the branch while nobody live holds the lease.
MoveHead ==
  /\ Takeable /\ head < MaxHead
  /\ head' = head + 1
  /\ UNCHANGED <<leaseVars, fact, row, timeline, job, told, poll>>

LeaseOnly ==
  /\ Expire \/ \E r \in Requests : Renew(r)
  /\ UNCHANGED <<stores, job, told, poll>>

-----------------------------------------------------------------------------
(* pollBranchRuntimeFactsSince: the rows, the listed objects, then the head *)
(* object.                                                                  *)

\* The lowest PageLimit events after the cursor.
Page(S) ==
  LET after == {e \in S : e.seq > poll.cursor} IN
  {e \in after : Cardinality({d \in after : d.seq < e.seq}) < PageLimit}

PollRows ==
  /\ poll.pc = "idle"
  /\ poll' = [poll EXCEPT !.pc = "list", !.rows = Page(d1)]
  /\ UNCHANGED <<leaseVars, stores, job, told>>

PollList ==
  /\ poll.pc = "list"
  /\ poll' = [poll EXCEPT !.pc = "mark", !.listed = Page(UNION {seqs[n] : n \in Seqs})]
  /\ UNCHANGED <<leaseVars, stores, job, told>>

\* r2SafeHorizon: behind a full page of objects no row is shown.
Within(S, listed) ==
  LET last == Largest({e.seq : e \in listed}) IN
  {e \in S : listed = {} \/ last >= R2Head \/ e.seq <= last}

PollMark ==
  /\ poll.pc = "mark"
  /\ LET waiting == {e \in mark.pending : /\ e.seq > poll.cursor
                                          /\ \A d \in poll.listed : d.seq # e.seq}
         listed == Page(poll.listed \cup waiting)
         other == {e \in listed : \A d \in poll.rows : d.id # e.id /\ d.seq # e.seq}
         page == Page(Within(poll.rows \cup other, listed)) IN
     poll' = [pc |-> "idle", rows |-> {}, listed |-> {}, seen |-> poll.seen \cup page,
              cursor |-> IF page = {} THEN poll.cursor ELSE Largest({e.seq : e \in page})]
  /\ UNCHANGED <<leaseVars, stores, job, told>>

-----------------------------------------------------------------------------
Next ==
  \/ \E r \in Requests :
       \/ Start(r) \/ ReadBranch(r) \/ Begin(r) \/ PutFact(r) \/ PutRow(r)
       \/ Repair(r) \/ Find(r) \/ InsertRow(r) \/ MarkPending(r) \/ PutSequence(r)
       \/ PutIndex(r) \/ ClearMark(r) \/ Finish(r) \/ Stops(r)
  \/ MoveHead \/ LeaseOnly
  \/ PollRows \/ PollList \/ PollMark

Spec == Init /\ [][Next]_vars

-----------------------------------------------------------------------------
Events == d1 \cup UNION ({seqs[n] : n \in Seqs} \cup {ids[f] : f \in Facts}) \cup mark.pending

(* In every copy of the timeline a fact has one number and a number one    *)
(* fact, whatever call failed in between and however often the request was *)
(* repeated ("Appends a fact once, returning its existing event for an     *)
(* idempotent retry").                                                     *)
OneNumberPerFact ==
  \A e, d \in Events : e.id = d.id <=> e.seq = d.seq

(* A request answered with success has its own data stored, and its event  *)
(* in the rows and in the numbered objects, where every poll finds it.     *)
AnswerIsStored ==
  \A r \in Requests : \A e \in told[r] :
    /\ e.id = Id[r] /\ e \in d1 /\ seqs[e.seq] = {e}
    /\ \E o \in fact[Id[r]] : o.body = Body[r]

(* Polling by cursor never passes a fact over: all that is stored up to    *)
(* the cursor was shown (pollBranchRuntimeFactsSince: "Polls runtime facts *)
(* after a branch-local cursor with D1-primary/R2 fallback").              *)
PollSkipsNothing ==
  \A e \in Events : e.seq <= poll.cursor => e \in poll.seen
=============================================================================
