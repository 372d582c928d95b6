---------------------------- MODULE LegacyAppend ----------------------------
(***************************************************************************)
(* Appending diff events to one branch kept in blob storage:               *)
(* appendEventsToBranch and committedAcknowledgementFor                    *)
(* (nulledit/service.ts) over the event, marker and snapshot objects of    *)
(* branches/storage/diff-log.ts and repository.ts, and the readers         *)
(* readBranchContent (branches/content/replay.ts) and                      *)
(* pollBranchDiffEventsSince, under the lease of MutationLease.            *)
(*                                                                         *)
(* Each await is a place where other requests run.  A put that its caller  *)
(* gave up on (an error, a sibling of Promise.all that failed first, a     *)
(* stopped process) may still reach the store: it stays in flight and      *)
(* lands later or never.  D1 only mirrors what R2 already stores, so it is *)
(* left out; the branch already uses heap version 2.  Two events with one  *)
(* id are two payloads under the same eventId.                             *)
(***************************************************************************)
EXTENDS MutationLease, Integers, Sequences, FiniteSetsExt, TLC

CONSTANTS
  Events,    \* the events clients send
  IdOf,      \* eventId of an event
  Source,    \* sourceClientId of an event
  Follows,   \* metadata.followsSeq of an event, or NoSeq
  Batches,   \* the sequences of events a request may carry
  Interval   \* checkpointInterval

NoSeq == -2

ASSUME AppendConstants ==
  /\ DOMAIN IdOf = Events /\ DOMAIN Source = Events
  /\ Follows \in [Events -> Int]
  /\ Interval \in Nat \ {0}

VARIABLES
  head,         \* branch record: headSnapshotId (also its etag) and headEventSeq
  eventAt,      \* event objects by seq: the event and its snapshotId
  snapshotAt,   \* snapshot objects by id: eventIds and the patch range
  checkpointAt, \* checkpoint objects by snapshot id
  marker,       \* v2 event id markers: the seq and snapshotId of an id
  flight,       \* puts given up by their callers that may still land
  job,          \* per request: the locals of appendEventsToBranch
  told          \* acknowledgements clients received

storeVars == <<head, eventAt, snapshotAt, checkpointAt, marker>>
vars == <<leaseVars, storeVars, flight, job, told>>

Ids == Range(IdOf)

Idle == [pc |-> "idle", batch |-> <<>>, head |-> [snap |-> 0, seq |-> -1],
         content |-> <<>>, fresh |-> <<>>, acks |-> {}, todo |-> {}, error |-> "none"]

LegacyInit ==
  /\ LeaseInit
  /\ head = [snap |-> 0, seq |-> -1]
  /\ eventAt = <<>> /\ snapshotAt = <<>> /\ marker = <<>>
  /\ checkpointAt = 0 :> <<>>
  /\ flight = {}
  /\ job = [r \in Requests |-> Idle]
  /\ told = {}

-----------------------------------------------------------------------------
(* Reading the branch. *)

\* readEventsBySeqRange: all of the range or nothing.
Stored(from, to) == \A q \in from..to : q \in DOMAIN eventAt

EventsBetween(from, to) ==
  IF to < from THEN <<>> ELSE [i \in 1..(to - from + 1) |-> eventAt[from + i - 1].event]

Missing == <<"missing">>

\* readBranchContent: the nearest checkpoint, then the patch ranges after it.
BranchContent(snap) ==
  LET content[n \in 0..snap] ==
        IF n \in DOMAIN checkpointAt THEN checkpointAt[n]
        ELSE IF n = 0 \/ n \notin DOMAIN snapshotAt THEN Missing
        ELSE IF content[n-1] = Missing \/ ~Stored(snapshotAt[n].start, snapshotAt[n].end)
             THEN Missing
             ELSE content[n-1] \o EventsBetween(snapshotAt[n].start, snapshotAt[n].end)
  IN  content[snap]

\* committedAcknowledgementFor: the newest snapshot below the head that names
\* the event must agree with the stored event.
\* Mutant: a stored event counts as committed without looking at snapshots.
AcknowledgementStored(h, q) ==
  {[id |-> IdOf[eventAt[q].event], seq |-> q, snap |-> eventAt[q].snap]}

Acknowledgement(h, q) ==
  LET id == IdOf[eventAt[q].event]
      naming == {n \in 1..h.snap : n \in DOMAIN snapshotAt /\ id \in snapshotAt[n].ids}
      snap == Max(naming)
  IN  IF /\ q <= h.seq
         /\ naming # {}
         /\ snap..h.snap \subseteq DOMAIN snapshotAt
         /\ eventAt[q].snap = snap
         /\ snapshotAt[snap].start <= q /\ q <= snapshotAt[snap].end
      THEN {[id |-> id, seq |-> q, snap |-> snap]}
      ELSE {}

\* lookupBranchDiffEventIdentity: by marker, else by scanning the log.
SeqsOf(id) == {q \in DOMAIN eventAt : IdOf[eventAt[q].event] = id}

Lookup(id) ==
  IF id \in DOMAIN marker
  THEN LET m == marker[id]
       IN  IF m.seq \in SeqsOf(id) /\ eventAt[m.seq].snap = m.snap
           THEN [status |-> "found", seq |-> m.seq, marked |-> TRUE]
           ELSE [status |-> "invalid", seq |-> NoSeq, marked |-> TRUE]
  ELSE IF SeqsOf(id) = {} THEN [status |-> "absent", seq |-> NoSeq, marked |-> FALSE]
  ELSE IF Cardinality(SeqsOf(id)) > 1
       THEN [status |-> "invalid", seq |-> NoSeq, marked |-> FALSE]
  ELSE [status |-> "found", seq |-> Max(SeqsOf(id)), marked |-> FALSE]

\* committedContiguousPage: the events after a cursor up to the committed
\* head, without those of one client; the cursor moves past what it skips.
\* Mutant: the cursor stays before an event it leaves out.
PageStopsAtExcluded(after, limit, exclude) ==
  LET scan[q \in after..(head.seq + 1)] ==
        IF q = after THEN [events |-> <<>>, cursor |-> after]
        ELSE LET prior == scan[q-1]
             IN  IF prior.cursor < q - 1 \/ Len(prior.events) >= limit
                    \/ q > head.seq \/ q \notin DOMAIN eventAt
                    \/ Source[eventAt[q].event] = exclude
                 THEN prior
                 ELSE [events |-> Append(prior.events, eventAt[q].event), cursor |-> q]
  IN  IF after > head.seq THEN [events |-> <<>>, cursor |-> after]
      ELSE scan[head.seq + 1]

CommittedContiguousPage(after, limit, exclude) ==
  LET scan[q \in after..(head.seq + 1)] ==
        IF q = after THEN [events |-> <<>>, cursor |-> after]
        ELSE LET prior == scan[q-1]
             IN  IF prior.cursor < q - 1 \/ Len(prior.events) >= limit
                    \/ q > head.seq \/ q \notin DOMAIN eventAt
                 THEN prior
                 ELSE [events |-> IF Source[eventAt[q].event] = exclude THEN prior.events
                                  ELSE Append(prior.events, eventAt[q].event),
                       cursor |-> q]
  IN  IF after > head.seq THEN [events |-> <<>>, cursor |-> after]
      ELSE scan[head.seq + 1]

-----------------------------------------------------------------------------
(* Writing objects. *)

\* writeBranchDiffEvent, writeBranchDiffEventIdMarker: put if absent.
IfAbsent(f, k, v) == IF k \in DOMAIN f THEN f ELSE k :> v @@ f

\* The effect of a put on the store.
Lands(p) ==
  /\ eventAt' = IF p.kind = "event" THEN IfAbsent(eventAt, p.key, p.value) ELSE eventAt
  /\ marker' = IF p.kind = "marker" THEN IfAbsent(marker, p.key, p.value) ELSE marker
  /\ snapshotAt' = IF p.kind = "snapshot" THEN p.key :> p.value @@ snapshotAt ELSE snapshotAt
  /\ checkpointAt' = IF p.kind = "checkpoint" THEN p.key :> p.value @@ checkpointAt
                     ELSE checkpointAt
  /\ head' = IF p.kind = "branch" /\ head.snap = p.key THEN p.value ELSE head

\* What the puts of a request write, from the head it read.
NextSnap(r) == job[r].head.snap + 1
SeqAt(r, i) == job[r].head.seq + i

EventPut(r, i) == [kind |-> "event", key |-> SeqAt(r, i),
                   value |-> [event |-> job[r].fresh[i], snap |-> NextSnap(r)]]
MarkerPut(r, i) == [kind |-> "marker", key |-> IdOf[job[r].fresh[i]],
                    value |-> [seq |-> SeqAt(r, i), snap |-> NextSnap(r)]]
SnapshotPut(r) == [kind |-> "snapshot", key |-> NextSnap(r),
                   value |-> [ids |-> {IdOf[e] : e \in Range(job[r].fresh)},
                              start |-> SeqAt(r, 1), end |-> SeqAt(r, Len(job[r].fresh))]]
\* Mutant: the checkpoint is taken before the batch is applied.
CheckpointPutEarly(r) == [kind |-> "checkpoint", key |-> NextSnap(r), value |-> job[r].content]

CheckpointPut(r) == [kind |-> "checkpoint", key |-> NextSnap(r),
                     value |-> job[r].content \o job[r].fresh]
BranchPut(r) == [kind |-> "branch", key |-> job[r].head.snap,
                 value |-> [snap |-> NextSnap(r), seq |-> SeqAt(r, Len(job[r].fresh))]]

\* The puts a request has issued and not seen the end of.
Issued(r) ==
  CASE job[r].pc = "events"     -> {EventPut(r, i) : i \in job[r].todo}
    [] job[r].pc = "markers"    -> {MarkerPut(r, i) : i \in job[r].todo}
    [] job[r].pc = "snapshot"   -> {SnapshotPut(r)}
    [] job[r].pc = "checkpoint" -> {CheckpointPut(r)}
    [] job[r].pc = "publish"    -> {BranchPut(r)}
    [] OTHER                    -> {}

-----------------------------------------------------------------------------
(* appendEventsToBranch. *)

At(r, pc) == phase[r] = "working" /\ job[r].pc = pc

Goes(r, pc) == job' = [job EXCEPT ![r].pc = pc]

Throws(r, e) == job' = [job EXCEPT ![r].pc = "finish", ![r].error = e]

Quiet == UNCHANGED <<leaseVars, told, flight>>

Start(r) ==
  /\ \/ Acquire(r) /\ \E b \in Batches : job' = [job EXCEPT ![r].pc = "head", ![r].batch = b]
     \/ AcquireTimesOut(r) /\ UNCHANGED job
  /\ UNCHANGED <<storeVars, flight, told>>

\* readBranchWithEtag and readBranchContent of its head.
ReadHead(r) ==
  /\ At(r, "head")
  /\ LET content == BranchContent(head.snap)
     IN  IF content = Missing THEN Throws(r, "content_missing")
         ELSE job' = [job EXCEPT ![r].pc = "lookup", ![r].head = head, ![r].content = content]
  /\ Quiet /\ UNCHANGED storeVars

\* One input event: skipped, refused, acknowledged, resumed or accepted.
Classify(r, e) ==
  LET found == Lookup(IdOf[e])
      ack == Acknowledgement(job[r].head, found.seq)
  IN  CASE found.status = "invalid" -> [to |-> "diff_event_identity_invalid", acks |-> {}]
        [] found.status = "absent"  -> [to |-> "accept", acks |-> {}]
        [] OTHER ->
             IF eventAt[found.seq].event # e THEN [to |-> "diff_event_id_reused", acks |-> {}]
             ELSE IF ack # {} THEN [to |-> "ack", acks |-> ack]
             ELSE IF /\ ~found.marked
                     /\ found.seq = job[r].head.seq + Len(job[r].fresh) + 1
                     /\ eventAt[found.seq].snap = NextSnap(r)
                  THEN [to |-> "accept", acks |-> {}]
             ELSE [to |-> "diff_event_outcome_unknown", acks |-> {}]

\* The loop body; todo collects the inputs already seen.
LookupNext(r) ==
  /\ At(r, "lookup")
  /\ LET i == Cardinality(job[r].todo) + 1
         e == job[r].batch[i]
         seen == {job[r].batch[k] : k \in 1..(i-1)}
         step == Classify(r, e)
     IN  /\ i <= Len(job[r].batch)
         /\ IF e \in seen
            THEN /\ job' = [job EXCEPT ![r].todo = @ \cup {i}]
                 /\ UNCHANGED marker
            ELSE IF \E f \in seen : IdOf[f] = IdOf[e]
            THEN Throws(r, "diff_event_id_reused") /\ UNCHANGED marker
            ELSE CASE step.to = "accept" ->
                        /\ job' = [job EXCEPT ![r].todo = @ \cup {i}, ![r].fresh = Append(@, e)]
                        /\ UNCHANGED marker
                   [] step.to = "ack" ->
                        /\ job' = [job EXCEPT ![r].todo = @ \cup {i},
                                              ![r].acks = @ \cup step.acks]
                        /\ LET a == CHOOSE a \in step.acks : TRUE
                           IN  marker' = IfAbsent(marker, a.id, [seq |-> a.seq, snap |-> a.snap])
                   [] OTHER -> Throws(r, step.to) /\ UNCHANGED marker
  /\ Quiet /\ UNCHANGED <<head, eventAt, snapshotAt, checkpointAt>>

\* Predecessor checks, and what already sits at the sequences to be written.
CheckPredecessor(r) ==
  /\ At(r, "lookup")
  /\ Cardinality(job[r].todo) = Len(job[r].batch)
  /\ IF job[r].fresh = <<>> THEN Goes(r, "finish")
     ELSE IF \E i \in 1..Len(job[r].fresh) :
               \/ Follows[job[r].fresh[i]] \notin {NoSeq, SeqAt(r, i - 1)}
               \/ /\ SeqAt(r, i) \in DOMAIN eventAt
                  /\ eventAt[SeqAt(r, i)].event # job[r].fresh[i]
     THEN Throws(r, "diff_predecessor_mismatch")
     ELSE job' = [job EXCEPT ![r].pc = "begin", ![r].todo = 1..Len(job[r].fresh)]
  /\ Quiet /\ UNCHANGED storeVars

Begin(r) ==
  /\ At(r, "begin")
  /\ \/ BeginCommit(r) /\ Goes(r, "events")
     \/ BeginCommitRefused(r) /\ Throws(r, "branch_lock_lost_before_commit")
  /\ UNCHANGED <<storeVars, flight, told>>

\* One of the parallel event puts; a different stored event is a conflict,
\* which fails the request while its siblings are still on their way.
WriteEvent(r, i) ==
  LET p == EventPut(r, i)
  IN  /\ At(r, "events")
      /\ i \in job[r].todo
      /\ Lands(p)
      /\ IF p.key \in DOMAIN eventAt /\ eventAt[p.key] # p.value
         THEN /\ Throws(r, "diff_event_storage_conflict")
              /\ \E late \in SUBSET (Issued(r) \ {p}) : flight' = flight \cup late
         ELSE /\ job' = [job EXCEPT ![r].todo = @ \ {i},
                                    ![r].pc = IF job[r].todo = {i} THEN "snapshot" ELSE @]
              /\ UNCHANGED flight
      /\ UNCHANGED <<leaseVars, told>>

WriteSnapshot(r) ==
  /\ At(r, "snapshot")
  /\ Lands(SnapshotPut(r))
  /\ Goes(r, IF NextSnap(r) % Interval = 0 THEN "checkpoint" ELSE "publish")
  /\ Quiet

WriteCheckpoint(r) ==
  /\ At(r, "checkpoint")
  /\ Lands(CheckpointPut(r))
  /\ Goes(r, "publish")
  /\ Quiet

\* writeBranch with the etag of the record that was read.
Publish(r) ==
  /\ At(r, "publish")
  /\ Lands(BranchPut(r))
  /\ IF head.snap = job[r].head.snap
     THEN job' = [job EXCEPT ![r].pc = "markers", ![r].todo = 1..Len(job[r].fresh)]
     ELSE Throws(r, "branch_head_fenced_write_failed")
  /\ Quiet

WriteMarker(r, i) ==
  LET p == MarkerPut(r, i)
  IN  /\ At(r, "markers")
      /\ i \in job[r].todo
      /\ Lands(p)
      /\ IF p.key \in DOMAIN marker /\ marker[p.key] # p.value
         THEN /\ Throws(r, "diff_event_marker_conflict")
              /\ \E late \in SUBSET (Issued(r) \ {p}) : flight' = flight \cup late
         ELSE /\ job' = [job EXCEPT ![r].todo = @ \ {i},
                                    ![r].pc = IF job[r].todo = {i} THEN "finish" ELSE @]
              /\ UNCHANGED flight
      /\ UNCHANGED <<leaseVars, told>>

AcceptedAcks(r) ==
  {[id |-> IdOf[job[r].fresh[i]], seq |-> SeqAt(r, i), snap |-> NextSnap(r)] :
     i \in 1..Len(job[r].fresh)}

\* The lock is given back and the client is answered.
Finish(r) ==
  /\ At(r, "finish")
  /\ FinishWork(r, job[r].error # "none")
  /\ told' = IF answer'[r] = "ok" THEN told \cup job[r].acks \cup AcceptedAcks(r) ELSE told
  /\ UNCHANGED <<storeVars, flight, job>>

\* A storage call of work rejects; its put may still be on its way.
WorkFails(r) ==
  /\ job[r].pc \notin {"begin", "finish"}
  /\ WorkThrows(r)
  /\ Throws(r, "storage")
  /\ \E late \in SUBSET Issued(r) : flight' = flight \cup late
  /\ UNCHANGED <<storeVars, told>>

Stops(r) ==
  /\ Crash(r)
  /\ \E late \in SUBSET Issued(r) : flight' = flight \cup late
  /\ UNCHANGED <<storeVars, job, told>>

\* A put nobody waits for reaches the store, or is gone.
LandsLate(p) ==
  /\ p \in flight
  /\ Lands(p) \/ UNCHANGED storeVars
  /\ flight' = flight \ {p}
  /\ UNCHANGED <<leaseVars, job, told>>

LeaseOnly ==
  /\ Expire \/ \E r \in Requests : Renew(r)
  /\ UNCHANGED <<storeVars, flight, job, told>>

Step(r) ==
  \/ Start(r) \/ ReadHead(r) \/ LookupNext(r) \/ CheckPredecessor(r) \/ Begin(r)
  \/ \E i \in job[r].todo : WriteEvent(r, i) \/ WriteMarker(r, i)
  \/ WriteSnapshot(r) \/ WriteCheckpoint(r) \/ Publish(r) \/ Finish(r)

LegacyNext ==
  \/ \E r \in Requests : Step(r) \/ WorkFails(r) \/ Stops(r)
  \/ \E p \in flight : LandsLate(p)
  \/ LeaseOnly

LegacySpec == LegacyInit /\ [][LegacyNext]_vars

-----------------------------------------------------------------------------
LegacyTypes ==
  /\ LeaseTypeOK
  /\ head.snap \in Nat /\ head.seq \in Int /\ head.seq >= -1
  /\ \A q \in DOMAIN eventAt : q \in Nat /\ eventAt[q].event \in Events
  /\ \A id \in DOMAIN marker : id \in Ids
  /\ \A r \in Requests : job[r].fresh \in Seq(Events)

(* Whatever appends interleave, fail or stop, replaying the head snapshot  *)
(* gives exactly the stored events 0..headEventSeq, in order, each event   *)
(* id once (appendEventsToBranch, readBranchContent).                      *)
ReplayIsTheLog ==
  /\ Stored(0, head.seq)
  /\ BranchContent(head.snap) = EventsBetween(0, head.seq)
  /\ \A p, q \in 0..head.seq :
       IdOf[eventAt[p].event] = IdOf[eventAt[q].event] => p = q

(* An acknowledgement, once a client has it, stays true: the event is in   *)
(* the committed log at that sequence and the named snapshot carries it.   *)
(* NULDOWN_API.md: "The server returns acknowledgements with the durable   *)
(* event sequence and snapshot".                                           *)
AcknowledgedIsDurable ==
  \A a \in told :
    /\ a.seq <= head.seq /\ a.seq \in DOMAIN eventAt
    /\ IdOf[eventAt[a.seq].event] = a.id
    /\ a.snap <= head.snap /\ a.snap \in DOMAIN snapshotAt
    /\ a.id \in snapshotAt[a.snap].ids

(* Reading page after page from the start, whatever the page size and the  *)
(* excluded client, yields the committed events of the other clients in    *)
(* order and ends at the head (pollBranchDiffEventsSince).                 *)
PagesCoverTheLog ==
  \A limit \in 1..2, c \in Range(Source) :
    LET pages[after \in -1..head.seq] ==
          LET page == CommittedContiguousPage(after, limit, c)
          IN  IF page.cursor = after THEN page.events
              ELSE page.events \o pages[page.cursor]
    IN  pages[-1] = SelectSeq(EventsBetween(0, head.seq), LAMBDA e : Source[e] # c)

(* An event stored outside the committed log with the snapshot id of an    *)
(* older head: no later head makes it the next one, so each retry of it    *)
(* answers diff_event_outcome_unknown.                                     *)
Stranded(e) ==
  \E q \in DOMAIN eventAt :
    /\ eventAt[q].event = e
    /\ eventAt[q].snap <= head.snap
    /\ Acknowledgement(head, q) = {}

(* A client told that the outcome of its append is unknown can retry the   *)
(* same events: none of them is refused for good.  transport/service.ts:   *)
(* "Branch mutation outcome could not be confirmed. Retry the exact same   *)
(* event."                                                                 *)
UnknownCanBeRetried ==
  \A r \in Requests :
    answer[r] = "unknown" => \A e \in Range(job[r].batch) : ~Stranded(e)
=============================================================================
