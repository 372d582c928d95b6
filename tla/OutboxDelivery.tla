--------------------------- MODULE OutboxDelivery ---------------------------
(***************************************************************************)
(* Outbox delivery from claim to acknowledgement: dispatchOutboxShard,     *)
(* handleOutboxQueue and recoverOutbox (outbox-runtime.ts),                *)
(* deliverClaimedOutbox and consumeOutboxBatch (outbox-platform.ts),       *)
(* R2OutboxArchive and D1OutboxProjection (outbox-storage.ts), on top of   *)
(* OutboxLedger.                                                           *)
(*                                                                         *)
(* Every await is a place where other dispatchers and consumers run, where *)
(* the call may fail with or without its effect, and where the process may *)
(* stop.  The queue delivers a reference any number of times, in any       *)
(* order, or never.  The archived artifact of a job is determined by the   *)
(* job (materializeClaimedOutbox reads immutable versions), so an archive  *)
(* entry is the pair of job and key.                                       *)
(***************************************************************************)
EXTENDS OutboxLedger

CONSTANTS
  Dispatchers,  \* producers: alarm, post-commit wake, cron sweep
  Consumers,    \* queue consumers
  Keys          \* archive keys 1..Keys a consumer may be configured with

ASSUME DeliveryConstants == Keys \in Nat \ {0}

VARIABLES
  sending,    \* per dispatcher: claimed references not yet sent
  queue,      \* references in the queue
  consumer,   \* per consumer: the delivery in progress
  archive,    \* R2: sealed artifacts
  receipts,   \* D1: state_plane_outbox_delivery_receipts
  cursor      \* D1: state_plane_outbox_projection_cursor of the domain

platformVars == <<sending, queue, consumer, archive, receipts, cursor>>
vars == <<committed, generation, delivery, bootstrap,
          sending, queue, consumer, archive, receipts, cursor>>

Key == 1..Keys

Steps == {"idle", "taken", "material", "archived", "applying", "projected", "failing"}

NoCursor == <<-1, 0, 0>>

Idle == [step |-> "idle", job |-> 0, attempt |-> 0, key |-> 0]

Init ==
  /\ LedgerInit
  /\ sending = [d \in Dispatchers |-> {}]
  /\ queue = {}
  /\ consumer = [c \in Consumers |-> Idle]
  /\ archive = {} /\ receipts = {} /\ cursor = NoCursor

RefOf(c) == [job |-> consumer[c].job, attempt |-> consumer[c].attempt]

\* Faults are unlimited until the last attempt the bound allows.
MayFail(o) == delivery[o].attempts < MaxAttempts

-----------------------------------------------------------------------------
\* dispatchOutboxShard.
Dispatch(d) ==
  /\ sending[d] = {}
  /\ \E S \in SUBSET Job : /\ ClaimOutbox(S)
                           /\ sending' = [sending EXCEPT ![d] = Items(S)]
  /\ UNCHANGED <<queue, consumer, archive, receipts, cursor>>

Send(d, ref) ==
  /\ ref \in sending[d]
  /\ queue' = queue \cup {ref}
  /\ sending' = [sending EXCEPT ![d] = @ \ {ref}]
  /\ UNCHANGED <<ledgerVars, consumer, archive, receipts, cursor>>

\* send throws, with the message enqueued or not; the claim is released.
SendFails(d, ref) ==
  /\ ref \in sending[d]
  /\ MayFail(ref.job)
  /\ queue' \in {queue, queue \cup {ref}}
  /\ sending' = [sending EXCEPT ![d] = @ \ {ref}]
  /\ \E r \in Reads(delivery[ref.job]) : Retry(ref, r)
  /\ UNCHANGED <<consumer, archive, receipts, cursor>>

\* The dispatcher stops, or its retryOutbox call is lost as well.
SendAbandoned(d, ref) ==
  /\ ref \in sending[d]
  /\ MayFail(ref.job)
  /\ sending' = [sending EXCEPT ![d] = @ \ {ref}]
  /\ UNCHANGED <<ledgerVars, queue, consumer, archive, receipts, cursor>>

\* The queue gives up on a reference (max_retries).
QueueDrops(ref) ==
  /\ ref \in queue
  /\ MayFail(ref.job)
  /\ queue' = queue \ {ref}
  /\ UNCHANGED <<ledgerVars, sending, consumer, archive, receipts, cursor>>

-----------------------------------------------------------------------------
\* deliverClaimedOutbox.
Take(c, ref) ==
  /\ consumer[c].step = "idle"
  /\ ref \in queue
  /\ \E k \in Key : consumer' = [consumer EXCEPT ![c] =
       [step |-> "taken", job |-> ref.job, attempt |-> ref.attempt, key |-> k]]
  /\ UNCHANGED <<ledgerVars, sending, queue, archive, receipts, cursor>>

Moves(c, s) == consumer' = [consumer EXCEPT ![c].step = s]

\* message.ack(): best effort, the queue may deliver the reference again.
Settles(c) ==
  /\ consumer' = [consumer EXCEPT ![c] = Idle]
  /\ queue' \in {queue, queue \ {RefOf(c)}}

ReadClaimed(c) ==
  /\ consumer[c].step = "taken"
  /\ \E r \in Reads(delivery[consumer[c].job]) :
       IF HoldsLease(RefOf(c), r) THEN Moves(c, "material") /\ UNCHANGED queue
                                  ELSE Settles(c)
  /\ UNCHANGED <<ledgerVars, sending, archive, receipts, cursor>>

\* putIfAbsent, and on an existing object its verification.
Archive(c) ==
  /\ consumer[c].step = "material"
  /\ archive' = archive \cup {<<consumer[c].job, consumer[c].key>>}
  /\ \/ Moves(c, "archived")
     \/ MayFail(consumer[c].job) /\ Moves(c, "failing")
  /\ UNCHANGED <<ledgerVars, sending, queue, receipts, cursor>>

Tuple(c) == <<delivery[consumer[c].job].generation, consumer[c].job, consumer[c].key>>

\* apply first looks for the receipt of the job and key.
ProjectReads(c) ==
  /\ consumer[c].step = "archived"
  /\ Moves(c, IF Tuple(c) \in receipts THEN "projected" ELSE "applying")
  /\ UNCHANGED <<ledgerVars, sending, queue, archive, receipts, cursor>>

Newer(s, t) ==
  \/ s[1] > t[1]
  \/ s[1] = t[1] /\ s[2] > t[2]
  \/ s[1] = t[1] /\ s[2] = t[2] /\ s[3] > t[3]

CursorAfter(t) == IF Newer(t, cursor) THEN t ELSE cursor

\* One D1 batch: the receipt unless it exists, and the monotonic cursor.
ProjectApplies(c) ==
  /\ consumer[c].step = "applying"
  /\ receipts' = receipts \cup {Tuple(c)}
  /\ cursor' = CursorAfter(Tuple(c))
  /\ \/ Moves(c, "projected")
     \/ MayFail(consumer[c].job) /\ Moves(c, "failing")
  /\ UNCHANGED <<ledgerVars, sending, queue, archive>>

\* acknowledge: acknowledged, duplicate and stale all settle the message.
\* Mutant: the acknowledgement does not wait for the projection.
AcknowledgesEarly(c) ==
  /\ consumer[c].step \in {"archived", "projected"}
  /\ \E r \in Reads(delivery[consumer[c].job]) : Acknowledge(RefOf(c), r)
  /\ Settles(c)
  /\ UNCHANGED <<sending, archive, receipts, cursor>>

Acknowledges(c) ==
  /\ consumer[c].step = "projected"
  /\ \E r \in Reads(delivery[consumer[c].job]) : Acknowledge(RefOf(c), r)
  /\ Settles(c)
  /\ UNCHANGED <<sending, archive, receipts, cursor>>

\* The acknowledgement is applied and its answer lost.
AcknowledgeUnheard(c) ==
  /\ consumer[c].step = "projected"
  /\ MayFail(consumer[c].job)
  /\ \E r \in Reads(delivery[consumer[c].job]) : Acknowledge(RefOf(c), r)
  /\ Moves(c, "failing")
  /\ UNCHANGED <<sending, queue, archive, receipts, cursor>>

\* Any awaited call fails without its effect.
Fails(c) ==
  /\ consumer[c].step \in Steps \ {"idle", "failing"}
  /\ MayFail(consumer[c].job)
  /\ Moves(c, "failing")
  /\ UNCHANGED <<ledgerVars, sending, queue, archive, receipts, cursor>>

\* The catch block releases the claim; the message is retried by the queue.
Releases(c) ==
  /\ consumer[c].step = "failing"
  /\ \E r \in Reads(delivery[consumer[c].job]) : Retry(RefOf(c), r)
  /\ consumer' = [consumer EXCEPT ![c] = Idle]
  /\ UNCHANGED <<sending, queue, archive, receipts, cursor>>

\* The consumer stops, or the release is lost and its failure swallowed.
Crash(c) ==
  /\ consumer[c].step # "idle"
  /\ MayFail(consumer[c].job)
  /\ consumer' = [consumer EXCEPT ![c] = Idle]
  /\ UNCHANGED <<ledgerVars, sending, queue, archive, receipts, cursor>>

ConsumerStep(c) ==
  \/ ReadClaimed(c)
  \/ Archive(c)
  \/ ProjectReads(c)
  \/ ProjectApplies(c)
  \/ Acknowledges(c)
  \/ Releases(c)

Next ==
  \/ /\ \/ Commit
        \/ GenerationMoves
        \/ \E o \in Job : Prune(o) \/ TimePasses(o)
     /\ UNCHANGED platformVars
  \/ \E d \in Dispatchers :
       \/ Dispatch(d)
       \/ \E ref \in sending[d] : Send(d, ref) \/ SendFails(d, ref) \/ SendAbandoned(d, ref)
  \/ \E ref \in queue : QueueDrops(ref)
  \/ \E c \in Consumers :
       \/ \E ref \in queue : Take(c, ref)
       \/ ConsumerStep(c)
       \/ AcknowledgeUnheard(c)
       \/ Fails(c)
       \/ Crash(c)

Spec == Init /\ [][Next]_vars

-----------------------------------------------------------------------------
\* Types of the delivery rows, of the messages and of the stored artifacts
\* (branch_outbox_delivery in sqlite-schema.ts, OutboxReferenceMessage).
TypeOK ==
  /\ committed \in 0..Jobs
  /\ generation \in 0..MaxMoves
  /\ delivery \in [Job -> Row]
  /\ bootstrap \in [cursor : 0..Jobs, complete : {"yes", "no"}]
  /\ sending \in [Dispatchers -> SUBSET Ref]
  /\ queue \subseteq Ref
  /\ consumer \in [Consumers -> [step : Steps, job : 0..Jobs, attempt : 0..MaxAttempts,
                                 key : 0..Keys]]
  /\ archive \subseteq Job \X Key
  /\ receipts \subseteq (0..MaxMoves) \X Job \X Key
  /\ cursor \in {NoCursor} \cup ((0..MaxMoves) \X Job \X Key)

\* "Consumers seal immutable artifacts before writing them to R2 and persist
\* derived metadata ... before acknowledging delivery": a job marked
\* completed is archived and has a receipt under the same key, however the
\* attempts that led there overlapped.
CompletedIsPersisted ==
  \A o \in Job : delivery[o].status = "completed" =>
    \E k \in Key : /\ <<o, k>> \in archive
                   /\ <<delivery[o].generation, o, k>> \in receipts

\* A receipt in D1 always has its artifact in R2.
ReceiptHasArtifact ==
  \A t \in receipts : <<t[2], t[3]>> \in archive

\* The domain cursor is the newest delivered version, whatever the order of
\* the deliveries.
CursorIsNewest ==
  IF receipts = {} THEN cursor = NoCursor
  ELSE cursor \in receipts /\ \A t \in receipts : ~ Newer(t, cursor)

\* Once bootstrapOutbox has reported completion every canonical row that was
\* not imported is registered, and no imported one ever is.
BootstrapIsExact ==
  /\ bootstrap.complete = "yes" =>
       \A o \in (1..committed) \ Imported : delivery[o].status # "absent"
  /\ \A o \in Imported : delivery[o].status = "absent"

\* What D1 and the ledger know of the rows is exact: the newest version, and
\* no row forgotten or registered twice over.
OutboxIsExact == CursorIsNewest /\ BootstrapIsExact

\* Completion and fencing are final: no late retry, repeated claim or prune
\* brings a job back.
SettledIsFinal ==
  [][\A o \in Job : delivery[o].status \in {"completed", "fenced"} =>
                      delivery'[o].status = delivery[o].status]_vars

\* Only the newest claim of a job decides it: an actor left behind by a
\* later claim neither completes the job nor releases it.
NewestClaimDecides ==
  [][\A c \in Consumers :
       LET o == consumer[c].job IN
       (/\ consumer[c].step # "idle" /\ consumer'[c] # consumer[c]
        /\ consumer[c].attempt < delivery[o].attempts) =>
           delivery'[o] = delivery[o]]_vars

\* Every commit reaches a settled state: delivered, or fenced because the
\* branch moved to another generation.
EveryCommitIsSettled ==
  \A o \in Job \ Imported :
    o <= committed ~> delivery[o].status \in {"completed", "fenced"}
=============================================================================
