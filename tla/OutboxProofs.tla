---------------------------- MODULE OutboxProofs ----------------------------
(***************************************************************************)
(* Proofs about the outbox: delivery and its acknowledgement, and the      *)
(* bookkeeping that decides what is delivered.                             *)
(***************************************************************************)
EXTENDS OutboxDelivery, FiniteSetTheorems, WellFoundedInduction, TLAPS

\* Back ends, in the order in which they are tried.
USE SMTT(15), Zenon, Z3T(60)

-----------------------------------------------------------------------------
(***************************************************************************)
(* Delivery.                                                               *)
(*                                                                         *)
(* For any number of jobs, dispatchers, consumers, keys, attempts and      *)
(* generation changes, and on any clocks: nothing is acknowledged before   *)
(* it is stored, and what is settled stays settled.                        *)
(*                                                                         *)
(* CompletedIsPersisted alone is not inductive: an acknowledgement relies  *)
(* on what the same consumer stored two awaits earlier, and on the row of  *)
(* the job not having changed its generation since.  Stored(c) says the    *)
(* first; RowsFollowCommits, with the fact that a row once present stays   *)
(* present, gives the second.                                              *)
(***************************************************************************)

\* The shape of the state, without the bootstrap cursor and the projection
\* cursor, which the argument does not need.
Shape ==
  /\ committed \in 0..Jobs
  /\ generation \in 0..MaxMoves
  /\ delivery \in [Job -> Row]
  /\ sending \in [Dispatchers -> SUBSET Ref]
  /\ queue \subseteq Ref
  /\ consumer \in [Consumers -> [step : Steps, job : 0..Jobs, attempt : 0..MaxAttempts,
                                 key : 0..Keys]]

\* Rows are registered only for canonical rows that exist.
RowsFollowCommits == \A o \in Job : o > committed => delivery[o].status = "absent"

\* What a consumer has stored by the step it has reached.
Stored(c) ==
  LET o == consumer[c].job
      k == consumer[c].key IN
  /\ consumer[c].step # "idle" => o \in Job /\ k \in Key /\ consumer[c].attempt \in 1..MaxAttempts
  /\ consumer[c].step \in {"material", "archived", "applying", "projected"} =>
       delivery[o].status # "absent"
  /\ consumer[c].step \in {"archived", "applying", "projected"} => <<o, k>> \in archive
  /\ consumer[c].step = "projected" => Tuple(c) \in receipts

IInv ==
  /\ Shape
  /\ RowsFollowCommits
  /\ \A c \in Consumers : Stored(c)
  /\ CompletedIsPersisted
  /\ ReceiptHasArtifact

-----------------------------------------------------------------------------
\* What any step may do to a row: a row that exists stays and keeps its
\* generation, and a settled one keeps its status.
RowKept(old, new) ==
  old.status # "absent" =>
    /\ new.status # "absent"
    /\ new.generation = old.generation
    /\ old.status \in {"completed", "fenced"} => new.status = old.status

LedgerKeeps ==
  /\ committed' \in 0..Jobs
  /\ generation' \in 0..MaxMoves
  /\ delivery' \in [Job -> Row]
  /\ \A o \in Job : o > committed' => delivery'[o].status = "absent"
  /\ \A o \in Job : RowKept(delivery[o], delivery'[o])

\* Every ledger operation other than an acknowledgement.
NothingCompletes ==
  \A o \in Job : delivery'[o].status = "completed" => delivery[o].status = "completed"

\* The rows after a bootstrap page (bootstrapOutbox) still follow the
\* commits, and no existing row was touched.
LEMMA BootstrapKeeps ==
  ASSUME Shape, RowsFollowCommits
  PROVE  /\ Bootstrapped \in [Job -> Row]
         /\ \A o \in Job : /\ o > committed => Bootstrapped[o].status = "absent"
                           /\ delivery[o].status # "absent" => Bootstrapped[o] = delivery[o]
                           /\ delivery[o].status = "absent" =>
                                Bootstrapped[o].status \in {"absent", "pending"}
<1>1. BootstrapPage \subseteq 1..committed
  BY DEF BootstrapPage, Unvisited
<1>2. Registered(0) \in Row
  BY LedgerConstants DEF Registered, Row
<1>3. ASSUME NEW o \in Job
      PROVE  /\ Bootstrapped[o] \in Row
             /\ o > committed => Bootstrapped[o].status = "absent"
             /\ delivery[o].status # "absent" => Bootstrapped[o] = delivery[o]
             /\ delivery[o].status = "absent" => Bootstrapped[o].status \in {"absent", "pending"}
  <2>1. Bootstrapped[o] = IF o \in BootstrapPage /\ delivery[o].status = "absent"
                          THEN Registered(0) ELSE delivery[o]
    BY DEF Bootstrapped
  <2>2. o \in BootstrapPage => ~(o > committed)
    BY <1>1, LedgerConstants DEF Shape, Job
  <2>. QED
    BY <1>2, <2>1, <2>2 DEF Shape, RowsFollowCommits, Registered
<1>4. Bootstrapped = [o \in Job |-> Bootstrapped[o]]
  BY DEF Bootstrapped
<1>. QED
  BY <1>3, <1>4

\* The row a claim writes (claimOutbox).
LEMMA ClaimRowType ==
  ASSUME NEW row \in Row, InBound(row)
  PROVE  /\ ClaimRow(row) \in Row
         /\ ClaimRow(row).status \in {"fenced", "claimed"}
         /\ ClaimRow(row).generation = row.generation
<1>1. CASE row.generation # generation
  BY <1>1 DEF ClaimRow, Row
<1>2. CASE row.generation = generation
  <2>1. row.attempts + 1 \in 0..MaxAttempts
    BY <1>2, LedgerConstants DEF InBound, Row
  <2>2. ClaimRow(row) = [row EXCEPT !.status = "claimed", !.attempts = row.attempts + 1,
                                    !.timing = "waiting"]
    BY <1>2 DEF ClaimRow
  <2>. QED
    BY ZenonT(30), <2>1, <2>2 DEF Row
<1>. QED
  BY <1>1, <1>2

\* A claim (claimOutbox) claims or fences active rows only.
LEMMA ClaimKeeps ==
  ASSUME Shape, RowsFollowCommits, NEW S, ClaimOutbox(S)
  PROVE  LedgerKeeps /\ NothingCompletes
<1>1. PICK B : B = Bootstrapped
  OBVIOUS
<1>2. /\ B \in [Job -> Row]
      /\ \A o \in Job : /\ o > committed => B[o].status = "absent"
                        /\ delivery[o].status # "absent" => B[o] = delivery[o]
                        /\ delivery[o].status = "absent" => B[o].status \in {"absent", "pending"}
  BY <1>1, BootstrapKeeps
<1>3. /\ delivery' = [o \in Job |-> IF o \in S THEN ClaimRow(B[o]) ELSE B[o]]
      /\ UNCHANGED <<committed, generation>>
  BY <1>1 DEF ClaimOutbox
<1>4. \A o \in S : o \in Job /\ B[o].status \in {"pending", "claimed"} /\ InBound(B[o])
  BY <1>1 DEF ClaimOutbox, Candidates, Active
<1>5. ASSUME NEW o \in Job
      PROVE  /\ delivery'[o] \in Row
             /\ o > committed => delivery'[o].status = "absent"
             /\ RowKept(delivery[o], delivery'[o])
             /\ delivery'[o].status = "completed" => delivery[o].status = "completed"
  <2>1. CASE o \notin S
    BY <1>2, <1>3, <2>1 DEF RowKept
  <2>2. CASE o \in S
    <3>1. /\ delivery'[o] = ClaimRow(B[o])
          /\ B[o] \in Row
          /\ B[o].status \in {"pending", "claimed"} /\ InBound(B[o])
      BY <1>2, <1>3, <1>4, <2>2
    <3>2. ClaimRow(B[o]) \in Row
      BY <3>1, ClaimRowType
    <3>3. /\ ClaimRow(B[o]).status \in {"fenced", "claimed"}
          /\ ClaimRow(B[o]).generation = B[o].generation
      BY <3>1, ClaimRowType
    <3>. QED
      BY <1>2, <3>1, <3>2, <3>3 DEF RowKept
  <2>. QED
    BY <2>1, <2>2
<1>6. delivery' \in [Job -> Row]
  BY <1>3, <1>5
<1>. QED
  BY <1>3, <1>5, <1>6 DEF LedgerKeeps, NothingCompletes, Shape

\* A step that leaves the ledger alone.
LEMMA SameLedger ==
  ASSUME Shape, RowsFollowCommits, UNCHANGED <<committed, generation, delivery>>
  PROVE  LedgerKeeps /\ NothingCompletes
BY DEF Shape, RowsFollowCommits, LedgerKeeps, NothingCompletes, RowKept

\* A step that rewrites the row of one job and registers nothing.
LEMMA OneRowKeeps ==
  ASSUME Shape, RowsFollowCommits, NEW o \in Job, NEW v \in Row,
         delivery[o].status = "absent" => v.status = "absent",
         delivery' = [delivery EXCEPT ![o] = v],
         UNCHANGED <<committed, generation>>,
         RowKept(delivery[o], v)
  PROVE  /\ LedgerKeeps
         /\ v.status # "completed" \/ delivery[o].status = "completed" => NothingCompletes
         /\ \A p \in Job : delivery'[p].status = "completed" =>
                            delivery[p].status = "completed" \/ p = o
<1>1. delivery' \in [Job -> Row]
  BY DEF Shape
<1>2. \A p \in Job : delivery'[p] = IF p = o THEN v ELSE delivery[p]
  BY DEF Shape
<1>3. o > committed => v.status = "absent"
  BY DEF RowsFollowCommits
<1>4. \A p \in Job : RowKept(delivery[p], delivery'[p])
  BY <1>2 DEF RowKept
<1>. QED
  BY <1>1, <1>2, <1>3, <1>4 DEF LedgerKeeps, NothingCompletes, Shape, RowsFollowCommits

\* A publication registers the row after the last canonical one.
LEMMA CommitKeeps ==
  ASSUME Shape, RowsFollowCommits, Commit
  PROVE  LedgerKeeps /\ NothingCompletes
<1>1. committed + 1 \in Job /\ committed' = committed + 1 /\ generation' = generation
  BY LedgerConstants DEF Commit, Job, Shape
<1>2. Registered(generation) \in Row
  BY LedgerConstants DEF Registered, Row, Shape
<1>3. delivery' = [delivery EXCEPT ![committed + 1] = Registered(generation)]
  BY DEF Commit
<1>4. \A p \in Job : delivery'[p] = IF p = committed + 1 THEN Registered(generation)
                                                       ELSE delivery[p]
  BY <1>3 DEF Shape
<1>5. delivery' \in [Job -> Row]
  BY ZenonT(30), <1>2, <1>3 DEF Shape
<1>6. delivery[committed + 1].status = "absent"
  BY <1>1, LedgerConstants DEF RowsFollowCommits, Shape
<1>7. \A p \in Job : RowKept(delivery[p], delivery'[p])
  BY <1>4, <1>6 DEF RowKept
<1>8. \A p \in Job : p > committed + 1 => delivery'[p].status = "absent"
  BY <1>4, LedgerConstants DEF RowsFollowCommits, Shape, Job
<1>9. NothingCompletes
  BY <1>4 DEF NothingCompletes, Registered
<1>10. committed' \in 0..Jobs /\ generation' \in 0..MaxMoves
  BY <1>1 DEF Shape, Job
<1>. QED
  BY <1>1, <1>5, <1>7, <1>8, <1>9, <1>10 DEF LedgerKeeps

\* Releasing a claim (retryOutbox) completes nothing.
LEMMA RetryKeeps ==
  ASSUME Shape, RowsFollowCommits, NEW ref \in Ref, NEW r, Retry(ref, r)
  PROVE  LedgerKeeps /\ NothingCompletes
<1>1. CASE HoldsLease(ref, r)
  <2>1. ref.job \in Job /\ delivery[ref.job] \in Row /\ delivery[ref.job].status = "claimed"
    BY <1>1 DEF HoldsLease, Ref, Shape
  <2> DEFINE v == [delivery[ref.job] EXCEPT !.status = "pending"]
  <2>2. v \in Row /\ v.status = "pending" /\ v.generation = delivery[ref.job].generation
    BY <2>1 DEF Row
  <2>3. delivery' = [delivery EXCEPT ![ref.job] = v] /\ UNCHANGED <<committed, generation>>
    BY <1>1 DEF Retry
  <2>4. RowKept(delivery[ref.job], v)
    BY <2>1, <2>2 DEF RowKept
  <2> HIDE DEF v
  <2>. QED
    BY ZenonT(30), <2>1, <2>2, <2>3, <2>4, OneRowKeeps
<1>2. CASE ~HoldsLease(ref, r)
  BY <1>2, SameLedger DEF Retry
<1>. QED
  BY <1>1, <1>2

\* An acknowledgement (acknowledgeOutbox) completes at most its own job.
LEMMA AcknowledgeKeeps ==
  ASSUME Shape, RowsFollowCommits, NEW ref \in Ref, NEW r, Acknowledge(ref, r)
  PROVE  /\ LedgerKeeps
         /\ \A p \in Job : delivery'[p].status = "completed" =>
                            delivery[p].status = "completed" \/ p = ref.job
<1>1. CASE HoldsLease(ref, r)
  <2>1. ref.job \in Job /\ delivery[ref.job] \in Row /\ delivery[ref.job].status = "claimed"
    BY <1>1 DEF HoldsLease, Ref, Shape
  <2> DEFINE v == [delivery[ref.job] EXCEPT !.status = "completed"]
  <2>2. v \in Row /\ v.status = "completed" /\ v.generation = delivery[ref.job].generation
    BY <2>1 DEF Row
  <2>3. delivery' = [delivery EXCEPT ![ref.job] = v] /\ UNCHANGED <<committed, generation>>
    BY <1>1 DEF Acknowledge
  <2>4. RowKept(delivery[ref.job], v)
    BY <2>1, <2>2 DEF RowKept
  <2> HIDE DEF v
  <2>. QED
    BY ZenonT(30), <2>1, <2>2, <2>3, <2>4, OneRowKeeps
<1>2. CASE ~HoldsLease(ref, r)
  BY <1>2, SameLedger DEF Acknowledge, NothingCompletes
<1>. QED
  BY <1>1, <1>2

\* Pruning and the passing of time (pruneCompletedOutbox) keep the status.
LEMMA PruneAndTimeKeep ==
  ASSUME Shape, RowsFollowCommits, NEW o \in Job, Prune(o) \/ TimePasses(o)
  PROVE  LedgerKeeps /\ NothingCompletes
<1>1. PICK v \in Row : /\ delivery' = [delivery EXCEPT ![o] = v]
                       /\ v.status = delivery[o].status
                       /\ v.generation = delivery[o].generation
  <2>1. delivery[o] \in Row
    BY DEF Shape
  <2>2. CASE Prune(o)
    <3> DEFINE v == [delivery[o] EXCEPT !.attempts = 0, !.timing = "due"]
    <3>1. v \in Row /\ v.status = delivery[o].status /\ v.generation = delivery[o].generation
      <4>1. 0 \in 0..MaxAttempts
        BY LedgerConstants
      <4>. QED
        BY ZenonT(30), <2>1, <4>1 DEF Row
    <3>2. delivery' = [delivery EXCEPT ![o] = v]
      BY ZenonT(30), <2>2, <2>1 DEF Prune, Shape
    <3> HIDE DEF v
    <3>. QED
      BY ZenonT(30), <3>1, <3>2
  <2>3. CASE TimePasses(o)
    <3> DEFINE v == [delivery[o] EXCEPT !.timing = "due"]
    <3>1. v \in Row /\ v.status = delivery[o].status /\ v.generation = delivery[o].generation
      BY <2>1 DEF Row
    <3>2. delivery' = [delivery EXCEPT ![o] = v]
      BY <2>3 DEF TimePasses
    <3> HIDE DEF v
    <3>. QED
      BY ZenonT(30), <3>1, <3>2
  <2>. QED
    BY <2>2, <2>3
<1>2. UNCHANGED <<committed, generation>>
  BY DEF Prune, TimePasses
<1>3. RowKept(delivery[o], v)
  BY <1>1 DEF RowKept
<1>. QED
  BY ZenonT(30), <1>1, <1>2, <1>3, OneRowKeeps

-----------------------------------------------------------------------------
\* A consumer that does not move keeps what it stored, as long as nothing is
\* taken from the archive or from the receipts.
LEMMA StoredKept ==
  ASSUME Shape, LedgerKeeps, NEW c \in Consumers, Stored(c), consumer'[c] = consumer[c],
         archive \subseteq archive', receipts \subseteq receipts'
  PROVE  Stored(c)'
BY DEF Stored, Tuple, LedgerKeeps, RowKept

\* Completed jobs stay persisted under the same proviso.
LEMMA PersistedKept ==
  ASSUME LedgerKeeps, CompletedIsPersisted,
         archive \subseteq archive', receipts \subseteq receipts',
         NEW o \in Job, delivery[o].status = "completed"
  PROVE  \E k \in Key : /\ <<o, k>> \in archive'
                        /\ <<delivery'[o].generation, o, k>> \in receipts'
<1>1. delivery'[o].generation = delivery[o].generation
  BY DEF LedgerKeeps, RowKept
<1>. QED
  BY <1>1 DEF CompletedIsPersisted

\* A step of the ledger, of the dispatchers or of the queue.
LEMMA QuietStep ==
  ASSUME IInv, LedgerKeeps, NothingCompletes,
         sending' \in [Dispatchers -> SUBSET Ref], queue' \subseteq Ref,
         UNCHANGED <<consumer, archive, receipts>>
  PROVE  IInv'
<1>1. Shape'
  BY DEF IInv, Shape, LedgerKeeps
<1>2. RowsFollowCommits'
  BY DEF LedgerKeeps, RowsFollowCommits
<1>3. \A c \in Consumers : Stored(c)'
  BY StoredKept DEF IInv
<1>4. CompletedIsPersisted'
  BY PersistedKept DEF IInv, CompletedIsPersisted, NothingCompletes
<1>5. ReceiptHasArtifact'
  BY ZenonT(30) DEF IInv, ReceiptHasArtifact
<1>. QED
  BY <1>1, <1>2, <1>3, <1>4, <1>5 DEF IInv

\* A step of consumer c, given that c itself is in order afterwards.
LEMMA ConsumerMoves ==
  ASSUME IInv, LedgerKeeps, NEW c \in Consumers,
         NEW v \in [step : Steps, job : 0..Jobs, attempt : 0..MaxAttempts, key : 0..Keys],
         consumer' = [consumer EXCEPT ![c] = v],
         sending' = sending, queue' \subseteq Ref,
         archive \subseteq archive', receipts \subseteq receipts',
         Stored(c)', ReceiptHasArtifact',
         \A o \in Job : delivery'[o].status = "completed" =>
           \/ delivery[o].status = "completed"
           \/ \E k \in Key : /\ <<o, k>> \in archive'
                             /\ <<delivery'[o].generation, o, k>> \in receipts'
  PROVE  IInv'
<1>1. Shape'
  BY DEF IInv, Shape, LedgerKeeps
<1>2. RowsFollowCommits'
  BY DEF LedgerKeeps, RowsFollowCommits
<1>3. ASSUME NEW d \in Consumers PROVE Stored(d)'
  <2>1. CASE d = c
    BY <2>1
  <2>2. CASE d # c
    <3>1. consumer'[d] = consumer[d]
      BY <2>2 DEF IInv, Shape
    <3>. QED
      BY <3>1, StoredKept DEF IInv
  <2>. QED
    BY <2>1, <2>2
<1>4. CompletedIsPersisted'
  BY PersistedKept DEF IInv, CompletedIsPersisted
<1>. QED
  BY <1>1, <1>2, <1>3, <1>4 DEF IInv

\* A consumer that goes on to step s keeps its job, attempt and key.
LEMMA MovesTo ==
  ASSUME Shape, NEW c \in Consumers, NEW s \in Steps, Moves(c, s)
  PROVE  /\ consumer' = [consumer EXCEPT ![c] = [consumer[c] EXCEPT !.step = s]]
         /\ [consumer[c] EXCEPT !.step = s] \in
              [step : Steps, job : 0..Jobs, attempt : 0..MaxAttempts, key : 0..Keys]
         /\ consumer'[c].step = s /\ consumer'[c].job = consumer[c].job
         /\ consumer'[c].key = consumer[c].key /\ consumer'[c].attempt = consumer[c].attempt
BY DEF Shape, Moves

\* A consumer without a delivery has nothing to show.
LEMMA IdleIsStored ==
  ASSUME Shape, NEW c \in Consumers, consumer' = [consumer EXCEPT ![c] = Idle]
  PROVE  /\ Stored(c)'
         /\ Idle \in [step : Steps, job : 0..Jobs, attempt : 0..MaxAttempts, key : 0..Keys]
<1>1. 0 \in 0..Jobs /\ 0 \in 0..MaxAttempts /\ 0 \in 0..Keys
  BY LedgerConstants, DeliveryConstants
<1>2. consumer'[c].step = "idle"
  BY DEF Shape, Idle
<1>. QED
  BY <1>1, <1>2 DEF Stored, Idle, Steps

\* The reference of a consumer at work is a reference.
LEMMA RefOfConsumer ==
  ASSUME NEW c \in Consumers, Stored(c), consumer[c].step # "idle"
  PROVE  RefOf(c) \in Ref /\ RefOf(c).job = consumer[c].job /\ consumer[c].job \in Job
BY DEF Stored, RefOf, Ref

-----------------------------------------------------------------------------
\* The steps of the ledger by itself.
LEMMA LedgerStep ==
  ASSUME IInv, UNCHANGED platformVars,
         \/ Commit
         \/ GenerationMoves
         \/ \E o \in Job : Prune(o) \/ TimePasses(o)
  PROVE  LedgerKeeps /\ IInv'
<1>1. Shape /\ RowsFollowCommits
  BY DEF IInv
<1>2. LedgerKeeps /\ NothingCompletes
  <2>1. CASE Commit
    BY <1>1, <2>1, CommitKeeps
  <2>2. CASE GenerationMoves
    <3>1. generation' \in 0..MaxMoves
      BY <1>1, <2>2, LedgerConstants DEF GenerationMoves, Shape
    <3>. QED
      BY <1>1, <2>2, <3>1 DEF GenerationMoves, Shape, RowsFollowCommits, LedgerKeeps,
                              NothingCompletes, RowKept
  <2>3. CASE \E o \in Job : Prune(o) \/ TimePasses(o)
    BY <1>1, <2>3, PruneAndTimeKeep
  <2>. QED
    BY <2>1, <2>2, <2>3
<1>3. /\ sending' \in [Dispatchers -> SUBSET Ref] /\ queue' \subseteq Ref
      /\ UNCHANGED <<consumer, archive, receipts>>
  BY <1>1 DEF platformVars, Shape
<1>. QED
  BY <1>2, <1>3, QuietStep

\* The references a claim hands out are references.
LEMMA ItemsType ==
  ASSUME Shape, RowsFollowCommits, NEW S, ClaimOutbox(S)
  PROVE  Items(S) \subseteq Ref
<1>1. PICK B : B = Bootstrapped
  OBVIOUS
<1>2. B \in [Job -> Row]
  BY <1>1, BootstrapKeeps
<1>3. S \subseteq {o \in Active(B) : InBound(B[o])}
  BY <1>1 DEF ClaimOutbox, Candidates
<1>4. ASSUME NEW o \in S, B[o].generation = generation
      PROVE  o \in Job /\ B[o].attempts + 1 \in 1..MaxAttempts
  <2>1. o \in Job /\ InBound(B[o])
    BY <1>3 DEF Active
  <2>2. B[o].attempts \in 0..MaxAttempts
    BY <1>2, <2>1 DEF Row
  <2>. QED
    BY <1>4, <2>1, <2>2, LedgerConstants DEF InBound
<1>. QED
  BY <1>1, <1>4 DEF Items, Ref

\* The steps of a dispatcher.
LEMMA DispatcherStep ==
  ASSUME IInv, NEW d \in Dispatchers,
         \/ Dispatch(d)
         \/ \E ref \in sending[d] : Send(d, ref) \/ SendFails(d, ref) \/ SendAbandoned(d, ref)
  PROVE  LedgerKeeps /\ IInv'
<1>1. Shape /\ RowsFollowCommits
  BY DEF IInv
<1>2. CASE Dispatch(d)
  <2>1. PICK S : ClaimOutbox(S) /\ sending' = [sending EXCEPT ![d] = Items(S)]
    BY ZenonT(30), <1>2 DEF Dispatch
  <2>2. LedgerKeeps /\ NothingCompletes
    BY <1>1, <2>1, ClaimKeeps
  <2>3. Items(S) \subseteq Ref
    BY <1>1, <2>1, ItemsType
  <2>4. /\ sending' \in [Dispatchers -> SUBSET Ref] /\ queue' \subseteq Ref
        /\ UNCHANGED <<consumer, archive, receipts>>
    BY <1>1, <1>2, <2>1, <2>3 DEF Dispatch, Shape
  <2>. QED
    BY <2>2, <2>4, QuietStep
<1>3. ASSUME NEW ref \in sending[d],
             Send(d, ref) \/ SendFails(d, ref) \/ SendAbandoned(d, ref)
      PROVE  LedgerKeeps /\ IInv'
  <2>1. ref \in Ref
    BY <1>1 DEF Shape
  <2>2. LedgerKeeps /\ NothingCompletes
    <3>1. CASE SendFails(d, ref)
      BY <1>1, <2>1, <3>1, RetryKeeps DEF SendFails
    <3>2. CASE Send(d, ref) \/ SendAbandoned(d, ref)
      <4>1. UNCHANGED <<committed, generation, delivery>>
        BY <3>2 DEF Send, SendAbandoned, ledgerVars
      <4>. QED
        BY <1>1, <4>1, SameLedger
    <3>. QED
      BY <1>3, <3>1, <3>2
  <2>3. sending' = [sending EXCEPT ![d] = @ \ {ref}] /\ queue' \in {queue, queue \cup {ref}}
    BY <1>3 DEF Send, SendFails, SendAbandoned
  <2>4. sending' \in [Dispatchers -> SUBSET Ref] /\ queue' \subseteq Ref
    BY <1>1, <2>1, <2>3 DEF Shape
  <2>5. UNCHANGED <<consumer, archive, receipts>>
    BY <1>3 DEF Send, SendFails, SendAbandoned
  <2>. QED
    BY <2>2, <2>4, <2>5, QuietStep
<1>. QED
  BY <1>2, <1>3

\* The queue forgets a reference.
LEMMA QueueStep ==
  ASSUME IInv, NEW ref \in queue, QueueDrops(ref)
  PROVE  LedgerKeeps /\ IInv'
<1>1. Shape /\ RowsFollowCommits
  BY DEF IInv
<1>2. LedgerKeeps /\ NothingCompletes
  BY <1>1, SameLedger DEF QueueDrops, ledgerVars
<1>3. /\ sending' \in [Dispatchers -> SUBSET Ref] /\ queue' \subseteq Ref
      /\ UNCHANGED <<consumer, archive, receipts>>
  BY <1>1 DEF QueueDrops, Shape
<1>. QED
  BY <1>2, <1>3, QuietStep

-----------------------------------------------------------------------------
\* A consumer goes on without touching the ledger.
LEMMA GoesOn ==
  ASSUME IInv, NEW c \in Consumers, NEW s \in Steps, Moves(c, s),
         UNCHANGED <<ledgerVars, sending, queue>>,
         archive \subseteq archive', receipts \subseteq receipts',
         Stored(c)', ReceiptHasArtifact'
  PROVE  LedgerKeeps /\ IInv'
<1>1. Shape /\ RowsFollowCommits
  BY DEF IInv
<1>2. LedgerKeeps /\ NothingCompletes
  BY <1>1, SameLedger DEF ledgerVars
<1>3. PICK v \in [step : Steps, job : 0..Jobs, attempt : 0..MaxAttempts, key : 0..Keys] :
        consumer' = [consumer EXCEPT ![c] = v]
  BY ZenonT(30), <1>1, MovesTo
<1>4. sending' = sending /\ queue' \subseteq Ref
  BY <1>1 DEF Shape
<1>5. \A o \in Job : delivery'[o].status = "completed" => delivery[o].status = "completed"
  BY <1>2 DEF NothingCompletes
<1>. QED
  BY ZenonT(30), <1>2, <1>3, <1>4, <1>5, ConsumerMoves

\* A consumer ends its delivery; only an acknowledgement of a projected job
\* completes anything.
LEMMA ConsumerEnds ==
  ASSUME IInv, LedgerKeeps, NEW c \in Consumers,
         consumer' = [consumer EXCEPT ![c] = Idle], queue' \subseteq queue,
         UNCHANGED <<sending, archive, receipts>>,
         \A o \in Job : delivery'[o].status = "completed" =>
           \/ delivery[o].status = "completed"
           \/ \E k \in Key : /\ <<o, k>> \in archive'
                             /\ <<delivery'[o].generation, o, k>> \in receipts'
  PROVE  IInv'
<1>1. Shape
  BY DEF IInv
<1>2. /\ Stored(c)'
      /\ Idle \in [step : Steps, job : 0..Jobs, attempt : 0..MaxAttempts, key : 0..Keys]
  BY ZenonT(30), <1>1, IdleIsStored
<1>3. ReceiptHasArtifact'
  BY ZenonT(30) DEF IInv, ReceiptHasArtifact
<1>4. sending' = sending /\ queue' \subseteq Ref
  BY <1>1 DEF Shape
<1>. QED
  BY ZenonT(30), <1>2, <1>3, <1>4, ConsumerMoves

\* What a job completed by the acknowledgement of consumer c rests on.
LEMMA AcknowledgedIsPersisted ==
  ASSUME IInv, NEW c \in Consumers, consumer[c].step = "projected",
         NEW r, Acknowledge(RefOf(c), r), UNCHANGED <<archive, receipts>>
  PROVE  /\ LedgerKeeps
         /\ \A o \in Job : delivery'[o].status = "completed" =>
              \/ delivery[o].status = "completed"
              \/ \E k \in Key : /\ <<o, k>> \in archive'
                                /\ <<delivery'[o].generation, o, k>> \in receipts'
<1>1. Shape /\ RowsFollowCommits /\ Stored(c)
  BY DEF IInv
<1>2. RefOf(c) \in Ref /\ RefOf(c).job = consumer[c].job /\ consumer[c].job \in Job
  BY <1>1, RefOfConsumer
<1>3. /\ LedgerKeeps
      /\ \A p \in Job : delivery'[p].status = "completed" =>
                         delivery[p].status = "completed" \/ p = consumer[c].job
  BY <1>1, <1>2, AcknowledgeKeeps
<1>4. /\ consumer[c].key \in Key
      /\ <<consumer[c].job, consumer[c].key>> \in archive
      /\ Tuple(c) \in receipts
      /\ delivery[consumer[c].job].status # "absent"
  BY <1>1 DEF Stored
<1>5. delivery'[consumer[c].job].generation = delivery[consumer[c].job].generation
  BY <1>2, <1>3, <1>4 DEF LedgerKeeps, RowKept
<1>. QED
  BY <1>3, <1>4, <1>5 DEF Tuple

\* A queue reference is taken.
LEMMA TakeStep ==
  ASSUME IInv, NEW c \in Consumers, NEW ref \in queue, Take(c, ref)
  PROVE  LedgerKeeps /\ IInv'
<1>1. Shape /\ RowsFollowCommits
  BY DEF IInv
<1>2. PICK k \in Key : consumer' = [consumer EXCEPT ![c] =
        [step |-> "taken", job |-> ref.job, attempt |-> ref.attempt, key |-> k]]
  BY ZenonT(30) DEF Take
<1> DEFINE v == [step |-> "taken", job |-> ref.job, attempt |-> ref.attempt, key |-> k]
<1>3. ref \in Ref /\ ref.job \in Job /\ ref.attempt \in 1..MaxAttempts
  BY <1>1 DEF Shape, Ref
<1>4. ref.job \in 0..Jobs /\ ref.attempt \in 0..MaxAttempts /\ k \in 0..Keys
  BY <1>3, LedgerConstants, DeliveryConstants DEF Job, Key
<1>5. v \in [step : Steps, job : 0..Jobs, attempt : 0..MaxAttempts, key : 0..Keys]
  BY <1>4 DEF Steps
<1>6. LedgerKeeps /\ NothingCompletes
  BY <1>1, SameLedger DEF Take, ledgerVars
<1>7. consumer'[c] = v
  BY <1>1, <1>2 DEF Shape
<1>8. Stored(c)'
  BY <1>3, <1>7 DEF Stored
<1>9. ReceiptHasArtifact' /\ sending' = sending /\ queue' \subseteq Ref
  BY <1>1 DEF IInv, ReceiptHasArtifact, Take, Shape
<1>10. archive \subseteq archive' /\ receipts \subseteq receipts'
  BY DEF Take
<1>11. consumer' = [consumer EXCEPT ![c] = v]
  BY <1>2
<1> HIDE DEF v
<1>. QED
  BY ZenonT(30), <1>5, <1>6, <1>8, <1>9, <1>10, <1>11, ConsumerMoves DEF NothingCompletes

\* The steps of a delivery that go on or fail before the acknowledgement.
LEMMA DeliveryStep ==
  ASSUME IInv, NEW c \in Consumers,
         ReadClaimed(c) \/ Archive(c) \/ ProjectReads(c) \/ ProjectApplies(c) \/ Fails(c)
  PROVE  LedgerKeeps /\ IInv'
<1>1. Shape /\ RowsFollowCommits /\ Stored(c) /\ ReceiptHasArtifact
  BY DEF IInv
<1>2. consumer[c].step # "idle"
  BY DEF ReadClaimed, Archive, ProjectReads, ProjectApplies, Fails
<1>3. /\ consumer[c].job \in Job /\ consumer[c].key \in Key
      /\ consumer[c].attempt \in 1..MaxAttempts
  BY <1>1, <1>2 DEF Stored
<1>4. CASE ReadClaimed(c)
  <2>1. PICK r : IF HoldsLease(RefOf(c), r) THEN Moves(c, "material") /\ UNCHANGED queue
                                            ELSE Settles(c)
    BY <1>4 DEF ReadClaimed
  <2>2. UNCHANGED <<ledgerVars, sending, archive, receipts>> /\ ReceiptHasArtifact'
    BY <1>1, <1>4 DEF ReadClaimed, ReceiptHasArtifact
  <2>3. CASE HoldsLease(RefOf(c), r)
    <3>1. Moves(c, "material") /\ "material" \in Steps
      BY <2>1, <2>3 DEF Steps
    <3>2. delivery'[consumer[c].job].status # "absent"
      BY <2>2, <2>3 DEF HoldsLease, RefOf, ledgerVars
    <3>3. Stored(c)'
      BY ZenonT(30), <1>1, <1>3, <3>1, <3>2, MovesTo DEF Stored
    <3>. QED
      BY <2>1, <2>2, <2>3, <3>1, <3>3, GoesOn
  <2>4. CASE ~ HoldsLease(RefOf(c), r)
    <3>1. LedgerKeeps /\ NothingCompletes
      BY <1>1, <2>2, SameLedger DEF ledgerVars
    <3>2. consumer' = [consumer EXCEPT ![c] = Idle] /\ queue' \subseteq queue
      BY <2>1, <2>4 DEF Settles
    <3>. QED
      BY ZenonT(30), <2>2, <3>1, <3>2, ConsumerEnds DEF NothingCompletes
  <2>. QED
    BY <2>3, <2>4
<1>5. CASE Archive(c)
  <2>1. PICK s \in {"archived", "failing"} : Moves(c, s)
    BY <1>5 DEF Archive
  <2>2. /\ UNCHANGED <<ledgerVars, sending, queue, receipts>>
        /\ consumer[c].step = "material"
        /\ archive' = archive \cup {<<consumer[c].job, consumer[c].key>>}
    BY <1>5 DEF Archive
  <2>3. s \in Steps
    BY <2>1 DEF Steps
  <2>4. delivery'[consumer[c].job].status # "absent"
    BY <1>1, <2>2 DEF Stored, ledgerVars
  <2>5. Stored(c)'
    BY ZenonT(30), <1>1, <1>3, <2>1, <2>2, <2>3, <2>4, MovesTo DEF Stored
  <2>6. ReceiptHasArtifact'
    BY ZenonT(30), <1>1, <2>2 DEF ReceiptHasArtifact
  <2>. QED
    BY <2>1, <2>2, <2>3, <2>5, <2>6, GoesOn
<1>6. CASE ProjectReads(c)
  <2>1. PICK s \in {"projected", "applying"} :
          Moves(c, s) /\ (s = "projected" => Tuple(c) \in receipts)
    BY <1>6 DEF ProjectReads
  <2>2. UNCHANGED <<ledgerVars, sending, queue, archive, receipts>> /\ consumer[c].step = "archived"
    BY <1>6 DEF ProjectReads
  <2>3. s \in Steps
    BY <2>1 DEF Steps
  <2>4. /\ consumer'[c].step = s /\ consumer'[c].job = consumer[c].job
        /\ consumer'[c].key = consumer[c].key /\ consumer'[c].attempt = consumer[c].attempt
    BY ZenonT(30), <1>1, <2>1, <2>3, MovesTo
  <2>5. Tuple(c)' = Tuple(c)
    BY <2>2, <2>4 DEF Tuple, ledgerVars
  <2>6. Stored(c)'
    BY <1>1, <1>3, <2>1, <2>2, <2>4, <2>5 DEF Stored, ledgerVars
  <2>7. ReceiptHasArtifact'
    BY ZenonT(30), <1>1, <2>2 DEF ReceiptHasArtifact
  <2>. QED
    BY <2>1, <2>2, <2>3, <2>6, <2>7, GoesOn
<1>7. CASE ProjectApplies(c)
  <2>1. PICK s \in {"projected", "failing"} : Moves(c, s)
    BY <1>7 DEF ProjectApplies
  <2>2. /\ UNCHANGED <<ledgerVars, sending, queue, archive>>
        /\ consumer[c].step = "applying"
        /\ receipts' = receipts \cup {Tuple(c)}
    BY <1>7 DEF ProjectApplies
  <2>3. s \in Steps
    BY <2>1 DEF Steps
  <2>4. /\ consumer'[c].step = s /\ consumer'[c].job = consumer[c].job
        /\ consumer'[c].key = consumer[c].key /\ consumer'[c].attempt = consumer[c].attempt
    BY ZenonT(30), <1>1, <2>1, <2>3, MovesTo
  <2>5. Tuple(c)' = Tuple(c)
    BY <2>2, <2>4 DEF Tuple, ledgerVars
  <2>6. Stored(c)'
    BY Zenon, <1>1, <1>3, <2>1, <2>2, <2>4, <2>5 DEF Stored, ledgerVars
  <2>7. ReceiptHasArtifact'
    <3>1. Tuple(c)[2] = consumer[c].job /\ Tuple(c)[3] = consumer[c].key
      BY DEF Tuple
    <3>2. <<consumer[c].job, consumer[c].key>> \in archive
      BY <1>1, <2>2 DEF Stored
    <3>. QED
      BY ZenonT(30), <1>1, <2>2, <3>1, <3>2 DEF ReceiptHasArtifact
  <2>. QED
    BY Zenon, <2>1, <2>2, <2>3, <2>6, <2>7, GoesOn
<1>8. CASE Fails(c)
  <2>1. Moves(c, "failing") /\ "failing" \in Steps
    BY <1>8 DEF Fails, Steps
  <2>2. UNCHANGED <<ledgerVars, sending, queue, archive, receipts>> /\ ReceiptHasArtifact'
    BY <1>1, <1>8 DEF Fails, ReceiptHasArtifact
  <2>3. Stored(c)'
    BY ZenonT(30), <1>1, <1>3, <2>1, MovesTo DEF Stored
  <2>. QED
    BY <2>1, <2>2, <2>3, GoesOn
<1>. QED
  BY <1>4, <1>5, <1>6, <1>7, <1>8

\* The steps that end a delivery.
LEMMA EndingStep ==
  ASSUME IInv, NEW c \in Consumers,
         Acknowledges(c) \/ AcknowledgeUnheard(c) \/ Releases(c) \/ Crash(c)
  PROVE  LedgerKeeps /\ IInv'
<1>1. Shape /\ RowsFollowCommits /\ Stored(c) /\ ReceiptHasArtifact
  BY DEF IInv
<1>2. CASE Acknowledges(c)
  <2>1. PICK r : Acknowledge(RefOf(c), r)
    BY <1>2 DEF Acknowledges
  <2>2. consumer[c].step = "projected" /\ UNCHANGED <<sending, archive, receipts>>
    BY <1>2 DEF Acknowledges
  <2>3. consumer' = [consumer EXCEPT ![c] = Idle] /\ queue' \subseteq queue
    BY <1>2 DEF Acknowledges, Settles
  <2>. QED
    BY ZenonT(30), <2>1, <2>2, <2>3, AcknowledgedIsPersisted, ConsumerEnds
<1>3. CASE AcknowledgeUnheard(c)
  <2>1. PICK r : Acknowledge(RefOf(c), r)
    BY <1>3 DEF AcknowledgeUnheard
  <2>2. consumer[c].step = "projected" /\ UNCHANGED <<sending, queue, archive, receipts>>
    BY <1>3 DEF AcknowledgeUnheard
  <2>3. Moves(c, "failing") /\ "failing" \in Steps
    BY <1>3 DEF AcknowledgeUnheard, Steps
  <2>4. /\ consumer[c].job \in Job /\ consumer[c].key \in Key
        /\ consumer[c].attempt \in 1..MaxAttempts
    BY <1>1, <2>2 DEF Stored
  <2>5. Stored(c)' /\ ReceiptHasArtifact'
    BY ZenonT(30), <1>1, <2>2, <2>3, <2>4, MovesTo DEF Stored, ReceiptHasArtifact
  <2>6. PICK v \in [step : Steps, job : 0..Jobs, attempt : 0..MaxAttempts, key : 0..Keys] :
          consumer' = [consumer EXCEPT ![c] = v]
    BY ZenonT(30), <1>1, <2>3, MovesTo
  <2>7. queue' \subseteq Ref
    BY <1>1, <2>2 DEF Shape
  <2>. QED
    BY ZenonT(30), <2>1, <2>2, <2>5, <2>6, <2>7, AcknowledgedIsPersisted, ConsumerMoves
<1>4. CASE Releases(c)
  <2>1. PICK r : Retry(RefOf(c), r)
    BY <1>4 DEF Releases
  <2>2. /\ consumer[c].step = "failing" /\ consumer' = [consumer EXCEPT ![c] = Idle]
        /\ UNCHANGED <<sending, queue, archive, receipts>>
    BY <1>4 DEF Releases
  <2>3. RefOf(c) \in Ref
    BY <1>1, <2>2, RefOfConsumer
  <2>4. LedgerKeeps /\ NothingCompletes
    BY <1>1, <2>1, <2>3, RetryKeeps
  <2>. QED
    BY ZenonT(30), <2>2, <2>4, ConsumerEnds DEF NothingCompletes
<1>5. CASE Crash(c)
  <2>1. LedgerKeeps /\ NothingCompletes
    BY <1>1, <1>5, SameLedger DEF Crash, ledgerVars
  <2>2. /\ consumer' = [consumer EXCEPT ![c] = Idle]
        /\ UNCHANGED <<sending, queue, archive, receipts>>
    BY <1>5 DEF Crash
  <2>. QED
    BY ZenonT(30), <2>1, <2>2, ConsumerEnds DEF NothingCompletes
<1>. QED
  BY <1>2, <1>3, <1>4, <1>5

-----------------------------------------------------------------------------
LEMMA InitEstablishes == Init => IInv
<1>. SUFFICES ASSUME Init PROVE IInv
  OBVIOUS
<1>1. NoRow \in Row /\ Legacy \in 0..Jobs /\ 0 \in 0..MaxMoves
  BY LedgerConstants DEF NoRow, Row
<1>2. delivery = [o \in Job |-> NoRow] /\ NoRow.status = "absent"
  BY DEF Init, LedgerInit, NoRow
<1>3. Idle \in [step : Steps, job : 0..Jobs, attempt : 0..MaxAttempts, key : 0..Keys]
  <2>1. 0 \in 0..Jobs /\ 0 \in 0..MaxAttempts /\ 0 \in 0..Keys
    BY LedgerConstants, DeliveryConstants
  <2>. QED
    BY <2>1 DEF Idle, Steps
<1>4. Shape
  BY <1>1, <1>2, <1>3 DEF Init, LedgerInit, Shape
<1>5. RowsFollowCommits /\ CompletedIsPersisted
  BY <1>2 DEF RowsFollowCommits, CompletedIsPersisted
<1>6. \A c \in Consumers : Stored(c)
  BY DEF Init, Stored, Idle
<1>7. ReceiptHasArtifact
  BY DEF Init, ReceiptHasArtifact
<1>. QED
  BY <1>4, <1>5, <1>6, <1>7 DEF IInv

LEMMA NextPreserves == IInv /\ [Next]_vars => LedgerKeeps /\ IInv'
<1>. SUFFICES ASSUME IInv, [Next]_vars PROVE LedgerKeeps /\ IInv'
  OBVIOUS
<1>1. CASE UNCHANGED vars
  <2>1. Shape /\ RowsFollowCommits
    BY DEF IInv
  <2>2. LedgerKeeps /\ NothingCompletes
    BY <1>1, <2>1, SameLedger DEF vars
  <2>3. /\ sending' \in [Dispatchers -> SUBSET Ref] /\ queue' \subseteq Ref
        /\ UNCHANGED <<consumer, archive, receipts>>
    BY <1>1, <2>1 DEF vars, Shape
  <2>. QED
    BY <2>2, <2>3, QuietStep
<1>2. CASE /\ \/ Commit
              \/ GenerationMoves
              \/ \E o \in Job : Prune(o) \/ TimePasses(o)
           /\ UNCHANGED platformVars
  BY <1>2, LedgerStep
<1>3. CASE \E d \in Dispatchers :
             \/ Dispatch(d)
             \/ \E ref \in sending[d] : Send(d, ref) \/ SendFails(d, ref) \/ SendAbandoned(d, ref)
  BY <1>3, DispatcherStep
<1>4. CASE \E ref \in queue : QueueDrops(ref)
  BY <1>4, QueueStep
<1>5. ASSUME NEW c \in Consumers,
             \/ \E ref \in queue : Take(c, ref)
             \/ ConsumerStep(c)
             \/ AcknowledgeUnheard(c)
             \/ Fails(c)
             \/ Crash(c)
      PROVE  LedgerKeeps /\ IInv'
  <2>1. CASE \E ref \in queue : Take(c, ref)
    BY <2>1, TakeStep
  <2>2. CASE ReadClaimed(c) \/ Archive(c) \/ ProjectReads(c) \/ ProjectApplies(c) \/ Fails(c)
    BY <2>2, DeliveryStep
  <2>3. CASE Acknowledges(c) \/ AcknowledgeUnheard(c) \/ Releases(c) \/ Crash(c)
    BY <2>3, EndingStep
  <2>. QED
    BY <1>5, <2>1, <2>2, <2>3 DEF ConsumerStep
<1>. QED
  BY <1>1, <1>2, <1>3, <1>4, <1>5 DEF Next

\* The inductive invariant holds in every state.
THEOREM Invariance == Spec => []IInv
<1>1. IInv /\ [Next]_vars => IInv'
  BY NextPreserves
<1>. QED
  BY InitEstablishes, <1>1, PTL DEF Spec

\* A job is completed (acknowledgeOutbox) only when its artifact is in R2
\* and its receipt in D1.
THEOREM NothingAcknowledgedUnstored == Spec => []CompletedIsPersisted
<1>1. IInv => CompletedIsPersisted
  BY DEF IInv
<1>. QED
  BY Invariance, <1>1, PTL

\* D1 never points at an artifact that R2 does not have
\* (deliverClaimedOutbox writes the archive first).
THEOREM ReceiptsAreBacked == Spec => []ReceiptHasArtifact
<1>1. IInv => ReceiptHasArtifact
  BY DEF IInv
<1>. QED
  BY Invariance, <1>1, PTL

\* No late retry, repeated claim, bootstrap page or prune brings a settled
\* job back.
THEOREM SettledForGood == Spec => SettledIsFinal
<1>1. IInv /\ [Next]_vars => [\A o \in Job : delivery[o].status \in {"completed", "fenced"} =>
                               delivery'[o].status = delivery[o].status]_vars
  BY NextPreserves DEF LedgerKeeps, RowKept
<1>. QED
  BY Invariance, <1>1, PTL DEF Spec, SettledIsFinal

\* A consumer with an older claim that acknowledges (acknowledgeOutbox) or
\* releases (retryOutbox) changes no row.
LEMMA StaleClaimIsIdle ==
  ASSUME Shape, NEW c \in Consumers, Stored(c), consumer[c].step # "idle",
         consumer[c].attempt < delivery[consumer[c].job].attempts,
         NEW r, Acknowledge(RefOf(c), r) \/ Retry(RefOf(c), r)
  PROVE  delivery' = delivery
<1>1. /\ RefOf(c).job = consumer[c].job /\ RefOf(c).attempt = consumer[c].attempt
      /\ consumer[c].attempt \in Nat
  BY LedgerConstants DEF RefOf, Shape
<1>2. delivery[consumer[c].job].attempts # consumer[c].attempt
  <2>1. delivery[consumer[c].job] \in Row
    BY DEF Stored, Shape
  <2>. QED
    BY <1>1, <2>1, LedgerConstants DEF Row
<1>3. ~HoldsLease(RefOf(c), r)
  BY <1>1, <1>2 DEF HoldsLease
<1>. QED
  BY <1>3 DEF Acknowledge, Retry

\* Only a step of consumer c changes consumer c, and it touches the rows
\* only by an acknowledgement or a release.
LEMMA OwnStep ==
  ASSUME Shape, Next, NEW c \in Consumers, consumer'[c] # consumer[c],
         consumer[c].step # "idle"
  PROVE  \/ delivery' = delivery
         \/ \E r : Acknowledge(RefOf(c), r) \/ Retry(RefOf(c), r)
<1>1. ASSUME NEW d \in Consumers,
             \/ \E ref \in queue : Take(d, ref)
             \/ ConsumerStep(d)
             \/ AcknowledgeUnheard(d)
             \/ Fails(d)
             \/ Crash(d)
      PROVE  d = c
  <2>1. PICK v : consumer' = [consumer EXCEPT ![d] = v]
    <3>1. CASE \E ref \in queue : Take(d, ref)
      BY <3>1 DEF Take
    <3>2. CASE Crash(d) \/ Releases(d)
      BY <3>2 DEF Crash, Releases
    <3>3. CASE \/ ReadClaimed(d) \/ Archive(d) \/ ProjectReads(d) \/ ProjectApplies(d)
               \/ Acknowledges(d) \/ AcknowledgeUnheard(d) \/ Fails(d)
      <4>1. (\E s : Moves(d, s)) \/ Settles(d)
        BY Zenon, <3>3 DEF ReadClaimed, Archive, ProjectReads, ProjectApplies, Acknowledges,
                    AcknowledgeUnheard, Fails
      <4>2. CASE \E s : Moves(d, s)
        BY ZenonT(60), <4>2 DEF Moves
      <4>. QED
        BY <4>1, <4>2 DEF Settles
    <3>. QED
      BY <1>1, <3>1, <3>2, <3>3 DEF ConsumerStep
  <2>. QED
    BY <2>1 DEF Shape
<1>2. CASE \E d \in Consumers : \/ \E ref \in queue : Take(d, ref)
                                \/ ConsumerStep(d)
                                \/ AcknowledgeUnheard(d)
                                \/ Fails(d)
                                \/ Crash(d)
  <2>1. \/ \E ref \in queue : Take(c, ref)
        \/ ConsumerStep(c)
        \/ AcknowledgeUnheard(c)
        \/ Fails(c)
        \/ Crash(c)
    BY ZenonT(60), <1>1, <1>2
  <2>2. CASE Acknowledges(c) \/ AcknowledgeUnheard(c) \/ Releases(c)
    BY <2>2 DEF Acknowledges, AcknowledgeUnheard, Releases
  <2>3. CASE \/ \E ref \in queue : Take(c, ref)
             \/ ReadClaimed(c) \/ Archive(c) \/ ProjectReads(c) \/ ProjectApplies(c)
             \/ Fails(c) \/ Crash(c)
    BY ZenonT(60), <2>3 DEF Take, ReadClaimed, Archive, ProjectReads, ProjectApplies, Fails, Crash, ledgerVars
  <2>. QED
    BY Zenon, <2>1, <2>2, <2>3 DEF ConsumerStep
<1>3. CASE consumer' = consumer
  BY <1>3
<1>4. ~(consumer' = consumer) => \E d \in Consumers : \/ \E ref \in queue : Take(d, ref)
                                                      \/ ConsumerStep(d)
                                                      \/ AcknowledgeUnheard(d)
                                                      \/ Fails(d)
                                                      \/ Crash(d)
  BY ZenonT(60) DEF Next, platformVars, Dispatch, Send, SendFails, SendAbandoned, QueueDrops
<1>. QED
  BY <1>2, <1>3, <1>4

\* Only the newest claim of a job decides it: a consumer left behind by a
\* later claim (its outboxLeaseToken is stale) neither completes nor releases
\* the job, whatever its clock says.
THEOREM NewestDecides == Spec => NewestClaimDecides
<1>1. ASSUME IInv, [Next]_vars
      PROVE  [\A c \in Consumers :
                LET o == consumer[c].job IN
                (/\ consumer[c].step # "idle" /\ consumer'[c] # consumer[c]
                 /\ consumer[c].attempt < delivery[o].attempts) =>
                    delivery'[o] = delivery[o]]_vars
  <2>1. ASSUME NEW c \in Consumers, consumer[c].step # "idle", consumer'[c] # consumer[c],
               consumer[c].attempt < delivery[consumer[c].job].attempts
        PROVE  delivery' = delivery
    <3>1. Shape /\ Stored(c) /\ Next
      BY <1>1, <2>1 DEF IInv, vars
    <3>. QED
      BY ZenonT(60), <2>1, <3>1, OwnStep, StaleClaimIsIdle
  <2>. QED
    BY <2>1
<1>. QED
  BY Invariance, <1>1, PTL DEF Spec, NewestClaimDecides

-----------------------------------------------------------------------------
(***************************************************************************)
(* Exact bookkeeping.                                                      *)
(*                                                                         *)
(* For any number of jobs, pages, keys and generation changes: the         *)
(* projection cursor is the newest version delivered, and a completed      *)
(* bootstrap has registered exactly what it should.                        *)
(***************************************************************************)

(* The projection cursor. *)
Triples == (0..MaxMoves) \X Job \X Key

CursorInv == receipts \subseteq Triples /\ CursorIsNewest

\* Versions are ordered lexicographically.
LEMMA NewerIsTransitive ==
  ASSUME NEW s \in Triples, NEW t \in Triples, NEW u \in Triples, Newer(s, t), Newer(t, u)
  PROVE  Newer(s, u)
<1>1. \A v \in Triples : v[1] \in Int /\ v[2] \in Int /\ v[3] \in Int
  BY LedgerConstants, DeliveryConstants DEF Triples, Job, Key
<1> QED  BY <1>1 DEF Newer

\* The cursor before the first receipt is older than every version.
LEMMA NewerIsStrict ==
  ASSUME NEW s \in Triples
  PROVE  ~Newer(s, s) /\ Newer(s, NoCursor)
<1>1. s[1] \in Int /\ s[2] \in Int /\ s[3] \in Int /\ s[1] >= 0
  BY LedgerConstants, DeliveryConstants DEF Triples, Job, Key
<1> QED  BY <1>1 DEF Newer, NoCursor

\* Nothing but a projection batch (apply of D1OutboxProjection) writes D1.
LEMMA OnlyProjectionWrites ==
  ASSUME Next
  PROVE  UNCHANGED <<receipts, cursor>> \/ \E c \in Consumers : ProjectApplies(c)
BY ZenonT(60) DEF Next, ConsumerStep, platformVars, Dispatch, Send, SendFails, SendAbandoned, QueueDrops, Take,
       ReadClaimed, Archive, ProjectReads, Acknowledges, AcknowledgeUnheard, Fails, Releases, Crash

\* The batch moves the cursor forward only.
LEMMA ProjectionKeeps ==
  ASSUME IInv, CursorInv, NEW c \in Consumers, ProjectApplies(c)
  PROVE  CursorInv'
<1> DEFINE t == Tuple(c)
<1>1. t \in Triples
  <2>1. consumer[c].job \in Job /\ consumer[c].key \in Key
    BY Zenon DEF IInv, Stored, ProjectApplies
  <2>2. delivery[consumer[c].job] \in Row
    BY <2>1 DEF IInv, Shape
  <2>3. delivery[consumer[c].job].generation \in 0..MaxMoves
    BY ZenonT(60), <2>2 DEF Row
  <2> QED  BY <2>1, <2>3 DEF Tuple, Triples
<1>2. receipts' = receipts \cup {t} /\ cursor' = IF Newer(t, cursor) THEN t ELSE cursor
  BY Zenon DEF ProjectApplies, CursorAfter
<1> HIDE DEF t
<1>3. receipts' \subseteq Triples /\ t \in receipts' /\ receipts' # {}
  BY <1>1, <1>2 DEF CursorInv
<1>4. CASE receipts = {}
  <2>1. cursor = NoCursor /\ receipts' = {t}
    BY <1>2, <1>4 DEF CursorInv, CursorIsNewest
  <2>2. cursor' = t
    BY <1>1, <1>2, <2>1, NewerIsStrict
  <2>3. CursorIsNewest'
    BY <1>1, <2>1, <2>2, NewerIsStrict DEF CursorIsNewest
  <2> QED  BY <1>3, <2>3 DEF CursorInv
<1>5. CASE receipts # {}
  <2>1. cursor \in receipts /\ cursor \in Triples /\ \A u \in receipts : ~Newer(u, cursor)
    BY <1>5 DEF CursorInv, CursorIsNewest
  <2>2. cursor' \in receipts'
    BY <1>2, <2>1
  <2>3. ASSUME NEW u \in receipts'
        PROVE  ~Newer(u, cursor')
    <3>1. CASE Newer(t, cursor)
      <4>1. cursor' = t
        BY <1>2, <3>1
      <4>2. CASE u = t
        BY <1>1, <4>1, <4>2, NewerIsStrict
      <4>3. CASE u \in receipts
        <5>1. u \in Triples /\ ~Newer(u, cursor)
          BY <2>1, <4>3 DEF CursorInv
        <5>2. Newer(u, t) => Newer(u, cursor)
          BY <1>1, <2>1, <3>1, <5>1, NewerIsTransitive
        <5> QED  BY <4>1, <5>1, <5>2
      <4> QED  BY <1>2, <4>2, <4>3
    <3>2. CASE ~Newer(t, cursor)
      BY <1>2, <2>1, <3>2
    <3> QED  BY <3>1, <3>2
  <2>4. CursorIsNewest'
    BY <1>3, <2>2, <2>3 DEF CursorIsNewest
  <2> QED  BY <1>3, <2>4 DEF CursorInv
<1> QED  BY <1>4, <1>5

-----------------------------------------------------------------------------
(* The bootstrap. *)
BootInv ==
  /\ committed >= Legacy
  /\ bootstrap.cursor \in 0..committed
  /\ bootstrap.complete = "no" =>
       \A o \in (1..bootstrap.cursor) \ Imported : delivery[o].status # "absent"
  /\ bootstrap.complete \in {"yes", "no"}
  /\ BootstrapIsExact

NothingRegistered ==
  /\ UNCHANGED <<committed, bootstrap>>
  /\ \A o \in Job : delivery[o].status = "absent" => delivery'[o].status = "absent"

\* A set of numbers without a least element is empty.
LEMMA LeastOf ==
  ASSUME NEW S, S \subseteq Nat, S # {}
  PROVE  \E k \in S : \A n \in S : k <= n
<1>1. IsWellFoundedOn(OpToRel(<, Nat), Nat)
  BY Zenon, NatLessThanWellFounded
<1>2. PICK k \in S : \A n \in S : ~(<<n, k>> \in OpToRel(<, Nat))
  BY Zenon, <1>1, WFMin
<1>3. \A n \in S : n \in Nat /\ k \in Nat /\ ~(n < k)
  BY Zenon, <1>2 DEF OpToRel
<1> QED  BY <1>3

\* A finite set of numbers that is not empty has a greatest element.
LEMMA GreatestOf ==
  ASSUME NEW n \in Nat, NEW S, S \subseteq 1..n, S # {}
  PROVE  Max(S) \in S /\ \A y \in S : Max(S) >= y
<1> DEFINE U == {k \in Nat : \A y \in S : y <= k}
<1>1. n \in U /\ U \subseteq Nat
  OBVIOUS
<1>2. PICK k \in U : \A m \in U : k <= m
  <2> HIDE DEF U
  <2> QED  BY Zenon, <1>1, LeastOf
<1>3. k \in S
  <2> SUFFICES ASSUME k \notin S PROVE FALSE
    OBVIOUS
  <2>1. \A y \in S : y \in Nat /\ y >= 1 /\ y <= k /\ y # k
    OBVIOUS
  <2>2. k >= 1
    <3>1. PICK y \in S : TRUE
      BY Zenon
    <3>2. y \in Nat /\ y >= 1 /\ y <= k /\ k \in Nat
      BY <2>1
    <3> QED  BY <3>2
  <2>3. k - 1 \in U
    BY <2>1, <2>2
  <2> QED  BY <1>2, <2>2, <2>3
<1>4. \A y \in S : k >= y
  OBVIOUS
<1> HIDE DEF U
<1> QED  BY Zenon, <1>3, <1>4 DEF Max

\* A page takes the first rows after the cursor (bootstrapOutbox: LIMIT), and
\* a short page takes them all.
LEMMA PageIsFirst ==
  ASSUME committed \in Nat, bootstrap.complete = "no"
  PROVE  /\ \A m \in BootstrapPage, o \in Unvisited : o <= m => o \in BootstrapPage
         /\ Cardinality(BootstrapPage) < Page => BootstrapPage = Unvisited
<1> DEFINE Before(o) == {p \in Unvisited : p < o}
<1>1. /\ BootstrapPage = {o \in Unvisited : Cardinality(Before(o)) < Page}
      /\ BootstrapPage \subseteq Unvisited
  BY DEF BootstrapPage
<1>2. Unvisited \subseteq 1..committed /\ IsFiniteSet(Unvisited)
  <2>1. Unvisited \subseteq 1..committed /\ IsFiniteSet(1..committed)
    BY FS_Interval DEF Unvisited
  <2> QED  BY Zenon, <2>1, FS_Subset
<1>3. BootstrapPage \subseteq Unvisited /\ \A p \in Unvisited : p \in Nat
  BY <1>1, <1>2
<1>4. ASSUME NEW A, NEW B, A \subseteq B, B \subseteq Unvisited
      PROVE  Cardinality(A) \in Nat /\ Cardinality(B) \in Nat /\ Cardinality(A) <= Cardinality(B)
  <2>1. IsFiniteSet(B)
    BY Zenon, <1>2, <1>4, FS_Subset
  <2>2. IsFiniteSet(A) /\ Cardinality(A) <= Cardinality(B)
    BY <1>4, <2>1, FS_Subset
  <2> QED  BY <2>1, <2>2, FS_CardinalityType
<1>5. Page \in Nat
  BY LedgerConstants
<1>6. ASSUME NEW m \in BootstrapPage, NEW o \in Unvisited, o <= m
      PROVE  o \in BootstrapPage
  <2>1. Before(o) \subseteq Before(m) /\ Before(m) \subseteq Unvisited
    <3>1. m \in Nat /\ o \in Nat /\ \A p \in Unvisited : p < o => p < m
      BY <1>6, <1>3
    <3> QED  BY Zenon, <3>1
  <2>2. Cardinality(Before(m)) < Page
    BY <1>1
  <2> HIDE DEF Before
  <2>3. Cardinality(Before(o)) < Page
    BY <1>4, <1>5, <2>1, <2>2
  <2> QED  BY <1>1, <2>3 DEF Before
<1>7. ASSUME Cardinality(BootstrapPage) < Page, BootstrapPage # Unvisited
      PROVE  FALSE
  <2> DEFINE Missing == Unvisited \ BootstrapPage
  <2>1. Missing # {} /\ Missing \subseteq Nat
    BY <1>7, <1>3
  <2>2. PICK o \in Missing : \A p \in Missing : o <= p
    <3> HIDE DEF Missing
    <3> QED  BY Zenon, <2>1, LeastOf
  <2>3. Before(o) \subseteq BootstrapPage
    <3>1. ASSUME NEW p \in Unvisited, p < o
          PROVE  p \in BootstrapPage
      BY <1>3, <2>2, <3>1
    <3> QED  BY <3>1
  <2>4. Cardinality(Before(o)) < Page
    <3> HIDE DEF Before
    <3> QED  BY <1>1, <1>4, <1>5, <1>7, <2>3
  <2> QED  BY <1>1, <2>2, <2>4
<1> QED  BY <1>6, <1>7

\* A claim (claimOutbox) bootstraps a page first.
LEMMA ClaimBootstraps ==
  ASSUME IInv, BootInv, NEW S, ClaimOutbox(S)
  PROVE  BootInv'
<1>1. Shape /\ RowsFollowCommits /\ committed \in Nat /\ committed \in 0..Jobs /\ Jobs \in Nat
      /\ Legacy \in Nat
  BY LedgerConstants DEF IInv, Shape
<1>2. PICK B : B = Bootstrapped
  OBVIOUS
<1>3. /\ delivery' = [o \in Job |-> IF o \in S THEN ClaimRow(B[o]) ELSE B[o]]
      /\ bootstrap' = BootstrapAdvances /\ committed' = committed
  BY <1>2 DEF ClaimOutbox
<1>4. \A o \in S : o \in Job /\ B[o].status \in {"pending", "claimed"} /\ InBound(B[o])
  BY <1>2 DEF ClaimOutbox, Candidates, Active
<1>5. /\ B \in [Job -> Row]
      /\ \A o \in Job : B[o] = IF o \in BootstrapPage /\ delivery[o].status = "absent"
                               THEN Registered(0) ELSE delivery[o]
  BY <1>1, <1>2, BootstrapKeeps DEF Bootstrapped
<1>6. ASSUME NEW o \in Job
      PROVE  delivery'[o].status = "absent" <=> (delivery[o].status = "absent" /\ o \notin BootstrapPage)
  <2>1. B[o].status = "absent" <=> (delivery[o].status = "absent" /\ o \notin BootstrapPage)
    BY <1>5 DEF Registered
  <2>2. CASE o \in S
    <3>1. delivery'[o] = ClaimRow(B[o]) /\ B[o].status # "absent" /\ B[o] \in Row /\ InBound(B[o])
      BY <1>3, <1>4, <1>5, <2>2
    <3>2. delivery'[o].status # "absent"
      BY <3>1, ClaimRowType
    <3> QED  BY <2>1, <3>1, <3>2
  <2>3. CASE o \notin S
    BY <1>3, <2>1, <2>3
  <2> QED  BY <2>2, <2>3
<1>7. BootstrapPage \subseteq Unvisited /\ Unvisited \subseteq 1..committed /\ 1..committed \subseteq Job
  BY <1>1 DEF BootstrapPage, Unvisited, Job
<1>8. \A o \in Imported : delivery'[o].status = "absent"
  <2>1. Imported \subseteq Job
    BY <1>1, LedgerConstants DEF Job
  <2>2. \A o \in Imported : o \notin BootstrapPage
    BY Zenon, <1>7 DEF Unvisited
  <2> QED  BY <1>6, <2>1, <2>2 DEF BootInv, BootstrapIsExact
<1>9. CASE bootstrap.complete = "yes"
  <2>1. bootstrap' = bootstrap
    BY <1>3, <1>9 DEF BootstrapAdvances
  <2>2. \A o \in (1..committed) \ Imported : delivery'[o].status # "absent"
    BY <1>6, <1>7, <1>9 DEF BootInv, BootstrapIsExact
  <2> QED  BY <1>3, <1>8, <1>9, <2>1, <2>2 DEF BootInv, BootstrapIsExact
<1>10. CASE bootstrap.complete = "no"
  <2> DEFINE P == BootstrapPage
             next == IF P = {} THEN bootstrap.cursor ELSE Max(P)
             done == IF Cardinality(P) < Page THEN "yes" ELSE "no"
  <2>1. bootstrap' = [cursor |-> next, complete |-> done]
    BY <1>3, <1>10 DEF BootstrapAdvances
  <2>2. bootstrap'.cursor = next /\ bootstrap'.complete = done
    BY <2>1
  <2>3. /\ \A m \in P, o \in Unvisited : o <= m => o \in P
        /\ Cardinality(P) < Page => P = Unvisited
    BY <1>1, <1>10, PageIsFirst
  <2>4. bootstrap.cursor \in 0..committed
        /\ \A o \in (1..bootstrap.cursor) \ Imported : delivery[o].status # "absent"
    BY <1>10 DEF BootInv
  <2> HIDE DEF P
  <2>5. next \in 0..committed /\ (P # {} => next \in P)
    <3>1. CASE P = {}
      BY <2>4, <3>1
    <3>2. CASE P # {}
      <4>1. P \subseteq 1..committed
        BY <1>7 DEF P
      <4>2. Max(P) \in P
        BY Zenon, <1>1, <3>2, <4>1, GreatestOf
      <4>3. next = Max(P)
        BY <3>2
      <4>4. Max(P) \in 0..committed
        <5>1. Max(P) \in 1..committed
          BY ZenonT(60), <4>1, <4>2
        <5> QED  BY <1>1, <5>1
      <4> QED  BY <4>2, <4>3, <4>4
    <3> QED  BY <3>1, <3>2
  <2> HIDE DEF next
  <2>6. ASSUME NEW o \in (1..next) \ Imported
        PROVE  delivery'[o].status # "absent"
    <3>1. o \in 1..committed /\ o \in Job
      BY <1>1, <1>7, <2>5
    <3>2. CASE o <= bootstrap.cursor
      <4>1. o \in (1..bootstrap.cursor) \ Imported
        BY <1>1, <2>4, <3>1, <3>2
      <4> QED  BY <1>6, <2>4, <3>1, <4>1
    <3>3. CASE o > bootstrap.cursor
      <4>1. o \in Unvisited
        BY <3>1, <3>3 DEF Unvisited
      <4>2. P # {}
        BY <1>1, <2>4, <3>1, <3>3 DEF next
      <4>3. o \in P
        BY <2>3, <2>5, <4>1, <4>2
      <4> QED  BY <1>6, <3>1, <4>3 DEF P
    <3> QED  BY <1>1, <2>4, <3>1, <3>2, <3>3
  <2>7. ASSUME done = "yes", NEW o \in (1..committed) \ Imported
        PROVE  delivery'[o].status # "absent"
    <3>1. P = Unvisited
      BY <2>3, <2>7
    <3>2. o \in Job
      BY <1>7
    <3>3. CASE o <= bootstrap.cursor
      <4>1. o \in (1..bootstrap.cursor) \ Imported
        BY <1>1, <2>4, <3>3
      <4> QED  BY <1>6, <2>4, <3>2, <4>1
    <3>4. CASE o > bootstrap.cursor
      <4>1. o \in P
        BY <3>1, <3>4 DEF Unvisited
      <4> QED  BY <1>6, <3>2, <4>1 DEF P
    <3> QED  BY <1>1, <2>4, <3>3, <3>4
  <2>8. done \in {"yes", "no"}
    OBVIOUS
  <2> HIDE DEF done
  <2>9. committed' >= Legacy
    BY <1>3 DEF BootInv
  <2> QED  BY <1>3, <1>8, <2>2, <2>5, <2>6, <2>7, <2>8, <2>9 DEF BootInv, BootstrapIsExact
<1> QED  BY <1>9, <1>10 DEF BootInv

\* A publication registers its own row.
LEMMA CommitBootstraps ==
  ASSUME IInv, BootInv, Commit
  PROVE  BootInv'
<1>1. /\ committed \in Nat /\ Jobs \in Nat /\ Legacy \in Nat /\ committed + 1 \in Job
      /\ committed' = committed + 1 /\ bootstrap' = bootstrap
  BY LedgerConstants DEF Commit, Job, IInv, Shape
<1>2. \A p \in Job : delivery'[p] = IF p = committed + 1 THEN Registered(generation)
                                                       ELSE delivery[p]
  BY DEF Commit, IInv, Shape
<1>3. Registered(generation).status # "absent"
  BY DEF Registered
<1>4. Imported \subseteq 1..Legacy /\ 1..committed \subseteq Job /\ Imported \subseteq Job
  BY <1>1, LedgerConstants DEF Job, IInv, Shape
<1>5. \A o \in 1..(committed + 1) : o \in Job /\ (o = committed + 1 \/ o \in 1..committed)
  BY <1>1, <1>4
<1>6. \A o \in 1..committed : o # committed + 1
  BY <1>1
<1>7. \A o \in Imported : o # committed + 1
  BY <1>1, <1>4 DEF BootInv
<1>8. committed' >= Legacy /\ bootstrap.cursor \in 0..(committed + 1)
      /\ 1..bootstrap.cursor \subseteq 1..committed
  BY <1>1 DEF BootInv
<1>9. \A o \in Imported : delivery'[o].status = "absent"
  BY <1>2, <1>4, <1>7 DEF BootInv, BootstrapIsExact
<1>10. bootstrap.complete = "yes" =>
         \A o \in (1..(committed + 1)) \ Imported : delivery'[o].status # "absent"
  BY <1>2, <1>3, <1>5, <1>6 DEF BootInv, BootstrapIsExact
<1>11. bootstrap.complete = "no" =>
         \A o \in (1..bootstrap.cursor) \ Imported : delivery'[o].status # "absent"
  BY <1>2, <1>4, <1>6, <1>8 DEF BootInv
<1> QED  BY <1>1, <1>8, <1>9, <1>10, <1>11 DEF BootInv, BootstrapIsExact

\* Every other operation leaves the registered rows registered.
LEMMA QuietBootstraps ==
  ASSUME IInv, BootInv, LedgerKeeps, NothingRegistered
  PROVE  BootInv'
<1>1. \A o \in Job : delivery'[o].status = "absent" <=> delivery[o].status = "absent"
  BY DEF LedgerKeeps, RowKept, NothingRegistered
<1>2. committed' = committed /\ bootstrap' = bootstrap
  BY DEF NothingRegistered
<1>3. 1..committed \subseteq Job /\ Imported \subseteq Job /\ 1..bootstrap.cursor \subseteq Job
  BY LedgerConstants DEF Job, IInv, Shape, BootInv
<1> QED  BY <1>1, <1>2, <1>3 DEF BootInv, BootstrapIsExact

\* Acknowledging and releasing register nothing.
LEMMA LeaseRegistersNothing ==
  ASSUME IInv, NEW ref \in Ref, NEW r, Acknowledge(ref, r) \/ Retry(ref, r)
  PROVE  NothingRegistered
<1>1. UNCHANGED <<committed, bootstrap>>
  BY DEF Acknowledge, Retry
<1>2. CASE HoldsLease(ref, r)
  <2>1. \E s : delivery' = [delivery EXCEPT ![ref.job].status = s]
    BY ZenonT(60), <1>2 DEF Acknowledge, Retry
  <2>2. \A o \in Job : o # ref.job => delivery'[o] = delivery[o]
    BY <2>1 DEF IInv, Shape
  <2>3. delivery[ref.job].status # "absent"
    BY <1>2 DEF HoldsLease
  <2> QED  BY <1>1, <2>2, <2>3 DEF NothingRegistered
<1>3. CASE ~HoldsLease(ref, r)
  BY <1>1, <1>3 DEF Acknowledge, Retry, NothingRegistered
<1> QED  BY <1>2, <1>3

\* Every step is one of the three kinds above.
LEMMA StepRegisters ==
  ASSUME IInv, Next
  PROVE  Commit \/ (\E S : ClaimOutbox(S)) \/ NothingRegistered
<1>1. CASE UNCHANGED <<committed, bootstrap, delivery>>
  BY <1>1 DEF NothingRegistered
<1>2. CASE GenerationMoves
  BY <1>2 DEF GenerationMoves, NothingRegistered
<1>3. ASSUME NEW o \in Job, Prune(o) \/ TimePasses(o)
      PROVE  NothingRegistered
  <2>1. UNCHANGED <<committed, bootstrap>>
    BY <1>3 DEF Prune, TimePasses
  <2>2. \A p \in Job : p # o => delivery'[p] = delivery[p]
    BY <1>3 DEF Prune, TimePasses, IInv, Shape
  <2>3. delivery[o] \in Row
    BY DEF IInv, Shape
  <2>4. delivery[o].status = "absent" => delivery'[o].status = "absent"
    <3>1. CASE Prune(o)
      BY <3>1 DEF Prune
    <3>2. CASE TimePasses(o)
      <4>1. delivery'[o] = [delivery[o] EXCEPT !.timing = "due"]
        BY <3>2 DEF TimePasses, IInv, Shape
      <4> QED  BY <2>3, <4>1 DEF Row
    <3> QED  BY <1>3, <3>1, <3>2
  <2> QED  BY <2>1, <2>2, <2>4 DEF NothingRegistered
<1>4. ASSUME NEW d \in Dispatchers,
             \/ Dispatch(d)
             \/ \E ref \in sending[d] : Send(d, ref) \/ SendFails(d, ref) \/ SendAbandoned(d, ref)
      PROVE  (\E S : ClaimOutbox(S)) \/ NothingRegistered
  <2>1. CASE Dispatch(d)
    BY ZenonT(30), <2>1 DEF Dispatch
  <2>2. ASSUME NEW ref \in sending[d], Send(d, ref) \/ SendAbandoned(d, ref)
        PROVE  NothingRegistered
    <3>1. UNCHANGED <<committed, bootstrap, delivery>>
      BY <2>2 DEF Send, SendAbandoned, ledgerVars
    <3> QED  BY <3>1 DEF NothingRegistered
  <2>3. ASSUME NEW ref \in sending[d], SendFails(d, ref)
        PROVE  NothingRegistered
    <3>1. ref \in Ref
      BY DEF IInv, Shape
    <3>2. PICK r : Retry(ref, r)
      BY <2>3 DEF SendFails
    <3> QED  BY <3>1, <3>2, LeaseRegistersNothing
  <2> QED  BY <1>4, <2>1, <2>2, <2>3
<1>5. ASSUME NEW ref \in queue, QueueDrops(ref)
      PROVE  UNCHANGED <<committed, bootstrap, delivery>>
  BY <1>5 DEF QueueDrops, ledgerVars
<1>6. ASSUME NEW c \in Consumers,
             \/ \E ref \in queue : Take(c, ref)
             \/ ConsumerStep(c)
             \/ AcknowledgeUnheard(c)
             \/ Fails(c)
             \/ Crash(c)
      PROVE  NothingRegistered
  <2>1. CASE \/ \E ref \in queue : Take(c, ref)
             \/ ReadClaimed(c) \/ Archive(c) \/ ProjectReads(c) \/ ProjectApplies(c)
             \/ Fails(c) \/ Crash(c)
    <3>1. UNCHANGED ledgerVars
      BY Zenon, <2>1 DEF Take, ReadClaimed, Archive, ProjectReads, ProjectApplies, Fails, Crash
    <3>2. UNCHANGED <<committed, bootstrap, delivery>>
      BY <3>1 DEF ledgerVars
    <3> QED  BY <3>2 DEF NothingRegistered
  <2>2. CASE Acknowledges(c) \/ AcknowledgeUnheard(c) \/ Releases(c)
    <3>1. RefOf(c) \in Ref
      BY ZenonT(60), <2>2, RefOfConsumer DEF IInv, Acknowledges, AcknowledgeUnheard, Releases
    <3>2. PICK r : Acknowledge(RefOf(c), r) \/ Retry(RefOf(c), r)
      BY <2>2 DEF Acknowledges, AcknowledgeUnheard, Releases
    <3> QED  BY <3>1, <3>2, LeaseRegistersNothing
  <2> QED  BY <1>6, <2>1, <2>2 DEF ConsumerStep
<1> QED  BY Zenon, <1>1, <1>2, <1>3, <1>4, <1>5, <1>6 DEF Next

\* Both invariants hold initially.
LEMMA ExactInit == Init => CursorInv /\ BootInv
<1> SUFFICES ASSUME Init PROVE CursorInv /\ BootInv
  OBVIOUS
<1>1. Imported \subseteq Job /\ Legacy \in Nat
  BY LedgerConstants DEF Job
<1>2. committed = Legacy /\ \A o \in Job : delivery[o].status = "absent"
  BY DEF Init, LedgerInit, NoRow
<1>3. bootstrap.cursor = 0 /\ bootstrap.complete = "no"
  BY DEF Init, LedgerInit
<1>4. BootInv
  BY <1>1, <1>2, <1>3 DEF BootInv, BootstrapIsExact
<1>5. CursorInv
  BY DEF Init, CursorInv, CursorIsNewest
<1> QED  BY <1>4, <1>5

\* Whatever the order of the deliveries the cursor of the domain is the newest
\* delivered version (the monotonic upsert of D1OutboxProjection.apply), and
\* however claims, commits and pages interleave, the bootstrap
\* (bootstrapOutbox) that reports completion has registered every canonical
\* row that was not imported, and no imported one.
THEOREM ExactBookkeeping == Spec => []OutboxIsExact
<1>1. IInv /\ CursorInv /\ BootInv /\ [Next]_vars => CursorInv' /\ BootInv'
  <2> SUFFICES ASSUME IInv, CursorInv, BootInv, [Next]_vars PROVE CursorInv' /\ BootInv'
    OBVIOUS
  <2>1. CASE Next
    <3>1. CursorInv'
      <4>1. CASE UNCHANGED <<receipts, cursor>>
        BY <4>1 DEF CursorInv, CursorIsNewest
      <4> QED  BY <2>1, <4>1, OnlyProjectionWrites, ProjectionKeeps
    <3>2. LedgerKeeps
      BY NextPreserves
    <3>3. BootInv'
      BY <2>1, <3>2, StepRegisters, CommitBootstraps, ClaimBootstraps, QuietBootstraps
    <3> QED  BY <3>1, <3>3
  <2>2. CASE UNCHANGED vars
    BY <2>2 DEF vars, CursorInv, CursorIsNewest, BootInv, BootstrapIsExact
  <2> QED  BY <2>1, <2>2
<1>2. CursorInv /\ BootInv => OutboxIsExact
  BY DEF CursorInv, BootInv, OutboxIsExact
<1> QED  BY <1>1, <1>2, ExactInit, Invariance, PTL DEF Spec

=============================================================================
