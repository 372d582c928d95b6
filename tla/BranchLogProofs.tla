-------------------------- MODULE BranchLogProofs ---------------------------
(***************************************************************************)
(* For any set of calls and commands, any patch function, and any bound on *)
(* the batch loop and on the integers: every publication is whole, every   *)
(* answer is true, identity is decided before the predecessor, and the     *)
(* authority with its tables, awaits and restarts implements the atomic    *)
(* log of BranchLog.                                                       *)
(*                                                                         *)
(* The inductive invariant has two halves beside the one of                *)
(* BranchCommitsProofs. With LinkedInv no call is answered state_corrupt.  *)
(* HonestCalls says what a call has established before its await and that  *)
(* it stays true while others commit: a prepared batch still holds the     *)
(* receipts of its envelope as long as the head it has seen is the head,   *)
(* and every restart of it has seen one more head.                         *)
(*                                                                         *)
(* The log is read off the event rows (LogOfRows); a publication extends   *)
(* it by the fresh events of one call, every other step leaves it alone,   *)
(* and what a call is told of an event is what the log holds (LogIsTruth). *)
(***************************************************************************)
EXTENDS BranchCommitsProofs

\* Back ends, in the order in which they are tried.
USE SMTT(15), Zenon, Z3T(60)

-----------------------------------------------------------------------------
(***************************************************************************)
(* The answers.                                                            *)
(***************************************************************************)
\* append: a refusal, and a replay of the stored receipt.
LEMMA RefusedHonestly ==
  ASSUME IInv, AnswersInv, NEW c \in Calls, call[c].cmd \in Commands,
         call[c].cmd.op = "append", AppendRefused(c)
  PROVE  AnswersInv'
<1> DEFINE cmd == call[c].cmd
           code == AppendCheck(cmd)
           acks == IF code = "duplicate"
                   THEN {Ack(r, code) : r \in ReceiptOf(cmd.events[1].id)} ELSE {}
<1>1. Answer(c, code, acks) /\ UNCHANGED <<rows, migration>>
  BY DEF AppendRefused
<1>2. Progress /\ LinkedInv' /\ receipts' = receipts
  BY <1>1, SameProgress, SameLinks DEF IInv, AnswersInv, rows
<1>3. Plain(code)
  BY AppendCodes DEF IInv, AnswersInv
<1>4. DOMAIN cmd.events = {1}
  <2>1. cmd.events \in Seq(Range(cmd.events)) /\ Len(cmd.events) = 1
    BY CommitConstants DEF CommandShape
  <2>2. DOMAIN cmd.events = 1..1
    BY <2>1, SeqIsFunction
  <2>. QED
    BY <2>2
<1>5. ASSUME acks # {}
      PROVE  /\ \A a \in acks : a.receipt \in receipts'
             /\ {a.receipt.hash : a \in acks} = {cmd.events[i] : i \in DOMAIN cmd.events}
  <2>1. code = "duplicate"
    BY <1>5
  <2>2. ~Reuses(cmd.events[1])
    BY <2>1, HeadCodes DEF AppendCheck, IInv, AnswersInv, Plain, HeadCheck
  <2>3. \A a \in acks : a.receipt \in receipts /\ a.receipt.hash = cmd.events[1]
    BY <2>1, <2>2 DEF Ack, Reuses, ReceiptOf
  <2>. QED
    BY <1>2, <1>4, <1>5, <2>3
<1>6. \A a \in acks : a.status # "accepted"
  BY DEF Ack
<1> HIDE DEF acks, code
<1>7. HonestCalls' /\ AcceptedOnce'
  BY Zenon, <1>1, <1>2, <1>3, <1>5, <1>6, Replied DEF IInv, AnswersInv, Plain
<1>. QED
  BY <1>2, <1>7 DEF AnswersInv

\* append, both transactions.
LEMMA AppendAnswers ==
  ASSUME IInv, AnswersInv, NEW c \in Calls, AppendCapture(c) \/ AppendCommit(c)
  PROVE  AnswersInv'
<1> DEFINE cmd == call[c].cmd
           es == cmd.events
<1>1. /\ RowsInv /\ CallsInv /\ OneOwner /\ CallFields(call[c]) /\ CallInv(call[c])
      /\ LinkedInv /\ HonestCalls /\ AcceptedOnce
  BY DEF IInv, AnswersInv, CallsInv, CallShape
<1>2. cmd \in Commands /\ cmd.op = "append"
  BY <1>1 DEF AppendCapture, AppendCommit, CallInv
<1>3. CASE AppendRefused(c)
  BY <1>2, <1>3, RefusedHonestly
<1>4. ASSUME AppendCapture(c), AppendCheck(cmd) = "ok", ~AppendRefused(c)
      PROVE  AnswersInv'
  <2>1. CASE Exhausted(es, head.version)
    BY <1>4, <2>1, FailedPlainly DEF AppendCapture, Plain
  <2>2. CASE ~Exhausted(es, head.version)
    <3>1. PICK k : k = [call[c] EXCEPT !.step = "prepared", !.seen = head.version]
      OBVIOUS
    <3>2. call' = [call EXCEPT ![c] = k] /\ UNCHANGED <<rows, migration>> /\ call[c].step = "received"
      BY ZenonT(30), <1>4, <2>2, <3>1 DEF AppendCapture
    <3>3. k.step = "prepared" /\ k.cmd = cmd /\ k.answer = call[c].answer /\ k.acks = call[c].acks
      BY ZenonT(30), <1>1, <3>1 DEF CallFields, FieldNames
    <3>4. call[c].answer = "none" /\ call[c].acks = {}
      BY <1>1, <3>2 DEF HonestCalls, Honest, Undecided
    <3>5. Honest(k)'
      BY <1>2, <3>3, <3>4 DEF Honest, Undecided, BatchHasSeen, BatchHasLost, InitializeHasSeen,
                              AcksAreStored, AcceptedInPlace, CodesAreHonest
    <3>6. Progress /\ LinkedInv'
      BY <1>1, <3>2, SameProgress, SameLinks
    <3>7. HonestCalls'
      BY ZenonT(30), <1>1, <3>2, <3>5, <3>6, OneMoves
    <3>8. call'[c] = k /\ \A d \in Calls : d # c => call'[d] = call[d]
      BY <1>1, <3>2 DEF CallsInv, CallShape
    <3>9. AcceptedOnce'
      <4>1. \A d \in Calls \ {c} : Told(d)' \subseteq Told(d)
        BY <3>8 DEF Told
      <4>2. Told(c)' = {}
        BY <3>3, <3>4, <3>8 DEF Told
      <4>. QED
        BY <1>1, <4>1, <4>2, OnceKept
    <3>. QED
      BY <3>6, <3>7, <3>9 DEF AnswersInv
  <2>. QED
    BY <2>1, <2>2
<1>5. ASSUME AppendCommit(c), AppendCheck(cmd) = "ok", AppendPublishes(c)
      PROVE  AnswersInv'
  <2>1. call[c].seen = cmd.expected /\ ~Exhausted(es, call[c].seen)
    BY <1>1, <1>2, <1>5 DEF AppendCommit, CallInv
  <2>2. head.version = call[c].seen /\ head.state = "present" /\ ReceiptOf(es[1].id) = {}
    BY <1>1, <1>5, <2>1, HeadIsPresent DEF AppendCheck, RowsInv, RowShape
  <2>3. es \in Seq(Range(es)) /\ es # <<>> /\ Len(es) = 1 /\ es[1].follows = cmd.expected.seq
    BY <1>2, EventsAreSeq, CommitConstants DEF CommandShape
  <2>4. DOMAIN es = {1}
    <3>1. DOMAIN es = 1..1
      BY <2>3, SeqIsFunction
    <3>. QED
      BY <3>1
  <2>5. \A r \in receipts, i \in DOMAIN es : r.id # es[i].id
    BY <2>2, <2>4 DEF ReceiptOf
  <2>6. ~Conflicts("append", es, head.version)
    BY <1>1, <2>2, <2>3, <2>4, <2>5, NoConflict
  <2> DEFINE acks == {Ack(r, "accepted") : r \in ReceiptRows(es, head.version)}
  <2>7. Publish("append", es, head.version) /\ Answer(c, "accepted", acks)
    BY <1>5, <2>2, <2>6 DEF AppendPublishes
  <2>8. Publication("append", es)
    BY <2>1, <2>2, <2>3, <2>6, <2>7 DEF Publication
  <2>9. head.version.seq \in Int
    BY <1>1, CommitConstants DEF RowsInv, RowShape
  <2>10. \A i \in DOMAIN es : es[i].follows \in {Undefined, head.version.seq + i - 1}
    BY <2>1, <2>2, <2>3, <2>4, <2>9
  <2>11. Progress /\ LinkedInv'
    BY <1>1, <2>3, <2>8, <2>10, PublicationProgress, PublicationLinks
  <2>12. receipts' = receipts \cup ReceiptRows(es, head.version) /\ snapshots \subseteq snapshots'
    BY <2>7 DEF Publish
  <2>13. \A a \in acks : /\ a.receipt \in ReceiptRows(es, head.version)
                         /\ a.receipt.hash = es[1] /\ a.receipt.id = es[1].id
                         /\ a.receipt.version = NextVersion(es, head.version)
    BY <2>4 DEF Ack, ReceiptRows
  <2>14. acks # {}
    BY ZenonT(60), <2>4 DEF ReceiptRows
  <2>15. \E p \in snapshots : p.version = cmd.expected
    BY <1>1, <2>1, <2>2 DEF RowsInv, HistoryIsWhole
  <2> HIDE DEF acks
  <2>16. /\ \A a \in acks : a.receipt \in receipts'
         /\ {a.receipt.hash : a \in acks} = {es[i] : i \in DOMAIN es}
    BY <2>4, <2>12, <2>13, <2>14
  <2>17. \E a \in acks, p \in snapshots' :
           p.version = cmd.expected /\ a.receipt.version.snapshot = p.version.snapshot + 1
    <3>1. PICK p \in snapshots' : p.version = cmd.expected
      BY <2>12, <2>15
    <3>2. PICK a \in acks : TRUE
      BY <2>14
    <3>3. a.receipt.version.snapshot = p.version.snapshot + 1
      BY <2>1, <2>2, <2>13, <3>1, NextVersionFields
    <3>. QED
      BY <3>1, <3>3
  <2>18. \A a \in acks : \A r \in receipts : r.id # a.receipt.id
    BY <2>4, <2>5, <2>13
  <2>19. HonestCalls' /\ AcceptedOnce'
    BY Zenon, <1>1, <2>7, <2>11, <2>16, <2>17, <2>18, Replied
  <2>. QED
    BY <2>11, <2>19 DEF AnswersInv
<1>. QED
  BY <1>3, <1>4, <1>5 DEF AppendCapture, AppendCommit

-----------------------------------------------------------------------------
\* A call that moves on without an answer.
LEMMA MovesOn ==
  ASSUME RowsInv, CallsInv, LinkedInv, HonestCalls, AcceptedOnce, UNCHANGED rows,
         NEW c \in Calls, NEW k, call' = [call EXCEPT ![c] = k], k.acks = {}, Honest(k)'
  PROVE  AnswersInv'
<1>1. Progress /\ LinkedInv'
  BY SameProgress, SameLinks
<1>2. HonestCalls'
  BY ZenonT(30), <1>1, OneMoves
<1>3. call'[c] = k /\ \A d \in Calls : d # c => call'[d] = call[d]
  BY DEF CallsInv, CallShape
<1>4. \A d \in Calls \ {c} : Told(d)' \subseteq Told(d)
  BY <1>3 DEF Told
<1>5. Told(c)' = {}
  BY <1>3 DEF Told
<1>6. AcceptedOnce'
  BY <1>4, <1>5, OnceKept
<1>. QED
  BY <1>1, <1>2, <1>6 DEF AnswersInv

\* appendBatch, first transaction.
LEMMA BatchCaptureAnswers ==
  ASSUME IInv, AnswersInv, NEW c \in Calls, BatchCapture(c)
  PROVE  AnswersInv'
<1> DEFINE cmd == call[c].cmd
           known == KnownReceipts(cmd)
           since == IF call[c].attempt = 0 THEN head.version.snapshot ELSE call[c].since
           first == BatchCheck(cmd)
           second == PrepareBatchCheck(cmd.events, known, head.version)
<1>1. /\ RowsInv /\ CallsInv /\ OneOwner /\ CallFields(call[c]) /\ CallInv(call[c])
      /\ LinkedInv /\ HonestCalls /\ AcceptedOnce /\ Honest(call[c])
  BY DEF IInv, AnswersInv, CallsInv, CallShape, HonestCalls
<1>2. call[c].step = "received" /\ cmd.op = "batch"
  BY DEF BatchCapture
<1>3. Plain(first) /\ Plain(second)
  BY <1>1, BatchCodes, PrepareBatchCodes
<1>4. CASE ~(first = "ok" /\ second = "ok")
  <2>1. Fail(c, first) \/ Fail(c, second)
    BY <1>4 DEF BatchCapture
  <2>. QED
    BY <1>3, <2>1, FailedPlainly
<1>5. CASE first = "ok" /\ second = "ok"
  <2>1. PICK k : k = [call[c] EXCEPT !.step = "prepared", !.seen = head.version, !.known = known,
                                     !.since = since]
    OBVIOUS
  <2>2. call' = [call EXCEPT ![c] = k] /\ UNCHANGED <<rows, migration>>
    BY <1>5, <2>1 DEF BatchCapture
  <2>3. head.state = "present"
    BY <1>1, <1>5, HeadCodes DEF BatchCheck
  <2>4. /\ \A i, j \in DOMAIN cmd.events :
             cmd.events[i].id = cmd.events[j].id => cmd.events[i] = cmd.events[j]
        /\ \A i \in DOMAIN Accepted(cmd.events, known) :
             Accepted(cmd.events, known)[i].follows \in {Undefined, head.version.seq + i - 1}
    BY <1>5 DEF PrepareBatchCheck
  <2>5. \E s \in snapshots : s.version = head.version
    BY <1>1, <2>3 DEF RowsInv, HistoryIsWhole
  <2>6. since \in Int /\ head.version.snapshot >= since + call[c].attempt
    <3>1. head.version.snapshot \in Int /\ call[c].attempt \in Nat
      BY <1>1, CommitConstants DEF RowsInv, RowShape, CallInv
    <3>2. CASE call[c].attempt = 0
      BY <3>1, <3>2
    <3>3. CASE call[c].attempt # 0
      BY <1>1, <1>2, <3>1, <3>3 DEF Honest, BatchHasLost
    <3>. QED
      BY <3>2, <3>3
  <2>7. call[c].answer = "none" /\ call[c].acks = {}
    BY <1>1, <1>2 DEF Honest, Undecided
  <2> HIDE DEF known, since
  <2>8. /\ k.step = "prepared" /\ k.cmd = cmd /\ k.seen = head.version /\ k.known = known
        /\ k.since = since /\ k.attempt = call[c].attempt
        /\ k.answer = "none" /\ k.acks = {}
    BY ZenonT(30), <1>1, <2>1, <2>7 DEF CallFields, FieldNames
  <2>9. BatchHasSeen(k)'
    <3>1. snapshots' = snapshots /\ head' = head /\ receipts' = receipts
      BY <2>2 DEF rows
    <3>2. KnownReceipts(k.cmd)' = known
      BY <2>8, <3>1 DEF KnownReceipts, ReceiptOf, known
    <3>3. Accepted(k.cmd.events, k.known)' = Accepted(cmd.events, known)
      BY <2>8 DEF Accepted, FirstOfId
    <3>4. /\ \A i, j \in DOMAIN k.cmd.events :
               k.cmd.events[i].id = k.cmd.events[j].id => k.cmd.events[i] = k.cmd.events[j]
          /\ \A i \in DOMAIN Accepted(cmd.events, known) :
               Accepted(cmd.events, known)[i].follows \in {Undefined, k.seen.seq + i - 1}
          /\ \E s \in snapshots' : s.version = k.seen
          /\ k.since \in Int /\ k.seen.snapshot >= k.since + k.attempt
      BY ZenonT(90), <2>4, <2>5, <2>6, <2>8, <3>1
    <3>. QED
      BY ZenonT(30), <2>8, <3>2, <3>3, <3>4 DEF BatchHasSeen, Undefined
  <2>10. Honest(k)'
    BY <1>2, <2>8, <2>9 DEF Honest, Undecided, BatchHasLost, InitializeHasSeen,
                            AcksAreStored, AcceptedInPlace, CodesAreHonest
  <2>. QED
    BY ZenonT(30), <1>1, <2>2, <2>8, <2>10, MovesOn
<1>. QED
  BY <1>4, <1>5

\* The loop: every restart and the final failure witness one more head.
LEMMA BatchRetriesAnswers ==
  ASSUME IInv, AnswersInv, NEW c \in Calls, call[c].step = "prepared", call[c].cmd.op = "batch",
         head.state = "present", head.version # call[c].seen, BatchRetries(c)
  PROVE  AnswersInv'
<1>1. /\ RowsInv /\ CallsInv /\ OneOwner /\ CallFields(call[c]) /\ CallInv(call[c])
      /\ LinkedInv /\ HonestCalls /\ AcceptedOnce /\ Honest(call[c])
  BY DEF IInv, AnswersInv, CallsInv, CallShape, HonestCalls
<1>2. /\ call[c].since \in Int /\ call[c].seen.snapshot >= call[c].since + call[c].attempt
      /\ \E s \in snapshots : s.version = call[c].seen
  BY <1>1 DEF Honest, BatchHasSeen
<1>3. /\ call[c].attempt \in Nat /\ call[c].attempt < MaxAttempts
      /\ head.version.snapshot \in Int
  BY <1>1, CommitConstants DEF CallInv, RowsInv, RowShape
<1>4. call[c].seen.snapshot \in 0..head.version.snapshot /\ call[c].seen.snapshot # head.version.snapshot
  <2>1. PICK s \in snapshots : s.version = call[c].seen
    BY <1>2
  <2>2. PICK h \in snapshots : h.version = head.version
    BY <1>1 DEF RowsInv, HistoryIsWhole
  <2>3. s.version.snapshot \in 0..head.version.snapshot
    BY <1>1 DEF RowsInv, HistoryIsWhole
  <2>4. s.version.snapshot = h.version.snapshot => s = h
    BY <1>1 DEF RowsInv, HistoryIsWhole
  <2>. QED
    BY <2>1, <2>2, <2>3, <2>4
<1>5. head.version.snapshot >= call[c].since + (call[c].attempt + 1)
  BY <1>2, <1>3, <1>4
<1>6. call[c].answer = "none" /\ call[c].acks = {} /\ UNCHANGED rows /\ head' = head
  BY <1>1 DEF Honest, Undecided, BatchRetries, rows
<1>7. CASE call[c].attempt + 1 < MaxAttempts
  <2>1. PICK k : k = [call[c] EXCEPT !.step = "received", !.attempt = call[c].attempt + 1]
    OBVIOUS
  <2>2. call' = [call EXCEPT ![c] = k]
    BY <1>7, <2>1 DEF BatchRetries
  <2>3. /\ k.step = "received" /\ k.cmd = call[c].cmd /\ k.attempt = call[c].attempt + 1
        /\ k.since = call[c].since /\ k.answer = "none" /\ k.acks = {}
    BY ZenonT(30), <1>1, <1>6, <2>1 DEF CallFields, FieldNames
  <2>4. Honest(k)'
    BY <1>2, <1>5, <1>6, <2>3 DEF Honest, Undecided, BatchHasSeen, BatchHasLost, InitializeHasSeen,
                            AcksAreStored, AcceptedInPlace, CodesAreHonest
  <2>. QED
    BY ZenonT(30), <1>1, <1>6, <2>2, <2>3, <2>4, MovesOn
<1>8. CASE ~(call[c].attempt + 1 < MaxAttempts)
  <2>1. PICK k : k = [call[c] EXCEPT !.step = "idle", !.attempt = call[c].attempt + 1,
                                     !.seen = NoVersion, !.known = {}, !.answer = "state_unavailable"]
    OBVIOUS
  <2>2. call' = [call EXCEPT ![c] = k]
    BY <1>8, <2>1 DEF BatchRetries
  <2>3. /\ k.step = "idle" /\ k.cmd = call[c].cmd /\ k.since = call[c].since
        /\ k.answer = "state_unavailable" /\ k.acks = {}
    BY ZenonT(30), <1>1, <1>6, <2>1 DEF CallFields, FieldNames
  <2>4. call[c].attempt + 1 = MaxAttempts
    BY <1>3, <1>8, CommitConstants
  <2>5. head'.version.snapshot >= k.since + MaxAttempts
    BY <1>5, <1>6, <2>3, <2>4
  <2>6. Honest(k)'
    BY <1>2, <2>3, <2>5 DEF Honest, Undecided, BatchHasSeen, BatchHasLost, InitializeHasSeen,
                            AcksAreStored, AcceptedInPlace, CodesAreHonest
  <2>. QED
    BY ZenonT(30), <1>1, <1>6, <2>2, <2>3, <2>6, MovesOn
<1>. QED
  BY <1>7, <1>8

\* Receipts found and events accepted are together the events of an envelope.
LEMMA BatchHashes ==
  ASSUME NEW S, NEW es \in Seq(S), NEW known,
         \A r \in known : \E i \in DOMAIN es : r \in ReceiptOf(es[i].id),
         \A i \in DOMAIN es : ReceiptOf(es[i].id) \subseteq known,
         \A i \in DOMAIN es : ~Reuses(es[i]),
         \A i, j \in DOMAIN es : es[i].id = es[j].id => es[i] = es[j]
  PROVE  /\ \A r \in known : \E i \in DOMAIN es : r.hash = es[i]
         /\ \A k \in DOMAIN Accepted(es, known) : \E i \in DOMAIN es : Accepted(es, known)[k] = es[i]
         /\ \A i \in DOMAIN es :
              \/ \E r \in known : r.hash = es[i]
              \/ \E k \in DOMAIN Accepted(es, known) : Accepted(es, known)[k] = es[i]
         /\ \A k \in DOMAIN Accepted(es, known) : \A r \in receipts : r.id # Accepted(es, known)[k].id
<1> DEFINE picks == Picks(es, known)
           new == Accepted(es, known)
<1>1. /\ new \in Seq(Kept(es, known))
      /\ \A i \in picks : \E k \in DOMAIN new : new[k] = es[i]
  BY AcceptedEvents
<1>2. \A k \in DOMAIN new : \E i \in picks : new[k] = es[i]
  <2>1. \A k \in DOMAIN new : new[k] \in Kept(es, known)
    <3> HIDE DEF new
    <3>. QED
      BY <1>1, SeqIsFunction
  <2>. QED
    BY <2>1 DEF Kept
<1>3. \A r \in known : \E i \in DOMAIN es : r.hash = es[i]
  BY DEF Reuses, ReceiptOf
<1>4. DOMAIN es = 1..Len(es) /\ Len(es) \in Nat
  BY SeqIsFunction
<1>5. ASSUME NEW i \in DOMAIN es
      PROVE  \/ \E r \in known : r.hash = es[i]
             \/ \E k \in DOMAIN new : new[k] = es[i]
  <2>1. CASE \E r \in known : r.id = es[i].id
    <3>1. PICK r \in known : r.id = es[i].id
      BY <2>1
    <3>2. r \in ReceiptOf(es[i].id)
      BY <3>1 DEF ReceiptOf
    <3>. QED
      BY <3>2 DEF Reuses
  <2>2. CASE \A r \in known : r.id # es[i].id
    <3> DEFINE T == {j \in DOMAIN es : es[j].id = es[i].id}
    <3>1. T \in SUBSET (1..Len(es)) /\ T # {}
      BY <1>4
    <3>2. PICK j \in T : \A l \in T : j <= l
      BY Zenon, <1>4, <3>1, SmallestPosition
    <3>3. FirstOfId(es, j)
      BY <1>4, <3>2 DEF FirstOfId
    <3>4. j \in picks
      BY <2>2, <3>2, <3>3 DEF Picks
    <3>5. es[j] = es[i]
      BY <3>2
    <3>. QED
      BY <1>1, <3>4, <3>5
  <2>. QED
    BY <2>1, <2>2
<1>6. ASSUME NEW k \in DOMAIN new, NEW r \in receipts PROVE r.id # new[k].id
  <2>1. PICK i \in picks : new[k] = es[i]
    BY <1>2
  <2>2. r.id = es[i].id => r \in known
    BY DEF ReceiptOf, Picks
  <2>. QED
    BY <2>1, <2>2 DEF Picks
<1>. QED
  BY <1>2, <1>3, <1>5, <1>6 DEF Picks

-----------------------------------------------------------------------------
\* appendBatch, second transaction: the answer joins the receipts found and
\* the events published.
LEMMA BatchPublishAnswers ==
  ASSUME IInv, AnswersInv, NEW c \in Calls, call[c].step = "prepared", call[c].cmd.op = "batch",
         head.state = "present", head.version = call[c].seen,
         BatchCheck(call[c].cmd) = "ok", KnownReceipts(call[c].cmd) = call[c].known,
         BatchPublishes(c)
  PROVE  AnswersInv'
<1> DEFINE cmd == call[c].cmd
           es == cmd.events
           known == call[c].known
           new == Accepted(es, known)
           replayed == {Ack(r, "duplicate") : r \in known}
           fresh == ReceiptRows(new, head.version)
           told == replayed \cup {Ack(r, "accepted") : r \in fresh}
<1>1. /\ RowsInv /\ CallsInv /\ OneOwner /\ CallInv(call[c])
      /\ LinkedInv /\ HonestCalls /\ AcceptedOnce /\ Honest(call[c])
  BY DEF IInv, AnswersInv, CallsInv, HonestCalls
<1>2. cmd \in Commands
  BY <1>1 DEF CallInv
<1>3. es \in Seq(Range(es))
  BY <1>2, EventsAreSeq
<1>4. /\ \A i, j \in DOMAIN es : es[i].id = es[j].id => es[i] = es[j]
      /\ \A i \in DOMAIN new : new[i].follows \in {Undefined, head.version.seq + i - 1}
  BY <1>1 DEF Honest, BatchHasSeen
<1>5. /\ \A r \in known : r \in receipts /\ \E i \in DOMAIN es : r \in ReceiptOf(es[i].id)
      /\ \A i \in DOMAIN es : ReceiptOf(es[i].id) \subseteq known
  BY DEF KnownReceipts, ReceiptOf
<1>6. \A i \in DOMAIN es : ~Reuses(es[i])
  BY DEF BatchCheck, HeadCheck
<1>7. /\ \A r \in known : \E i \in DOMAIN es : r.hash = es[i]
      /\ \A k \in DOMAIN new : \E i \in DOMAIN es : new[k] = es[i]
      /\ \A i \in DOMAIN es :
           \/ \E r \in known : r.hash = es[i]
           \/ \E k \in DOMAIN new : new[k] = es[i]
      /\ \A k \in DOMAIN new : \A r \in receipts : r.id # new[k].id
  <2> HIDE DEF es, known
  <2>. QED
    BY <1>3, <1>4, <1>5, <1>6, BatchHashes
<1>8. /\ new \in Seq(Kept(es, known))
      /\ \A k, l \in DOMAIN new : new[k].id = new[l].id => k = l
  <2> HIDE DEF es, known
  <2>. QED
    BY <1>3, AcceptedEvents
<1>9. \A a \in replayed : a.receipt \in known /\ a.status = "duplicate"
  BY DEF Ack
<1>10. ASSUME NEW r \in known PROVE \E a \in replayed : a.receipt = r
  <2>1. Ack(r, "duplicate") \in replayed /\ Ack(r, "duplicate").receipt = r
    BY DEF Ack
  <2>. QED
    BY <2>1
<1>11. CASE new = <<>>
  <2>1. Answer(c, "batch", replayed) /\ UNCHANGED <<rows, migration>>
    BY <1>11 DEF BatchPublishes
  <2>2. Progress /\ LinkedInv' /\ receipts' = receipts
    BY <1>1, <2>1, SameProgress, SameLinks DEF rows
  <2>3. DOMAIN new = {}
    BY <1>11
  <2> HIDE DEF new, replayed, known, es
  <2>4. \A a \in replayed : a.receipt \in receipts'
    BY <1>5, <1>9, <2>2
  <2>5. {a.receipt.hash : a \in replayed} = {es[i] : i \in DOMAIN es}
    BY <1>7, <1>9, <1>10, <2>3
  <2>6. HonestCalls' /\ AcceptedOnce'
    BY ZenonT(60), <1>1, <1>9, <2>1, <2>2, <2>4, <2>5, Replied DEF es
  <2>. QED
    BY <2>2, <2>6 DEF AnswersInv
<1>12. CASE new # <<>>
  <2>1. ~Conflicts("batch", new, head.version)
    <3> HIDE DEF new
    <3>. QED
      BY <1>1, <1>7, <1>8, <1>12, NoConflict
  <2>2. Publish("batch", new, head.version) /\ Answer(c, "batch", told)
    BY <1>12, <2>1 DEF BatchPublishes
  <2>3. ~Exhausted(new, head.version)
    BY <1>1, <1>12 DEF CallInv
  <2> HIDE DEF new, replayed, known, es
  <2>4. Publication("batch", new)
    BY <1>12, <2>1, <2>2, <2>3 DEF Publication
  <2>5. Progress /\ LinkedInv'
    BY <1>1, <1>4, <1>8, <2>4, PublicationProgress, PublicationLinks
  <2>6. receipts' = receipts \cup fresh
    BY <2>2 DEF Publish
  <2>7. /\ \A r \in fresh : \E k \in DOMAIN new : r.hash = new[k] /\ r.id = new[k].id
        /\ \A k \in DOMAIN new : \E r \in fresh : r.hash = new[k]
    <3>1. ASSUME NEW k \in DOMAIN new PROVE \E r \in fresh : r.hash = new[k]
      <4> DEFINE r == [id |-> new[k].id, hash |-> new[k], seq |-> head.version.seq + k,
                       version |-> NextVersion(new, head.version)]
      <4>1. r \in fresh /\ r.hash = new[k]
        BY DEF ReceiptRows
      <4>. QED
        BY <4>1
    <3>2. ASSUME NEW r \in fresh PROVE \E k \in DOMAIN new : r.hash = new[k] /\ r.id = new[k].id
      BY DEF ReceiptRows
    <3>. QED
      BY <3>1, <3>2
  <2> HIDE DEF fresh
  <2>8. \A a \in told : a \in replayed \/ (a.receipt \in fresh /\ a.status = "accepted")
    BY DEF Ack
  <2>9. ASSUME NEW r \in fresh PROVE \E a \in told : a.receipt = r
    <3>1. Ack(r, "accepted") \in told /\ Ack(r, "accepted").receipt = r
      BY DEF Ack
    <3>. QED
      BY <3>1
  <2>9a. \A a \in replayed : a \in told
    OBVIOUS
  <2> HIDE DEF told
  <2>10. \A a \in told : a.receipt \in receipts'
    BY <1>5, <1>9, <2>6, <2>8
  <2>11. {a.receipt.hash : a \in told} = {es[i] : i \in DOMAIN es}
    <3>1. ASSUME NEW a \in told PROVE \E i \in DOMAIN es : a.receipt.hash = es[i]
      BY <1>7, <1>9, <2>7, <2>8
    <3>2. ASSUME NEW i \in DOMAIN es PROVE \E a \in told : a.receipt.hash = es[i]
      BY <1>7, <1>10, <2>7, <2>9, <2>9a
    <3>. QED
      BY <3>1, <3>2
  <2>12. \A a \in told : a.status = "accepted" => \A r \in receipts : r.id # a.receipt.id
    BY <1>7, <1>9, <2>7, <2>8
  <2>13. HonestCalls' /\ AcceptedOnce'
    BY ZenonT(60), <1>1, <2>2, <2>5, <2>10, <2>11, <2>12, Replied DEF es
  <2>. QED
    BY <2>5, <2>13 DEF AnswersInv
<1>. QED
  BY <1>11, <1>12

\* The second transaction of appendBatch with its restarts.
LEMMA BatchCommitAnswers ==
  ASSUME IInv, AnswersInv, NEW c \in Calls, BatchCommit(c)
  PROVE  AnswersInv'
<1> DEFINE cmd == call[c].cmd
<1>1. RowsInv /\ LinkedInv /\ Honest(call[c])
  BY DEF IInv, AnswersInv, HonestCalls
<1>2. call[c].step = "prepared" /\ cmd.op = "batch"
  BY DEF BatchCommit
<1>3. CASE HeadCheck(cmd.generation) # "ok"
  BY <1>1, <1>3, HeadCodes, FailedPlainly DEF BatchCommit
<1>4. CASE HeadCheck(cmd.generation) = "ok"
  <2>1. head.state = "present"
    BY <1>1, <1>4, HeadCodes
  <2>2. CASE head.version # call[c].seen
    BY <1>2, <1>4, <2>1, <2>2, BatchRetriesAnswers DEF BatchCommit
  <2>3. CASE head.version = call[c].seen /\ BatchCheck(cmd) # "ok"
    BY <1>1, <1>4, <2>3, BatchCodes, FailedPlainly DEF BatchCommit
  <2>4. CASE head.version = call[c].seen /\ BatchCheck(cmd) = "ok"
    <3>1. KnownReceipts(cmd) = call[c].known
      BY <1>1, <1>2, <2>4 DEF Honest, BatchHasSeen
    <3>2. BatchPublishes(c)
      BY <1>4, <2>4, <3>1 DEF BatchCommit
    <3>. QED
      BY <1>2, <2>1, <2>4, <3>1, <3>2, BatchPublishAnswers
  <2>. QED
    BY <2>2, <2>3, <2>4
<1>. QED
  BY <1>3, <1>4

-----------------------------------------------------------------------------
\* reserve and initialize.  Their answers carry no receipts.
LEMMA OwnerReplied ==
  ASSUME IInv, AnswersInv, Progress, LinkedInv', NEW c \in Calls, NEW code, NEW acks,
         Plain(code), call[c].cmd.op \notin {"append", "batch"}, Answer(c, code, acks)
  PROVE  AnswersInv'
<1>1. HonestCalls' /\ AcceptedOnce'
  BY Replied DEF IInv, AnswersInv, Plain
<1>. QED
  BY <1>1 DEF AnswersInv

\* reserve.
LEMMA ReserveAnswers ==
  ASSUME IInv, AnswersInv, NEW c \in Calls, Reserve(c)
  PROVE  AnswersInv'
<1> DEFINE cmd == call[c].cmd
           code == ReserveCheck(cmd)
<1>1. RowsInv /\ LinkedInv /\ RowShape /\ cmd.op = "reserve"
  BY DEF IInv, AnswersInv, RowsInv, Reserve
<1>2. Plain(code)
  BY <1>1, ReserveCodes
<1>3. CASE code = "reserved"
  <2>1. /\ authority' = [authority EXCEPT !.state = "pending", !.generation = cmd.generation,
                                           !.reservation = cmd.reservation]
        /\ Answer(c, code, {cmd.reservation})
        /\ UNCHANGED <<head, snapshots, events, receipts, outbox, delivery, migration>>
    BY <1>3 DEF Reserve
  <2>2. authority.state = "none" /\ head.state = "absent"
    BY <1>1, <1>3 DEF ReserveCheck, RowShape, HeadCheck
  <2>3. LinkedInv'
    BY ZenonT(60), <1>1, <2>1, <2>2, ReservationLinks
  <2>4. Progress
    BY <1>1, <2>1, <2>2, CommitConstants DEF Progress, RowsGrow, WinnerKept, RowShape
  <2>. QED
    BY <1>1, <1>2, <2>1, <2>3, <2>4, OwnerReplied
<1>4. CASE code = "existing"
  <2>1. Answer(c, code, {authority.reservation}) /\ UNCHANGED <<rows, migration>>
    BY <1>4 DEF Reserve
  <2>. QED
    BY <1>1, <1>2, <2>1, SameProgress, SameLinks, OwnerReplied
<1>5. CASE code \notin {"reserved", "existing"}
  BY <1>2, <1>5, FailedPlainly DEF Reserve
<1>. QED
  BY <1>3, <1>4, <1>5

\* initialize, first transaction.
LEMMA InitializeCaptureAnswers ==
  ASSUME IInv, AnswersInv, NEW c \in Calls, InitializeCapture(c)
  PROVE  AnswersInv'
<1> DEFINE cmd == call[c].cmd
           code == IF Reserved THEN "branch_initialization_pending"
                   ELSE IF FencedAuthority(cmd) # "ok" THEN FencedAuthority(cmd)
                   ELSE IF \/ authority.reservation.id # cmd.intent.id
                           \/ authority.reservation.revision # cmd.intent.revision
                        THEN "branch_initialization_conflict"
                   ELSE "ok"
<1>1. /\ RowsInv /\ CallsInv /\ CallFields(call[c]) /\ LinkedInv /\ HonestCalls /\ AcceptedOnce
      /\ Honest(call[c]) /\ call[c].step = "received" /\ cmd.op = "initialize"
  BY DEF IInv, AnswersInv, CallsInv, CallShape, HonestCalls, InitializeCapture
<1>2. Plain(code)
  BY DEF Plain, FencedAuthority
<1>3. CASE code # "ok"
  <2>1. Fail(c, code)
    BY <1>3 DEF InitializeCapture
  <2> HIDE DEF code
  <2>. QED
    BY <1>2, <2>1, FailedPlainly
<1>4. CASE code = "ok"
  <2>1. PICK k : k = [call[c] EXCEPT !.step = "prepared", !.known = {authority.reservation}]
    OBVIOUS
  <2>2. call' = [call EXCEPT ![c] = k] /\ UNCHANGED <<rows, migration>>
    BY <1>4, <2>1 DEF InitializeCapture
  <2>3. authority.state # "none" /\ authority' = authority
    BY <1>4, <2>2 DEF FencedAuthority, rows
  <2>4. call[c].answer = "none" /\ call[c].acks = {}
    BY <1>1 DEF Honest, Undecided
  <2> HIDE DEF code
  <2>5. /\ k.step = "prepared" /\ k.cmd = cmd /\ k.known = {authority.reservation}
        /\ k.answer = "none" /\ k.acks = {}
    BY ZenonT(30), <1>1, <2>1, <2>4 DEF CallFields, FieldNames
  <2>6. Honest(k)'
    BY <1>1, <2>3, <2>5 DEF Honest, Undecided, BatchHasSeen, BatchHasLost, InitializeHasSeen,
                            AcksAreStored, AcceptedInPlace, CodesAreHonest
  <2>. QED
    BY ZenonT(30), <1>1, <2>2, <2>5, <2>6, MovesOn
<1>. QED
  BY <1>3, <1>4

\* initialize, second transaction.
LEMMA InitializeCommitAnswers ==
  ASSUME IInv, AnswersInv, NEW c \in Calls, InitializeCommit(c)
  PROVE  AnswersInv'
<1> DEFINE cmd == call[c].cmd
<1>1. /\ RowsInv /\ RowShape /\ OneOwner /\ LinkedInv /\ AuthorityInv /\ Honest(call[c])
      /\ call[c].step = "prepared" /\ cmd.op = "initialize"
  BY DEF IInv, AnswersInv, LinkedInv, RowsInv, HonestCalls, InitializeCommit
<1>2. CASE FencedAuthority(cmd) # "ok"
  <2>1. Plain(FencedAuthority(cmd))
    BY DEF FencedAuthority, Plain
  <2>. QED
    BY ZenonT(60), <1>2, <2>1, FailedPlainly DEF InitializeCommit
<1>3. CASE FencedAuthority(cmd) = "ok"
  <2>1. authority.state \in {"pending", "active"} /\ authority.generation = cmd.generation
    BY <1>1, <1>3 DEF FencedAuthority, RowShape
  <2>2. call[c].known = {authority.reservation}
    BY ZenonT(60), <1>1 DEF Honest, InitializeHasSeen
  <2>3. CASE authority.state = "active"
    <3> DEFINE code == InitializeReplay(cmd)
               acks == IF code = "duplicate" THEN {authority.intent} ELSE {}
    <3>1. Answer(c, code, acks) /\ UNCHANGED <<rows, migration>>
      BY <1>3, <2>2, <2>3 DEF InitializeCommit
    <3>2. Plain(code)
      <4>1. CASE HeadCheck(cmd.generation) # "ok"
        BY <1>1, <4>1, HeadCodes DEF InitializeReplay
      <4>2. CASE HeadCheck(cmd.generation) = "ok" /\ authority.intent = cmd.intent
        <5>1. PICK s \in snapshots : s.version = Version(0, -1, cmd.intent.content)
          BY <1>1, <2>3, <4>2 DEF AuthorityInv
        <5>2. SnapshotIsSound(s.version)
          BY <1>1, <4>2, HeadCodes, SnapshotsPass DEF LinkedInv
        <5>3. code = "duplicate"
          BY <4>2, <5>1, <5>2 DEF InitializeReplay
        <5>. QED
          BY <5>3 DEF Plain
      <4>3. CASE HeadCheck(cmd.generation) = "ok" /\ authority.intent # cmd.intent
        BY <4>3 DEF InitializeReplay, Plain
      <4>. QED
        BY <4>1, <4>2, <4>3
    <3> HIDE DEF code, acks
    <3>. QED
      BY <1>1, <3>1, <3>2, SameProgress, SameLinks, OwnerReplied
  <2>4. CASE authority.state = "pending"
    <3>1. head.state = "absent" /\ snapshots = {}
      BY <1>1, <2>4 DEF AuthorityInv, RowsInv, HistoryIsWhole
    <3>2. Activate(cmd) /\ Answer(c, "created", {cmd.intent})
      BY <1>3, <2>2, <2>4, <3>1 DEF InitializeCommit
    <3>3. LinkedInv'
      BY <1>1, <2>1, <2>4, <3>1, <3>2, ActivationLinks
    <3>4. RowsGrow /\ WinnerKept
      BY <1>1, <2>4, <3>1, <3>2, Activation DEF RowsKept
    <3>5. head.version.snapshot = -1 /\ head'.version.snapshot = 0
      <4>1. head.version = NoVersion
        BY <1>1, <3>1 DEF AuthorityInv
      <4>2. head'.version = Version(0, -1, cmd.intent.content)
        BY <3>2 DEF Activate
      <4>3. NoVersion.snapshot = -1 /\ Version(0, -1, cmd.intent.content).snapshot = 0
        BY DEF NoVersion, Version
      <4>. QED
        BY <4>1, <4>2, <4>3
    <3>6. Progress
      BY <3>4, <3>5 DEF Progress
    <3>. QED
      BY <1>1, <3>2, <3>3, <3>6, OwnerReplied DEF Plain
  <2>. QED
    BY <2>1, <2>3, <2>4
<1>. QED
  BY <1>2, <1>3

-----------------------------------------------------------------------------
\* A new call, a crash, and the steps of the legacy migration.
LEMMA OtherAnswers ==
  ASSUME IInv, AnswersInv,
         \/ \E c \in Calls : \E cmd \in Commands : Receive(c, cmd)
         \/ MigrationAdmits \/ MigrationRollsBack \/ Crash
  PROVE  AnswersInv'
<1>1. RowsInv /\ CallsInv /\ LinkedInv /\ HonestCalls /\ AcceptedOnce
  BY DEF IInv, AnswersInv
<1>2. /\ Idle.step = "idle" /\ Idle.attempt = 0 /\ Idle.answer = "none" /\ Idle.acks = {}
      /\ Idle.cmd = [op |-> "none"] /\ CallFields(Idle)
  BY DEF Idle, CallFields, FieldNames
<1>3. UNCHANGED rows
  BY Zenon DEF Receive, MigrationAdmits, MigrationRollsBack, Crash
<1>4. Progress /\ LinkedInv'
  BY <1>1, <1>3, SameProgress, SameLinks
<1>5. ASSUME NEW c \in Calls, NEW cmd \in Commands, Receive(c, cmd)
      PROVE  AnswersInv'
  <2>1. PICK k : k = [Idle EXCEPT !.step = "received", !.cmd = cmd]
    OBVIOUS
  <2>2. call' = [call EXCEPT ![c] = k]
    BY ZenonT(30), <1>5, <2>1 DEF Receive
  <2>3. k.step = "received" /\ k.attempt = 0 /\ k.answer = "none" /\ k.acks = {}
    BY ZenonT(30), <1>2, <2>1 DEF CallFields, FieldNames
  <2>4. Honest(k)'
    BY <2>3 DEF Honest, Undecided, BatchHasSeen, BatchHasLost, InitializeHasSeen,
                AcksAreStored, AcceptedInPlace, CodesAreHonest
  <2>. QED
    BY ZenonT(30), <1>1, <1>3, <2>2, <2>3, <2>4, MovesOn
<1>6. CASE MigrationAdmits \/ MigrationRollsBack
  <2>1. call' = call
    BY <1>6 DEF MigrationAdmits, MigrationRollsBack
  <2>2. HonestCalls'
    BY <1>1, <1>4, <2>1, OthersStayHonest DEF HonestCalls
  <2>3. AcceptedOnce'
    BY <1>1, <2>1 DEF AcceptedOnce, Told
  <2>. QED
    BY <1>4, <2>2, <2>3 DEF AnswersInv
<1>7. CASE Crash
  <2>1. \A d \in Calls : call'[d] = IF call[d].step = "idle" THEN call[d] ELSE Idle
    BY <1>7 DEF Crash
  <2>2. ASSUME NEW d \in Calls PROVE Honest(call[d])'
    <3>1. CASE call[d].step = "idle"
      BY <1>1, <1>4, <2>1, <3>1, OthersStayHonest
    <3>2. CASE call[d].step # "idle"
      <4>1. PICK k : k = Idle
        OBVIOUS
      <4>2. Honest(k)'
        BY <1>2, <4>1 DEF Honest, Undecided, BatchHasSeen, BatchHasLost, InitializeHasSeen,
                    AcksAreStored, AcceptedInPlace, CodesAreHonest
      <4>. QED
        BY <2>1, <3>2, <4>1, <4>2, HonestNext
    <3>. QED
      BY <3>1, <3>2
  <2>3. \A d \in Calls : Told(d)' \subseteq Told(d)
    BY <1>2, <2>1 DEF Told
  <2>4. AcceptedOnce'
    BY <1>1, <2>3 DEF AcceptedOnce
  <2>. QED
    BY <1>4, <2>2, <2>4 DEF AnswersInv, HonestCalls
<1>. QED
  BY <1>5, <1>6, <1>7

\* A branch starts without answers.
LEMMA InitAnswers == Init => AnswersInv
<1>. SUFFICES ASSUME Init PROVE AnswersInv
  OBVIOUS
<1>1. /\ authority.state = "none" /\ events = {} /\ receipts = {} /\ outbox = {} /\ delivery = {}
      /\ call = [c \in Calls |-> Idle]
  BY DEF Init, InitWith
<1>2. /\ Idle.step = "idle" /\ Idle.attempt = 0 /\ Idle.answer = "none" /\ Idle.acks = {}
  BY DEF Idle
<1>3. Honest(Idle)
  BY <1>2 DEF Honest, Undecided, BatchHasSeen, BatchHasLost, InitializeHasSeen,
              AcksAreStored, AcceptedInPlace, CodesAreHonest
<1>4. HonestCalls /\ AcceptedOnce
  BY <1>1, <1>2, <1>3 DEF HonestCalls, AcceptedOnce, Told
<1>5. ReceiptsAreBacked /\ EventsFollow
  BY <1>1 DEF ReceiptsAreBacked, EventsFollow
<1> DEFINE Fresh ==
      /\ SnapshotsAreSound /\ Publications = {}
      /\ head.state = "absent" => head.version = NoVersion
      /\ head.state = "present" => head.version.seq >= head.version.snapshot - 1
      /\ head.state = "present" => head.origin = "fixture"
<1>6. Fresh
  <2>1. CASE EmptyBranch
    BY <2>1 DEF EmptyBranch, SnapshotsAreSound, Publications
  <2>2. ASSUME NEW g, NEW content, SeededBranch(g, content)
        PROVE  Fresh
    <3> DEFINE v == Version(0, -1, content)
               zero == [version |-> v, parent |-> -1, start |-> -1, ids |-> <<>>]
    <3>1. /\ head.state = "present" /\ head.origin = "fixture" /\ head.version = v
          /\ snapshots = {zero}
      BY <2>2 DEF SeededBranch
    <3>2. v.snapshot = 0 /\ v.seq = -1 /\ zero.version = v /\ zero.ids = <<>>
      BY DEF Version
    <3> HIDE DEF v, zero
    <3>. QED
      BY <3>1, <3>2 DEF SnapshotsAreSound, Publications
  <2>. QED
    BY <2>1, <2>2 DEF Init, InitWith
<1>7. AuthorityInv
  BY <1>1, <1>6 DEF AuthorityInv
<1>8. OutboxInv
  <2>1. IsFiniteSet({})
    BY FS_EmptySet
  <2>2. {s \in snapshots : s.version.snapshot > 0} = {}
    BY <1>6 DEF Publications
  <2>3. OutboxWitnessesEveryCommit
    BY ZenonT(60), <1>1, <2>2 DEF OutboxWitnessesEveryCommit
  <2>. QED
    BY <1>1, <1>6, <2>1, <2>3 DEF OutboxInv
<1>. QED
  BY <1>4, <1>5, <1>6, <1>7, <1>8 DEF AnswersInv, LinkedInv

\* Every step keeps the invariant of the answers.
LEMMA NextAnswers == IInv /\ AnswersInv /\ [Next]_vars => AnswersInv'
<1>. SUFFICES ASSUME IInv, AnswersInv, [Next]_vars PROVE AnswersInv'
  OBVIOUS
<1>1. CASE UNCHANGED vars
  <2>1. UNCHANGED rows /\ call' = call
    BY <1>1 DEF vars, rows
  <2>2. RowsInv /\ CallsInv /\ LinkedInv /\ HonestCalls /\ AcceptedOnce
    BY DEF IInv, AnswersInv
  <2>3. Progress /\ LinkedInv'
    BY <2>1, <2>2, SameProgress, SameLinks
  <2>4. HonestCalls'
    BY <2>1, <2>2, <2>3, OthersStayHonest DEF HonestCalls
  <2>5. AcceptedOnce'
    BY <2>1, <2>2 DEF AcceptedOnce, Told
  <2>. QED
    BY <2>3, <2>4, <2>5 DEF AnswersInv
<1>2. ASSUME NEW c \in Calls, Step(c) PROVE AnswersInv'
  BY <1>2, AppendAnswers, BatchCaptureAnswers, BatchCommitAnswers, ReserveAnswers,
     InitializeCaptureAnswers, InitializeCommitAnswers DEF Step
<1>. QED
  BY <1>1, <1>2, OtherAnswers DEF Next

\* The invariant of the answers holds in every state.
THEOREM AnswersInvariance == Spec => []AnswersInv
BY InitAnswers, NextAnswers, Invariance, PTL DEF Spec

\* Every transaction of append, appendBatch and initialize stores a whole
\* history together with its outbox rows, for any number of concurrent calls.
THEOREM WholePublications == Spec => []PublicationsAreWhole
<1>1. IInv /\ AnswersInv => PublicationsAreWhole
  BY DEF IInv, RowsInv, AnswersInv, LinkedInv, OutboxInv, PublicationsAreWhole
<1>. QED
  BY Invariance, AnswersInvariance, <1>1, PTL

\* No answer of the commit authority is ever false: acknowledgements are the
\* stored receipts, one call only is told that it was the one accepted, an
\* append lands on the version its client expected, no validator reports
\* state_corrupt, and a batch gives up only after as many new heads as it had
\* attempts.
THEOREM TrueAnswers == Spec => []AnswersAreTrue
<1>1. AnswersInv => AnswersAreTrue
  <2>1. SUFFICES ASSUME AnswersInv PROVE AnswersAreTrue
    OBVIOUS
  <2>2. \A c \in Calls : Honest(call[c])
    BY <2>1 DEF AnswersInv, HonestCalls
  <2>3. AnswersAreDurable
    <3>1. AcceptedOnce
      BY <2>1 DEF AnswersInv
    <3>2. ASSUME NEW c \in Calls, Told(c) # {}
          PROVE  /\ \A a \in Told(c) : a.receipt \in receipts
                 /\ {a.receipt.hash : a \in Told(c)} =
                      {call[c].cmd.events[i] : i \in DOMAIN call[c].cmd.events}
      <4>1. Told(c) = call[c].acks /\ call[c].cmd.op \in {"append", "batch"}
        BY <3>2 DEF Told
      <4>2. AcksAreStored(call[c])
        BY <2>2 DEF Honest
      <4>. QED
        BY ZenonT(30), <3>2, <4>1, <4>2 DEF AcksAreStored
    <3>. QED
      BY ZenonT(30), <3>1, <3>2 DEF AcceptedOnce, AnswersAreDurable
  <2>4. EventsLandWhereExpected
    BY <2>1, <2>2 DEF AnswersInv, LinkedInv, EventsFollow, Honest, AcceptedInPlace,
                      EventsLandWhereExpected
  <2>5. NeverCorrupt /\ GivesUpOnlyUnderContention
    BY <2>2 DEF Honest, CodesAreHonest, NeverCorrupt, GivesUpOnlyUnderContention
  <2>. QED
    BY <2>3, <2>4, <2>5 DEF AnswersAreTrue
<1>. QED
  BY AnswersInvariance, <1>1, PTL

-----------------------------------------------------------------------------
(***************************************************************************)
(* The log.                                                                *)
(***************************************************************************)
\* A step of one call leaves the records of the others alone.
LEMMA StepMovesOne ==
  ASSUME CallsInv, NEW c \in Calls, Step(c)
  PROVE  \A d \in Calls : d # c => call'[d] = call[d]
<1>1. DOMAIN call = Calls
  BY DEF CallsInv, CallShape
<1>2. ASSUME NEW code, NEW acks, Answer(c, code, acks)
      PROVE  \A d \in Calls : d # c => call'[d] = call[d]
  BY <1>1, <1>2 DEF Answer
<1>3. CASE \E code, acks : Answer(c, code, acks)
  BY <1>2, <1>3
<1>4. CASE ~ \E code, acks : Answer(c, code, acks)
  <2>1. CASE AppendCapture(c)
    BY <1>1, <1>4, <2>1 DEF AppendCapture, AppendRefused, Fail
  <2>2. CASE BatchCapture(c)
    BY <1>1, <1>4, <2>2 DEF BatchCapture, Fail
  <2>3. CASE BatchCommit(c)
    BY <1>1, <1>4, <2>3 DEF BatchCommit, BatchRetries, BatchPublishes, Fail
  <2>4. CASE InitializeCapture(c)
    BY <1>1, <1>4, <2>4 DEF InitializeCapture, Fail
  <2>5. CASE AppendCommit(c) \/ Reserve(c) \/ InitializeCommit(c)
    BY <1>4, <2>5 DEF AppendCommit, AppendRefused, AppendPublishes, Reserve, InitializeCommit, Fail
  <2>. QED
    BY <2>1, <2>2, <2>3, <2>4, <2>5 DEF Step
<1>. QED
  BY <1>3, <1>4

\* The answer that a call is given.
LEMMA AnswerGiven ==
  ASSUME CallsInv, NEW c \in Calls, NEW code, NEW acks, Answer(c, code, acks)
  PROVE  call'[c].answer = code
<1>1. PICK k : k = [call[c] EXCEPT !.step = "idle", !.seen = NoVersion, !.known = {},
                                   !.answer = code, !.acks = acks]
  OBVIOUS
<1>2. call' = [call EXCEPT ![c] = k] /\ CallFields(call[c]) /\ DOMAIN call = Calls
  BY ZenonT(30), <1>1 DEF Answer, CallsInv, CallShape
<1>3. k.answer = code
  BY ZenonT(30), <1>1, <1>2 DEF CallFields, FieldNames
<1>. QED
  BY <1>2, <1>3

Unstored(c) ==
  \E i \in DOMAIN call[c].cmd.events : \A r \in receipts : r.hash # call[c].cmd.events[i]

\* An append is refused for its predecessor only when its event is not stored.
LEMMA AppendMismatch ==
  ASSUME IInv, AnswersInv, NEW c \in Calls, AppendCapture(c) \/ AppendCommit(c),
         call'[c].answer = "diff_predecessor_mismatch"
  PROVE  Unstored(c)
<1> DEFINE cmd == call[c].cmd
<1>1. /\ RowsInv /\ CallsInv /\ LinkedInv /\ Honest(call[c]) /\ CallFields(call[c]) /\ CallInv(call[c])
      /\ call[c].step # "idle" /\ cmd.op = "append"
  BY DEF IInv, AnswersInv, HonestCalls, CallsInv, CallShape, AppendCapture, AppendCommit
<1>2. cmd \in Commands
  BY <1>1 DEF CallInv
<1>3. CASE AppendRefused(c)
  <2>1. AppendCheck(cmd) = "diff_predecessor_mismatch"
    BY ZenonT(60), <1>1, <1>3, AnswerGiven DEF AppendRefused
  <2>2. HeadCheck(cmd.generation) # "diff_predecessor_mismatch"
    BY DEF HeadCheck
  <2>3. ReceiptOf(cmd.events[1].id) = {}
    BY <2>1, <2>2 DEF AppendCheck
  <2>4. \A r \in receipts : r.hash # cmd.events[1]
    BY <1>1, <2>3 DEF LinkedInv, ReceiptsAreBacked, ReceiptOf
  <2>5. cmd.events \in Seq(Range(cmd.events)) /\ Len(cmd.events) = 1
    BY <1>1, <1>2, CommitConstants DEF CommandShape
  <2>6. 1 \in DOMAIN cmd.events
    BY <2>5, SeqIsFunction
  <2>. QED
    BY <2>4, <2>6 DEF Unstored
<1>4. CASE ~AppendRefused(c)
  <2>1. call[c].answer = "none"
    BY <1>1 DEF Honest, Undecided
  <2>2. CASE Fail(c, "diff_sequence_exhausted") \/ Fail(c, "state_unavailable")
    BY <1>1, <2>2, AnswerGiven DEF Fail
  <2>3. CASE AppendPublishes(c) /\ ~Fail(c, "state_unavailable")
    BY <1>1, <2>3, AnswerGiven DEF AppendPublishes
  <2>4. CASE call' = [call EXCEPT ![c] = [call[c] EXCEPT !.step = "prepared", !.seen = head.version]]
    <3>1. PICK k : k = [call[c] EXCEPT !.step = "prepared", !.seen = head.version]
      OBVIOUS
    <3>2. call'[c] = k
      BY ZenonT(30), <1>1, <2>4, <3>1 DEF CallsInv, CallShape
    <3>3. k.answer = call[c].answer
      BY ZenonT(30), <1>1, <3>1 DEF CallFields, FieldNames
    <3>. QED
      BY <2>1, <3>2, <3>3
  <2>. QED
    BY <1>4, <2>2, <2>3, <2>4 DEF AppendCapture, AppendCommit
<1>. QED
  BY <1>3, <1>4

\* A batch is refused for its predecessor only when one of its events is not
\* stored.
LEMMA BatchMismatch ==
  ASSUME IInv, AnswersInv, NEW c \in Calls, BatchCapture(c),
         call'[c].answer = "diff_predecessor_mismatch"
  PROVE  Unstored(c)
<1> DEFINE cmd == call[c].cmd
           es == cmd.events
           known == KnownReceipts(cmd)
           new == Accepted(es, known)
           first == BatchCheck(cmd)
           second == PrepareBatchCheck(es, known, head.version)
           since == IF call[c].attempt = 0 THEN head.version.snapshot ELSE call[c].since
<1>1. /\ RowsInv /\ CallsInv /\ LinkedInv /\ Honest(call[c]) /\ CallFields(call[c]) /\ CallInv(call[c])
      /\ call[c].step = "received" /\ cmd.op = "batch"
  BY DEF IInv, AnswersInv, HonestCalls, CallsInv, CallShape, BatchCapture
<1>2. cmd \in Commands
  BY <1>1 DEF CallInv
<1>3. first # "diff_predecessor_mismatch"
  BY ZenonT(60) DEF BatchCheck, HeadCheck
<1>4. first = "ok" /\ second = "diff_predecessor_mismatch"
  <2>1. CASE first # "ok"
    <3>1. Answer(c, first, {})
      BY <2>1 DEF BatchCapture, Fail
    <3>2. call'[c].answer = first
      BY <1>1, <3>1, AnswerGiven
    <3>. QED
      BY <1>3, <3>2
  <2>2. CASE first = "ok" /\ second # "ok"
    <3>1. Answer(c, second, {})
      BY <2>2 DEF BatchCapture, Fail
    <3>2. call'[c].answer = second
      BY <1>1, <3>1, AnswerGiven
    <3>. QED
      BY <2>2, <3>2
  <2>3. CASE first = "ok" /\ second = "ok"
    <3>1. PICK k : k = [call[c] EXCEPT !.step = "prepared", !.seen = head.version, !.known = known,
                                       !.since = since]
      OBVIOUS
    <3>2. call' = [call EXCEPT ![c] = k]
      BY <2>3, <3>1 DEF BatchCapture
    <3>3. call'[c] = k /\ call[c].answer = "none"
      BY <1>1, <3>2 DEF CallsInv, CallShape, Honest, Undecided
    <3> HIDE DEF known, since
    <3>4. k.answer = call[c].answer
      BY ZenonT(30), <1>1, <3>1 DEF CallFields, FieldNames
    <3>. QED
      BY <3>3, <3>4
  <2>. QED
    BY <2>1, <2>2, <2>3
<1>5. /\ \A i, j \in DOMAIN es : es[i].id = es[j].id => es[i] = es[j]
      /\ \E i \in DOMAIN new : new[i].follows \notin {Undefined, head.version.seq + i - 1}
  BY ZenonT(60), <1>4 DEF PrepareBatchCheck
<1>6. \A i \in DOMAIN es : ~Reuses(es[i])
  BY ZenonT(60), <1>4 DEF BatchCheck, HeadCheck
<1>7. /\ \A r \in known : \E i \in DOMAIN es : r \in ReceiptOf(es[i].id)
      /\ \A i \in DOMAIN es : ReceiptOf(es[i].id) \subseteq known
  BY DEF KnownReceipts
<1>8. es \in Seq(Range(es))
  BY <1>1, <1>2, EventsAreSeq
<1>9. /\ \A k \in DOMAIN new : \E i \in DOMAIN es : new[k] = es[i]
      /\ \A k \in DOMAIN new : \A r \in receipts : r.id # new[k].id
  <2> HIDE DEF es, known
  <2>. QED
    BY <1>5, <1>6, <1>7, <1>8, BatchHashes
<1> HIDE DEF new, known
<1>10. PICK k \in DOMAIN new : TRUE
  BY <1>5
<1>11. PICK i \in DOMAIN es : new[k] = es[i]
  BY <1>9, <1>10
<1>12. \A r \in receipts : r.hash # es[i]
  BY <1>1, <1>9, <1>10, <1>11 DEF LinkedInv, ReceiptsAreBacked
<1>. QED
  BY <1>12 DEF Unstored

\* The other steps of a call never answer with that code.
LEMMA OtherMismatch ==
  ASSUME IInv, AnswersInv, NEW c \in Calls,
         BatchCommit(c) \/ Reserve(c) \/ InitializeCapture(c) \/ InitializeCommit(c)
  PROVE  call'[c].answer # "diff_predecessor_mismatch"
<1> DEFINE cmd == call[c].cmd
<1>1. /\ CallsInv /\ Honest(call[c]) /\ CallFields(call[c]) /\ call[c].step # "idle"
      /\ DOMAIN call = Calls /\ call[c].answer = "none"
  BY DEF IInv, AnswersInv, HonestCalls, CallsInv, CallShape, Honest, Undecided,
         BatchCommit, Reserve, InitializeCapture, InitializeCommit
<1>2. \A g : HeadCheck(g) # "diff_predecessor_mismatch"
  BY DEF HeadCheck
<1>3. ASSUME NEW code, NEW acks, code # "diff_predecessor_mismatch", Answer(c, code, acks)
      PROVE  call'[c].answer # "diff_predecessor_mismatch"
  BY <1>1, <1>3, AnswerGiven
<1>4. CASE Reserve(c)
  <2>1. ReserveCheck(cmd) # "diff_predecessor_mismatch"
    BY <1>2 DEF ReserveCheck
  <2>2. \E acks : Answer(c, ReserveCheck(cmd), acks)
    BY <1>4 DEF Reserve, Fail
  <2>. QED
    BY <1>3, <2>1, <2>2
<1>5. CASE InitializeCommit(c)
  <2>1. /\ InitializeReplay(cmd) # "diff_predecessor_mismatch"
        /\ FencedAuthority(cmd) # "diff_predecessor_mismatch"
    BY <1>2 DEF InitializeReplay, FencedAuthority
  <2>2. \E acks : \/ Answer(c, InitializeReplay(cmd), acks) \/ Answer(c, FencedAuthority(cmd), acks)
                  \/ Answer(c, "state_corrupt", acks) \/ Answer(c, "created", acks)
    BY Zenon, <1>5 DEF InitializeCommit, Fail
  <2>. QED
    BY <1>3, <2>1, <2>2
<1>6. CASE InitializeCapture(c)
  <2>1. FencedAuthority(cmd) # "diff_predecessor_mismatch"
    BY DEF FencedAuthority
  <2>2. CASE \/ Answer(c, "branch_initialization_pending", {}) \/ Answer(c, FencedAuthority(cmd), {})
             \/ Answer(c, "branch_initialization_conflict", {})
    BY <1>3, <2>1, <2>2
  <2>3. CASE call' = [call EXCEPT ![c] = [call[c] EXCEPT !.step = "prepared",
                                                         !.known = {authority.reservation}]]
    <3>1. PICK k : k = [call[c] EXCEPT !.step = "prepared", !.known = {authority.reservation}]
      OBVIOUS
    <3>2. call'[c] = k
      BY ZenonT(30), <1>1, <2>3, <3>1
    <3>3. k.answer = call[c].answer
      BY ZenonT(30), <1>1, <3>1 DEF CallFields, FieldNames
    <3>. QED
      BY <1>1, <3>2, <3>3
  <2>. QED
    BY <1>6, <2>2, <2>3 DEF InitializeCapture, Fail
<1>7. CASE BatchCommit(c)
  <2>1. BatchCheck(cmd) # "diff_predecessor_mismatch"
    BY ZenonT(60), <1>2 DEF BatchCheck
  <2>2. CASE \E acks : \/ Answer(c, HeadCheck(cmd.generation), acks) \/ Answer(c, BatchCheck(cmd), acks)
                       \/ Answer(c, "state_corrupt", acks) \/ Answer(c, "state_unavailable", acks)
                       \/ Answer(c, "batch", acks)
    BY <1>2, <1>3, <2>1, <2>2
  <2>3. CASE BatchRetries(c)
    <3>1. PICK k : /\ call' = [call EXCEPT ![c] = k]
                   /\ \/ k = [call[c] EXCEPT !.step = "received", !.attempt = call[c].attempt + 1]
                      \/ k = [call[c] EXCEPT !.step = "idle", !.attempt = call[c].attempt + 1,
                                             !.seen = NoVersion, !.known = {},
                                             !.answer = "state_unavailable"]
      BY <2>3 DEF BatchRetries
    <3>2. k.answer = call[c].answer \/ k.answer = "state_unavailable"
      BY ZenonT(30), <1>1, <3>1 DEF CallFields, FieldNames
    <3>3. call'[c] = k
      BY <1>1, <3>1
    <3>. QED
      BY <1>1, <3>2, <3>3
  <2>. QED
    BY ZenonT(60), <1>7, <2>2, <2>3 DEF BatchCommit, BatchPublishes, Fail
<1>. QED
  BY <1>4, <1>5, <1>6, <1>7

\* Identity precedes the predecessor checks of append and appendBatch: a
\* command whose events are all stored is never refused for its predecessor.
THEOREM IdentityFirst == Spec => ReplayPrecedesPredecessor
<1>1. ASSUME IInv, AnswersInv, [Next]_vars, NEW c \in Calls,
             call[c].step # "idle", call'[c].answer = "diff_predecessor_mismatch"
      PROVE  Unstored(c)
  <2>1. call[c].answer = "none" /\ CallsInv /\ DOMAIN call = Calls
    BY <1>1 DEF IInv, CallsInv, CallShape, AnswersInv, HonestCalls, Honest, Undecided
  <2>2. call'[c] # call[c]
    BY <1>1, <2>1
  <2>3. CASE Step(c)
    BY <1>1, <2>3, AppendMismatch, BatchMismatch, OtherMismatch DEF Step
  <2>4. ASSUME NEW d \in Calls, d # c, Step(d) PROVE FALSE
    BY <2>1, <2>2, <2>4, StepMovesOne
  <2>5. ASSUME NEW d \in Calls, NEW cmd \in Commands, Receive(d, cmd) PROVE FALSE
    <3>1. d # c
      BY <1>1, <2>5 DEF Receive
    <3>. QED
      BY ZenonT(30), <2>1, <2>2, <2>5, <3>1 DEF Receive
  <2>6. CASE MigrationAdmits \/ MigrationRollsBack \/ UNCHANGED vars
    BY <2>2, <2>6 DEF MigrationAdmits, MigrationRollsBack, vars
  <2>7. CASE Crash
    BY <1>1, <2>7 DEF Crash, Idle
  <2>. QED
    BY <1>1, <2>3, <2>4, <2>5, <2>6, <2>7 DEF Next
<1>2. IInv /\ AnswersInv /\ [Next]_vars =>
        [\A c \in Calls :
           call[c].step # "idle" /\ call'[c].answer = "diff_predecessor_mismatch" =>
             \E i \in DOMAIN call[c].cmd.events :
               \A r \in receipts : r.hash # call[c].cmd.events[i]]_vars
  BY <1>1 DEF Unstored
<1>. QED
  BY Invariance, AnswersInvariance, <1>2, PTL DEF Spec, ReplayPrecedesPredecessor

-----------------------------------------------------------------------------
(***************************************************************************)
(* The rows implement the log.                                             *)
(***************************************************************************)
\* The log is as long as the head says and holds the events by sequence.
LEMMA LogShape ==
  ASSUME RowsInv
  PROVE  /\ head.version.seq + 1 \in Nat
         /\ DOMAIN LogOfRows = 1..(head.version.seq + 1)
         /\ Len(LogOfRows) = head.version.seq + 1
         /\ \A i \in 1..(head.version.seq + 1) :
              LogOfRows[i] = [id |-> EventAt(i - 1).event.id, snapshot |-> EventAt(i - 1).snapshot]
<1> DEFINE n == head.version.seq + 1
<1>1. n \in Nat
  BY CommitConstants DEF RowsInv, RowShape
<1>2. LogOfRows = [i \in 1..n |-> [id |-> EventAt(i - 1).event.id, snapshot |-> EventAt(i - 1).snapshot]]
  BY DEF LogOfRows
<1>3. DOMAIN LogOfRows = 1..n
  BY <1>2
<1>4. LogOfRows \in [1..n -> {LogOfRows[i] : i \in 1..n}]
  BY ZenonT(30), <1>2, <1>3
<1>5. LogOfRows \in Seq({LogOfRows[i] : i \in 1..n})
  <2> HIDE DEF n
  <2>. QED
    BY <1>1, <1>4, FunctionIsSeq
<1>6. Len(LogOfRows) \in Nat /\ DOMAIN LogOfRows = 1..Len(LogOfRows)
  BY <1>5, SeqIsFunction
<1>7. Len(LogOfRows) = n
  BY <1>1, <1>3, <1>6
<1>. QED
  BY <1>1, <1>2, <1>3, <1>7

\* The log is a function of the events and of the head.
LEMMA SameLog ==
  ASSUME events' = events, head'.version.seq = head.version.seq
  PROVE  LogOfRows' = LogOfRows
BY DEF LogOfRows, EventAt

\* What calls have been told is in the log.
LEMMA ToldIsLogged ==
  ASSUME RowsInv, LinkedInv, HonestCalls, NEW c \in Calls, NEW a \in AnswersOfCalls[c]
  PROVE  Log!Truthful(a, LogOfRows)
<1>1. PICK t \in Told(c) : a = [id |-> t.receipt.id, seq |-> t.receipt.seq,
                                snapshot |-> t.receipt.version.snapshot]
  BY DEF AnswersOfCalls
<1>2. t.receipt \in receipts
  BY DEF HonestCalls, Honest, AcksAreStored, Told
<1>3. PICK r : r = t.receipt
  OBVIOUS
<1>4. PICK e \in events : e.seq = r.seq /\ e.event = r.hash /\ e.snapshot = r.version.snapshot
  BY <1>2, <1>3 DEF LinkedInv, ReceiptsAreBacked
<1>5. r.hash.id = r.id
  BY <1>2, <1>3 DEF LinkedInv, ReceiptsAreBacked
<1>6. head.state = "present"
  BY <1>4 DEF RowsInv, HistoryIsWhole, RowShape
<1>7. Whole
  BY <1>6 DEF RowsInv, HistoryIsWhole, Whole
<1>8. EventAt(r.seq) = e
  BY <1>4, <1>7, EventAtIs
<1>9. r.seq \in 0..head.version.seq /\ head.version.seq \in Int
  BY <1>4, <1>7, CommitConstants DEF Whole, RowsInv, RowShape
<1>10. r.seq + 1 \in 1..(head.version.seq + 1) /\ (r.seq + 1) - 1 = r.seq
  BY <1>9
<1>11. LogOfRows[r.seq + 1] = [id |-> e.event.id, snapshot |-> e.snapshot]
  BY <1>8, <1>10, LogShape
<1>12. a.seq = r.seq /\ a.id = r.id /\ a.snapshot = r.version.snapshot
  BY <1>1, <1>3
<1>13. a.seq + 1 \in DOMAIN LogOfRows
  BY <1>10, <1>12, LogShape
<1>. QED
  BY <1>4, <1>5, <1>11, <1>12, <1>13 DEF Log!Truthful

\* The last event of the log belongs to the head.
LEMMA LastEvent ==
  ASSUME RowsInv, LinkedInv, head.state = "present", head.version.seq # -1
  PROVE  EventAt(head.version.seq).snapshot = head.version.snapshot
<1>1. Whole /\ Bounded
  BY DEF RowsInv, HistoryIsWhole, Whole
<1>2. PICK h \in snapshots : h.version = head.version
  BY <1>1 DEF Whole
<1>3. h.version.snapshot \in Nat /\ head.version.seq \in Int
  BY <1>1, <1>2, CommitConstants DEF Bounded, RowsInv, RowShape
<1>4. h.version.snapshot # 0
  BY <1>2 DEF LinkedInv, SnapshotsAreSound
<1>5. Len(h.ids) = h.version.seq - h.start + 1 /\ Len(h.ids) >= 1
  BY <1>4 DEF LinkedInv, SnapshotsAreSound
<1>6. h.start \in Int /\ h.version.seq \in Int
  BY <1>2, <1>3, <1>4 DEF LinkedInv, SnapshotsAreSound
<1>7. h.version.seq \in h.start..h.version.seq
  BY <1>5, <1>6
<1>8. PICK e \in events : e.seq = h.version.seq /\ e.snapshot = h.version.snapshot
  BY <1>1, <1>3, <1>4, <1>7 DEF Whole
<1>9. EventAt(e.seq) = e
  BY <1>1, EventAtIs
<1>. QED
  BY <1>2, <1>8, <1>9

\* A publication extends the log.
LEMMA PublicationExtends ==
  ASSUME RowsInv, LinkedInv, OneOwner, NEW op, NEW S, NEW es \in Seq(S), Publication(op, es)
  PROVE  Log!Extends(LogOfRows, LogOfRows')
<1>0. PICK n, q, L, w : /\ n = head.version.snapshot /\ q = head.version.seq /\ L = Len(es)
                        /\ w = head'.version.seq
  BY ZenonT(30)
<1>1. /\ L \in Nat \ {0} /\ head.state = "present" /\ head'.state = "present"
      /\ events' = events \cup EventRows(es, head.version)
      /\ \A i \in 1..L : \E e \in EventRows(es, head.version) :
           e.seq = q + i /\ e.snapshot = n + 1
  BY <1>0, PublicationRows DEF Publication
<1>2. w = q + L
  BY <1>0, PublicationRows, NextVersionFields
<1>3. RowsInv' /\ Whole /\ Whole'
  BY ZenonT(60), <1>1, PublicationKeeps, PublicationKeepsWhole DEF RowsKept, RowsInv, HistoryIsWhole, Whole
<1>4. q + 1 \in Nat /\ q \in Int /\ n \in Int
  BY <1>0, CommitConstants DEF RowsInv, RowShape
<1>5. /\ Len(LogOfRows) = q + 1
      /\ \A i \in 1..(q + 1) :
           LogOfRows[i] = [id |-> EventAt(i - 1).event.id, snapshot |-> EventAt(i - 1).snapshot]
      /\ DOMAIN LogOfRows = 1..(q + 1)
  BY <1>0, LogShape
<1>6. /\ Len(LogOfRows)' = w + 1
      /\ \A i \in 1..(w + 1) :
           LogOfRows'[i] = [id |-> EventAt(i - 1)'.event.id, snapshot |-> EventAt(i - 1)'.snapshot]
      /\ DOMAIN LogOfRows' = 1..(w + 1)
  <2>1. LogOfRows' = [i \in 1..(w + 1) |->
                        [id |-> EventAt(i - 1)'.event.id, snapshot |-> EventAt(i - 1)'.snapshot]]
    BY <1>0 DEF LogOfRows
  <2>2. Len(LogOfRows)' = w + 1
    <3>1. w + 1 \in Nat /\ DOMAIN LogOfRows' = 1..(w + 1)
      BY <1>1, <1>2, <1>4, <2>1
    <3>2. LogOfRows' \in [1..(w + 1) -> {LogOfRows'[i] : i \in 1..(w + 1)}]
      BY ZenonT(30), <2>1, <3>1
    <3>3. LogOfRows' \in Seq({LogOfRows'[i] : i \in 1..(w + 1)})
      BY <3>1, <3>2, FunctionIsSeq
    <3>4. DOMAIN LogOfRows' = 1..Len(LogOfRows') /\ Len(LogOfRows') \in Nat
      BY <3>3, SeqIsFunction
    <3>. QED
      BY <3>1, <3>4
  <2>. QED
    BY Zenon, <2>1, <2>2
<1>13. \A e, f \in events' : e.seq = f.seq \/ e.event.id = f.event.id => e = f
  BY <1>3 DEF Whole
<1>7. \A k \in 0..q : EventAt(k)' = EventAt(k)
  <2>1. SUFFICES ASSUME NEW k \in 0..q PROVE EventAt(k)' = EventAt(k)
    OBVIOUS
  <2>2. PICK e \in events : e.seq = k
    BY <1>0, <1>3 DEF Whole
  <2>3. EventAt(k) = e
    BY <1>3, <2>2, EventAtIs
  <2>4. e \in events'
    BY <1>1
  <2>5. EventAt(k)' \in events' /\ EventAt(k)'.seq = k
    BY <2>2, <2>4 DEF EventAt
  <2>. QED
    BY <1>13, <2>2, <2>3, <2>4, <2>5
<1>8. \A k \in 0..w : EventAt(k)' \in events' /\ EventAt(k)'.seq = k
  <2>1. SUFFICES ASSUME NEW k \in 0..w PROVE EventAt(k)' \in events' /\ EventAt(k)'.seq = k
    OBVIOUS
  <2>2. \E e \in events' : e.seq = k
    BY <1>0, <1>3 DEF Whole
  <2>. QED
    BY <2>2 DEF EventAt
<1>9. \A i \in 1..L : EventAt(q + i)'.snapshot = n + 1
  <2>1. SUFFICES ASSUME NEW i \in 1..L PROVE EventAt(q + i)'.snapshot = n + 1
    OBVIOUS
  <2>2. PICK e \in events' : e.seq = q + i /\ e.snapshot = n + 1
    BY <1>1
  <2>3. q + i \in 0..w
    BY <1>1, <1>2, <1>4
  <2>. QED
    BY <1>8, <1>13, <2>2, <2>3
<1>10. Len(LogOfRows') > Len(LogOfRows)
  BY <1>1, <1>2, <1>4, <1>5, <1>6
<1>11. SubSeq(LogOfRows', 1, Len(LogOfRows)) = LogOfRows
  <2>1. \A i \in 1..(q + 1) : LogOfRows'[i] = LogOfRows[i]
    <3>1. SUFFICES ASSUME NEW i \in 1..(q + 1) PROVE LogOfRows'[i] = LogOfRows[i]
      OBVIOUS
    <3>2. i \in 1..(w + 1) /\ i - 1 \in 0..q
      BY <1>1, <1>2, <1>4
    <3>. QED
      BY <1>5, <1>6, <1>7, <3>2
  <2>2. SubSeq(LogOfRows', 1, q + 1) = [i \in 1..(q + 1) |-> LogOfRows'[i]]
    BY <1>4, <1>6 
  <2>3. LogOfRows = [i \in 1..(q + 1) |-> LogOfRows[i]]
    BY <1>0 DEF LogOfRows
  <2>. QED
    BY <1>5, <2>1, <2>2, <2>3
<1>12. ASSUME NEW i \in (Len(LogOfRows) + 1)..Len(LogOfRows')
       PROVE  /\ LogOfRows'[i].snapshot =
                   IF LogOfRows = <<>> THEN 1 ELSE LogOfRows[Len(LogOfRows)].snapshot + 1
              /\ \A j \in 1..(i - 1) : LogOfRows'[j].id # LogOfRows'[i].id
  <2>1. i \in (q + 2)..(w + 1) /\ i \in 1..(w + 1) /\ i - 1 = q + (i - 1 - q) /\ i - 1 - q \in 1..L
    BY <1>1, <1>2, <1>4, <1>5, <1>6
  <2>2. LogOfRows'[i].snapshot = n + 1 /\ LogOfRows'[i].id = EventAt(i - 1)'.event.id
    BY <1>6, <1>9, <2>1
  <2>3. n + 1 = IF LogOfRows = <<>> THEN 1 ELSE LogOfRows[Len(LogOfRows)].snapshot + 1
    <3>1. CASE q = -1
      <4>1. LogOfRows = <<>>
        BY <1>0, <1>5, <3>1 DEF LogOfRows
      <4>2. n = 0
        <5>1. PICK h \in snapshots : h.version = head.version
          BY <1>3 DEF Whole
        <5>2. n \in Nat /\ q >= n - 1
          BY ZenonT(60), <1>0, <1>1, <5>1 DEF RowsInv, Bounded, LinkedInv, AuthorityInv
        <5>. QED
          BY <3>1, <5>2
      <4>. QED
        BY <4>1, <4>2
    <3>2. CASE q # -1
      <4>1. q + 1 \in 1..(q + 1) /\ (q + 1) - 1 = q
        BY <1>4, <3>2
      <4>2. LogOfRows[q + 1].snapshot = EventAt(q).snapshot
        BY <1>5, <4>1
      <4>3. EventAt(q).snapshot = n
        BY <1>0, <1>1, <3>2, LastEvent
      <4>4. LogOfRows # <<>>
        BY <1>5, <4>1
      <4>. QED
        BY <1>5, <4>2, <4>3, <4>4
    <3>. QED
      BY <3>1, <3>2
  <2>4. ASSUME NEW j \in 1..(i - 1) PROVE LogOfRows'[j].id # LogOfRows'[i].id
    <3>1. j \in 1..(w + 1) /\ j - 1 \in 0..w /\ i - 1 \in 0..w /\ j - 1 # i - 1
      BY <1>1, <1>2, <1>4, <2>1
    <3>2. LogOfRows'[j].id = EventAt(j - 1)'.event.id
      BY <1>6, <3>1
    <3>3. EventAt(j - 1)' # EventAt(i - 1)'
      BY <1>8, <3>1
    <3>. QED
      BY <1>8, <1>13, <2>2, <3>1, <3>2, <3>3
  <2>. QED
    BY <2>2, <2>3, <2>4
<1>. QED
  BY <1>10, <1>11, <1>12 DEF Log!Extends


\* A step of a call publishes, or leaves the log alone.
LEMMA StepRows ==
  ASSUME IInv, AnswersInv, NEW c \in Calls, Step(c)
  PROVE  \/ LogOfRows' = LogOfRows
         \/ \E op, S : \E es \in Seq(S) : Publication(op, es)
<1> DEFINE cmd == call[c].cmd
<1>1. RowsInv /\ RowShape /\ CallInv(call[c]) /\ AuthorityInv
  BY DEF IInv, RowsInv, CallsInv, AnswersInv, LinkedInv
<1>2. CASE UNCHANGED rows
  BY <1>2, SameLog DEF rows
<1>3. CASE Reserve(c) /\ ~UNCHANGED rows
  <2>1. head' = head /\ events' = events
    BY <1>3 DEF Reserve, Fail, rows
  <2>. QED
    BY <2>1, SameLog
<1>4. CASE InitializeCommit(c) /\ ~UNCHANGED rows
  <2>1. Activate(cmd) /\ head.state # "present"
    BY <1>4 DEF InitializeCommit, Fail
  <2>2. head.version = NoVersion
    BY <1>1, <2>1 DEF AuthorityInv, RowShape
  <2>3. head'.version = Version(0, -1, cmd.intent.content) /\ events' = events
    BY <2>1 DEF Activate
  <2>4. NoVersion.seq = -1 /\ Version(0, -1, cmd.intent.content).seq = -1
    BY DEF NoVersion, Version
  <2>. QED
    BY <2>2, <2>3, <2>4, SameLog
<1>5. CASE AppendCommit(c) /\ ~UNCHANGED rows
  <2>1. AppendCheck(cmd) = "ok" /\ AppendPublishes(c)
    BY ZenonT(60), <1>5 DEF AppendCommit, AppendRefused
  <2>2. /\ ~Conflicts("append", cmd.events, call[c].seen)
        /\ Publish("append", cmd.events, call[c].seen)
    BY <1>5, <2>1 DEF AppendPublishes, Fail
  <2>3. /\ call[c].seen = cmd.expected /\ ~Exhausted(cmd.events, call[c].seen) /\ cmd \in Commands
        /\ cmd.op = "append"
    BY ZenonT(60), <1>1, <1>5 DEF AppendCommit, CallInv
  <2>4. head.version = call[c].seen /\ head.state = "present"
    BY <1>1, <2>1, <2>3, HeadIsPresent DEF AppendCheck, RowShape
  <2>5. cmd.events \in Seq(Range(cmd.events)) /\ cmd.events # <<>>
    BY <2>3, EventsAreSeq
  <2>6. Publication("append", cmd.events)
    BY <2>2, <2>3, <2>4, <2>5 DEF Publication
  <2>. QED
    BY <2>5, <2>6
<1>6. CASE BatchCommit(c) /\ ~UNCHANGED rows
  <2> DEFINE new == Accepted(cmd.events, call[c].known)
  <2>1. HeadCheck(cmd.generation) = "ok" /\ head.version = call[c].seen /\ BatchPublishes(c)
    BY <1>6 DEF BatchCommit, BatchRetries, Fail
  <2>2. /\ new # <<>> /\ ~Conflicts("batch", new, call[c].seen)
        /\ Publish("batch", new, call[c].seen)
    BY ZenonT(60), <1>6, <2>1 DEF BatchPublishes, Fail
  <2>3. ~Exhausted(new, call[c].seen) /\ cmd \in Commands /\ cmd.op = "batch"
    BY ZenonT(60), <1>1, <1>6, <2>2 DEF BatchCommit, CallInv
  <2>4. head.state = "present"
    BY <1>1, <2>1, HeadIsPresent DEF RowShape
  <2>5. cmd.events \in Seq(Range(cmd.events))
    BY <2>3, EventsAreSeq
  <2>6. PICK T : new \in Seq(T)
    BY <2>5, AcceptedIsSeq
  <2> HIDE DEF new
  <2>7. Publication("batch", new)
    BY ZenonT(60), <2>1, <2>2, <2>3, <2>4 DEF Publication
  <2>. QED
    BY <2>6, <2>7
<1>7. CASE AppendCapture(c)
  BY <1>2, <1>7 DEF AppendCapture, AppendRefused, Fail
<1>8. CASE BatchCapture(c)
  BY <1>2, <1>8 DEF BatchCapture, Fail
<1>9. CASE InitializeCapture(c)
  BY <1>2, <1>9 DEF InitializeCapture, Fail
<1>. QED
  BY <1>2, <1>3, <1>4, <1>5, <1>6, <1>7, <1>8, <1>9 DEF Step

\* What the calls have been told is in the log.
LogIsTruth ==
  \A c \in Calls : \A a \in AnswersOfCalls[c] : Log!Truthful(a, LogOfRows)

\* Steps of the commit authority are steps of the log.
LEMMA LogStep ==
  ASSUME IInv, AnswersInv, LogIsTruth', [Next]_vars
  PROVE  [Log!Next]_(Log!logVars)
<1>1. RowsInv /\ CallsInv /\ OneOwner /\ LinkedInv /\ HonestCalls /\ DOMAIN call = Calls
  BY DEF IInv, AnswersInv, CallsInv, CallShape
<1>2. ASSUME NEW d \in Calls, Told(d)' = Told(d) PROVE AnswersOfCalls'[d] = AnswersOfCalls[d]
  BY <1>2 DEF AnswersOfCalls
<1>3. ASSUME \A d \in Calls : Told(d)' = Told(d), LogOfRows' = LogOfRows
      PROVE  UNCHANGED Log!logVars
  <2>1. AnswersOfCalls' = AnswersOfCalls
    BY <1>3 DEF AnswersOfCalls
  <2>. QED
    BY <1>3, <2>1 DEF Log!logVars
<1>4. ASSUME NEW c \in Calls, \A d \in Calls : d # c => call'[d] = call[d]
      PROVE  Log!Tells(c)
  <2>1. \A d \in Calls \ {c} : Told(d)' = Told(d)
    BY <1>4 DEF Told
  <2>2. \A d \in Calls \ {c} : AnswersOfCalls'[d] = AnswersOfCalls[d]
    BY <1>2, <2>1
  <2>3. \A a \in AnswersOfCalls'[c] : Log!Truthful(a, LogOfRows')
    BY ZenonT(60) DEF LogIsTruth, Log!Truthful
  <2>. QED
    BY <2>2, <2>3 DEF Log!Tells
<1>5. ASSUME NEW c \in Calls, Step(c) PROVE Log!Next
  <2>1. Log!Tells(c)
    BY <1>1, <1>4, <1>5, StepMovesOne
  <2>2. CASE LogOfRows' = LogOfRows
    BY <2>1, <2>2 DEF Log!Reply, Log!Next
  <2>3. CASE \E op, S : \E es \in Seq(S) : Publication(op, es)
    <3>1. Log!Extends(LogOfRows, LogOfRows')
      BY <1>1, <2>3, PublicationExtends
    <3>. QED
      BY <2>1, <3>1 DEF Log!Publish, Log!Next
  <2>. QED
    BY <1>5, <2>2, <2>3, StepRows
<1>6. ASSUME NEW c \in Calls, NEW cmd \in Commands, Receive(c, cmd) PROVE Log!Next
  <2>1. \A d \in Calls : d # c => call'[d] = call[d]
    BY ZenonT(30), <1>1, <1>6 DEF Receive
  <2>2. Log!Tells(c)
    BY <1>4, <2>1
  <2>3. LogOfRows' = LogOfRows
    BY <1>6, SameLog DEF Receive, rows
  <2>. QED
    BY <2>2, <2>3 DEF Log!Reply, Log!Next
<1>7. CASE MigrationAdmits \/ MigrationRollsBack \/ UNCHANGED vars
  <2>1. call' = call /\ head' = head /\ events' = events
    BY <1>7 DEF MigrationAdmits, MigrationRollsBack, vars, rows
  <2>2. \A d \in Calls : Told(d)' = Told(d)
    BY <2>1 DEF Told
  <2>3. LogOfRows' = LogOfRows
    BY <2>1, SameLog
  <2>. QED
    BY <1>3, <2>2, <2>3
<1>8. CASE Crash
  <2>1. /\ \A d \in Calls : call'[d] = IF call[d].step = "idle" THEN call[d] ELSE Idle
        /\ head' = head /\ events' = events
    BY <1>8 DEF Crash, rows
  <2>2. \A d \in Calls : call[d].step # "idle" => call[d].acks = {}
    BY <1>1 DEF HonestCalls, Honest, Undecided
  <2>3. Idle.acks = {}
    BY DEF Idle
  <2>4. \A d \in Calls : Told(d)' = Told(d)
    BY Zenon, <2>1, <2>2, <2>3 DEF Told
  <2>5. LogOfRows' = LogOfRows
    BY <2>1, SameLog
  <2>. QED
    BY <1>3, <2>4, <2>5
<1>. QED
  BY <1>5, <1>6, <1>7, <1>8 DEF Next

\* An empty branch is an empty log.
LEMMA LogInit == Init => Log!Init
<1>. SUFFICES ASSUME Init PROVE Log!Init
  OBVIOUS
<1>1. call = [c \in Calls |-> Idle] /\ Idle.acks = {}
  BY ZenonT(60) DEF Init, InitWith, Idle
<1>2. AnswersOfCalls = [c \in Calls |-> {}]
  BY <1>1 DEF AnswersOfCalls, Told
<1>3. head.version.seq = -1
  <2>1. NoVersion.seq = -1 /\ \A t : Version(0, -1, t).seq = -1
    BY DEF NoVersion, Version
  <2>2. CASE EmptyBranch
    <3>1. head.version = NoVersion
      BY <2>2 DEF EmptyBranch
    <3>. QED
      BY <2>1, <3>1
  <2>3. ASSUME NEW g, NEW t, SeededBranch(g, t) PROVE head.version.seq = -1
    <3>1. head.version = Version(0, -1, t)
      BY <2>3 DEF SeededBranch
    <3>. QED
      BY <2>1, <3>1
  <2>. QED
    BY <2>2, <2>3 DEF Init, InitWith
<1>4. LogOfRows = <<>>
  BY <1>3 DEF LogOfRows
<1>. QED
  BY <1>2, <1>4 DEF Log!Init

\* For any number of calls, commands and attempts, append and appendBatch
\* behave like atomic appends to one log of uniquely identified events, whose
\* answers say where in the log an event is.
THEOREM LogImplemented == Spec => ImplementsLog
<1>1. IInv /\ AnswersInv => LogIsTruth
  BY ToldIsLogged DEF IInv, AnswersInv, LogIsTruth
<1>2. IInv /\ AnswersInv /\ LogIsTruth' /\ [Next]_vars => [Log!Next]_(Log!logVars)
  BY LogStep
<1>. QED
  BY Invariance, AnswersInvariance, <1>1, <1>2, LogInit, PTL DEF Spec, ImplementsLog, Log!Spec

=============================================================================
