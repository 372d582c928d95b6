-------------------------- MODULE PromotionProofs ---------------------------
(***************************************************************************)
(* Proofs about the receipts and the drops of promotions.                  *)
(***************************************************************************)
EXTENDS BranchPromotion, TLAPS

\* Back ends, in the order in which they are tried.
USE SMTT(15), Zenon, Z3T(60)

-----------------------------------------------------------------------------
(***************************************************************************)
(* Promotions.                                                             *)
(*                                                                         *)
(* For any set of requests, keys, ids and snapshots, and any number of     *)
(* faults and frozen holders: one idempotency key makes one drop.          *)
(*                                                                         *)
(* PromotionInv follows the receipt of a key: it is created once and never *)
(* replaced by another (ReceiptsGrow), a request past the put of its       *)
(* receipt works on the stored one (JobOK), and a drop is filled only as   *)
(* the receipt of its key says (DropOK). The lease is not used: a request  *)
(* that lost it still finds the receipt.                                   *)
(***************************************************************************)

\* The locals of a request.
Jobs == [pc : Steps, snap : Nat, id : DropIds \cup {NoToken}, plan : SUBSET Receipts,
         failed : {"yes", "no"}]

PromotionTypes ==
  /\ tip \in Nat
  /\ receipts \in [Keys -> SUBSET Receipts]
  /\ drop \in [DropIds -> SUBSET Payloads]
  /\ inFlight \subseteq Receipts
  /\ promotion \in [Requests -> Jobs]
  /\ shown \in [Requests -> SUBSET Receipts]
  /\ DOMAIN answer = Requests

\* Two versions of one receipt: they differ at most in their status.
Agrees(c, d) == c.id = d.id /\ c.payload = d.payload

\* A receipt under key k was planned by a request with that key.
Own(c, k) == c.key = k /\ Key[c.payload.by] = k

\* A key has one receipt, of its own requests; so has a put on its way.
ReceiptsAreSingle ==
  \A k \in Keys : /\ \A c, d \in receipts[k] : c = d
                  /\ \A c \in receipts[k] : Own(c, k)

FlightsAreOwn == \A c \in inFlight : Own(c, c.key) /\ c.status = "pending"

\* Some version of the receipt c is stored.
Kept(k, c) == \E d \in receipts[k] : Agrees(c, d)

\* The request works on a receipt that is stored.
Bound(j) ==
  \/ j.pc \in {"resume", "alias", "put", "complete"}
  \/ j.pc = "finish" /\ j.failed = "no"

\* What a request has planned: at most one receipt, stored once the request
\* has passed the put; its drop, once it has passed that put.
JobOK(r, j) ==
  /\ \A c \in j.plan : Own(c, Key[r]) /\ c.id = j.id
  /\ \A c, d \in j.plan : c = d
  /\ j.pc = "receipt" \/ Bound(j) => j.plan # {}
  /\ j.pc = "receipt" => \A c \in j.plan : c.status = "pending"
  /\ Bound(j) => \A c \in j.plan : Kept(Key[r], c)
  /\ j.pc = "complete" => drop[j.id] = {c.payload : c \in j.plan}

\* A drop holds only what the receipt of its key says.
DropOK(i) ==
  \A p \in drop[i] : \E c \in receipts[Key[p.by]] : c.id = i /\ c.payload = p

\* What a client was told is stored.
ShownOK(r) == \A c \in shown[r] : Kept(Key[r], c)

\* The inductive invariant.
PromotionInv ==
  /\ PromotionTypes
  /\ ReceiptsAreSingle
  /\ FlightsAreOwn
  /\ \A r \in Requests : JobOK(r, promotion[r])
  /\ \A i \in DropIds : DropOK(i)
  /\ CompletedIsStored
  /\ \A r \in Requests : ShownOK(r)

-----------------------------------------------------------------------------
\* Keys.
LEMMA KeyOfRequest ==
  ASSUME NEW r \in Requests
  PROVE  Key[r] \in Keys
BY DEF Keys

LEMMA PayloadKey ==
  ASSUME NEW p \in Payloads
  PROVE  Key[p.by] \in Keys
BY KeyOfRequest DEF Payloads

\* No receipt is replaced by a different one.
ReceiptsGrow ==
  \A k \in Keys : \A c \in receipts[k] : \E d \in receipts'[k] : Agrees(c, d)

LEMMA KeptStays ==
  ASSUME ReceiptsGrow, NEW k \in Keys, NEW c, Kept(k, c)
  PROVE  Kept(k, c)'
BY DEF ReceiptsGrow, Kept, Agrees

\* A step that only adds receipts, fills drops as their receipts say and moves
\* one request to a state that is right keeps the invariant.
LEMMA Frame ==
  ASSUME PromotionInv, PromotionTypes', ReceiptsAreSingle', FlightsAreOwn', ReceiptsGrow,
         CompletedIsStored',
         \A i \in DropIds : drop'[i] = drop[i] \/ (drop[i] = {} /\ DropOK(i)'),
         \A q \in Requests : promotion'[q] = promotion[q] \/ JobOK(q, promotion[q])',
         \A q \in Requests : shown'[q] = shown[q] \/ ShownOK(q)'
  PROVE  PromotionInv'
<1>1. ASSUME NEW q \in Requests PROVE JobOK(q, promotion[q])'
  <2> SUFFICES ASSUME promotion'[q] = promotion[q] PROVE JobOK(q, promotion[q])'
    OBVIOUS
  <2>1. PICK j : j = promotion[q]
    OBVIOUS
  <2>2. JobOK(q, j) /\ j \in Jobs
    BY <2>1 DEF PromotionInv, PromotionTypes
  <2>3. Bound(j) => \A c \in j.plan : Kept(Key[q], c)'
    BY <2>2, KeyOfRequest, KeptStays DEF JobOK
  <2>4. j.pc = "complete" => drop'[j.id] = drop[j.id]
    <3> SUFFICES ASSUME j.pc = "complete" PROVE drop'[j.id] = drop[j.id]
      OBVIOUS
    <3>1. PICK c \in j.plan : c.id = j.id
      BY <2>2 DEF JobOK, Bound
    <3>2. c \in Receipts
      BY <2>2 DEF Jobs
    <3>3. j.id \in DropIds
      BY <3>1, <3>2 DEF Receipts
    <3>4. drop[j.id] # {}
      BY <2>2, <3>1 DEF JobOK
    <3> QED
      BY <3>3, <3>4
  <2> QED
    BY <2>1, <2>2, <2>3, <2>4 DEF JobOK
<1>2. ASSUME NEW i \in DropIds PROVE DropOK(i)'
  <2> SUFFICES ASSUME drop'[i] = drop[i] PROVE DropOK(i)'
    OBVIOUS
  <2>1. DropOK(i) /\ drop[i] \subseteq Payloads
    BY DEF PromotionInv, PromotionTypes
  <2> QED
    BY <2>1, PayloadKey DEF DropOK, ReceiptsGrow, Agrees
<1>3. ASSUME NEW q \in Requests PROVE ShownOK(q)'
  BY KeyOfRequest, KeptStays DEF PromotionInv, ShownOK
<1> QED
  BY <1>1, <1>2, <1>3 DEF PromotionInv

\* Steps that leave the stores alone.
LEMMA Local ==
  ASSUME PromotionInv, NEW r \in Requests, NEW j \in Jobs, JobOK(r, j),
         promotion' = [promotion EXCEPT ![r] = j],
         UNCHANGED <<tip, receipts, drop, inFlight, shown>>, DOMAIN answer' = Requests
  PROVE  PromotionInv'
<1>1. PromotionTypes'
  BY DEF PromotionInv, PromotionTypes
<1>2. \A q \in Requests : promotion'[q] = IF q = r THEN j ELSE promotion[q]
  BY DEF PromotionInv, PromotionTypes
<1>3. JobOK(r, promotion[r])'
  BY <1>2 DEF JobOK, Kept
<1>4. ReceiptsGrow /\ ReceiptsAreSingle' /\ FlightsAreOwn' /\ CompletedIsStored'
  BY DEF PromotionInv, ReceiptsGrow, Agrees, ReceiptsAreSingle, FlightsAreOwn,
     CompletedIsStored
<1> QED
  BY <1>1, <1>2, <1>3, <1>4, Frame

\* Where a request goes: it gives up, goes on, or follows a stored receipt.
LEMMA Aborted ==
  ASSUME PromotionInv, NEW r \in Requests, Aborts(r)
  PROVE  \E j \in Jobs : JobOK(r, j) /\ promotion' = [promotion EXCEPT ![r] = j]
                         /\ j.pc = "finish" /\ j.failed = "yes" /\ j.plan = promotion[r].plan
                         /\ j.id = promotion[r].id
<1> DEFINE j == [promotion[r] EXCEPT !.pc = "finish", !.failed = "yes"]
<1>1. promotion[r] \in Jobs /\ JobOK(r, promotion[r])
  BY DEF PromotionInv, PromotionTypes
<1>2. j \in Jobs /\ j.pc = "finish" /\ j.failed = "yes" /\ j.plan = promotion[r].plan
      /\ j.id = promotion[r].id
  BY Zenon, <1>1 DEF Jobs, Steps
<1>3. promotion' = [promotion EXCEPT ![r] = j]
  BY Zenon DEF Aborts, PromotionInv, PromotionTypes
<1> HIDE DEF j
<1>4. JobOK(r, j)
  BY <1>1, <1>2 DEF JobOK, Bound
<1> QED
  BY Zenon, <1>2, <1>3, <1>4

LEMMA Proceeded ==
  ASSUME PromotionInv, NEW r \in Requests, NEW pc \in Steps, Proceeds(r, pc)
  PROVE  \E j \in Jobs : /\ promotion' = [promotion EXCEPT ![r] = j]
                         /\ j.pc = pc /\ j.failed = promotion[r].failed
                         /\ j.plan = promotion[r].plan /\ j.id = promotion[r].id
<1> DEFINE j == [promotion[r] EXCEPT !.pc = pc]
<1>1. promotion[r] \in Jobs
  BY DEF PromotionInv, PromotionTypes
<1>2. j \in Jobs /\ j.pc = pc /\ j.failed = promotion[r].failed /\ j.plan = promotion[r].plan
      /\ j.id = promotion[r].id
  BY <1>1 DEF Jobs
<1>3. promotion' = [promotion EXCEPT ![r] = j]
  BY DEF Proceeds, PromotionInv, PromotionTypes
<1> HIDE DEF j
<1> QED
  BY Zenon, <1>2, <1>3

LEMMA Followed ==
  ASSUME PromotionInv, NEW r \in Requests, NEW c \in receipts[Key[r]], Follow(r, c)
  PROVE  \E j \in Jobs : JobOK(r, j) /\ promotion' = [promotion EXCEPT ![r] = j]
<1>1. CASE c.snap # promotion[r].snap
  BY <1>1, Aborted DEF Follow
<1>2. CASE c.snap = promotion[r].snap
  <2> DEFINE pc == IF c.status = "completed" THEN "finish" ELSE "resume"
             j == [promotion[r] EXCEPT !.plan = {c}, !.id = c.id, !.pc = pc]
  <2>1. promotion[r] \in Jobs /\ c \in Receipts /\ Own(c, Key[r])
    BY KeyOfRequest DEF PromotionInv, PromotionTypes, ReceiptsAreSingle
  <2>2. c.id \in DropIds /\ pc \in Steps /\ pc # "complete" /\ pc # "receipt"
    BY <2>1 DEF Receipts, Steps
  <2>3. promotion' = [promotion EXCEPT ![r] = j]
    BY Zenon, <1>2 DEF Follow, PromotionInv, PromotionTypes
  <2> HIDE DEF pc
  <2>4. j \in Jobs /\ j.plan = {c} /\ j.id = c.id /\ j.pc = pc
    BY Zenon, <2>1, <2>2 DEF Jobs
  <2> HIDE DEF j
  <2>5. Kept(Key[r], c)
    BY DEF Kept, Agrees
  <2>6. JobOK(r, j)
    BY <2>1, <2>2, <2>4, <2>5 DEF JobOK
  <2> QED
    BY Zenon, <2>3, <2>4, <2>6
<1> QED
  BY <1>1, <1>2

\* The receipt of a key is stored: the first one, or a version of it.
LEMMA StoresReceipt ==
  ASSUME PromotionInv, NEW k \in Keys, NEW c \in Receipts, Own(c, k),
         receipts' = [receipts EXCEPT ![k] = {c}],
         \A d \in receipts[k] : Agrees(d, c),
         c.status = "completed" => drop[c.id] = {c.payload},
         UNCHANGED drop
  PROVE  /\ receipts' \in [Keys -> SUBSET Receipts]
         /\ ReceiptsAreSingle' /\ ReceiptsGrow /\ CompletedIsStored'
         /\ receipts'[k] = {c}
<1>1. receipts' \in [Keys -> SUBSET Receipts] /\ receipts'[k] = {c}
      /\ \A l \in Keys : receipts'[l] = IF l = k THEN {c} ELSE receipts[l]
  BY DEF PromotionInv, PromotionTypes
<1>2. ReceiptsAreSingle'
  BY <1>1 DEF PromotionInv, ReceiptsAreSingle
<1>3. ReceiptsGrow
  BY <1>1 DEF ReceiptsGrow, Agrees
<1>4. CompletedIsStored'
  BY <1>1 DEF PromotionInv, CompletedIsStored
<1> QED
  BY <1>1, <1>2, <1>3, <1>4

LEMMA Singleton ==
  ASSUME NEW S, \A c, d \in S : c = d, NEW c \in S
  PROVE  S = {c}
OBVIOUS

-----------------------------------------------------------------------------
\* What stays when only the leases and the locals of one request move.
LEMMA StoresStay ==
  ASSUME PromotionInv, UNCHANGED <<receipts, drop, inFlight>>
  PROVE  ReceiptsGrow /\ ReceiptsAreSingle' /\ FlightsAreOwn' /\ CompletedIsStored'
BY DEF PromotionInv, ReceiptsGrow, Agrees, ReceiptsAreSingle, FlightsAreOwn, CompletedIsStored

\* The lease does not touch the promotion.
LEMMA LeaseKeepsRequests ==
  ASSUME NEW r \in Requests, DOMAIN answer = Requests,
         Acquire(r) \/ AcquireTimesOut(r) \/ BeginCommit(r) \/ BeginCommitRefused(r)
         \/ FinishWork(r, promotion[r].failed = "yes") \/ WorkThrows(r) \/ Crash(r)
         \/ Renew(r) \/ Expire
  PROVE  DOMAIN answer' = Requests
BY ZenonT(60) DEF Acquire, AcquireTimesOut, BeginCommit, BeginCommitRefused, FinishWork, WorkThrows, Crash,
   Renew, Expire, Ends

\* A step that changes no local, and of the rest only the head and the leases.
LEMMA Elsewhere ==
  ASSUME PromotionInv, DOMAIN answer' = Requests, tip' \in Nat,
         UNCHANGED <<receipts, drop, inFlight, promotion, shown>>
  PROVE  PromotionInv'
<1>1. PromotionTypes'
  BY DEF PromotionInv, PromotionTypes
<1> QED
  BY <1>1, StoresStay, Frame

\* One lemma per action.
LEMMA StartSteps ==
  ASSUME PromotionInv, NEW r \in Requests, StartPromotion(r)
  PROVE  PromotionInv'
<1>1. DOMAIN answer' = Requests /\ UNCHANGED <<tip, receipts, drop, inFlight, shown>>
  BY LeaseKeepsRequests DEF StartPromotion, promotionStore, PromotionInv, PromotionTypes
<1>2. CASE UNCHANGED promotion
  BY <1>1, <1>2, Elsewhere DEF PromotionInv, PromotionTypes
<1>3. CASE \E s \in {tip} \cup {c.snap : c \in receipts[Key[r]]} :
             promotion' = [promotion EXCEPT ![r].pc = "read", ![r].snap = s]
  <2>1. PICK s \in {tip} \cup {c.snap : c \in receipts[Key[r]]} :
             promotion' = [promotion EXCEPT ![r].pc = "read", ![r].snap = s]
    BY Zenon, <1>3
  <2>2. s \in Nat
    BY KeyOfRequest DEF PromotionInv, PromotionTypes, Receipts
  <2> DEFINE j == [promotion[r] EXCEPT !.pc = "read", !.snap = s]
  <2>3. promotion[r] \in Jobs /\ JobOK(r, promotion[r])
    BY DEF PromotionInv, PromotionTypes
  <2>4. j \in Jobs /\ j.pc = "read" /\ j.plan = promotion[r].plan /\ j.id = promotion[r].id
    BY Zenon, <2>2, <2>3 DEF Jobs, Steps
  <2>5. promotion' = [promotion EXCEPT ![r] = j]
    BY Zenon, <2>1 DEF PromotionInv, PromotionTypes
  <2> HIDE DEF j
  <2>6. JobOK(r, j)
    BY <2>3, <2>4 DEF JobOK, Bound
  <2> QED
    BY Zenon, <1>1, <2>4, <2>5, <2>6, Local
<1> QED
  BY <1>2, <1>3 DEF StartPromotion

LEMMA ReadReceiptSteps ==
  ASSUME PromotionInv, NEW r \in Requests, ReadReceipt(r)
  PROVE  PromotionInv'
<1>1. UNCHANGED <<tip, receipts, drop, inFlight, shown>> /\ DOMAIN answer' = Requests
  BY DEF ReadReceipt, Silent, leaseVars, promotionStore, PromotionInv, PromotionTypes
<1>2. CASE \E c \in receipts[Key[r]] : Follow(r, c)
  BY <1>1, <1>2, Followed, Local
<1>3. CASE Aborts(r)
  BY <1>1, <1>3, Aborted, Local
<1>4. CASE Proceeds(r, "begin")
  <2>1. PICK j \in Jobs : /\ promotion' = [promotion EXCEPT ![r] = j]
                          /\ j.pc = "begin" /\ j.plan = promotion[r].plan
                          /\ j.id = promotion[r].id
    BY <1>4, Proceeded DEF Steps
  <2>2. JobOK(r, j)
    BY <2>1 DEF PromotionInv, JobOK, Bound
  <2> QED
    BY Zenon, <1>1, <2>1, <2>2, Local
<1> QED
  BY <1>2, <1>3, <1>4 DEF ReadReceipt

LEMMA BeginSteps ==
  ASSUME PromotionInv, NEW r \in Requests, BeginPromotion(r)
  PROVE  PromotionInv'
<1>1. DOMAIN answer' = Requests /\ UNCHANGED <<tip, receipts, drop, inFlight, shown>>
  BY LeaseKeepsRequests DEF BeginPromotion, promotionStore, PromotionInv, PromotionTypes
<1>2. CASE Aborts(r)
  BY <1>1, <1>2, Aborted, Local
<1>3. CASE Proceeds(r, IF promotion[r].pc = "begin" THEN "reserve" ELSE "alias")
  <2> DEFINE pc == IF promotion[r].pc = "begin" THEN "reserve" ELSE "alias"
  <2>1. pc \in Steps
    BY DEF Steps
  <2>2. PICK j \in Jobs : /\ promotion' = [promotion EXCEPT ![r] = j]
                          /\ j.pc = pc /\ j.plan = promotion[r].plan
                          /\ j.id = promotion[r].id
    <3> HIDE DEF pc
    <3> QED BY <1>3, <2>1, Proceeded DEF pc
  <2>3. pc = "reserve" \/ (pc = "alias" /\ promotion[r].pc = "resume")
    BY DEF BeginPromotion, Reached
  <2> HIDE DEF pc
  <2>4. JobOK(r, j)
    BY <2>2, <2>3 DEF PromotionInv, JobOK, Bound
  <2> QED
    BY ZenonT(60), <1>1, <2>2, <2>4, Local
<1> QED
  BY <1>2, <1>3 DEF BeginPromotion

LEMMA ReserveSteps ==
  ASSUME PromotionInv, NEW r \in Requests, Reserve(r)
  PROVE  PromotionInv'
<1>1. UNCHANGED <<tip, receipts, drop, inFlight, shown>> /\ DOMAIN answer' = Requests
  BY DEF Reserve, Silent, leaseVars, PromotionInv, PromotionTypes
<1>2. PICK i \in DropIds : promotion' = [promotion EXCEPT ![r].pc = "receipt", ![r].id = i,
                                          ![r].plan = {Pending(r, i)}]
  BY Zenon DEF Reserve
<1>3. promotion[r] \in Jobs
  BY DEF PromotionInv, PromotionTypes
<1>4. promotion[r].snap \in Nat
  BY <1>3 DEF Jobs
<1>5. PICK c : c = Pending(r, i)
  OBVIOUS
<1>6. c \in Receipts /\ Own(c, Key[r]) /\ c.id = i /\ c.status = "pending"
  BY <1>4, <1>5, KeyOfRequest DEF Pending, Receipts, Payloads, Own
<1> DEFINE j == [promotion[r] EXCEPT !.pc = "receipt", !.id = i, !.plan = {c}]
<1>7. promotion' = [promotion EXCEPT ![r] = j]
  BY Zenon, <1>2, <1>5 DEF PromotionInv, PromotionTypes
<1>8. j \in Jobs /\ j.pc = "receipt" /\ j.id = i /\ j.plan = {c}
  BY Zenon, <1>3, <1>6 DEF Jobs, Steps
<1> HIDE DEF j
<1>9. JobOK(r, j)
  BY <1>6, <1>8 DEF JobOK, Bound
<1> QED
  BY Zenon, <1>1, <1>7, <1>8, <1>9, Local

\* The one receipt a request works on.
LEMMA PlanOf ==
  ASSUME PromotionInv, NEW r \in Requests,
         promotion[r].pc = "receipt" \/ Bound(promotion[r])
  PROVE  \E c \in Receipts : /\ promotion[r].plan = {c} /\ Own(c, Key[r])
                             /\ c.id = promotion[r].id
                             /\ promotion[r].pc = "receipt" => c.status = "pending"
                             /\ Bound(promotion[r]) => Kept(Key[r], c)
<1>1. promotion[r] \in Jobs /\ JobOK(r, promotion[r])
  BY DEF PromotionInv, PromotionTypes
<1>2. PICK c : c \in promotion[r].plan
  BY <1>1 DEF JobOK
<1>3. promotion[r].plan = {c}
  BY <1>1, <1>2, Singleton DEF JobOK
<1>4. c \in Receipts
  BY <1>1, <1>2 DEF Jobs
<1> QED
  BY <1>1, <1>2, <1>3, <1>4 DEF JobOK

LEMMA CreateReceiptSteps ==
  ASSUME PromotionInv, NEW r \in Requests, CreateReceipt(r)
  PROVE  PromotionInv'
<1>1. UNCHANGED <<tip, drop, inFlight, shown>> /\ DOMAIN answer' = Requests
  BY DEF CreateReceipt, Silent, leaseVars, PromotionInv, PromotionTypes
<1>2. CASE UNCHANGED receipts /\ \E c \in receipts[Key[r]] : Follow(r, c)
  BY <1>1, <1>2, Followed, Local
<1>3. CASE /\ receipts[Key[r]] = {}
           /\ receipts' = [receipts EXCEPT ![Key[r]] = promotion[r].plan]
           /\ Proceeds(r, "alias")
  <2>1. promotion[r].pc = "receipt" /\ Key[r] \in Keys
    BY KeyOfRequest DEF CreateReceipt, Reached
  <2>2. PICK c \in Receipts : /\ promotion[r].plan = {c} /\ Own(c, Key[r])
                              /\ c.id = promotion[r].id /\ c.status = "pending"
    BY <2>1, PlanOf
  <2>3. /\ receipts' \in [Keys -> SUBSET Receipts]
        /\ ReceiptsAreSingle' /\ ReceiptsGrow /\ CompletedIsStored'
        /\ receipts'[Key[r]] = {c}
    BY ZenonT(60), <1>1, <1>3, <2>1, <2>2, StoresReceipt
  <2>4. PICK j \in Jobs : /\ promotion' = [promotion EXCEPT ![r] = j]
                          /\ j.pc = "alias" /\ j.plan = promotion[r].plan
                          /\ j.id = promotion[r].id
    BY <1>3, Proceeded DEF Steps
  <2>5. promotion' \in [Requests -> Jobs]
        /\ \A q \in Requests : promotion'[q] = IF q = r THEN j ELSE promotion[q]
    BY <2>4 DEF PromotionInv, PromotionTypes
  <2>6. JobOK(r, promotion[r])'
    BY <2>2, <2>3, <2>4, <2>5 DEF JobOK, Bound, Kept, Agrees
  <2>7. PromotionTypes' /\ FlightsAreOwn'
    BY <1>1, <2>3, <2>5 DEF PromotionInv, PromotionTypes, FlightsAreOwn
  <2> QED
    BY <1>1, <2>3, <2>5, <2>6, <2>7, Frame
<1> QED
  BY <1>2, <1>3 DEF CreateReceipt

LEMMA ReceiptFailsSteps ==
  ASSUME PromotionInv, NEW r \in Requests, ReceiptFails(r)
  PROVE  PromotionInv'
<1>1. UNCHANGED <<tip, drop, shown>> /\ DOMAIN answer' = Requests
  BY LeaseKeepsRequests DEF ReceiptFails, PromotionInv, PromotionTypes
<1>2. promotion[r].pc = "receipt" /\ Key[r] \in Keys
  BY KeyOfRequest DEF ReceiptFails, Reached
<1>3. PICK c \in Receipts : /\ promotion[r].plan = {c} /\ Own(c, Key[r])
                            /\ c.id = promotion[r].id /\ c.status = "pending"
  BY <1>2, PlanOf
<1>4. PICK j \in Jobs : JobOK(r, j) /\ promotion' = [promotion EXCEPT ![r] = j]
                        /\ j.pc = "finish" /\ j.failed = "yes"
  BY Aborted DEF ReceiptFails
<1>5. promotion' \in [Requests -> Jobs]
      /\ \A q \in Requests : promotion'[q] = IF q = r THEN j ELSE promotion[q]
  BY <1>4 DEF PromotionInv, PromotionTypes
<1>6. JobOK(r, promotion[r])'
  BY <1>4, <1>5 DEF JobOK, Bound
<1>7. /\ receipts' \in [Keys -> SUBSET Receipts]
      /\ ReceiptsAreSingle' /\ ReceiptsGrow /\ CompletedIsStored'
  <2>1. CASE UNCHANGED receipts
    BY <1>1, <2>1 DEF PromotionInv, PromotionTypes, ReceiptsAreSingle, ReceiptsGrow, Agrees,
       CompletedIsStored
  <2>2. CASE receipts[Key[r]] = {} /\ receipts' = [receipts EXCEPT ![Key[r]] = promotion[r].plan]
    BY ZenonT(60), <1>1, <1>2, <1>3, <2>2, StoresReceipt
  <2> QED
    BY <2>1, <2>2 DEF ReceiptFails
<1>8. inFlight' \subseteq inFlight \cup {c}
  BY <1>3 DEF ReceiptFails
<1>9. PromotionTypes' /\ FlightsAreOwn'
  BY <1>1, <1>3, <1>5, <1>7, <1>8 DEF PromotionInv, PromotionTypes, FlightsAreOwn, Own
<1> QED
  BY <1>1, <1>5, <1>6, <1>7, <1>9, Frame

LEMMA LandsLateSteps ==
  ASSUME PromotionInv, NEW c \in inFlight, ReceiptLandsLate(c)
  PROVE  PromotionInv'
<1>1. UNCHANGED <<tip, drop, shown, promotion, answer>> /\ inFlight' \subseteq inFlight
  BY DEF ReceiptLandsLate, Silent, leaseVars
<1>2. c \in Receipts /\ c.key \in Keys /\ Own(c, c.key) /\ c.status = "pending"
  BY DEF PromotionInv, PromotionTypes, FlightsAreOwn, Receipts
<1>3. /\ receipts' \in [Keys -> SUBSET Receipts]
      /\ ReceiptsAreSingle' /\ ReceiptsGrow /\ CompletedIsStored'
  <2>1. CASE UNCHANGED receipts
    BY <1>1, <2>1 DEF PromotionInv, PromotionTypes, ReceiptsAreSingle, ReceiptsGrow, Agrees,
       CompletedIsStored
  <2>2. CASE receipts[c.key] = {} /\ receipts' = [receipts EXCEPT ![c.key] = {c}]
    BY Zenon, <1>1, <1>2, <2>2, StoresReceipt
  <2> QED
    BY <2>1, <2>2 DEF ReceiptLandsLate
<1>4. PromotionTypes' /\ FlightsAreOwn'
  BY <1>1, <1>3 DEF PromotionInv, PromotionTypes, FlightsAreOwn
<1> QED
  BY <1>1, <1>3, <1>4, Frame

LEMMA ReserveAgainSteps ==
  ASSUME PromotionInv, NEW r \in Requests, ReserveAgain(r)
  PROVE  PromotionInv'
<1>1. UNCHANGED <<tip, receipts, drop, inFlight, shown>> /\ DOMAIN answer' = Requests
  BY DEF ReserveAgain, Silent, leaseVars, PromotionInv, PromotionTypes
<1>2. PICK j \in Jobs : /\ promotion' = [promotion EXCEPT ![r] = j]
                        /\ j.pc = "put" /\ j.plan = promotion[r].plan
                        /\ j.id = promotion[r].id
  BY Proceeded DEF ReserveAgain, Steps
<1>3. promotion[r].pc = "alias"
  BY DEF ReserveAgain, Reached
<1>4. JobOK(r, j)
  BY <1>2, <1>3 DEF PromotionInv, JobOK, Bound
<1> QED
  BY Zenon, <1>1, <1>2, <1>4, Local

\* The payload of a stored receipt reaches its drop.
LEMMA StoresDrop ==
  ASSUME PromotionInv, NEW r \in Requests, promotion[r].pc = "put",
         drop[promotion[r].id] \in {{}, Wanted(r)},
         drop' = [drop EXCEPT ![promotion[r].id] = Wanted(r)],
         UNCHANGED receipts
  PROVE  /\ drop' \in [DropIds -> SUBSET Payloads]
         /\ promotion[r].id \in DropIds /\ drop'[promotion[r].id] = Wanted(r)
         /\ \A i \in DropIds : drop'[i] = drop[i] \/ (drop[i] = {} /\ DropOK(i)')
         /\ CompletedIsStored'
<1>1. PICK c \in Receipts : /\ promotion[r].plan = {c} /\ Own(c, Key[r])
                            /\ c.id = promotion[r].id /\ Kept(Key[r], c)
  BY PlanOf DEF Bound
<1>2. Wanted(r) = {c.payload} /\ c.payload \in Payloads /\ c.id \in DropIds
  BY <1>1 DEF Wanted, Receipts
<1>3. drop' \in [DropIds -> SUBSET Payloads]
      /\ \A i \in DropIds : drop'[i] = IF i = c.id THEN {c.payload} ELSE drop[i]
  BY <1>1, <1>2 DEF PromotionInv, PromotionTypes
<1>4. DropOK(c.id)'
  BY Zenon, <1>1, <1>2, <1>3 DEF DropOK, Kept, Agrees, Own
<1>5. drop[c.id] = {} \/ drop[c.id] = {c.payload}
  BY <1>1, <1>2
<1>6. CompletedIsStored'
  <2> SUFFICES ASSUME NEW k \in Keys, NEW d \in receipts[k], d.status = "completed"
               PROVE  drop'[d.id] = {d.payload}
    BY DEF CompletedIsStored
  <2>1. drop[d.id] = {d.payload} /\ d.id \in DropIds
    BY DEF PromotionInv, PromotionTypes, CompletedIsStored, Receipts
  <2> QED
    BY <1>3, <1>5, <2>1
<1> QED
  BY <1>1, <1>2, <1>3, <1>4, <1>5, <1>6

LEMMA PutDropSteps ==
  ASSUME PromotionInv, NEW r \in Requests, PutDrop(r)
  PROVE  PromotionInv'
<1>1. UNCHANGED <<tip, receipts, inFlight, shown>> /\ DOMAIN answer' = Requests
  BY DEF PutDrop, Silent, leaseVars, PromotionInv, PromotionTypes
<1>2. CASE Aborts(r) /\ UNCHANGED drop
  BY <1>1, <1>2, Aborted, Local
<1>3. CASE /\ drop[promotion[r].id] \in {{}, Wanted(r)}
           /\ drop' = [drop EXCEPT ![promotion[r].id] = Wanted(r)]
           /\ Proceeds(r, "complete")
  <2>1. promotion[r].pc = "put"
    BY DEF PutDrop, Reached
  <2>2. /\ drop' \in [DropIds -> SUBSET Payloads]
        /\ promotion[r].id \in DropIds /\ drop'[promotion[r].id] = Wanted(r)
        /\ \A i \in DropIds : drop'[i] = drop[i] \/ (drop[i] = {} /\ DropOK(i)')
        /\ CompletedIsStored'
    BY ZenonT(60), <1>1, <1>3, <2>1, StoresDrop
  <2>3. PICK j \in Jobs : /\ promotion' = [promotion EXCEPT ![r] = j]
                          /\ j.pc = "complete" /\ j.plan = promotion[r].plan
                          /\ j.id = promotion[r].id
    BY <1>3, Proceeded DEF Steps
  <2>4. promotion' \in [Requests -> Jobs]
        /\ \A q \in Requests : promotion'[q] = IF q = r THEN j ELSE promotion[q]
    BY <2>3 DEF PromotionInv, PromotionTypes
  <2>5. JobOK(r, promotion[r]) /\ Bound(promotion[r])
    BY <2>1 DEF PromotionInv, Bound
  <2>6. \A c \in promotion[r].plan : Kept(Key[r], c)'
    BY <1>1, <2>5 DEF JobOK, Kept
  <2>7. drop'[j.id] = {c.payload : c \in j.plan}
    BY <2>2, <2>3 DEF Wanted
  <2>8. JobOK(r, promotion[r])'
    BY <2>3, <2>4, <2>5, <2>6, <2>7 DEF JobOK, Bound
  <2>9. PromotionTypes' /\ FlightsAreOwn' /\ ReceiptsGrow /\ ReceiptsAreSingle'
    BY <1>1, <2>2, <2>4 DEF PromotionInv, PromotionTypes, FlightsAreOwn, ReceiptsGrow, Agrees,
       ReceiptsAreSingle
  <2> QED
    BY <1>1, <2>2, <2>4, <2>8, <2>9, Frame
<1> QED
  BY <1>2, <1>3 DEF PutDrop

\* Completing a receipt changes its status only.
LEMMA CompletesReceipt ==
  ASSUME PromotionInv, NEW r \in Requests, promotion[r].pc = "complete",
         receipts' = [receipts EXCEPT ![Key[r]] = Completed(r)], UNCHANGED drop
  PROVE  /\ receipts' \in [Keys -> SUBSET Receipts]
         /\ ReceiptsAreSingle' /\ ReceiptsGrow /\ CompletedIsStored'
         /\ \E c \in Receipts : /\ Completed(r) = {c} /\ receipts'[Key[r]] = {c}
                                /\ Own(c, Key[r]) /\ c.id = promotion[r].id
<1>1. PICK c \in Receipts : /\ promotion[r].plan = {c} /\ Own(c, Key[r])
                            /\ c.id = promotion[r].id /\ Kept(Key[r], c)
  BY PlanOf DEF Bound
<1>2. PICK d : d = [c EXCEPT !.status = "completed"]
  BY ZenonT(60)
<1>3. d \in Receipts /\ Own(d, Key[r]) /\ Agrees(c, d) /\ Completed(r) = {d}
  BY <1>1, <1>2 DEF Receipts, Own, Agrees, Completed
<1>4. drop[d.id] = {d.payload}
  BY <1>1, <1>3 DEF PromotionInv, JobOK, Agrees
<1>5. Key[r] \in Keys
  BY KeyOfRequest
<1>6. \A e \in receipts[Key[r]] : Agrees(e, d)
  BY Zenon, <1>1, <1>3, <1>5 DEF PromotionInv, ReceiptsAreSingle, Kept, Agrees
<1>7. /\ receipts' \in [Keys -> SUBSET Receipts]
      /\ ReceiptsAreSingle' /\ ReceiptsGrow /\ CompletedIsStored'
      /\ receipts'[Key[r]] = {d}
  BY Zenon, <1>3, <1>4, <1>5, <1>6, StoresReceipt
<1> QED
  BY <1>1, <1>3, <1>7 DEF Agrees

LEMMA CompleteSteps ==
  ASSUME PromotionInv, NEW r \in Requests, CompleteReceipt(r)
  PROVE  PromotionInv'
<1>1. UNCHANGED <<tip, drop, inFlight, shown>> /\ DOMAIN answer' = Requests
  BY DEF CompleteReceipt, Silent, leaseVars, PromotionInv, PromotionTypes
<1>2. promotion[r].pc = "complete" /\ promotion[r] \in Jobs
  BY DEF CompleteReceipt, Reached, PromotionInv, PromotionTypes
<1>3. /\ receipts' \in [Keys -> SUBSET Receipts]
      /\ ReceiptsAreSingle' /\ ReceiptsGrow /\ CompletedIsStored'
  BY Zenon, <1>1, <1>2, CompletesReceipt DEF CompleteReceipt
<1>4. PICK c \in Receipts : /\ Completed(r) = {c} /\ receipts'[Key[r]] = {c}
                            /\ Own(c, Key[r]) /\ c.id = promotion[r].id
  BY Zenon, <1>1, <1>2, CompletesReceipt DEF CompleteReceipt
<1> DEFINE j == [promotion[r] EXCEPT !.pc = "finish", !.plan = {c}]
<1>5. promotion' = [promotion EXCEPT ![r] = j]
  BY Zenon, <1>4 DEF CompleteReceipt, PromotionInv, PromotionTypes
<1>6. j \in Jobs /\ j.pc = "finish" /\ j.plan = {c} /\ j.id = c.id
  BY ZenonT(60), <1>2, <1>4 DEF Jobs, Steps
<1> HIDE DEF j
<1>7. promotion' \in [Requests -> Jobs]
      /\ \A q \in Requests : promotion'[q] = IF q = r THEN j ELSE promotion[q]
  BY <1>5, <1>6 DEF PromotionInv, PromotionTypes
<1>8. JobOK(r, promotion[r])'
  BY <1>4, <1>6, <1>7 DEF JobOK, Kept, Agrees
<1>9. PromotionTypes' /\ FlightsAreOwn'
  BY ZenonT(60), <1>1, <1>3, <1>7 DEF PromotionInv, PromotionTypes, FlightsAreOwn
<1> QED
  BY <1>1, <1>3, <1>7, <1>8, <1>9, Frame

\* A success is told only of a receipt that is stored.
LEMMA FinishSteps ==
  ASSUME PromotionInv, NEW r \in Requests, FinishPromotion(r)
  PROVE  PromotionInv'
<1>1. DOMAIN answer' = Requests /\ UNCHANGED <<tip, receipts, drop, inFlight, promotion>>
  BY LeaseKeepsRequests DEF FinishPromotion, promotionStore, PromotionInv, PromotionTypes
<1>2. CASE UNCHANGED shown
  BY ZenonT(60), <1>1, <1>2, Elsewhere DEF PromotionInv, PromotionTypes
<1>3. CASE answer'[r] = "ok" /\ shown' = [shown EXCEPT ![r] = promotion[r].plan]
  <2>1. promotion[r].failed # "yes"
    BY <1>3 DEF FinishPromotion, FinishWork, Ends, Outcome, PromotionInv, PromotionTypes
  <2>2. Bound(promotion[r]) /\ promotion[r] \in Jobs /\ JobOK(r, promotion[r])
    BY ZenonT(60), <2>1 DEF FinishPromotion, Reached, Bound, PromotionInv, PromotionTypes, Jobs
  <2>3. shown' \in [Requests -> SUBSET Receipts]
        /\ \A q \in Requests : shown'[q] = IF q = r THEN promotion[r].plan ELSE shown[q]
    BY ZenonT(60), <1>3, <2>2 DEF PromotionInv, PromotionTypes, Jobs
  <2>4. ShownOK(r)'
    BY <1>1, <2>2, <2>3 DEF ShownOK, JobOK, Kept
  <2>5. PromotionTypes'
    BY <1>1, <2>3 DEF PromotionInv, PromotionTypes
  <2> QED
    BY Zenon, <1>1, <2>3, <2>4, <2>5, StoresStay, Frame
<1> QED
  BY <1>2, <1>3 DEF FinishPromotion

LEMMA PromotionFailsSteps ==
  ASSUME PromotionInv, NEW r \in Requests, PromotionFails(r)
  PROVE  PromotionInv'
<1>1. UNCHANGED <<tip, inFlight, shown>> /\ DOMAIN answer' = Requests
  BY ZenonT(60), LeaseKeepsRequests DEF PromotionFails, PromotionInv, PromotionTypes
<1>2. PICK j \in Jobs : JobOK(r, j) /\ promotion' = [promotion EXCEPT ![r] = j]
                        /\ j.pc = "finish" /\ j.failed = "yes"
  BY Zenon, Aborted DEF PromotionFails
<1>3. promotion' \in [Requests -> Jobs]
      /\ \A q \in Requests : promotion'[q] = IF q = r THEN j ELSE promotion[q]
  BY <1>2 DEF PromotionInv, PromotionTypes
<1>4. JobOK(r, promotion[r])'
  BY ZenonT(60), <1>2, <1>3 DEF JobOK, Bound
<1>5. CASE UNCHANGED <<drop, receipts>>
  BY ZenonT(60), <1>1, <1>2, <1>5, Local, <1>3, <1>4, Frame, StoresStay DEF PromotionInv, PromotionTypes
<1>6. CASE /\ Reached(r, "put") /\ drop[promotion[r].id] = {}
           /\ drop' = [drop EXCEPT ![promotion[r].id] = Wanted(r)]
           /\ UNCHANGED receipts
  <2>1. /\ drop' \in [DropIds -> SUBSET Payloads]
        /\ \A i \in DropIds : drop'[i] = drop[i] \/ (drop[i] = {} /\ DropOK(i)')
        /\ CompletedIsStored'
    BY Zenon, <1>6, StoresDrop DEF Reached
  <2>2. PromotionTypes' /\ FlightsAreOwn' /\ ReceiptsGrow /\ ReceiptsAreSingle'
    BY ZenonT(60), <1>1, <1>3, <1>6, <2>1 DEF PromotionInv, PromotionTypes, FlightsAreOwn, ReceiptsGrow,
       Agrees, ReceiptsAreSingle
  <2> QED
    BY ZenonT(60), <1>1, <1>3, <1>4, <2>1, <2>2, Frame
<1>7. CASE /\ Reached(r, "complete")
           /\ receipts' = [receipts EXCEPT ![Key[r]] = Completed(r)]
           /\ UNCHANGED drop
  <2>1. /\ receipts' \in [Keys -> SUBSET Receipts]
        /\ ReceiptsAreSingle' /\ ReceiptsGrow /\ CompletedIsStored'
    BY Zenon, <1>7, CompletesReceipt DEF Reached
  <2>2. PromotionTypes' /\ FlightsAreOwn'
    BY <1>1, <1>3, <1>7, <2>1 DEF PromotionInv, PromotionTypes, FlightsAreOwn
  <2> QED
    BY ZenonT(60), <1>1, <1>3, <1>4, <1>7, <2>1, <2>2, Frame
<1> QED
  BY <1>5, <1>6, <1>7 DEF PromotionFails

-----------------------------------------------------------------------------
\* The invariant holds initially, and every step keeps it.
LEMMA PromotionStarts ==
  PromotionInit => PromotionInv
<1> SUFFICES ASSUME PromotionInit PROVE PromotionInv
  OBVIOUS
<1>1. PromotionTypes
  BY DEF PromotionInit, NothingPromoted, LeaseInit, PromotionTypes, Jobs, Steps
<1>2. \A r \in Requests : JobOK(r, promotion[r])
  BY DEF PromotionInit, NothingPromoted, JobOK, Bound
<1> QED
  BY <1>1, <1>2, KeyOfRequest DEF PromotionInit, NothingPromoted, PromotionInv, ReceiptsAreSingle, FlightsAreOwn,
     DropOK, CompletedIsStored, ShownOK

LEMMA PromotionSteps ==
  PromotionInv /\ [PromotionNext]_promotionVars => PromotionInv'
<1> SUFFICES ASSUME PromotionInv, [PromotionNext]_promotionVars PROVE PromotionInv'
  OBVIOUS
<1>1. CASE UNCHANGED promotionVars
  BY <1>1, Elsewhere DEF promotionVars, promotionStore, leaseVars, PromotionInv, PromotionTypes
<1>2. ASSUME NEW r \in Requests, PromotionStops(r) PROVE PromotionInv'
  BY ZenonT(60), <1>2, Elsewhere, LeaseKeepsRequests
     DEF PromotionStops, promotionStore, PromotionInv, PromotionTypes
<1>3. CASE MoveHead
  BY <1>3, Elsewhere DEF MoveHead, leaseVars, PromotionInv, PromotionTypes
<1>4. CASE LeaseMoves
  <2>1. DOMAIN answer' = Requests
    BY <1>4 DEF LeaseMoves, Renew, Expire, PromotionInv, PromotionTypes
  <2> QED
    BY Zenon, <1>4, <2>1, Elsewhere DEF LeaseMoves, promotionStore, PromotionInv, PromotionTypes
<1> QED
  BY <1>1, <1>2, <1>3, <1>4, StartSteps, ReadReceiptSteps, BeginSteps, ReserveSteps,
     CreateReceiptSteps, ReceiptFailsSteps, ReserveAgainSteps, PutDropSteps, CompleteSteps,
     FinishSteps, PromotionFailsSteps, LandsLateSteps DEF PromotionNext

\* Two drops, or two answers, of one key agree with its one receipt.
LEMMA InvGivesOneDrop ==
  PromotionInv => OneDropPerKey
<1> SUFFICES ASSUME PromotionInv PROVE OneDropPerKey
  OBVIOUS
<1>1. ASSUME NEW i \in DropIds, NEW j \in DropIds, NEW p \in drop[i], NEW q \in drop[j],
             Key[p.by] = Key[q.by]
      PROVE  i = j
  <2>1. p \in Payloads
    BY DEF PromotionInv, PromotionTypes
  <2> QED
    BY <1>1, <2>1, PayloadKey DEF PromotionInv, DropOK, ReceiptsAreSingle
<1>2. ASSUME NEW r \in Requests, NEW q \in Requests, NEW c \in shown[r], NEW d \in shown[q],
             Key[r] = Key[q]
      PROVE  c.id = d.id /\ c.payload = d.payload
  BY <1>2, KeyOfRequest DEF PromotionInv, ShownOK, Kept, Agrees, ReceiptsAreSingle
<1> QED
  BY <1>1, <1>2 DEF OneDropPerKey

\* However promotions are retried, raced, broken off or frozen under a stolen
\* lease, one idempotency key makes one drop, and a completed receipt has its
\* drop (branches/promotion.ts, promotion-receipt.ts).
THEOREM PromotesOnce ==
  PromotionSpec => []PromotedOnce
<1>1. PromotionInv => PromotedOnce
  BY InvGivesOneDrop DEF PromotionInv, PromotedOnce
<1> QED
  BY <1>1, PromotionStarts, PromotionSteps, PTL DEF PromotionSpec

=============================================================================
