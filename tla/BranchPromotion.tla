--------------------------- MODULE BranchPromotion ---------------------------
(***************************************************************************)
(* Promoting a branch snapshot to a drop of its own: promoteBranchSnapshot *)
(* (branches/promotion.ts) with its receipts                               *)
(* (branches/storage/promotion-receipt.ts) and the reserved ids of         *)
(* drops/storage/remote-create.ts, under the lease of MutationLease.       *)
(*                                                                         *)
(* Two requests with one idempotency key are a request and its retry.  Each*)
(* request seals its own payload.  A receipt put that its caller gave up on*)
(* may land later.  A new id is any id nobody has reserved.                *)
(***************************************************************************)
EXTENDS MutationLease

CONSTANTS
  Key,      \* per request: idempotencyKey
  DropIds,  \* ids that reserveRemoteJsonDropId can draw
  MaxHead   \* bound on the snapshots of the branch

ASSUME PromotionConstants ==
  /\ DOMAIN Key = Requests
  /\ NoToken \notin DropIds
  /\ MaxHead \in Nat

Keys == {Key[r] : r \in Requests}

VARIABLES
  tip,        \* headSnapshotId of the branch
  receipts,   \* per key: the receipts stored, at most one
  reserved,   \* ids with an alias
  drop,       \* per id: the payloads stored, at most one
  inFlight,   \* receipts given up by their callers that may still land
  promotion,  \* per request: its locals
  shown       \* per request: the receipts its client was answered with

promotionStore == <<tip, receipts, reserved, drop, inFlight>>
promotionVars == <<leaseVars, promotionStore, promotion, shown>>

Payloads == [by : Requests, snap : Nat]
Receipts == [key : Keys, snap : Nat, id : DropIds, payload : Payloads,
             status : {"pending", "completed"}]
Steps == {"idle", "read", "begin", "reserve", "receipt", "resume", "alias", "put",
          "complete", "finish"}

NothingPromoted ==
  /\ tip = 0
  /\ receipts = [k \in Keys |-> {}]
  /\ reserved = {} /\ drop = [i \in DropIds |-> {}] /\ inFlight = {}
  /\ promotion = [r \in Requests |-> [pc |-> "idle", snap |-> 0, id |-> NoToken,
                                      plan |-> {}, failed |-> "no"]]
  /\ shown = [r \in Requests |-> {}]

PromotionInit == LeaseInit /\ NothingPromoted

Reached(r, pc) == phase[r] = "working" /\ promotion[r].pc = pc

Proceeds(r, pc) == promotion' = [promotion EXCEPT ![r].pc = pc]

Aborts(r) == promotion' = [promotion EXCEPT ![r].pc = "finish", ![r].failed = "yes"]

Silent == UNCHANGED <<leaseVars, shown>>

-----------------------------------------------------------------------------
\* A client promotes the snapshot it saw, or retries with its key.
StartPromotion(r) ==
  /\ \/ /\ Acquire(r)
        /\ \E s \in {tip} \cup {c.snap : c \in receipts[Key[r]]} :
             promotion' = [promotion EXCEPT ![r].pc = "read", ![r].snap = s]
     \/ AcquireTimesOut(r) /\ UNCHANGED promotion
  /\ UNCHANGED <<promotionStore, shown>>

\* What a stored receipt asks for: refusal, its own replay, or completion.
Follow(r, c) ==
  IF c.snap # promotion[r].snap THEN Aborts(r)
  ELSE promotion' = [promotion EXCEPT ![r].plan = {c}, ![r].id = c.id,
                          ![r].pc = IF c.status = "completed" THEN "finish" ELSE "resume"]

ReadReceipt(r) ==
  /\ Reached(r, "read")
  /\ \/ \E c \in receipts[Key[r]] : Follow(r, c)
     \/ /\ receipts[Key[r]] = {}
        /\ IF tip # promotion[r].snap THEN Aborts(r) ELSE Proceeds(r, "begin")
  /\ Silent /\ UNCHANGED promotionStore

\* beginCommit, before the reservation or before a pending receipt is finished.
BeginPromotion(r) ==
  /\ Reached(r, "begin") \/ Reached(r, "resume")
  /\ \/ BeginCommit(r) /\ Proceeds(r, IF promotion[r].pc = "begin" THEN "reserve" ELSE "alias")
     \/ BeginCommitRefused(r) /\ Aborts(r)
  /\ UNCHANGED <<promotionStore, shown>>

Pending(r, i) == [key |-> Key[r], snap |-> promotion[r].snap, id |-> i,
                  payload |-> [by |-> r, snap |-> promotion[r].snap], status |-> "pending"]

\* reserveRemoteJsonDropId.
Reserve(r) ==
  /\ Reached(r, "reserve")
  /\ \E i \in DropIds \ reserved :
       /\ reserved' = reserved \cup {i}
       /\ promotion' = [promotion EXCEPT ![r].pc = "receipt", ![r].id = i, ![r].plan = {Pending(r, i)}]
  /\ Silent /\ UNCHANGED <<tip, receipts, drop, inFlight>>

\* createBranchPromotionReceipt; whoever finds a receipt gives its own id
\* back and follows the other.
\* Mutant: the receipt is written over the one that is there.
CreateReceiptAlways(r) ==
  /\ Reached(r, "receipt")
  /\ receipts' = [receipts EXCEPT ![Key[r]] = promotion[r].plan]
  /\ Proceeds(r, "alias")
  /\ Silent /\ UNCHANGED <<tip, reserved, drop, inFlight>>

CreateReceipt(r) ==
  /\ Reached(r, "receipt")
  /\ \/ /\ receipts[Key[r]] = {}
        /\ receipts' = [receipts EXCEPT ![Key[r]] = promotion[r].plan]
        /\ Proceeds(r, "alias")
        /\ UNCHANGED reserved
     \/ /\ \E c \in receipts[Key[r]] : Follow(r, c)
        /\ reserved' = reserved \ {promotion[r].id}
        /\ UNCHANGED receipts
  /\ Silent /\ UNCHANGED <<tip, drop, inFlight>>

\* The put throws.  The receipt is looked for once: if it is not there the id
\* is given back, whether or not the put lands later.
ReceiptFails(r) ==
  /\ Reached(r, "receipt")
  /\ WorkThrows(r)
  /\ \/ /\ receipts[Key[r]] = {}
        /\ receipts' = [receipts EXCEPT ![Key[r]] = promotion[r].plan]
        /\ UNCHANGED <<reserved, inFlight>>
     \/ /\ receipts[Key[r]] = {}
        /\ reserved' = reserved \ {promotion[r].id}
        /\ inFlight' \in {inFlight, inFlight \cup promotion[r].plan}
        /\ UNCHANGED receipts
     \/ receipts[Key[r]] # {} /\ UNCHANGED <<receipts, reserved, inFlight>>
  /\ Aborts(r)
  /\ UNCHANGED <<tip, drop, shown>>

ReceiptLandsLate(c) ==
  /\ c \in inFlight
  /\ inFlight' = inFlight \ {c}
  /\ receipts' = IF receipts[c.key] = {} THEN [receipts EXCEPT ![c.key] = {c}] ELSE receipts
  /\ Silent /\ UNCHANGED <<tip, reserved, drop, promotion>>

-----------------------------------------------------------------------------
(* createReservedRemoteJsonDrop and completeBranchPromotionReceipt, for the *)
(* receipt in plan.                                                         *)

ReserveAgain(r) ==
  /\ Reached(r, "alias")
  /\ reserved' = reserved \cup {promotion[r].id}
  /\ Proceeds(r, "put")
  /\ Silent /\ UNCHANGED <<tip, receipts, drop, inFlight>>

Wanted(r) == {c.payload : c \in promotion[r].plan}

\* Create-only put; what is there must be the very same payload.
PutDrop(r) ==
  /\ Reached(r, "put")
  /\ IF drop[promotion[r].id] \in {{}, Wanted(r)}
     THEN drop' = [drop EXCEPT ![promotion[r].id] = Wanted(r)] /\ Proceeds(r, "complete")
     ELSE Aborts(r) /\ UNCHANGED drop
  /\ Silent /\ UNCHANGED <<tip, receipts, reserved, inFlight>>

Completed(r) == {[c EXCEPT !.status = "completed"] : c \in promotion[r].plan}

CompleteReceipt(r) ==
  /\ Reached(r, "complete")
  /\ receipts' = [receipts EXCEPT ![Key[r]] = Completed(r)]
  /\ promotion' = [promotion EXCEPT ![r].pc = "finish", ![r].plan = Completed(r)]
  /\ Silent /\ UNCHANGED <<tip, reserved, drop, inFlight>>

FinishPromotion(r) ==
  /\ Reached(r, "finish")
  /\ FinishWork(r, promotion[r].failed = "yes")
  /\ shown' = IF answer'[r] = "ok" THEN [shown EXCEPT ![r] = promotion[r].plan] ELSE shown
  /\ UNCHANGED <<promotionStore, promotion>>

\* Another storage call throws, before or after its effect.
PromotionFails(r) ==
  /\ promotion[r].pc \in {"read", "reserve", "alias", "put", "complete"}
  /\ WorkThrows(r)
  /\ \/ UNCHANGED <<reserved, drop, receipts>>
     \/ /\ Reached(r, "reserve")
        /\ \E i \in DropIds \ reserved : reserved' = reserved \cup {i}
        /\ UNCHANGED <<drop, receipts>>
     \/ /\ Reached(r, "put") /\ drop[promotion[r].id] = {}
        /\ drop' = [drop EXCEPT ![promotion[r].id] = Wanted(r)]
        /\ UNCHANGED <<reserved, receipts>>
     \/ /\ Reached(r, "complete")
        /\ receipts' = [receipts EXCEPT ![Key[r]] = Completed(r)]
        /\ UNCHANGED <<reserved, drop>>
  /\ Aborts(r)
  /\ UNCHANGED <<tip, inFlight, shown>>

PromotionStops(r) == Crash(r) /\ UNCHANGED <<promotionStore, promotion, shown>>

\* An append moves the head while nobody live holds the lease.
MoveHead ==
  /\ Takeable /\ tip < MaxHead
  /\ tip' = tip + 1
  /\ UNCHANGED <<leaseVars, receipts, reserved, drop, inFlight, promotion, shown>>

LeaseMoves ==
  /\ Expire \/ \E r \in Requests : Renew(r)
  /\ UNCHANGED <<promotionStore, promotion, shown>>

PromotionNext ==
  \/ \E r \in Requests :
       \/ StartPromotion(r) \/ ReadReceipt(r) \/ BeginPromotion(r) \/ Reserve(r) \/ CreateReceipt(r)
       \/ ReceiptFails(r) \/ ReserveAgain(r) \/ PutDrop(r) \/ CompleteReceipt(r) \/ FinishPromotion(r)
       \/ PromotionFails(r) \/ PromotionStops(r)
  \/ \E c \in inFlight : ReceiptLandsLate(c)
  \/ MoveHead \/ LeaseMoves

PromotionSpec == PromotionInit /\ [][PromotionNext]_promotionVars

-----------------------------------------------------------------------------
PromotionTypeOK ==
  /\ LeaseTypeOK
  /\ tip \in Nat
  /\ receipts \in [Keys -> SUBSET Receipts]
  /\ reserved \subseteq DropIds
  /\ drop \in [DropIds -> SUBSET Payloads]
  /\ inFlight \subseteq Receipts
  /\ promotion \in [Requests -> [pc : Steps, snap : Nat, id : DropIds \cup {NoToken},
                           plan : SUBSET Receipts, failed : {"yes", "no"}]]
  /\ shown \in [Requests -> SUBSET Receipts]

(* A completed receipt names a drop that holds its payload, whoever raced, *)
(* froze or stopped.  completeBranchPromotionReceipt: "Marks a promoted    *)
(* receipt complete only after its target drop is durably present."        *)
CompletedIsStored ==
  \A k \in Keys : \A c \in receipts[k] :
    c.status = "completed" => drop[c.id] = {c.payload}

(* A key makes at most one drop: no two ids hold payloads of requests with *)
(* one key, and every success told under it names the same drop.           *)
(* NULDOWN_API.md: "same key after a lost response; do not generate a      *)
(* second promotion request."                                              *)
OneDropPerKey ==
  /\ \A i, j \in DropIds : \A p \in drop[i], q \in drop[j] :
       Key[p.by] = Key[q.by] => i = j
  /\ \A r, q \in Requests : \A c \in shown[r], d \in shown[q] :
       Key[r] = Key[q] => c.id = d.id /\ c.payload = d.payload

(* A promotion is recorded as completed only with its drop stored, and an *)
(* idempotency key makes at most one drop.                                *)
PromotedOnce == CompletedIsStored /\ OneDropPerKey
=============================================================================
