--------------------------- MODULE BrowserProofs ----------------------------
(***************************************************************************)
(* Proofs about what a browser keeps on the server: the recovery packages  *)
(* of its account, and the drops it publishes.                             *)
(***************************************************************************)
EXTENDS AccountRecovery, DropStore, TLAPS

\* Back ends, in the order in which they are tried.
USE SMTT(15), Zenon, Z3T(60)

-----------------------------------------------------------------------------
(***************************************************************************)
(* Recovery codes.                                                         *)
(*                                                                         *)
(* For any set of attempts and users, any revisions and any repetition of  *)
(* requests: a recovery code the user was told to keep opens the account   *)
(* until a later one replaces it.                                          *)
(*                                                                         *)
(* The property is not inductive.  An upload is told "stored" of a row it  *)
(* saw some steps ago (Claimed), and the loser of a race deletes its       *)
(* object after a check some steps ago: UploadHolds says that the row      *)
(* cannot have come back to the object since.  The two deliveries of one   *)
(* attempt share an object; one may delete it only when the other cannot   *)
(* name it in the row any more.                                            *)
(***************************************************************************)

SetupStates == {"idle", "challenge", "bind", "consume", "insert", "encrypt", "sent", "shown",
                "confirm", "done"}
UploadStates == {"unsent", "read", "put", "compare", "advance", "verify", "delete", "stored",
                 "conflict"}

Setup == [pc : SetupStates, user : Users \cup {None}, rev : Nat, seen : Nat]
Upload == [pc : UploadStates, seen : Nat]
Object == [rev : Nat, digest : Attempt \cup {Earlier}]

Types ==
    /\ owner \in Users \cup {None}
    /\ package \in [rev : Nat, digest : Attempt \cup {Earlier, None}, user : Users \cup {None}]
    /\ blobs \in SUBSET Object /\ known \in SUBSET Object
    /\ setup \in [Attempt -> Setup] /\ upload \in [Attempt -> [1..2 -> Upload]]
    /\ pending \in Nat

\* What the row says of itself.
RowHolds ==
    /\ package.rev = 0 => package = NoPackage
    /\ package.rev > 0 => /\ Current \in blobs
                          /\ package.user = owner /\ owner # None
    /\ \A a \in Attempt : package.digest = a => package = Row(a) /\ setup[a].pc # "idle"

\* What a delivery has established, and what it relies on.
UploadHolds(a, k) ==
    /\ ~UploadAt(a, k, "unsent") => setup[a].pc # "idle" /\ setup[a].rev > 0
    /\ upload[a][k].pc \in {"put", "compare", "advance"} =>
         /\ setup[a].rev = upload[a][k].seen + 1 /\ upload[a][k].seen <= package.rev
         /\ owner = setup[a].user /\ owner # None
    /\ UploadAt(a, k, "advance") => Named(a) \in blobs \/ package.rev >= setup[a].rev
    /\ upload[a][k].pc \in {"verify", "delete"} => package.rev >= setup[a].rev
    /\ UploadAt(a, k, "delete") => Current # Named(a)

\* The packages somebody was told, or is about to be told, are stored.
Claimed == known \cup {Named(a) : a \in {b \in Attempt : \E k \in 1..2 : UploadAt(b, k, "stored")}}

ClaimsHold ==
    /\ \A x, y \in Claimed : x.rev = y.rev => x = y
    /\ \A x \in Claimed : package.rev >= x.rev /\ (package.rev = x.rev => x = Current)

RecoveryInv ==
    /\ Types /\ RowHolds /\ ClaimsHold
    /\ \A a \in Attempt : setup[a].pc # "idle" => setup[a].user \in Users
    /\ \A a \in Attempt, k \in 1..2 : UploadHolds(a, k)

\* The fields of the records the steps are about.
LEMMA Fields ==
  /\ \A a \in Attempt : Named(a).rev = setup[a].rev /\ Named(a).digest = a
  /\ \A a \in Attempt : /\ Row(a).rev = setup[a].rev /\ Row(a).digest = a
                        /\ Row(a).user = setup[a].user
  /\ Current.rev = package.rev /\ Current.digest = package.digest
  /\ NoPackage.rev = 0 /\ NoPackage.digest = None /\ NoPackage.user = None
BY DEF Named, Row, Current, NoPackage

\* What is stored now may be claimed now, ...
LEMMA ClaimNow ==
  ASSUME Types, ClaimsHold, UNCHANGED package, Claimed' \subseteq Claimed \cup {Current}
  PROVE  ClaimsHold'
<1>1. Current' = Current
  BY DEF Current
<1>2. Current.rev = package.rev /\ package.rev >= Current.rev
  BY Fields DEF Types
<1>3. \A x \in Claimed' : /\ package.rev >= x.rev
                          /\ package.rev = x.rev => x = Current
  BY <1>2 DEF ClaimsHold
<1>4. \A x, y \in Claimed' : x.rev = y.rev => x = y
  BY <1>2 DEF ClaimsHold
<1>. QED
  BY <1>1, <1>3, <1>4 DEF ClaimsHold

\* ... and a later revision contradicts no claim.
LEMMA ClaimLater ==
  ASSUME Types, ClaimsHold, Claimed' \subseteq Claimed, package'.rev = package.rev + 1,
         \A x \in Claimed : x.rev \in Nat
  PROVE  ClaimsHold'
<1>1. package.rev \in Nat
  BY DEF Types
<1>. QED
  BY <1>1 DEF ClaimsHold

LEMMA ClaimedTypes ==
  ASSUME Types PROVE Claimed \in SUBSET Object
<1>1. ASSUME NEW a \in Attempt PROVE Named(a) \in Object
  BY DEF Types, Setup, Object, Named
<1>. QED
  BY <1>1 DEF Types, Claimed

\* What the other deliveries rely on stays true while the row moves forward and
\* only an object that the row does not name is deleted.
LEMMA OthersHold ==
  ASSUME Types, NEW a \in Attempt, NEW k \in 1..2, UploadHolds(a, k),
         upload'[a][k] = upload[a][k],
         setup'[a].rev = setup[a].rev, setup'[a].user = setup[a].user,
         setup[a].pc # "idle" => setup'[a].pc # "idle",
         owner # None => owner' = owner,
         package' = package \/ package'.rev > package.rev, package'.rev \in Nat,
         Named(a) \in blobs => Named(a) \in blobs' \/ package'.rev >= setup[a].rev
  PROVE  UploadHolds(a, k)'
<1>1. Named(a)' = Named(a) /\ Current = [rev |-> package.rev, digest |-> package.digest]
      /\ Current' = [rev |-> package'.rev, digest |-> package'.digest]
      /\ Named(a) = [rev |-> setup[a].rev, digest |-> a]
  BY DEF Named, Current
<1>2. package.rev \in Nat /\ setup[a].rev \in Nat /\ upload[a][k].seen \in Nat
  BY DEF Types, Setup, Upload
<1>. QED
  BY <1>1, <1>2 DEF UploadHolds, UploadAt

\* A step of the browser: attempts keep their revision and user, the owner is
\* set once, and only what is stored becomes known.
LEMMA BrowserKeeps ==
  ASSUME RecoveryConstants, RecoveryInv, NEW a \in Attempt,
         UNCHANGED <<package, blobs, upload>>, pending' \in Nat,
         setup' \in [Attempt -> Setup],
         \A b \in Attempt : /\ setup'[b].rev = setup[b].rev
                            /\ setup'[b].user = setup[b].user
                            /\ setup'[b].pc = "idle" <=> setup[b].pc = "idle",
         owner' = owner \/ (owner = None /\ owner' \in Users),
         \/ known' = known
         \/ known' = known \cup {Named(a)} /\ (Named(a) \in Claimed \/ package = Row(a))
  PROVE  RecoveryInv'
<1>. USE DEF RecoveryInv
<1>1. /\ \A b \in Attempt : Named(b)' = Named(b) /\ Row(b)' = Row(b)
      /\ Current' = Current
  BY DEF Named, Row, Current
<1>2. \A b \in Attempt : \A k \in 1..2 : UploadAt(b, k, "stored")' <=> UploadAt(b, k, "stored")
  BY DEF UploadAt
<1>3. Claimed' \subseteq Claimed \cup {Current}
  <2>1. package = Row(a) => Named(a) = Current
    BY Fields DEF Named, Current
  <2>2. known' \subseteq Claimed \cup {Current}
    BY <2>1 DEF Claimed
  <2>. QED
    BY <1>1, <1>2, <2>2 DEF Claimed
<1>4. ClaimsHold'
  BY <1>3, ClaimNow
<1>5. known' \in SUBSET Object
  BY ClaimedTypes, <1>3, <1>4 DEF Types, Claimed, Object, Named, Setup
<1>6. Types'
  BY <1>5 DEF Types
<1>7. RowHolds'
  BY <1>1 DEF RowHolds, NoPackage, Types, RecoveryConstants
<1>8. ASSUME NEW b \in Attempt, NEW k \in 1..2 PROVE UploadHolds(b, k)'
  BY OthersHold DEF Types, RecoveryConstants
<1>. QED
  BY <1>4, <1>6, <1>7, <1>8

\* A new attempt has no deliveries yet, and no row names it.
LEMMA SetupKeeps ==
  ASSUME RecoveryConstants, RecoveryInv, NEW a \in Attempt, NEW u \in Users,
         SetupAccountSync(a, u)
  PROVE  RecoveryInv'
<1>. USE DEF RecoveryInv
<1>1. PICK rev \in Nat : setup' = [setup EXCEPT ![a] = [NotStarted EXCEPT !.pc = "challenge",
                                                   !.user = u, !.rev = rev]]
  <2>1. PICK rev \in {package.rev + 1} \cup {setup[b].rev + 1 : b \in Attempt} :
          setup' = [setup EXCEPT ![a] = [NotStarted EXCEPT !.pc = "challenge", !.user = u, !.rev = rev]]
    BY Zenon DEF SetupAccountSync
  <2>2. package.rev \in Nat /\ \A b \in Attempt : setup[b].rev \in Nat
    BY DEF Types, Setup
  <2>3. rev \in Nat
    BY <2>2
  <2>. QED
    BY ZenonT(60), <2>1, <2>3
<1>2. UNCHANGED <<owner, challenge, package, blobs, upload, pending, known>>
      /\ setup[a].pc = "idle"
  BY DEF SetupAccountSync, binding, server
<1>3. /\ setup' \in [Attempt -> Setup] /\ setup'[a].pc = "challenge" /\ setup'[a].user = u
      /\ \A b \in Attempt \ {a} : setup'[b] = setup[b]
  <2>1. PICK r : r = [NotStarted EXCEPT !.pc = "challenge", !.user = u, !.rev = rev]
    OBVIOUS
  <2>2. r = [pc |-> "challenge", user |-> u, rev |-> rev, seen |-> 0]
    BY Zenon, <2>1 DEF NotStarted
  <2>3. r \in Setup /\ r.pc = "challenge" /\ r.user = u
    BY <2>2 DEF Setup, SetupStates
  <2>4. setup' = [setup EXCEPT ![a] = r]
    BY <1>1, <2>1
  <2>. QED
    BY <2>3, <2>4 DEF Types
<1>4. /\ \A b \in Attempt \ {a} : Named(b)' = Named(b) /\ Row(b)' = Row(b)
      /\ Current' = Current
  BY <1>2, <1>3 DEF Named, Row, Current
<1>5. \A k \in 1..2 : UploadAt(a, k, "unsent")
  BY <1>2 DEF UploadHolds
<1>6. package.digest # a
  BY <1>2 DEF RowHolds
<1>7. Types'
  BY <1>2, <1>3 DEF Types
<1>8. RowHolds'
  BY <1>2, <1>3, <1>4, <1>6 DEF RowHolds, NoPackage
<1>12. \A b \in Attempt : setup'[b].pc # "idle" => setup'[b].user \in Users
  BY <1>3
<1>9. Claimed' = Claimed
  BY <1>2, <1>4, <1>5 DEF Claimed, UploadAt
<1>10. ClaimsHold'
  BY <1>2, <1>9, ClaimNow
<1>11. ASSUME NEW b \in Attempt, NEW k \in 1..2 PROVE UploadHolds(b, k)'
  <2>1. CASE b = a
    BY <1>2, <1>5, <2>1 DEF UploadHolds, UploadAt
  <2>2. CASE b # a
    <3>1. setup'[b] = setup[b] /\ upload'[b][k] = upload[b][k] /\ package.rev \in Nat
      BY <1>2, <1>3, <2>2 DEF Types
    <3>. QED
      BY <1>2, <3>1, OthersHold
  <2>. QED
    BY <2>1, <2>2
<1>. QED
  BY <1>7, <1>8, <1>10, <1>11, <1>12

\* A delivery that moves on.
LEMMA UploadMoves ==
  ASSUME Types, NEW a \in Attempt, NEW k \in 1..2, NEW r \in Upload,
         \/ upload' = [upload EXCEPT ![a][k] = r]
         \/ r.seen = upload[a][k].seen /\ Moves(a, k, r.pc)
  PROVE  /\ upload' \in [Attempt -> [1..2 -> Upload]]
         /\ upload'[a][k].pc = r.pc /\ upload'[a][k].seen = r.seen
         /\ \A b \in Attempt, j \in 1..2 : <<b, j>> # <<a, k>> => upload'[b][j] = upload[b][j]
<1>1. upload[a] \in [1..2 -> Upload] /\ upload[a][k] \in Upload
  BY DEF Types
<1>2. upload' = [upload EXCEPT ![a] = [upload[a] EXCEPT ![k] = r]]
  <2>1. CASE upload' = [upload EXCEPT ![a][k] = r]
    BY <2>1
  <2>2. CASE r.seen = upload[a][k].seen /\ Moves(a, k, r.pc)
    <3>1. [upload[a][k] EXCEPT !.pc = r.pc] = r
      BY <1>1, <2>2 DEF Upload
    <3>2. upload' = [upload EXCEPT ![a] = [upload[a] EXCEPT ![k] =
                       [upload[a][k] EXCEPT !.pc = r.pc]]]
      BY <2>2 DEF Moves
    <3>. QED
      BY Zenon, <3>1, <3>2
  <2>. QED
    BY <2>1, <2>2
<1>3. [upload[a] EXCEPT ![k] = r] \in [1..2 -> Upload]
  BY <1>1
<1>4. upload' \in [Attempt -> [1..2 -> Upload]]
  BY <1>2, <1>3 DEF Types
<1>5. upload'[a] = [upload[a] EXCEPT ![k] = r] /\ \A b \in Attempt \ {a} : upload'[b] = upload[b]
  BY <1>2 DEF Types
<1>6. upload'[a][k] = r /\ \A j \in 1..2 \ {k} : upload'[a][j] = upload[a][j]
  BY <1>1, <1>5
<1>. QED
  BY <1>4, <1>5, <1>6

\* A step of a delivery: it moves itself, the row moves forward by one revision
\* or not at all, and no other delivery loses an object it relies on.
LEMMA DeliveryKeeps ==
  ASSUME RecoveryConstants, RecoveryInv, NEW a \in Attempt, NEW k \in 1..2, NEW r \in Upload,
         UNCHANGED <<owner, pending, setup, known>>,
         \/ upload' = [upload EXCEPT ![a][k] = r]
         \/ r.seen = upload[a][k].seen /\ Moves(a, k, r.pc),
         UploadHolds(a, k)', RowHolds', blobs' \in SUBSET Object,
         \/ package' = package
         \/ package' = Row(a) /\ package'.rev = package.rev + 1 /\ r.pc # "stored",
         r.pc = "stored" => Named(a) = Current,
         \/ blobs \subseteq blobs'
         \/ blobs' = blobs \ {Named(a)} /\ package.rev >= setup[a].rev /\ package' = package
  PROVE  RecoveryInv'
<1>. USE DEF RecoveryInv
<1>1. /\ upload' \in [Attempt -> [1..2 -> Upload]] /\ upload'[a][k].pc = r.pc
      /\ \A b \in Attempt, j \in 1..2 : <<b, j>> # <<a, k>> => upload'[b][j] = upload[b][j]
  BY UploadMoves
<1>2. setup[a] \in Setup /\ package.rev \in Nat /\ setup[a].rev \in Nat
  BY DEF Types, Setup
<1>3. package' \in [rev : Nat, digest : Attempt \cup {Earlier, None}, user : Users \cup {None}]
      /\ (package' = package \/ package'.rev > package.rev)
  <2>1. Row(a) \in [rev : Nat, digest : Attempt \cup {Earlier, None}, user : Users \cup {None}]
    BY <1>2 DEF Row, Setup
  <2>. QED
    BY <1>2, <2>1 DEF Types
<1>4. Types'
  BY <1>1, <1>3 DEF Types
<1>5. \A b \in Attempt : Named(b)' = Named(b)
  BY DEF Named
<1>6. ASSUME NEW b \in Attempt, NEW j \in 1..2, UploadAt(b, j, "stored")',
             ~\E i \in 1..2 : UploadAt(b, i, "stored")
      PROVE  b = a /\ r.pc = "stored"
  <2>1. <<b, j>> = <<a, k>>
    BY <1>1, <1>6 DEF UploadAt
  <2>. QED
    BY <1>1, <1>6, <2>1 DEF UploadAt
<1>7. Claimed' \subseteq Claimed \cup (IF r.pc = "stored" THEN {Current} ELSE {})
  BY <1>5, <1>6 DEF Claimed
<1>8. ClaimsHold'
  <2>1. CASE package' = package
    BY <1>7, <2>1, ClaimNow
  <2>2. CASE package'.rev = package.rev + 1 /\ r.pc # "stored"
    <3>1. \A x \in Claimed : x.rev \in Nat
      BY ClaimedTypes DEF Object
    <3>2. Claimed' \subseteq Claimed
      BY <1>7, <2>2
    <3>. QED
      BY <2>2, <3>1, <3>2, ClaimLater
  <2>. QED
    BY <2>1, <2>2
<1>9. ASSUME NEW b \in Attempt, NEW j \in 1..2 PROVE UploadHolds(b, j)'
  <2>1. CASE <<b, j>> = <<a, k>>
    BY <2>1
  <2>2. CASE <<b, j>> # <<a, k>>
    <3>1. upload'[b][j] = upload[b][j]
      BY <1>1, <2>2
    <3>2. Named(b) \in blobs => Named(b) \in blobs' \/ package'.rev >= setup[b].rev
      <4>1. b # a => Named(b) # Named(a)
        BY Fields
      <4>. QED
        BY <4>1
    <3>3. package'.rev \in Nat
      BY <1>3
    <3>. QED
      BY <1>3, <3>1, <3>2, <3>3, OthersHold
  <2>. QED
    BY <2>1, <2>2
<1>. QED
  BY <1>4, <1>8, <1>9

\* writeRecoveryPackageResponse.
LEMMA UploadKeeps ==
  ASSUME RecoveryConstants, RecoveryInv, NEW a \in Attempt, NEW k \in 1..2, UploadStep(a, k)
  PROVE  RecoveryInv'
<1>. USE DEF RecoveryInv
<1>1. /\ UNCHANGED <<owner, pending, setup, known>> /\ Named(a)' = Named(a) /\ Row(a)' = Row(a)
      /\ setup[a] \in Setup /\ setup[a].rev \in Nat /\ package.rev \in Nat
      /\ upload[a][k] \in Upload /\ upload[a][k].seen \in Nat /\ UploadHolds(a, k)
  BY DEF Types, Setup, Upload, UploadStep, Delivered, ReadsCurrent, PutsObject,
     ComparesObject, AdvanceRecoveryPackage, ReadsPersisted, DeletesObject, binding, Named, Row
<1>2. ASSUME NEW pc \in UploadStates, Moves(a, k, pc)
      PROVE  \E r \in Upload : /\ r.pc = pc /\ r.seen = upload[a][k].seen
                               /\ upload'[a][k].pc = pc /\ upload'[a][k].seen = r.seen
  <2>1. PICK r \in Upload : r.pc = pc /\ r.seen = upload[a][k].seen
    <3>1. [pc |-> pc, seen |-> upload[a][k].seen] \in Upload
      BY <1>1 DEF Upload
    <3>. QED
      BY <3>1
  <2>. QED
    BY <1>2, <2>1, UploadMoves
<1>3. ASSUME UNCHANGED <<package, blobs>> PROVE RowHolds' /\ blobs' \in SUBSET Object
  BY <1>1, <1>3 DEF RowHolds, Types, Row, Current, NoPackage
<1>4. CASE Delivered(a, k)
  <2>1. /\ UNCHANGED <<package, blobs>> /\ Moves(a, k, "read")
        /\ setup[a].rev > 0 /\ setup[a].pc # "idle"
    BY <1>4 DEF Delivered
  <2>2. PICK r \in Upload : /\ r.pc = "read" /\ r.seen = upload[a][k].seen
                            /\ upload'[a][k].pc = "read"
    BY <1>2, <2>1 DEF UploadStates
  <2>3. UploadHolds(a, k)'
    BY <1>1, <2>1, <2>2 DEF UploadHolds, UploadAt
  <2>. QED
    BY <1>1, <1>3, <2>1, <2>2, <2>3, DeliveryKeeps
<1>5. CASE ReadsCurrent(a, k)
  <2>1. PICK r : /\ upload' = [upload EXCEPT ![a][k] = r]
                 /\ r = [seen |-> package.rev,
                         pc |-> IF owner # setup[a].user THEN "conflict"
                                ELSE IF package = Row(a) THEN "stored"
                                ELSE IF setup[a].rev # package.rev + 1 THEN "conflict"
                                ELSE "put"]
    BY Zenon, <1>5 DEF ReadsCurrent
  <2>2. /\ r \in Upload /\ r.seen = package.rev /\ r.pc \in {"conflict", "stored", "put"}
        /\ r.pc = "stored" => package = Row(a)
        /\ r.pc = "put" => owner = setup[a].user /\ setup[a].rev = package.rev + 1
    BY <1>1, <2>1 DEF Upload, UploadStates
  <2>3. UNCHANGED <<package, blobs>> /\ UploadAt(a, k, "read")
    BY <1>5 DEF ReadsCurrent
  <2>4. upload'[a][k].pc = r.pc /\ upload'[a][k].seen = r.seen
    BY ZenonT(60), <2>1, <2>2, UploadMoves
  <2>5. setup[a].pc # "idle" /\ setup[a].rev > 0 /\ setup[a].user \in Users
    BY <1>1, <2>3 DEF UploadHolds, UploadAt
  <2>6. UploadHolds(a, k)'
    BY <1>1, <2>2, <2>3, <2>4, <2>5 DEF UploadHolds, UploadAt, RecoveryConstants
  <2>7. r.pc = "stored" => Named(a) = Current
    BY <2>2, Fields DEF Named, Current
  <2>. QED
    BY Zenon, <1>1, <1>3, <2>1, <2>2, <2>3, <2>6, <2>7, DeliveryKeeps
<1>6. CASE PutsObject(a, k)
  <2>1. /\ package' = package /\ blobs' = blobs \cup {Named(a)} /\ UploadAt(a, k, "put")
        /\ \E pc \in {"compare", "advance"} : Moves(a, k, pc)
    BY <1>6 DEF PutsObject
  <2>0. PICK pc \in {"compare", "advance"} : Moves(a, k, pc)
    BY <2>1
  <2>2. PICK r \in Upload : /\ r.pc = pc /\ r.seen = upload[a][k].seen
                            /\ upload'[a][k].pc = pc /\ upload'[a][k].seen = r.seen
    BY <1>2, <2>0 DEF UploadStates
  <2>3. UploadHolds(a, k)'
    BY <1>1, <2>1, <2>2 DEF UploadHolds, UploadAt
  <2>4. Named(a) \in Object
    BY <1>1 DEF Named, Object
  <2>5. RowHolds' /\ blobs' \in SUBSET Object
    BY <1>1, <2>1, <2>4 DEF RowHolds, Types, Row, Current, NoPackage
  <2>. QED
    BY <1>1, <2>0, <2>1, <2>2, <2>3, <2>5, DeliveryKeeps
<1>10. CASE ComparesObject(a, k)
  <2>1. /\ UNCHANGED <<package, blobs>> /\ UploadAt(a, k, "compare")
        /\ Moves(a, k, IF Named(a) \in blobs THEN "advance" ELSE "conflict")
    BY <1>10 DEF ComparesObject
  <2>2. PICK pc \in {"advance", "conflict"} :
          Moves(a, k, pc) /\ (pc = "advance" => Named(a) \in blobs)
    BY <2>1
  <2>3. PICK r \in Upload : /\ r.pc = pc /\ r.seen = upload[a][k].seen
                            /\ upload'[a][k].pc = pc /\ upload'[a][k].seen = r.seen
    BY <1>2, <2>2 DEF UploadStates
  <2>4. UploadHolds(a, k)'
    BY <1>1, <2>1, <2>2, <2>3 DEF UploadHolds, UploadAt
  <2>. QED
    BY <1>1, <1>3, <2>1, <2>2, <2>3, <2>4, DeliveryKeeps
<1>7. CASE AdvanceRecoveryPackage(a, k)
  <2>1. blobs' = blobs /\ Moves(a, k, "verify") /\ UploadAt(a, k, "advance")
    BY <1>7 DEF AdvanceRecoveryPackage
  <2>2. PICK r \in Upload : /\ r.pc = "verify" /\ r.seen = upload[a][k].seen
                            /\ upload'[a][k].pc = "verify"
    BY <1>2, <2>1 DEF UploadStates
  <2>3. /\ setup[a].rev = upload[a][k].seen + 1 /\ upload[a][k].seen <= package.rev
        /\ owner = setup[a].user /\ owner # None /\ setup[a].pc # "idle" /\ setup[a].rev > 0
        /\ Named(a) \in blobs \/ package.rev >= setup[a].rev
    BY <1>1, <2>1 DEF UploadHolds, UploadAt
  <2>4. CASE package.rev = upload[a][k].seen
    <3>1. package' = Row(a)
      BY <1>1, <1>7, <2>3, <2>4 DEF AdvanceRecoveryPackage, RowHolds
    <3>2. /\ package'.rev = setup[a].rev /\ package'.digest = a
          /\ package'.user = setup[a].user /\ package'.rev = package.rev + 1
      BY <2>3, <2>4, <3>1, Fields
    <3>3. Named(a) \in blobs /\ Current' = Named(a)
      BY <1>1, <2>3, <2>4, <3>2 DEF Current, Named
    <3>4. RowHolds'
      BY <1>1, <2>1, <2>3, <3>1, <3>2, <3>3 DEF RowHolds
    <3>5. UploadHolds(a, k)'
      BY <1>1, <2>2, <2>3, <3>2 DEF UploadHolds, UploadAt
    <3>. QED
      BY <1>1, <2>1, <2>2, <3>1, <3>2, <3>4, <3>5, DeliveryKeeps DEF Types
  <2>5. CASE package.rev # upload[a][k].seen
    <3>1. package' = package /\ package.rev >= setup[a].rev
      BY <1>1, <1>7, <2>3, <2>5 DEF AdvanceRecoveryPackage
    <3>2. UploadHolds(a, k)'
      BY <1>1, <2>2, <2>3, <3>1 DEF UploadHolds, UploadAt
    <3>. QED
      BY <1>1, <1>3, <2>1, <2>2, <3>1, <3>2, DeliveryKeeps
  <2>. QED
    BY <2>4, <2>5
<1>8. CASE ReadsPersisted(a, k)
  <2>1. /\ UNCHANGED <<package, blobs>> /\ UploadAt(a, k, "verify")
        /\ Moves(a, k, IF Persisted(a) THEN "stored" ELSE "delete")
    BY <1>8 DEF ReadsPersisted
  <2>2. Persisted(a) <=> Current = Named(a)
    <3>1. Current = Named(a) <=> package.rev = setup[a].rev /\ package.digest = a
      BY DEF Current, Named
    <3>2. package.digest = a => package.user = setup[a].user
      BY Fields DEF RowHolds
    <3>. QED
      BY <3>1, <3>2 DEF Persisted, PersistedRevision
  <2>3. PICK pc \in {"stored", "delete"} :
          Moves(a, k, pc) /\ (pc = "stored" <=> Current = Named(a))
    BY <2>1, <2>2
  <2>4. PICK r \in Upload : /\ r.pc = pc /\ r.seen = upload[a][k].seen
                            /\ upload'[a][k].pc = pc
    BY <1>2, <2>3 DEF UploadStates
  <2>5. Current' = Current
    BY <2>1 DEF Current
  <2>6. UploadHolds(a, k)'
    BY <1>1, <2>1, <2>3, <2>4, <2>5 DEF UploadHolds, UploadAt
  <2>. QED
    BY <1>1, <1>3, <2>1, <2>3, <2>4, <2>6, DeliveryKeeps
<1>9. CASE DeletesObject(a, k)
  <2>1. /\ package' = package /\ blobs' = blobs \ {Named(a)} /\ Moves(a, k, "conflict")
        /\ UploadAt(a, k, "delete")
    BY ZenonT(60), <1>9 DEF DeletesObject
  <2>2. PICK r \in Upload : /\ r.pc = "conflict" /\ r.seen = upload[a][k].seen
                            /\ upload'[a][k].pc = "conflict"
    BY ZenonT(60), <1>2, <2>1 DEF UploadStates
  <2>3. Current # Named(a) /\ package.rev >= setup[a].rev
    BY <1>1, <2>1 DEF UploadHolds, UploadAt
  <2>4. RowHolds' /\ blobs' \in SUBSET Object
    BY <1>1, <2>1, <2>3 DEF RowHolds, Types, Row, Current, NoPackage
  <2>5. UploadHolds(a, k)'
    BY <1>1, <2>1, <2>2 DEF UploadHolds, UploadAt
  <2>. QED
    BY <1>1, <2>1, <2>2, <2>3, <2>4, <2>5, DeliveryKeeps
<1>. QED
  BY <1>4, <1>5, <1>6, <1>7, <1>8, <1>9, <1>10 DEF UploadStep

\* bindCurrentAccount, the answer and the confirmation.
LEMMA AttemptKeeps ==
  ASSUME RecoveryConstants, RecoveryInv, NEW a \in Attempt, SetupStep(a)
  PROVE  RecoveryInv'
<1>. USE DEF RecoveryInv
<1>1. CASE \E u \in Users : SetupAccountSync(a, u)
  BY <1>1, SetupKeeps
<1>2. setup[a] \in Setup /\ owner \in Users \cup {None} /\ pending \in Nat /\ setup[a].rev \in Nat
  BY DEF Types, Setup
<1>3. ASSUME NEW pc \in SetupStates \ {"idle"}, NEW seen \in Nat, setup[a].pc # "idle",
             \/ SetupGoes(a, pc)
             \/ setup' = [setup EXCEPT ![a].pc = pc, ![a].seen = seen]
      PROVE  /\ setup' \in [Attempt -> Setup]
             /\ \A b \in Attempt : /\ setup'[b].rev = setup[b].rev
                                   /\ setup'[b].user = setup[b].user
                                   /\ setup'[b].pc = "idle" <=> setup[b].pc = "idle"
  <2>1. PICK r : /\ r = [setup[a] EXCEPT !.pc = pc] \/ r = [setup[a] EXCEPT !.pc = pc, !.seen = seen]
                 /\ setup' = [setup EXCEPT ![a] = r]
    BY <1>3 DEF SetupGoes
  <2>2. r \in Setup /\ r.rev = setup[a].rev /\ r.user = setup[a].user /\ r.pc = pc
    BY Zenon, <1>2, <2>1 DEF Setup
  <2>. QED
    BY <1>3, <2>1, <2>2 DEF Types
<1>4. ASSUME ~\E u \in Users : SetupAccountSync(a, u)
      PROVE  /\ UNCHANGED <<package, blobs, upload>> /\ pending' \in Nat
             /\ owner' = owner \/ (owner = None /\ owner' \in Users)
             /\ setup[a].pc # "idle"
             /\ \E pc \in SetupStates \ {"idle"}, seen \in Nat :
                  SetupGoes(a, pc) \/ setup' = [setup EXCEPT ![a].pc = pc, ![a].seen = seen]
             /\ \/ known' = known
                \/ known' = known \cup {Named(a)} /\ (Named(a) \in Claimed \/ package = Row(a))
  <2>. USE DEF server, binding
  <2>1. CASE \/ CreateBindingChallenge(a) \/ BindAccount(a) \/ ConsumeBindingChallenge(a)
             \/ Encrypts(a) \/ SetupFails(a) \/ AnswerLost(a) \/ ConfirmBegins(a)
    BY Zenon, <1>2, <2>1 DEF CreateBindingChallenge, BindAccount, ConsumeBindingChallenge, Encrypts,
       SetupFails, AnswerLost, ConfirmBegins, AfterBinding, SetupStates
  <2>2. CASE InsertAccountBinding(a)
    BY <1>2, <2>2 DEF InsertAccountBinding, SetupStates
  <2>3. CASE Answered(a)
    BY <1>2, <2>3 DEF Answered, SetupStates, Claimed
  <2>4. CASE ConfirmAccountSyncRecoveryCode(a)
    BY <1>2, <2>4 DEF ConfirmAccountSyncRecoveryCode, SetupStates
  <2>. QED
    BY Zenon, <1>4, <2>1, <2>2, <2>3, <2>4 DEF SetupStep
<1>5. CASE ~\E u \in Users : SetupAccountSync(a, u)
  <2>1. PICK pc \in SetupStates \ {"idle"}, seen \in Nat :
          SetupGoes(a, pc) \/ setup' = [setup EXCEPT ![a].pc = pc, ![a].seen = seen]
    BY <1>4, <1>5
  <2>2. /\ setup' \in [Attempt -> Setup]
        /\ \A b \in Attempt : /\ setup'[b].rev = setup[b].rev
                              /\ setup'[b].user = setup[b].user
                              /\ setup'[b].pc = "idle" <=> setup[b].pc = "idle"
    BY <1>3, <1>4, <1>5, <2>1
  <2>3. /\ UNCHANGED <<package, blobs, upload>> /\ pending' \in Nat
        /\ owner' = owner \/ (owner = None /\ owner' \in Users)
        /\ \/ known' = known
           \/ known' = known \cup {Named(a)} /\ (Named(a) \in Claimed \/ package = Row(a))
    BY <1>4, <1>5
  <2> HIDE DEF RecoveryInv
  <2>. QED
    BY <2>2, <2>3, BrowserKeeps
<1>. QED
  BY <1>1, <1>5

\* Nothing is stored, or another browser's first package is.
LEMMA InitHolds == RecoveryConstants /\ RecoveryInit => RecoveryInv
<1>. SUFFICES ASSUME RecoveryConstants, RecoveryInit PROVE RecoveryInv
  OBVIOUS
<1>1. /\ \A a \in Attempt : setup[a] = NotStarted
      /\ \A a \in Attempt, k \in 1..2 : upload[a][k] = Unsent
      /\ known = blobs
      /\ \/ owner = None /\ package = NoPackage /\ blobs = {}
         \/ /\ owner \in Users /\ package = [rev |-> 1, digest |-> Earlier, user |-> owner]
            /\ blobs = {[rev |-> 1, digest |-> Earlier]}
  BY DEF RecoveryInit
<1>2. Types
  <2>1. NotStarted \in Setup /\ Unsent \in Upload
    BY DEF NotStarted, Unsent, Setup, Upload, SetupStates, UploadStates
  <2>. QED
    BY <2>1 DEF RecoveryInit, Types, NoPackage, Object
<1>3. \A a \in Attempt, k \in 1..2 : setup[a].pc = "idle" /\ upload[a][k].pc = "unsent"
  BY <1>1 DEF NotStarted, Unsent
<1>4. \A a \in Attempt, k \in 1..2 : UploadHolds(a, k)
  BY <1>3 DEF UploadHolds, UploadAt
<1>5. RowHolds
  BY <1>1, <1>3 DEF RowHolds, NoPackage, Current, RecoveryConstants
<1>6. Claimed = known
  BY <1>3 DEF Claimed, UploadAt
<1>7. ClaimsHold
  BY <1>1, <1>6 DEF ClaimsHold, Current
<1>. QED
  BY <1>2, <1>3, <1>4, <1>5, <1>7 DEF RecoveryInv

\* Every step keeps the invariant.
LEMMA NextHolds == RecoveryConstants /\ RecoveryInv /\ [RecoveryNext]_recoveryVars => RecoveryInv'
<1>. SUFFICES ASSUME RecoveryConstants, RecoveryInv, [RecoveryNext]_recoveryVars PROVE RecoveryInv'
  OBVIOUS
<1>1. CASE UNCHANGED recoveryVars
  BY <1>1 DEF recoveryVars, RecoveryInv, Types, RowHolds, ClaimsHold, Claimed, UploadHolds, UploadAt,
     Named, Row, Current, NoPackage
<1>2. CASE RecoveryNext
  BY <1>2, AttemptKeeps, UploadKeeps DEF RecoveryNext
<1>. QED
  BY <1>1, <1>2

\* The invariant holds in every behaviour.
THEOREM RecoveryInvariance ==
  ASSUME RecoveryConstants PROVE RecoverySpec => []RecoveryInv
<1>1. RecoveryInit => RecoveryInv
  BY InitHolds
<1>2. RecoveryInv /\ [RecoveryNext]_recoveryVars => RecoveryInv'
  BY NextHolds
<1>. QED
  BY <1>1, <1>2, PTL DEF RecoverySpec

\* Whatever attempts race, answers are lost or requests come twice, the row
\* never goes back or changes under a revision somebody was told of, and the
\* object it names is there (recovery/service.ts, advanceRecoveryPackage).
THEOREM CodesOpenTheAccount ==
  ASSUME RecoveryConstants PROVE RecoverySpec => []CodeOpensTheAccount
<1>1. RecoveryInv => CodeOpensTheAccount
  <2>. SUFFICES ASSUME RecoveryInv PROVE CodeOpensTheAccount
    OBVIOUS
  <2>1. known \subseteq Claimed /\ package.rev \in Nat
    BY DEF RecoveryInv, Types, Claimed
  <2>2. \A x \in known : x = Current => package.digest = x.digest
    BY Fields
  <2>. QED
    BY <2>1, <2>2 DEF RecoveryInv, ClaimsHold, RowHolds, CodeOpensTheAccount
<1>. QED
  BY <1>1, RecoveryInvariance, PTL

-----------------------------------------------------------------------------
(***************************************************************************)
(* Resolving conflicts.                                                    *)
(*                                                                         *)
(* For any number of tabs and calls: what a browser replaces at the remote *)
(* is what its user was shown. The invariant carries the conflict record,  *)
(* and the revision that was compared with it, across the awaits of a      *)
(* resolution.                                                             *)
(***************************************************************************)

\* The shapes of the state.
Shown == [local : Nat, remote : Nat]
Kinds == {"none", "publish", "start", "accept-local", "accept-remote"}
Resolving == {"accept-local", "read local", "put", "refresh", "accept-remote", "put local",
              "resolved"}
Loading == {"conflicts", "conflicts read", "queue", "queue read", "enqueue", "target"}
LoopSteps == {"idle", "take", "local", "remote", "create", "compete", "persist"}

Conflicts == Shown \cup {None}
StoreStates == [queued : BOOLEAN, queueRead : BOOLEAN, conflict : Conflicts,
                conflictRead : BOOLEAN]
LoopStates == [pc : LoopSteps, local : Nat]
RequestStates == [pc : {"idle"} \cup Loading \cup Resolving, kind : Kinds,
                  at : Window \cup {None}, read : Conflicts, entries : BOOLEAN,
                  target : Conflicts, latest : Nat, local : Nat]

DropTypeOK ==
    /\ local \in Nat /\ remote \in Nat /\ seals \in Nat
    /\ disk \in [queued : BOOLEAN, conflict : Conflicts]
    /\ store \in [Window -> StoreStates]
    /\ loop \in [Window -> LoopStates]
    /\ request \in [Call -> RequestStates]

(* What a call carries across its awaits: where it runs, and once it has   *)
(* taken a conflict, that record; the revision an accept-local read is the *)
(* one its record shows, or there was none.                                *)
Sensible(q) ==
    /\ q.pc # "idle" => q.at \in Window
    /\ q.pc \in {"conflicts", "conflicts read"} => q.kind # "none"
    /\ q.pc = "target" => q.kind \in {"accept-local", "accept-remote"}
    /\ q.pc \in Resolving => q.target \in Shown
    /\ q.pc \in {"read local", "put"} => q.latest \in {0, q.target.remote}

ResolvesItsRecord == \A c \in Call : Sensible(request[c])

\* The inductive invariant.
DropInv == DropTypeOK /\ ResolvesItsRecord

\* It holds initially.
LEMMA DropInitInv == DropInit => DropInv
<1>. SUFFICES ASSUME DropInit PROVE DropInv
  OBVIOUS
<1>1. None \in Conflicts BY DEF Conflicts
<1>2. NoCall \in RequestStates
  BY <1>1 DEF NoCall, RequestStates, Kinds
<1>3. Fresh \in StoreStates
  BY <1>1 DEF Fresh, StoreStates
<1>4. Resting \in LoopStates
  BY DEF Resting, LoopStates, LoopSteps
<1>5. DropTypeOK
  BY <1>1, <1>2, <1>3, <1>4 DEF DropInit, DropTypeOK
<1>6. ResolvesItsRecord
  BY Zenon DEF DropInit, ResolvesItsRecord, Sensible, NoCall, Resolving
<1>. QED BY <1>5, <1>6 DEF DropInv

\* A call that moves, and one that ends.
LEMMA RequestMoves ==
  ASSUME DropInv, NEW c \in Call, NEW q \in RequestStates, Sensible(q),
         request' = [request EXCEPT ![c] = q]
  PROVE  request' \in [Call -> RequestStates] /\ ResolvesItsRecord'
<1>1. request \in [Call -> RequestStates] /\ \A d \in Call : Sensible(request[d])
  BY DEF DropInv, DropTypeOK, ResolvesItsRecord
<1>2. request' \in [Call -> RequestStates]
      /\ \A d \in Call : request'[d] = IF d = c THEN q ELSE request[d]
  BY <1>1
<1>3. \A d \in Call : Sensible(request'[d])
  BY <1>1, <1>2
<1>4. ResolvesItsRecord' <=> \A d \in Call : Sensible(request'[d])
  BY Zenon DEF ResolvesItsRecord, Sensible
<1>. QED BY <1>2, <1>3, <1>4

LEMMA RequestEnds ==
  ASSUME DropInv, NEW c \in Call, Settles(c)
  PROVE  request' \in [Call -> RequestStates] /\ ResolvesItsRecord'
<1>1. NoCall \in RequestStates
  BY DEF NoCall, RequestStates, Kinds, Conflicts
<1>2. Sensible(NoCall)
  BY DEF Sensible, NoCall, Resolving
<1>. QED BY ZenonT(60), <1>1, <1>2, RequestMoves DEF Settles

\* One lemma per operation, for the steps of a resolution, the upload loop and
\* a reload.
LEMMA OperationKeeps ==
  ASSUME DropInv, NEW c \in Call, NEW p \in Window, Operation(c, p)
  PROVE  DropInv'
<1>1. PICK kind \in Kinds \ {"none"} : Opens(c, p, kind)
  BY DEF Operation, CreateDrop, SyncDropToRemote, StartPublication, ResolveSyncConflict, Kinds
<1>2. local' \in Nat /\ seals' \in Nat
  BY DEF DropInv, DropTypeOK, Operation, CreateDrop, SyncDropToRemote, StartPublication,
         ResolveSyncConflict, Seals
<1>. DEFINE q == [NoCall EXCEPT !.pc = "conflicts", !.kind = kind, !.at = p]
<1>3. q \in RequestStates
  BY Zenon DEF NoCall, RequestStates, Kinds, Conflicts, Loading
<1>4. Sensible(q)
  BY <1>1 DEF Sensible, NoCall, Resolving, Kinds
<1>5. request' \in [Call -> RequestStates] /\ ResolvesItsRecord'
  BY ZenonT(60), <1>1, <1>3, <1>4, RequestMoves DEF Opens
<1>6. UNCHANGED <<disk, store, loop, remote>>
  BY <1>1 DEF Opens
<1>. QED BY <1>2, <1>5, <1>6 DEF DropInv, DropTypeOK

\* Everything but the call itself keeps its type, whatever a call does.
LEMMA LoadKeeps ==
  ASSUME DropInv, NEW c \in Call,
         HydrateSyncConflicts(c) \/ ConflictsHydrated(c) \/ HydrateSyncQueue(c)
         \/ QueueHydrated(c) \/ EnqueuePublishIntent(c) \/ ResolveTargets(c)
  PROVE  DropInv'
<1>. DEFINE r == request[c]
            p == r.at
<1>1. /\ r \in RequestStates /\ Sensible(r) /\ r.pc # "idle" /\ p \in Window
      /\ DOMAIN request = Call
  BY Zenon DEF DropInv, DropTypeOK, ResolvesItsRecord, Sensible, Stage, HydrateSyncConflicts,
         ConflictsHydrated, HydrateSyncQueue, QueueHydrated, EnqueuePublishIntent, ResolveTargets
<1>2. /\ disk \in [queued : BOOLEAN, conflict : Conflicts] /\ store[p] \in StoreStates
      /\ store \in [Window -> StoreStates] /\ loop \in [Window -> LoopStates]
      /\ local \in Nat /\ remote \in Nat /\ seals \in Nat
  BY <1>1 DEF DropInv, DropTypeOK
<1>. DEFINE Rest0 == /\ UNCHANGED <<local, remote, seals>>
                    /\ disk' \in [queued : BOOLEAN, conflict : Conflicts]
                    /\ store' \in [Window -> StoreStates] /\ loop' \in [Window -> LoopStates]
            Mine == request' \in [Call -> RequestStates] /\ ResolvesItsRecord'
<1>3. CASE HydrateSyncConflicts(c)
  <2>1. PICK q \in {[r EXCEPT !.pc = AfterConflicts(c)],
                    [r EXCEPT !.pc = "conflicts read", !.read = disk.conflict]} :
          request' = [request EXCEPT ![c] = q]
    BY Zenon, <1>1, <1>3 DEF HydrateSyncConflicts, Turns
  <2>2. q \in RequestStates /\ Sensible(q)
    BY ZenonT(60), <1>1, <1>2, <1>3, <2>1
    DEF HydrateSyncConflicts, AfterConflicts, Stage, RequestStates, Sensible, Resolving, Loading,
        Kinds
  <2>3. Mine BY Zenon, <2>1, <2>2, RequestMoves
  <2>4. Rest0 BY ZenonT(60), <1>2, <1>3 DEF HydrateSyncConflicts
  <2>. QED BY <1>2, <2>3, <2>4 DEF DropInv, DropTypeOK
<1>4. CASE ConflictsHydrated(c)
  <2>. DEFINE q == [r EXCEPT !.pc = AfterConflicts(c), !.read = None]
  <2>1. request' = [request EXCEPT ![c] = q]
    BY Zenon, <1>1, <1>4 DEF ConflictsHydrated
  <2>2. q \in RequestStates /\ Sensible(q)
    BY Zenon, <1>1, <1>4
    DEF ConflictsHydrated, AfterConflicts, Stage, RequestStates, Sensible, Resolving, Loading,
        Kinds, Conflicts
  <2>3. Mine BY Zenon, <2>1, <2>2, RequestMoves
  <2>4. store' \in [Window -> StoreStates]
    BY Zenon, <1>1, <1>2, <1>4 DEF ConflictsHydrated, StoreStates, RequestStates
  <2>5. Rest0 BY Zenon, <1>2, <1>4, <2>4 DEF ConflictsHydrated
  <2>. QED BY <1>2, <2>3, <2>5 DEF DropInv, DropTypeOK
<1>5. CASE HydrateSyncQueue(c)
  <2>1. PICK q \in {[r EXCEPT !.pc = "enqueue"],
                    [r EXCEPT !.pc = "queue read", !.entries = disk.queued]} :
          request' = [request EXCEPT ![c] = q]
    BY Zenon, <1>1, <1>5 DEF HydrateSyncQueue, Turns
  <2>2. q \in RequestStates /\ Sensible(q)
    BY ZenonT(60), <1>1, <1>2, <1>5, <2>1
    DEF HydrateSyncQueue, Stage, RequestStates, Sensible, Resolving, Loading
  <2>3. Mine BY Zenon, <2>1, <2>2, RequestMoves
  <2>4. Rest0 BY Zenon, <1>2, <1>5 DEF HydrateSyncQueue
  <2>. QED BY <1>2, <2>3, <2>4 DEF DropInv, DropTypeOK
<1>6. CASE QueueHydrated(c)
  <2>. DEFINE q == [r EXCEPT !.pc = "enqueue"]
  <2>1. request' = [request EXCEPT ![c] = q]
    BY Zenon, <1>1, <1>6 DEF QueueHydrated, Turns
  <2>2. q \in RequestStates /\ Sensible(q)
    BY Zenon, <1>1, <1>6 DEF QueueHydrated, Stage, RequestStates, Sensible, Resolving, Loading
  <2>3. Mine BY Zenon, <2>1, <2>2, RequestMoves
  <2>4. store' \in [Window -> StoreStates]
    BY Zenon, <1>1, <1>2, <1>6 DEF QueueHydrated, StoreStates, RequestStates
  <2>5. Rest0 BY Zenon, <1>2, <1>6, <2>4 DEF QueueHydrated
  <2>. QED BY <1>2, <2>3, <2>5 DEF DropInv, DropTypeOK
<1>7. CASE EnqueuePublishIntent(c)
  <2>1. Mine BY <1>7, RequestEnds DEF EnqueuePublishIntent
  <2>2. /\ store' = store \/ store' = [store EXCEPT ![p].queued = TRUE]
        /\ disk' = disk \/ disk' = [disk EXCEPT !.queued = TRUE]
        /\ loop' = loop \/ loop' = [loop EXCEPT ![p].pc = "take"]
        /\ UNCHANGED <<local, remote, seals>>
    BY <1>7 DEF EnqueuePublishIntent, Running
  <2>3. store' \in [Window -> StoreStates]
    BY ZenonT(60), <1>1, <1>2, <2>2 DEF StoreStates
  <2>4. loop' \in [Window -> LoopStates] /\ disk' \in [queued : BOOLEAN, conflict : Conflicts]
    <3>1. disk' \in [queued : BOOLEAN, conflict : Conflicts] BY Zenon, <1>2, <2>2
    <3>2. loop[p] \in LoopStates /\ "take" \in LoopSteps BY Zenon, <1>1, <1>2 DEF LoopSteps
    <3>3. [loop[p] EXCEPT !.pc = "take"] \in LoopStates BY <3>2 DEF LoopStates
    <3>. QED BY <1>1, <1>2, <2>2, <3>1, <3>3
  <2>. QED BY <1>2, <2>1, <2>2, <2>3, <2>4 DEF DropInv, DropTypeOK
<1>8. CASE ResolveTargets(c)
  <2>1. Mine
    <3>1. CASE store[p].conflict = None
      BY <1>8, <3>1, RequestEnds DEF ResolveTargets
    <3>2. CASE store[p].conflict # None
      <4>. DEFINE q == [r EXCEPT !.target = store[p].conflict, !.pc = r.kind]
      <4>1. request' = [request EXCEPT ![c] = q]
        BY Zenon, <1>1, <1>8, <3>2 DEF ResolveTargets
      <4>2. store[p].conflict \in Shown
        BY <1>2, <3>2 DEF StoreStates, Conflicts
      <4>3. r.kind \in {"accept-local", "accept-remote"}
        BY <1>1, <1>8 DEF ResolveTargets, Stage, Sensible
      <4>4. q \in RequestStates /\ Sensible(q)
        BY Zenon, <1>1, <4>2, <4>3 DEF RequestStates, Sensible, Resolving, Conflicts
      <4>. QED BY Zenon, <4>1, <4>4, RequestMoves
    <3>. QED BY <3>1, <3>2
  <2>2. Rest0 BY <1>2, <1>8 DEF ResolveTargets
  <2>. QED BY <1>2, <2>1, <2>2 DEF DropInv, DropTypeOK
<1>. QED BY <1>3, <1>4, <1>5, <1>6, <1>7, <1>8

LEMMA ResolveKeeps ==
  ASSUME DropInv, NEW c \in Call,
         AcceptReadsRemote(c) \/ AcceptReadsLocal(c) \/ AcceptPuts(c) \/ AcceptRefreshes(c)
         \/ AcceptReadsLatest(c) \/ AcceptPutsLocal(c) \/ AcceptEnds(c)
  PROVE  DropInv'
<1>. DEFINE r == request[c]
            p == r.at
<1>1. /\ r \in RequestStates /\ Sensible(r) /\ r.pc \in Resolving /\ p \in Window
      /\ r.target \in Shown /\ DOMAIN request = Call
  BY ZenonT(60) DEF DropInv, DropTypeOK, ResolvesItsRecord, Sensible, Stage, Resolving, AcceptReadsRemote,
         AcceptReadsLocal, AcceptPuts, AcceptRefreshes, AcceptReadsLatest, AcceptPutsLocal,
         AcceptEnds
<1>2. /\ disk \in [queued : BOOLEAN, conflict : Conflicts] /\ store[p] \in StoreStates
      /\ store \in [Window -> StoreStates] /\ loop \in [Window -> LoopStates]
      /\ local \in Nat /\ remote \in Nat /\ seals \in Nat
  BY <1>1 DEF DropInv, DropTypeOK
<1>. DEFINE Rest0 == /\ local' \in Nat /\ remote' \in Nat /\ seals' \in Nat
                    /\ disk' \in [queued : BOOLEAN, conflict : Conflicts]
                    /\ store' \in [Window -> StoreStates] /\ loop' \in [Window -> LoopStates]
            Mine == request' \in [Call -> RequestStates] /\ ResolvesItsRecord'
<1>3. ASSUME NEW record \in Conflicts, Shows(c, record), UNCHANGED <<local, remote, seals, loop>>
      PROVE  Rest0 /\ Mine
  <2>1. Mine BY <1>3, RequestEnds DEF Shows
  <2>2. Rest0 BY <1>1, <1>2, <1>3 DEF Shows, StoreStates
  <2>. QED BY <2>1, <2>2
<1>4. CASE Settles(c) /\ UNCHANGED <<local, seals, disk, store, loop>> /\ remote' \in Nat
  BY <1>2, <1>4, RequestEnds DEF DropInv, DropTypeOK
<1>5. ASSUME NEW q \in RequestStates, Sensible(q), request' = [request EXCEPT ![c] = q], Rest0
      PROVE  DropInv'
  BY Zenon, <1>5, RequestMoves DEF DropInv, DropTypeOK
<1>6. CASE AcceptReadsRemote(c)
  <2>1. CASE remote \notin {0, r.target.remote}
    <3>1. [r.target EXCEPT !.remote = remote] \in Conflicts
      BY <1>1, <1>2 DEF Conflicts, Shown
    <3>. QED BY <1>3, <1>6, <2>1, <3>1 DEF AcceptReadsRemote, DropInv, DropTypeOK
  <2>2. CASE remote \in {0, r.target.remote}
    <3>. DEFINE q == [r EXCEPT !.latest = remote, !.pc = "read local"]
    <3>1. q \in RequestStates /\ Sensible(q)
      BY Zenon, <1>1, <1>2, <2>2 DEF RequestStates, Sensible, Resolving
    <3>2. request' = [request EXCEPT ![c] = q] /\ Rest0
      BY Zenon, <1>1, <1>2, <1>6, <2>2 DEF AcceptReadsRemote
    <3>. QED BY Zenon, <1>5, <3>1, <3>2
  <2>. QED BY Zenon, <2>1, <2>2
<1>7. CASE AcceptReadsLocal(c)
  <2>. DEFINE q == [r EXCEPT !.local = local, !.pc = "put"]
  <2>1. q \in RequestStates /\ Sensible(q)
    BY Zenon, <1>1, <1>2, <1>7 DEF AcceptReadsLocal, Stage, RequestStates, Sensible, Resolving
  <2>2. request' = [request EXCEPT ![c] = q] /\ Rest0
    BY Zenon, <1>1, <1>2, <1>7 DEF AcceptReadsLocal
  <2>. QED BY Zenon, <1>5, <2>1, <2>2
<1>8. CASE AcceptPuts(c)
  <2>1. remote' \in Nat
    BY <1>1, <1>2, <1>8 DEF AcceptPuts, RequestStates
  <2>2. CASE Settles(c)
    BY <1>4, <1>8, <2>1, <2>2 DEF AcceptPuts
  <2>3. ASSUME NEW pc \in {"resolved", "refresh"}, request' = [request EXCEPT ![c].pc = pc]
        PROVE  DropInv'
    <3>. DEFINE q == [r EXCEPT !.pc = pc]
    <3>1. q \in RequestStates /\ Sensible(q)
      BY Zenon, <1>1 DEF RequestStates, Sensible, Resolving
    <3>2. request' = [request EXCEPT ![c] = q] /\ Rest0
      BY <1>1, <1>2, <1>8, <2>1, <2>3 DEF AcceptPuts
    <3>. QED BY ZenonT(60), <1>5, <3>1, <3>2
  <2>. QED BY <1>8, <2>2, <2>3 DEF AcceptPuts, Turns
<1>9. CASE AcceptRefreshes(c)
  <2>1. CASE remote # 0
    <3>1. [r.target EXCEPT !.remote = remote] \in Conflicts
      BY <1>1, <1>2 DEF Conflicts, Shown
    <3>. QED BY <1>3, <1>9, <2>1, <3>1 DEF AcceptRefreshes, DropInv, DropTypeOK
  <2>2. CASE remote = 0
    BY <1>2, <1>4, <1>9, <2>2 DEF AcceptRefreshes
  <2>. QED BY <2>1, <2>2
<1>10. CASE AcceptReadsLatest(c)
  <2>1. CASE local # r.target.local
    <3>1. [r.target EXCEPT !.local = local] \in Conflicts
      BY <1>1, <1>2 DEF Conflicts, Shown
    <3>. QED BY <1>3, <1>10, <2>1, <3>1 DEF AcceptReadsLatest, DropInv, DropTypeOK
  <2>2. CASE local = r.target.local
    <3>. DEFINE q == [r EXCEPT !.pc = "put local"]
    <3>1. q \in RequestStates /\ Sensible(q)
      BY Zenon, <1>1 DEF RequestStates, Sensible, Resolving
    <3>2. request' = [request EXCEPT ![c] = q] /\ Rest0
      BY Zenon, <1>1, <1>2, <1>10, <2>2 DEF AcceptReadsLatest, Turns
    <3>. QED BY ZenonT(60), <1>5, <3>1, <3>2
  <2>. QED BY <2>1, <2>2
<1>11. CASE AcceptPutsLocal(c)
  <2>. DEFINE q == [r EXCEPT !.pc = "resolved"]
  <2>1. q \in RequestStates /\ Sensible(q)
    BY Zenon, <1>1 DEF RequestStates, Sensible, Resolving
  <2>2. request' = [request EXCEPT ![c] = q] /\ Rest0
    BY Zenon, <1>1, <1>2, <1>11 DEF AcceptPutsLocal, Turns, Shown
  <2>. QED BY ZenonT(60), <1>5, <2>1, <2>2
<1>12. CASE AcceptEnds(c)
  <2>1. None \in Conflicts BY DEF Conflicts
  <2>. QED BY <1>3, <1>12, <2>1 DEF AcceptEnds, DropInv, DropTypeOK
<1>. QED BY <1>6, <1>7, <1>8, <1>9, <1>10, <1>11, <1>12

LEMMA LoopKeeps ==
  ASSUME DropInv, NEW p \in Window, LoopStep(p)
  PROVE  DropInv'
<1>1. /\ disk \in [queued : BOOLEAN, conflict : Conflicts] /\ store \in [Window -> StoreStates]
      /\ store[p] \in StoreStates /\ loop \in [Window -> LoopStates] /\ loop[p] \in LoopStates
      /\ remote \in Nat /\ local \in Nat /\ seals \in Nat
  BY DEF DropInv, DropTypeOK
<1>2. UNCHANGED <<request, local>>
  BY DEF LoopStep, LoopTakes, LoopReadsLocal, LoopReadsRemote, LoopCreates,
         LoopReadsCompeting, LoopPersists, budget
<1>3. ResolvesItsRecord'
  BY Zenon, <1>2 DEF DropInv, ResolvesItsRecord, Sensible
<1>4. loop' \in [Window -> LoopStates]
  <2>1. PICK pc \in LoopSteps, n \in Nat :
          loop' = [loop EXCEPT ![p].pc = pc] \/ loop' = [loop EXCEPT ![p] = [pc |-> pc, local |-> n]]
    BY <1>1 DEF LoopStep, LoopTakes, LoopReadsLocal, LoopReadsRemote, LoopCreates,
       LoopReadsCompeting, LoopPersists, LoopMoves, Onward, Records, LoopSteps
  <2>. QED BY <1>1, <2>1 DEF LoopStates
<1>5. store' \in [Window -> StoreStates]
  <2>1. [local |-> loop[p].local, remote |-> remote] \in Conflicts
    BY <1>1 DEF Conflicts, Shown, LoopStates
  <2>2. \/ UNCHANGED store \/ store' = [store EXCEPT ![p].queued = FALSE]
        \/ store' = [store EXCEPT ![p].conflict = [local |-> loop[p].local, remote |-> remote]]
    BY DEF LoopStep, LoopTakes, LoopReadsLocal, LoopReadsRemote, LoopCreates,
       LoopReadsCompeting, LoopPersists, Records
  <2>. QED BY ZenonT(60), <1>1, <2>1, <2>2 DEF StoreStates
<1>6. disk' \in [queued : BOOLEAN, conflict : Conflicts]
  <2>1. \/ UNCHANGED disk \/ disk' = [disk EXCEPT !.queued = FALSE]
        \/ disk' = [disk EXCEPT !.conflict = store[p].conflict]
    BY DEF LoopStep, LoopTakes, LoopReadsLocal, LoopReadsRemote, LoopCreates,
       LoopReadsCompeting, LoopPersists
  <2>. QED BY Zenon, <1>1, <2>1 DEF StoreStates
<1>7. remote' \in Nat /\ seals' \in Nat
  BY <1>1 DEF LoopStep, LoopTakes, LoopReadsLocal, LoopReadsRemote, LoopCreates,
     LoopReadsCompeting, LoopPersists, Seals
<1>. QED BY <1>1, <1>2, <1>3, <1>4, <1>5, <1>6, <1>7 DEF DropInv, DropTypeOK

LEMMA ReloadKeeps ==
  ASSUME DropInv, NEW p \in Window, Reload(p)
  PROVE  DropInv'
<1>1. NoCall \in RequestStates /\ Fresh \in StoreStates /\ Resting \in LoopStates
  BY ZenonT(60) DEF NoCall, RequestStates, Kinds, Conflicts, Fresh, StoreStates, Resting, LoopStates,
         LoopSteps
<1>2. Sensible(NoCall)
  BY DEF Sensible, NoCall, Resolving
<1>3. DropTypeOK'
  BY <1>1 DEF DropInv, DropTypeOK, Reload
<1>4. \A c \in Call : Sensible(request'[c])
  BY <1>2 DEF DropInv, ResolvesItsRecord, Reload
<1>5. ResolvesItsRecord' <=> \A c \in Call : Sensible(request'[c])
  BY ZenonT(60) DEF ResolvesItsRecord, Sensible
<1>. QED BY <1>3, <1>4, <1>5 DEF DropInv

\* Every step keeps the invariant.
LEMMA DropStepInv == DropInv /\ [DropNext]_dropVars => DropInv'
<1>. SUFFICES ASSUME DropInv, [DropNext]_dropVars PROVE DropInv'
  OBVIOUS
<1>1. CASE UNCHANGED dropVars
  BY ZenonT(60), <1>1 DEF DropInv, DropTypeOK, ResolvesItsRecord, Sensible, dropVars
<1>2. CASE \E c \in Call : CallStep(c)
  BY <1>2, LoadKeeps, ResolveKeeps DEF CallStep
<1>3. CASE \E c \in Call, p \in Window : Operation(c, p)
  BY <1>3, OperationKeeps
<1>4. CASE \E p \in Window : LoopStep(p)
  BY <1>4, LoopKeeps
<1>5. CASE \E p \in Window : Reload(p)
  BY <1>5, ReloadKeeps
<1>6. CASE OtherBrowser
  <2>1. ResolvesItsRecord' BY ZenonT(60), <1>6 DEF OtherBrowser, DropInv, ResolvesItsRecord, Sensible
  <2>2. seals' \in Nat /\ remote' \in Nat
    BY <1>6 DEF OtherBrowser, Seals, DropInv, DropTypeOK
  <2>. QED BY <1>6, <2>1, <2>2 DEF OtherBrowser, DropInv, DropTypeOK
<1>. QED BY <1>1, <1>2, <1>3, <1>4, <1>5, <1>6 DEF DropNext

\* What the browser replaces at the remote is the envelope the resolved
\* conflict showed, whatever other calls, tabs, upload loops and devices do
\* between the awaits of a resolution; publishing alone replaces nothing
\* (drop-store.ts).
THEOREM OnlyShownIsReplaced == DropSpec => ReplacesWhatWasShown
<1>. DEFINE Replaces ==
       remote # 0 /\ remote' \notin {0, remote} /\ <<request, loop>>' # <<request, loop>>
         => \E c \in Call : /\ Stage(c, "put") /\ request'[c] # request[c]
                            /\ remote = request[c].target.remote
<1>1. ASSUME DropInv, DropNext PROVE Replaces
  <2>1. ASSUME NEW c \in Call, AcceptPuts(c) PROVE Replaces
    <3>1. CASE RevisionMatches(c)
      <4>1. remote = request[c].target.remote
        BY Zenon, <1>1, <2>1, <3>1 DEF AcceptPuts, RevisionMatches, ExpectedRevision, Stage, DropInv,
                               ResolvesItsRecord, Sensible
      <4>2. request'[c] # request[c] /\ Stage(c, "put")
        BY <1>1, <2>1, <3>1 DEF AcceptPuts, Settles, Turns, NoCall, Stage, DropInv, DropTypeOK,
                                RequestStates
      <4>. QED BY <4>1, <4>2
    <3>2. CASE ~RevisionMatches(c)
      BY <2>1, <3>2 DEF AcceptPuts
    <3>. QED BY ZenonT(60), <3>1, <3>2
  <2>2. ASSUME NEW c \in Call, CallStep(c) PROVE Replaces
    <3>1. CASE AcceptPuts(c) BY ZenonT(60), <2>1, <3>1
    <3>2. CASE ~AcceptPuts(c)
      <4>1. UNCHANGED remote
        BY Zenon, <2>2, <3>2
        DEF CallStep, HydrateSyncConflicts, ConflictsHydrated, HydrateSyncQueue, QueueHydrated,
            EnqueuePublishIntent, ResolveTargets, AcceptReadsRemote, AcceptReadsLocal,
            AcceptRefreshes, AcceptReadsLatest, AcceptPutsLocal, AcceptEnds
      <4>. QED BY ZenonT(60), <4>1
    <3>. QED BY Zenon, <3>1, <3>2
  <2>3. ASSUME NEW p \in Window, LoopStep(p) PROVE Replaces
    BY <2>3 DEF LoopStep, LoopTakes, LoopReadsLocal, LoopReadsRemote, LoopCreates,
                LoopReadsCompeting, LoopPersists
  <2>4. ASSUME NEW c \in Call, NEW p \in Window, Operation(c, p) PROVE Replaces
    BY <2>4 DEF Operation, CreateDrop, SyncDropToRemote, StartPublication,
                ResolveSyncConflict, Opens
  <2>5. ASSUME NEW p \in Window, Reload(p) PROVE Replaces
    BY <2>5 DEF Reload
  <2>6. CASE OtherBrowser
    BY <2>6 DEF OtherBrowser
  <2>. QED BY ZenonT(60), <1>1, <2>2, <2>3, <2>4, <2>5, <2>6 DEF DropNext
<1>2. DropInv /\ [DropNext]_dropVars => [Replaces]_dropVars
  BY <1>1
<1>. QED BY <1>2, DropInitInv, DropStepInv, PTL DEF DropSpec, ReplacesWhatWasShown

=============================================================================
