--------------------------- MODULE AccountRecovery ---------------------------
(***************************************************************************)
(* Account sync of one account: the browser binds the account to the       *)
(* signed-in user, encrypts its keys under a fresh recovery code, uploads  *)
(* the package under the next revision and shows the code; D1 holds the    *)
(* binding and a row that names the newest package, R2 the packages.       *)
(* Attempts run in several tabs and for several users who share the        *)
(* browser; an answer may be lost and a request delivered twice.  An       *)
(* attempt stands for the digest of the package it makes: every attempt    *)
(* draws new keys.  Signatures, fingerprints and expiry of a challenge are *)
(* left to the failures they cause.                                        *)
(***************************************************************************)
EXTENDS Naturals, FiniteSets, Null

CONSTANTS Attempt, Earlier, Users, MaxRevision, MaxRepeats

RecoveryConstants ==
    /\ None \notin Users \cup Attempt /\ Earlier \notin Attempt
    /\ MaxRevision \in Nat \ {0} /\ MaxRepeats \in Nat

VARIABLES
    owner,      \* auth_account_bindings: the user of the account, or None
    challenge,  \* auth_account_binding_challenges: "none", "open" or "consumed"
    package,    \* auth_account_recovery_packages: the row of the account
    blobs,      \* the R2 objects, [rev, digest]
    pending,    \* localStorage: the package whose code is not confirmed yet
    setup,      \* the attempts, as the browser sees them
    upload,     \* the deliveries of their PUT requests, as the server does
    known       \* history: packages the browser was told are stored

recoveryVars == <<owner, challenge, package, blobs, pending, setup, upload, known>>
server == <<package, blobs, upload>>
binding == <<owner, challenge>>

NoPackage == [rev |-> 0, digest |-> None, user |-> None]
NotStarted == [pc |-> "idle", user |-> None, rev |-> 0, seen |-> 0]
Unsent == [pc |-> "unsent", seen |-> 0]

\* Sync was never set up, or another browser has stored a first package.
RecoveryInit ==
    /\ \/ owner = None /\ package = NoPackage /\ blobs = {}
       \/ /\ owner \in Users
          /\ package = [rev |-> 1, digest |-> Earlier, user |-> owner]
          /\ blobs = {[rev |-> 1, digest |-> Earlier]}
    /\ known = blobs /\ pending = 0
    /\ challenge = [a \in Attempt |-> "none"]
    /\ setup = [a \in Attempt |-> NotStarted]
    /\ upload = [a \in Attempt |-> [k \in 1..2 |-> Unsent]]

SetupGoes(a, pc) == setup' = [setup EXCEPT ![a].pc = pc]

(***************************************************************************)
(* bindCurrentAccount and its two handlers.                                *)
(***************************************************************************)
\* handleSync takes the revision after the one its last look at the server,
\* or its own last attempt, had.
SetupAccountSync(a, u) ==
    /\ setup[a].pc = "idle"
    /\ \E rev \in {package.rev + 1} \cup {setup[b].rev + 1 : b \in Attempt} :
         /\ rev <= MaxRevision
         /\ setup' = [setup EXCEPT ![a] = [NotStarted EXCEPT !.pc = "challenge", !.user = u,
                                                       !.rev = rev]]
    /\ UNCHANGED <<binding, server, pending, known>>

AfterBinding(a) == IF owner = setup[a].user THEN "encrypt" ELSE "done"

CreateBindingChallenge(a) ==
    /\ setup[a].pc = "challenge"
    /\ \/ /\ owner = None
          /\ challenge' = [challenge EXCEPT ![a] = "open"]
          /\ SetupGoes(a, "bind")
       \/ owner # None /\ SetupGoes(a, AfterBinding(a)) /\ UNCHANGED challenge
    /\ UNCHANGED <<owner, server, pending, known>>

BindAccount(a) ==
    /\ setup[a].pc = "bind"
    /\ SetupGoes(a, IF owner # None THEN AfterBinding(a)
                    ELSE IF challenge[a] = "open" THEN "consume" ELSE "done")
    /\ UNCHANGED <<binding, server, pending, known>>

ConsumeBindingChallenge(a) ==
    /\ setup[a].pc = "consume"
    /\ challenge[a] = "open"
    /\ challenge' = [challenge EXCEPT ![a] = "consumed"]
    /\ SetupGoes(a, "insert")
    /\ UNCHANGED <<owner, server, pending, known>>

\* INSERT ... DO NOTHING, and the read of the binding that is now there.
InsertAccountBinding(a) ==
    /\ setup[a].pc = "insert"
    /\ owner' = IF owner = None THEN setup[a].user ELSE owner
    /\ SetupGoes(a, IF owner' = setup[a].user THEN "encrypt" ELSE "done")
    /\ UNCHANGED <<challenge, server, pending, known>>

\* The principal is still the same; the keys are encrypted and the package is
\* noted as pending before it is sent.
Encrypts(a) ==
    /\ setup[a].pc = "encrypt"
    /\ pending' = setup[a].rev
    /\ SetupGoes(a, "sent")
    /\ UNCHANGED <<binding, server, known>>

\* A refused proof, an expired challenge, a signed-in user who changed.
SetupFails(a) ==
    /\ setup[a].pc \in {"challenge", "bind", "consume", "encrypt", "sent"}
    /\ SetupGoes(a, "done")
    /\ UNCHANGED <<binding, server, pending, known>>

(***************************************************************************)
(* writeRecoveryPackageResponse, once for every delivery.                  *)
(***************************************************************************)
Named(a) == [rev |-> setup[a].rev, digest |-> a]
Row(a) == [rev |-> setup[a].rev, digest |-> a, user |-> setup[a].user]
UploadAt(a, k, pc) == upload[a][k].pc = pc
Moves(a, k, pc) == upload' = [upload EXCEPT ![a][k].pc = pc]

Delivered(a, k) ==
    /\ setup[a].rev > 0 /\ setup[a].pc \in {"sent", "shown", "confirm"}
    /\ UploadAt(a, k, "unsent")
    /\ k = 2 => /\ ~UploadAt(a, 1, "unsent")
                /\ Cardinality({b \in Attempt : ~UploadAt(b, 2, "unsent")}) < MaxRepeats
    /\ Moves(a, k, "read")
    /\ UNCHANGED <<binding, package, blobs, pending, setup, known>>

\* The package is there already, or has the next revision, or conflicts.
ReadsCurrent(a, k) ==
    /\ UploadAt(a, k, "read")
    /\ upload' = [upload EXCEPT ![a][k] =
         [seen |-> package.rev,
          pc |-> IF owner # setup[a].user THEN "conflict"
                 ELSE IF package = Row(a) THEN "stored"
                 ELSE IF setup[a].rev # package.rev + 1 THEN "conflict"
                 ELSE "put"]]
    /\ UNCHANGED <<binding, package, blobs, pending, setup, known>>

\* The create-only put.  Where an object is found it is read again and compared:
\* another delivery has put the same bytes, or has deleted them meanwhile.
PutsObject(a, k) ==
    /\ UploadAt(a, k, "put")
    /\ blobs' = blobs \cup {Named(a)}
    /\ Moves(a, k, IF Named(a) \in blobs THEN "compare" ELSE "advance")
    /\ UNCHANGED <<binding, package, pending, setup, known>>

ComparesObject(a, k) ==
    /\ UploadAt(a, k, "compare")
    /\ Moves(a, k, IF Named(a) \in blobs THEN "advance" ELSE "conflict")
    /\ UNCHANGED <<binding, package, blobs, pending, setup, known>>

\* The INSERT ... DO NOTHING of the first package, the UPDATE of a later one.
AdvanceRecoveryPackage(a, k) ==
    /\ UploadAt(a, k, "advance")
    /\ package' = IF /\ package.rev = upload[a][k].seen
                     /\ package.rev > 0 => package.user = setup[a].user
                    THEN Row(a) ELSE package
    /\ Moves(a, k, "verify")
    /\ UNCHANGED <<binding, blobs, pending, setup, known>>

PersistedRevision(a) == package.user = setup[a].user /\ package.rev = setup[a].rev
Persisted(a) == PersistedRevision(a) /\ package.digest = a

ReadsPersisted(a, k) ==
    /\ UploadAt(a, k, "verify")
    /\ Moves(a, k, IF Persisted(a) THEN "stored" ELSE "delete")
    /\ UNCHANGED <<binding, package, blobs, pending, setup, known>>

DeletesObject(a, k) ==
    /\ UploadAt(a, k, "delete")
    /\ blobs' = blobs \ {Named(a)}
    /\ Moves(a, k, "conflict")
    /\ UNCHANGED <<binding, package, pending, setup, known>>

(***************************************************************************)
(* The answer, and the user's "I saved the code".                          *)
(***************************************************************************)
Answered(a) ==
    /\ setup[a].pc = "sent"
    /\ \E k \in 1..2 :
         \/ /\ UploadAt(a, k, "stored")
            /\ known' = known \cup {Named(a)}
            /\ SetupGoes(a, "shown")
         \/ UploadAt(a, k, "conflict") /\ SetupGoes(a, "done") /\ UNCHANGED known
    /\ UNCHANGED <<binding, server, pending>>

\* AccountSyncUploadUncertainError shows the code too.
AnswerLost(a) ==
    /\ setup[a].pc = "sent"
    /\ SetupGoes(a, "shown")
    /\ UNCHANGED <<binding, server, pending, known>>

ConfirmBegins(a) ==
    /\ setup[a].pc = "shown"
    /\ setup' = [setup EXCEPT ![a].pc = "confirm", ![a].seen = pending]
    /\ UNCHANGED <<binding, server, pending, known>>

\* readRecoveryPackageResponse: the row and the object it names.
Current == [rev |-> package.rev, digest |-> package.digest]
Readable(a) == package.user = setup[a].user /\ Current \in blobs

\* The code is confirmed if the stored package is the attempt's; the pending
\* note goes if it had this revision when the confirmation began.
ConfirmAccountSyncRecoveryCode(a) ==
    /\ setup[a].pc = "confirm"
    /\ \/ /\ Readable(a) /\ package = Row(a)
          /\ known' = known \cup {Named(a)}
          /\ pending' = IF setup[a].seen = setup[a].rev THEN 0 ELSE pending
          /\ SetupGoes(a, "done")
       \/ /\ ~(Readable(a) /\ package = Row(a))
          /\ SetupGoes(a, "shown")
          /\ UNCHANGED <<pending, known>>
    /\ UNCHANGED <<binding, server>>

-----------------------------------------------------------------------------
SetupStep(a) ==
    \/ \E u \in Users : SetupAccountSync(a, u)
    \/ CreateBindingChallenge(a) \/ BindAccount(a) \/ ConsumeBindingChallenge(a)
    \/ InsertAccountBinding(a) \/ Encrypts(a) \/ SetupFails(a)
    \/ Answered(a) \/ AnswerLost(a) \/ ConfirmBegins(a) \/ ConfirmAccountSyncRecoveryCode(a)

UploadStep(a, k) ==
    \/ Delivered(a, k) \/ ReadsCurrent(a, k) \/ PutsObject(a, k) \/ ComparesObject(a, k)
    \/ AdvanceRecoveryPackage(a, k) \/ ReadsPersisted(a, k) \/ DeletesObject(a, k)

RecoveryNext == \E a \in Attempt : SetupStep(a) \/ \E k \in 1..2 : UploadStep(a, k)

RecoverySpec == RecoveryInit /\ [][RecoveryNext]_recoveryVars

-----------------------------------------------------------------------------
\* A recovery code the user was told to keep opens the account until a later
\* one replaces it: no two attempts are told that their package was stored
\* under one revision, the row never goes back or changes under a revision
\* somebody was told of, and the object it names is there, although the loser
\* of a race deletes the object it put and a delivery may be late or repeated
\* (recovery/service.ts, advanceRecoveryPackage).
CodeOpensTheAccount ==
    /\ \A x, y \in known : x.rev = y.rev => x = y
    /\ \A x \in known : /\ package.rev >= x.rev
                        /\ package.rev = x.rev => package.digest = x.digest
    /\ package # NoPackage => Current \in blobs /\ package.user = owner
=============================================================================
