---------------------------- MODULE AccountVault ----------------------------
(***************************************************************************)
(* The account keys of one browser.  IndexedDB holds one vault record and  *)
(* the accounts a restore put aside; the pages (tabs) of the browser share *)
(* it, the OpenAuth cookie, localStorage and nothing else.  A task is one  *)
(* asynchronous call made in a page: it unlocks the vault, asks for an     *)
(* account bearer, assigns the record to the signed-in user or restores    *)
(* the synced account, and every read of the vault it makes may be stale   *)
(* when it writes.  Account 0 is the synced account of the user Holder,    *)
(* set up in another browser; 1, 2, ... are accounts created here.  Key    *)
(* material, signatures and expiry of bearers are left out.                *)
(***************************************************************************)
EXTENDS Naturals, FiniteSets, Null

CONSTANTS Page, User, Holder, Task, MaxAccounts, MaxLogouts, MaxMounts

VaultConstants ==
    /\ None \notin User /\ Holder \in User
    /\ MaxAccounts \in Nat /\ MaxLogouts \in Nat /\ MaxMounts \in Nat

VARIABLES
    vault,     \* the vault record, or None
    kept,      \* accounts stored under `:account:` keys
    created,   \* accounts created so far
    guarded,   \* the passkey protection preference
    throttle,  \* the account of the stored unlock lease, or None
    cookie,    \* the user of the OpenAuth session, or None
    mark,      \* the logout version in IndexedDB and in localStorage
    versions,  \* logout versions generated so far
    mounts,    \* times the account control was mounted again
    recorded,  \* history: logouts whose version reached localStorage
    page,      \* the module state of every page
    task       \* the asynchronous calls

vaultVars == <<vault, kept, created, guarded, throttle, cookie, mark, versions, mounts,
               recorded, page, task>>

stores == <<vault, kept, created, guarded, throttle>>
identity == <<cookie, mark, versions, recorded, mounts>>

Account == 0..MaxAccounts
Record == [account : Account, owner : User \cup {None}, passkey : BOOLEAN]
Session == [account : Account, owner : User \cup {None}]

Nobody == "nobody asked"

NoTask == [pc |-> "idle", kind |-> "none", at |-> None, user |-> None, seen |-> None,
           rec |-> None, gen |-> 0, local |-> 0, db |-> 0, began |-> 0, ended |-> 0]
NewPage == [user |-> None, session |-> None, gen |-> 0, sync |-> 0, unlocked |-> None,
            principal |-> None, loading |-> TRUE, told |-> FALSE, mount |-> Nobody,
            left |-> FALSE, logout |-> [pc |-> "idle", version |-> 0, mounted |-> TRUE]]

VaultInit ==
    /\ vault \in {None, [account |-> 0, owner |-> None, passkey |-> FALSE]}
    /\ kept = {} /\ created = 0 /\ throttle = None
    /\ guarded \in BOOLEAN
    /\ cookie = Holder
    /\ mark = [db |-> 0, local |-> 0] /\ versions = 0 /\ recorded = 0 /\ mounts = 0
    /\ page = [p \in Page |-> [NewPage EXCEPT !.user = Holder, !.loading = FALSE]]
    /\ task = [c \in Task |-> NoTask]

VaultTypeOK ==
    /\ vault \in Record \cup {None} /\ kept \subseteq Account /\ created \in Account
    /\ cookie \in User \cup {None} /\ throttle \in Account \cup {None}
    /\ mark.db \in 0..versions /\ mark.local \in 0..versions
    /\ \A p \in Page : /\ page[p].session \in Session \cup {None}
                       /\ page[p].user \in User \cup {None}

(***************************************************************************)
(* Pages: sign-in, page load, sign-out here and in another page.           *)
(***************************************************************************)
Dropped(p) == [c \in Task |-> IF task[c].at = p /\ task[c].pc # "done"
                                THEN [NoTask EXCEPT !.pc = "done"] ELSE task[c]]

\* clearAccountSession.
Cleared(s) == [s EXCEPT !.session = None, !.gen = @ + 1]

\* A document is loaded: nothing of the old one runs on.  The new one asks
\* who is signed in.
Loaded(p, s) ==
    /\ page' = [page EXCEPT ![p] = [s EXCEPT !.user = None, !.session = None, !.unlocked = None,
         !.gen = @ + 1, !.sync = @ + 1, !.loading = TRUE, !.told = FALSE, !.mount = Nobody,
         !.logout = NewPage.logout]]
    /\ task' = Dropped(p)

SignIn(p, u) ==
    /\ ~page[p].loading /\ page[p].user = None /\ page[p].logout.pc = "idle"
    /\ cookie' = u
    /\ Loaded(p, [page[p] EXCEPT !.principal = u])
    /\ UNCHANGED <<stores, mark, versions, recorded, mounts>>

Load(p) ==
    /\ page[p].loading
    /\ page' = [page EXCEPT ![p] = [Cleared(page[p]) EXCEPT !.user = page[p].principal,
                                                            !.left = FALSE, !.loading = FALSE]]
    /\ UNCHANGED <<stores, identity, task>>

\* The account control of the editor is mounted again: it asks who is signed
\* in, and sets the user of the page without clearing the bearer, unless the
\* service is unavailable.
MountAsks(p) ==
    /\ ~page[p].loading /\ page[p].mount = Nobody /\ mounts < MaxMounts
    /\ mounts' = mounts + 1
    /\ page' = [page EXCEPT ![p].mount = cookie,
                            ![p].logout.mounted = @ /\ page[p].logout.pc = "idle"]
    /\ UNCHANGED <<stores, cookie, mark, versions, recorded, task>>

MountAnswered(p) ==
    /\ page[p].mount # Nobody
    /\ \/ page' = [page EXCEPT ![p].mount = Nobody]
       \/ page' = [page EXCEPT ![p].mount = Nobody, ![p].user = page[p].mount,
                               ![p].left = @ /\ page[p].mount = None]
    /\ UNCHANGED <<stores, identity, task>>

\* handleRemoteLogout: another page stored a logout version.
RemoteLogout(p) ==
    /\ page[p].told
    /\ Loaded(p, [page[p] EXCEPT !.principal = cookie])
    /\ UNCHANGED <<stores, identity>>

LogoutBegins(p) ==
    /\ page[p].user # None /\ page[p].logout.pc = "idle" /\ ~page[p].loading
    /\ page[p].mount = Nobody
    /\ versions < MaxLogouts
    /\ versions' = versions + 1
    /\ page' = [page EXCEPT ![p].sync = @ + 1,
                            ![p].logout = [pc |-> "request", version |-> versions + 1,
                                          mounted |-> TRUE]]
    /\ UNCHANGED <<stores, cookie, mark, recorded, mounts, task>>

\* The request ends the session behind the cookie, or fails.
LogoutAnswered(p) ==
    /\ page[p].logout.pc = "request"
    /\ \/ /\ cookie' = None
          /\ page' = [page EXCEPT ![p].logout.pc = "mark"]
       \/ /\ page' = [page EXCEPT ![p].logout = NewPage.logout]
          /\ UNCHANGED cookie
    /\ UNCHANGED <<stores, mark, versions, recorded, mounts, task>>

\* The IndexedDB write of the version; a failure is ignored.
LogoutMarks(p) ==
    /\ page[p].logout.pc = "mark"
    /\ mark' \in {mark, [mark EXCEPT !.db = page[p].logout.version]}
    /\ page' = [page EXCEPT ![p].logout.pc = "publish"]
    /\ UNCHANGED <<stores, cookie, versions, recorded, mounts, task>>

\* The localStorage write tells the other pages; the handler then clears the
\* session of this page, unless its control was unmounted meanwhile.
LogoutEnds(p) ==
    /\ page[p].logout.pc = "publish"
    /\ mark' = [mark EXCEPT !.local = page[p].logout.version]
    /\ recorded' = recorded + 1
    /\ \E mounted \in {FALSE, page[p].logout.mounted} :
         LET here == [page[p] EXCEPT !.logout = NewPage.logout]
         IN  page' = [q \in Page |->
               IF q # p THEN [page[q] EXCEPT !.told = TRUE]
               ELSE IF mounted THEN [Cleared(here) EXCEPT !.user = None, !.left = TRUE]
               ELSE here]
    /\ UNCHANGED <<stores, cookie, versions, mounts, task>>

(***************************************************************************)
(* PasskeyVault.                                                           *)
(***************************************************************************)
\* The call goes on at pc, or returns and its locals are gone.
Goes(c, pc) ==
    task' = [task EXCEPT ![c] = [(IF pc = "done" THEN NoTask ELSE @) EXCEPT !.pc = pc]]
At(c, pc) == task[c].pc = pc
Here(c) == page[task[c].at]

\* assertRecordOwner.
Permits(s, record) == record.owner = None \/ record.owner = s.user

\* What ensureVaultRecord does with the record it read.
AfterRead(record) == IF record = None THEN "create" ELSE "check"

\* Every call begins with a read of the record: loadVaultRecord.
Begins(c, p, kind) ==
    /\ At(c, "idle") /\ ~page[p].loading
    /\ task' = [task EXCEPT ![c] =
         [pc |-> IF kind = "seal" THEN AfterRead(vault) ELSE kind, kind |-> kind, at |-> p,
          user |-> page[p].user, seen |-> vault, rec |-> vault, gen |-> 0, local |-> 0,
          db |-> 0, began |-> 0, ended |-> 0]]
    /\ UNCHANGED <<stores, identity, page>>

\* Sealing or opening a drop asks for the unlocked vault.
GetUnlockedVault(c, p) == Begins(c, p, "seal")

UnlockReads(c) ==
    /\ At(c, "unlock")
    /\ task' = [task EXCEPT ![c].rec = vault, ![c].pc = AfterRead(vault)]
    /\ UNCHANGED <<stores, identity, page>>

\* createVaultRecord and saveVaultRecord: nobody looks whether another page
\* has stored a record since.
UnlockCreates(c) ==
    /\ At(c, "create") /\ created < MaxAccounts
    /\ created' = created + 1
    /\ vault' = [account |-> created + 1, owner |-> None, passkey |-> guarded]
    /\ task' = [task EXCEPT ![c].rec = vault', ![c].pc = "check"]
    /\ UNCHANGED <<kept, guarded, throttle, identity, page>>

Unlocked(c) == IF task[c].kind = "token" THEN "authenticate" ELSE "done"

UnlockChecks(c) ==
    /\ At(c, "check")
    /\ LET rec == task[c].rec
       IN  \/ /\ ~Permits(Here(c), rec)
              /\ Goes(c, "done")
              /\ UNCHANGED <<throttle, page>>
           \/ /\ Permits(Here(c), rec) /\ ~guarded
              /\ page' = [page EXCEPT ![task[c].at].unlocked = None]
              /\ throttle' = None
              /\ Goes(c, Unlocked(c))
           \/ /\ Permits(Here(c), rec) /\ guarded
              /\ Goes(c, IF rec.passkey THEN "prompt" ELSE "enrol")
              /\ UNCHANGED <<throttle, page>>
    /\ UNCHANGED <<vault, kept, created, guarded, identity>>

\* ensurePasskeyCredential: the user enrols a passkey, or declines.
UnlockEnrols(c) ==
    /\ At(c, "enrol")
    /\ \/ /\ vault' = [task[c].rec EXCEPT !.passkey = TRUE]
          /\ task' = [task EXCEPT ![c].rec = vault', ![c].pc = "prompt"]
       \/ Goes(c, "done") /\ UNCHANGED vault
    /\ UNCHANGED <<kept, created, guarded, throttle, identity, page>>

\* The unlock of this page, else the stored lease, else the passkey.
UnlockPrompts(c) ==
    /\ At(c, "prompt")
    /\ LET a == task[c].rec.account
           Opened == /\ page' = [page EXCEPT ![task[c].at].unlocked = a]
                     /\ throttle' = a
       IN  \/ /\ Here(c).unlocked = a
              /\ Goes(c, Unlocked(c))
              /\ UNCHANGED <<throttle, page>>
           \/ /\ Here(c).unlocked # a
              /\ Opened
              /\ Goes(c, Unlocked(c))
           \/ /\ Here(c).unlocked # a /\ throttle # a
              /\ throttle' = None
              /\ Goes(c, "done")
              /\ UNCHANGED page
    /\ UNCHANGED <<vault, kept, created, guarded, identity>>

\* Unlocks and leases end after unlockTtlMs.
UnlocksEnd ==
    /\ throttle # None
    /\ throttle' = None
    /\ page' = [p \in Page |-> [page[p] EXCEPT !.unlocked = None]]
    /\ UNCHANGED <<vault, kept, created, guarded, identity, task>>

\* The settings turn passkey protection on.
TurnProtectionOn ==
    /\ ~guarded /\ guarded' = TRUE
    /\ UNCHANGED <<vault, kept, created, throttle, identity, page, task>>

\* assignOwner, from setupAccountSync and getAccountSyncState: the record is
\* read, checked and written in three turns.  The account is bound to the
\* user already: 0 to Holder, one created here to a user without a package.
AssignOwner(c, p) == page[p].user # None /\ Begins(c, p, "assign")

AssignChecks(c) ==
    /\ At(c, "assign")
    /\ LET t == task[c]
       IN Goes(c, IF /\ t.seen # None
                     /\ Here(c).user = t.user
                     /\ t.seen.owner = None
                     /\ (t.user = Holder) = (t.seen.account = 0)
                    THEN "save" ELSE "done")
    /\ UNCHANGED <<stores, identity, page>>

AssignSaves(c) ==
    /\ At(c, "save")
    /\ vault' = [task[c].seen EXCEPT !.owner = task[c].user]
    /\ Goes(c, "done")
    /\ UNCHANGED <<kept, created, guarded, throttle, identity, page>>

(***************************************************************************)
(* The account bearer of a page.                                           *)
(***************************************************************************)
GetAccountSessionToken(c, p) == Begins(c, p, "token")

\* sessionMatchesLocalAccount.
Matches(s, summary) ==
    /\ s.session # None /\ summary # None
    /\ s.session.account = summary.account /\ s.session.owner = summary.owner
    /\ Permits(s, summary)

InFlight(c) == \E d \in Task \ {c} : /\ task[d].kind = "token" /\ task[d].at = task[c].at
                                     /\ task[d].pc \notin {"token", "done"}
                                     /\ task[d].gen = Here(c).gen

\* The cached bearer may be near its end, and a refresh may be forced.
TokenDecides(c) ==
    /\ At(c, "token")
    /\ LET p == task[c].at
           summary == task[c].seen
           Refused == summary # None /\ ~Permits(page[p], summary)
       IN  \/ /\ Refused
              /\ page' = [page EXCEPT ![p] = Cleared(@)]
              /\ Goes(c, "done")
           \/ /\ ~Refused
              /\ Goes(c, "done")
              /\ Matches(page[p], summary) \/ InFlight(c)
              /\ UNCHANGED page
           \/ /\ ~Refused
              /\ task' = [task EXCEPT ![c].gen = page[p].gen, ![c].pc = "unlock"]
              /\ UNCHANGED page
    /\ UNCHANGED <<stores, identity>>

StillCurrent(c) == task[c].gen = Here(c).gen

\* The server's answer; a response to a request of an older generation is
\* discarded.
TokenArrives(c) ==
    /\ At(c, "authenticate")
    /\ \/ UNCHANGED page
       \/ /\ StillCurrent(c)
          /\ page' = [page EXCEPT ![task[c].at].session =
               [account |-> task[c].rec.account,
                owner |-> IF task[c].seen = None THEN None ELSE task[c].seen.owner]]
    /\ Goes(c, "done")
    /\ UNCHANGED <<stores, identity>>

(***************************************************************************)
(* Restoring the synced account.                                           *)
(***************************************************************************)
RestoreAccountSync(c, p) ==
    /\ At(c, "idle") /\ ~page[p].loading /\ page[p].user = Holder
    /\ task' = [task EXCEPT ![c] =
         [pc |-> "version", kind |-> "restore", at |-> p, user |-> Holder, seen |-> None,
          rec |-> None, gen |-> page[p].sync, local |-> mark.local, db |-> 0,
          began |-> recorded, ended |-> 0]]
    /\ UNCHANGED <<stores, identity, page>>

RestoreReadsVersion(c) ==
    /\ At(c, "version")
    /\ task' = [task EXCEPT ![c].db = mark.db, ![c].pc = "verify"]
    /\ UNCHANGED <<stores, identity, page>>

\* Download, decryption and assertCurrentPrincipal; a different local account
\* needs the user's consent.
RestoreVerifies(c) ==
    /\ At(c, "verify")
    /\ \/ /\ cookie = task[c].user /\ task[c].gen = Here(c).sync
          /\ Goes(c, "load")
       \/ Goes(c, "done")
    /\ UNCHANGED <<stores, identity, page>>

RestoreLoads(c) ==
    /\ At(c, "load")
    /\ task' = [task EXCEPT ![c].rec = vault, ![c].pc = "install"]
    /\ UNCHANGED <<stores, identity, page>>

\* canInstall, and the guard of setKvValues.
CanInstall(c) == task[c].gen = Here(c).sync /\ mark.local = task[c].local
GuardHolds(c) == mark.db = task[c].db
InstallsByVersion(c) == GuardHolds(c) /\ task[c].gen = Here(c).sync
Installs(c) == CanInstall(c) /\ GuardHolds(c)

\* One transaction puts the record read before aside and stores the synced
\* one.
RestoreInstalls(c) ==
    /\ At(c, "install") /\ Installs(c)
    /\ vault' = [account |-> 0, owner |-> task[c].user, passkey |-> FALSE]
    /\ kept' = IF task[c].rec # None /\ task[c].rec.account # 0
                 THEN kept \cup {task[c].rec.account} ELSE kept
    /\ page' = [page EXCEPT ![task[c].at].unlocked = None]
    /\ throttle' = None
    /\ task' = [task EXCEPT ![c].pc = "activate", ![c].ended = recorded]
    /\ UNCHANGED <<created, guarded, identity>>

RestoreRefused(c) ==
    /\ At(c, "install") /\ ~Installs(c)
    /\ Goes(c, "done")
    /\ UNCHANGED <<stores, identity, page>>

RestoreActivates(c) ==
    /\ At(c, "activate")
    /\ \/ /\ CanInstall(c)
          /\ page' = [page EXCEPT ![task[c].at] = [Cleared(@) EXCEPT !.session =
               [account |-> 0, owner |-> task[c].user]]]
       \/ ~CanInstall(c) /\ UNCHANGED page
    /\ Goes(c, "done")
    /\ UNCHANGED <<stores, identity>>

-----------------------------------------------------------------------------
TaskStep(c) ==
    \/ UnlockReads(c) \/ UnlockCreates(c) \/ UnlockChecks(c) \/ UnlockEnrols(c)
    \/ UnlockPrompts(c) \/ AssignChecks(c) \/ AssignSaves(c) \/ TokenDecides(c)
    \/ TokenArrives(c) \/ RestoreReadsVersion(c) \/ RestoreVerifies(c) \/ RestoreLoads(c)
    \/ RestoreInstalls(c) \/ RestoreRefused(c) \/ RestoreActivates(c)

PageStep(p) ==
    \/ Load(p) \/ MountAsks(p) \/ MountAnswered(p) \/ RemoteLogout(p) \/ LogoutBegins(p)
    \/ LogoutAnswered(p) \/ LogoutMarks(p) \/ LogoutEnds(p) \/ \E u \in User : SignIn(p, u)

VaultNext ==
    \/ \E c \in Task, p \in Page : \/ GetUnlockedVault(c, p) \/ GetAccountSessionToken(c, p)
                                   \/ AssignOwner(c, p) \/ RestoreAccountSync(c, p)
    \/ \E c \in Task : TaskStep(c)
    \/ \E p \in Page : PageStep(p)
    \/ UnlocksEnd \/ TurnProtectionOn

VaultSpec == VaultInit /\ [][VaultNext]_vaultVars

-----------------------------------------------------------------------------
\* Work that was under way when the user signed out does not undo it.
\* A restore never installs the synced account once a logout that followed
\* its start is recorded in the browser, whichever page made it and although
\* its IndexedDB write may fail (installRecoveryPayload, setKvValues).  And
\* when the account control of a page has completed a sign-out, the page caches
\* no account bearer bound to a user until somebody is signed in there again,
\* whatever answers still arrive (getAccountSessionToken, restoreAccountSync).
SignOutIsFinal ==
    /\ \A c \in Task : task[c].kind = "restore" /\ task[c].pc = "activate"
                         => task[c].began = task[c].ended
    /\ \A p \in Page : page[p].left /\ page[p].session # None
                         => page[p].session.owner = None
=============================================================================
