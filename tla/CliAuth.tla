------------------------------ MODULE CliAuth ------------------------------
(***************************************************************************)
(* Browser-mediated CLI login and the refreshable credential it leaves on  *)
(* disk.  One device ticket is approved by browsers, redeemed by the polls *)
(* of the waiting CLI, and turned into one credential row whose refresh    *)
(* secret rotates on every use.  The client side is the file-backed token  *)
(* provider of one process: any number of tasks ask it for a bearer, at    *)
(* most one refresh is in flight, and the file is the only place the       *)
(* current secret is kept.  A token is a number: a refresh secret and the  *)
(* access bearer issued with it.  Keys, signatures and the envelope's      *)
(* encryption are left out.                                                *)
(***************************************************************************)
EXTENDS Naturals, FiniteSets, Null

CONSTANTS Accounts, Browser, Polls, Caller, MaxTokens

CliConstants == None \notin Accounts /\ MaxTokens \in Nat

VARIABLES
    ticket,   \* the device ticket row
    cred,     \* the credential row, with account None until it is inserted
    minted,   \* the number of secrets generated so far
    approval, \* approval requests of the browsers
    poll,     \* poll requests of the waiting CLI
    file,     \* the token in the credential file, 0 when there is none
    stale,    \* tokens whose access bearer is within the refresh window of its end
    call,     \* tasks asking the provider for a bearer
    job,      \* the provider's refresh in flight
    logout,   \* the logout command
    lost,     \* history: the answer to a refresh never arrived
    held      \* history: every secret the credential row has held

vars == <<ticket, cred, minted, approval, poll, file, stale, call, job, logout, lost, held>>

server == <<ticket, cred, minted, held>>
login == <<approval, poll>>
client == <<file, stale, call, job, logout, lost>>

NoJob == [pc |-> "none", rejected |-> 0, seen |-> 0, token |-> 0]

Init ==
    /\ ticket = [approved |-> None, redeemed |-> FALSE, expired |-> FALSE]
    /\ cred = [account |-> None, token |-> 0, live |-> TRUE]
    /\ minted = 0
    /\ approval = [b \in Browser |-> [pc |-> "idle", account |-> None]]
    /\ poll = [p \in Polls |-> [pc |-> "idle", account |-> None, token |-> 0]]
    /\ file = 0
    /\ stale = {}
    /\ call = [c \in Caller |-> [pc |-> "idle", token |-> 0, rejected |-> 0]]
    /\ job = NoJob
    /\ logout = [pc |-> "idle", token |-> 0]
    /\ lost = FALSE
    /\ held = {}

TypeOK ==
    /\ ticket \in [approved : Accounts \cup {None}, redeemed : BOOLEAN, expired : BOOLEAN]
    /\ cred \in [account : Accounts \cup {None}, token : 0..MaxTokens, live : BOOLEAN]
    /\ minted \in 0..MaxTokens
    /\ file \in 0..MaxTokens /\ stale \subseteq 1..MaxTokens /\ held \subseteq 1..MaxTokens

(***************************************************************************)
(* The ticket.                                                             *)
(***************************************************************************)
TicketExpires ==
    /\ ~ticket.expired
    /\ ticket' = [ticket EXCEPT !.expired = TRUE]
    /\ UNCHANGED <<cred, minted, held, login, client>>

Answers(b, answer) == approval' = [approval EXCEPT ![b].pc = answer]

\* A browser submits an approval; the handler reads the ticket by its user
\* code and refuses a spent, expired or differently approved one.
ReadOwnedPendingTicket(b, a) ==
    /\ approval[b].pc = "idle"
    /\ approval' = [approval EXCEPT ![b] = [account |-> a, pc |->
         CASE ticket.expired \/ ticket.redeemed -> "refused"
           [] ticket.approved = None -> "approving"
           [] OTHER -> IF ticket.approved = a THEN "approved" ELSE "refused"]]
    /\ UNCHANGED <<server, poll, client>>

\* The row the approving UPDATE still matches.
ApprovableWhenRead == ~ticket.redeemed /\ ~ticket.expired
Approvable == ticket.approved = None /\ ~ticket.redeemed /\ ~ticket.expired

ApproveTicket(b) ==
    /\ approval[b].pc = "approving"
    /\ \/ /\ Approvable
          /\ ticket' = [ticket EXCEPT !.approved = approval[b].account]
          /\ Answers(b, "approved")
       \/ /\ ~Approvable
          /\ Answers(b, "again")
          /\ UNCHANGED ticket
    /\ UNCHANGED <<cred, minted, held, poll, client>>

\* The UPDATE matched nothing: the handler reads the ticket once more.
ApprovedMeanwhile(b) ==
    /\ approval[b].pc = "again"
    /\ Answers(b, IF ticket.approved = approval[b].account THEN "approved" ELSE "refused")
    /\ UNCHANGED <<server, poll, client>>

(***************************************************************************)
(* The poll of the waiting CLI, and the credential it redeems.             *)
(***************************************************************************)
PollTicket(p) ==
    /\ poll[p].pc = "idle"
    /\ ~ticket.expired /\ ~ticket.redeemed /\ ticket.approved # None
    /\ minted < MaxTokens
    /\ minted' = minted + 1
    /\ poll' = [poll EXCEPT ![p] =
         [pc |-> "redeeming", account |-> ticket.approved, token |-> minted + 1]]
    /\ UNCHANGED <<ticket, cred, held, approval, client>>

PollRefused(p) ==
    /\ poll[p].pc = "idle"
    /\ ticket.expired \/ ticket.redeemed
    /\ poll' = [poll EXCEPT ![p].pc = "refused"]
    /\ UNCHANGED <<server, approval, client>>

\* The batch inserts the row and marks the ticket; the expiry was compared
\* with the time the poll read, so a ticket may end in between.
Redeemed(p) == ~ticket.redeemed

Redeem(p) ==
    /\ poll[p].pc = "redeeming"
    /\ poll' = [poll EXCEPT ![p].pc = IF Redeemed(p) THEN "envelope" ELSE "refused"]
    /\ IF ticket.redeemed
         THEN UNCHANGED <<ticket, cred, held>>
         ELSE /\ ticket' = [ticket EXCEPT !.redeemed = TRUE]
              /\ cred' = [account |-> ticket.approved, token |-> poll[p].token, live |-> TRUE]
              /\ held' = held \cup {poll[p].token}
    /\ UNCHANGED <<minted, approval, client>>

\* The login command decrypts the envelope and writes the credential file.
LoginWrites(p) ==
    /\ poll[p].pc = "envelope"
    /\ poll' = [poll EXCEPT ![p].pc = "loggedIn"]
    /\ file' = poll[p].token
    /\ UNCHANGED <<server, approval, stale, call, job, logout, lost>>

(***************************************************************************)
(* The provider.                                                           *)
(***************************************************************************)
AccessEnds(t) ==
    /\ t \in held \ stale
    /\ stale' = stale \cup {t}
    /\ UNCHANGED <<server, login, file, call, job, logout, lost>>

Sets(c, s) == call' = [call EXCEPT ![c] = s]

\* A task asks for a bearer: its first call, or one forced by a request
\* that was rejected with the bearer it got before.
Ask(c) ==
    /\ \/ call[c].pc = "idle" /\ Sets(c, [pc |-> "ask", token |-> 0, rejected |-> 0])
       \/ /\ call[c].pc = "bearer" /\ call[c].rejected = 0
          /\ Sets(c, [pc |-> "ask", token |-> 0, rejected |-> call[c].token])
    /\ UNCHANGED <<server, login, file, stale, job, logout, lost>>

ReadCurrent(c) ==
    /\ call[c].pc = "ask"
    /\ Sets(c, IF file = 0 THEN [call[c] EXCEPT !.pc = "noFile"]
                           ELSE [call[c] EXCEPT !.pc = "read", !.token = file])
    /\ UNCHANGED <<server, login, file, stale, job, logout, lost>>

\* Whether a token just read may be used without a refresh.
Usable(t, rejected) == t # rejected /\ t \notin stale

\* The refresh a task joins: the one in flight, or a new one.
Joins(c) ==
    job' = IF job.pc # "none" THEN job
             ELSE [NoJob EXCEPT !.pc = "start", !.rejected = call[c].rejected, !.seen = call[c].token]

Decide(c) ==
    /\ call[c].pc = "read"
    /\ \/ /\ Usable(call[c].token, call[c].rejected)
          /\ Sets(c, [call[c] EXCEPT !.pc = "bearer"])
          /\ UNCHANGED job
       \/ /\ ~Usable(call[c].token, call[c].rejected)
          /\ Sets(c, [call[c] EXCEPT !.pc = "wait"])
          /\ Joins(c)
    /\ UNCHANGED <<server, login, file, stale, logout, lost>>

\* The refresh ends: every task waiting for it gets its token, or its error.
Resolve(t, pc) ==
    /\ job' = NoJob
    /\ call' = [c \in Caller |-> IF call[c].pc = "wait"
                  THEN [call[c] EXCEPT !.pc = pc, !.token = t] ELSE call[c]]

\* The refresh reads the file again: the token its first asker saw may
\* have been replaced by the refresh before it.
PresentedSeen == job.seen
Presented == file

RefreshStart ==
    /\ job.pc = "start"
    /\ \/ /\ file = 0 /\ Resolve(0, "noFile")
       \/ /\ file # 0 /\ job.rejected # 0 /\ Usable(file, job.rejected)
          /\ Resolve(file, "bearer")
       \/ /\ file # 0 /\ ~(job.rejected # 0 /\ Usable(file, job.rejected))
          /\ job' = [job EXCEPT !.pc = "sent", !.token = Presented, !.seen = 0]
          /\ UNCHANGED call
    /\ UNCHANGED <<server, login, file, stale, logout, lost>>

\* The refresh endpoint: finds the row by the presented secret, then rotates
\* it if the row still holds that secret.
FindCredential ==
    /\ job.pc = "sent"
    /\ IF cred.live /\ cred.token = job.token
         THEN job' = [job EXCEPT !.pc = "found"] /\ UNCHANGED call
         ELSE Resolve(0, "failed")
    /\ UNCHANGED <<server, login, file, stale, logout, lost>>

RotateCredential ==
    /\ job.pc = "found" /\ minted < MaxTokens
    /\ minted' = minted + 1
    /\ \/ /\ cred.live /\ cred.token = job.token
          /\ cred' = [cred EXCEPT !.token = minted + 1]
          /\ held' = held \cup {minted + 1}
          /\ job' = [job EXCEPT !.pc = "rotated", !.token = minted + 1]
          /\ UNCHANGED call
       \/ /\ ~(cred.live /\ cred.token = job.token)
          /\ Resolve(0, "failed")
          /\ UNCHANGED <<cred, held>>
    /\ UNCHANGED <<ticket, login, file, stale, logout, lost>>

WriteCredential ==
    /\ job.pc = "rotated"
    /\ file' = job.token
    /\ Resolve(job.token, "bearer")
    /\ UNCHANGED <<server, login, stale, logout, lost>>

\* The answer is lost, or the file cannot be written.
AnswerLost ==
    /\ job.pc \in {"sent", "found", "rotated"}
    /\ lost' = TRUE
    /\ Resolve(0, "failed")
    /\ UNCHANGED <<server, login, file, stale, logout>>

(***************************************************************************)
(* Logout, from another process: read, revoke remotely, forget locally.    *)
(***************************************************************************)
LogoutRead ==
    /\ logout.pc = "idle" /\ file # 0
    /\ logout' = [pc |-> "revoke", token |-> file]
    /\ UNCHANGED <<server, login, file, stale, call, job, lost>>

Revoke ==
    /\ logout.pc = "revoke"
    /\ logout' = [logout EXCEPT !.pc = "clear"]
    /\ cred' = [cred EXCEPT !.live = cred.live /\ cred.token # logout.token]
    /\ UNCHANGED <<ticket, minted, held, login, file, stale, call, job, lost>>

\* The file goes even when the revoke request failed.
ClearCredential ==
    /\ logout.pc \in {"revoke", "clear"}
    /\ logout' = [logout EXCEPT !.pc = "done"]
    /\ file' = 0
    /\ UNCHANGED <<server, login, stale, call, job, lost>>

CredentialExpires ==
    /\ cred.account # None /\ cred.live
    /\ cred' = [cred EXCEPT !.live = FALSE]
    /\ UNCHANGED <<ticket, minted, held, login, client>>

Next ==
    \/ TicketExpires
    \/ \E b \in Browser, a \in Accounts : ReadOwnedPendingTicket(b, a)
    \/ \E b \in Browser : ApproveTicket(b) \/ ApprovedMeanwhile(b)
    \/ \E p \in Polls : PollTicket(p) \/ PollRefused(p) \/ Redeem(p) \/ LoginWrites(p)
    \/ \E t \in 1..MaxTokens : AccessEnds(t)
    \/ \E c \in Caller : Ask(c) \/ ReadCurrent(c) \/ Decide(c)
    \/ RefreshStart \/ FindCredential \/ RotateCredential \/ WriteCredential \/ AnswerLost
    \/ LogoutRead \/ Revoke \/ ClearCredential
    \/ CredentialExpires

Spec == Init /\ [][Next]_vars

(***************************************************************************)
(* Properties.                                                             *)
(***************************************************************************)
\* approveCliDeviceTicket approves for exactly one user and account: whatever
\* two browsers race to approve, every request answered "approved" names the
\* account the ticket, and later the credential row, carries.
ApprovalsAgree ==
    \A b \in Browser : approval[b].pc = "approved" =>
        /\ ticket.approved = approval[b].account
        /\ cred.account \in {None, approval[b].account}

\* Of the polls that saw the approval only one is answered with an envelope,
\* and the secret in it is one the credential row has really held: the other
\* polls learn that the code is redeemed.
EnvelopeIsStored ==
    \A p \in Polls : poll[p].pc \in {"envelope", "loggedIn"} =>
        /\ poll[p].token \in held /\ cred.account = poll[p].account
        /\ \A q \in Polls \ {p} : poll[q].pc \notin {"envelope", "loggedIn"}

\* A device ticket is approved for one account and redeemed once, whatever
\* browsers and polls race for it.
OneLoginPerTicket == ApprovalsAgree /\ EnvelopeIsStored

\* Rotation never locks its own process out: tasks may be refused with the
\* same bearer at the same time and ask in any order, and as long as the
\* credential is live, nobody logs out and no answer is lost, none of them
\* is told that the refresh failed.
RotationKeepsTheSession ==
    (cred.live /\ ~lost /\ logout.pc = "idle") =>
        \A c \in Caller : call[c].pc # "failed"
=============================================================================
