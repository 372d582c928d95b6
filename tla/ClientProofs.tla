---------------------------- MODULE ClientProofs ----------------------------
(***************************************************************************)
(* Proofs about clients: the logins of the command line, and the edit      *)
(* queue of the editor, which outlives its pages.                          *)
(***************************************************************************)
EXTENDS CliAuth, ClientSync, TLAPS

\* Back ends, in the order in which they are tried.
USE SMTT(15), Zenon, Z3T(60)

-----------------------------------------------------------------------------
(***************************************************************************)
(* Logins of the command line.                                             *)
(*                                                                         *)
(* For any number of browsers, polls and tasks: a device ticket makes one  *)
(* login, and the rotation of the refresh secret never locks out the       *)
(* process that rotates it.                                                *)
(*                                                                         *)
(* TicketInv carries what a request has read across its await: an approval *)
(* that was seen is never replaced, and the ticket is redeemed exactly     *)
(* when the credential row is there.  SessionInv follows the one current   *)
(* secret: it is in the file, or in the envelope that no login has written *)
(* yet, or in the answer of the refresh in flight.                         *)
(***************************************************************************)

PageStates == {"idle", "approving", "again", "approved", "refused"}
PollStates == {"idle", "redeeming", "envelope", "loggedIn", "refused"}
CallStates == {"idle", "ask", "noFile", "read", "bearer", "wait", "failed"}
JobStates == {"none", "start", "sent", "found", "rotated"}

Types ==
    /\ ticket \in [approved : Accounts \cup {None}, redeemed : BOOLEAN, expired : BOOLEAN]
    /\ cred \in [account : Accounts \cup {None}, token : Nat, live : BOOLEAN]
    /\ minted \in Nat /\ file \in Nat /\ held \in SUBSET Nat /\ lost \in BOOLEAN
    /\ approval \in [Browser -> [pc : PageStates, account : Accounts \cup {None}]]
    /\ poll \in [Polls -> [pc : PollStates, account : Accounts \cup {None}, token : Nat]]
    /\ call \in [Caller -> [pc : CallStates, token : Nat, rejected : Nat]]
    /\ job \in [pc : JobStates, rejected : Nat, seen : Nat, token : Nat]
    /\ logout \in [pc : {"idle", "revoke", "clear", "done"}, token : Nat]

HasEnvelope(p) == poll[p].pc \in {"envelope", "loggedIn"}

TicketInv ==
    /\ \A b \in Browser : approval[b].pc \in {"approving", "again", "approved"} =>
         approval[b].account \in Accounts
    /\ \A b \in Browser : approval[b].pc = "approved" => ticket.approved = approval[b].account
    /\ cred.account = IF ticket.redeemed THEN ticket.approved ELSE None
    /\ ticket.redeemed => ticket.approved \in Accounts
    /\ \A p \in Polls : poll[p].pc = "redeeming" \/ HasEnvelope(p) =>
         /\ poll[p].account = ticket.approved /\ ticket.approved \in Accounts
         /\ poll[p].token > 0
    /\ \A p \in Polls : HasEnvelope(p) => ticket.redeemed /\ poll[p].token \in held
    /\ \A p, q \in Polls : HasEnvelope(p) /\ HasEnvelope(q) => p = q

\* Nobody has logged out, the row is live and every answer has arrived.
Undisturbed == cred.live /\ ~lost /\ logout.pc = "idle"

SessionInv ==
    /\ ~ticket.redeemed =>
         /\ cred.live /\ file = 0 /\ logout.pc = "idle" /\ job.pc = "none"
         /\ \A c \in Caller : call[c].pc # "read"
    /\ job.pc \in {"sent", "found", "rotated"} => job.token > 0
    /\ Undisturbed =>
         /\ \A c \in Caller : call[c].pc # "failed"
         /\ file = 0 => job.pc = "none" /\ \A c \in Caller : call[c].pc # "read"
         /\ file # 0 /\ job.pc # "rotated" => file = cred.token
         /\ job.pc \in {"sent", "found", "rotated"} => job.token = cred.token
         /\ \A p \in Polls : poll[p].pc = "envelope" => file = 0 /\ poll[p].token = cred.token

CliInv == Types /\ TicketInv /\ SessionInv

USE DEF PageStates, PollStates, CallStates, JobStates

\* An empty ticket.
LEMMA InitInv == CliConstants /\ Init => CliInv
<1>. SUFFICES ASSUME CliConstants, Init PROVE CliInv
  OBVIOUS
<1>1. Types
  BY Zenon DEF Init, Types, NoJob
<1>2. TicketInv
  BY DEF Init, TicketInv, HasEnvelope
<1>3. SessionInv
  BY DEF Init, SessionInv, NoJob
<1>. QED
  BY <1>1, <1>2, <1>3 DEF CliInv

\* What a step does to one entry of a table.
LEMMA PageMoves ==
  ASSUME Types, NEW b \in Browser, NEW x \in PageStates, NEW a \in Accounts \cup {None},
         approval' = [approval EXCEPT ![b] = [pc |-> x, account |-> a]]
  PROVE  /\ approval' \in [Browser -> [pc : PageStates, account : Accounts \cup {None}]]
         /\ approval'[b].pc = x /\ approval'[b].account = a
         /\ \A d \in Browser \ {b} : approval'[d] = approval[d]
BY DEF Types

LEMMA PollMoves ==
  ASSUME Types, NEW p \in Polls, NEW x \in PollStates,
         poll' = [poll EXCEPT ![p].pc = x]
  PROVE  /\ poll' \in [Polls -> [pc : PollStates, account : Accounts \cup {None}, token : Nat]]
         /\ poll'[p].pc = x /\ poll'[p].account = poll[p].account
         /\ poll'[p].token = poll[p].token
         /\ \A q \in Polls \ {p} : poll'[q] = poll[q]
BY DEF Types

\* The end of a refresh changes the tasks that wait for it and nothing else.
LEMMA Resolves ==
  ASSUME Types, NEW t \in Nat, NEW pc \in {"noFile", "bearer", "failed"}, Resolve(t, pc)
  PROVE  /\ job' = NoJob /\ job' \in [pc : JobStates, rejected : Nat, seen : Nat, token : Nat]
         /\ call' \in [Caller -> [pc : CallStates, token : Nat, rejected : Nat]]
         /\ \A c \in Caller : call'[c].pc \in {call[c].pc, pc}
<1>1. job' = NoJob /\ job' \in [pc : JobStates, rejected : Nat, seen : Nat, token : Nat]
  BY Zenon DEF Resolve, NoJob
<1>2. ASSUME NEW c \in Caller
      PROVE  /\ call'[c] \in [pc : CallStates, token : Nat, rejected : Nat]
             /\ call'[c].pc \in {call[c].pc, pc}
  <2>1. call[c] \in [pc : CallStates, token : Nat, rejected : Nat]
    BY DEF Types
  <2>2. CASE call[c].pc = "wait"
    <3>1. call'[c] = [call[c] EXCEPT !.pc = pc, !.token = t]
      BY Zenon, <2>2 DEF Resolve
    <3>. QED
      BY ZenonT(60), <2>1, <3>1
  <2>3. CASE call[c].pc # "wait"
    BY ZenonT(60), <2>1, <2>3 DEF Resolve
  <2>. QED
    BY <2>2, <2>3
<1>3. call' = [c \in Caller |-> call'[c]]
  BY Zenon DEF Resolve
<1>. QED
  BY <1>1, <1>2, <1>3

\* A browser's request: the ticket is approved once.
LEMMA BrowserKeeps ==
  ASSUME CliConstants, CliInv, NEW b \in Browser,
         \/ \E a \in Accounts : ReadOwnedPendingTicket(b, a)
         \/ ApproveTicket(b) \/ ApprovedMeanwhile(b)
  PROVE  CliInv'
<1>. USE DEF CliInv
<1>1. approval[b] \in [pc : PageStates, account : Accounts \cup {None}]
  BY DEF Types
<1>2. PICK x \in PageStates, a \in Accounts \cup {None} :
        approval' = [approval EXCEPT ![b] = [pc |-> x, account |-> a]]
  <2>1. CASE \E a \in Accounts : ReadOwnedPendingTicket(b, a)
    BY Zenon, <2>1 DEF ReadOwnedPendingTicket
  <2>2. CASE ApproveTicket(b) \/ ApprovedMeanwhile(b)
    BY <1>1, <2>2 DEF ApproveTicket, ApprovedMeanwhile, Answers, Types
  <2>. QED
    BY <2>1, <2>2
<1>3. /\ approval' \in [Browser -> [pc : PageStates, account : Accounts \cup {None}]]
      /\ approval'[b].pc = x /\ approval'[b].account = a
      /\ \A d \in Browser \ {b} : approval'[d] = approval[d]
  BY Zenon, <1>2, PageMoves
<1>4. /\ UNCHANGED <<cred, minted, held, poll, client>>
      /\ ticket' = ticket \/ (Approvable /\ ticket' = [ticket EXCEPT !.approved = a])
      /\ x \in {"approving", "again", "approved"} => a \in Accounts
      /\ x = "approved" => ticket'.approved = a
  <2>1. CASE \E d \in Accounts : ReadOwnedPendingTicket(b, d)
    <3>1. PICK d \in Accounts : ReadOwnedPendingTicket(b, d)
      BY <2>1
    <3>2. UNCHANGED <<server, poll, client>> /\ approval'[b].account = d
      BY <3>1 DEF ReadOwnedPendingTicket, Types
    <3>3. approval'[b].pc = "approved" => ticket.approved = d
      BY <3>1 DEF ReadOwnedPendingTicket, Types
    <3>. QED
      BY <1>3, <3>2, <3>3 DEF server
  <2>2. CASE ApproveTicket(b)
    <3>1. approval[b].pc = "approving" /\ approval[b].account \in Accounts
      BY <2>2 DEF ApproveTicket, TicketInv
    <3>2. approval'[b].account = approval[b].account
      BY <2>2 DEF ApproveTicket, Answers, Types
    <3>3. CASE Approvable /\ ticket' = [ticket EXCEPT !.approved = approval[b].account]
      <4>1. ticket'.approved = approval[b].account
        BY <3>3 DEF Types
      <4>. QED
        BY <1>3, <2>2, <3>1, <3>2, <3>3, <4>1 DEF ApproveTicket
    <3>4. CASE Answers(b, "again") /\ UNCHANGED ticket
      <4>1. approval'[b].pc = "again"
        BY <3>4 DEF Answers, Types
      <4>. QED
        BY <1>3, <2>2, <3>1, <3>2, <3>4, <4>1 DEF ApproveTicket
    <3>. QED
      BY <2>2, <3>3, <3>4 DEF ApproveTicket
  <2>3. CASE ApprovedMeanwhile(b)
    <3>1. approval[b].pc = "again" /\ approval[b].account \in Accounts
      BY <2>3 DEF ApprovedMeanwhile, TicketInv
    <3>2. /\ approval'[b].account = approval[b].account
          /\ approval'[b].pc = "approved" => ticket.approved = approval[b].account
      BY <2>3 DEF ApprovedMeanwhile, Answers, Types
    <3>. QED
      BY <1>3, <2>3, <3>1, <3>2 DEF ApprovedMeanwhile, server
  <2>. QED
    BY <2>1, <2>2, <2>3
<1>5. /\ ticket' \in [approved : Accounts \cup {None}, redeemed : BOOLEAN, expired : BOOLEAN]
      /\ ticket'.redeemed = ticket.redeemed
      /\ \/ ticket'.approved = ticket.approved
         \/ ticket.approved = None /\ ~ticket.redeemed
  BY <1>4 DEF Types, Approvable
<1>6. Types'
  BY <1>3, <1>4, <1>5 DEF Types, client
<1>7. TicketInv'
  <2>1. \A d \in Browser : approval'[d].pc \in {"approving", "again", "approved"} =>
          approval'[d].account \in Accounts
    BY <1>3, <1>4 DEF TicketInv
  <2>2. \A d \in Browser : approval'[d].pc = "approved" => ticket'.approved = approval'[d].account
    <3>. SUFFICES ASSUME NEW d \in Browser, approval'[d].pc = "approved"
                  PROVE  ticket'.approved = approval'[d].account
      OBVIOUS
    <3>1. CASE d = b
      BY <1>3, <1>4, <3>1
    <3>2. CASE d # b
      <4>1. ticket.approved = approval[d].account /\ approval[d].account \in Accounts
        BY <1>3, <3>2 DEF TicketInv
      <4>. QED
        BY <1>3, <1>5, <3>2, <4>1 DEF CliConstants
    <3>. QED
      BY <3>1, <3>2
  <2>3. /\ cred'.account = IF ticket'.redeemed THEN ticket'.approved ELSE None
        /\ ticket'.redeemed => ticket'.approved \in Accounts
    BY <1>4, <1>5 DEF TicketInv
  <2>4. \A p \in Polls : poll[p].pc = "redeeming" \/ HasEnvelope(p) =>
          ticket'.approved = ticket.approved
    BY <1>5 DEF CliConstants, TicketInv
  <2>5. \A p \in Polls : HasEnvelope(p)' <=> HasEnvelope(p)
    BY <1>4 DEF HasEnvelope
  <2>. QED
    BY <1>4, <1>5, <2>1, <2>2, <2>3, <2>4, <2>5 DEF TicketInv
<1>8. SessionInv'
  BY <1>4, <1>5 DEF SessionInv, Undisturbed, client
<1>. QED
  BY <1>6, <1>7, <1>8

\* A poll of the waiting CLI: one of them redeems the ticket.
LEMMA PollKeeps ==
  ASSUME CliConstants, CliInv, NEW p \in Polls,
         PollTicket(p) \/ PollRefused(p) \/ Redeem(p) \/ LoginWrites(p)
  PROVE  CliInv'
<1>. USE DEF CliInv
<1>1. CASE PollTicket(p)
  <2>1. PICK r : r = [pc |-> "redeeming", account |-> ticket.approved, token |-> minted + 1]
    BY ZenonT(60)
  <2>2. /\ poll' = [poll EXCEPT ![p] = r] /\ ticket.approved \in Accounts /\ minted + 1 \in Nat
        /\ UNCHANGED <<ticket, cred, held, approval, client>> /\ minted' = minted + 1
    BY <1>1, <2>1 DEF PollTicket, Types
  <2>3. r \in [pc : PollStates, account : Accounts \cup {None}, token : Nat]
    BY <2>1, <2>2
  <2>4. poll' \in [Polls -> [pc : PollStates, account : Accounts \cup {None}, token : Nat]]
        /\ poll'[p] = r /\ \A q \in Polls \ {p} : poll'[q] = poll[q]
    BY <2>2, <2>3 DEF Types
  <2>5. r.pc = "redeeming" /\ r.account = ticket.approved /\ r.token > 0
    BY <2>1 DEF Types
  <2>6. Types'
    BY <2>2, <2>4 DEF Types, client
  <2>7. TicketInv'
    BY <2>2, <2>4, <2>5 DEF TicketInv, HasEnvelope
  <2>8. SessionInv'
    BY <2>2, <2>4, <2>5 DEF SessionInv, Undisturbed, client
  <2>. QED
    BY <2>6, <2>7, <2>8
<1>2. CASE PollRefused(p)
  <2>1. poll' = [poll EXCEPT ![p].pc = "refused"] /\ UNCHANGED <<server, approval, client>>
    BY <1>2 DEF PollRefused
  <2>2. /\ poll' \in [Polls -> [pc : PollStates, account : Accounts \cup {None}, token : Nat]]
        /\ poll'[p].pc = "refused" /\ \A q \in Polls \ {p} : poll'[q] = poll[q]
    BY Zenon, <2>1, PollMoves
  <2>3. Types'
    BY <2>1, <2>2 DEF Types, server, client
  <2>4. TicketInv'
    BY <2>1, <2>2 DEF TicketInv, HasEnvelope, server
  <2>5. SessionInv'
    BY <2>1, <2>2 DEF SessionInv, Undisturbed, server, client
  <2>. QED
    BY <2>3, <2>4, <2>5
<1>3. CASE Redeem(p)
  <2>1. PICK x \in {"envelope", "refused"} :
          /\ poll' = [poll EXCEPT ![p].pc = x]
          /\ x = "envelope" <=> ~ticket.redeemed
    BY Zenon, <1>3 DEF Redeem, Redeemed
  <2>2. /\ poll' \in [Polls -> [pc : PollStates, account : Accounts \cup {None}, token : Nat]]
        /\ poll'[p].pc = x /\ poll'[p].account = poll[p].account
        /\ poll'[p].token = poll[p].token
        /\ \A q \in Polls \ {p} : poll'[q] = poll[q]
    BY ZenonT(60), <2>1, PollMoves
  <2>3. UNCHANGED <<minted, approval, client>> /\ poll[p].pc = "redeeming"
    BY <1>3 DEF Redeem
  <2>4. CASE ticket.redeemed
    <3>1. UNCHANGED <<ticket, cred, held>> /\ x = "refused"
      BY <1>3, <2>1, <2>4 DEF Redeem
    <3>2. Types'
      BY <2>2, <2>3, <3>1 DEF Types, client
    <3>3. TicketInv'
      BY <2>2, <2>3, <3>1 DEF TicketInv, HasEnvelope
    <3>4. SessionInv'
      BY <2>2, <2>3, <3>1 DEF SessionInv, Undisturbed, client
    <3>. QED
      BY <3>2, <3>3, <3>4
  <2>5. CASE ~ticket.redeemed
    <3>1. /\ ticket' = [ticket EXCEPT !.redeemed = TRUE] /\ x = "envelope"
          /\ cred' = [account |-> ticket.approved, token |-> poll[p].token, live |-> TRUE]
          /\ held' = held \cup {poll[p].token}
      BY <1>3, <2>1, <2>5 DEF Redeem
    <3>2. poll[p].token \in Nat /\ poll[p].account \in Accounts \cup {None}
      BY DEF Types
    <3>3. /\ ticket' \in [approved : Accounts \cup {None}, redeemed : BOOLEAN, expired : BOOLEAN]
          /\ ticket'.approved = ticket.approved /\ ticket'.redeemed
          /\ cred'.account = ticket.approved /\ cred'.token = poll[p].token /\ cred'.live
          /\ cred' \in [account : Accounts \cup {None}, token : Nat, live : BOOLEAN]
          /\ held' \in SUBSET Nat /\ poll[p].token \in held' /\ \A t \in held : t \in held'
      BY Zenon, <3>1, <3>2 DEF Types
    <3>4. Types'
      BY <2>2, <2>3, <3>3 DEF Types, client
    <3>5. \A q \in Polls : ~HasEnvelope(q)
      BY <2>5 DEF TicketInv
    <3>6. TicketInv'
      BY <2>2, <2>3, <3>1, <3>3, <3>5 DEF TicketInv, HasEnvelope
    <3>7. SessionInv'
      BY <2>2, <2>3, <2>5, <3>1, <3>3, <3>5 DEF SessionInv, Undisturbed, HasEnvelope, client
    <3>. QED
      BY <3>4, <3>6, <3>7
  <2>. QED
    BY <2>4, <2>5
<1>4. CASE LoginWrites(p)
  <2>1. /\ poll' = [poll EXCEPT ![p].pc = "loggedIn"] /\ poll[p].pc = "envelope"
        /\ file' = poll[p].token /\ UNCHANGED <<server, approval, stale, call, job, logout, lost>>
    BY <1>4 DEF LoginWrites
  <2>2. /\ poll' \in [Polls -> [pc : PollStates, account : Accounts \cup {None}, token : Nat]]
        /\ poll'[p].pc = "loggedIn" /\ poll'[p].account = poll[p].account
        /\ poll'[p].token = poll[p].token
        /\ \A q \in Polls \ {p} : poll'[q] = poll[q]
    BY Zenon, <2>1, PollMoves
  <2>3. /\ poll[p].token \in Nat /\ poll[p].token > 0 /\ ticket.redeemed
        /\ \A q \in Polls \ {p} : poll[q].pc # "envelope"
    BY <2>1 DEF Types, TicketInv, HasEnvelope
  <2>4. Types'
    BY <2>1, <2>2, <2>3 DEF Types, server
  <2>5. TicketInv'
    BY <2>1, <2>2 DEF TicketInv, HasEnvelope, server
  <2>6. SessionInv'
    BY <2>1, <2>2, <2>3 DEF SessionInv, Undisturbed, server
  <2>. QED
    BY <2>4, <2>5, <2>6
<1>. QED
  BY <1>1, <1>2, <1>3, <1>4

\* Steps that leave the ticket, the row and the polls alone keep TicketInv.
LEMMA SameTicket ==
  ASSUME TicketInv, UNCHANGED <<ticket, approval, poll>>, cred'.account = cred.account,
         \A t \in held : t \in held'
  PROVE  TicketInv'
BY DEF TicketInv, HasEnvelope

\* A task of the provider.
LEMMA CallerKeeps ==
  ASSUME CliInv, NEW c \in Caller, Ask(c) \/ ReadCurrent(c) \/ Decide(c)
  PROVE  CliInv'
<1>. USE DEF CliInv
<1>1. call[c] \in [pc : CallStates, token : Nat, rejected : Nat]
  BY DEF Types
<1>2. PICK r \in [pc : CallStates, token : Nat, rejected : Nat] :
        /\ call' = [call EXCEPT ![c] = r]
        /\ r.pc # "failed" /\ (r.pc = "read" => file # 0)
  <2>1. CASE Ask(c)
    BY <1>1, <2>1 DEF Ask, Sets
  <2>2. CASE ReadCurrent(c)
    <3>1. file \in Nat
      BY DEF Types
    <3>2. CASE file = 0
      <4>1. PICK r : r = [call[c] EXCEPT !.pc = "noFile"]
        BY Zenon
      <4>2. r \in [pc : CallStates, token : Nat, rejected : Nat] /\ r.pc = "noFile"
        BY <1>1, <4>1
      <4>. QED
        BY Zenon, <2>2, <3>2, <4>1, <4>2 DEF ReadCurrent, Sets
    <3>3. CASE file # 0
      <4>1. PICK r : r = [call[c] EXCEPT !.pc = "read", !.token = file]
        OBVIOUS
      <4>2. r \in [pc : CallStates, token : Nat, rejected : Nat] /\ r.pc = "read"
        BY Zenon, <1>1, <3>1, <4>1
      <4>. QED
        BY Zenon, <2>2, <3>3, <4>1, <4>2 DEF ReadCurrent, Sets
    <3>. QED
      BY <3>2, <3>3
  <2>3. CASE Decide(c)
    <3>1. PICK x \in {"bearer", "wait"} : Sets(c, [call[c] EXCEPT !.pc = x])
      BY <2>3 DEF Decide
    <3>2. PICK r : r = [call[c] EXCEPT !.pc = x]
      BY Zenon
    <3>3. r \in [pc : CallStates, token : Nat, rejected : Nat] /\ r.pc = x
      BY <1>1, <3>2
    <3>. QED
      BY Zenon, <3>1, <3>2, <3>3 DEF Sets
  <2>. QED
    BY <2>1, <2>2, <2>3
<1>3. /\ call' \in [Caller -> [pc : CallStates, token : Nat, rejected : Nat]]
      /\ call'[c] = r /\ \A d \in Caller \ {c} : call'[d] = call[d]
  BY <1>2 DEF Types
<1>4. UNCHANGED <<ticket, cred, minted, held, approval, poll, file, stale, logout, lost>>
  BY DEF Ask, ReadCurrent, Decide, server, login
<1>5. /\ job' \in [pc : JobStates, rejected : Nat, seen : Nat, token : Nat]
      /\ job' = job \/ (call[c].pc = "read" /\ job'.pc = "start" /\ job.pc = "none")
  <2>1. CASE Joins(c) /\ call[c].pc = "read" /\ job.pc = "none"
    <3>1. job' = [pc |-> "start", rejected |-> call[c].rejected, seen |-> call[c].token,
                  token |-> 0]
      BY Zenon, <2>1 DEF Joins, NoJob
    <3>. QED
      BY <1>1, <2>1, <3>1
  <2>2. CASE UNCHANGED job
    BY <2>2 DEF Types
  <2>. QED
    BY <2>1, <2>2 DEF Ask, ReadCurrent, Decide, Joins
<1>6. Types'
  BY <1>3, <1>4, <1>5 DEF Types
<1>7. TicketInv'
  BY <1>4, SameTicket
<1>8. SessionInv'
  BY <1>2, <1>3, <1>4, <1>5 DEF Types, SessionInv, Undisturbed
<1>. QED
  BY <1>6, <1>7, <1>8

\* The refresh in flight.
LEMMA RefreshKeeps ==
  ASSUME CliInv,
         \/ RefreshStart \/ FindCredential \/ RotateCredential
         \/ WriteCredential \/ AnswerLost
  PROVE  CliInv'
<1>. USE DEF CliInv
<1>0. /\ file \in Nat /\ minted \in Nat /\ job.token \in Nat /\ cred.token \in Nat
      /\ job \in [pc : JobStates, rejected : Nat, seen : Nat, token : Nat]
      /\ cred \in [account : Accounts \cup {None}, token : Nat, live : BOOLEAN]
  BY DEF Types
<1>1. CASE RefreshStart
  <2>1. UNCHANGED <<ticket, cred, minted, held, approval, poll, file, stale, logout, lost>>
        /\ job.pc = "start"
    BY <1>1 DEF RefreshStart, server, login
  <2>2. CASE (file = 0 /\ Resolve(0, "noFile")) \/ (file # 0 /\ Resolve(file, "bearer"))
    <3>1. PICK pc \in {"noFile", "bearer"}, t \in Nat : Resolve(t, pc)
      BY <1>0, <2>2
    <3>2. /\ job'.pc = "none" /\ job' \in [pc : JobStates, rejected : Nat, seen : Nat, token : Nat]
          /\ call' \in [Caller -> [pc : CallStates, token : Nat, rejected : Nat]]
          /\ \A c \in Caller : call'[c].pc \in {call[c].pc, pc}
      BY <3>1, Resolves DEF NoJob
    <3>3. Types'
      BY <2>1, <3>2 DEF Types
    <3>4. TicketInv'
      BY <2>1, SameTicket
    <3>5. SessionInv'
      BY <2>1, <3>2 DEF SessionInv, Undisturbed
    <3>. QED
      BY <3>3, <3>4, <3>5
  <2>3. CASE file # 0 /\ job' = [job EXCEPT !.pc = "sent", !.token = file, !.seen = 0]
             /\ UNCHANGED call
    <3>1. /\ job'.pc = "sent" /\ job'.token = file
          /\ job' \in [pc : JobStates, rejected : Nat, seen : Nat, token : Nat]
      BY ZenonT(60), <1>0, <2>3
    <3>2. Types'
      BY <2>1, <2>3, <3>1 DEF Types
    <3>3. TicketInv'
      BY <2>1, SameTicket
    <3>4. SessionInv'
      BY <1>0, <2>1, <2>3, <3>1 DEF SessionInv, Undisturbed
    <3>. QED
      BY <3>2, <3>3, <3>4
  <2>. QED
    BY <1>1, <2>2, <2>3 DEF RefreshStart, Presented
<1>2. CASE (FindCredential \/ RotateCredential) /\ cred.live /\ cred.token = job.token
  <2>1. PICK x \in {"found", "rotated"}, t \in Nat :
          /\ job' = [job EXCEPT !.pc = x, !.token = t] /\ t > 0
          /\ cred' = [cred EXCEPT !.token = t]
          /\ x = "found" => t = job.token
    <3>1. CASE FindCredential
      <4>1. job' = [job EXCEPT !.pc = "found", !.token = job.token] /\ job.token > 0
        BY Zenon, <1>0, <1>2, <3>1 DEF FindCredential, SessionInv
      <4>2. cred' = [cred EXCEPT !.token = job.token]
        BY <1>0, <1>2, <3>1 DEF FindCredential, server
      <4>. QED
        BY Zenon, <1>0, <4>1, <4>2
    <3>2. CASE RotateCredential
      <4>1. /\ job' = [job EXCEPT !.pc = "rotated", !.token = minted + 1]
            /\ cred' = [cred EXCEPT !.token = minted + 1]
        BY <1>2, <3>2 DEF RotateCredential
      <4>2. minted + 1 \in Nat /\ minted + 1 > 0
        BY <1>0
      <4>. QED
        BY Zenon, <4>1, <4>2
    <3>. QED
      BY Zenon, <1>2, <3>1, <3>2
  <2>2. /\ UNCHANGED <<ticket, approval, poll, file, stale, logout, lost, call>>
        /\ minted' \in Nat /\ held' \in SUBSET Nat /\ \A u \in held : u \in held'
        /\ job.pc \in {"sent", "found"}
    BY <1>0, <1>2 DEF FindCredential, RotateCredential, Types, server, login
  <2>3. /\ job'.pc = x /\ job'.token = t
        /\ job' \in [pc : JobStates, rejected : Nat, seen : Nat, token : Nat]
        /\ cred'.token = t /\ cred'.live = cred.live /\ cred'.account = cred.account
        /\ cred' \in [account : Accounts \cup {None}, token : Nat, live : BOOLEAN]
    BY Zenon, <1>0, <2>1
  <2>4. Types'
    BY <2>2, <2>3 DEF Types
  <2>5. TicketInv'
    BY <2>2, <2>3, SameTicket
  <2>6. SessionInv'
    BY <1>2, <2>1, <2>2, <2>3 DEF SessionInv, Undisturbed
  <2>. QED
    BY <2>4, <2>5, <2>6
<1>3. CASE (FindCredential \/ RotateCredential) /\ ~(cred.live /\ cred.token = job.token)
  <2>1. /\ UNCHANGED <<ticket, cred, held, approval, poll, file, stale, logout, lost>>
        /\ minted' \in Nat /\ job.pc \in {"sent", "found"} /\ Resolve(0, "failed")
    BY <1>0, <1>3 DEF FindCredential, RotateCredential, server, login
  <2>2. /\ job'.pc = "none" /\ job' \in [pc : JobStates, rejected : Nat, seen : Nat, token : Nat]
        /\ call' \in [Caller -> [pc : CallStates, token : Nat, rejected : Nat]]
    BY <2>1, Resolves DEF NoJob
  <2>3. ~Undisturbed
    BY <1>3, <2>1 DEF SessionInv, Undisturbed
  <2>4. Types'
    BY <2>1, <2>2 DEF Types
  <2>5. TicketInv'
    BY <2>1, SameTicket
  <2>6. SessionInv'
    BY <2>1, <2>2, <2>3 DEF SessionInv, Undisturbed
  <2>. QED
    BY <2>4, <2>5, <2>6
<1>4. CASE WriteCredential
  <2>1. /\ UNCHANGED <<ticket, cred, minted, held, approval, poll, stale, logout, lost>>
        /\ job.pc = "rotated" /\ file' = job.token /\ Resolve(job.token, "bearer")
    BY <1>4 DEF WriteCredential, server, login
  <2>2. /\ job'.pc = "none" /\ job' \in [pc : JobStates, rejected : Nat, seen : Nat, token : Nat]
        /\ call' \in [Caller -> [pc : CallStates, token : Nat, rejected : Nat]]
        /\ \A c \in Caller : call'[c].pc \in {call[c].pc, "bearer"}
    BY <1>0, <2>1, Resolves DEF NoJob
  <2>3. Types'
    BY <1>0, <2>1, <2>2 DEF Types
  <2>4. TicketInv'
    BY <2>1, SameTicket
  <2>5. SessionInv'
    BY <1>0, <2>1, <2>2 DEF SessionInv, Undisturbed
  <2>. QED
    BY <2>3, <2>4, <2>5
<1>5. CASE AnswerLost
  <2>1. /\ UNCHANGED <<ticket, cred, minted, held, approval, poll, file, stale, logout>>
        /\ lost' = TRUE /\ Resolve(0, "failed") /\ job.pc # "none"
    BY <1>5 DEF AnswerLost, server, login
  <2>2. /\ job'.pc = "none" /\ job' \in [pc : JobStates, rejected : Nat, seen : Nat, token : Nat]
        /\ call' \in [Caller -> [pc : CallStates, token : Nat, rejected : Nat]]
    BY <2>1, Resolves DEF NoJob
  <2>3. Types'
    BY <2>1, <2>2 DEF Types
  <2>4. TicketInv'
    BY <2>1, SameTicket
  <2>5. SessionInv'
    BY <2>1, <2>2 DEF SessionInv, Undisturbed
  <2>. QED
    BY <2>3, <2>4, <2>5
<1>. QED
  BY <1>1, <1>2, <1>3, <1>4, <1>5

\* Logout, and what time does.
LEMMA RestKeeps ==
  ASSUME CliInv,
         \/ TicketExpires \/ CredentialExpires \/ \E t \in 1..MaxTokens : AccessEnds(t)
         \/ LogoutRead \/ Revoke \/ ClearCredential
  PROVE  CliInv'
<1>. USE DEF CliInv
<1>1. CASE TicketExpires
  <2>1. /\ ticket' = [ticket EXCEPT !.expired = TRUE]
        /\ UNCHANGED <<cred, minted, held, login, client>>
    BY <1>1 DEF TicketExpires
  <2>2. /\ ticket' \in [approved : Accounts \cup {None}, redeemed : BOOLEAN, expired : BOOLEAN]
        /\ ticket'.approved = ticket.approved /\ ticket'.redeemed = ticket.redeemed
    BY Zenon, <2>1 DEF Types
  <2>3. Types' /\ TicketInv'
    BY <2>1, <2>2 DEF Types, TicketInv, HasEnvelope, login, client
  <2>4. SessionInv'
    BY <2>1, <2>2 DEF SessionInv, Undisturbed, login, client
  <2>. QED
    BY <2>3, <2>4
<1>2. CASE \E t \in 1..MaxTokens : AccessEnds(t)
  BY <1>2, SameTicket DEF AccessEnds, Types, SessionInv, Undisturbed, server, login
<1>3. CASE LogoutRead \/ Revoke \/ ClearCredential \/ CredentialExpires
  <2>1. /\ UNCHANGED <<ticket, minted, held, approval, poll, stale, call, job, lost>>
        /\ file' \in Nat /\ cred'.account = cred.account
        /\ cred' \in [account : Accounts \cup {None}, token : Nat, live : BOOLEAN]
        /\ logout' \in [pc : {"idle", "revoke", "clear", "done"}, token : Nat]
        /\ ~Undisturbed'
    <3>1. CASE LogoutRead
      <4>1. /\ logout' = [pc |-> "revoke", token |-> file]
            /\ UNCHANGED <<server, login, file, stale, call, job, lost>>
        BY <3>1 DEF LogoutRead
      <4>2. logout'.pc = "revoke"
            /\ logout' \in [pc : {"idle", "revoke", "clear", "done"}, token : Nat]
        BY <4>1 DEF Types
      <4>. QED
        BY <4>1, <4>2 DEF Types, Undisturbed, server, login
    <3>2. CASE Revoke
      <4>1. PICK live \in BOOLEAN : cred' = [cred EXCEPT !.live = live]
        BY Zenon, <3>2 DEF Revoke, Types
      <4>2. /\ logout' = [logout EXCEPT !.pc = "clear"]
            /\ UNCHANGED <<ticket, minted, held, login, file, stale, call, job, lost>>
        BY <3>2 DEF Revoke
      <4>3. /\ logout'.pc = "clear"
            /\ logout' \in [pc : {"idle", "revoke", "clear", "done"}, token : Nat]
            /\ cred'.account = cred.account
            /\ cred' \in [account : Accounts \cup {None}, token : Nat, live : BOOLEAN]
        BY <4>1, <4>2 DEF Types
      <4>. QED
        BY <4>2, <4>3 DEF Types, Undisturbed, login
    <3>3. CASE ClearCredential
      <4>1. /\ logout' = [logout EXCEPT !.pc = "done"] /\ file' = 0
            /\ UNCHANGED <<server, login, stale, call, job, lost>>
        BY <3>3 DEF ClearCredential
      <4>2. /\ logout'.pc = "done"
            /\ logout' \in [pc : {"idle", "revoke", "clear", "done"}, token : Nat]
        BY <4>1 DEF Types
      <4>. QED
        BY <4>1, <4>2 DEF Types, Undisturbed, server, login
    <3>4. CASE CredentialExpires
      <4>1. /\ cred' = [cred EXCEPT !.live = FALSE]
            /\ UNCHANGED <<ticket, minted, held, login, client>>
        BY <3>4 DEF CredentialExpires
      <4>2. /\ ~cred'.live /\ cred'.account = cred.account
            /\ cred' \in [account : Accounts \cup {None}, token : Nat, live : BOOLEAN]
        BY Zenon, <4>1 DEF Types
      <4>. QED
        BY <4>1, <4>2 DEF Types, Undisturbed, login, client
    <3>. QED
      BY <1>3, <3>1, <3>2, <3>3, <3>4
  <2>2. ticket.redeemed
    BY <1>3 DEF LogoutRead, Revoke, ClearCredential, CredentialExpires, TicketInv, SessionInv
  <2>3. Types'
    BY <2>1 DEF Types
  <2>4. TicketInv'
    BY <2>1, SameTicket
  <2>5. SessionInv'
    BY <2>1, <2>2 DEF SessionInv, Undisturbed
  <2>. QED
    BY <2>3, <2>4, <2>5
<1>. QED
  BY <1>1, <1>2, <1>3

\* Every step keeps the invariant.
LEMMA NextKeeps == CliConstants /\ CliInv /\ [Next]_vars => CliInv'
<1>. SUFFICES ASSUME CliConstants, CliInv, [Next]_vars PROVE CliInv'
  OBVIOUS
<1>1. CASE UNCHANGED vars
  BY <1>1 DEF vars, CliInv, Types, TicketInv, SessionInv, Undisturbed, HasEnvelope
<1>2. CASE Next
  BY <1>2, BrowserKeeps, PollKeeps, CallerKeeps, RefreshKeeps, RestKeeps DEF Next
<1>. QED
  BY <1>1, <1>2

\* The invariant holds in every behaviour, for any sets of browsers, polls
\* and tasks.
THEOREM CliInvariance ==
  ASSUME CliConstants PROVE Spec => []CliInv
<1>1. Init => CliInv
  BY InitInv
<1>2. CliInv /\ [Next]_vars => CliInv'
  BY NextKeeps
<1>. QED
  BY <1>1, <1>2, PTL DEF Spec

\* A device ticket is approved for one account and redeemed once, however many
\* browsers approve it and however many polls redeem it (cli-auth/service.ts).
THEOREM TicketMakesOneLogin ==
  ASSUME CliConstants PROVE Spec => []OneLoginPerTicket
<1>1. CliInv => OneLoginPerTicket
  <2>. SUFFICES ASSUME CliInv PROVE OneLoginPerTicket
    OBVIOUS
  <2>1. ApprovalsAgree
    BY DEF CliInv, TicketInv, ApprovalsAgree
  <2>2. EnvelopeIsStored
    BY DEF CliInv, TicketInv, HasEnvelope, EnvelopeIsStored
  <2>. QED
    BY <2>1, <2>2 DEF OneLoginPerTicket
<1>. QED
  BY <1>1, CliInvariance, PTL

\* As long as the credential is live, nobody logs out and no answer is lost,
\* no task is told that the refresh failed, however many tasks are refused at
\* the same time and in whatever order they ask (cli-credential.ts).
THEOREM RotationIsSafe ==
  ASSUME CliConstants PROVE Spec => []RotationKeepsTheSession
<1>1. CliInv => RotationKeepsTheSession
  BY DEF CliInv, SessionInv, Undisturbed, RotationKeepsTheSession
<1>. QED
  BY <1>1, CliInvariance, PTL

-----------------------------------------------------------------------------
(***************************************************************************)
(* The edit queue of the browser.                                          *)
(*                                                                         *)
(* For any number of tabs, edits and other clients, and any number of page *)
(* loads, takeovers, expired leases and lost answers: no edit is lost.     *)
(*                                                                         *)
(* An edit leaves the queue when a drain is told that it was accepted, an  *)
(* await after the drain took it: DrainOK says that the record is still    *)
(* the first one or has gone already, and that what was accepted is in the *)
(* log. The draft stays the newest edit's because a queue is only ever     *)
(* extended by an edit that is new (TypedIsNew) and shortened at the       *)
(* front.                                                                  *)
(***************************************************************************)

\* The shapes of the state that the argument needs.
QueueRecords == [id : Edits, status : {"queued", "retry", "blocked"}]

DrainPcs == {"idle", "list", "clear", "check", "flight", "answered"}
Drains == [pc : DrainPcs, id : Edits \cup {None}, answer : {"none", "ok", "conflict", "error"}]

SyncShapes ==
  /\ log \in Seq(All) /\ saved \in Seq(Edits) /\ outbox \in Seq(QueueRecords)
  /\ DOMAIN text = All /\ late \subseteq Edits
  /\ drain \in [Tabs -> Drains]
  /\ DOMAIN tab = Tabs
  /\ \A t \in Tabs : "typed" \in DOMAIN tab[t] /\ tab[t].typed \in Seq(Edits)

\* An edit is typed once, in one tab, and is not in the queue before that tab
\* saves it.
TypedIsNew ==
  \A t \in Tabs : \A i \in DOMAIN tab[t].typed :
    /\ tab[t].typed[i] \notin Range(saved)
    /\ \A s \in Tabs : \A j \in DOMAIN tab[s].typed :
         tab[t].typed[i] = tab[s].typed[j] => s = t /\ i = j

\* The queue holds saved edits, each once.
QueueIsSaved ==
  \A i \in DOMAIN outbox :
    /\ outbox[i].id \in Range(saved)
    /\ \A j \in DOMAIN outbox : outbox[i].id = outbox[j].id => i = j

\* A drain works on the first record or on one that has gone, and an
\* acceptance it was told of is in the log.
DrainOK(d) ==
  /\ d.pc \in {"check", "flight", "answered"} =>
       /\ d.id \in Range(saved)
       /\ \A i \in DOMAIN outbox : outbox[i].id = d.id => i = 1
  /\ d.pc = "answered" /\ d.answer = "ok" => d.id \in Range(log)

\* The inductive invariant.
SyncInv ==
  /\ SyncShapes /\ TypedIsNew /\ QueueIsSaved
  /\ \A t \in Tabs : DrainOK(drain[t])
  /\ NoEditLost

-----------------------------------------------------------------------------
\* Sequences: appending, and taking the first element off.
LEMMA AppendedRange ==
  ASSUME NEW S, NEW q \in Seq(S), NEW e \in S
  PROVE  /\ Append(q, e) \in Seq(S) /\ Len(Append(q, e)) = Len(q) + 1
         /\ DOMAIN q = 1..Len(q) /\ DOMAIN Append(q, e) = 1..(Len(q) + 1)
         /\ \A i \in 1..Len(q) : Append(q, e)[i] = q[i]
         /\ Append(q, e)[Len(q) + 1] = e
         /\ Range(Append(q, e)) = Range(q) \cup {e}
<1>1. /\ Append(q, e) \in Seq(S) /\ Len(Append(q, e)) = Len(q) + 1
      /\ DOMAIN q = 1..Len(q) /\ DOMAIN Append(q, e) = 1..(Len(q) + 1)
      /\ \A i \in 1..Len(q) : Append(q, e)[i] = q[i]
      /\ Append(q, e)[Len(q) + 1] = e
  OBVIOUS
<1>2. Len(q) \in Nat
  OBVIOUS
<1>3. DOMAIN Append(q, e) = DOMAIN q \cup {Len(q) + 1}
  BY <1>1, <1>2
<1>4. \A i \in DOMAIN q : Append(q, e)[i] = q[i]
  BY <1>1
<1>5. Range(Append(q, e)) = Range(q) \cup {e}
  BY <1>1, <1>3, <1>4 DEF Range
<1> QED
  BY <1>1, <1>5

LEMMA WithoutFirst ==
  ASSUME NEW S, NEW q \in Seq(S), q # <<>>
  PROVE  LET r == SubSeq(q, 1, 0) \o SubSeq(q, 2, Len(q))
         IN /\ r \in Seq(S) /\ Len(q) \in Nat \ {0}
            /\ Len(r) = Len(q) - 1
            /\ \A i \in 1..(Len(q) - 1) : r[i] = q[i + 1]
<1>1. Len(q) \in Nat \ {0}
  OBVIOUS
<1>2. SubSeq(q, 1, 0) = <<>>
  OBVIOUS
<1> DEFINE t == SubSeq(q, 2, Len(q))
<1>3. t \in Seq(S) /\ Len(t) = Len(q) - 1 /\ \A i \in 1..(Len(q) - 1) : t[i] = q[i + 1]
  <2>1. Len(q) - 1 \in Nat /\ Len(q) - 1 = Len(q) - 2 + 1 /\ 2 \in 1..(Len(q) + 1)
    BY <1>1
  <2>2. t = [i \in 1..(Len(q) - 1) |-> q[i + 1]]
    BY <1>1
  <2>3. \A i \in 1..(Len(q) - 1) : i + 1 \in 1..Len(q)
    BY <1>1
  <2>4. \A i \in 1..(Len(q) - 1) : q[i + 1] \in S
    BY <2>3
  <2> QED
    BY <2>1, <2>2, <2>4
<1> HIDE DEF t
<1>4. <<>> \o t = t
  BY <1>3
<1> QED
  BY <1>1, <1>2, <1>3, <1>4 DEF t

\* Every tab keeps what it typed, or has nothing typed any more.
TypedStays ==
  /\ DOMAIN tab' = Tabs
  /\ \A s \in Tabs : /\ "typed" \in DOMAIN tab'[s]
                     /\ tab'[s].typed = tab[s].typed \/ tab'[s].typed = <<>>

\* Edits that are dropped from a tab's list stay new elsewhere.
LEMMA TypedStaysNew ==
  ASSUME SyncInv, TypedStays, UNCHANGED saved
  PROVE  /\ TypedIsNew'
         /\ \A s \in Tabs : "typed" \in DOMAIN tab'[s] /\ tab'[s].typed \in Seq(Edits)
<1>1. \A s \in Tabs : /\ tab[s].typed \in Seq(Edits) /\ <<>> \in Seq(Edits)
                      /\ DOMAIN <<>> = {}
  BY DEF SyncInv, SyncShapes
<1>2. \A s \in Tabs : \A j \in DOMAIN tab'[s].typed :
        j \in DOMAIN tab[s].typed /\ tab'[s].typed[j] = tab[s].typed[j]
  BY <1>1 DEF TypedStays
<1>3. TypedIsNew'
  BY <1>2 DEF SyncInv, TypedIsNew
<1> QED
  BY Zenon, <1>1, <1>3 DEF TypedStays

\* The newest record.
LEMMA NewestIsSaved ==
  ASSUME SyncInv, outbox # <<>>
  PROVE  outbox[Len(outbox)].id \in Edits /\ outbox[Len(outbox)].id \in Range(saved)
<1>1. Len(outbox) \in DOMAIN outbox /\ outbox[Len(outbox)] \in QueueRecords
  BY DEF SyncInv, SyncShapes
<1> QED
  BY <1>1 DEF SyncInv, QueueIsSaved, QueueRecords

\* Steps that leave the queue and the draft alone.
LEMMA QueueStays ==
  ASSUME SyncInv, TypedStays, UNCHANGED <<outbox, draft, saved, discarded>>,
         log' \in Seq(All), Range(log) \subseteq Range(log'),
         DOMAIN text' = All, \A e \in Edits : e \in Range(saved) => text'[e] = text[e],
         late' \subseteq Edits, drain' \in [Tabs -> Drains],
         \A s \in Tabs : drain'[s] = drain[s] \/ DrainOK(drain[s])'
  PROVE  SyncInv'
<1>1. SyncShapes' /\ TypedIsNew'
  BY TypedStaysNew DEF SyncInv, SyncShapes, TypedStays
<1>2. QueueIsSaved'
  BY DEF SyncInv, QueueIsSaved
<1>3. \A s \in Tabs : DrainOK(drain[s])'
  BY DEF SyncInv, DrainOK
<1>4. SavedIsSomewhere'
  BY ZenonT(60) DEF SyncInv, NoEditLost, SavedIsSomewhere, In, Queued
<1>5. DraftIsNewest'
  <2> SUFFICES ASSUME outbox # <<>> PROVE draft = text'[outbox[Len(outbox)].id]
    BY DEF DraftIsNewest
  <2> QED
    BY NewestIsSaved DEF SyncInv, NoEditLost, DraftIsNewest
<1> QED
  BY ZenonT(60), <1>1, <1>2, <1>3, <1>4, <1>5 DEF SyncInv, NoEditLost

\* Steps that change neither the stores nor the log.
LEMMA StoreStays ==
  ASSUME SyncInv, TypedStays, UNCHANGED <<outbox, draft, saved, discarded, log, text>>,
         late' \subseteq Edits, drain' \in [Tabs -> Drains],
         \A s \in Tabs : drain'[s] = drain[s] \/ DrainOK(drain[s])'
  PROVE  SyncInv'
<1>1. log' \in Seq(All) /\ Range(log) \subseteq Range(log') /\ DOMAIN text' = All
  BY DEF SyncInv, SyncShapes
<1> QED
  BY <1>1, QueueStays

LEMMA OnlyTabs ==
  ASSUME SyncInv, TypedStays,
         UNCHANGED <<outbox, draft, saved, discarded, log, text, drain, late>>
  PROVE  SyncInv'
BY StoreStays DEF SyncInv, SyncShapes

LEMMA SameTabs ==
  ASSUME SyncInv, UNCHANGED tab
  PROVE  TypedStays
BY DEF SyncInv, SyncShapes, TypedStays

-----------------------------------------------------------------------------
\* One lemma per action.
LEMMA OpenSteps ==
  ASSUME SyncInv, NEW t \in Tabs, Open(t)
  PROVE  SyncInv'
<1>1. TypedStays
  BY DEF Open, Closed, TypedStays, SyncInv, SyncShapes
<1> QED
  BY <1>1, OnlyTabs DEF Open, storeVars, history

LEMMA AcquireSteps ==
  ASSUME SyncInv, NEW t \in Tabs, Acquire(t)
  PROVE  SyncInv'
<1>1. \/ tab' = [tab EXCEPT ![t].pc = "list", ![t].writer = TRUE]
      \/ tab' = [tab EXCEPT ![t].pc = "list"]
  BY Zenon DEF Acquire
<1>2. TypedStays
  BY ZenonT(60), <1>1 DEF TypedStays, SyncInv, SyncShapes
<1> QED
  BY <1>2, OnlyTabs DEF Acquire, history

LEMMA ListPendingSteps ==
  ASSUME SyncInv, NEW t \in Tabs, ListPending(t)
  PROVE  SyncInv'
<1>1. TypedStays
  BY DEF ListPending, TypedStays, SyncInv, SyncShapes
<1> QED
  BY <1>1, OnlyTabs DEF ListPending, storeVars, history

LEMMA RestoreSteps ==
  ASSUME SyncInv, NEW t \in Tabs, Restore(t)
  PROVE  SyncInv'
<1>1. TypedStays
  BY DEF Restore, TypedStays, SyncInv, SyncShapes
<1> QED
  BY <1>1, OnlyTabs DEF Restore, storeVars, history

LEMMA TakeOverSteps ==
  ASSUME SyncInv, NEW t \in Tabs, TakeOver(t)
  PROVE  SyncInv'
<1>1. TypedStays
  BY DEF TakeOver, TypedStays, SyncInv, SyncShapes
<1> QED
  BY <1>1, OnlyTabs DEF TakeOver, history

LEMMA RenewFailsSteps ==
  ASSUME SyncInv, NEW t \in Tabs, RenewFails(t)
  PROVE  SyncInv'
<1>1. TypedStays
  BY DEF RenewFails, TypedStays, SyncInv, SyncShapes
<1> QED
  BY <1>1, OnlyTabs DEF RenewFails, storeVars, history

LEMMA ExpireSteps ==
  ASSUME SyncInv, Expire
  PROVE  SyncInv'
BY SameTabs, OnlyTabs DEF Expire, history

LEMMA PollSteps ==
  ASSUME SyncInv, NEW t \in Tabs, Poll(t)
  PROVE  SyncInv'
<1>1. TypedStays
  BY DEF Poll, TypedStays, SyncInv, SyncShapes
<1> QED
  BY <1>1, OnlyTabs DEF Poll, storeVars, history

LEMMA ReceiveSteps ==
  ASSUME SyncInv, NEW t \in Tabs, Receive(t)
  PROVE  SyncInv'
<1>1. \/ UNCHANGED tab
      \/ \E v, n : tab' = [tab EXCEPT ![t].view = v, ![t].next = n]
  BY Zenon DEF Receive
<1>2. TypedStays
  <2>1. CASE UNCHANGED tab
    BY <2>1, SameTabs
  <2>2. ASSUME NEW v, NEW n, tab' = [tab EXCEPT ![t].view = v, ![t].next = n]
        PROVE  TypedStays
    BY <2>2 DEF TypedStays, SyncInv, SyncShapes
  <2> QED
    BY Zenon, <1>1, <2>1, <2>2
<1> QED
  BY <1>2, OnlyTabs DEF Receive, storeVars, history

LEMMA RecoverFetchSteps ==
  ASSUME SyncInv, NEW t \in Tabs, RecoverFetch(t)
  PROVE  SyncInv'
<1>1. TypedStays
  BY DEF RecoverFetch, TypedStays, SyncInv, SyncShapes
<1> QED
  BY <1>1, OnlyTabs DEF RecoverFetch, storeVars, history

-----------------------------------------------------------------------------
\* A drain at rest.
LEMMA IdleIsFine ==
  Idle \in Drains /\ DrainOK(Idle)
BY DEF Idle, Drains, DrainPcs, DrainOK

\* One drain loop moves.
LEMMA DrainMoves ==
  ASSUME SyncInv, NEW t \in Tabs, NEW d \in Drains, drain' = [drain EXCEPT ![t] = d]
  PROVE  /\ drain' \in [Tabs -> Drains]
         /\ \A s \in Tabs : drain'[s] = IF s = t THEN d ELSE drain[s]
BY DEF SyncInv, SyncShapes

\* A drain under way has an edit.
LEMMA FlightId ==
  ASSUME SyncInv, NEW t \in Tabs, drain[t].pc \in {"check", "flight", "answered"}
  PROVE  drain[t].id \in Edits
<1>1. drain[t].id \in Range(saved) /\ saved \in Seq(Edits)
  BY DEF SyncInv, SyncShapes, DrainOK
<1> QED
  BY <1>1 DEF Range

LEMMA CloseSteps ==
  ASSUME SyncInv, NEW t \in Tabs, Close(t)
  PROVE  SyncInv'
<1>1. TypedStays
  BY DEF Close, Closed, TypedStays, SyncInv, SyncShapes
<1>2. drain' = [drain EXCEPT ![t] = Idle] /\ UNCHANGED <<outbox, draft, saved, discarded, log, text>>
  BY DEF Close, history
<1>3. DrainOK(Idle)'
  BY DEF DrainOK, Idle
<1>4. late' \subseteq Edits
  BY FlightId DEF Close, SyncInv, SyncShapes
<1> QED
  BY Zenon, <1>1, <1>2, <1>3, <1>4, IdleIsFine, DrainMoves, StoreStays

\* A drain that ends.
LEMMA EndsMoves ==
  ASSUME SyncInv, NEW t \in Tabs, NEW result, Ends(t, result)
  PROVE  TypedStays /\ drain' = [drain EXCEPT ![t] = Idle]
<1>1. TypedStays
  BY DEF Ends, TypedStays, SyncInv, SyncShapes
<1> QED
  BY <1>1 DEF Ends

LEMMA DrainSteps ==
  ASSUME SyncInv, NEW t \in Tabs, Drain(t)
  PROVE  SyncInv'
<1>1. TypedStays
  BY DEF Drain, TypedStays, SyncInv, SyncShapes
<1> DEFINE pc == IF tab[t].writer THEN "list" ELSE "idle"
           d == [drain[t] EXCEPT !.pc = pc]
<1>2. drain[t] \in Drains
  BY DEF SyncInv, SyncShapes
<1>3. drain' = [drain EXCEPT ![t] = d]
  BY DEF Drain, SyncInv, SyncShapes
<1>4. pc \in DrainPcs /\ pc \notin {"check", "flight", "answered"}
  BY DEF DrainPcs
<1> HIDE DEF pc
<1>5. d \in Drains /\ d.pc = pc
  BY <1>2, <1>4 DEF Drains
<1>6. PICK u : u = d
  BY Zenon
<1> HIDE DEF d
<1>7. DrainOK(u)'
  BY <1>4, <1>5, <1>6 DEF DrainOK
<1> QED
  BY Zenon, <1>1, <1>3, <1>5, <1>6, <1>7, DrainMoves, StoreStays
     DEF Drain, storeVars, history, SyncInv, SyncShapes

LEMMA DrainListSteps ==
  ASSUME SyncInv, NEW t \in Tabs, DrainList(t)
  PROVE  SyncInv'
<1>1. UNCHANGED <<outbox, draft, saved, discarded, log, text>> /\ late' \subseteq Edits
  BY DEF DrainList, storeVars, history, SyncInv, SyncShapes
<1>2. drain[t] \in Drains
  BY DEF SyncInv, SyncShapes
<1>3. CASE drain' = [drain EXCEPT ![t].pc = "clear"] /\ UNCHANGED tab
  <2> DEFINE d == [drain[t] EXCEPT !.pc = "clear"]
  <2>1. d \in Drains /\ d.pc = "clear"
    BY <1>2 DEF Drains, DrainPcs
  <2>2. drain' = [drain EXCEPT ![t] = d]
    BY <1>3 DEF SyncInv, SyncShapes
  <2>3. PICK u : u = d
    BY Zenon
  <2> HIDE DEF d
  <2>4. DrainOK(u)'
    BY <2>1, <2>3 DEF DrainOK
  <2> QED
    BY Zenon, <1>1, <1>3, <2>1, <2>2, <2>3, <2>4, SameTabs, DrainMoves, StoreStays
<1>4. CASE Ends(t, "blocked")
  <2>1. DrainOK(Idle)'
    BY DEF DrainOK, Idle
  <2> QED
    BY <1>1, <1>4, <2>1, EndsMoves, IdleIsFine, DrainMoves, StoreStays
<1>5. CASE /\ outbox # <<>>
           /\ drain' = [drain EXCEPT ![t].pc = "check", ![t].id = outbox[1].id]
           /\ UNCHANGED tab
  <2>1. 1 \in DOMAIN outbox /\ outbox[1] \in QueueRecords
    BY <1>5 DEF SyncInv, SyncShapes
  <2>2. outbox[1].id \in Edits /\ outbox[1].id \in Range(saved)
        /\ \A i \in DOMAIN outbox : outbox[i].id = outbox[1].id => i = 1
    BY <2>1 DEF SyncInv, QueueIsSaved, QueueRecords
  <2>3. PICK e : e = outbox[1].id
    OBVIOUS
  <2> DEFINE d == [drain[t] EXCEPT !.pc = "check", !.id = e]
  <2>4. d \in Drains /\ d.pc = "check" /\ d.id = e
    BY Zenon, <1>2, <2>2, <2>3 DEF Drains, DrainPcs
  <2>5. drain' = [drain EXCEPT ![t] = d]
    BY ZenonT(60), <1>5, <2>3 DEF SyncInv, SyncShapes
  <2>6. PICK u : u = d
    OBVIOUS
  <2> HIDE DEF d
  <2>7. DrainOK(u)'
    BY <1>1, <2>2, <2>3, <2>4, <2>6 DEF DrainOK
  <2> QED
    BY Zenon, <1>1, <1>5, <2>4, <2>5, <2>6, <2>7, SameTabs, DrainMoves, StoreStays
<1> QED
  BY <1>3, <1>4, <1>5 DEF DrainList

\* The draft is forgotten only with an empty queue.
LEMMA DrainClearSteps ==
  ASSUME SyncInv, NEW t \in Tabs, DrainClear(t)
  PROVE  SyncInv'
<1>1. UNCHANGED <<outbox, saved, discarded, log, text>> /\ late' \subseteq Edits
  BY DEF DrainClear, history, SyncInv, SyncShapes
<1>2. TypedStays /\ drain' = [drain EXCEPT ![t] = Idle]
  BY EndsMoves DEF DrainClear
<1>3. DrainOK(Idle)'
  BY DEF DrainOK, Idle
<1>4. drain' \in [Tabs -> Drains] /\ \A s \in Tabs : drain'[s] = drain[s] \/ DrainOK(drain[s])'
  BY ZenonT(60), <1>2, <1>3, IdleIsFine, DrainMoves
<1>5. CASE UNCHANGED draft
  BY <1>1, <1>2, <1>4, <1>5, StoreStays
<1>6. CASE outbox = <<>>
  <2>1. SyncShapes' /\ TypedIsNew'
    BY Zenon, <1>1, <1>2, <1>4, TypedStaysNew DEF SyncInv, SyncShapes, TypedStays
  <2>2. QueueIsSaved' /\ \A s \in Tabs : DrainOK(drain[s])'
    BY ZenonT(60), <1>1, <1>4 DEF SyncInv, QueueIsSaved, DrainOK
  <2>3. NoEditLost'
    BY Zenon, <1>1, <1>6 DEF SyncInv, NoEditLost, SavedIsSomewhere, DraftIsNewest, In, Queued
  <2> QED
    BY <2>1, <2>2, <2>3 DEF SyncInv
<1> QED
  BY <1>5, <1>6 DEF DrainClear

LEMMA DrainCheckSteps ==
  ASSUME SyncInv, NEW t \in Tabs, DrainCheck(t)
  PROVE  SyncInv'
<1>1. UNCHANGED <<outbox, draft, saved, discarded, log, text>> /\ late' \subseteq Edits
  BY DEF DrainCheck, storeVars, history, SyncInv, SyncShapes
<1>2. drain[t] \in Drains /\ drain[t].pc = "check" /\ DrainOK(drain[t])
  BY DEF SyncInv, SyncShapes, DrainCheck
<1>3. CASE drain' = [drain EXCEPT ![t].pc = "flight"] /\ UNCHANGED tab
  <2> DEFINE d == [drain[t] EXCEPT !.pc = "flight"]
  <2>1. d \in Drains /\ d.pc = "flight" /\ d.id = drain[t].id
    BY <1>2 DEF Drains, DrainPcs
  <2>2. drain' = [drain EXCEPT ![t] = d]
    BY <1>3 DEF SyncInv, SyncShapes
  <2>3. PICK u : u = d
    BY Zenon
  <2> HIDE DEF d
  <2>4. DrainOK(u)'
    BY <1>1, <1>2, <2>1, <2>3 DEF DrainOK
  <2> QED
    BY Zenon, <1>1, <1>3, <2>1, <2>2, <2>3, <2>4, SameTabs, DrainMoves, StoreStays
<1>4. CASE /\ drain' = [drain EXCEPT ![t] = Idle]
           /\ tab' = [tab EXCEPT ![t].writer = FALSE, ![t].timer = TRUE]
  <2>1. TypedStays
    BY <1>4 DEF TypedStays, SyncInv, SyncShapes
  <2>2. DrainOK(Idle)'
    BY DEF DrainOK, Idle
  <2> QED
    BY ZenonT(60), <1>1, <1>4, <2>1, <2>2, IdleIsFine, DrainMoves, StoreStays
<1> QED
  BY Zenon, <1>3, <1>4 DEF DrainCheck

-----------------------------------------------------------------------------
\* What reaches the server is added to the log, or was in it.
LEMMA ArrivesGrows ==
  ASSUME SyncInv, NEW e \in Edits, Arrives(e)
  PROVE  /\ log' \in Seq(All) /\ Range(log) \subseteq Range(log')
         /\ In(e, log) \/ Accepts(e) => e \in Range(log')
<1>1. log \in Seq(All) /\ e \in All
  BY Zenon DEF SyncInv, SyncShapes, All
<1>2. CASE Accepts(e)
  BY <1>1, <1>2, AppendedRange DEF Arrives
<1>3. CASE ~Accepts(e)
  BY <1>1, <1>3 DEF Arrives, In
<1> QED
  BY <1>2, <1>3

\* A drain that was answered.
LEMMA AnsweredDrain ==
  ASSUME SyncInv, NEW t \in Tabs, drain[t].pc = "flight",
         NEW a \in {"ok", "conflict", "error"},
         drain' = [drain EXCEPT ![t].pc = "answered", ![t].answer = a]
  PROVE  \E d \in Drains : /\ drain' = [drain EXCEPT ![t] = d]
                           /\ d.pc = "answered" /\ d.answer = a /\ d.id = drain[t].id
<1> DEFINE d == [drain[t] EXCEPT !.pc = "answered", !.answer = a]
<1>1. drain[t] \in Drains
  BY DEF SyncInv, SyncShapes
<1>2. d \in Drains /\ d.pc = "answered" /\ d.answer = a /\ d.id = drain[t].id
  BY Zenon, <1>1 DEF Drains, DrainPcs
<1>3. drain' = [drain EXCEPT ![t] = d]
  BY Zenon DEF SyncInv, SyncShapes
<1> HIDE DEF d
<1> QED
  BY Zenon, <1>2, <1>3

LEMMA ServeSteps ==
  ASSUME SyncInv, NEW t \in Tabs, Serve(t)
  PROVE  SyncInv'
<1>1. UNCHANGED <<outbox, draft, saved, discarded, text, tab>> /\ drain[t].pc = "flight"
      /\ DrainOK(drain[t])
  BY DEF Serve, storeVars, history, SyncInv
<1>2. PICK e : e = drain[t].id
  OBVIOUS
<1>3. e \in Edits
  BY <1>1, <1>2, FlightId
<1>4. /\ log' \in Seq(All) /\ Range(log) \subseteq Range(log')
      /\ In(e, log) \/ Accepts(e) => e \in Range(log')
  BY <1>2, <1>3, ArrivesGrows DEF Serve
<1>5. PICK a \in {"ok", "conflict", "error"} :
         /\ drain' = [drain EXCEPT ![t].pc = "answered", ![t].answer = a]
         /\ a = "ok" => In(e, log) \/ Accepts(e)
  BY <1>2 DEF Serve
<1>6. PICK d \in Drains : /\ drain' = [drain EXCEPT ![t] = d]
                          /\ d.pc = "answered" /\ d.answer = a /\ d.id = drain[t].id
  BY Zenon, <1>1, <1>5, AnsweredDrain
<1>7. DrainOK(d)'
  BY <1>1, <1>2, <1>4, <1>5, <1>6 DEF DrainOK
<1>8. DOMAIN text' = All /\ late' \subseteq Edits
  BY <1>1 DEF Serve, SyncInv, SyncShapes
<1> QED
  BY Zenon, <1>1, <1>4, <1>6, <1>7, <1>8, SameTabs, DrainMoves, QueueStays

LEMMA SendFailsSteps ==
  ASSUME SyncInv, NEW t \in Tabs, SendFails(t)
  PROVE  SyncInv'
<1>1. UNCHANGED <<outbox, draft, saved, discarded, log, text, tab>> /\ drain[t].pc = "flight"
      /\ DrainOK(drain[t])
  BY DEF SendFails, storeVars, history, SyncInv
<1>2. PICK d \in Drains : /\ drain' = [drain EXCEPT ![t] = d]
                          /\ d.pc = "answered" /\ d.answer = "error" /\ d.id = drain[t].id
  BY Zenon, <1>1, AnsweredDrain DEF SendFails
<1>3. DrainOK(d)'
  BY <1>1, <1>2 DEF DrainOK
<1>4. late' \subseteq Edits
  BY <1>1, FlightId DEF SendFails, SyncInv, SyncShapes
<1> QED
  BY Zenon, <1>1, <1>2, <1>3, <1>4, SameTabs, DrainMoves, StoreStays

LEMMA ForeignAppendSteps ==
  ASSUME SyncInv, NEW f \in Foreign, ForeignAppend(f)
  PROVE  SyncInv'
<1>1. UNCHANGED <<outbox, draft, saved, discarded, tab, drain, late>>
  BY DEF ForeignAppend, storeVars
<1>2. log' \in Seq(All) /\ Range(log) \subseteq Range(log')
  BY AppendedRange DEF ForeignAppend, All, SyncInv, SyncShapes
<1>3. DOMAIN text' = All /\ \A e \in Edits : text'[e] = text[e]
  BY ZenonT(60), SyncConstants DEF ForeignAppend, All, SyncInv, SyncShapes
<1> QED
  BY Zenon, <1>1, <1>2, <1>3, SameTabs, QueueStays DEF SyncInv, SyncShapes

LEMMA ArrivesLateSteps ==
  ASSUME SyncInv, NEW e \in late, ArrivesLate(e)
  PROVE  SyncInv'
<1>1. UNCHANGED <<outbox, draft, saved, discarded, text, tab, drain>> /\ late' \subseteq Edits
      /\ e \in Edits /\ DOMAIN text' = All
  BY DEF ArrivesLate, storeVars, history, SyncInv, SyncShapes
<1>2. log' \in Seq(All) /\ Range(log) \subseteq Range(log')
  BY <1>1, ArrivesGrows DEF ArrivesLate
<1> QED
  BY ZenonT(60), <1>1, <1>2, SameTabs, QueueStays DEF SyncInv, SyncShapes

\* A new edit is none of the saved ones, so the draft of the queue stays.
LEMMA TypeSteps ==
  ASSUME SyncInv, NEW t \in Tabs, NEW e \in Edits, Type(t, e)
  PROVE  SyncInv'
<1>1. UNCHANGED <<log, outbox, draft, drain, late, saved, discarded>>
  BY DEF Type, storeVars
<1>2. e \notin Range(saved) /\ \A s \in Tabs : e \notin Range(tab[s].typed)
  BY DEF Type, In
<1>3. PICK w : w = Append(tab[t].typed, e)
  BY ZenonT(60)
<1>4. /\ DOMAIN tab' = Tabs
      /\ \A s \in Tabs : /\ "typed" \in DOMAIN tab'[s]
                         /\ tab'[s].typed = IF s = t THEN w ELSE tab[s].typed
  BY <1>3 DEF Type, SyncInv, SyncShapes
<1>5. tab[t].typed \in Seq(Edits)
  BY Zenon DEF SyncInv, SyncShapes
<1>6. /\ w \in Seq(Edits) /\ Len(tab[t].typed) \in Nat
      /\ DOMAIN tab[t].typed = 1..Len(tab[t].typed) /\ DOMAIN w = 1..(Len(tab[t].typed) + 1)
      /\ \A i \in 1..Len(tab[t].typed) : w[i] = tab[t].typed[i]
      /\ w[Len(tab[t].typed) + 1] = e
  BY <1>3, <1>5, AppendedRange
<1>7. PICK n \in Nat : n = Len(tab[t].typed) + 1
  BY <1>6
<1>8. /\ DOMAIN w = DOMAIN tab[t].typed \cup {n} /\ n \notin DOMAIN tab[t].typed /\ w[n] = e
      /\ \A i \in DOMAIN tab[t].typed : w[i] = tab[t].typed[i]
  BY <1>6, <1>7
<1>9. \A s \in Tabs : \A j \in DOMAIN tab[s].typed : tab[s].typed[j] # e
  BY <1>2 DEF Range
<1>10. TypedIsNew'
  <2> SUFFICES ASSUME NEW s \in Tabs, NEW i \in DOMAIN tab'[s].typed
               PROVE  /\ tab'[s].typed[i] \notin Range(saved)
                      /\ \A r \in Tabs : \A j \in DOMAIN tab'[r].typed :
                           tab'[s].typed[i] = tab'[r].typed[j] => r = s /\ i = j
    BY <1>1 DEF TypedIsNew
  <2>1. \/ s = t /\ i = n /\ tab'[s].typed[i] = e
        \/ i \in DOMAIN tab[s].typed /\ tab'[s].typed[i] = tab[s].typed[i]
    BY <1>4, <1>8
  <2>2. \A r \in Tabs : \A j \in DOMAIN tab'[r].typed :
          \/ r = t /\ j = n /\ tab'[r].typed[j] = e
          \/ j \in DOMAIN tab[r].typed /\ tab'[r].typed[j] = tab[r].typed[j]
    BY <1>4, <1>8
  <2> QED
    BY <1>2, <1>9, <2>1, <2>2 DEF SyncInv, TypedIsNew
<1>11. DOMAIN text' = All /\ \A d \in Edits : d \in Range(saved) => text'[d] = text[d]
  BY <1>2 DEF Type, SyncInv, SyncShapes, All
<1>12. SyncShapes'
  BY ZenonT(60), <1>1, <1>4, <1>6, <1>11 DEF SyncInv, SyncShapes
<1>13. QueueIsSaved' /\ (\A s \in Tabs : DrainOK(drain[s])') /\ SavedIsSomewhere'
  BY <1>1 DEF SyncInv, QueueIsSaved, DrainOK, NoEditLost, SavedIsSomewhere, In, Queued
<1>14. DraftIsNewest'
  BY ZenonT(60), <1>1, <1>11, NewestIsSaved DEF SyncInv, NoEditLost, DraftIsNewest
<1> QED
  BY ZenonT(60), <1>10, <1>12, <1>13, <1>14 DEF SyncInv, NoEditLost

\* A sequence is its first element and the rest.
LEMMA HeadAndTail ==
  ASSUME NEW S, NEW q \in Seq(S), q # <<>>
  PROVE  /\ Head(q) \in S /\ Head(q) = q[1] /\ 1 \in DOMAIN q /\ Tail(q) \in Seq(S)
         /\ \A i \in DOMAIN Tail(q) : i + 1 \in DOMAIN q /\ i + 1 # 1 /\ i \in Nat
                                      /\ Tail(q)[i] = q[i + 1]
<1>1. Len(q) \in Nat \ {0} /\ Len(Tail(q)) = Len(q) - 1 /\ Tail(q) \in Seq(S)
      /\ \A i \in 1..(Len(q) - 1) : Tail(q)[i] = q[i + 1]
  OBVIOUS
<1>2. \A i \in 1..(Len(q) - 1) : i + 1 \in 1..Len(q) /\ i + 1 # 1 /\ i \in Nat
  BY <1>1
<1>3. DOMAIN Tail(q) = 1..(Len(q) - 1) /\ DOMAIN q = 1..Len(q)
  BY <1>1
<1>4. Head(q) \in S /\ Head(q) = q[1] /\ 1 \in DOMAIN q
  BY <1>1
<1> QED
  BY <1>1, <1>2, <1>3, <1>4

\* The oldest typed edit becomes the newest queued one, or is given up.
LEMMA SaveSteps ==
  ASSUME SyncInv, NEW t \in Tabs, Save(t)
  PROVE  SyncInv'
<1>1. UNCHANGED <<log, drain, late, text, discarded>> /\ tab[t].typed # <<>>
      /\ tab[t].typed \in Seq(Edits)
  BY DEF Save, SyncInv, SyncShapes
<1>2. PICK q : q = tab[t].typed
  OBVIOUS
<1>3. /\ Head(q) \in Edits /\ Head(q) = q[1] /\ 1 \in DOMAIN q /\ Tail(q) \in Seq(Edits)
      /\ \A i \in DOMAIN Tail(q) : i + 1 \in DOMAIN q /\ i + 1 # 1 /\ i \in Nat
                                   /\ Tail(q)[i] = q[i + 1]
  BY <1>1, <1>2, HeadAndTail
<1>4. PICK e \in Edits : e = Head(q)
  BY <1>3
<1>5. PICK rest : rest = Tail(q)
  BY Zenon
<1>6. /\ DOMAIN tab' = Tabs
      /\ \A s \in Tabs : /\ "typed" \in DOMAIN tab'[s]
                         /\ tab'[s].typed = IF s = t THEN rest ELSE tab[s].typed
  <2>1. \/ tab' = [tab EXCEPT ![t].typed = rest, ![t].known = @ \cup {e},
                              ![t].mine = @ \cup {e}, ![t].next = follows[e] + 1, ![t].timer = TRUE]
        \/ tab' = [tab EXCEPT ![t].typed = rest, ![t].failed = TRUE, ![t].writer = FALSE,
                              ![t].polling = FALSE]
    BY Zenon, <1>2, <1>4, <1>5 DEF Save
  <2>2. CASE tab' = [tab EXCEPT ![t].typed = rest, ![t].known = @ \cup {e},
                                ![t].mine = @ \cup {e}, ![t].next = follows[e] + 1, ![t].timer = TRUE]
    BY <2>2 DEF SyncInv, SyncShapes
  <2>3. CASE tab' = [tab EXCEPT ![t].typed = rest, ![t].failed = TRUE, ![t].writer = FALSE,
                                ![t].polling = FALSE]
    BY <2>3 DEF SyncInv, SyncShapes
  <2> QED
    BY <2>1, <2>2, <2>3
<1>7. \A s \in Tabs : \A j \in DOMAIN tab'[s].typed :
        \E k \in DOMAIN tab[s].typed : /\ tab'[s].typed[j] = tab[s].typed[k]
                                       /\ k = IF s = t THEN j + 1 ELSE j
  BY Zenon, <1>2, <1>3, <1>5, <1>6
<1>8. \A s \in Tabs : \A j \in DOMAIN tab'[s].typed : tab'[s].typed[j] # e
  <2> SUFFICES ASSUME NEW s \in Tabs, NEW j \in DOMAIN tab'[s].typed, tab'[s].typed[j] = e
               PROVE  FALSE
    OBVIOUS
  <2>1. PICK k \in DOMAIN tab[s].typed : /\ tab'[s].typed[j] = tab[s].typed[k]
                                         /\ k = IF s = t THEN j + 1 ELSE j
    BY <1>7
  <2>2. tab[t].typed[1] = e /\ 1 \in DOMAIN tab[t].typed
    BY <1>2, <1>3, <1>4
  <2>3. s = t /\ k = 1
    BY <2>1, <2>2 DEF SyncInv, TypedIsNew
  <2> QED
    BY ZenonT(60), <1>2, <1>3, <1>5, <1>6, <2>1, <2>3
<1>9. ASSUME Range(saved') \subseteq Range(saved) \cup {e} PROVE TypedIsNew'
  <2> SUFFICES ASSUME NEW s \in Tabs, NEW i \in DOMAIN tab'[s].typed
               PROVE  /\ tab'[s].typed[i] \notin Range(saved')
                      /\ \A r \in Tabs : \A j \in DOMAIN tab'[r].typed :
                           tab'[s].typed[i] = tab'[r].typed[j] => r = s /\ i = j
    BY DEF TypedIsNew
  <2>1. PICK k \in DOMAIN tab[s].typed : /\ tab'[s].typed[i] = tab[s].typed[k]
                                         /\ k = IF s = t THEN i + 1 ELSE i
    BY <1>7
  <2>2. tab'[s].typed[i] \notin Range(saved')
    BY ZenonT(60), <1>8, <1>9, <2>1 DEF SyncInv, TypedIsNew
  <2>3. ASSUME NEW r \in Tabs, NEW j \in DOMAIN tab'[r].typed,
               tab'[s].typed[i] = tab'[r].typed[j]
        PROVE  r = s /\ i = j
    <3>1. PICK m \in DOMAIN tab[r].typed : /\ tab'[r].typed[j] = tab[r].typed[m]
                                           /\ m = IF r = t THEN j + 1 ELSE j
      BY <1>7
    <3>2. r = s /\ k = m
      BY <2>1, <2>3, <3>1 DEF SyncInv, TypedIsNew
    <3>3. s = t => i \in Nat /\ j \in Nat
      BY ZenonT(60), <1>3, <1>5, <1>6, <3>2
    <3> QED
      BY <2>1, <3>1, <3>2, <3>3
  <2> QED
    BY <2>2, <2>3
<1>10. ASSUME saved' \in Seq(Edits), outbox' \in Seq(QueueRecords) PROVE SyncShapes'
  BY ZenonT(60), <1>1, <1>3, <1>5, <1>6, <1>10 DEF SyncInv, SyncShapes
<1>11. CASE UNCHANGED <<outbox, draft, saved>>
  <2>1. SyncShapes' /\ TypedIsNew'
    BY ZenonT(60), <1>9, <1>10, <1>11 DEF SyncInv, SyncShapes
  <2>2. QueueIsSaved' /\ (\A s \in Tabs : DrainOK(drain[s])') /\ NoEditLost'
    BY ZenonT(60), <1>1, <1>11 DEF SyncInv, QueueIsSaved, DrainOK, NoEditLost, SavedIsSomewhere,
       DraftIsNewest, In, Queued
  <2> QED
    BY Zenon, <2>1, <2>2 DEF SyncInv
<1>12. CASE /\ outbox' = Append(outbox, [id |-> e, status |-> "queued"])
            /\ draft' = text[e] /\ saved' = Append(saved, e)
  <2> DEFINE new == [id |-> e, status |-> "queued"]
  <2>0. new \in QueueRecords /\ new.id = e
    BY <1>4 DEF QueueRecords
  <2>1. PICK c \in QueueRecords : c = new /\ c.id = e
    BY <2>0
  <2>2. saved \in Seq(Edits) /\ outbox \in Seq(QueueRecords)
    BY DEF SyncInv, SyncShapes
  <2>3. /\ saved' \in Seq(Edits) /\ Range(saved') = Range(saved) \cup {e}
    BY <1>12, <2>2, AppendedRange
  <2>4. /\ outbox' \in Seq(QueueRecords) /\ Len(outbox') = Len(outbox) + 1 /\ Len(outbox) \in Nat
        /\ DOMAIN outbox = 1..Len(outbox) /\ DOMAIN outbox' = 1..(Len(outbox) + 1)
        /\ \A i \in 1..Len(outbox) : outbox'[i] = outbox[i]
        /\ outbox'[Len(outbox) + 1] = c
    BY <1>12, <2>1, <2>2, AppendedRange
  <2>5. PICK n \in Nat : n = Len(outbox) + 1
    BY <2>4
  <2>6. /\ DOMAIN outbox' = DOMAIN outbox \cup {n} /\ n \notin DOMAIN outbox /\ outbox'[n] = c
        /\ Len(outbox') = n /\ \A i \in DOMAIN outbox : outbox'[i] = outbox[i]
    BY <2>4, <2>5
  <2>7. e \notin Range(saved)
    BY <1>2, <1>3, <1>4 DEF SyncInv, TypedIsNew
  <2>8. QueueIsSaved'
    BY <2>1, <2>3, <2>6, <2>7 DEF SyncInv, QueueIsSaved
  <2>9. \A s \in Tabs : DrainOK(drain[s])'
    BY <1>1, <2>1, <2>3, <2>6, <2>7 DEF SyncInv, DrainOK
  <2>10. SavedIsSomewhere'
    <3>1. \A x \in Range(saved) : In(x, log) \/ x \in Queued \/ x \in discarded
      BY ZenonT(60) DEF SyncInv, NoEditLost, SavedIsSomewhere, Range
    <3>2. Queued \cup {e} \subseteq Queued'
      BY <2>1, <2>6 DEF Queued
    <3>3. \A i \in DOMAIN saved' : saved'[i] \in Range(saved) \cup {e}
      BY <2>3 DEF Range
    <3> QED
      BY Zenon, <1>1, <3>1, <3>2, <3>3 DEF SavedIsSomewhere, In
  <2>11. DraftIsNewest'
    BY <1>1, <1>12, <2>1, <2>6 DEF DraftIsNewest
  <2> QED
    BY ZenonT(60), <1>9, <1>10, <2>3, <2>4, <2>8, <2>9, <2>10, <2>11 DEF SyncInv, NoEditLost
<1> QED
  BY <1>2, <1>4, <1>11, <1>12 DEF Save

-----------------------------------------------------------------------------
\* A status changes: every record keeps its place and its id.
LEMMA MarkedQueue ==
  ASSUME SyncInv, NEW e, e \in Queued, NEW a \in {"conflict", "error"}
  PROVE  /\ Settle(e, a) \in Seq(QueueRecords) /\ DOMAIN Settle(e, a) = DOMAIN outbox
         /\ Len(Settle(e, a)) = Len(outbox)
         /\ \A i \in DOMAIN outbox : Settle(e, a)[i].id = outbox[i].id
<1>1. PICK n : n = Place(e)
  OBVIOUS
<1>2. n \in DOMAIN outbox
  BY <1>1 DEF Place, Queued
<1>3. outbox \in Seq(QueueRecords) /\ DOMAIN outbox = 1..Len(outbox) /\ Len(outbox) \in Nat
      /\ outbox[n] \in QueueRecords
  BY <1>2 DEF SyncInv, SyncShapes
<1>4. PICK w \in {"blocked", "retry"} : w = IF a = "conflict" THEN "blocked" ELSE "retry"
  OBVIOUS
<1>5. PICK c : c = [outbox[n] EXCEPT !.status = w]
  BY ZenonT(60)
<1>6. c \in QueueRecords /\ c.id = outbox[n].id
  BY <1>3, <1>5 DEF QueueRecords
<1>7. Settle(e, a) = [outbox EXCEPT ![n] = c]
  BY <1>1, <1>4, <1>5 DEF Settle
<1>8. [outbox EXCEPT ![n] = c] \in Seq(QueueRecords) /\ Len([outbox EXCEPT ![n] = c]) = Len(outbox)
  BY <1>2, <1>3, <1>6
<1> QED
  BY <1>2, <1>3, <1>6, <1>7, <1>8

\* Steps that keep the places and the ids of the queue.
LEMMA QueueMarked ==
  ASSUME SyncInv, TypedStays, UNCHANGED <<draft, saved, discarded, log, text, late>>,
         outbox' \in Seq(QueueRecords), DOMAIN outbox' = DOMAIN outbox, Len(outbox') = Len(outbox),
         \A i \in DOMAIN outbox : outbox'[i].id = outbox[i].id,
         drain' \in [Tabs -> Drains],
         \A s \in Tabs : drain'[s] = drain[s] \/ DrainOK(drain[s])'
  PROVE  SyncInv'
<1>1. SyncShapes' /\ TypedIsNew'
  BY ZenonT(60), TypedStaysNew DEF SyncInv, SyncShapes, TypedStays
<1>2. QueueIsSaved'
  BY ZenonT(60) DEF SyncInv, QueueIsSaved
<1>3. \A s \in Tabs : DrainOK(drain[s])'
  BY ZenonT(60) DEF SyncInv, DrainOK
<1>4. SavedIsSomewhere'
  <2>1. Queued' = Queued
    BY ZenonT(60) DEF Queued
  <2> QED
    BY ZenonT(60), <2>1 DEF SyncInv, NoEditLost, SavedIsSomewhere, In
<1>5. DraftIsNewest'
  <2> SUFFICES ASSUME outbox' # <<>> PROVE draft = text[outbox'[Len(outbox')].id]
    BY DEF DraftIsNewest
  <2>1. outbox \in Seq(QueueRecords) /\ outbox' \in Seq(QueueRecords)
    BY ZenonT(60) DEF SyncInv, SyncShapes
  <2>2. outbox # <<>> /\ Len(outbox) \in DOMAIN outbox
    BY <2>1
  <2> QED
    BY ZenonT(60), <2>2 DEF SyncInv, NoEditLost, DraftIsNewest
<1> QED
  BY <1>1, <1>2, <1>3, <1>4, <1>5 DEF SyncInv, NoEditLost

LEMMA ReceiveBlockSteps ==
  ASSUME SyncInv, NEW t \in Tabs, ReceiveBlock(t)
  PROVE  SyncInv'
<1>1. UNCHANGED <<draft, saved, discarded, log, text, late, drain>>
  BY DEF ReceiveBlock, history
<1>2. \/ tab' = [tab EXCEPT ![t].polling = FALSE]
      \/ tab' = [tab EXCEPT ![t].writer = FALSE]
  BY DEF ReceiveBlock
<1>3. TypedStays
  BY ZenonT(60), <1>2 DEF TypedStays, SyncInv, SyncShapes
<1>4. CASE UNCHANGED outbox
  BY <1>1, <1>3, <1>4, OnlyTabs
<1>5. CASE inbox[t].pending \in Queued /\ outbox' = Settle(inbox[t].pending, "conflict")
  <2>1. drain' \in [Tabs -> Drains]
    BY Zenon, <1>1 DEF SyncInv, SyncShapes
  <2>2. PICK p : p = inbox[t].pending
    OBVIOUS
  <2>3. /\ outbox' \in Seq(QueueRecords) /\ DOMAIN outbox' = DOMAIN outbox
        /\ Len(outbox') = Len(outbox) /\ \A i \in DOMAIN outbox : outbox'[i].id = outbox[i].id
    BY <1>5, <2>2, MarkedQueue
  <2> QED
    BY Zenon, <1>1, <1>3, <2>1, <2>3, QueueMarked
<1> QED
  BY <1>4, <1>5 DEF ReceiveBlock

\* A confirmed event leaves the queue: it is in the log, and it was the first.
LEMMA AnsweredSteps ==
  ASSUME SyncInv, NEW t \in Tabs, Answered(t)
  PROVE  SyncInv'
<1>1. UNCHANGED <<draft, saved, discarded, log, text, late>>
  BY DEF Answered, history
<1>2. drain[t] \in Drains /\ drain[t].pc = "answered" /\ DrainOK(drain[t])
  BY DEF Answered, SyncInv, SyncShapes
<1>3. PICK e : e = drain[t].id
  OBVIOUS
<1>4. CASE UNCHANGED outbox /\ \E result : Ends(t, result)
  <2>1. DrainOK(Idle)' /\ late' \subseteq Edits
    BY ZenonT(60), <1>1 DEF DrainOK, Idle, SyncInv, SyncShapes
  <2> QED
    BY <1>1, <1>4, <2>1, EndsMoves, IdleIsFine, DrainMoves, StoreStays
<1>5. CASE /\ e \in Queued /\ drain[t].answer # "ok" /\ outbox' = Settle(e, drain[t].answer)
           /\ \E result : Ends(t, result)
  <2>1. DrainOK(Idle)'
    BY DEF DrainOK, Idle
  <2>2. PICK a : a = drain[t].answer
    OBVIOUS
  <2>3. a = "conflict" \/ a \in {"none", "error"}
    BY Zenon, <1>2, <1>5, <2>2 DEF Drains
  <2>4. PICK b \in {"conflict", "error"} : Settle(e, a) = Settle(e, b)
    BY Zenon, <2>3 DEF Settle
  <2>5. /\ outbox' \in Seq(QueueRecords) /\ DOMAIN outbox' = DOMAIN outbox
        /\ Len(outbox') = Len(outbox) /\ \A i \in DOMAIN outbox : outbox'[i].id = outbox[i].id
    BY ZenonT(60), <1>5, <2>2, <2>4, MarkedQueue
  <2> QED
    BY ZenonT(60), <1>1, <1>5, <2>1, <2>5, EndsMoves, IdleIsFine, DrainMoves, QueueMarked
<1>6. CASE /\ e \in Queued /\ drain[t].answer = "ok" /\ outbox' = Settle(e, "ok")
           /\ drain' = [drain EXCEPT ![t] = [Idle EXCEPT !.pc = "list"]] /\ UNCHANGED tab
  <2>1. PICK k \in DOMAIN outbox : outbox[k].id = e
    BY <1>6 DEF Queued
  <2>2. Place(e) \in DOMAIN outbox /\ outbox[Place(e)].id = e
    BY <2>1 DEF Place
  <2>3. Place(e) = 1 /\ e \in Range(log) /\ 1 \in DOMAIN outbox /\ outbox[1].id = e
    BY <1>2, <1>3, <1>6, <2>2 DEF DrainOK
  <2>4. outbox' = SubSeq(outbox, 1, 0) \o SubSeq(outbox, 2, Len(outbox))
    BY <1>6, <2>3 DEF Settle, QueueWithout
  <2>5. outbox \in Seq(QueueRecords) /\ outbox # <<>>
    BY <2>3 DEF SyncInv, SyncShapes
  <2>6. /\ outbox' \in Seq(QueueRecords) /\ Len(outbox) \in Nat \ {0}
        /\ Len(outbox') = Len(outbox) - 1
        /\ \A i \in 1..(Len(outbox) - 1) : outbox'[i] = outbox[i + 1]
    BY <2>4, <2>5, WithoutFirst
  <2>7. DOMAIN outbox = 1..Len(outbox) /\ DOMAIN outbox' = 1..(Len(outbox) - 1)
    BY <2>5, <2>6
  <2>8. \A i \in DOMAIN outbox' : /\ i \in Nat /\ i + 1 \in DOMAIN outbox /\ i + 1 # 1
                                  /\ outbox'[i] = outbox[i + 1]
    BY <2>6, <2>7
  <2>9. \A j \in DOMAIN outbox : j = 1 \/ \E i \in DOMAIN outbox' : outbox'[i] = outbox[j]
    <3> SUFFICES ASSUME NEW j \in DOMAIN outbox, j # 1
                 PROVE  \E i \in DOMAIN outbox' : outbox'[i] = outbox[j]
      OBVIOUS
    <3>1. j - 1 \in DOMAIN outbox' /\ j - 1 + 1 = j
      BY <2>6, <2>7
    <3> QED
      BY <2>8, <3>1
  <2>10. QueueIsSaved'
    <3> SUFFICES ASSUME NEW i \in DOMAIN outbox'
                 PROVE  /\ outbox'[i].id \in Range(saved)
                        /\ \A j \in DOMAIN outbox' : outbox'[i].id = outbox'[j].id => i = j
      BY <1>1 DEF QueueIsSaved
    <3>1. outbox'[i].id \in Range(saved)
      BY <2>8 DEF SyncInv, QueueIsSaved
    <3>2. ASSUME NEW j \in DOMAIN outbox', outbox'[i].id = outbox'[j].id PROVE i = j
      <4>1. i + 1 = j + 1
        BY <2>8, <3>2 DEF SyncInv, QueueIsSaved
      <4> QED
        BY <2>8, <4>1
    <3> QED
      BY <3>1, <3>2
  <2>11. \A s \in Tabs : DrainOK(drain[s]) => DrainOK(drain[s])' \/ drain'[s] # drain[s]
    BY <1>1, <2>8 DEF DrainOK
  <2>12. PICK d : d = [Idle EXCEPT !.pc = "list"]
    BY Zenon
  <2>13. d \in Drains /\ d.pc = "list"
    BY <2>12, IdleIsFine DEF Drains, DrainPcs, Idle
  <2>14. drain' \in [Tabs -> Drains] /\ \A s \in Tabs : drain'[s] = IF s = t THEN d ELSE drain[s]
    BY ZenonT(60), <1>6, <2>12, <2>13, DrainMoves
  <2>15. DrainOK(d)'
    BY <2>13 DEF DrainOK
  <2>16. \A s \in Tabs : DrainOK(drain[s])'
    BY <2>11, <2>14, <2>15 DEF SyncInv
  <2>17. SyncShapes' /\ TypedIsNew'
    BY <1>1, <1>6, <2>6, <2>14, SameTabs, TypedStaysNew DEF SyncInv, SyncShapes
  <2>18. SavedIsSomewhere'
    <3>1. Queued \subseteq Queued' \cup {e}
      BY <2>3, <2>9 DEF Queued
    <3> QED
      BY <1>1, <2>3, <3>1 DEF SyncInv, NoEditLost, SavedIsSomewhere, In
  <2>19. DraftIsNewest'
    <3> SUFFICES ASSUME outbox' # <<>> PROVE draft = text[outbox'[Len(outbox')].id]
      BY <1>1 DEF DraftIsNewest
    <3>1. Len(outbox') \in 1..(Len(outbox) - 1) /\ Len(outbox') + 1 = Len(outbox)
      BY <2>6
    <3>2. outbox'[Len(outbox')] = outbox[Len(outbox)]
      BY <2>6, <3>1
    <3> QED
      BY <2>5, <3>2 DEF SyncInv, NoEditLost, DraftIsNewest
  <2> QED
    BY <2>10, <2>16, <2>17, <2>18, <2>19 DEF SyncInv, NoEditLost
<1> QED
  BY <1>3, <1>4, <1>5, <1>6 DEF Answered

\* What a recovery throws away is remembered.
LEMMA RecoverDiscardSteps ==
  ASSUME SyncInv, NEW t \in Tabs, RecoverDiscard(t)
  PROVE  SyncInv'
<1>1. UNCHANGED <<log, text, saved>>
  BY DEF RecoverDiscard
<1>2. TypedStays
  <2>1. PICK n : n = tab[t].fetched - 1
    OBVIOUS
  <2>2. PICK v : v = SubSeq(log, 1, n)
    BY Zenon
  <2>3. PICK shown : shown = [tab[t] EXCEPT !.view = v, !.head = n, !.next = n, !.known = {},
                                            !.fetched = 0]
    OBVIOUS
  <2>4. PICK fresh : fresh = [shown EXCEPT !.pc = "acquire", !.cursor = n, !.writer = FALSE,
                                           !.failed = FALSE, !.typed = <<>>,
                                           !.polling = FALSE, !.timer = FALSE]
    OBVIOUS
  <2>5. \/ tab' = [tab EXCEPT ![t].writer = FALSE, ![t].fetched = 0]
        \/ tab' = [tab EXCEPT ![t] = shown]
        \/ tab' = [tab EXCEPT ![t] = fresh]
    BY Zenon, <2>1, <2>2, <2>3, <2>4 DEF RecoverDiscard
  <2>6. "typed" \in DOMAIN tab[t]
    BY DEF SyncInv, SyncShapes
  <2>7. "typed" \in DOMAIN shown /\ shown.typed = tab[t].typed
    BY <2>3, <2>6
  <2>8. "typed" \in DOMAIN fresh /\ fresh.typed = <<>>
    BY <2>4, <2>7
  <2>9. CASE tab' = [tab EXCEPT ![t].writer = FALSE, ![t].fetched = 0]
    BY <2>9 DEF TypedStays, SyncInv, SyncShapes
  <2>10. CASE tab' = [tab EXCEPT ![t] = shown]
    BY ZenonT(60), <2>7, <2>10 DEF TypedStays, SyncInv, SyncShapes
  <2>11. CASE tab' = [tab EXCEPT ![t] = fresh]
    BY <2>8, <2>11 DEF TypedStays, SyncInv, SyncShapes
  <2> QED
    BY Zenon, <2>5, <2>9, <2>10, <2>11
<1>3. drain' = drain \/ drain' = [drain EXCEPT ![t] = Idle]
  BY DEF RecoverDiscard
<1>4. DrainOK(Idle)'
  BY DEF DrainOK, Idle
<1>5. drain' \in [Tabs -> Drains] /\ \A s \in Tabs : drain'[s] = drain[s] \/ DrainOK(drain[s])'
  BY ZenonT(60), <1>3, <1>4, IdleIsFine, DrainMoves DEF SyncInv, SyncShapes
<1>6. late' \subseteq Edits
  <2>1. late' = late \/ (drain[t].pc = "flight" /\ late' = late \cup {drain[t].id})
    BY DEF RecoverDiscard
  <2>2. drain[t].pc = "flight" => drain[t].id \in Edits
    BY FlightId
  <2> QED
    BY <2>1, <2>2 DEF SyncInv, SyncShapes
<1>7. CASE UNCHANGED <<outbox, draft, discarded>>
  BY <1>1, <1>2, <1>5, <1>6, <1>7, StoreStays
<1>8. CASE outbox' = <<>> /\ draft' = None /\ discarded' = discarded \cup Queued
  <2>1. outbox' \in Seq(QueueRecords) /\ DOMAIN outbox' = {}
    BY <1>8
  <2>2. SyncShapes' /\ TypedIsNew'
    BY ZenonT(60), <1>1, <1>2, <1>5, <1>6, <2>1, TypedStaysNew DEF SyncInv, SyncShapes, TypedStays
  <2>3. QueueIsSaved' /\ \A s \in Tabs : DrainOK(drain[s])'
    BY ZenonT(60), <1>1, <1>5, <2>1 DEF SyncInv, QueueIsSaved, DrainOK
  <2>4. NoEditLost'
    BY Zenon, <1>1, <1>8 DEF SyncInv, NoEditLost, SavedIsSomewhere, DraftIsNewest, In
  <2> QED
    BY <2>2, <2>3, <2>4 DEF SyncInv
<1> QED
  BY <1>7, <1>8 DEF RecoverDiscard, storeVars

-----------------------------------------------------------------------------
\* The invariant holds initially, and every step keeps it.
LEMMA SyncStarts ==
  SyncInit => SyncInv
<1> SUFFICES ASSUME SyncInit PROVE SyncInv
  OBVIOUS
<1>1. SyncShapes
  <2>1. "typed" \in DOMAIN Closed /\ Closed.typed \in Seq(Edits)
    BY DEF Closed
  <2>2. DOMAIN tab = Tabs /\ \A t \in Tabs : tab[t] = Closed
    BY DEF SyncInit
  <2>3. drain \in [Tabs -> Drains]
    BY IdleIsFine DEF SyncInit
  <2> QED
    BY <2>1, <2>2, <2>3 DEF SyncInit, SyncShapes
<1>2. TypedIsNew /\ QueueIsSaved
  BY DEF SyncInit, TypedIsNew, QueueIsSaved, Closed
<1>3. \A t \in Tabs : DrainOK(drain[t])
  BY DEF SyncInit, DrainOK, Idle
<1>4. NoEditLost
  BY DEF SyncInit, NoEditLost, SavedIsSomewhere, DraftIsNewest
<1> QED
  BY <1>1, <1>2, <1>3, <1>4 DEF SyncInv

LEMMA SyncSteps ==
  SyncInv /\ [SyncNext]_syncVars => SyncInv'
<1> SUFFICES ASSUME SyncInv, [SyncNext]_syncVars PROVE SyncInv'
  OBVIOUS
<1>1. CASE UNCHANGED syncVars
  BY <1>1, SameTabs, OnlyTabs DEF syncVars, storeVars, history
<1>2. ASSUME NEW t \in Tabs, SessionStep(t) PROVE SyncInv'
  BY <1>2, AcquireSteps, ListPendingSteps, RestoreSteps, SaveSteps, RecoverDiscardSteps
     DEF SessionStep
<1>3. ASSUME NEW t \in Tabs, DrainStep(t) PROVE SyncInv'
  BY <1>3, DrainSteps, DrainListSteps, DrainClearSteps, DrainCheckSteps, ServeSteps,
     AnsweredSteps DEF DrainStep
<1>4. ASSUME NEW t \in Tabs, ReceiveStep(t) PROVE SyncInv'
  BY <1>4, PollSteps, ReceiveSteps, ReceiveBlockSteps DEF ReceiveStep
<1> QED
  BY <1>1, <1>2, <1>3, <1>4, OpenSteps, TakeOverSteps, RenewFailsSteps, CloseSteps, TypeSteps,
     SendFailsSteps, RecoverFetchSteps, ExpireSteps, ArrivesLateSteps, ForeignAppendSteps
     DEF SyncNext

\* No edit is lost, whatever tabs open, close, take over the lease, drain,
\* retry and recover, and whatever answers are lost or come late: it is in the
\* log, queued, or was thrown away by a recovery, and the draft is the text of
\* the newest queued edit (diff/outbox/service.ts and store.ts,
\* sync/session.ts).
THEOREM EditsAreKept ==
  SyncSpec => []NoEditLost
<1>1. SyncInv => NoEditLost
  BY DEF SyncInv
<1> QED
  BY <1>1, SyncStarts, SyncSteps, PTL DEF SyncSpec

=============================================================================
