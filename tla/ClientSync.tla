----------------------------- MODULE ClientSync -----------------------------
(***************************************************************************)
(* One branch edited in the tabs of one browser: the durable outbox in     *)
(* IndexedDB (lib/diff/outbox/store.ts and service.ts), the session of     *)
(* each tab (pages/editor/sync/session.ts), its polling channel            *)
(* (lib/diff/remote-channel.ts) and the editor page around them.           *)
(*                                                                         *)
(* A text is the sequence of edits it was made from.  Every store function *)
(* is one IndexedDB transaction and one step here; what a tab read before  *)
(* an await stays in its locals.  The server appends an event that follows *)
(* its head, answers a known one as a duplicate and refuses the rest.  The *)
(* lease goes stale when its tab is gone or, MaxStalls times, frozen.      *)
(***************************************************************************)
EXTENDS Naturals, Sequences, FiniteSets, Functions, Null

CONSTANTS
  Tabs,
  Edits,       \* edits typed in the tabs
  Foreign,     \* edits other clients append to the branch
  MaxOpens,    \* bound on page loads
  MaxMoves,    \* bound on takeovers and recoveries
  MaxStalls,   \* bound on leases that expire under a live tab
  MaxFaults    \* bound on lost requests and responses

ASSUME SyncConstants ==
  /\ None \notin Tabs \cup Edits \cup Foreign /\ Edits \cap Foreign = {}
  /\ \A n \in {MaxOpens, MaxMoves, MaxStalls, MaxFaults} : n \in Nat

VARIABLES
  log,        \* server: the accepted edits
  follows,    \* per edit: metadata.followsSeq, as a length of log
  outbox,     \* store: records [id, status] in queueOrder
  draft,      \* store: the draft of the branch, None or a text
  lease,      \* store: owner and whether it expired
  tab,        \* per tab: the locals of its session
  drain,      \* per tab: its drain loop
  inbox,      \* per tab: a polled batch on its way through receive
  late,       \* requests given up by their tabs that may still arrive
  text,       \* history, per edit: the text its author saw with it
  saved,      \* history: edits in the order they were enqueued
  discarded,  \* history: edits thrown away by a recovery
  opens, moves, stalls, faults

storeVars == <<outbox, draft, lease>>
history == <<text, saved, discarded>>
bounds == <<opens, moves, stalls, faults>>
syncVars == <<log, follows, storeVars, tab, drain, inbox, late, history, bounds>>

All == Edits \cup Foreign

Closed == [pc |-> "closed", view |-> <<>>, head |-> 0, next |-> 0, known |-> {}, mine |-> {},
           writer |-> FALSE, failed |-> FALSE, typed |-> <<>>, polling |-> FALSE,
           cursor |-> 0, timer |-> FALSE, fetched |-> 0]

Idle == [pc |-> "idle", id |-> None, answer |-> "none"]

Empty == [pc |-> "none", batch |-> <<>>, pending |-> None]

SyncInit ==
  /\ log = <<>> /\ follows = [e \in All |-> 0]
  /\ outbox = <<>> /\ draft = None /\ lease = [owner |-> None, expired |-> FALSE]
  /\ tab = [t \in Tabs |-> Closed] /\ drain = [t \in Tabs |-> Idle]
  /\ inbox = [t \in Tabs |-> Empty] /\ late = {}
  /\ text = [e \in All |-> <<>>] /\ saved = <<>> /\ discarded = {}
  /\ opens = 0 /\ moves = 0 /\ stalls = 0 /\ faults = 0

In(e, s) == e \in Range(s)

Queued == {outbox[i].id : i \in DOMAIN outbox}

Fault == faults < MaxFaults /\ faults' = faults + 1

\* hasActiveWriterLease.
Holds(t) == lease.owner = t /\ ~lease.expired

Larger(a, b) == IF a > b THEN a ELSE b

-----------------------------------------------------------------------------
(* Page and session *)

\* The editor page fetches the branch content and creates channel and session.
Open(t) ==
  /\ tab[t].pc = "closed" /\ opens < MaxOpens
  /\ opens' = opens + 1
  /\ tab' = [tab EXCEPT ![t] = [Closed EXCEPT !.pc = "acquire", !.view = log,
               !.head = Len(log), !.next = Len(log), !.cursor = Len(log)]]
  /\ UNCHANGED <<log, follows, storeVars, drain, inbox, late, history, moves, stalls, faults>>

\* acquireWriterLease; force is a takeover.
Takes(t, force) == lease.owner \in {None, t} \/ lease.expired \/ force

Grant(t) == lease' = [owner |-> t, expired |-> FALSE]

Acquire(t) ==
  /\ tab[t].pc = "acquire"
  /\ IF Takes(t, FALSE)
     THEN Grant(t) /\ tab' = [tab EXCEPT ![t].pc = "list", ![t].writer = TRUE]
     ELSE tab' = [tab EXCEPT ![t].pc = "list"] /\ UNCHANGED lease
  /\ UNCHANGED <<log, follows, outbox, draft, drain, inbox, late, history, bounds>>

\* nextFollowsSeq.
NextFollows(n) == LET ends == {follows[e] + 1 : e \in Queued} IN
                  CHOOSE m \in ends \cup {n} : \A k \in ends \cup {n} : m >= k

\* The list of pending events, before and in restoreDraft.  A new session
\* restores the draft only with events pending, a takeover always.  A
\* non-writer starts its channel; a writer drains first.
ListPending(t) ==
  /\ tab[t].pc \in {"list", "taken"}
  /\ tab' = [tab EXCEPT ![t].next = NextFollows(@),
               ![t].pc = IF tab[t].pc = "taken" \/ (tab[t].writer /\ outbox # <<>>)
                         THEN "restore" ELSE "open",
               ![t].timer = tab[t].writer,
               ![t].polling = @ \/ ~tab[t].writer,
               ![t].known = IF tab[t].writer THEN @ \cup Queued ELSE @]
  /\ UNCHANGED <<log, follows, storeVars, drain, inbox, late, history, bounds>>

\* The rest of restoreDraft.
Restore(t) ==
  /\ tab[t].pc = "restore"
  /\ tab' = [tab EXCEPT ![t].pc = "open", ![t].view = IF draft = None THEN @ ELSE draft]
  /\ UNCHANGED <<log, follows, storeVars, drain, inbox, late, history, bounds>>

TakeOver(t) ==
  /\ tab[t].pc = "open" /\ ~tab[t].writer /\ moves < MaxMoves
  /\ moves' = moves + 1
  /\ Grant(t)
  /\ tab' = [tab EXCEPT ![t].writer = TRUE, ![t].pc = "taken"]
  /\ UNCHANGED <<log, follows, outbox, draft, drain, inbox, late, history, opens, stalls, faults>>

\* The renewal timer finds the lease gone or expired.
RenewFails(t) ==
  /\ tab[t].pc # "closed" /\ tab[t].writer /\ ~Holds(t)
  /\ tab' = [tab EXCEPT ![t].writer = FALSE]
  /\ UNCHANGED <<log, follows, storeVars, drain, inbox, late, history, bounds>>

Expire ==
  /\ lease.owner # None /\ ~lease.expired
  /\ \/ lease.owner = "gone" /\ UNCHANGED stalls
     \/ lease.owner # "gone" /\ stalls < MaxStalls /\ stalls' = stalls + 1
  /\ lease' = [lease EXCEPT !.expired = TRUE]
  /\ UNCHANGED <<log, follows, outbox, draft, tab, drain, inbox, late, history, opens, moves, faults>>

\* The tab goes away: dispose gives the lease back, a crash does not.  The
\* next page load has a new client id.
Close(t) ==
  /\ tab[t].pc # "closed"
  /\ tab' = [tab EXCEPT ![t] = Closed]
  /\ drain' = [drain EXCEPT ![t] = Idle] /\ inbox' = [inbox EXCEPT ![t] = Empty]
  /\ late' = IF drain[t].pc = "flight" THEN late \cup {drain[t].id} ELSE late
  /\ \/ lease.owner # t /\ UNCHANGED lease
     \/ lease.owner = t /\ lease' = [lease EXCEPT !.owner = "gone"]
     \/ lease.owner = t /\ tab[t].writer /\ lease' = [owner |-> None, expired |-> FALSE]
  /\ UNCHANGED <<log, follows, outbox, draft, history, bounds>>

-----------------------------------------------------------------------------
(* Typing *)

\* handleBufferChange: the visible text changes at once; publish reads the
\* cursor at once too, unless an earlier edit is still being saved.
Type(t, e) ==
  /\ tab[t].pc = "open" /\ tab[t].writer
  /\ e \notin Range(saved) /\ \A s \in Tabs : ~In(e, tab[s].typed) /\ ~In(e, tab[s].view)
  /\ tab' = [tab EXCEPT ![t].view = Append(@, e), ![t].typed = Append(@, e)]
  /\ text' = [text EXCEPT ![e] = Append(tab[t].view, e)]
  /\ follows' = [follows EXCEPT ![e] = IF tab[t].typed = <<>> THEN tab[t].next ELSE @]
  /\ UNCHANGED <<log, storeVars, drain, inbox, late, saved, discarded, bounds>>

\* publish for the oldest typed edit.  One transaction stores the event and
\* the draft under the lease; then the cursor moves, a drain is due, and the
\* next typed edit reads the cursor.
Save(t) ==
  /\ tab[t].pc = "open" /\ tab[t].typed # <<>>
  /\ LET e == Head(tab[t].typed)  rest == Tail(tab[t].typed) IN
     IF tab[t].writer /\ ~tab[t].failed /\ Holds(t)
     THEN /\ outbox' = Append(outbox, [id |-> e, status |-> "queued"])
          /\ draft' = text[e]
          /\ saved' = Append(saved, e)
          /\ tab' = [tab EXCEPT ![t].typed = rest, ![t].known = @ \cup {e},
                                ![t].mine = @ \cup {e}, ![t].next = follows[e] + 1, ![t].timer = TRUE]
          /\ follows' = [d \in All |-> IF rest # <<>> /\ d = Head(rest) THEN follows[e] + 1
                                       ELSE follows[d]]
     ELSE /\ tab' = [tab EXCEPT ![t].typed = rest, ![t].failed = TRUE,
                       ![t].writer = FALSE, ![t].polling = FALSE]
          /\ UNCHANGED <<outbox, draft, saved, follows>>
  /\ UNCHANGED <<log, lease, drain, inbox, late, text, discarded, bounds>>

-----------------------------------------------------------------------------
(* Draining: drain of the session and drainScope of the outbox.  timer      *)
(* stands for every pending call of drain.                                  *)

Drain(t) ==
  /\ tab[t].pc = "open" /\ tab[t].timer /\ drain[t].pc = "idle"
  /\ tab' = [tab EXCEPT ![t].timer = FALSE]
  /\ drain' = [drain EXCEPT ![t].pc = IF tab[t].writer THEN "list" ELSE "idle"]
  /\ UNCHANGED <<log, follows, storeVars, inbox, late, history, bounds>>

\* Mutant: a retry is not scheduled.
EndsForGood(t, result) ==
  /\ drain' = [drain EXCEPT ![t] = Idle]
  /\ tab' = [tab EXCEPT ![t].polling = @ \/ result = "drained"]

\* The loop ends; a result of "retry" sets the timer.
Ends(t, result) ==
  /\ drain' = [drain EXCEPT ![t] = Idle]
  /\ tab' = [tab EXCEPT ![t].timer = @ \/ result = "retry",
                        ![t].polling = @ \/ result = "drained"]

DrainList(t) ==
  /\ drain[t].pc = "list"
  /\ \/ /\ outbox = <<>>
        /\ drain' = [drain EXCEPT ![t].pc = "clear"] /\ UNCHANGED tab
     \/ /\ outbox # <<>> /\ outbox[1].status = "blocked"
        /\ Ends(t, "blocked")
     \/ /\ outbox # <<>> /\ outbox[1].status # "blocked"
        /\ drain' = [drain EXCEPT ![t].pc = "check", ![t].id = outbox[1].id]
        /\ UNCHANGED tab
  /\ UNCHANGED <<log, follows, storeVars, inbox, late, history, bounds>>

\* clearDraftIfEmptyForWriter.
DrainClear(t) ==
  /\ drain[t].pc = "clear"
  /\ IF Holds(t) /\ outbox = <<>>
     THEN draft' = None /\ Ends(t, "drained")
     ELSE Ends(t, "retry") /\ UNCHANGED draft
  /\ UNCHANGED <<log, follows, outbox, lease, inbox, late, history, bounds>>

\* canDrain, then the request leaves.
DrainCheck(t) ==
  /\ drain[t].pc = "check"
  /\ IF Holds(t)
     THEN drain' = [drain EXCEPT ![t].pc = "flight"] /\ UNCHANGED tab
     ELSE /\ drain' = [drain EXCEPT ![t] = Idle]
          /\ tab' = [tab EXCEPT ![t].writer = FALSE, ![t].timer = TRUE]
  /\ UNCHANGED <<log, follows, storeVars, inbox, late, history, bounds>>

\* The server appends, recognises or refuses an event.
Accepts(e) == ~In(e, log) /\ follows[e] = Len(log)

Arrives(e) == log' = IF Accepts(e) THEN Append(log, e) ELSE log

Serve(t) ==
  /\ drain[t].pc = "flight"
  /\ Arrives(drain[t].id)
  /\ \/ /\ drain' = [drain EXCEPT ![t].pc = "answered", ![t].answer =
               IF In(drain[t].id, log) \/ Accepts(drain[t].id) THEN "ok" ELSE "conflict"]
        /\ UNCHANGED faults
     \/ Fault /\ drain' = [drain EXCEPT ![t].pc = "answered", ![t].answer = "error"]
  /\ UNCHANGED <<follows, storeVars, tab, inbox, late, history, opens, moves, stalls>>

\* The request fails on its way, or arrives after the tab gave it up.
SendFails(t) ==
  /\ drain[t].pc = "flight"
  /\ Fault
  /\ drain' = [drain EXCEPT ![t].pc = "answered", ![t].answer = "error"]
  /\ late' \in {late, late \cup {drain[t].id}}
  /\ UNCHANGED <<log, follows, storeVars, tab, inbox, history, opens, moves, stalls>>

ArrivesLate(e) ==
  /\ e \in late
  /\ late' = late \ {e}
  /\ Arrives(e)
  /\ UNCHANGED <<follows, storeVars, tab, drain, inbox, history, bounds>>

\* The record of a queued edit; the store finds it by its key.
Place(e) == CHOOSE i \in DOMAIN outbox : outbox[i].id = e

\* The queue without that record.
QueueWithout(e) ==
  SubSeq(outbox, 1, Place(e) - 1) \o SubSeq(outbox, Place(e) + 1, Len(outbox))

\* What a fenced write of the answer does to the queue.
\* Mutant: any answer removes the event.
SettleAny(e, answer) == QueueWithout(e)

Settle(e, answer) ==
  IF answer = "ok" THEN QueueWithout(e)
  ELSE [outbox EXCEPT ![Place(e)].status = IF answer = "conflict" THEN "blocked" ELSE "retry"]

\* acknowledgeEvent or updateEventStatus, fenced by the lease.
Answered(t) ==
  /\ drain[t].pc = "answered"
  /\ LET e == drain[t].id  answer == drain[t].answer
         fenced == ~Holds(t) \/ e \notin Queued IN
     /\ outbox' = IF fenced THEN outbox ELSE Settle(e, answer)
     /\ \/ /\ ~fenced /\ answer = "ok"
           /\ drain' = [drain EXCEPT ![t] = [Idle EXCEPT !.pc = "list"]] /\ UNCHANGED tab
        \/ /\ fenced \/ answer # "ok"
           /\ Ends(t, IF ~fenced /\ answer = "conflict" THEN "blocked" ELSE "retry")
  /\ UNCHANGED <<log, follows, draft, lease, inbox, late, history, bounds>>

-----------------------------------------------------------------------------
(* Receiving *)

\* Without the events of this client, and those its session knows of.
Others(t, batch) == SelectSeq(batch, LAMBDA n : n.id \notin tab[t].known \cup tab[t].mine)

\* poll: the accepted events after the cursor.
Poll(t) ==
  /\ tab[t].pc = "open" /\ tab[t].polling
  /\ inbox[t].pc = "none" /\ tab[t].cursor < Len(log)
  /\ LET new == [i \in 1..(Len(log) - tab[t].cursor) |->
                   [id |-> log[tab[t].cursor + i], seq |-> tab[t].cursor + i]]
         others == Others(t, new) IN
     /\ tab' = [tab EXCEPT ![t].cursor = Len(log)]
     /\ inbox' = [inbox EXCEPT ![t] = IF others = <<>> THEN Empty
                    ELSE [pc |-> "list", batch |-> others, pending |-> None]]
  /\ UNCHANGED <<log, follows, storeVars, drain, late, history, bounds>>

\* receive: foreign events are applied when nothing is pending,
Receive(t) ==
  /\ inbox[t].pc = "list"
  /\ LET new == Others(t, inbox[t].batch) IN
     IF new # <<>> /\ tab[t].writer /\ outbox # <<>>
     THEN /\ inbox' = [inbox EXCEPT ![t] = [pc |-> "block", batch |-> <<>>, pending |-> outbox[1].id]]
          /\ UNCHANGED tab
     ELSE /\ inbox' = [inbox EXCEPT ![t] = Empty]
          /\ tab' = [tab EXCEPT ![t].view = @ \o [i \in DOMAIN new |-> new[i].id],
                                ![t].next = IF new = <<>> THEN @ ELSE Larger(@, new[Len(new)].seq)]
  /\ UNCHANGED <<log, follows, storeVars, drain, late, history, bounds>>

\* and otherwise block the first pending one: blockEventForWriter.
ReceiveBlock(t) ==
  /\ inbox[t].pc = "block"
  /\ LET p == inbox[t].pending IN
     IF Holds(t) /\ p \in Queued
     THEN outbox' = Settle(p, "conflict") /\ tab' = [tab EXCEPT ![t].polling = FALSE]
     ELSE tab' = [tab EXCEPT ![t].writer = FALSE] /\ UNCHANGED outbox
  /\ inbox' = [inbox EXCEPT ![t] = Empty]
  /\ UNCHANGED <<log, follows, draft, lease, drain, late, history, bounds>>

\* recoverWithRemoteBranch: fetch the branch,
RecoverFetch(t) ==
  /\ tab[t].pc = "open" /\ outbox # <<>> /\ outbox[1].status = "blocked"
  /\ moves < MaxMoves /\ moves' = moves + 1
  /\ tab' = [tab EXCEPT ![t].fetched = Len(log) + 1]
  /\ UNCHANGED <<log, follows, storeVars, drain, inbox, late, history, opens, stalls, faults>>

\* discardForWriter, then the fetched text.  On a new head the page disposes
\* the session and makes another with the same client id.
RecoverDiscard(t) ==
  /\ tab[t].pc = "open" /\ tab[t].fetched # 0
  /\ LET n == tab[t].fetched - 1
         shown == [tab[t] EXCEPT !.view = SubSeq(log, 1, n), !.head = n, !.next = n,
                                 !.known = {}, !.fetched = 0] IN
     IF ~Holds(t)
     THEN /\ tab' = [tab EXCEPT ![t].writer = FALSE, ![t].fetched = 0]
          /\ UNCHANGED <<storeVars, drain, inbox, late, discarded>>
     ELSE /\ outbox' = <<>> /\ draft' = None
          /\ discarded' = discarded \cup Queued
          /\ IF n = tab[t].head
             THEN tab' = [tab EXCEPT ![t] = shown] /\ UNCHANGED <<lease, drain, inbox, late>>
             ELSE /\ tab' = [tab EXCEPT ![t] = [shown EXCEPT !.pc = "acquire", !.cursor = n,
                       !.writer = FALSE, !.failed = FALSE, !.typed = <<>>, !.polling = FALSE,
                       !.timer = FALSE]]
                  /\ lease' = [owner |-> None, expired |-> FALSE]
                  /\ late' = IF drain[t].pc = "flight" THEN late \cup {drain[t].id} ELSE late
                  /\ drain' = [drain EXCEPT ![t] = Idle]
                  /\ inbox' = [inbox EXCEPT ![t] = Empty]
  /\ UNCHANGED <<log, follows, text, saved, bounds>>

\* Another client of the branch.
ForeignAppend(f) ==
  /\ f \in Foreign /\ ~In(f, log)
  /\ log' = Append(log, f)
  /\ text' = [text EXCEPT ![f] = Append(log, f)]
  /\ UNCHANGED <<follows, storeVars, tab, drain, inbox, late, saved, discarded, bounds>>

-----------------------------------------------------------------------------
DrainStep(t) == Drain(t) \/ DrainList(t) \/ DrainClear(t) \/ DrainCheck(t) \/ Serve(t) \/ Answered(t)

SessionStep(t) ==
  \/ Acquire(t) \/ ListPending(t) \/ Restore(t)
  \/ Save(t) \/ RecoverDiscard(t)

ReceiveStep(t) == Poll(t) \/ Receive(t) \/ ReceiveBlock(t)

SyncNext ==
  \/ \E t \in Tabs :
       \/ Open(t) \/ SessionStep(t) \/ TakeOver(t) \/ RenewFails(t) \/ Close(t)
       \/ \E e \in Edits : Type(t, e)
       \/ DrainStep(t) \/ SendFails(t) \/ ReceiveStep(t) \/ RecoverFetch(t)
  \/ Expire
  \/ \E e \in late : ArrivesLate(e)
  \/ \E f \in Foreign : ForeignAppend(f)

SyncSpec == SyncInit /\ [][SyncNext]_syncVars

-----------------------------------------------------------------------------
SyncTypeOK ==
  /\ log \in Seq(All) /\ outbox \in Seq([id : Edits, status : {"queued", "retry", "blocked"}])
  /\ draft = None \/ draft \in Seq(All)
  /\ lease \in [owner : Tabs \cup {None, "gone"}, expired : BOOLEAN]
  /\ late \subseteq Edits /\ discarded \subseteq Edits /\ saved \in Seq(Edits)

\* A saved edit is in the log of the branch, still queued, or was thrown
\* away by a recovery.
SavedIsSomewhere ==
  \A i \in DOMAIN saved :
    In(saved[i], log) \/ saved[i] \in Queued \/ saved[i] \in discarded

\* While anything is queued the stored draft is the text of the newest
\* queued edit, so a tab that restores it shows every queued edit.
DraftIsNewest ==
  outbox # <<>> => draft = text[outbox[Len(outbox)].id]

(* No saved edit is ever lost, with takeovers, stale leases, answers that  *)
(* come too late and closed tabs (acknowledgeDiffOutboxEvent: "Removes one *)
(* confirmed event"), and the draft keeps up with the queue                *)
(* (enqueueDiffOutboxEvent: "Atomically appends an immutable event and     *)
(* optional current branch draft").                                        *)
NoEditLost == SavedIsSomewhere /\ DraftIsNewest

(* An accepted edit stands in the log after exactly the text its author    *)
(* saw: remote changes the author has not seen stop it.                    *)
LandOnTheirText ==
  \A n \in DOMAIN log : text[log[n]] = SubSeq(log, 1, n)

(* A tab that keeps the lease drains the queue, unless a conflict blocks   *)
(* it: no order of enqueueing, draining and retrying leaves an edit        *)
(* waiting without a timer.                                                *)
QueueDrains ==
  []<>(\/ outbox = <<>> \/ outbox[1].status = "blocked"
       \/ \A t \in Tabs : ~(tab[t].pc = "open" /\ tab[t].writer /\ Holds(t)))
=============================================================================
