---------------------------- MODULE SelectedPoll ----------------------------
(***************************************************************************)
(* Polling of a selected branch: the browser's remote diff channel         *)
(* (src/lib/diff/remote-channel.ts) against the application adapter of a   *)
(* selected authority (src/server/state-plane/commit-application.ts).      *)
(*                                                                         *)
(* Other writers append events and runtime facts while a poll is answered. *)
(* The server captures the branch head first, reads the fact stream        *)
(* against its own later head, then walks the event log in chunks up to    *)
(* the captured head, leaving out the polling client's own events.  The    *)
(* answer can be lost on its way back; the channel then keeps its cursors. *)
(***************************************************************************)
EXTENDS Integers, Sequences, SequencesExt, FiniteSets

CONSTANTS
  Run,        \* timer callbacks of the channel that may be under way at once
  Writer,     \* clients that append to the branch
  Me,         \* the polling client, one of them
  Limit,      \* events of one answer (50)
  Chunk,      \* events of one read of the log (200)
  FactLimit,  \* facts of one answer (50)
  MaxEvents,  \* bound: length of the event log
  MaxFacts,   \* bound: length of the fact log
  None        \* JavaScript's null

PollConstants == /\ Me \in Writer
                 /\ {Limit, Chunk, FactLimit} \subseteq Nat \ {0}

VARIABLES
  published,  \* the author of each event, in order; sequence numbers start at 0
  facts,      \* how many runtime facts are stored
  channel,    \* the closure's variables: cursor, factCursor, hasCompletedHandshake
  run,        \* each timer callback's progress, with the request it sent
  heard       \* what the listeners received, and the head the handshake saw

vars == <<published, facts, channel, run, heard>>

HeadSeq == Len(published) - 1
Idle == [at |-> "idle"]
Low(c) == IF c = None THEN -1 ELSE c

Init ==
  /\ published \in [1 .. 1 -> Writer] \cup {<<>>}
  /\ facts \in {0, 1}
  /\ channel = [cursor |-> None, fact |-> None, ready |-> FALSE]
  /\ run = [r \in Run |-> Idle]
  /\ heard = [events |-> <<>>, facts |-> <<>>, from |-> None]

-----------------------------------------------------------------------------
(* Writers of the branch, the polling client included. *)

Append1(w) ==
  /\ Len(published) < MaxEvents
  /\ published' = Append(published, w)
  /\ UNCHANGED <<facts, channel, run, heard>>

AppendFact ==
  /\ facts < MaxFacts
  /\ facts' = facts + 1
  /\ UNCHANGED <<published, channel, run, heard>>

-----------------------------------------------------------------------------
(* The channel's timer: runPoll, with its pollInFlight guard. *)

Busy == \E r \in Run : run[r] /= Idle

\* What runPoll sends next: the handshake until one succeeded, then polls.
Request ==
  IF channel.ready
  THEN [at |-> "poll", cursor |-> channel.cursor, fact |-> Low(channel.fact)]
  ELSE [at |-> "shake"]

\* Mutant: runPoll without the pollInFlight guard.
MayStartAnyway == TRUE

MayStart == ~Busy

RunPoll(r) ==
  /\ run[r] = Idle
  /\ MayStart
  /\ run' = [run EXCEPT ![r] = Request]
  /\ UNCHANGED <<published, facts, channel, heard>>

-----------------------------------------------------------------------------
(* The server's side of one request. *)

\* cursor=__latest__: the captured head, null on an empty log.
Latest(r) ==
  /\ run[r].at = "shake"
  /\ run' = [run EXCEPT ![r] =
       [at |-> "latest", cursor |-> IF HeadSeq >= 0 THEN HeadSeq ELSE None, head |-> HeadSeq]]
  /\ UNCHANGED <<published, facts, channel, heard>>

\* readHead, before anything else of the poll.
CaptureHead(r) ==
  /\ run[r].at = "poll"
  /\ run' = [run EXCEPT ![r] =
       [at |-> "facts", after |-> Low(run[r].cursor), scanned |-> Low(run[r].cursor),
        head |-> HeadSeq, fact |-> run[r].fact, events |-> <<>>]]
  /\ UNCHANGED <<published, facts, channel, heard>>

\* The page of facts after the client's cursor, up to the fact head read now.
FactPage(after) ==
  LET count == IF facts - 1 - after < FactLimit THEN facts - 1 - after ELSE FactLimit
  IN [i \in 1 .. count |-> after + i]

FactCursor(page) == IF page = <<>> THEN None ELSE Last(page)

ReadFacts(r) ==
  /\ run[r].at = "facts"
  /\ LET page == IF run[r].fact >= facts - 1 THEN <<>> ELSE FactPage(run[r].fact)
     IN run' = [run EXCEPT ![r] =
          [at |-> "scan", after |-> run[r].after, scanned |-> run[r].scanned,
           head |-> run[r].head, events |-> run[r].events,
           facts |-> page, factCursor |-> FactCursor(page)]]
  /\ UNCHANGED <<published, facts, channel, heard>>

ByOther(s) == published[s + 1] /= Me

\* How far one chunk is walked: to its end, or to the event that fills the answer.
WalkTo(q) ==
  LET end  == IF q.scanned + Chunk < q.head THEN q.scanned + Chunk ELSE q.head
      room == Limit - Len(q.events)
      full == {s \in q.scanned + 1 .. end :
                 Cardinality({t \in q.scanned + 1 .. s : ByOther(t)}) = room}
  IN IF full = {} THEN end ELSE CHOOSE s \in full : \A t \in full : s <= t

Between(low, high) == SelectSeq([i \in 1 .. high - low |-> low + i], ByOther)

\* One chunk of the walk; the loop's condition is the guard.
ScanChunk(r) ==
  /\ run[r].at = "scan"
  /\ run[r].scanned < run[r].head
  /\ Len(run[r].events) < Limit
  /\ LET q    == run[r]
         got  == q.events \o Between(q.scanned, WalkTo(q))
     IN run' = [run EXCEPT ![r].scanned = WalkTo(q),
                           ![r].events = SubSeq(got, 1, IF Len(got) < Limit THEN Len(got) ELSE Limit)]
  /\ UNCHANGED <<published, facts, channel, heard>>

\* The answer; a scan that moved nothing has the cursor null.
Answer(r) ==
  /\ run[r].at = "scan"
  /\ run[r].scanned >= run[r].head \/ Len(run[r].events) = Limit
  /\ LET q == run[r]
     IN run' = [run EXCEPT ![r] =
          [at |-> "answer", events |-> q.events, facts |-> q.facts, factCursor |-> q.factCursor,
           cursor |-> IF q.scanned = q.after THEN None ELSE q.scanned]]
  /\ UNCHANGED <<published, facts, channel, heard>>

-----------------------------------------------------------------------------
(* Back in the browser. *)

\* doHandshake: a null cursor leaves the channel's alone.
Handshake(r) ==
  /\ run[r].at = "latest"
  /\ channel' = [channel EXCEPT !.ready = TRUE,
                   !.cursor = IF run[r].cursor = None THEN @ ELSE run[r].cursor]
  /\ heard' = [heard EXCEPT !.from = run[r].head]
  \* the same callback goes on to poll
  /\ run' = [run EXCEPT ![r] =
       [at |-> "poll", cursor |-> channel'.cursor, fact |-> Low(channel.fact)]]
  /\ UNCHANGED <<published, facts>>

\* poll and the listeners: a null cursor leaves the channel's alone.
Deliver(r) ==
  /\ run[r].at = "answer"
  /\ channel' = [channel EXCEPT
       !.cursor = IF run[r].cursor = None THEN @ ELSE run[r].cursor,
       !.fact   = IF run[r].factCursor = None THEN @ ELSE run[r].factCursor]
  /\ heard' = [heard EXCEPT !.events = @ \o run[r].events, !.facts = @ \o run[r].facts]
  /\ run' = [run EXCEPT ![r] = Idle]
  /\ UNCHANGED <<published, facts>>

\* Mutant: pollInFlight is not reset when a poll fails.
LostForGood(r) ==
  /\ run[r].at \in {"latest", "answer"}
  /\ run' = [run EXCEPT ![r] = [at |-> "stuck"]]
  /\ UNCHANGED <<published, facts, channel, heard>>

\* The answer is lost, or is a refusal: the next tick asks again.  (A lost request
\* is no different, for a poll changes nothing on the server.)
Lost(r) ==
  /\ run[r].at \in {"latest", "answer"}
  /\ run' = [run EXCEPT ![r] = Idle]
  /\ UNCHANGED <<published, facts, channel, heard>>

Step(r) ==
  \/ RunPoll(r) \/ Latest(r) \/ CaptureHead(r) \/ ReadFacts(r)
  \/ ScanChunk(r) \/ Answer(r) \/ Handshake(r) \/ Deliver(r)

Next ==
  \/ \E w \in Writer : Append1(w)
  \/ AppendFact
  \/ \E r \in Run : Step(r) \/ Lost(r)

Spec == Init /\ [][Next]_vars

-----------------------------------------------------------------------------
(* Every event another client wrote after the head the handshake saw, up to the
   channel's cursor, has reached the listeners exactly once and in the order of
   the log, and every fact up to the fact cursor too: a full answer, an event of
   the client's own, a lost answer, a slow answer overtaken by the next timer
   tick, and a write during the walk neither skip nor repeat one
   (remote-channel.ts poll and runPoll, commit-application.ts poll). *)
DeliveredOnceInOrder ==
  channel.ready =>
    /\ heard.events = Between(heard.from, Low(channel.cursor))
    /\ heard.facts = [i \in 1 .. Low(channel.fact) + 1 |-> i - 1]

(* Whenever the writers pause, the timer catches up: the listeners get every
   stored event another client wrote after the handshake and every stored fact
   (remote-channel.ts start and runPoll). *)
EverythingArrives ==
  []<>(/\ channel.ready
       /\ heard.events = Between(heard.from, HeadSeq)
       /\ Len(heard.facts) = facts)

===============================================================================
