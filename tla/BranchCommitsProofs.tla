------------------------ MODULE BranchCommitsProofs -------------------------
(***************************************************************************)
(* For any set of calls and commands, any patch function, and any bound on *)
(* the batch loop and on the integers: the stored history is whole, no     *)
(* update is lost, nothing stored is changed, and a branch has one owner.  *)
(*                                                                         *)
(* HistoryIsWhole is not inductive. A publication is computed from the     *)
(* version its call has seen before an await, so the invariant says of a   *)
(* prepared append that it has seen the version it expects (CallInv); the  *)
(* second transaction compares that with the head, which makes every       *)
(* publication one on top of the current head (lemma PublicationKeeps).    *)
(*                                                                         *)
(* The second part proves what BranchLogProofs needs of the tables:        *)
(* LinkedInv relates them to one another, and from it follows that rows    *)
(* which the code wrote pass the validators with which it reads them.      *)
(***************************************************************************)
EXTENDS BranchCommits, TLAPS, FiniteSetTheorems

\* Back ends, in the order in which they are tried.
USE SMTT(15), Zenon, Z3T(60)

\* Rows and calls are records with these fields.
RowShape ==
  /\ authority = [state |-> authority.state, generation |-> authority.generation,
                  reservation |-> authority.reservation, intent |-> authority.intent]
  /\ head = [state |-> head.state, origin |-> head.origin,
             generation |-> head.generation, version |-> head.version]
  /\ head.version.seq \in -1..(MaxSafe - 1)
  /\ head.version.snapshot \in -1..MaxSafe
  /\ authority.state \in {"none", "pending", "active"}
  /\ head.state \in {"absent", "present"}
  /\ migration \in {"none", "open"}

FieldNames == {"step", "cmd", "seen", "known", "attempt", "since", "answer", "acks"}

CallFields(k) == k = [x \in FieldNames |-> k[x]]

CallShape ==
  /\ call = [c \in Calls |-> call[c]]
  /\ \A c \in Calls : CallFields(call[c])

\* What a call has established by the step it has reached.
CallInv(k) ==
  /\ k.step \in {"idle", "received", "prepared"}
  /\ k.attempt \in 0..MaxAttempts
  /\ k.step # "idle" => k.attempt < MaxAttempts /\ k.cmd \in Commands
  /\ k.step = "prepared" /\ k.cmd.op = "append" =>
       k.seen = k.cmd.expected /\ ~Exhausted(k.cmd.events, k.seen)
  /\ k.step = "prepared" /\ k.cmd.op = "batch" =>
       LET new == Accepted(k.cmd.events, k.known) IN new = <<>> \/ ~Exhausted(new, k.seen)

CallsInv == CallShape /\ \A c \in Calls : CallInv(call[c])

\* Snapshot numbers and sequences lie between those of snapshot zero and of
\* the head.
Bounded ==
  \A s \in snapshots : s.version.snapshot \in Nat /\ s.version.seq \in -1..head.version.seq

RowsInv == RowShape /\ HistoryIsWhole /\ Bounded /\ NoLostUpdate

IInv == RowsInv /\ CallsInv /\ OneOwner

-----------------------------------------------------------------------------
\* The next version is the next snapshot and as many sequences further as
\* there are events.
LEMMA NextVersionFields ==
  ASSUME NEW es, NEW v
  PROVE  /\ NextVersion(es, v).snapshot = v.snapshot + 1
         /\ NextVersion(es, v).seq = v.seq + Len(es)
         /\ NextVersion(es, v).content = PatchAll(v.content, es)
BY DEF NextVersion, Version

\* A head that passes its checks exists.
LEMMA HeadIsPresent ==
  ASSUME NEW g, HeadCheck(g) = "ok", head.state \in {"absent", "present"}
  PROVE  head.state = "present"
BY DEF HeadCheck

\* Sequences are functions on an initial interval.
LEMMA FunctionIsSeq ==
  ASSUME NEW T, NEW n \in Nat, NEW f \in [1..n -> T]
  PROVE  f \in Seq(T)
OBVIOUS

LEMMA SeqIsFunction ==
  ASSUME NEW T, NEW s \in Seq(T)
  PROVE  Len(s) \in Nat /\ s \in [1..Len(s) -> T] /\ DOMAIN s = 1..Len(s)
OBVIOUS

LEMMA EmptyIsSeq ==
  ASSUME NEW T
  PROVE  << >> \in Seq(T) /\ Len(<< >>) = 0
OBVIOUS

\* The accepted events of an envelope are a sequence.
LEMMA AcceptedIsSeq ==
  ASSUME NEW S, NEW es \in Seq(S), NEW known
  PROVE  \E T : Accepted(es, known) \in Seq(T)
<1> DEFINE picks == {i \in DOMAIN es : FirstOfId(es, i) /\ \A r \in known : r.id # es[i].id}
<1> DEFINE n == Cardinality(picks)
<1> DEFINE a == Accepted(es, known)
<1>1. IsFiniteSet(DOMAIN es)
  <2>1. DOMAIN es = 1..Len(es) /\ Len(es) \in Nat
    BY SeqIsFunction
  <2>. QED
    BY <2>1, FS_Interval
<1>2. n \in Nat
  BY <1>1, FS_Subset, FS_CardinalityType
<1>3. a = [k \in 1..n |-> es[CHOOSE i \in picks : Cardinality({j \in picks : j <= i}) = k]]
  BY DEF Accepted
<1>4. a \in [1..n -> {a[k] : k \in 1..n}]
  BY ZenonT(30), <1>3
<1>5. a \in Seq({a[k] : k \in 1..n})
  <2> HIDE DEF a, n
  <2>. QED
    BY <1>2, <1>4, FunctionIsSeq
<1>. QED
  BY <1>5

-----------------------------------------------------------------------------
\* A publication of the events es on top of the current head.
Publication(op, es) ==
  /\ head.state = "present"
  /\ es # <<>>
  /\ ~Exhausted(es, head.version)
  /\ ~Conflicts(op, es, head.version)
  /\ Publish(op, es, head.version)

\* What a publication stores, field by field.
LEMMA PublicationRows ==
  ASSUME RowsInv, NEW op, NEW S, NEW es \in Seq(S), Publication(op, es)
  PROVE  /\ Len(es) \in Nat \ {0} /\ DOMAIN es = 1..Len(es)
         /\ head' = [head EXCEPT !.version = NextVersion(es, head.version)]
         /\ head'.version = NextVersion(es, head.version)
         /\ head'.state = "present"
         /\ snapshots' = snapshots \cup {PublishedSnapshot(es, head.version)}
         /\ events' = events \cup EventRows(es, head.version)
         /\ \A e \in EventRows(es, head.version) : \E i \in 1..Len(es) :
              /\ e.seq = head.version.seq + i /\ e.event = es[i]
              /\ e.snapshot = head.version.snapshot + 1
         /\ \A i \in 1..Len(es) : \E e \in EventRows(es, head.version) :
              /\ e.seq = head.version.seq + i /\ e.event = es[i]
              /\ e.snapshot = head.version.snapshot + 1
         /\ \A e, f \in EventRows(es, head.version) :
              e.seq = f.seq \/ e.event.id = f.event.id => e = f
         /\ \A e \in events, f \in EventRows(es, head.version) :
              e.seq # f.seq /\ e.event.id # f.event.id
<1>1. Len(es) \in Nat \ {0} /\ DOMAIN es = 1..Len(es)
  BY SeqIsFunction, EmptyIsSeq DEF Publication
<1>2. Publish(op, es, head.version) /\ ~Conflicts(op, es, head.version) /\ head.state = "present"
  BY DEF Publication
<1>3. /\ head = [state |-> head.state, origin |-> head.origin,
                 generation |-> head.generation, version |-> head.version]
      /\ head.version.seq \in Int /\ head.version.snapshot \in Int
  BY CommitConstants DEF RowsInv, RowShape
<1>4. /\ head' = [head EXCEPT !.version = NextVersion(es, head.version)]
      /\ snapshots' = snapshots \cup {PublishedSnapshot(es, head.version)}
      /\ events' = events \cup EventRows(es, head.version)
  BY <1>2 DEF Publish
<1>5. head'.version = NextVersion(es, head.version) /\ head'.state = "present"
  BY <1>2, <1>3, <1>4
<1>6. /\ \A e \in EventRows(es, head.version) : \E i \in 1..Len(es) :
              /\ e.seq = head.version.seq + i /\ e.event = es[i]
              /\ e.snapshot = head.version.snapshot + 1
      /\ \A i \in 1..Len(es) : \E e \in EventRows(es, head.version) :
              /\ e.seq = head.version.seq + i /\ e.event = es[i]
              /\ e.snapshot = head.version.snapshot + 1
  <2>1. ASSUME NEW i \in 1..Len(es)
        PROVE  \E e \in EventRows(es, head.version) :
                 /\ e.seq = head.version.seq + i /\ e.event = es[i]
                 /\ e.snapshot = head.version.snapshot + 1
    <3> DEFINE e == [seq |-> head.version.seq + i, snapshot |-> head.version.snapshot + 1,
                     event |-> es[i]]
    <3>1. e \in EventRows(es, head.version)
      BY <1>1 DEF EventRows
    <3>2. /\ e.seq = head.version.seq + i /\ e.event = es[i]
          /\ e.snapshot = head.version.snapshot + 1
      OBVIOUS
    <3>. QED
      BY <3>1, <3>2
  <2>2. ASSUME NEW e \in EventRows(es, head.version)
        PROVE  \E i \in 1..Len(es) :
                 /\ e.seq = head.version.seq + i /\ e.event = es[i]
                 /\ e.snapshot = head.version.snapshot + 1
    BY <1>1 DEF EventRows
  <2>. QED
    BY <2>1, <2>2
<1>7. \A i, j \in 1..Len(es) : i # j => es[i].id # es[j].id
  BY <1>1, <1>2 DEF Conflicts
<1>8. \A e, f \in EventRows(es, head.version) :
        e.seq = f.seq \/ e.event.id = f.event.id => e = f
  BY <1>1, <1>3, <1>7 DEF EventRows
<1>9. \A e \in events, f \in EventRows(es, head.version) :
        e.seq # f.seq /\ e.event.id # f.event.id
  BY <1>2 DEF Conflicts
<1>. QED
  BY <1>1, <1>4, <1>5, <1>6, <1>8, <1>9

\* HistoryIsWhole for a branch that has a head.
Whole ==
  /\ \A s, t \in snapshots : s.version.snapshot = t.version.snapshot => s = t
  /\ \A e, f \in events : e.seq = f.seq \/ e.event.id = f.event.id => e = f
  /\ {s.version.snapshot : s \in snapshots} = 0..head.version.snapshot
  /\ {e.seq : e \in events} = 0..head.version.seq
  /\ \E s \in snapshots : s.version = head.version
  /\ \A s \in snapshots : s.version.snapshot > 0 =>
       /\ \E p \in snapshots : /\ p.version.snapshot = s.version.snapshot - 1
                               /\ p.version.seq = s.start - 1
       /\ \A q \in s.start..s.version.seq : \E e \in events :
            e.seq = q /\ e.snapshot = s.version.snapshot /\ e.event.id = s.ids[q - s.start + 1]

\* A publication leaves a whole history.
LEMMA PublicationKeepsWhole ==
  ASSUME RowsInv, NEW op, NEW S, NEW es \in Seq(S), Publication(op, es)
  PROVE  Whole' /\ Bounded'
<1> DEFINE n == head.version.snapshot
           q == head.version.seq
           L == Len(es)
           new == PublishedSnapshot(es, head.version)
           added == EventRows(es, head.version)
<1>1. /\ L \in Nat \ {0} /\ DOMAIN es = 1..L
      /\ head'.version = NextVersion(es, head.version)
      /\ snapshots' = snapshots \cup {new}
      /\ events' = events \cup added
      /\ \A e \in added : \E i \in 1..L : e.seq = q + i /\ e.event = es[i] /\ e.snapshot = n + 1
      /\ \A i \in 1..L : \E e \in added : e.seq = q + i /\ e.event = es[i] /\ e.snapshot = n + 1
      /\ \A e, f \in added : e.seq = f.seq \/ e.event.id = f.event.id => e = f
      /\ \A e \in events, f \in added : e.seq # f.seq /\ e.event.id # f.event.id
  BY PublicationRows
<1>2. Whole /\ Bounded
  BY DEF Publication, RowsInv, HistoryIsWhole, Whole
<1>3. head'.version.snapshot = n + 1 /\ head'.version.seq = q + L
  BY <1>1, NextVersionFields
<1>4. /\ new.version = head'.version /\ new.start = q + 1
      /\ \A i \in 1..L : new.ids[i] = es[i].id
  BY <1>1 DEF PublishedSnapshot
<1>5. n \in Nat /\ q \in Int /\ q >= -1
  <2>1. n \in -1..MaxSafe /\ q \in -1..(MaxSafe - 1)
    BY DEF RowsInv, RowShape
  <2>2. \E s \in snapshots : s.version = head.version
    BY <1>2 DEF Whole
  <2>3. n \in Nat
    BY <1>2, <2>2 DEF Bounded
  <2>. QED
    BY <2>1, <2>3, CommitConstants
<1>6. \A s \in snapshots : /\ s.version.snapshot \in 0..n
                           /\ s.version.seq \in -1..q
  BY <1>2 DEF Whole, Bounded
<1> HIDE DEF new, added, n, q, L
<1>7. Bounded'
  BY <1>1, <1>3, <1>4, <1>5, <1>6 DEF Bounded
<1>8. \A s, t \in snapshots' : s.version.snapshot = t.version.snapshot => s = t
  BY <1>1, <1>2, <1>3, <1>4, <1>5, <1>6 DEF Whole
<1>9. \A e, f \in events' : e.seq = f.seq \/ e.event.id = f.event.id => e = f
  BY <1>1, <1>2 DEF Whole
<1>10. {s.version.snapshot : s \in snapshots'} = 0..head'.version.snapshot
  <2>1. {s.version.snapshot : s \in snapshots} = 0..n
    BY <1>2 DEF Whole, n
  <2>2. {s.version.snapshot : s \in snapshots'} = (0..n) \cup {n + 1}
    BY <1>1, <1>3, <1>4, <2>1
  <2>. QED
    BY <1>3, <1>5, <2>2
<1>11. {e.seq : e \in events'} = 0..head'.version.seq
  <2>1. {e.seq : e \in events} = 0..q
    BY <1>2 DEF Whole, q
  <2>2. {e.seq : e \in added} = (q + 1)..(q + L)
    <3>1. ASSUME NEW e \in added PROVE e.seq \in (q + 1)..(q + L)
      BY <1>1, <1>5
    <3>2. ASSUME NEW k \in (q + 1)..(q + L) PROVE \E e \in added : e.seq = k
      <4>1. k - q \in 1..L /\ q + (k - q) = k
        BY <1>1, <1>5
      <4>. QED
        BY <1>1, <4>1
    <3>. QED
      BY <3>1, <3>2
  <2>3. {e.seq : e \in events'} = (0..q) \cup ((q + 1)..(q + L))
    BY <1>1, <2>1, <2>2
  <2>. QED
    BY <1>1, <1>3, <1>5, <2>3
<1>12. \E s \in snapshots' : s.version = head'.version
  BY <1>1, <1>4
<1>13. ASSUME NEW s \in snapshots', s.version.snapshot > 0
       PROVE  /\ \E p \in snapshots' : /\ p.version.snapshot = s.version.snapshot - 1
                                       /\ p.version.seq = s.start - 1
              /\ \A k \in s.start..s.version.seq : \E e \in events' :
                   e.seq = k /\ e.snapshot = s.version.snapshot
                   /\ e.event.id = s.ids[k - s.start + 1]
  <2>1. CASE s \in snapshots
    BY <1>1, <1>2, <1>13, <2>1 DEF Whole
  <2>2. CASE s = new
    <3>1. PICK p \in snapshots : p.version = head.version
      BY <1>2 DEF Whole
    <3>2. /\ p \in snapshots' /\ p.version.snapshot = s.version.snapshot - 1
          /\ p.version.seq = s.start - 1
      BY <1>1, <1>3, <1>4, <1>5, <2>2, <3>1 DEF n, q
    <3>3. ASSUME NEW k \in s.start..s.version.seq
          PROVE  \E e \in events' : e.seq = k /\ e.snapshot = s.version.snapshot
                   /\ e.event.id = s.ids[k - s.start + 1]
      <4>1. k - q \in 1..L /\ q + (k - q) = k /\ k - s.start + 1 = k - q
        BY <1>1, <1>3, <1>4, <1>5, <2>2
      <4>2. PICK e \in added : e.seq = k /\ e.event = es[k - q] /\ e.snapshot = n + 1
        BY <1>1, <4>1
      <4>. QED
        BY <1>1, <1>3, <1>4, <2>2, <4>1, <4>2
    <3>. QED
      BY <3>2, <3>3
  <2>. QED
    BY <1>1, <2>1, <2>2
<1>14. Whole'
  BY <1>8, <1>9, <1>10, <1>11, <1>12, <1>13 DEF Whole
<1>. QED
  BY <1>7, <1>14

\* The event at a sequence is the one stored there.
LEMMA EventAtIs ==
  ASSUME Whole, NEW e \in events
  PROVE  EventAt(e.seq) = e
<1>1. \E f \in events : f.seq = e.seq
  OBVIOUS
<1>2. EventAt(e.seq) \in events /\ EventAt(e.seq).seq = e.seq
  BY <1>1 DEF EventAt
<1>. QED
  BY <1>2 DEF Whole

\* A publication loses no update and repeats none.
LEMMA PublicationLosesNothing ==
  ASSUME RowsInv, NEW op, NEW S, NEW es \in Seq(S), Publication(op, es)
  PROVE  NoLostUpdate'
<1> DEFINE L == Len(es)
           added == EventRows(es, head.version)
<1>0. PICK n, q, new : /\ n = head.version.snapshot /\ q = head.version.seq
                       /\ new = PublishedSnapshot(es, head.version)
  BY ZenonT(30)
<1>1. /\ L \in Nat \ {0} /\ DOMAIN es = 1..L
      /\ head'.version = NextVersion(es, head.version)
      /\ snapshots' = snapshots \cup {new}
      /\ events' = events \cup added
      /\ \A i \in 1..L : \E e \in added : e.seq = q + i /\ e.event = es[i]
  BY <1>0, PublicationRows
<1>2. Whole /\ Bounded /\ Whole' /\ Bounded'
  BY PublicationKeepsWhole DEF Publication, RowsInv, HistoryIsWhole, Whole
<1>3. /\ head'.version.snapshot = n + 1 /\ head'.version.seq = q + L
      /\ head'.version.content = PatchAll(head.version.content, es)
  BY <1>0, <1>1, NextVersionFields
<1>4. new.version = head'.version
  BY <1>0, <1>1 DEF PublishedSnapshot
<1>5. n \in Int /\ q \in Int
  BY <1>0, CommitConstants DEF RowsInv, RowShape
<1>6. es = [i \in 1..L |-> es[i]]
  BY SeqIsFunction
<1>7. \A s \in snapshots : s.version.snapshot \in 0..n /\ s.version.seq \in -1..q
  BY <1>0, <1>2 DEF Whole, Bounded
<1> HIDE DEF added, L
<1>8. \A k \in 0..q : EventAt(k)' = EventAt(k)
  <2>1. SUFFICES ASSUME NEW k \in 0..q PROVE EventAt(k)' = EventAt(k)
    OBVIOUS
  <2>2. PICK e \in events : e.seq = k
    BY <1>0, <1>2 DEF Whole
  <2>3. EventAt(k) = e
    BY <1>2, <2>2, EventAtIs
  <2>4. e \in events'
    BY <1>1
  <2>5. \E f \in events' : f.seq = k
    BY <2>2, <2>4
  <2>6. EventAt(k)' \in events' /\ EventAt(k)'.seq = k
    BY <2>5 DEF EventAt
  <2>. QED
    BY <1>2, <2>2, <2>3, <2>4, <2>6 DEF Whole
<1>9. \A i \in 1..L : EventAt(q + i)'.event = es[i]
  <2>1. SUFFICES ASSUME NEW i \in 1..L PROVE EventAt(q + i)'.event = es[i]
    OBVIOUS
  <2>2. PICK e \in added : e.seq = q + i /\ e.event = es[i]
    BY <1>1
  <2>3. e \in events'
    BY <1>1
  <2>4. \E f \in events' : f.seq = q + i
    BY <2>2, <2>3
  <2>5. EventAt(q + i)' \in events' /\ EventAt(q + i)'.seq = q + i
    BY <2>4 DEF EventAt
  <2>. QED
    BY <1>2, <2>2, <2>3, <2>5 DEF Whole
<1>10. ASSUME NEW s \in snapshots, NEW t \in snapshots,
              t.version.snapshot = s.version.snapshot - 1
       PROVE  s.version.content = PatchAll(t.version.content, EventsBetween(t, s)')
  <2>1. s.version.content = PatchAll(t.version.content, EventsBetween(t, s))
    BY <1>10 DEF RowsInv, NoLostUpdate
  <2>2. s.version.seq \in -1..q /\ t.version.seq \in -1..q
    BY <1>7
  <2>3. \A i \in 1..(s.version.seq - t.version.seq) : t.version.seq + i \in 0..q
    BY <1>5, <2>2
  <2>4. EventsBetween(t, s)' = EventsBetween(t, s)
    BY <1>8, <2>3 DEF EventsBetween
  <2>. QED
    BY <2>1, <2>4
<1>11. ASSUME NEW t \in snapshots, t.version.snapshot = n
       PROVE  new.version.content = PatchAll(t.version.content, EventsBetween(t, new)')
  <2>1. t.version = head.version
    BY <1>0, <1>2, <1>11 DEF Whole
  <2>2. new.version.seq - t.version.seq = L /\ t.version.seq = q
    BY <1>1, <1>3, <1>4, <1>5, <1>0, <2>1
  <2>3. EventsBetween(t, new)' = [i \in 1..L |-> EventAt(q + i)'.event]
    BY <2>2 DEF EventsBetween
  <2>4. EventsBetween(t, new)' = es
    BY <1>6, <1>9, <2>3
  <2>. QED
    BY <1>3, <1>4, <2>1, <2>4
<1>12. ASSUME NEW s \in snapshots', NEW t \in snapshots',
              t.version.snapshot = s.version.snapshot - 1
       PROVE  s.version.content = PatchAll(t.version.content, EventsBetween(t, s)')
  <2>1. CASE s \in snapshots /\ t \in snapshots
    BY <1>10, <1>12, <2>1
  <2>2. CASE s = new /\ t \in snapshots
    BY <1>3, <1>4, <1>5, <1>11, <1>12, <2>2
  <2>3. CASE t = new
    <3>1. s.version.snapshot \in 0..(n + 1)
      BY <1>2, <1>3 DEF Whole
    <3>2. t.version.snapshot = n + 1
      BY <1>3, <1>4, <2>3
    <3>. QED
      BY <1>5, <1>12, <3>1, <3>2
  <2>. QED
    BY <1>1, <2>1, <2>2, <2>3
<1>. QED
  BY <1>12 DEF NoLostUpdate

-----------------------------------------------------------------------------
\* What every step leaves alone: the bodies of the two action properties.
RowsGrow ==
  /\ snapshots \subseteq snapshots' /\ events \subseteq events'
  /\ receipts \subseteq receipts' /\ outbox \subseteq outbox'
  /\ delivery \subseteq delivery'

WinnerKept ==
  /\ authority.state # "none" =>
       /\ authority'.reservation = authority.reservation
       /\ authority'.generation = authority.generation
       /\ authority'.state # "none"
  /\ authority.state = "active" =>
       authority'.state = "active" /\ authority'.intent = authority.intent

RowsKept == RowsInv' /\ OneOwner' /\ RowsGrow /\ WinnerKept

LEMMA SameRows ==
  ASSUME RowsInv, OneOwner, UNCHANGED rows, migration' = migration
  PROVE  RowsKept
<1>1. /\ authority' = authority /\ head' = head /\ snapshots' = snapshots /\ events' = events
      /\ receipts' = receipts /\ outbox' = outbox /\ delivery' = delivery
  BY DEF rows
<1>2. RowShape' /\ HistoryIsWhole' /\ Bounded'
  BY <1>1 DEF RowsInv, RowShape, HistoryIsWhole, Bounded
<1>3. NoLostUpdate'
  BY <1>1 DEF RowsInv, NoLostUpdate, EventsBetween, EventAt
<1>4. OneOwner' /\ RowsGrow /\ WinnerKept
  BY <1>1 DEF OneOwner, RowsGrow, WinnerKept
<1>. QED
  BY <1>2, <1>3, <1>4 DEF RowsKept, RowsInv

\* A publication keeps the invariant of the rows.
LEMMA PublicationKeeps ==
  ASSUME RowsInv, OneOwner, NEW op, NEW S, NEW es \in Seq(S), Publication(op, es)
  PROVE  RowsKept
<1>1. Whole' /\ Bounded' /\ NoLostUpdate'
  BY PublicationKeepsWhole, PublicationLosesNothing
<1>2. /\ Len(es) \in Nat \ {0} /\ head'.state = "present"
      /\ head' = [head EXCEPT !.version = NextVersion(es, head.version)]
      /\ head'.version = NextVersion(es, head.version)
  BY PublicationRows
<1>3. HistoryIsWhole'
  BY <1>1, <1>2 DEF HistoryIsWhole, Whole
<1>4. /\ authority' = authority /\ migration' = migration
      /\ events' = events \cup EventRows(es, head.version)
      /\ snapshots' = snapshots \cup {PublishedSnapshot(es, head.version)}
      /\ receipts' = receipts \cup ReceiptRows(es, head.version)
      /\ outbox' = outbox \cup {OutboxRow(op, es, head.version)}
      /\ delivery' = delivery \cup {OutboxRow(op, es, head.version).outboxId}
      /\ ~Exhausted(es, head.version) /\ head.state = "present"
  BY DEF Publication, Publish
<1>5. RowShape
  BY DEF RowsInv
<1>6. head' = [state |-> head'.state, origin |-> head'.origin,
               generation |-> head'.generation, version |-> head'.version]
  BY <1>2, <1>5 DEF RowShape
<1>7. /\ head'.version.snapshot = head.version.snapshot + 1
      /\ head'.version.seq = head.version.seq + Len(es)
  BY <1>2, NextVersionFields
<1>8. head'.version.seq \in -1..(MaxSafe - 1) /\ head'.version.snapshot \in -1..MaxSafe
  BY <1>2, <1>4, <1>5, <1>7, CommitConstants DEF RowShape, Exhausted
<1>9. RowShape'
  BY <1>2, <1>4, <1>5, <1>6, <1>8 DEF RowShape
<1>10. OneOwner'
  BY <1>4 DEF OneOwner
<1>11. RowsGrow /\ WinnerKept
  BY <1>4 DEF RowsGrow, WinnerKept
<1>. QED
  BY <1>1, <1>3, <1>9, <1>10, <1>11 DEF RowsKept, RowsInv

-----------------------------------------------------------------------------
\* A step of one call.
LEMMA OneCall ==
  ASSUME CallsInv, NEW c \in Calls, NEW k, CallFields(k), CallInv(k),
         call' = [call EXCEPT ![c] = k]
  PROVE  CallsInv'
<1>1. DOMAIN call = Calls /\ call = [d \in Calls |-> call[d]]
  BY DEF CallsInv, CallShape
<1>2. call'[c] = k /\ \A d \in Calls : d # c => call'[d] = call[d]
  BY <1>1
<1>3. \A d \in Calls : CallFields(call'[d])
  BY <1>2 DEF CallsInv, CallShape
<1>4. call' = [d \in Calls |-> call'[d]]
  BY <1>1
<1>5. CallShape'
  BY <1>3, <1>4 DEF CallShape, CallFields
<1>6. \A d \in Calls : CallInv(call'[d])
  BY <1>2 DEF CallsInv
<1>7. \A d \in Calls : CallInv(call[d])'
  BY ZenonT(30), <1>6 DEF CallInv, Exhausted, Accepted, FirstOfId
<1>. QED
  BY <1>5, <1>7 DEF CallsInv

LEMMA SameCalls ==
  ASSUME CallsInv, call' = call
  PROVE  CallsInv'
<1>1. CallShape'
  BY DEF CallsInv, CallShape, CallFields
<1>2. \A c \in Calls : CallInv(call'[c])
  BY DEF CallsInv
<1>3. \A c \in Calls : CallInv(call[c])'
  BY ZenonT(30), <1>2 DEF CallInv, Exhausted, Accepted, FirstOfId
<1>. QED
  BY <1>1, <1>3 DEF CallsInv

\* A call that is answered.
LEMMA Answered ==
  ASSUME CallsInv, NEW c \in Calls, NEW code, NEW acks, Answer(c, code, acks)
  PROVE  CallsInv'
<1> DEFINE k == [call[c] EXCEPT !.step = "idle", !.seen = NoVersion, !.known = {},
                               !.answer = code, !.acks = acks]
<1>1. CallFields(call[c]) /\ CallInv(call[c])
  BY DEF CallsInv, CallShape
<1>2. call' = [call EXCEPT ![c] = k]
  BY DEF Answer
<1>3. k.step = "idle" /\ k.attempt = call[c].attempt /\ CallFields(k)
  BY ZenonT(30), <1>1 DEF CallFields, FieldNames
<1> HIDE DEF k
<1>4. CallInv(k)
  BY <1>1, <1>3 DEF CallInv
<1>. QED
  BY ZenonT(30), <1>2, <1>3, <1>4, OneCall

\* A call that fails or is refused.
LEMMA Failed ==
  ASSUME IInv, NEW c \in Calls, NEW code, Fail(c, code)
  PROVE  RowsKept /\ CallsInv'
BY SameRows, Answered DEF IInv, Fail

LEMMA Refused ==
  ASSUME IInv, NEW c \in Calls, AppendRefused(c)
  PROVE  RowsKept /\ CallsInv'
BY SameRows, Answered DEF IInv, AppendRefused

\* The events of a command are a sequence with at least one event.
LEMMA EventsAreSeq ==
  ASSUME NEW cmd \in Commands, cmd.op \in {"append", "batch"}
  PROVE  cmd.events \in Seq(Range(cmd.events)) /\ cmd.events # <<>>
<1>1. CommandShape(cmd)
  BY CommitConstants
<1>2. cmd.events \in Seq(Range(cmd.events)) /\ (Len(cmd.events) = 1 \/ Len(cmd.events) >= 1)
  BY <1>1 DEF CommandShape
<1>3. Len(<<>>) = 0
  BY EmptyIsSeq
<1>. QED
  BY <1>2, <1>3

-----------------------------------------------------------------------------
\* append, first and second transaction.
LEMMA AppendStep ==
  ASSUME IInv, NEW c \in Calls, AppendCapture(c) \/ AppendCommit(c)
  PROVE  RowsKept /\ CallsInv'
<1>1. RowsInv /\ CallsInv /\ OneOwner /\ CallFields(call[c]) /\ CallInv(call[c])
  BY DEF IInv, CallsInv, CallShape
<1>2. call[c].cmd \in Commands /\ call[c].cmd.op = "append"
  BY <1>1 DEF AppendCapture, AppendCommit, CallInv
<1>3. CASE AppendRefused(c)
  BY <1>3, Refused
<1>4. ASSUME AppendCapture(c), AppendCheck(call[c].cmd) = "ok"
      PROVE  RowsKept /\ CallsInv'
  <2>1. CASE Exhausted(call[c].cmd.events, head.version)
    BY <1>3, <1>4, <2>1, Failed DEF AppendCapture
  <2>2. CASE ~Exhausted(call[c].cmd.events, head.version) /\ ~AppendRefused(c)
    <3> DEFINE k == [call[c] EXCEPT !.step = "prepared", !.seen = head.version]
    <3>1. call' = [call EXCEPT ![c] = k] /\ UNCHANGED <<rows, migration>>
      BY <1>4, <2>2 DEF AppendCapture
    <3>2. head.version = call[c].cmd.expected
      BY <1>4 DEF AppendCheck
    <3>3. call[c].step = "received"
      BY <1>4 DEF AppendCapture
    <3>4. /\ k.step = "prepared" /\ k.cmd = call[c].cmd /\ k.seen = head.version
          /\ k.attempt = call[c].attempt /\ CallFields(k)
      BY ZenonT(30), <1>1 DEF CallFields, FieldNames
    <3> HIDE DEF k
    <3>5. CallInv(k)
      BY <1>1, <1>2, <2>2, <3>2, <3>3, <3>4 DEF CallInv
    <3>. QED
      BY ZenonT(30), <1>1, <3>1, <3>4, <3>5, OneCall, SameRows
  <2>. QED
    BY <1>3, <2>1, <2>2
<1>5. ASSUME AppendCommit(c), AppendCheck(call[c].cmd) = "ok", AppendPublishes(c)
      PROVE  RowsKept /\ CallsInv'
  <2> DEFINE es == call[c].cmd.events
  <2>1. call[c].seen = call[c].cmd.expected /\ ~Exhausted(es, call[c].seen)
    BY <1>1, <1>2, <1>5 DEF AppendCommit, CallInv
  <2>2. head.version = call[c].seen /\ head.state = "present"
    BY <1>1, <1>5, <2>1, HeadIsPresent DEF AppendCheck, RowsInv, RowShape
  <2>3. CASE Conflicts("append", es, call[c].seen)
    BY <1>5, <2>3, Failed DEF AppendPublishes
  <2>4. CASE ~Conflicts("append", es, call[c].seen)
    <3>1. /\ Publish("append", es, call[c].seen)
          /\ Answer(c, "accepted", {Ack(r, "accepted") : r \in ReceiptRows(es, call[c].seen)})
      BY <1>5, <2>4 DEF AppendPublishes
    <3>2. es \in Seq(Range(es)) /\ es # <<>>
      BY <1>2, EventsAreSeq
    <3>3. Publication("append", es)
      BY <2>1, <2>2, <2>4, <3>1, <3>2 DEF Publication
    <3>. QED
      BY <1>1, <3>1, <3>2, <3>3, PublicationKeeps, Answered
  <2>. QED
    BY <2>3, <2>4
<1>. QED
  BY <1>3, <1>4, <1>5 DEF AppendCapture, AppendCommit

\* appendBatch, first transaction.
LEMMA BatchCaptureStep ==
  ASSUME IInv, NEW c \in Calls, BatchCapture(c)
  PROVE  RowsKept /\ CallsInv'
<1> DEFINE cmd == call[c].cmd
           known == KnownReceipts(cmd)
           since == IF call[c].attempt = 0 THEN head.version.snapshot ELSE call[c].since
           k == [call[c] EXCEPT !.step = "prepared", !.seen = head.version, !.known = known,
                                !.since = since]
           ok == BatchCheck(cmd) = "ok" /\ PrepareBatchCheck(cmd.events, known, head.version) = "ok"
<1>1. RowsInv /\ CallsInv /\ OneOwner /\ CallFields(call[c]) /\ CallInv(call[c])
  BY DEF IInv, CallsInv, CallShape
<1>2. call[c].step = "received" /\ cmd.op = "batch"
  BY DEF BatchCapture
<1>3. CASE ~ok
  <2>1. PICK code : Fail(c, code)
    BY <1>3 DEF BatchCapture
  <2>. QED
    BY <2>1, Failed
<1>4. CASE ok
  <2>1. call' = [call EXCEPT ![c] = k] /\ UNCHANGED <<rows, migration>>
    BY <1>4 DEF BatchCapture
  <2>2. Accepted(cmd.events, known) = <<>> \/ ~Exhausted(Accepted(cmd.events, known), head.version)
    BY <1>4 DEF PrepareBatchCheck
  <2> HIDE DEF known, since
  <2>3. /\ k.step = "prepared" /\ k.cmd = cmd /\ k.seen = head.version /\ k.known = known
        /\ k.attempt = call[c].attempt /\ CallFields(k)
    BY ZenonT(30), <1>1 DEF CallFields, FieldNames
  <2> HIDE DEF k
  <2>4. CallInv(k)
    BY <1>1, <1>2, <2>2, <2>3 DEF CallInv
  <2>. QED
    BY ZenonT(30), <1>1, <2>1, <2>3, <2>4, OneCall, SameRows
<1>. QED
  BY <1>3, <1>4

\* The loop of appendBatch.
LEMMA BatchRetriesStep ==
  ASSUME IInv, NEW c \in Calls, call[c].step = "prepared", BatchRetries(c)
  PROVE  RowsKept /\ CallsInv'
<1>1. RowsInv /\ CallsInv /\ OneOwner /\ CallFields(call[c]) /\ CallInv(call[c])
  BY DEF IInv, CallsInv, CallShape
<1>2. RowsKept
  BY <1>1, SameRows DEF BatchRetries
<1>3. call[c].attempt + 1 \in 0..MaxAttempts /\ call[c].cmd \in Commands
  BY <1>1, CommitConstants DEF CallInv
<1>4. CASE call[c].attempt + 1 < MaxAttempts
  <2> DEFINE k == [call[c] EXCEPT !.step = "received", !.attempt = call[c].attempt + 1]
  <2>1. call' = [call EXCEPT ![c] = k]
    BY <1>4 DEF BatchRetries
  <2>2. k.step = "received" /\ k.cmd = call[c].cmd /\ k.attempt = call[c].attempt + 1 /\ CallFields(k)
    BY ZenonT(30), <1>1 DEF CallFields, FieldNames
  <2> HIDE DEF k
  <2>3. CallInv(k)
    BY <1>3, <1>4, <2>2 DEF CallInv
  <2>. QED
    BY ZenonT(30), <1>1, <1>2, <2>1, <2>2, <2>3, OneCall
<1>5. CASE ~(call[c].attempt + 1 < MaxAttempts)
  <2> DEFINE k == [call[c] EXCEPT !.step = "idle", !.attempt = call[c].attempt + 1,
                                  !.seen = NoVersion, !.known = {}, !.answer = "state_unavailable"]
  <2>1. call' = [call EXCEPT ![c] = k]
    BY <1>5 DEF BatchRetries
  <2>2. k.step = "idle" /\ k.attempt = call[c].attempt + 1 /\ CallFields(k)
    BY ZenonT(30), <1>1 DEF CallFields, FieldNames
  <2> HIDE DEF k
  <2>3. CallInv(k)
    BY <1>3, <2>2 DEF CallInv
  <2>. QED
    BY ZenonT(30), <1>1, <1>2, <2>1, <2>2, <2>3, OneCall
<1>. QED
  BY <1>4, <1>5

\* appendBatch, second transaction.
LEMMA BatchCommitStep ==
  ASSUME IInv, NEW c \in Calls, BatchCommit(c)
  PROVE  RowsKept /\ CallsInv'
<1> DEFINE cmd == call[c].cmd
           new == Accepted(cmd.events, call[c].known)
<1>1. RowsInv /\ CallsInv /\ OneOwner /\ CallInv(call[c])
  BY DEF IInv, CallsInv, CallShape
<1>2. call[c].step = "prepared" /\ cmd.op = "batch"
  BY DEF BatchCommit
<1>3. CASE \E code : Fail(c, code)
  BY <1>3, Failed
<1>4. CASE BatchRetries(c)
  BY <1>2, <1>4, BatchRetriesStep
<1>5. CASE /\ HeadCheck(cmd.generation) = "ok" /\ head.version = call[c].seen
           /\ BatchPublishes(c) /\ ~ \E code : Fail(c, code)
  <2>1. CASE new = <<>>
    BY <1>1, <1>5, <2>1, SameRows, Answered DEF BatchPublishes
  <2>2. CASE new # <<>>
    <3>1. ~Conflicts("batch", new, call[c].seen)
      BY <1>5, <2>2 DEF BatchPublishes
    <3>2. PICK acks : Publish("batch", new, call[c].seen) /\ Answer(c, "batch", acks)
      BY <1>5, <2>2, <3>1 DEF BatchPublishes
    <3>3. head.state = "present"
      BY <1>1, <1>5, HeadIsPresent DEF RowsInv, RowShape
    <3>4. ~Exhausted(new, call[c].seen) /\ cmd \in Commands
      BY <1>1, <1>2, <2>2 DEF CallInv
    <3>5. cmd.events \in Seq(Range(cmd.events))
      BY <1>2, <3>4, EventsAreSeq
    <3>6. PICK T : new \in Seq(T)
      BY <3>5, AcceptedIsSeq
    <3> HIDE DEF new
    <3>7. Publication("batch", new)
      BY <1>5, <2>2, <3>1, <3>2, <3>3, <3>4 DEF Publication
    <3>. QED
      BY <1>1, <3>2, <3>6, <3>7, PublicationKeeps, Answered
  <2>. QED
    BY <2>1, <2>2
<1>. QED
  BY <1>3, <1>4, <1>5 DEF BatchCommit

-----------------------------------------------------------------------------
\* reserve.
LEMMA ReserveStep ==
  ASSUME IInv, NEW c \in Calls, Reserve(c)
  PROVE  RowsKept /\ CallsInv'
<1> DEFINE cmd == call[c].cmd
           code == ReserveCheck(cmd)
<1>1. RowsInv /\ CallsInv /\ OneOwner /\ RowShape
  BY DEF IInv, RowsInv
<1>2. CASE code = "reserved"
  <2>1. /\ authority' = [authority EXCEPT !.state = "pending", !.generation = cmd.generation,
                                           !.reservation = cmd.reservation]
        /\ Answer(c, code, {cmd.reservation})
        /\ UNCHANGED <<head, snapshots, events, receipts, outbox, delivery, migration>>
    BY <1>2 DEF Reserve
  <2>2. authority.state = "none" /\ migration # "open"
    BY <1>2 DEF ReserveCheck, Reserved, HeadCheck
  <2>3. RowShape'
    BY ZenonT(30), <1>1, <2>1 DEF RowShape
  <2>4. HistoryIsWhole' /\ Bounded' /\ NoLostUpdate'
    BY <1>1, <2>1 DEF RowsInv, HistoryIsWhole, Bounded, NoLostUpdate, EventsBetween, EventAt
  <2>5. OneOwner' /\ RowsGrow /\ WinnerKept
    BY <2>1, <2>2 DEF OneOwner, RowsGrow, WinnerKept
  <2>. QED
    BY <1>1, <2>1, <2>3, <2>4, <2>5, Answered DEF RowsKept, RowsInv
<1>3. CASE code = "existing"
  <2>1. Answer(c, code, {authority.reservation}) /\ UNCHANGED <<rows, migration>>
    BY <1>3 DEF Reserve
  <2>. QED
    BY <1>1, <2>1, SameRows, Answered
<1>4. CASE code \notin {"reserved", "existing"}
  <2>1. Fail(c, code)
    BY <1>4 DEF Reserve
  <2>. QED
    BY <2>1, Failed
<1>. QED
  BY <1>2, <1>3, <1>4

\* initialize, first transaction.
LEMMA InitializeCaptureStep ==
  ASSUME IInv, NEW c \in Calls, InitializeCapture(c)
  PROVE  RowsKept /\ CallsInv'
<1>1. RowsInv /\ CallsInv /\ OneOwner /\ CallFields(call[c]) /\ CallInv(call[c])
  BY DEF IInv, CallsInv, CallShape
<1>2. CASE \E code : Fail(c, code)
  BY <1>2, Failed
<1>3. CASE ~ \E code : Fail(c, code)
  <2> DEFINE k == [call[c] EXCEPT !.step = "prepared", !.known = {authority.reservation}]
  <2>1. /\ call' = [call EXCEPT ![c] = k] /\ UNCHANGED <<rows, migration>>
        /\ call[c].step = "received" /\ call[c].cmd.op = "initialize"
    BY <1>3 DEF InitializeCapture
  <2>2. /\ k.step = "prepared" /\ k.cmd = call[c].cmd /\ k.attempt = call[c].attempt
        /\ CallFields(k)
    BY ZenonT(30), <1>1 DEF CallFields, FieldNames
  <2> HIDE DEF k
  <2>3. CallInv(k)
    BY <1>1, <2>1, <2>2 DEF CallInv
  <2>. QED
    BY ZenonT(30), <1>1, <2>1, <2>2, <2>3, OneCall, SameRows
<1>. QED
  BY <1>2, <1>3

\* The activation of a pending branch.
LEMMA Activation ==
  ASSUME RowsInv, OneOwner, NEW cmd, authority.state = "pending",
         head.state = "absent", snapshots = {}, Activate(cmd)
  PROVE  RowsKept
<1> DEFINE v == Version(0, -1, cmd.intent.content)
           zero == [version |-> v, parent |-> -1, start |-> -1, ids |-> <<>>]
<1>1. /\ head' = [state |-> "present", origin |-> "lifecycle",
                  generation |-> cmd.generation, version |-> v]
      /\ snapshots' = {zero}
      /\ authority' = [authority EXCEPT !.state = "active", !.intent = cmd.intent]
      /\ UNCHANGED <<events, receipts, outbox, delivery, migration>>
  BY DEF Activate
<1>2. v.snapshot = 0 /\ v.seq = -1 /\ zero.version = v
  BY DEF Version
<1>3. events = {} /\ RowShape
  BY DEF RowsInv, HistoryIsWhole
<1> HIDE DEF zero, v
<1>4. /\ authority'.state = "active" /\ authority'.intent = cmd.intent
      /\ authority'.reservation = authority.reservation
      /\ authority'.generation = authority.generation
      /\ authority' = [state |-> authority'.state, generation |-> authority'.generation,
                       reservation |-> authority'.reservation, intent |-> authority'.intent]
  BY ZenonT(30), <1>1, <1>3 DEF RowShape
<1>5. /\ head'.state = "present" /\ head'.version = v
      /\ head' = [state |-> head'.state, origin |-> head'.origin,
                  generation |-> head'.generation, version |-> head'.version]
  BY <1>1
<1>6. RowShape'
  BY <1>1, <1>2, <1>3, <1>4, <1>5, CommitConstants DEF RowShape
<1>7. Bounded'
  BY <1>1, <1>2, <1>5 DEF Bounded
<1>8. Whole'
  <2>1. {s.version.snapshot : s \in snapshots'} = 0..head'.version.snapshot
    BY <1>1, <1>2, <1>5
  <2>2. {e.seq : e \in events'} = 0..head'.version.seq
    BY <1>1, <1>2, <1>3, <1>5
  <2>. QED
    BY <1>1, <1>2, <1>3, <1>5, <2>1, <2>2 DEF Whole
<1>9. HistoryIsWhole'
  BY <1>5, <1>8 DEF HistoryIsWhole, Whole
<1>10. NoLostUpdate'
  BY <1>1, <1>2 DEF NoLostUpdate
<1>11. OneOwner'
  BY <1>1 DEF OneOwner
<1>12. RowsGrow /\ WinnerKept
  BY <1>1, <1>4 DEF RowsGrow, WinnerKept
<1>. QED
  BY <1>6, <1>7, <1>9, <1>10, <1>11, <1>12 DEF RowsKept, RowsInv

\* initialize, second transaction.
LEMMA InitializeCommitStep ==
  ASSUME IInv, NEW c \in Calls, InitializeCommit(c)
  PROVE  RowsKept /\ CallsInv'
<1> DEFINE cmd == call[c].cmd
<1>1. RowsInv /\ CallsInv /\ OneOwner /\ RowShape
  BY DEF IInv, RowsInv
<1>2. CASE \E code : Fail(c, code)
  BY <1>2, Failed
<1>3. CASE authority.state = "active" /\ ~ \E code : Fail(c, code)
  <2>1. PICK code, acks : Answer(c, code, acks) /\ UNCHANGED <<rows, migration>>
    BY <1>3 DEF InitializeCommit
  <2>. QED
    BY <1>1, <2>1, SameRows, Answered
<1>4. CASE authority.state # "active" /\ ~ \E code : Fail(c, code)
  <2>1. /\ head.state # "present" /\ snapshots = {} /\ FencedAuthority(cmd) = "ok"
        /\ Activate(cmd) /\ Answer(c, "created", {cmd.intent})
    BY <1>4 DEF InitializeCommit
  <2>2. authority.state = "pending" /\ head.state = "absent"
    BY <1>1, <1>4, <2>1 DEF FencedAuthority, RowShape
  <2>. QED
    BY <1>1, <2>1, <2>2, Activation, Answered
<1>. QED
  BY <1>2, <1>3, <1>4

-----------------------------------------------------------------------------
\* The steps of the clients, of the migration and of the process.
LEMMA OtherStep ==
  ASSUME IInv,
         \/ \E c \in Calls : \E cmd \in Commands : Receive(c, cmd)
         \/ MigrationAdmits \/ MigrationRollsBack \/ Crash
  PROVE  RowsKept /\ CallsInv'
<1>1. RowsInv /\ CallsInv /\ OneOwner
  BY DEF IInv
<1>2. CallFields(Idle) /\ Idle.step = "idle" /\ Idle.attempt = 0
  BY DEF Idle, CallFields, FieldNames
<1>3. CallInv(Idle)
  BY <1>2, CommitConstants DEF CallInv
<1>4. ASSUME NEW c \in Calls, NEW cmd \in Commands, Receive(c, cmd)
      PROVE  RowsKept /\ CallsInv'
  <2> DEFINE k == [Idle EXCEPT !.step = "received", !.cmd = cmd]
  <2>1. call' = [call EXCEPT ![c] = k] /\ UNCHANGED <<rows, migration>>
    BY ZenonT(30), <1>4 DEF Receive
  <2>2. k.step = "received" /\ k.cmd = cmd /\ k.attempt = 0 /\ CallFields(k)
    BY ZenonT(30), <1>2 DEF CallFields, FieldNames
  <2> HIDE DEF k
  <2>3. CallInv(k)
    BY <2>2, CommitConstants DEF CallInv
  <2>. QED
    BY ZenonT(30), <1>1, <2>1, <2>2, <2>3, OneCall, SameRows
<1>5. CASE MigrationAdmits \/ MigrationRollsBack
  <2>1. /\ authority' = authority /\ head' = head /\ snapshots' = snapshots
        /\ events' = events /\ receipts' = receipts /\ outbox' = outbox
        /\ delivery' = delivery /\ call' = call
        /\ migration' \in {"none", "open"}
        /\ migration' = "open" => authority.state = "none" /\ head.state = "absent"
    BY <1>5 DEF MigrationAdmits, MigrationRollsBack, rows
  <2>2. RowShape' /\ HistoryIsWhole' /\ Bounded' /\ NoLostUpdate'
    BY <1>1, <2>1 DEF RowsInv, RowShape, HistoryIsWhole, Bounded, NoLostUpdate,
                      EventsBetween, EventAt
  <2>3. OneOwner' /\ RowsGrow /\ WinnerKept
    BY <2>1 DEF OneOwner, RowsGrow, WinnerKept
  <2>4. CallsInv'
    BY <1>1, <2>1, SameCalls
  <2>. QED
    BY <2>2, <2>3, <2>4 DEF RowsKept, RowsInv
<1>6. CASE Crash
  <2>1. /\ call' = [c \in Calls |-> IF call[c].step = "idle" THEN call[c] ELSE Idle]
        /\ UNCHANGED <<rows, migration>>
    BY <1>6 DEF Crash
  <2>2. \A c \in Calls : CallFields(call'[c]) /\ CallInv(call'[c])
    BY <1>1, <1>2, <1>3, <2>1 DEF CallsInv, CallShape
  <2>3. CallShape'
    BY <2>1, <2>2 DEF CallShape, CallFields
  <2>4. \A c \in Calls : CallInv(call[c])'
    BY ZenonT(30), <2>2 DEF CallInv, Exhausted, Accepted, FirstOfId
  <2>. QED
    BY <1>1, <2>1, <2>3, <2>4, SameRows DEF CallsInv
<1>. QED
  BY <1>4, <1>5, <1>6

LEMMA InitEstablishes == Init => IInv
<1>. SUFFICES ASSUME Init PROVE IInv
  OBVIOUS
<1>1. /\ authority = [state |-> "none", generation |-> Undefined,
                      reservation |-> [id |-> "none"], intent |-> [content |-> "none"]]
      /\ events = {} /\ receipts = {} /\ migration = "none"
      /\ call = [c \in Calls |-> Idle]
  BY DEF Init, InitWith
<1>2. CallFields(Idle) /\ Idle.step = "idle" /\ Idle.attempt = 0
  BY DEF Idle, CallFields, FieldNames
<1>3. CallInv(Idle)
  BY <1>2, CommitConstants DEF CallInv
<1>4. CallsInv /\ OneOwner
  BY <1>1, <1>2, <1>3 DEF CallsInv, CallShape, OneOwner
<1>5. CASE EmptyBranch
  <2>1. /\ head.state = "absent" /\ snapshots = {}
        /\ head = [state |-> head.state, origin |-> head.origin,
                   generation |-> head.generation, version |-> head.version]
        /\ head.version.seq = -1 /\ head.version.snapshot = -1
    BY ZenonT(30), <1>5 DEF EmptyBranch, NoVersion, Version
  <2>2. RowShape
    BY <1>1, <2>1, CommitConstants DEF RowShape
  <2>3. HistoryIsWhole /\ Bounded /\ NoLostUpdate
    BY <1>1, <2>1 DEF HistoryIsWhole, Bounded, NoLostUpdate
  <2>. QED
    BY <1>4, <2>2, <2>3 DEF IInv, RowsInv
<1>6. ASSUME NEW g, NEW content, SeededBranch(g, content) PROVE IInv
  <2> DEFINE v == Version(0, -1, content)
             zero == [version |-> v, parent |-> -1, start |-> -1, ids |-> <<>>]
  <2>1. /\ head.state = "present" /\ snapshots = {zero}
        /\ head = [state |-> head.state, origin |-> head.origin,
                   generation |-> head.generation, version |-> head.version]
        /\ head.version = v
    BY <1>6 DEF SeededBranch
  <2>2. v.snapshot = 0 /\ v.seq = -1 /\ zero.version = v
    BY DEF Version
  <2> HIDE DEF v, zero
  <2>3. RowShape
    BY <1>1, <2>1, <2>2, CommitConstants DEF RowShape
  <2>4. Bounded /\ NoLostUpdate
    BY <2>1, <2>2 DEF Bounded, NoLostUpdate
  <2>5. /\ {s.version.snapshot : s \in snapshots} = 0..head.version.snapshot
        /\ {e.seq : e \in events} = 0..head.version.seq
    BY <1>1, <2>1, <2>2
  <2>6. HistoryIsWhole
    BY <1>1, <2>1, <2>2, <2>5 DEF HistoryIsWhole
  <2>. QED
    BY <1>4, <2>3, <2>4, <2>6 DEF IInv, RowsInv
<1>. QED
  BY <1>5, <1>6 DEF Init, InitWith

LEMMA NextPreserves == IInv /\ [Next]_vars => RowsKept /\ IInv'
<1>. SUFFICES ASSUME IInv, [Next]_vars PROVE RowsKept /\ CallsInv'
  BY DEF IInv, RowsKept
<1>1. CASE UNCHANGED vars
  <2>1. RowsKept
    BY <1>1, SameRows DEF IInv, vars, rows
  <2>2. CallsInv'
    BY <1>1, SameCalls DEF IInv, vars
  <2>. QED
    BY <2>1, <2>2
<1>2. ASSUME NEW c \in Calls, Step(c) PROVE RowsKept /\ CallsInv'
  BY <1>2, AppendStep, BatchCaptureStep, BatchCommitStep, ReserveStep, InitializeCaptureStep,
     InitializeCommitStep DEF Step
<1>. QED
  BY <1>1, <1>2, OtherStep DEF Next

\* The inductive invariant holds in every state.
THEOREM Invariance == Spec => []IInv
<1>1. IInv /\ [Next]_vars => IInv'
  BY NextPreserves
<1>. QED
  BY InitEstablishes, <1>1, PTL DEF Spec

\* The rows and the calls keep their types; sequences and snapshot numbers
\* stay safe integers (the exhaustion checks of prepareBranchCommit and
\* prepareBranchBatch).
THEOREM TypeCorrectness == Spec => []TypeOK
<1>1. IInv => TypeOK
  BY DEF IInv, RowsInv, RowShape, CallsInv, CallInv, TypeOK
<1>. QED
  BY Invariance, <1>1, PTL

\* Snapshots and events are numbered without gap or duplicate up to the
\* head, whichever calls of append, appendBatch and initialize interleave.
THEOREM WholeHistory == Spec => []HistoryIsWhole
<1>1. IInv => HistoryIsWhole
  BY DEF IInv, RowsInv
<1>. QED
  BY Invariance, <1>1, PTL

\* The text of every snapshot is its parent's with exactly its own events
\* applied, for every patch function.
THEOREM EveryUpdateCounts == Spec => []NoLostUpdate
<1>1. IInv => NoLostUpdate
  BY DEF IInv, RowsInv
<1>. QED
  BY Invariance, <1>1, PTL

\* While a migration of the branch is open nobody reserves or activates it,
\* although initialize looks at the migrations before its await only.
THEOREM BranchHasOneOwner == Spec => []OneOwner
<1>1. IInv => OneOwner
  BY DEF IInv
<1>. QED
  BY Invariance, <1>1, PTL

\* No step changes or removes a stored row.
THEOREM StoredForGood == Spec => HistoryIsAppendOnly
<1>1. IInv /\ [Next]_vars =>
        [/\ snapshots \subseteq snapshots' /\ events \subseteq events'
         /\ receipts \subseteq receipts' /\ outbox \subseteq outbox'
         /\ delivery \subseteq delivery']_vars
  BY NextPreserves DEF RowsKept, RowsGrow
<1>. QED
  BY Invariance, <1>1, PTL DEF Spec, HistoryIsAppendOnly

\* The first reservation and the first initialization stay.
THEOREM FirstWins == Spec => WinnerIsImmutable
<1>1. IInv /\ [Next]_vars =>
        [/\ authority.state # "none" =>
               /\ authority'.reservation = authority.reservation
               /\ authority'.generation = authority.generation
               /\ authority'.state # "none"
         /\ authority.state = "active" =>
               authority'.state = "active" /\ authority'.intent = authority.intent]_vars
  BY NextPreserves DEF RowsKept, WinnerKept
<1>. QED
  BY Invariance, <1>1, PTL DEF Spec, WinnerIsImmutable

-----------------------------------------------------------------------------
(***************************************************************************)
(* The tables and their validators.                                        *)
(***************************************************************************)
\* Snapshot rows have the shape their validator expects.
SnapshotsAreSound ==
  \A s \in snapshots :
    IF s.version.snapshot = 0 THEN s.ids = <<>> /\ s.version.seq = -1
    ELSE /\ s.parent = s.version.snapshot - 1 /\ s.start \in Int
         /\ Len(s.ids) = s.version.seq - s.start + 1
         /\ Len(s.ids) >= 1

\* A receipt has its event and its snapshot, an event its receipt.
ReceiptsAreBacked ==
  /\ \A r \in receipts :
       /\ r.hash.id = r.id
       /\ \E e \in events : e.seq = r.seq /\ e.event = r.hash /\ e.snapshot = r.version.snapshot
       /\ \E s \in snapshots : /\ s.version = r.version /\ s.version.snapshot > 0
                               /\ r.seq \in s.start..s.version.seq
  /\ \A e \in events : \E r \in receipts : r.id = e.event.id

EventsFollow == \A e \in events : e.event.follows \in {Undefined, e.seq - 1}

\* The snapshots that a publication has stored.
Publications == {s \in snapshots : s.version.snapshot > 0}

\* An outbox row belongs to a stored event and a published snapshot, and is
\* keyed by one of them.
OutboxInv ==
  /\ OutboxWitnessesEveryCommit
  /\ IsFiniteSet(outbox) /\ IsFiniteSet(Publications)
  /\ \A o \in outbox :
       /\ \E r \in receipts : r.id = o.eventId
       /\ o.version.snapshot \in 0..head.version.snapshot
       /\ \/ o.outboxId = <<"append", o.eventId>>
          \/ o.outboxId = <<"batch", o.version.snapshot>>

\* The authority and the head agree.
AuthorityInv ==
  /\ head.state = "absent" => head.version = NoVersion /\ authority.state # "active"
  /\ head.state = "present" => head.version.seq >= head.version.snapshot - 1
  /\ authority.state = "none" /\ head.state = "present" => head.origin = "fixture"
  /\ authority.state = "pending" => head.state = "absent"
  /\ authority.state = "active" =>
       /\ head.origin = "lifecycle" /\ authority.generation = head.generation
       /\ \E s \in snapshots : s.version = Version(0, -1, authority.intent.content)

LinkedInv ==
  SnapshotsAreSound /\ ReceiptsAreBacked /\ EventsFollow /\ OutboxInv /\ AuthorityInv

-----------------------------------------------------------------------------
\* Counting the members of a set of positions up to each of them numbers them.
Rank(S, i) == Cardinality({j \in S : j <= i})

\* These numbers are a bijection that preserves the order.
LEMMA Ranking ==
  ASSUME NEW m \in Nat, NEW S \in SUBSET (1..m)
  PROVE  /\ IsFiniteSet(S) /\ Cardinality(S) \in Nat
         /\ \A i \in S : Rank(S, i) \in 1..Cardinality(S)
         /\ \A i, j \in S : Rank(S, i) = Rank(S, j) => i = j
         /\ \A k \in 1..Cardinality(S) : \E i \in S : Rank(S, i) = k
<1> DEFINE n == Cardinality(S)
<1>1. IsFiniteSet(S) /\ n \in Nat
  <2>1. IsFiniteSet(1..m)
    BY FS_Interval
  <2>2. IsFiniteSet(S)
    BY Zenon, <2>1, FS_Subset
  <2>. QED
    BY <2>2, FS_CardinalityType
<1>2. ASSUME NEW i \in S PROVE Rank(S, i) \in 1..n /\ IsFiniteSet({j \in S : j <= i})
  <2>1. IsFiniteSet({j \in S : j <= i}) /\ Rank(S, i) <= n
    BY <1>1, FS_Subset DEF Rank
  <2>2. Rank(S, i) \in Nat
    BY <2>1, FS_CardinalityType DEF Rank
  <2>3. i \in {j \in S : j <= i}
    OBVIOUS
  <2>4. Rank(S, i) # 0
    BY <2>1, <2>3, FS_EmptySet DEF Rank
  <2>. QED
    BY <1>1, <2>1, <2>2, <2>4
<1>3. ASSUME NEW i \in S, NEW j \in S, i < j PROVE Rank(S, i) # Rank(S, j)
  <2>1. {x \in S : x <= i} \in SUBSET {x \in S : x <= j}
    <3>1. i \in Int /\ j \in Int /\ \A x \in S : x \in Int
      OBVIOUS
    <3>2. \A x \in S : x <= i => x <= j
      BY <1>3, <3>1
    <3>. QED
      BY Zenon, <3>2
  <2>2. j \in {x \in S : x <= j} /\ j \notin {x \in S : x <= i}
    BY <1>3
  <2>. QED
    BY <1>2, <2>1, <2>2, FS_Subset DEF Rank
<1>4. ASSUME NEW i \in S, NEW j \in S, Rank(S, i) = Rank(S, j) PROVE i = j
  <2>1. i \in Int /\ j \in Int
    OBVIOUS
  <2>2. ~(i < j) /\ ~(j < i)
    BY <1>3, <1>4
  <2>. QED
    BY <2>1, <2>2
<1> DEFINE f == [i \in S |-> Rank(S, i)]
<1>5. f \in Injection(S, 1..n)
  <2>1. f \in [S -> 1..n]
    BY Zenon, <1>2
  <2>2. \A i, j \in S : f[i] = f[j] => i = j
    BY <1>4
  <2>. QED
    BY <2>1, <2>2 DEF Injection, IsInjective
<1>6. IsFiniteSet(1..n) /\ Cardinality(1..n) = n
  BY <1>1, FS_Interval
<1>7. f \in Surjection(S, 1..n)
  <2> HIDE DEF f
  <2>. QED
    BY <1>5, <1>6, FS_Injection
<1>8. \A k \in 1..n : \E i \in S : f[i] = k
  BY Zenon, <1>7 DEF Surjection
<1>9. \A k \in 1..n : \E i \in S : Rank(S, i) = k
  BY <1>8
<1>. QED
  BY Zenon, <1>1, <1>2, <1>4, <1>9

\* A nonempty set of positions has a smallest one.
LEMMA SmallestPosition ==
  ASSUME NEW m \in Nat, NEW S \in SUBSET (1..m), S # {}
  PROVE  \E i \in S : \A j \in S : i <= j
<1>1. IsFiniteSet(S) /\ Cardinality(S) \in Nat
  BY Zenon, Ranking
<1>2. Cardinality(S) # 0
  BY <1>1, FS_EmptySet
<1>3. 1 \in 1..Cardinality(S)
  BY <1>1, <1>2
<1>4. PICK i \in S : Rank(S, i) = 1
  BY <1>3, Ranking
<1>5. IsFiniteSet({j \in S : j <= i})
  BY <1>1, FS_Subset
<1>6. PICK x : {j \in S : j <= i} = {x}
  BY <1>4, <1>5, FS_Singleton DEF Rank
<1>7. ASSUME NEW j \in S PROVE i <= j
  BY <1>6
<1>. QED
  BY <1>7

\* The positions of an envelope that prepareBranchBatch keeps.
Picks(es, known) ==
  {i \in DOMAIN es : FirstOfId(es, i) /\ \A r \in known : r.id # es[i].id}

Kept(es, known) == {es[i] : i \in Picks(es, known)}

\* The accepted events of an envelope: the first of every id that has no
\* receipt, in order and each once.
LEMMA AcceptedEvents ==
  ASSUME NEW S, NEW es \in Seq(S), NEW known
  PROVE  /\ Accepted(es, known) \in Seq(Kept(es, known))
         /\ \A i \in Picks(es, known) :
              \E k \in DOMAIN Accepted(es, known) : Accepted(es, known)[k] = es[i]
         /\ \A k, l \in DOMAIN Accepted(es, known) :
              Accepted(es, known)[k].id = Accepted(es, known)[l].id => k = l
<1> DEFINE picks == Picks(es, known)
           n == Cardinality(picks)
           at(k) == CHOOSE i \in picks : Cardinality({j \in picks : j <= i}) = k
           new == Accepted(es, known)
<1>1. DOMAIN es = 1..Len(es) /\ Len(es) \in Nat
  BY SeqIsFunction
<1>2. picks \in SUBSET (1..Len(es))
  BY <1>1 DEF Picks
<1>3. new = [k \in 1..n |-> es[at(k)]]
  BY DEF Accepted, Picks
<1>4. \A i, j \in picks : es[i].id = es[j].id => i = j
  <2>1. SUFFICES ASSUME NEW i \in picks, NEW j \in picks, es[i].id = es[j].id, i < j
                 PROVE  FALSE
    BY <1>2
  <2>2. i \in 1..(j - 1)
    BY <1>2, <2>1
  <2>. QED
    BY <2>1, <2>2 DEF FirstOfId, Picks
<1> HIDE DEF picks
<1>5. /\ n \in Nat
      /\ \A i \in picks : Rank(picks, i) \in 1..n
      /\ \A i, j \in picks : Rank(picks, i) = Rank(picks, j) => i = j
      /\ \A k \in 1..n : \E i \in picks : Rank(picks, i) = k
  BY Zenon, <1>1, <1>2, Ranking
<1>6. \A k \in 1..n : at(k) \in picks /\ Rank(picks, at(k)) = k
  BY Zenon, <1>5 DEF Rank
<1> HIDE DEF at, n
<1>7. \A i \in picks : at(Rank(picks, i)) = i
  BY <1>5, <1>6
<1>8. DOMAIN new = 1..n
  BY <1>3
<1>9. new \in [1..n -> {es[i] : i \in picks}]
  BY <1>3, <1>6
<1>10. new \in Seq({es[i] : i \in picks})
  <2> HIDE DEF new
  <2>. QED
    BY <1>5, <1>9, FunctionIsSeq
<1>11. ASSUME NEW i \in picks PROVE \E k \in DOMAIN new : new[k] = es[i]
  <2>1. Rank(picks, i) \in 1..n /\ new[Rank(picks, i)] = es[i]
    BY <1>3, <1>5, <1>7
  <2>. QED
    BY <1>8, <2>1
<1>12. ASSUME NEW k \in DOMAIN new, NEW l \in DOMAIN new, new[k].id = new[l].id PROVE k = l
  <2>1. k \in 1..n /\ l \in 1..n /\ new[k] = es[at(k)] /\ new[l] = es[at(l)]
    BY <1>3, <1>8
  <2>2. at(k) = at(l)
    BY <1>4, <1>6, <1>12, <2>1
  <2>. QED
    BY <1>6, <2>1, <2>2
<1>. QED
  BY <1>10, <1>11, <1>12 DEF picks, Kept

-----------------------------------------------------------------------------
\* The rows of a branch that has a head pass the validators that re-read them.
LEMMA SnapshotsPass ==
  ASSUME RowsInv, head.state = "present", SnapshotsAreSound, NEW s \in snapshots
  PROVE  SnapshotIsSound(s.version)
<1>1. Whole /\ Bounded
  BY DEF RowsInv, HistoryIsWhole, Whole
<1>2. SnapshotRow(s.version.snapshot) = s
  BY <1>1 DEF SnapshotRow, Whole
<1>3. s.version.snapshot \in Nat /\ s.version.seq \in Int
  BY <1>1 DEF Bounded
<1>4. CASE s.version.snapshot = 0
  BY <1>2, <1>4 DEF SnapshotsAreSound, SnapshotIsSound
<1>5. CASE s.version.snapshot # 0
  <2>1. PICK p \in snapshots : /\ p.version.snapshot = s.version.snapshot - 1
                               /\ p.version.seq = s.start - 1
    BY <1>1, <1>3, <1>5 DEF Whole
  <2>2. /\ s.parent = s.version.snapshot - 1
        /\ Len(s.ids) = s.version.seq - s.start + 1
        /\ Len(s.ids) >= 1
    BY <1>5 DEF SnapshotsAreSound
  <2>. QED
    BY <1>2, <1>5, <2>1, <2>2 DEF SnapshotIsSound
<1>. QED
  BY <1>4, <1>5

\* The head is that of a stored snapshot.
LEMMA HeadPasses ==
  ASSUME RowsInv, head.state = "present", SnapshotsAreSound
  PROVE  SnapshotIsSound(head.version)
<1>1. PICK s \in snapshots : s.version = head.version
  BY DEF RowsInv, HistoryIsWhole
<1>. QED
  BY <1>1, SnapshotsPass

\* Receipts pass the validator that re-reads them with their snapshot.
LEMMA ReceiptsPass ==
  ASSUME RowsInv, head.state = "present", SnapshotsAreSound, ReceiptsAreBacked,
         NEW r \in receipts
  PROVE  ReceiptIsSound(r)
<1>1. Whole /\ Bounded
  BY DEF RowsInv, HistoryIsWhole, Whole
<1>2. PICK e \in events : e.seq = r.seq /\ e.event = r.hash /\ e.snapshot = r.version.snapshot
  BY DEF ReceiptsAreBacked
<1>3. PICK s \in snapshots : /\ s.version = r.version /\ s.version.snapshot > 0
                             /\ r.seq \in s.start..s.version.seq
  BY DEF ReceiptsAreBacked
<1>4. SnapshotRow(r.version.snapshot) = s
  BY <1>1, <1>3 DEF SnapshotRow, Whole
<1>5. PICK f \in events : /\ f.seq = r.seq
                          /\ f.event.id = s.ids[r.seq - s.start + 1]
  BY <1>1, <1>3 DEF Whole
<1>6. f = e
  BY <1>1, <1>2, <1>5 DEF Whole
<1>7. r.hash.id = r.id
  BY DEF ReceiptsAreBacked
<1>8. r.seq \in 0..head.version.seq
  BY <1>1, <1>2 DEF Whole
<1>9. s.version.snapshot \in 0..head.version.snapshot /\ s.version.seq \in -1..head.version.seq
  BY <1>1 DEF Whole, Bounded
<1>10. head.version.seq \in Int /\ head.version.snapshot \in Int
  BY CommitConstants DEF RowsInv, RowShape
<1>11. /\ r.seq \in 0..r.version.seq
       /\ r.version.snapshot <= head.version.snapshot
       /\ r.version.seq <= head.version.seq
  BY <1>3, <1>8, <1>9, <1>10
<1>12. SnapshotIsSound(r.version)
  BY <1>3, SnapshotsPass
<1>. QED
  BY <1>2, <1>4, <1>5, <1>6, <1>7, <1>11, <1>12 DEF ReceiptIsSound

\* head() never finds the branch corrupt.
LEMMA HeadCheckPasses ==
  ASSUME RowsInv, AuthorityInv, NEW g
  PROVE  HeadCheck(g) # "state_corrupt"
<1>1. /\ authority.state \in {"none", "pending", "active"}
      /\ head.state \in {"absent", "present"}
      /\ head.version.snapshot \in Int
  BY CommitConstants DEF RowsInv, RowShape
<1>2. CASE head.state = "absent"
  BY <1>1, <1>2 DEF HeadCheck, AuthorityInv
<1>3. CASE head.state = "present" /\ authority.state = "none"
  BY <1>3 DEF HeadCheck, AuthorityInv
<1>4. CASE head.state = "present" /\ authority.state # "none"
  <2>1. authority.state = "active"
    BY <1>1, <1>4 DEF AuthorityInv
  <2>2. /\ head.origin = "lifecycle" /\ authority.generation = head.generation
        /\ head.version.seq >= head.version.snapshot - 1
    BY <1>4, <2>1 DEF AuthorityInv
  <2>3. ASSUME head.version.snapshot = 0
        PROVE  head.version = Version(0, -1, authority.intent.content)
    <3>1. PICK s \in snapshots : s.version = Version(0, -1, authority.intent.content)
      BY <2>1 DEF AuthorityInv
    <3>2. PICK h \in snapshots : h.version = head.version
      BY <1>4 DEF RowsInv, HistoryIsWhole
    <3>3. s.version.snapshot = h.version.snapshot
      BY <2>3, <3>1, <3>2 DEF Version
    <3>4. s = h
      BY <1>4, <3>3 DEF RowsInv, HistoryIsWhole
    <3>. QED
      BY <3>1, <3>2, <3>4
  <2>4. AuthorityHead
    BY <2>1, <2>2, <2>3 DEF AuthorityHead
  <2>. QED
    BY <1>4, <2>4 DEF HeadCheck
<1>. QED
  BY <1>1, <1>2, <1>3, <1>4

\* Events that have no receipt conflict with no row.
LEMMA NoConflict ==
  ASSUME RowsInv, LinkedInv, head.state = "present",
         NEW op \in {"append", "batch"}, NEW S, NEW es \in Seq(S), es # <<>>,
         \A i, j \in DOMAIN es : es[i].id = es[j].id => i = j,
         \A r \in receipts, i \in DOMAIN es : r.id # es[i].id
  PROVE  ~Conflicts(op, es, head.version)
<1>1. Len(es) \in Nat \ {0} /\ DOMAIN es = 1..Len(es)
  BY SeqIsFunction, EmptyIsSeq
<1>2. head.version.seq \in Int /\ head.version.snapshot \in Int
  BY CommitConstants DEF RowsInv, RowShape
<1>3. Whole
  BY DEF RowsInv, HistoryIsWhole, Whole
<1>4. ASSUME NEW e \in events, NEW f \in EventRows(es, head.version),
             e.seq = f.seq \/ e.event.id = f.event.id
      PROVE  FALSE
  <2>1. PICK i \in 1..Len(es) : f.seq = head.version.seq + i /\ f.event = es[i]
    BY <1>1 DEF EventRows
  <2>2. e.seq \in 0..head.version.seq
    BY <1>3 DEF Whole
  <2>3. e.seq # f.seq
    BY <1>1, <1>2, <2>1, <2>2
  <2>4. PICK r \in receipts : r.id = e.event.id
    BY DEF LinkedInv, ReceiptsAreBacked
  <2>. QED
    BY <1>1, <1>4, <2>1, <2>3, <2>4
<1>5. ASSUME NEW s \in snapshots PROVE s.version.snapshot # head.version.snapshot + 1
  <2>1. s.version.snapshot \in 0..head.version.snapshot
    BY <1>3 DEF Whole
  <2>. QED
    BY <1>2, <2>1
<1>6. ASSUME NEW o \in outbox PROVE o.eventId # es[1].id /\ o.outboxId # OutboxRow(op, es, head.version).outboxId
  <2>1. /\ \E r \in receipts : r.id = o.eventId
        /\ o.version.snapshot \in 0..head.version.snapshot
        /\ o.outboxId = <<"append", o.eventId>> \/ o.outboxId = <<"batch", o.version.snapshot>>
    BY DEF LinkedInv, OutboxInv
  <2>2. 1 \in DOMAIN es
    BY <1>1
  <2>3. o.eventId # es[1].id
    BY <2>1, <2>2
  <2>4. o.version.snapshot # head.version.snapshot + 1
    BY <1>2, <2>1
  <2>5. OutboxRow(op, es, head.version).outboxId =
          IF op = "append" THEN <<op, es[1].id>> ELSE <<op, head.version.snapshot + 1>>
    BY DEF OutboxRow
  <2>. QED
    BY <2>1, <2>3, <2>4, <2>5
<1>. QED
  BY <1>4, <1>5, <1>6 DEF Conflicts

-----------------------------------------------------------------------------
\* LinkedInv is kept: by steps that leave the rows alone, ...
LEMMA SameLinks ==
  ASSUME LinkedInv, UNCHANGED rows
  PROVE  LinkedInv'
<1>1. /\ authority' = authority /\ head' = head /\ snapshots' = snapshots /\ events' = events
      /\ receipts' = receipts /\ outbox' = outbox /\ delivery' = delivery
  BY DEF rows
<1>2. SnapshotsAreSound' /\ ReceiptsAreBacked' /\ EventsFollow'
  BY <1>1 DEF LinkedInv, SnapshotsAreSound, ReceiptsAreBacked, EventsFollow
<1>3. OutboxInv'
  BY <1>1 DEF LinkedInv, OutboxInv, OutboxWitnessesEveryCommit, Publications
<1>4. AuthorityInv'
  BY ZenonT(30), <1>1 DEF LinkedInv, AuthorityInv, NoVersion, Version
<1>. QED
  BY <1>2, <1>3, <1>4 DEF LinkedInv

\* ... by a reservation, ...
LEMMA ReservationLinks ==
  ASSUME RowShape, LinkedInv, NEW g, NEW reservation, head.state = "absent",
         authority' = [authority EXCEPT !.state = "pending", !.generation = g,
                                        !.reservation = reservation],
         UNCHANGED <<head, snapshots, events, receipts, outbox, delivery>>
  PROVE  LinkedInv'
<1>0. /\ head' = head /\ snapshots' = snapshots /\ events' = events
      /\ receipts' = receipts /\ outbox' = outbox /\ delivery' = delivery
  OBVIOUS
<1>1. SnapshotsAreSound' /\ ReceiptsAreBacked' /\ EventsFollow'
  BY <1>0 DEF LinkedInv, SnapshotsAreSound, ReceiptsAreBacked, EventsFollow
<1>2. OutboxInv'
  <2>1. OutboxInv
    BY DEF LinkedInv
  <2>2. OutboxWitnessesEveryCommit'
    BY ZenonT(30), <1>0, <2>1 DEF OutboxInv, OutboxWitnessesEveryCommit
  <2>. QED
    BY ZenonT(30), <1>0, <2>1, <2>2 DEF OutboxInv, Publications
<1>3. authority'.state = "pending"
  BY ZenonT(30) DEF RowShape
<1>4. AuthorityInv'
  BY ZenonT(30), <1>3 DEF LinkedInv, AuthorityInv, NoVersion, Version
<1>. QED
  BY <1>1, <1>2, <1>4 DEF LinkedInv

\* ... by the activation of a pending branch, ...
LEMMA ActivationLinks ==
  ASSUME RowsInv, LinkedInv, NEW cmd, authority.state = "pending",
         authority.generation = cmd.generation,
         head.state = "absent", snapshots = {}, Activate(cmd)
  PROVE  LinkedInv'
<1> DEFINE v == Version(0, -1, cmd.intent.content)
           zero == [version |-> v, parent |-> -1, start |-> -1, ids |-> <<>>]
<1>1. /\ head' = [state |-> "present", origin |-> "lifecycle",
                  generation |-> cmd.generation, version |-> v]
      /\ snapshots' = {zero}
      /\ authority' = [authority EXCEPT !.state = "active", !.intent = cmd.intent]
      /\ UNCHANGED <<events, receipts, outbox, delivery, migration>>
  BY DEF Activate
<1>2. v.snapshot = 0 /\ v.seq = -1 /\ zero.version = v /\ zero.ids = <<>>
  BY DEF Version
<1>3. events = {} /\ receipts = {} /\ RowShape
  BY DEF RowsInv, HistoryIsWhole
<1>4. outbox = {}
  BY <1>3 DEF LinkedInv, OutboxInv
<1>5. delivery = {}
  BY <1>4 DEF LinkedInv, OutboxInv, OutboxWitnessesEveryCommit
<1>6. /\ authority'.state = "active" /\ authority'.intent = cmd.intent
      /\ authority'.generation = cmd.generation
  BY ZenonT(30), <1>1, <1>3 DEF RowShape
<1>7. /\ head'.state = "present" /\ head'.version = v /\ head'.origin = "lifecycle"
      /\ head'.generation = cmd.generation
  BY <1>1
<1>8. v = Version(0, -1, authority'.intent.content)
  BY <1>6
<1> HIDE DEF zero, v
<1>9. SnapshotsAreSound' /\ ReceiptsAreBacked' /\ EventsFollow'
  BY <1>1, <1>2, <1>3 DEF SnapshotsAreSound, ReceiptsAreBacked, EventsFollow
<1>10. Publications' = {} /\ outbox' = {} /\ delivery' = {}
  BY <1>1, <1>2, <1>4, <1>5 DEF Publications
<1>11. OutboxInv'
  <2>1. Publications' = {s \in snapshots' : s.version.snapshot > 0}
    BY DEF Publications
  <2>2. IsFiniteSet({})
    BY FS_EmptySet
  <2>3. Cardinality(outbox') = Cardinality({s \in snapshots' : s.version.snapshot > 0})
    BY Zenon, <1>10, <2>1
  <2>4. OutboxWitnessesEveryCommit'
    BY <1>10, <2>1, <2>3 DEF OutboxWitnessesEveryCommit
  <2>. QED
    BY <1>10, <2>2, <2>4 DEF OutboxInv
<1>12. AuthorityInv'
  <2>1. head'.version.seq >= head'.version.snapshot - 1
    BY <1>2, <1>7
  <2>2. \E s \in snapshots' : s.version = Version(0, -1, authority'.intent.content)
    BY <1>1, <1>2, <1>8
  <2>. QED
    BY <1>6, <1>7, <2>1, <2>2 DEF AuthorityInv, NoVersion, Version
<1>. QED
  BY <1>9, <1>11, <1>12 DEF LinkedInv

\* ... and by a publication whose events follow the head.
LEMMA PublicationLinks ==
  ASSUME RowsInv, LinkedInv, NEW op \in {"append", "batch"}, NEW S, NEW es \in Seq(S),
         Publication(op, es),
         \A i \in DOMAIN es : es[i].follows \in {Undefined, head.version.seq + i - 1}
  PROVE  LinkedInv'
<1> DEFINE L == Len(es)
           added == EventRows(es, head.version)
           fresh == ReceiptRows(es, head.version)
<1>0. PICK n, q, new, row, w : /\ n = head.version.snapshot /\ q = head.version.seq
                            /\ new = PublishedSnapshot(es, head.version)
                            /\ row = OutboxRow(op, es, head.version)
                            /\ w = NextVersion(es, head.version)
  BY ZenonT(30)
<1>1. /\ L \in Nat \ {0} /\ DOMAIN es = 1..L
      /\ head'.version = w /\ head'.state = "present"
      /\ head' = [head EXCEPT !.version = w]
      /\ snapshots' = snapshots \cup {new}
      /\ events' = events \cup added
      /\ \A e \in added : \E i \in 1..L : e.seq = q + i /\ e.event = es[i] /\ e.snapshot = n + 1
      /\ \A i \in 1..L : \E e \in added : e.seq = q + i /\ e.event = es[i] /\ e.snapshot = n + 1
  BY <1>0, PublicationRows
<1>2. /\ head.state = "present" /\ authority' = authority /\ receipts' = receipts \cup fresh
      /\ outbox' = outbox \cup {row}
      /\ delivery' = delivery \cup {row.outboxId}
  BY <1>0 DEF Publication, Publish
<1>3. w.snapshot = n + 1 /\ w.seq = q + L
  BY <1>0, NextVersionFields
<1>4. Whole /\ Bounded /\ RowShape
  BY <1>2 DEF RowsInv, HistoryIsWhole, Whole
<1>5. n \in Nat /\ q \in Int /\ q >= -1
  <2>1. n \in -1..MaxSafe /\ q \in -1..(MaxSafe - 1)
    BY <1>0, <1>4 DEF RowShape
  <2>2. \E s \in snapshots : s.version = head.version
    BY <1>4 DEF Whole
  <2>3. n \in Nat
    BY <1>0, <1>4, <2>2 DEF Bounded
  <2>. QED
    BY <2>1, <2>3, CommitConstants
<1>6. /\ new.version = w /\ new.start = q + 1 /\ new.parent = n
      /\ new.ids = [i \in 1..L |-> es[i].id]
  BY <1>0, <1>1 DEF PublishedSnapshot
<1>7. /\ row.eventId = es[1].id /\ row.version = w /\ row.ids = {es[i].id : i \in 1..L}
      /\ row.outboxId = <<"append", row.eventId>> \/ row.outboxId = <<"batch", n + 1>>
  BY <1>0, <1>1 DEF OutboxRow
<1>8. /\ \A r \in fresh : \E i \in 1..L : /\ r.id = es[i].id /\ r.hash = es[i]
                                          /\ r.seq = q + i /\ r.version = w
      /\ \A i \in 1..L : \E r \in fresh : r.id = es[i].id
  <2>1. ASSUME NEW i \in 1..L PROVE \E r \in fresh : r.id = es[i].id
    <3> DEFINE r == [id |-> es[i].id, hash |-> es[i], seq |-> head.version.seq + i,
                     version |-> NextVersion(es, head.version)]
    <3>1. r \in fresh
      BY <1>1 DEF ReceiptRows
    <3>2. r.id = es[i].id
      OBVIOUS
    <3>. QED
      BY <3>1, <3>2
  <2>2. ASSUME NEW r \in fresh
        PROVE  \E i \in 1..L : /\ r.id = es[i].id /\ r.hash = es[i]
                               /\ r.seq = q + i /\ r.version = w
    BY <1>0, <1>1 DEF ReceiptRows
  <2>. QED
    BY <2>1, <2>2
<1>9. \A o \in outbox : o.eventId # es[1].id
  BY DEF Publication, Conflicts
<1>10. \A s \in snapshots : s.version.snapshot \in 0..n
  BY <1>0, <1>4 DEF Whole
<1>11. LinkedInv /\ \A i \in 1..L : es[i].follows \in {Undefined, q + i - 1}
  BY <1>0, <1>1
<1> HIDE DEF added, fresh, L
<1>12. SnapshotsAreSound'
  <2>1. DOMAIN new.ids = 1..L /\ \A i \in 1..L : new.ids[i] = es[i].id
    BY <1>6
  <2>2. Len(new.ids) = L
    <3>1. new.ids \in [1..L -> {es[i].id : i \in 1..L}]
      BY <1>6
    <3>2. new.ids \in Seq({es[i].id : i \in 1..L})
      BY <1>1, <3>1, FunctionIsSeq
    <3>3. DOMAIN new.ids = 1..Len(new.ids) /\ Len(new.ids) \in Nat
      BY <3>2, SeqIsFunction
    <3>. QED
      BY <1>1, <2>1, <3>3
  <2>3. /\ new.version.snapshot # 0 /\ new.parent = new.version.snapshot - 1
        /\ Len(new.ids) = new.version.seq - new.start + 1 /\ Len(new.ids) >= 1
        /\ new.start \in Int
    <3>1. new.version.snapshot = n + 1 /\ new.version.seq = q + L /\ new.start = q + 1
      BY <1>3, <1>6
    <3>2. L = (q + L) - (q + 1) + 1 /\ L >= 1 /\ n + 1 # 0 /\ n = (n + 1) - 1 /\ q + 1 \in Int
      BY <1>1, <1>5
    <3>. QED
      BY Zenon, <1>6, <2>2, <3>1, <3>2
  <2>. QED
    BY <1>1, <1>11, <2>3 DEF LinkedInv, SnapshotsAreSound
<1>13. ReceiptsAreBacked'
  <2>1. ASSUME NEW r \in fresh
        PROVE  /\ r.hash.id = r.id
               /\ \E e \in events' : e.seq = r.seq /\ e.event = r.hash /\ e.snapshot = r.version.snapshot
               /\ \E s \in snapshots' : /\ s.version = r.version /\ s.version.snapshot > 0
                                        /\ r.seq \in s.start..s.version.seq
    <3>1. PICK i \in 1..L : r.id = es[i].id /\ r.hash = es[i] /\ r.seq = q + i /\ r.version = w
      BY <1>8
    <3>2. PICK e \in added : e.seq = q + i /\ e.event = es[i] /\ e.snapshot = n + 1
      BY <1>1
    <3>3. e \in events' /\ new \in snapshots'
      BY <1>1
    <3>4. w.snapshot > 0 /\ r.seq \in new.start..w.seq
      BY <1>1, <1>3, <1>5, <1>6, <3>1
    <3>. QED
      BY <1>3, <1>6, <3>1, <3>2, <3>3, <3>4
  <2>2. ASSUME NEW e \in added PROVE \E r \in receipts' : r.id = e.event.id
    <3>1. PICK i \in 1..L : e.event = es[i]
      BY <1>1
    <3>2. PICK r \in fresh : r.id = es[i].id
      BY <1>8
    <3>. QED
      BY <1>2, <3>1, <3>2
  <2>3. ReceiptsAreBacked
    BY <1>11 DEF LinkedInv
  <2>4. ASSUME NEW r \in receipts
        PROVE  /\ r.hash.id = r.id
               /\ \E e \in events' : e.seq = r.seq /\ e.event = r.hash /\ e.snapshot = r.version.snapshot
               /\ \E s \in snapshots' : /\ s.version = r.version /\ s.version.snapshot > 0
                                        /\ r.seq \in s.start..s.version.seq
    BY <1>1, <2>3 DEF ReceiptsAreBacked
  <2>5. ASSUME NEW e \in events PROVE \E r \in receipts' : r.id = e.event.id
    BY <1>2, <2>3 DEF ReceiptsAreBacked
  <2>. QED
    BY ZenonT(30), <1>1, <1>2, <2>1, <2>2, <2>4, <2>5 DEF ReceiptsAreBacked
<1>14. EventsFollow'
  <2>1. ASSUME NEW e \in added PROVE e.event.follows \in {Undefined, e.seq - 1}
    <3>1. PICK i \in 1..L : e.seq = q + i /\ e.event = es[i]
      BY <1>1
    <3>2. es[i].follows \in {Undefined, q + i - 1}
      BY <1>11
    <3>3. e.seq - 1 = q + i - 1
      BY <1>1, <1>5, <3>1
    <3>. QED
      BY <3>1, <3>2, <3>3
  <2>. QED
    BY <1>1, <1>11, <2>1 DEF LinkedInv, EventsFollow
<1>15. OutboxInv'
  <2>1. OutboxInv
    BY <1>11 DEF LinkedInv
  <2>2. row \notin outbox /\ new \notin Publications
    BY <1>3, <1>5, <1>6, <1>7, <1>9, <1>10 DEF Publications
  <2>3. Publications' = Publications \cup {new}
    BY <1>1, <1>3, <1>5, <1>6 DEF Publications
  <2>4. /\ IsFiniteSet(outbox') /\ IsFiniteSet(Publications')
        /\ Cardinality(outbox') = Cardinality(Publications')
    <3>1. /\ IsFiniteSet(outbox) /\ IsFiniteSet(Publications)
          /\ Cardinality(outbox) = Cardinality(Publications)
      BY <2>1 DEF OutboxInv, OutboxWitnessesEveryCommit, Publications
    <3>2. IsFiniteSet(outbox \cup {row}) /\ Cardinality(outbox \cup {row}) = Cardinality(outbox) + 1
      BY <2>2, <3>1, FS_AddElement
    <3>3. /\ IsFiniteSet(Publications \cup {new})
          /\ Cardinality(Publications \cup {new}) = Cardinality(Publications) + 1
      BY <2>2, <3>1, FS_AddElement
    <3>. QED
      BY <1>2, <2>3, <3>1, <3>2, <3>3
  <2>5. \E o \in outbox' : o.version = new.version /\ o.ids = {new.ids[i] : i \in DOMAIN new.ids}
    <3>1. row.ids = {new.ids[i] : i \in DOMAIN new.ids}
      BY <1>6, <1>7
    <3>. QED
      BY <1>2, <1>6, <1>7, <3>1
  <2>6. \A s \in snapshots' : s.version.snapshot > 0 =>
          \E o \in outbox' : o.version = s.version /\ o.ids = {s.ids[i] : i \in DOMAIN s.ids}
    <3>1. \A s \in snapshots : s.version.snapshot > 0 =>
            \E o \in outbox : o.version = s.version /\ o.ids = {s.ids[i] : i \in DOMAIN s.ids}
      BY Zenon, <2>1 DEF OutboxInv, OutboxWitnessesEveryCommit
    <3>2. SUFFICES ASSUME NEW s \in snapshots', s.version.snapshot > 0
                   PROVE  \E o \in outbox' : o.version = s.version /\ o.ids = {s.ids[i] : i \in DOMAIN s.ids}
      BY ZenonT(60)
    <3>3. CASE s \in snapshots
      BY ZenonT(30), <1>2, <3>1, <3>2, <3>3
    <3>4. CASE s = new
      BY ZenonT(30), <2>5, <3>4
    <3>. QED
      BY Zenon, <1>1, <3>3, <3>4
  <2>7. delivery' = {o.outboxId : o \in outbox'}
    BY <1>2, <2>1 DEF OutboxInv, OutboxWitnessesEveryCommit
  <2>8. OutboxWitnessesEveryCommit'
    BY Zenon, <2>4, <2>6, <2>7 DEF OutboxWitnessesEveryCommit, Publications
  <2>9. ASSUME NEW o \in outbox'
        PROVE  /\ \E r \in receipts' : r.id = o.eventId
               /\ o.version.snapshot \in 0..head'.version.snapshot
               /\ \/ o.outboxId = <<"append", o.eventId>>
                  \/ o.outboxId = <<"batch", o.version.snapshot>>
    <3>1. CASE o \in outbox
      <4>1. /\ \E r \in receipts : r.id = o.eventId
            /\ o.version.snapshot \in 0..n
            /\ \/ o.outboxId = <<"append", o.eventId>>
               \/ o.outboxId = <<"batch", o.version.snapshot>>
        BY <1>0, <2>1, <3>1 DEF OutboxInv
      <4>. QED
        BY <1>1, <1>2, <1>3, <1>5, <4>1
    <3>2. CASE o = row
      <4>1. 1 \in 1..L /\ w.snapshot \in 0..w.snapshot
        BY <1>1, <1>3, <1>5
      <4>2. \E r \in receipts' : r.id = o.eventId
        BY <1>2, <1>7, <1>8, <3>2, <4>1
      <4>. QED
        BY <1>1, <1>3, <1>7, <3>2, <4>1, <4>2
    <3>. QED
      BY <1>2, <3>1, <3>2
  <2>. QED
    BY <2>4, <2>8, <2>9 DEF OutboxInv
<1>16. AuthorityInv'
  <2>1. head'.origin = head.origin /\ head'.generation = head.generation
    BY ZenonT(30), <1>1, <1>4 DEF RowShape
  <2>2. AuthorityInv
    BY <1>11 DEF LinkedInv
  <2>3. head'.version.seq >= head'.version.snapshot - 1
    BY <1>0, <1>1, <1>2, <1>3, <1>5, <2>2 DEF AuthorityInv
  <2>4. authority.state = "active" => \E s \in snapshots' : s.version = Version(0, -1, authority.intent.content)
    BY <1>1, <2>2 DEF AuthorityInv
  <2>. QED
    BY <1>1, <1>2, <2>1, <2>2, <2>3, <2>4 DEF AuthorityInv, Version
<1>. QED
  BY <1>12, <1>13, <1>14, <1>15, <1>16 DEF LinkedInv

-----------------------------------------------------------------------------
(***************************************************************************)
(* What calls establish before they are answered.  BranchLogProofs shows   *)
(* that every step keeps it.                                               *)
(***************************************************************************)
\* What a call in progress has established, and what an answered one was told.
Undecided(k) == k.step # "idle" => k.answer = "none" /\ k.acks = {}

BatchHasSeen(k) ==
  k.step = "prepared" /\ k.cmd.op = "batch" =>
    /\ \A i, j \in DOMAIN k.cmd.events :
         k.cmd.events[i].id = k.cmd.events[j].id => k.cmd.events[i] = k.cmd.events[j]
    /\ LET new == Accepted(k.cmd.events, k.known)
       IN  \A i \in DOMAIN new : new[i].follows \in {Undefined, k.seen.seq + i - 1}
    /\ \E s \in snapshots : s.version = k.seen
    /\ k.seen = head.version => k.known = KnownReceipts(k.cmd)
    /\ k.since \in Int /\ k.seen.snapshot >= k.since + k.attempt

BatchHasLost(k) ==
  k.step = "received" /\ k.cmd.op = "batch" /\ k.attempt > 0 =>
    k.since \in Int /\ head.version.snapshot >= k.since + k.attempt

InitializeHasSeen(k) ==
  k.step = "prepared" /\ k.cmd.op = "initialize" =>
    authority.state # "none" /\ k.known = {authority.reservation}

AcksAreStored(k) ==
  k.cmd.op \in {"append", "batch"} /\ k.acks # {} =>
    /\ \A a \in k.acks : a.receipt \in receipts
    /\ {a.receipt.hash : a \in k.acks} = {k.cmd.events[i] : i \in DOMAIN k.cmd.events}

AcceptedInPlace(k) ==
  k.answer = "accepted" =>
    \E a \in k.acks, p \in snapshots :
      p.version = k.cmd.expected /\ a.receipt.version.snapshot = p.version.snapshot + 1

CodesAreHonest(k) ==
  /\ k.answer # "state_corrupt"
  /\ k.answer = "state_unavailable" =>
       /\ k.cmd.op = "batch" /\ k.since \in Int
       /\ head.version.snapshot >= k.since + MaxAttempts

Honest(k) ==
  /\ Undecided(k) /\ BatchHasSeen(k) /\ BatchHasLost(k) /\ InitializeHasSeen(k)
  /\ AcksAreStored(k) /\ AcceptedInPlace(k) /\ CodesAreHonest(k)

AcceptedOnce ==
  \A c, d \in Calls : \A a \in Told(c), b \in Told(d) :
    (/\ a.status = "accepted" /\ b.status = "accepted"
     /\ a.receipt.id = b.receipt.id) => c = d

HonestCalls == \A c \in Calls : Honest(call[c])

AnswersInv == LinkedInv /\ AcceptedOnce /\ HonestCalls

-----------------------------------------------------------------------------
\* What a step does to the rows, as far as the other calls can tell: rows are
\* added only together with a new head.
Progress ==
  /\ RowsGrow /\ WinnerKept
  /\ head.version.snapshot \in Int /\ head'.version.snapshot \in Int
  /\ \/ head'.version = head.version /\ receipts' = receipts
     \/ head'.version.snapshot > head.version.snapshot

\* What a call has established stays true while other calls run.
LEMMA Stationary ==
  ASSUME RowsInv, Progress, NEW k, Honest(k), k.attempt \in Nat
  PROVE  Honest(k)'
<1>1. /\ snapshots \subseteq snapshots' /\ receipts \subseteq receipts'
      /\ head.version.snapshot \in Int /\ head'.version.snapshot \in Int
      /\ head'.version.snapshot >= head.version.snapshot
  BY DEF Progress, RowsGrow
<1>2. Undecided(k)' /\ AcksAreStored(k)' /\ AcceptedInPlace(k)'
  BY ZenonT(30), <1>1 DEF Honest, Undecided, AcksAreStored, AcceptedInPlace
<1>3. InitializeHasSeen(k)'
  BY DEF Honest, InitializeHasSeen, Progress, WinnerKept
<1>4. CodesAreHonest(k)'
  <2>1. CodesAreHonest(k)
    BY DEF Honest
  <2>. QED
    BY <1>1, <2>1, CommitConstants DEF CodesAreHonest
<1>5. BatchHasLost(k)'
  <2>1. BatchHasLost(k)
    BY DEF Honest
  <2>. QED
    BY <1>1, <2>1 DEF BatchHasLost
<1>6. BatchHasSeen(k)'
  <2>1. SUFFICES ASSUME k.step = "prepared", k.cmd.op = "batch" PROVE BatchHasSeen(k)'
    BY DEF BatchHasSeen
  <2>2. /\ \A i, j \in DOMAIN k.cmd.events :
             k.cmd.events[i].id = k.cmd.events[j].id => k.cmd.events[i] = k.cmd.events[j]
        /\ \A i \in DOMAIN Accepted(k.cmd.events, k.known) :
             Accepted(k.cmd.events, k.known)[i].follows \in {Undefined, k.seen.seq + i - 1}
        /\ k.seen = head.version => k.known = KnownReceipts(k.cmd)
        /\ k.since \in Int /\ k.seen.snapshot >= k.since + k.attempt
    BY <2>1 DEF Honest, BatchHasSeen
  <2>3. PICK s \in snapshots : s.version = k.seen
    BY <2>1 DEF Honest, BatchHasSeen
  <2>4. k.seen = head'.version => k.known = KnownReceipts(k.cmd)'
    <3>1. SUFFICES ASSUME k.seen = head'.version PROVE k.known = KnownReceipts(k.cmd)'
      OBVIOUS
    <3>2. head.state = "present"
      BY <2>3 DEF RowsInv, HistoryIsWhole, RowShape
    <3>3. s.version.snapshot \in 0..head.version.snapshot
      BY <3>2 DEF RowsInv, HistoryIsWhole
    <3>4. head'.version = head.version /\ receipts' = receipts
      BY <1>1, <2>3, <3>1, <3>3 DEF Progress
    <3>5. k.known = KnownReceipts(k.cmd)
      BY <2>2, <3>1, <3>4
    <3>6. KnownReceipts(k.cmd)' = KnownReceipts(k.cmd)
      BY <3>4 DEF KnownReceipts, ReceiptOf
    <3>. QED
      BY <3>5, <3>6
  <2>5. \E t \in snapshots' : t.version = k.seen
    BY <1>1, <2>3
  <2>6. /\ \A i, j \in DOMAIN k'.cmd.events :
             k'.cmd.events[i].id = k'.cmd.events[j].id => k'.cmd.events[i] = k'.cmd.events[j]
        /\ \A i \in DOMAIN Accepted(k.cmd.events, k.known)' :
             Accepted(k.cmd.events, k.known)'[i].follows \in {Undefined', k'.seen.seq + i - 1}
    BY Zenon, <2>2 DEF Accepted, FirstOfId, Undefined
  <2>. QED
    BY ZenonT(30), <2>2, <2>4, <2>5, <2>6 DEF BatchHasSeen
<1>. QED
  BY <1>2, <1>3, <1>4, <1>5, <1>6 DEF Honest

\* A record is honest in the next state when the call that holds it is.
LEMMA HonestNext ==
  ASSUME NEW d \in Calls, NEW k, call'[d] = k, Honest(k)'
  PROVE  Honest(call[d])'
<1>1. (Undecided(call[d]))' /\ (AcksAreStored(call[d]))' /\ (AcceptedInPlace(call[d]))'
  BY ZenonT(30) DEF Honest, Undecided, AcksAreStored, AcceptedInPlace
<1>2. (InitializeHasSeen(call[d]))' /\ (CodesAreHonest(call[d]))' /\ (BatchHasLost(call[d]))'
  BY ZenonT(30) DEF Honest, InitializeHasSeen, CodesAreHonest, BatchHasLost
<1>3. (BatchHasSeen(call[d]))'
  <2>1. KnownReceipts(call[d].cmd)' = KnownReceipts(k.cmd)'
    BY DEF KnownReceipts, ReceiptOf
  <2>2. Accepted(call[d].cmd.events, call[d].known)' = Accepted(k.cmd.events, k.known)'
    BY DEF Accepted, FirstOfId
  <2>3. BatchHasSeen(k)'
    BY DEF Honest
  <2>4. SUFFICES ASSUME k.step = "prepared", k.cmd.op = "batch" PROVE (BatchHasSeen(call[d]))'
    BY DEF BatchHasSeen
  <2>5. /\ \A i, j \in DOMAIN k.cmd.events :
             k.cmd.events[i].id = k.cmd.events[j].id => k.cmd.events[i] = k.cmd.events[j]
        /\ \A i \in DOMAIN Accepted(k.cmd.events, k.known)' :
             Accepted(k.cmd.events, k.known)'[i].follows \in {Undefined, k.seen.seq + i - 1}
        /\ \E s \in snapshots' : s.version = k.seen
        /\ k.seen = head'.version => k.known = KnownReceipts(k.cmd)'
        /\ k.since \in Int /\ k.seen.snapshot >= k.since + k.attempt
    BY ZenonT(30), <2>3, <2>4 DEF BatchHasSeen, Undefined
  <2>. QED
    BY ZenonT(30), <2>1, <2>2, <2>5 DEF BatchHasSeen, Undefined
<1>. QED
  BY <1>1, <1>2, <1>3 DEF Honest

\* A call that a step does not touch stays honest.
LEMMA OthersStayHonest ==
  ASSUME RowsInv, CallsInv, HonestCalls, Progress, NEW d \in Calls, call'[d] = call[d]
  PROVE  Honest(call[d])'
<1>1. PICK k : k = call[d]
  OBVIOUS
<1>2. Honest(k) /\ k.attempt \in Nat
  BY <1>1, CommitConstants DEF HonestCalls, CallsInv, CallInv
<1>3. Honest(k)'
  BY <1>2, Stationary
<1>. QED
  BY <1>1, <1>3, HonestNext

\* A step that gives call c the record k.
LEMMA OneMoves ==
  ASSUME RowsInv, CallsInv, HonestCalls, Progress,
         NEW c \in Calls, NEW k, call' = [call EXCEPT ![c] = k], Honest(k)'
  PROVE  HonestCalls'
<1>1. call'[c] = k /\ \A d \in Calls : d # c => call'[d] = call[d]
  BY DEF CallsInv, CallShape
<1>2. ASSUME NEW d \in Calls PROVE Honest(call[d])'
  <2>1. CASE d = c
    BY <1>1, <2>1, HonestNext
  <2>2. CASE d # c
    BY <1>1, <2>2, OthersStayHonest
  <2>. QED
    BY <2>1, <2>2
<1>. QED
  BY <1>2 DEF HonestCalls

\* Nobody is told that a stored event was accepted just now.
LEMMA OnceKept ==
  ASSUME AcceptedOnce, HonestCalls, NEW c,
         \A d \in Calls \ {c} : Told(d)' \subseteq Told(d),
         \A a \in Told(c)' : a.status = "accepted" => \A r \in receipts : r.id # a.receipt.id
  PROVE  AcceptedOnce'
<1>1. ASSUME NEW d \in Calls, NEW a \in Told(d) PROVE a.receipt \in receipts
  BY <1>1 DEF HonestCalls, Honest, AcksAreStored, Told
<1>2. ASSUME NEW d \in Calls \ {c}, NEW a \in Told(d)', NEW b \in Told(c)', c \in Calls,
             b.status = "accepted", a.receipt.id = b.receipt.id
      PROVE  FALSE
  BY <1>1, <1>2
<1>3. ASSUME NEW d \in Calls, NEW e \in Calls, NEW a \in Told(d)', NEW b \in Told(e)',
             a.status = "accepted", b.status = "accepted", a.receipt.id = b.receipt.id
      PROVE  d = e
  <2>1. CASE d = c \/ e = c
    BY <1>2, <1>3, <2>1
  <2>2. CASE d # c /\ e # c
    <3>1. a \in Told(d) /\ b \in Told(e)
      BY <1>3, <2>2
    <3>. QED
      BY <1>3, <3>1 DEF AcceptedOnce
  <2>. QED
    BY <2>1, <2>2
<1>. QED
  BY <1>3 DEF AcceptedOnce

-----------------------------------------------------------------------------
\* Steps that leave the rows alone make progress in this sense, ...
LEMMA SameProgress ==
  ASSUME RowsInv, UNCHANGED rows
  PROVE  Progress
<1>1. head.version.snapshot \in Int
  BY CommitConstants DEF RowsInv, RowShape
<1>. QED
  BY <1>1 DEF rows, Progress, RowsGrow, WinnerKept

\* ... and so does a publication.
LEMMA PublicationProgress ==
  ASSUME RowsInv, OneOwner, NEW op, NEW S, NEW es \in Seq(S), Publication(op, es)
  PROVE  Progress
<1>1. RowsGrow /\ WinnerKept
  BY PublicationKeeps DEF RowsKept
<1>2. head'.version.snapshot = head.version.snapshot + 1
  BY PublicationRows, NextVersionFields
<1>3. head.version.snapshot \in Int
  BY CommitConstants DEF RowsInv, RowShape
<1>. QED
  BY <1>1, <1>2, <1>3 DEF Progress

\* A call that is answered truthfully.
LEMMA Replied ==
  ASSUME RowsInv, CallsInv, HonestCalls, AcceptedOnce, Progress,
         NEW c \in Calls, NEW code, NEW acks, Answer(c, code, acks),
         code \notin {"state_corrupt", "state_unavailable"},
         call[c].cmd.op \in {"append", "batch"} /\ acks # {} =>
           /\ \A a \in acks : a.receipt \in receipts'
           /\ {a.receipt.hash : a \in acks} = {call[c].cmd.events[i] : i \in DOMAIN call[c].cmd.events},
         code = "accepted" =>
           \E a \in acks, p \in snapshots' :
             p.version = call[c].cmd.expected /\ a.receipt.version.snapshot = p.version.snapshot + 1,
         call[c].cmd.op \in {"append", "batch"} =>
           \A a \in acks : a.status = "accepted" => \A r \in receipts : r.id # a.receipt.id
  PROVE  HonestCalls' /\ AcceptedOnce'
<1>1. PICK k : k = [call[c] EXCEPT !.step = "idle", !.seen = NoVersion, !.known = {},
                                   !.answer = code, !.acks = acks]
  OBVIOUS
<1>2. call' = [call EXCEPT ![c] = k]
  BY ZenonT(30), <1>1 DEF Answer
<1>3. CallFields(call[c])
  BY DEF CallsInv, CallShape
<1>4. /\ k.step = "idle" /\ k.cmd = call[c].cmd /\ k.answer = code /\ k.acks = acks
  BY ZenonT(30), <1>1, <1>3 DEF CallFields, FieldNames
<1>5. Honest(k)'
  <2>1. Undecided(k)' /\ BatchHasSeen(k)' /\ BatchHasLost(k)' /\ InitializeHasSeen(k)'
    BY ZenonT(30), <1>4 DEF Undecided, BatchHasSeen, BatchHasLost, InitializeHasSeen
  <2>2. AcksAreStored(k)'
    BY ZenonT(30), <1>4 DEF AcksAreStored
  <2>3. AcceptedInPlace(k)'
    BY ZenonT(30), <1>4 DEF AcceptedInPlace
  <2>4. CodesAreHonest(k)'
    BY ZenonT(30), <1>4 DEF CodesAreHonest
  <2>. QED
    BY <2>1, <2>2, <2>3, <2>4 DEF Honest
<1>6. HonestCalls'
  BY ZenonT(30), <1>2, <1>5, OneMoves
<1>7. call'[c] = k /\ \A d \in Calls : d # c => call'[d] = call[d]
  BY <1>2 DEF CallsInv, CallShape
<1>8. \A d \in Calls \ {c} : Told(d)' \subseteq Told(d)
  BY <1>7 DEF Told
<1>9. \A a \in Told(c)' : a.status = "accepted" => \A r \in receipts : r.id # a.receipt.id
  BY <1>4, <1>7 DEF Told
<1>10. AcceptedOnce'
  BY <1>8, <1>9, OnceKept
<1>. QED
  BY <1>6, <1>10

\* The codes of a failure that needs no explanation.
Plain(code) == code \notin {"state_corrupt", "state_unavailable", "accepted"}

\* A call that fails with such a code.
LEMMA FailedPlainly ==
  ASSUME IInv, AnswersInv, NEW c \in Calls, NEW code, Plain(code), Fail(c, code)
  PROVE  AnswersInv'
<1>1. Answer(c, code, {}) /\ UNCHANGED <<rows, migration>>
  BY DEF Fail
<1>2. Progress /\ LinkedInv'
  BY <1>1, SameProgress, SameLinks DEF IInv, AnswersInv
<1>3. HonestCalls' /\ AcceptedOnce'
  BY <1>1, <1>2, Replied DEF IInv, AnswersInv, Plain
<1>. QED
  BY <1>2, <1>3 DEF AnswersInv

\* The checks answer with plain codes: the stored rows pass every validator.
LEMMA HeadCodes ==
  ASSUME RowsInv, LinkedInv, NEW g
  PROVE  Plain(HeadCheck(g)) /\ (HeadCheck(g) = "ok" => head.state = "present")
<1>1. HeadCheck(g) # "state_corrupt"
  BY HeadCheckPasses DEF LinkedInv
<1>2. HeadCheck(g) \in {"ok", "branch_not_found", "routing_generation_mismatch",
                        "branch_initialization_pending", "state_corrupt"}
  BY DEF HeadCheck
<1>3. HeadCheck(g) = "ok" => head.state = "present"
  BY HeadIsPresent DEF RowsInv, RowShape
<1>. QED
  BY <1>1, <1>2, <1>3 DEF Plain

\* The same of append, ...
LEMMA AppendCodes ==
  ASSUME RowsInv, LinkedInv, NEW cmd
  PROVE  Plain(AppendCheck(cmd))
<1>1. CASE HeadCheck(cmd.generation) # "ok"
  BY <1>1, HeadCodes DEF AppendCheck
<1>2. CASE HeadCheck(cmd.generation) = "ok"
  <2>1. SnapshotIsSound(head.version)
    BY <1>2, HeadCodes, HeadPasses DEF LinkedInv
  <2>2. \A r \in ReceiptOf(cmd.events[1].id) : ReceiptIsSound(r)
    BY <1>2, HeadCodes, ReceiptsPass DEF LinkedInv, ReceiptOf
  <2>3. AppendCheck(cmd) \in {"diff_event_id_reused", "duplicate", "diff_predecessor_mismatch", "ok"}
    BY <1>2, <2>1, <2>2 DEF AppendCheck
  <2>. QED
    BY <2>3 DEF Plain
<1>. QED
  BY <1>1, <1>2

\* ... of the rows that appendBatch reads, ...
LEMMA BatchCodes ==
  ASSUME RowsInv, LinkedInv, NEW cmd
  PROVE  Plain(BatchCheck(cmd))
<1>1. CASE HeadCheck(cmd.generation) # "ok"
  BY <1>1, HeadCodes DEF BatchCheck
<1>2. CASE HeadCheck(cmd.generation) = "ok"
  <2>1. SnapshotIsSound(head.version)
    BY <1>2, HeadCodes, HeadPasses DEF LinkedInv
  <2>2. \A id : \A r \in ReceiptOf(id) : ReceiptIsSound(r)
    BY <1>2, HeadCodes, ReceiptsPass DEF LinkedInv, ReceiptOf
  <2>3. BatchCheck(cmd) \in {"diff_event_id_reused", "ok"}
    BY <1>2, <2>1, <2>2 DEF BatchCheck
  <2>. QED
    BY <2>3 DEF Plain
<1>. QED
  BY <1>1, <1>2

\* ... of prepareBranchBatch, ...
LEMMA PrepareBatchCodes ==
  ASSUME NEW es, NEW known, NEW v
  PROVE  Plain(PrepareBatchCheck(es, known, v))
BY DEF PrepareBatchCheck, Plain

\* ... and of reserve.
LEMMA ReserveCodes ==
  ASSUME RowsInv, LinkedInv, NEW cmd
  PROVE  Plain(ReserveCheck(cmd))
BY HeadCodes DEF ReserveCheck, Plain

=============================================================================
