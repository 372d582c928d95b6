------------------------------ MODULE DropRoot ------------------------------
(***************************************************************************)
(* One root drop in blob storage and the requests that change it: storeDrop*)
(* (an upsert under the root lease, a create without it), onRequestDelete, *)
(* the bootstrap of the owner branch by resolveBranchForActor, and         *)
(* publishOwnerSnapshot under the root and then the branch lease.          *)
(*                                                                         *)
(* An etag is a hash of the object, so a revision is the object itself.    *)
(* All requests come from the owning account.  What a request reads between*)
(* taking its leases and its first write is one step; each write, and each *)
(* beginCommit before it, is a step of its own.  A storage call fails,     *)
(* before or after its effect, or its process stops, at most MaxFaults     *)
(* times; a process freezes until its leases are stale at most MaxStalls   *)
(* times.  Short aliases are modelled in DropAlias.                        *)
(***************************************************************************)
EXTENDS Naturals, Sequences, FiniteSets

CONSTANTS
  Requests,
  Kind,       \* per request: store, create, delete, bootstrap or publish
  Key,        \* per request: the idempotencyKey of a publication
  None,
  MaxHead,    \* bound on the snapshots of the owner branch
  MaxStalls,
  MaxFaults

Kinds == {"store", "create", "delete", "bootstrap", "publish"}

RootConstants ==
  /\ Kind \in [Requests -> Kinds]
  /\ DOMAIN Key = Requests
  /\ None \notin Requests
  /\ MaxHead \in Nat /\ MaxStalls \in Nat /\ MaxFaults \in Nat

Keys == {Key[r] : r \in Requests}
Locks == {"root", "branch"}

VARIABLES
  object,    \* the root object, or None
  library,   \* account_library_entries: absent, active or deleted
  rows,      \* which of public_drops and drops have a row
  branch,    \* the owner branch: text of snapshot zero and head, or None
  receipt,   \* publication receipts by key, or None
  lock,      \* the two lease blobs: token and state
  job,       \* per request: its locals
  answer,    \* per request: what the client was told
  installs,  \* history: the objects put at the root, in order
  stalls, faults

store == <<object, library, rows, branch, receipt, installs>>
vars == <<store, lock, job, answer, stalls, faults>>

Base == [by |-> None, snap |-> None, text |-> None]

Init ==
  /\ object = Base /\ library = "active" /\ rows = {"index", "drops"}
  /\ branch = None
  /\ receipt = [k \in Keys |-> None]
  /\ lock = [l \in Locks |-> [token |-> None, state |-> "released"]]
  /\ job = [r \in Requests |->
              [pc |-> "idle", todo |-> <<>>, sure |-> FALSE, begun |-> FALSE,
               rev |-> None, snap |-> None, payload |-> None]]
  /\ answer = [r \in Requests |-> [status |-> "none", rev |-> None]]
  /\ installs = <<Base>>
  /\ stalls = 0 /\ faults = 0

Fault == faults < MaxFaults /\ faults' = faults + 1

-----------------------------------------------------------------------------
(* Leases. *)

Leases(r) ==
  CASE Kind[r] = "publish" -> Locks
    [] Kind[r] = "create"  -> {}
    [] OTHER               -> {"root"}

Holds(r, l) == lock[l].token = r /\ lock[l].state # "released"

HoldsAll(r) == \A l \in Leases(r) : Holds(r, l)

Renewed(r) ==
  [l \in Locks |-> IF l \in Leases(r) THEN [lock[l] EXCEPT !.state = "held"] ELSE lock[l]]

\* acquireRootMutationLock, then acquireBranchMutationLock.
Acquire(r, l) ==
  /\ lock[l].state # "held"
  /\ lock' = [lock EXCEPT ![l] = [token |-> r, state |-> "held"]]

Alive(r) == job[r].pc \notin {"idle", "done", "dead"}

\* The stale time passes without a renewal of the leases of a request.
Expire(r) ==
  /\ \E l \in Locks : lock[l].token = r /\ lock[l].state = "held"
  /\ IF Alive(r) THEN stalls < MaxStalls /\ stalls' = stalls + 1 ELSE UNCHANGED stalls
  /\ lock' = [l \in Locks |-> IF Holds(r, l) THEN [lock[l] EXCEPT !.state = "stale"]
                              ELSE lock[l]]
  /\ UNCHANGED <<store, job, answer, faults>>

-----------------------------------------------------------------------------
(* Requests. *)

Becomes(r, j) == job' = [job EXCEPT ![r] = j]

\* A client sends what it last saw; a publication may repeat the fields of
\* an earlier request with its key.
Arrive(r) ==
  /\ job[r].pc = "idle"
  /\ CASE Kind[r] = "publish" ->
            /\ branch # None /\ object # None
            /\ \E f \in {[snap |-> branch.head, rev |-> object]}
                        \cup {[snap |-> job[q].snap, rev |-> job[q].rev] :
                                q \in {q \in Requests : Key[q] = Key[r] /\ job[q].rev # None
                                                        /\ Kind[q] = "publish"}} :
                 Becomes(r, [job[r] EXCEPT !.pc = "root", !.snap = f.snap, !.rev = f.rev])
       [] Kind[r] = "delete" ->
            Becomes(r, [job[r] EXCEPT !.pc = "root", !.rev = object])
       [] Kind[r] = "store" ->
            \E rev \in {None, object} : Becomes(r, [job[r] EXCEPT !.pc = "root", !.rev = rev])
       [] Kind[r] = "bootstrap" -> Becomes(r, [job[r] EXCEPT !.pc = "root"])
       [] Kind[r] = "create"    -> Becomes(r, [job[r] EXCEPT !.pc = "read"])
  /\ UNCHANGED <<store, lock, answer, stalls, faults>>

TakeLease(r) ==
  /\ job[r].pc \in Locks
  /\ Acquire(r, job[r].pc)
  /\ job' = [job EXCEPT ![r].pc =
               IF job[r].pc = "root" /\ Kind[r] = "publish" THEN "branch" ELSE "read"]
  /\ UNCHANGED <<store, answer, stalls, faults>>

\* The end of a request: leases it still has are released, or left to expire
\* when that fails.
Ends(r, status, rev) ==
  /\ job' = [job EXCEPT ![r].pc = "done"]
  /\ answer' = [answer EXCEPT ![r] = [status |-> status, rev |-> rev]]
  /\ \/ /\ lock' = [l \in Locks |-> IF Holds(r, l) THEN [lock[l] EXCEPT !.state = "released"]
                                    ELSE lock[l]]
        /\ UNCHANGED faults
     \/ Fault /\ (\E l \in Locks : Holds(r, l)) /\ UNCHANGED lock
  /\ UNCHANGED stalls

LeaseTimesOut(r) ==
  /\ job[r].pc \in Locks
  /\ lock[job[r].pc].state = "held"
  /\ Ends(r, "failed", None)
  /\ UNCHANGED store

\* A refusal after beginCommit reaches a publisher as an unknown outcome.
Refuses(r) ==
  Ends(r, IF Kind[r] = "publish" /\ (job[r].begun \/ ~Holds(r, "branch"))
          THEN "unknown" ELSE "refused", None)

Runs(r, todo, rev, payload) ==
  Becomes(r, [job[r] EXCEPT !.pc = "steps", !.todo = todo, !.rev = rev, !.payload = payload])

Stay == UNCHANGED <<lock, answer, stalls, faults>>

Snapshot(n) == IF n = 0 THEN branch.base ELSE n

\* assertOwnerRootHistory: the root has the text of the snapshot it names.
HistoryMatches ==
  object.text = Snapshot(IF object.snap = None THEN 0 ELSE object.snap)

Stored(r) == [by |-> r, snap |-> None, text |-> r]

\* storeDrop of a given id, up to its first write.
\* Mutant: the owner branch is not looked for.
ReadStoreOnly(r) ==
  IF Kind[r] = "store" /\ object # None /\ library = "absent" THEN Refuses(r)
  ELSE /\ Runs(r, <<"object", "index", "drops", "library">>,
               IF Kind[r] = "store" /\ job[r].rev = None THEN object ELSE job[r].rev, Stored(r))
       /\ Stay

ReadStore(r) ==
  IF Kind[r] = "store" /\ ((object # None /\ library = "absent") \/ branch # None)
  THEN Refuses(r)
  ELSE /\ Runs(r, <<"object", "index", "drops", "library">>,
               IF Kind[r] = "store" /\ job[r].rev = None THEN object ELSE job[r].rev, Stored(r))
       /\ Stay

\* onRequestDelete.
ReadDelete(r) ==
  IF library # "active" \/ object = None \/ object # job[r].rev THEN Refuses(r)
  ELSE Runs(r, <<"library", "index", "drops", "object">>, job[r].rev, None) /\ Stay

\* resolveBranchForActorUnderRootLock, for the owner.
ReadBootstrap(r) ==
  IF object = None \/ (branch # None /\ ~HistoryMatches) THEN Refuses(r)
  ELSE IF branch # None THEN Ends(r, "ok", None)
  ELSE Runs(r, <<"branch">>, object, None) /\ Stay

Projections == <<"index", "library", "drops", "completed">>

\* A completed receipt is the answer.
Replays(r, known) ==
  Ends(r, IF Holds(r, "branch") THEN "ok" ELSE "unknown", known.published)

\* A pending receipt is carried out from where it stopped.
\* Mutant: on whatever root there is.
ResumesAnyway(r, known) ==
  Runs(r, <<"object">> \o Projections, object, known.payload) /\ Stay

Resumes(r, known) ==
  IF object = known.payload THEN Runs(r, Projections, job[r].rev, known.payload) /\ Stay
  ELSE IF object # known.rev THEN Refuses(r)
  ELSE Runs(r, <<"object">> \o Projections, job[r].rev, known.payload) /\ Stay

\* publishOwnerSnapshot, up to its first write.
ReadPublish(r) ==
  LET known == receipt[Key[r]]
  IN  IF library # "active" \/ branch = None \/ object = None THEN Refuses(r)
      ELSE IF known # None
      THEN IF known.snap # job[r].snap \/ known.rev # job[r].rev THEN Refuses(r)
           ELSE IF known.status = "completed" THEN Replays(r, known)
           ELSE Resumes(r, known)
      ELSE IF branch.head # job[r].snap \/ object # job[r].rev \/ ~HistoryMatches
      THEN Refuses(r)
      ELSE /\ Runs(r, <<"pending", "object">> \o Projections, job[r].rev,
                   [by |-> r, snap |-> job[r].snap, text |-> Snapshot(job[r].snap)])
           /\ Stay

Read(r) ==
  /\ job[r].pc = "read"
  /\ CASE Kind[r] \in {"store", "create"} -> ReadStore(r)
       [] Kind[r] = "delete"              -> ReadDelete(r)
       [] Kind[r] = "bootstrap"           -> ReadBootstrap(r)
       [] Kind[r] = "publish"             -> ReadPublish(r)
  /\ UNCHANGED store

-----------------------------------------------------------------------------
(* Writes. *)

Op(r) == Head(job[r].todo)

\* Which writes come after a beginCommit.
Guarded(r, op) ==
  CASE Kind[r] = "delete"    -> TRUE
    [] Kind[r] = "store"     -> op = "object"
    [] Kind[r] = "bootstrap" -> op = "branch"
    [] Kind[r] = "publish"   -> op \in {"pending", "object", "completed"}
    [] Kind[r] = "create"    -> FALSE

\* beginCommit of each lease the request holds.
Confirm(r) ==
  /\ job[r].pc = "steps" /\ job[r].todo # <<>> /\ ~job[r].sure /\ Guarded(r, Op(r))
  /\ IF HoldsAll(r)
     THEN /\ lock' = Renewed(r)
          /\ job' = [job EXCEPT ![r].sure = TRUE, ![r].begun = TRUE]
          /\ UNCHANGED <<answer, stalls, faults>>
     ELSE Ends(r, IF Kind[r] = "publish" THEN "unknown" ELSE "failed", None)
  /\ UNCHANGED store

\* Whether a conditional put finds what it expects.
Matches(r, op) ==
  CASE op = "object" /\ Kind[r] = "delete" -> TRUE
    [] op = "object" /\ Kind[r] = "create" -> object = None
    [] op = "object"  -> object = job[r].rev
    [] op = "pending" -> receipt[Key[r]] = None
    [] OTHER          -> TRUE

Pending(r) == [status |-> "pending", snap |-> job[r].snap, rev |-> job[r].rev,
               payload |-> job[r].payload, published |-> None]

\* The effect of a write.
Apply(r, op) ==
  /\ object' = IF op = "object" THEN job[r].payload ELSE object
  /\ installs' = IF op = "object" /\ job[r].payload # None
                 THEN Append(installs, job[r].payload) ELSE installs
  /\ library' = IF op # "library" THEN library
                ELSE IF Kind[r] # "delete" THEN "active"
                ELSE IF library = "active" THEN "deleted" ELSE library
  /\ rows' = CASE op \notin {"index", "drops"} -> rows
               [] Kind[r] = "delete"           -> rows \ {op}
               [] op = "drops" /\ Kind[r] = "publish" -> rows
               [] OTHER                        -> rows \cup {op}
  /\ branch' = IF op = "branch" THEN [base |-> job[r].rev.text, head |-> 0] ELSE branch
  /\ receipt' = CASE op = "pending" -> [receipt EXCEPT ![Key[r]] = Pending(r)]
                  [] op = "completed" ->
                       [receipt EXCEPT ![Key[r]] = [Pending(r) EXCEPT
                          !.status = "completed", !.published = job[r].payload]]
                  [] OTHER -> receipt

Write(r) ==
  /\ job[r].pc = "steps" /\ job[r].todo # <<>>
  /\ Guarded(r, Op(r)) => job[r].sure
  /\ IF Matches(r, Op(r))
     THEN /\ Apply(r, Op(r))
          /\ job' = [job EXCEPT ![r].todo = Tail(@), ![r].sure = FALSE]
          /\ UNCHANGED <<lock, answer, stalls, faults>>
     ELSE Refuses(r) /\ UNCHANGED store

\* All writes are done: withBranchMutationLock looks at its lease once more.
Finish(r) ==
  /\ job[r].pc = "steps" /\ job[r].todo = <<>>
  /\ IF Kind[r] = "publish" /\ ~Holds(r, "branch") THEN Ends(r, "unknown", None)
     ELSE Ends(r, "ok", IF Kind[r] = "delete" THEN None ELSE job[r].payload)
  /\ UNCHANGED store

\* A storage call throws, with or without its effect, and the request ends
\* or its process stops.
Breaks(r) ==
  /\ job[r].pc \in {"read", "steps"}
  /\ Fault
  /\ \/ UNCHANGED store
     \/ /\ job[r].todo # <<>> /\ (Guarded(r, Op(r)) => job[r].sure) /\ Matches(r, Op(r))
        /\ Apply(r, Op(r))
  /\ \/ /\ job' = [job EXCEPT ![r].pc = "done"]
        /\ answer' = [answer EXCEPT ![r].status =
                        IF Kind[r] = "publish" THEN "unknown" ELSE "failed"]
        /\ lock' = [l \in Locks |-> IF Holds(r, l) THEN [lock[l] EXCEPT !.state = "released"]
                                    ELSE lock[l]]
     \/ job' = [job EXCEPT ![r].pc = "dead"] /\ UNCHANGED <<answer, lock>>
  /\ UNCHANGED stalls

\* An append to the owner branch moves its head.
MoveHead ==
  /\ branch # None /\ branch.head < MaxHead
  /\ lock["branch"].state # "held"
  /\ branch' = [branch EXCEPT !.head = @ + 1]
  /\ UNCHANGED <<object, library, rows, receipt, installs, lock, job, answer, stalls, faults>>

Next ==
  \/ \E r \in Requests :
       \/ Arrive(r) \/ TakeLease(r) \/ LeaseTimesOut(r) \/ Read(r)
       \/ Confirm(r) \/ Write(r) \/ Finish(r) \/ Breaks(r) \/ Expire(r)
  \/ MoveHead

Spec == Init /\ [][Next]_vars

-----------------------------------------------------------------------------
TypeOK ==
  /\ library \in {"absent", "active", "deleted"}
  /\ rows \subseteq {"index", "drops"}
  /\ \A l \in Locks : lock[l].state \in {"held", "stale", "released"}
  /\ \A k \in Keys : receipt[k] # None => receipt[k].status \in {"pending", "completed"}

(* A root that the library lists as active has its object, however stores, *)
(* deletes and publications of it interleave or break off.  onRequestDelete*)
(* says: "Tombstone first so a later physical cleanup failure never leaves *)
(* an active root."                                                        *)
ActiveRootIsStored == library = "active" => object # None

(* Once the owner branch exists, only a publication replaces the root: no  *)
(* upsert that read the root earlier gets through.  storeDrop says:        *)
(* "Resolution/branch bootstrap shares the root lease, so an upsert cannot *)
(* race snapshot zero creation and leave an older owner timeline behind."  *)
KeepsOwnerHistory ==
  branch # None /\ object # None /\ object' \notin {None, object} => object'.snap # None

(* However often a publication is sent again, broken off or raced, its     *)
(* payload is put at the root at most once, on top of the revision the     *)
(* request named; and a completed receipt names a root that really was.    *)
PublishedOnce ==
  /\ \A i, j \in 1..Len(installs) :
       (installs[i].snap # None /\ installs[i] = installs[j]) => i = j
  /\ \A k \in Keys : (receipt[k] # None /\ receipt[k].status = "completed") =>
       \E i \in 2..Len(installs) :
          installs[i] = receipt[k].published /\ installs[i-1] = receipt[k].rev

(* Two successful answers to one idempotency key name the same revision.   *)
(* NULDOWN_API.md: "A completed retry returns the original receipt even if *)
(* another publication has since updated the root."                        *)
RetriesAgree ==
  \A r, q \in Requests :
    /\ Kind[r] = "publish" /\ Kind[q] = "publish" /\ Key[r] = Key[q]
    /\ answer[r].status = "ok" /\ answer[q].status = "ok"
    => answer[r].rev = answer[q].rev
=============================================================================
