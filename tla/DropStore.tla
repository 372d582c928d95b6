------------------------------ MODULE DropStore ------------------------------
(***************************************************************************)
(* The publication of one drop from the pages of one browser.  The sealed  *)
(* drop is stored in IndexedDB first; an intent is queued, and a loop in   *)
(* each page publishes one intent after the other.  If the remote drop is  *)
(* another envelope, a conflict is recorded and the user chooses a side.   *)
(* The pages share IndexedDB: the drop, the queue and the conflict; other  *)
(* browsers write and delete the remote drop.  An envelope is a number,    *)
(* new for every sealing: publishing seals the payload again, so that the  *)
(* remote envelope never equals the local one it was made from.  0 is no   *)
(* envelope.  The pages are in online mode, and the service has no signing *)
(* key of its own, so that it stores an envelope as it was sent.           *)
(***************************************************************************)
EXTENDS Naturals, Null

CONSTANTS Window, Call, MaxSeals, MaxCalls, MaxReloads

DropStoreConstants ==
    None \notin Window /\ MaxSeals \in Nat \ {0} /\ MaxCalls \in Nat /\ MaxReloads \in Nat

VARIABLES
    local,    \* the envelope in IndexedDB
    remote,   \* the envelope behind /api/store and /api/get; its etag is itself
    seals,    \* envelopes made so far
    disk,     \* the persisted queue and conflict
    store,    \* the state of the store in every page
    loop,     \* the publish loop of every page
    request,  \* the asynchronous calls of the store's operations
    begun,    \* calls made so far
    reloads   \* page loads so far

dropVars == <<local, remote, seals, disk, store, loop, request, begun, reloads>>
budget == <<begun, reloads>>

Fresh == [queued |-> FALSE, queueRead |-> FALSE, conflict |-> None, conflictRead |-> FALSE]
Resting == [pc |-> "idle", local |-> 0]
NoCall == [pc |-> "idle", kind |-> "none", at |-> None, read |-> None, entries |-> FALSE,
           target |-> None, latest |-> 0, local |-> 0]

DropInit ==
    /\ local = 1 /\ seals = 1 /\ remote = 0
    /\ disk \in [queued : BOOLEAN, conflict : {None}]
    /\ store = [p \in Window |-> Fresh]
    /\ loop = [p \in Window |-> Resting]
    /\ request = [c \in Call |-> NoCall] /\ begun = 0 /\ reloads = 0

Seals == seals < MaxSeals /\ seals' = seals + 1

(***************************************************************************)
(* Operations: they load what IndexedDB holds, unless that is done.        *)
(***************************************************************************)
Stage(c, pc) == request[c].pc = pc
Turns(c, pc) == request' = [request EXCEPT ![c].pc = pc]
Settles(c) == request' = [request EXCEPT ![c] = NoCall]

Opens(c, p, kind) ==
    /\ Stage(c, "idle") /\ begun < MaxCalls /\ begun' = begun + 1
    /\ request' = [request EXCEPT ![c] = [NoCall EXCEPT !.pc = "conflicts", !.kind = kind, !.at = p]]
    /\ UNCHANGED <<disk, store, loop, remote, reloads>>

\* The new drop is sealed into IndexedDB before the intent is queued.
CreateDrop(c, p) == Opens(c, p, "publish") /\ Seals /\ local' = seals + 1

SyncDropToRemote(c, p) == Opens(c, p, "publish") /\ UNCHANGED <<local, seals>>
StartPublication(c, p) == Opens(c, p, "start") /\ UNCHANGED <<local, seals>>
ResolveSyncConflict(c, p) ==
    /\ \E side \in {"accept-local", "accept-remote"} : Opens(c, p, side)
    /\ UNCHANGED <<local, seals>>

AfterConflicts(c) == IF request[c].kind \in {"publish", "start"} THEN "queue" ELSE "target"

HydrateSyncConflicts(c) ==
    /\ Stage(c, "conflicts")
    /\ IF store[request[c].at].conflictRead THEN Turns(c, AfterConflicts(c))
       ELSE request' = [request EXCEPT ![c].pc = "conflicts read", ![c].read = disk.conflict]
    /\ UNCHANGED <<local, remote, seals, disk, store, loop, budget>>

ConflictsHydrated(c) ==
    /\ Stage(c, "conflicts read")
    /\ store' = [store EXCEPT ![request[c].at].conflict = request[c].read,
                              ![request[c].at].conflictRead = TRUE]
    /\ request' = [request EXCEPT ![c].pc = AfterConflicts(c), ![c].read = None]
    /\ UNCHANGED <<local, remote, seals, disk, loop, budget>>

HydrateSyncQueue(c) ==
    /\ Stage(c, "queue")
    /\ IF store[request[c].at].queueRead THEN Turns(c, "enqueue")
       ELSE request' = [request EXCEPT ![c].pc = "queue read", ![c].entries = disk.queued]
    /\ UNCHANGED <<local, remote, seals, disk, store, loop, budget>>

QueueHydrated(c) ==
    /\ Stage(c, "queue read")
    /\ store' = [store EXCEPT ![request[c].at].queued = @ \/ request[c].entries,
                              ![request[c].at].queueRead = TRUE]
    /\ Turns(c, "enqueue")
    /\ UNCHANGED <<local, remote, seals, disk, loop, budget>>

\* ensurePublishLoop: one loop per page.
Running(p) == IF loop[p].pc = "idle" THEN [loop EXCEPT ![p].pc = "take"] ELSE loop

\* A drop with a pending conflict is not published; the start of a page only
\* resumes what was queued.
EnqueuePublishIntent(c) ==
    /\ Stage(c, "enqueue")
    /\ LET p == request[c].at
       IN  IF request[c].kind = "publish" /\ store[p].conflict = None
             THEN /\ store' = [store EXCEPT ![p].queued = TRUE]
                  /\ disk' = [disk EXCEPT !.queued = TRUE]
                  /\ loop' = Running(p)
             ELSE /\ loop' = IF request[c].kind = "start" /\ store[p].queued THEN Running(p)
                             ELSE loop
                  /\ UNCHANGED <<store, disk>>
    /\ Settles(c)
    /\ UNCHANGED <<local, remote, seals, budget>>

(***************************************************************************)
(* The publish loop.                                                       *)
(***************************************************************************)
LoopAt(p, pc) == loop[p].pc = pc
LoopMoves(p, pc) == loop' = [loop EXCEPT ![p].pc = pc]
Onward(p) == loop' = [loop EXCEPT ![p] = [pc |-> "take", local |-> 0]]

\* The intent leaves the queue, in memory and on disk, before it is run.
LoopTakes(p) ==
    /\ LoopAt(p, "take")
    /\ IF store[p].queued
         THEN /\ store' = [store EXCEPT ![p].queued = FALSE]
              /\ disk' = [disk EXCEPT !.queued = FALSE]
              /\ LoopMoves(p, "local")
         ELSE LoopMoves(p, "idle") /\ UNCHANGED <<store, disk>>
    /\ UNCHANGED <<local, remote, seals, request, budget>>

LoopReadsLocal(p) ==
    /\ LoopAt(p, "local")
    /\ loop' = [loop EXCEPT ![p] = [pc |-> "remote", local |-> local]]
    /\ UNCHANGED <<local, remote, seals, disk, store, request, budget>>

\* createConflictRecord: a pending record is refreshed, else a new one made.
Records(p) ==
    /\ store' = [store EXCEPT ![p].conflict =
         [local |-> loop[p].local, remote |-> remote]]
    /\ LoopMoves(p, "persist")

LoopReadsRemote(p) ==
    /\ LoopAt(p, "remote")
    /\ \/ remote = 0 /\ LoopMoves(p, "create") /\ UNCHANGED store
       \/ remote # 0 /\ remote = loop[p].local /\ Onward(p) /\ UNCHANGED store
       \/ remote # 0 /\ remote # loop[p].local /\ Records(p)
       \/ Onward(p) /\ UNCHANGED store
    /\ UNCHANGED <<local, remote, seals, disk, request, budget>>

\* POST /api/store without upsert: created, or 409.  The answer may be lost.
LoopCreates(p) ==
    /\ LoopAt(p, "create")
    /\ \/ remote = 0 /\ Seals /\ remote' = seals + 1 /\ Onward(p)
       \/ remote # 0 /\ LoopMoves(p, "compete") /\ UNCHANGED <<remote, seals>>
    /\ UNCHANGED <<local, disk, store, request, budget>>

LoopReadsCompeting(p) ==
    /\ LoopAt(p, "compete")
    /\ \/ remote # 0 /\ Records(p)
       \/ remote = 0 /\ Onward(p) /\ UNCHANGED store
    /\ UNCHANGED <<local, remote, seals, disk, request, budget>>

LoopPersists(p) ==
    /\ LoopAt(p, "persist")
    /\ disk' = [disk EXCEPT !.conflict = store[p].conflict]
    /\ Onward(p)
    /\ UNCHANGED <<local, remote, seals, store, request, budget>>

(***************************************************************************)
(* resolveConflictRecord.  The call works on the copy of the conflict it   *)
(* took at its start.                                                      *)
(***************************************************************************)
ResolveTargets(c) ==
    /\ Stage(c, "target")
    /\ LET record == store[request[c].at].conflict
       IN  IF record # None
             THEN request' = [request EXCEPT ![c].target = record, ![c].pc = request[c].kind]
             ELSE Settles(c)
    /\ UNCHANGED <<local, remote, seals, disk, store, loop, budget>>

\* The record is replaced in the page and written to disk.
Shows(c, record) ==
    /\ store' = [store EXCEPT ![request[c].at].conflict = record]
    /\ disk' = [disk EXCEPT !.conflict = record]
    /\ Settles(c)

AcceptReadsRemote(c) ==
    /\ Stage(c, "accept-local")
    /\ IF remote \notin {0, request[c].target.remote}
         THEN Shows(c, [request[c].target EXCEPT !.remote = remote])
         ELSE /\ request' = [request EXCEPT ![c].latest = remote, ![c].pc = "read local"]
              /\ UNCHANGED <<store, disk>>
    /\ UNCHANGED <<local, remote, seals, loop, budget>>

AcceptReadsLocal(c) ==
    /\ Stage(c, "read local")
    /\ request' = [request EXCEPT ![c].local = local, ![c].pc = "put"]
    /\ UNCHANGED <<local, remote, seals, disk, store, loop, budget>>

\* The revision the upsert names, and the conditional put that checks it.
ExpectedRevision(c) == IF request[c].latest # 0 THEN request[c].latest ELSE request[c].target.remote
RevisionCurrent(c) == remote # 0
RevisionMatches(c) == remote = ExpectedRevision(c)

\* Refused with 412 for another revision, or with 409 for a drop that has owner
\* history, in which case the service may answer so whatever the revision is.
AcceptPuts(c) ==
    /\ Stage(c, "put")
    /\ \/ /\ RevisionMatches(c)
          /\ remote' = request[c].local
          /\ request' = [request EXCEPT ![c].pc = "resolved"]
       \/ /\ RevisionMatches(c)      \* the answer is lost
          /\ remote' = request[c].local
          /\ Settles(c)
       \/ Turns(c, "refresh") /\ UNCHANGED remote
    /\ UNCHANGED <<local, seals, disk, store, loop, budget>>

AcceptRefreshes(c) ==
    /\ Stage(c, "refresh")
    /\ IF remote # 0 THEN Shows(c, [request[c].target EXCEPT !.remote = remote])
       ELSE Settles(c) /\ UNCHANGED <<store, disk>>
    /\ UNCHANGED <<local, remote, seals, loop, budget>>

AcceptReadsLatest(c) ==
    /\ Stage(c, "accept-remote")
    /\ IF local # request[c].target.local
         THEN Shows(c, [request[c].target EXCEPT !.local = local])
         ELSE Turns(c, "put local") /\ UNCHANGED <<store, disk>>
    /\ UNCHANGED <<local, remote, seals, loop, budget>>

AcceptPutsLocal(c) ==
    /\ Stage(c, "put local")
    /\ local' = request[c].target.remote
    /\ Turns(c, "resolved")
    /\ UNCHANGED <<remote, seals, disk, store, loop, budget>>

AcceptEnds(c) ==
    /\ Stage(c, "resolved")
    /\ Shows(c, None)
    /\ UNCHANGED <<local, remote, seals, loop, budget>>

(***************************************************************************)
(* A page is loaded again; another browser writes or deletes the drop.     *)
(***************************************************************************)
Reload(p) ==
    /\ reloads < MaxReloads /\ reloads' = reloads + 1
    /\ store' = [store EXCEPT ![p] = Fresh]
    /\ loop' = [loop EXCEPT ![p] = Resting]
    /\ request' = [c \in Call |-> IF request[c].at = p THEN NoCall ELSE request[c]]
    /\ UNCHANGED <<local, remote, seals, disk, begun>>

OtherBrowser ==
    /\ \/ Seals /\ remote' = seals + 1
       \/ remote # 0 /\ remote' = 0 /\ UNCHANGED seals
    /\ UNCHANGED <<local, disk, store, loop, request, budget>>

-----------------------------------------------------------------------------
Operation(c, p) ==
    CreateDrop(c, p) \/ SyncDropToRemote(c, p) \/ StartPublication(c, p)
    \/ ResolveSyncConflict(c, p)

CallStep(c) ==
    \/ HydrateSyncConflicts(c) \/ ConflictsHydrated(c) \/ HydrateSyncQueue(c)
    \/ QueueHydrated(c) \/ EnqueuePublishIntent(c) \/ ResolveTargets(c)
    \/ AcceptReadsRemote(c) \/ AcceptReadsLocal(c) \/ AcceptPuts(c) \/ AcceptRefreshes(c)
    \/ AcceptReadsLatest(c) \/ AcceptPutsLocal(c) \/ AcceptEnds(c)

LoopStep(p) ==
    \/ LoopTakes(p) \/ LoopReadsLocal(p) \/ LoopReadsRemote(p) \/ LoopCreates(p)
    \/ LoopReadsCompeting(p) \/ LoopPersists(p)

DropNext ==
    \/ \E c \in Call : CallStep(c) \/ \E p \in Window : Operation(c, p)
    \/ \E p \in Window : LoopStep(p) \/ Reload(p)
    \/ OtherBrowser

DropSpec == DropInit /\ [][DropNext]_dropVars

-----------------------------------------------------------------------------
\* What this browser replaces at the remote is what its user decided about: a
\* step that puts the local drop in place of another envelope is the end of an
\* accept-local whose conflict showed exactly that envelope when the user
\* chose, whatever other browsers wrote, deleted or published while it ran,
\* and publishing alone replaces nothing ("Remote state changed for drop ...
\* Review the refreshed conflict before resolving").
ReplacesWhatWasShown ==
    [][remote # 0 /\ remote' \notin {0, remote} /\ <<request, loop>>' # <<request, loop>>
         => \E c \in Call : /\ Stage(c, "put") /\ request'[c] # request[c]
                            /\ remote = request[c].target.remote]_dropVars
=============================================================================
