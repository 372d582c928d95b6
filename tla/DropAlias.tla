------------------------------ MODULE DropAlias ------------------------------
(***************************************************************************)
(* The short link of a drop (drops/identity/id.ts): an R2 alias object, its*)
(* D1 row and a cache with a lifetime in every isolate, as storeDrop,      *)
(* onRequestDelete, resolution and reads use them.  All drops here share   *)
(* one short id.  Each await is a step of its own; the upserts and deletes *)
(* of one drop exclude each other (the root lease), a store that only      *)
(* creates takes no lease.  An object put throws at most MaxFaults times,  *)
(* before or after it took effect.                                         *)
(***************************************************************************)
EXTENDS Naturals, FiniteSets

CONSTANTS
  Drops,      \* full ids with the same first six characters
  Isolates,
  Requests,
  Kind,       \* per request: store (upsert), create, delete, resolve or read
  Drop,       \* per request: the full id of a store or a delete
  Isolate,    \* per request: the isolate that serves it
  None,
  MaxFaults

AliasConstants ==
  /\ Kind \in [Requests -> {"store", "create", "delete", "resolve", "read"}]
  /\ Drop \in [Requests -> Drops] /\ Isolate \in [Requests -> Isolates]
  /\ None \notin Drops /\ MaxFaults \in Nat

VARIABLES
  r2,        \* the alias object
  d1,        \* the drop_aliases row
  cache,     \* aliasCache per isolate
  backfill,  \* isolates with the short id in aliasesNeedingD1Backfill
  stored,    \* drops with an object
  entry,     \* per drop: its account library entry
  job,       \* per request: program counter and locals
  faults

vars == <<r2, d1, cache, backfill, stored, entry, job, faults>>

Init ==
  /\ r2 = None /\ d1 = None
  /\ cache = [i \in Isolates |-> None]
  /\ backfill = {} /\ stored = {}
  /\ entry = [d \in Drops |-> "none"]
  /\ job = [r \in Requests |-> [pc |-> "idle", alias |-> None, exists |-> FALSE,
                                retry |-> FALSE, reserved |-> FALSE, removes |-> FALSE]]
  /\ faults = 0

Moves(r, pc) == job' = [job EXCEPT ![r].pc = pc]

Caches(r, d) == cache' = [cache EXCEPT ![Isolate[r]] = d]

\* The requests of some kinds that are at work on a drop.
Busy(d, kinds) ==
  {r \in Requests : /\ Drop[r] = d /\ Kind[r] \in kinds
                    /\ job[r].pc \notin {"idle", "ok", "conflict", "failed"}}

\* A request comes in: an upsert and a delete take the lease and read the
\* object and the entry, a delete writes its tombstone before the alias goes.
Arrive(r) ==
  /\ job[r].pc = "idle"
  /\ LET d == Drop[r]
         leased == Kind[r] \in {"store", "delete"}
         refused == \/ Kind[r] = "store" /\ d \in stored /\ entry[d] = "none"
                    \/ Kind[r] = "delete" /\ ~(d \in stored /\ entry[d] = "active")
     IN  /\ leased => Busy(d, {"store", "delete"}) = {}
         /\ job' = [job EXCEPT ![r].pc = IF refused THEN "failed" ELSE "lookup",
                               ![r].exists = Kind[r] = "store" /\ d \in stored,
                               ![r].removes = Kind[r] = "delete"]
         /\ entry' = IF Kind[r] = "delete" /\ ~refused THEN [entry EXCEPT ![d] = "deleted"]
                     ELSE entry
  /\ UNCHANGED <<r2, d1, cache, backfill, stored, faults>>

-----------------------------------------------------------------------------
(* readRemoteAlias; a read request takes the variant without writes. *)

Lookup(r) ==
  /\ job[r].pc = "lookup"
  /\ IF cache[Isolate[r]] = None THEN Moves(r, "d1")
     ELSE IF Kind[r] # "read" /\ Isolate[r] \in backfill
     THEN job' = [job EXCEPT ![r].pc = "fill", ![r].alias = cache[Isolate[r]]]
     ELSE job' = [job EXCEPT ![r].pc = "have", ![r].alias = cache[Isolate[r]]]
  /\ UNCHANGED <<r2, d1, cache, backfill, stored, entry, faults>>

\* The row and the object are read ...
Query(r) ==
  /\ job[r].pc \in {"d1", "r2"}
  /\ job' = [job EXCEPT ![r].pc = IF @ = "d1" THEN "row" ELSE "object",
                        ![r].alias = IF job[r].pc = "d1" THEN d1 ELSE r2]
  /\ UNCHANGED <<r2, d1, cache, backfill, stored, entry, faults>>

\* ... and what was read goes to the cache when the answer is there.
GotRow(r) ==
  /\ job[r].pc = "row"
  /\ IF job[r].alias = None THEN Moves(r, "r2") /\ UNCHANGED <<cache, backfill>>
     ELSE Moves(r, "have") /\ Caches(r, job[r].alias) /\ backfill' = backfill \ {Isolate[r]}
  /\ UNCHANGED <<r2, d1, stored, entry, faults>>

GotObject(r) ==
  /\ job[r].pc = "object"
  /\ IF job[r].alias = None THEN Moves(r, "have") /\ UNCHANGED <<cache, backfill>>
     ELSE /\ Caches(r, job[r].alias)
          /\ Moves(r, IF Kind[r] = "read" THEN "have" ELSE "fill")
          /\ backfill' = IF Kind[r] = "read" THEN backfill \cup {Isolate[r]} ELSE backfill
  /\ UNCHANGED <<r2, d1, stored, entry, faults>>

\* writeRemoteAliasToD1 keeps the row of another drop.
WriteD1(r) ==
  /\ job[r].pc \in {"fill", "claimed"}
  /\ d1' = IF d1 = None THEN job[r].alias ELSE d1
  /\ backfill' = backfill \ {Isolate[r]}
  /\ Moves(r, IF job[r].pc = "fill" THEN "have" ELSE "put")
  /\ UNCHANGED <<r2, cache, stored, entry, faults>>

-----------------------------------------------------------------------------
\* What a request does with the alias it read: reserveRemoteAlias,
\* removeRemoteAliasIfMatch, or nothing more.
Decide(r) ==
  /\ job[r].pc = "have"
  /\ LET mine == job[r].alias = Drop[r]
         stores == Kind[r] \in {"store", "create"} /\ ~job[r].removes
     IN  CASE stores /\ mine -> Moves(r, "put") /\ Caches(r, Drop[r])
           [] stores /\ ~mine /\ (job[r].alias # None \/ job[r].retry) ->
                /\ Moves(r, "conflict")
                /\ IF job[r].retry /\ job[r].alias # None THEN Caches(r, job[r].alias)
                   ELSE UNCHANGED cache
           [] stores /\ ~mine /\ job[r].alias = None /\ ~job[r].retry ->
                Moves(r, "claim") /\ UNCHANGED cache
           [] job[r].removes -> Moves(r, IF mine THEN "unlink" ELSE "removed") /\ UNCHANGED cache
           [] OTHER -> Moves(r, "ok") /\ UNCHANGED cache
  /\ UNCHANGED <<r2, d1, backfill, stored, entry, faults>>

\* The create-only put of the alias object decides between two claims.
\* Mutant: the alias object is written whoever has it.
ClaimAlways(r) ==
  /\ job[r].pc = "claim"
  /\ r2' = Drop[r] /\ Caches(r, Drop[r])
  /\ job' = [job EXCEPT ![r].pc = "claimed", ![r].alias = Drop[r], ![r].reserved = TRUE]
  /\ UNCHANGED <<d1, backfill, stored, entry, faults>>

Claim(r) ==
  /\ job[r].pc = "claim"
  /\ IF r2 = None
     THEN /\ r2' = Drop[r] /\ Caches(r, Drop[r])
          /\ job' = [job EXCEPT ![r].pc = "claimed", ![r].alias = Drop[r],
                                ![r].reserved = TRUE]
     ELSE /\ job' = [job EXCEPT ![r].pc = "lookup", ![r].retry = TRUE]
          /\ UNCHANGED <<r2, cache>>
  /\ UNCHANGED <<d1, backfill, stored, entry, faults>>

\* The object put of storeDrop, and the entry once it is stored; a put that
\* throws may have taken effect, and a fresh reservation is undone.
Put(r) ==
  /\ job[r].pc = "put"
  /\ LET d == Drop[r]
         taken == d \in stored /\ ~job[r].exists
     IN  \/ /\ stored' = stored \cup {d}
            /\ entry' = IF taken THEN entry ELSE [entry EXCEPT ![d] = "active"]
            /\ Moves(r, IF taken THEN "conflict" ELSE "ok")
            /\ UNCHANGED faults
         \/ /\ faults < MaxFaults /\ faults' = faults + 1
            /\ stored' \in {stored, stored \cup {d}}
            /\ job' = [job EXCEPT ![r].pc = IF job[r].reserved THEN "lookup" ELSE "failed",
                                  ![r].removes = job[r].reserved]
            /\ UNCHANGED entry
  /\ UNCHANGED <<r2, d1, cache, backfill>>

Unlink(r) ==
  /\ job[r].pc = "unlink"
  /\ r2' = None
  /\ Moves(r, "unrow")
  /\ UNCHANGED <<d1, cache, backfill, stored, entry, faults>>

Unrow(r) ==
  /\ job[r].pc = "unrow"
  /\ d1' = IF d1 = Drop[r] THEN None ELSE d1
  /\ Caches(r, None) /\ backfill' = backfill \ {Isolate[r]}
  /\ Moves(r, "removed")
  /\ UNCHANGED <<r2, stored, entry, faults>>

\* A delete ends with its object; a store whose put threw answers the error.
Removed(r) ==
  /\ job[r].pc = "removed"
  /\ stored' = IF Kind[r] = "delete" THEN stored \ {Drop[r]} ELSE stored
  /\ Moves(r, IF Kind[r] = "delete" THEN "ok" ELSE "failed")
  /\ UNCHANGED <<r2, d1, cache, backfill, entry, faults>>

\* ALIAS_CACHE_TTL_MS pass.
Forget(i) ==
  /\ cache[i] # None
  /\ cache' = [cache EXCEPT ![i] = None]
  /\ backfill' = backfill \ {i}
  /\ UNCHANGED <<r2, d1, stored, entry, job, faults>>

Next ==
  \/ \E r \in Requests :
       \/ Arrive(r) \/ Lookup(r) \/ Query(r) \/ GotRow(r) \/ GotObject(r) \/ WriteD1(r)
       \/ Decide(r) \/ Claim(r) \/ Put(r) \/ Unlink(r) \/ Unrow(r) \/ Removed(r)
  \/ \E i \in Isolates : Forget(i)

Spec == Init /\ [][Next]_vars

-----------------------------------------------------------------------------
TypeOK ==
  /\ {r2, d1} \cup {cache[i] : i \in Isolates} \subseteq Drops \cup {None}
  /\ stored \subseteq Drops /\ backfill \subseteq Isolates
  /\ entry \in [Drops -> {"none", "active", "deleted"}]

\* The drop itself is in nobody's cache, nor on its way there.
Forgotten(d) ==
  /\ \A i \in Isolates : cache[i] # d
  /\ \A r \in Requests : job[r].alias = d => job[r].pc \in {"idle", "ok", "conflict", "failed"}

\* Listed in the library, and nobody is changing it.
Settled(d) == entry[d] = "active" /\ Busy(d, {"store", "create", "delete"}) = {}

(* Two drops whose ids begin alike are never both stored: one of the stores*)
(* is answered alias_conflict, "Requested ID short alias is already owned  *)
(* by another full ID." (NULDOWN_API.md)                                   *)
OneDropPerAlias == \A d, e \in Drops : Settled(d) /\ Settled(e) => d = e

(* The short link of a drop whose store succeeded leads to it: what a      *)
(* resolution finds in the row, or else in the alias object, is the drop.  *)
(* NULDOWN_API says: "APIs accept either short or full IDs".               *)
ShortLinkResolves ==
  \A d \in Drops : Settled(d) => IF d1 # None THEN d1 = d ELSE r2 = d
=============================================================================
