----------------------------- MODULE MC_Storage -----------------------------
(***************************************************************************)
(* Drops, the fact log and account sync on R2 and D1, in scenes chosen     *)
(* initially: the variables a scene does not use are None or, those of     *)
(* AccountRecovery and BranchPromotion, keep an initial value.             *)
(*   race      upsert, deletes, owner bootstrap and publication of a root  *)
(*   publish   publications under one key and another, repeated            *)
(*   claims    two isolates create two drops with one short id             *)
(*   links     two isolates store, resolve, delete and, once the caches    *)
(*             have forgotten it, store a drop again                       *)
(*   promote   a promotion, its retry, and one with another key, with a    *)
(*             failing call, or with a frozen holder of the lease (stall)  *)
(*   facts     a fact, its retry, a reuse of its id, and another fact      *)
(*   page      three facts and a poll                                      *)
(*   recovery  two attempts to set up account sync or to replace the code, *)
(*             by two users, with a lost answer and a repeated request     *)
(***************************************************************************)
EXTENDS AccountRecovery, BranchPromotion, Sequences, TLC

CONSTANT Scenes

VARIABLES
  scene, job,
  object, library, rows, branch, receipt, lock, installs,
  r2, d1, cache, backfill, stored, entry,
  head, fact, row, seqs, ids, mark, told, poll

rootOnly == <<object, library, rows, branch, receipt, lock, installs>>
aliasOnly == <<r2, cache, backfill, stored, entry>>
leaseOnly == <<lease, phase, started, lost, robbed>>
promotionOnly == <<promotionStore, promotion, shown>>
factsOnly == <<head, fact, row, seqs, ids, mark, told, poll>>

NoRoot == object = None /\ library = None /\ rows = None /\ branch = None /\ receipt = None
          /\ lock = None /\ installs = None
NoAlias == r2 = None /\ cache = None /\ backfill = None /\ stored = None /\ entry = None
NoLease == lease = None /\ phase = None /\ started = None /\ lost = None /\ robbed = None
NoAnswers == answer = None /\ stalls = None
NoFacts == head = None /\ fact = None /\ row = None /\ seqs = None /\ ids = None
           /\ mark = None /\ told = None /\ poll = None
NoRecovery == RecoveryInit /\ owner = None

-----------------------------------------------------------------------------
KeyOf(r) == IF r = "other" THEN "k2" ELSE "k1"

Racing == ("up" :> "store") @@ ("del" :> "delete") @@ ("del2" :> "delete")
          @@ ("boot" :> "bootstrap") @@ ("pub" :> "publish")
Publishing == [r \in {"boot", "pub", "again", "other"} |->
                 IF r = "boot" THEN "bootstrap" ELSE "publish"]

Race == INSTANCE DropRoot WITH Requests <- DOMAIN Racing, Kind <- Racing,
          Key <- [r \in DOMAIN Racing |-> KeyOf(r)], MaxStalls <- 0, MaxFaults <- 1
Publish == INSTANCE DropRoot WITH Requests <- DOMAIN Publishing, Kind <- Publishing,
             Key <- [r \in DOMAIN Publishing |-> KeyOf(r)], MaxStalls <- 1,
             MaxFaults <- 0

Claiming == [r \in {"s1", "s2", "s3", "get"} |-> IF r = "get" THEN "read" ELSE "create"]

Claims == INSTANCE DropAlias WITH Drops <- {"f1", "f2"}, Isolates <- {"i1", "i2"},
            Requests <- DOMAIN Claiming, Kind <- Claiming,
            Drop <- [r \in DOMAIN Claiming |-> IF r = "s2" THEN "f2" ELSE "f1"],
            Isolate <- [r \in DOMAIN Claiming |-> IF r = "s1" THEN "i1" ELSE "i2"],
            MaxFaults <- 0

Again == ("s1" :> "store") @@ ("s2" :> "store") @@ ("s3" :> "store") @@ ("look" :> "resolve")
         @@ ("del" :> "delete") @@ ("del2" :> "delete")

Links == INSTANCE DropAlias WITH Drops <- {"f1", "f2"}, Isolates <- {"i1", "i2"},
           Requests <- DOMAIN Again, Kind <- Again, Drop <- [r \in DOMAIN Again |-> "f1"],
           Isolate <- [r \in DOMAIN Again |-> IF r \in {"s1", "del", "s3"} THEN "i1" ELSE "i2"],
           MaxFaults <- 1

\* After its alias was removed a drop is stored again only when the caches have
\* forgotten it (ALIAS_CACHE_TTL_MS).
Patient ==
  \A r \in DOMAIN Again :
    /\ Again[r] = "store" /\ job[r].pc = "idle" /\ job'[r].pc # "idle"
    /\ "f1" \notin {r2, d1}
    => Links!Forgotten("f1")

Promoting == {"first", "retry", "other"}
PromotionKeys == [r \in Promoting |-> KeyOf(r)]

Stating == {"first", "retry", "reuse", "other"}

Facts == INSTANCE RuntimeFactLog WITH Requests <- Stating, NoToken <- None,
           Id <- [r \in Stating |-> IF r = "other" THEN "g" ELSE "f"],
           Body <- [r \in Stating |-> IF r = "reuse" THEN "c" ELSE "b"],
           MaxStalls <- 0, MaxFaults <- 1, PageLimit <- 2, MaxHead <- 0

Paging == {"first", "second", "third"}

Page == INSTANCE RuntimeFactLog WITH Requests <- Paging, NoToken <- None,
          Id <- [r \in Paging |-> r], Body <- [r \in Paging |-> "b"],
          MaxStalls <- 0, MaxFaults <- 0, PageLimit <- 2, MaxHead <- 0

ASSUME
  /\ Race!RootConstants /\ Publish!RootConstants
  /\ Claims!AliasConstants /\ Links!AliasConstants
  /\ Facts!FactConstants /\ Page!FactConstants
  /\ RecoveryConstants

-----------------------------------------------------------------------------
\* A call fails, or a holder of the lease is frozen, not both.
PromoteNext == PromotionNext /\ stalls' = 0
StallNext == PromotionNext /\ faults' = 0

SceneInit ==
  /\ scene \in Scenes
  /\ NothingPromoted
  /\ \/ /\ \/ scene = "race" /\ Race!Init
           \/ scene = "publish" /\ Publish!Init
        /\ NoAlias /\ NoLease /\ NoFacts /\ NoRecovery /\ d1 = None
     \/ /\ \/ scene = "claims" /\ Claims!Init
           \/ scene = "links" /\ Links!Init
        /\ NoRoot /\ NoLease /\ NoAnswers /\ NoFacts /\ NoRecovery
     \/ /\ scene \in {"promote", "stall"} /\ PromotionInit
        /\ NoRoot /\ NoAlias /\ NoFacts /\ NoRecovery /\ d1 = None /\ job = None
     \/ /\ \/ scene = "facts" /\ Facts!Init
           \/ scene = "page" /\ Page!Init
        /\ NoRoot /\ NoAlias /\ NoRecovery
     \/ /\ scene = "recovery" /\ RecoveryInit
        /\ NoRoot /\ NoAlias /\ NoLease /\ NoAnswers /\ NoFacts /\ d1 = None /\ job = None
        /\ faults = None

SceneNext ==
  /\ \/ /\ \/ scene = "race" /\ Race!Next
           \/ scene = "publish" /\ Publish!Next
        /\ UNCHANGED <<aliasOnly, leaseOnly, promotionOnly, factsOnly, recoveryVars, d1>>
     \/ /\ \/ scene = "claims" /\ Claims!Next
           \/ scene = "links" /\ Links!Next /\ Patient
        /\ UNCHANGED <<rootOnly, leaseOnly, promotionOnly, factsOnly, recoveryVars,
                       answer, stalls>>
     \/ /\ \/ scene = "promote" /\ PromoteNext
           \/ scene = "stall" /\ StallNext
        /\ UNCHANGED <<rootOnly, aliasOnly, factsOnly, recoveryVars, d1, job>>
     \/ /\ \/ scene = "facts" /\ Facts!Next
           \/ scene = "page" /\ Page!Next
        /\ UNCHANGED <<rootOnly, aliasOnly, promotionOnly, recoveryVars>>
     \/ /\ scene = "recovery" /\ RecoveryNext
        /\ UNCHANGED <<rootOnly, aliasOnly, leaseVars, promotionOnly, factsOnly, d1, job>>
  /\ UNCHANGED scene

allVars == <<scene, job, rootOnly, aliasOnly, leaseVars, promotionOnly, factsOnly,
             recoveryVars, d1>>

SceneSpec == SceneInit /\ [][SceneNext]_allVars

Symmetry == Permutations(Attempt)

-----------------------------------------------------------------------------
\* Once the owner branch exists, only a publication replaces the root: no
\* upsert that read the root earlier gets through ("an upsert cannot race
\* snapshot zero creation and leave an older owner timeline behind").
OwnerHistoryIsNotReplaced == [][scene = "race" => Race!KeepsOwnerHistory]_allVars

\* A root that the library lists as active has its object, however stores,
\* deletes and publications of it interleave or break off ("Tombstone first so
\* a later physical cleanup failure never leaves an active root."); and however
\* often a publication is sent again, broken off or raced, its payload is put
\* at the root at most once, and every success under one idempotency key names
\* the same revision (delete/[id].ts, branches/publication.ts).
RootIsWhole ==
  /\ scene = "race" => Race!ActiveRootIsStored
  /\ scene = "publish" => Publish!PublishedOnce /\ Publish!RetriesAgree

\* Two drops whose ids begin alike are never both stored, and the short link
\* of a drop whose store succeeded leads to it, also when it was deleted and,
\* after the lifetime of the caches, stored again (drops/identity/id.ts).
AliasLeadsToItsDrop ==
  /\ scene = "claims" => Claims!OneDropPerAlias /\ Claims!ShortLinkResolves
  /\ scene = "links" => Links!ShortLinkResolves

\* In every copy of the timeline a runtime fact has one number, and a request
\* answered with success has its own data stored where every poll finds it,
\* whatever call failed between the D1 and the R2 writes.
FactsAreNumberedOnce ==
  scene = "facts" => Facts!OneNumberPerFact /\ Facts!AnswerIsStored

\* Polling runtime facts by cursor never passes a stored fact over
\* (pollBranchRuntimeFactsSince).
PollSkipsNothing == scene = "page" => Page!PollSkipsNothing
=============================================================================
