-------------------------- MODULE MC_BranchCommits --------------------------
(***************************************************************************)
(* Calls that act on what they read before an await, in scenes chosen      *)
(* initially; what a scene does not use keeps its initial value.           *)
(*   append     BranchCommits with single appends                          *)
(*   batch      envelopes of events                                        *)
(*   lifecycle  reservations and initializations                           *)
(*   vault      the account keys of a browser: two pages with two calls    *)
(*              under way, a sign-out and two users                        *)
(*   mount      the same with one call, and the account control mounted    *)
(*              again                                                      *)
(*   publish    two pages publish one drop and resolve its conflicts while *)
(*              another browser writes and deletes it; calls and page      *)
(*              loads together are at most three                           *)
(* A text is "x" or "y": "flip" turns one into the other and "keep" leaves *)
(* it, so texts recur.                                                     *)
(***************************************************************************)
EXTENDS BranchCommits, AccountVault, DropStore, TLC

VARIABLE scene

MCPatch(text, ops) ==
  IF ops = "keep" THEN text ELSE IF text = "x" THEN "y" ELSE "x"

Event(id, ops, follows) == [id |-> id, ops |-> ops, follows |-> follows]

AppendOf(generation, e, v) ==
  [op |-> "append", generation |-> generation, events |-> <<e>>, expected |-> v]

BatchOf(generation, es) == [op |-> "batch", generation |-> generation, events |-> es]

\* Appends of three events at every version up to snapshot 2, a second event
\* under the id "a", and a call routed with another generation.
MCAppends ==
  {AppendOf(0, Event(id, ops, v.seq), v) :
     id \in {"a", "b"}, ops \in {"flip", "keep"},
     v \in {Version(0, -1, "x"), Version(1, 0, "x"), Version(1, 0, "y")}}
  \cup {AppendOf(0, Event("c", "flip", v.seq), v) :
          v \in {Version(1, 0, "y"), Version(2, 1, "x"), Version(2, 1, "y")}}
  \cup {AppendOf(1, Event("a", "flip", -1), Version(0, -1, "x"))}

\* Envelopes that overlap, repeat an event, contradict themselves, state or
\* do not state what they follow, and compete with a single append.
MCBatches ==
  LET free(id) == Event(id, "flip", Undefined)
      keep(id) == Event(id, "keep", Undefined)
  IN {BatchOf(0, es) : es \in
       {<<free("a")>>, <<free("b")>>, <<keep("c")>>,
        <<free("a"), free("b")>>, <<free("b"), free("a"), free("b")>>,
        <<keep("a"), free("a")>>,
        <<Event("c", "flip", -1), Event("d", "keep", 0)>>,
        <<Event("c", "flip", 1)>>}}
     \cup {AppendOf(0, Event("d", "flip", -1), Version(0, -1, "x")),
           AppendOf(0, Event("e", "flip", 0), Version(1, 0, "y"))}

\* Competing reservations of an account with two clients and of an anonymous
\* writer, initializations with two texts, and an append.
MCLifecycle ==
  LET reservation(id, account, client) ==
        [id |-> id, identity |-> [account |-> account, client |-> client], revision |-> "v1"]
      intent(id, revision, content) == [id |-> id, revision |-> revision, content |-> content]
  IN {[op |-> "reserve", generation |-> 0, reservation |-> r] : r \in
        {reservation("r1", "ann", "laptop"), reservation("r2", "ann", "phone"),
         reservation("r3", "anonymous", "phone"), reservation("r4", "anonymous", "laptop")}}
     \cup {[op |-> "reserve", generation |-> 1, reservation |-> reservation("r1", "ann", "laptop")]}
     \cup {[op |-> "initialize", generation |-> 0, intent |-> i] : i \in
             {intent(id, "v1", text) : id \in {"r1", "r2", "r3"}, text \in {"x", "y"}}}
     \cup {[op |-> "initialize", generation |-> 0, intent |-> intent("r1", "v2", "x")],
           [op |-> "initialize", generation |-> 1, intent |-> intent("r1", "v1", "x")]}
     \cup {AppendOf(0, Event("a", "flip", -1), Version(0, -1, "x")),
           BatchOf(0, <<Event("b", "flip", Undefined)>>)}

MCSeeds == {[generation |-> 0, content |-> "x"]}

SceneCommands == [append |-> MCAppends, batch |-> MCBatches, lifecycle |-> MCLifecycle]

MCCommands == UNION {SceneCommands[s] : s \in DOMAIN SceneCommands}

ASSUME VaultConstants /\ DropStoreConstants

\* One of the browsers there may be, where the scene leaves it alone.
NoVault == VaultInit /\ vault = None /\ ~guarded
NoUpload == DropInit /\ ~disk.queued

Begun == {c \in Task : task[c].pc # "idle"}

SceneInit ==
  \/ scene \in DOMAIN SceneCommands /\ Init /\ NoVault /\ NoUpload
  \/ scene \in {"vault", "mount"} /\ InitWith(EmptyBranch) /\ VaultInit /\ NoUpload
  \/ scene = "publish" /\ InitWith(EmptyBranch) /\ NoVault /\ DropInit

SceneNext ==
  /\ \/ /\ scene \in DOMAIN SceneCommands
        /\ \/ \E c \in Calls : \E cmd \in SceneCommands[scene] : Receive(c, cmd)
           \/ \E c \in Calls : Step(c)
           \/ MigrationAdmits
           \/ MigrationRollsBack
           \/ Crash
        /\ UNCHANGED <<vaultVars, dropVars>>
     \/ scene = "vault" /\ VaultNext /\ mounts' = 0 /\ UNCHANGED <<vars, dropVars>>
     \/ scene = "mount" /\ VaultNext /\ Cardinality(Begun') <= 1 /\ UNCHANGED <<vars, dropVars>>
     \/ scene = "publish" /\ DropNext /\ begun' + reloads' <= 3 /\ UNCHANGED <<vars, vaultVars>>
  /\ UNCHANGED scene

allVars == <<vars, vaultVars, dropVars, scene>>

SceneSpec == SceneInit /\ [][SceneNext]_allVars

Symmetry == Permutations(Calls) \cup Permutations(Page)
=============================================================================
