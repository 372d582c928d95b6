----------------------------- MODULE MC_Client -----------------------------
(***************************************************************************)
(* The browser and the command-line client, in scenes chosen initially:    *)
(* the variables a scene does not use keep their initial values or, those  *)
(* of the polling channel, are None.                                       *)
(*   tabs      two tabs, a takeover, reloads and a lost answer             *)
(*   foreign   two tabs and another client of the branch                   *)
(*   batch     one tab, two edits of another client and a lost answer      *)
(*   poll      the polling channel with two overlapping timer callbacks;   *)
(*             an answer holds fewer events than a chunk of the log        *)
(*   login     two browsers approve one device ticket for two accounts,    *)
(*             two polls redeem it, one task uses the login at a time      *)
(*   refresh   one login, two tasks of one process, up to three secrets    *)
(***************************************************************************)
EXTENDS CliAuth, ClientSync, TLC

CONSTANTS Scenes, Runs, Me, Other

VARIABLES scene, published, facts, channel, run, heard

pollVars == <<published, facts, channel, run, heard>>

NoPoll == published = None /\ facts = None /\ channel = None /\ run = None /\ heard = None

Channel == INSTANCE SelectedPoll WITH Run <- Runs, Writer <- {Me, Other}, Limit <- 2, Chunk <- 3,
          FactLimit <- 2, MaxEvents <- 5, MaxFacts <- 3

ASSUME Channel!PollConstants /\ CliConstants

\* One task at a time uses the login, and its secret is rotated once.
LoginNext ==
  /\ Next
  /\ minted' <= 2 /\ Cardinality({c \in Caller : call'[c].pc # "idle"}) <= 1

\* One browser approves the ticket for one account, one poll redeems it.
RefreshNext ==
  /\ Next
  /\ ticket'.approved # "a2"
  /\ approval'["b2"] = approval["b2"] /\ poll'["p2"] = poll["p2"]

\* No other client writes to the branch.
TabsNext ==
  /\ SyncNext
  /\ Range(log') \cap Foreign = {}

\* Both pages stay open once the second one is, and no answer is lost.
ForeignNext ==
  /\ SyncNext
  /\ faults' = 0
  /\ opens = 2 => \A t \in Tabs : tab'[t].pc = "closed" => tab[t].pc = "closed"

SceneInit ==
  /\ scene \in Scenes
  /\ Init /\ SyncInit
  /\ IF scene = "poll" THEN Channel!Init ELSE NoPoll

SceneNext ==
  /\ \/ /\ \/ scene = "tabs" /\ TabsNext
           \/ scene = "foreign" /\ ForeignNext
           \/ scene = "batch" /\ SyncNext
        /\ UNCHANGED <<pollVars, vars>>
     \/ scene = "poll" /\ Channel!Next /\ UNCHANGED <<syncVars, vars>>
     \/ /\ \/ scene = "login" /\ LoginNext
           \/ scene = "refresh" /\ RefreshNext
        /\ UNCHANGED <<syncVars, pollVars>>
  /\ UNCHANGED scene

allVars == <<syncVars, pollVars, vars, scene>>

SceneSpec == SceneInit /\ [][SceneNext]_allVars

Symmetry == Permutations(Tabs) \cup Permutations(Edits)

-----------------------------------------------------------------------------
\* The listeners hear every event another client wrote and every fact exactly
\* once and in order, up to the channel's cursors (remote-channel.ts runPoll,
\* commit-application.ts poll).
DeliveredOnceInOrder == scene = "poll" => Channel!DeliveredOnceInOrder
=============================================================================
