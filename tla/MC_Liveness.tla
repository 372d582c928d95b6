---------------------------- MODULE MC_Liveness ----------------------------
(***************************************************************************)
(* What must eventually happen.  A behaviour is one scene, chosen          *)
(* initially: the variables of the other components keep their initial     *)
(* values and the fairness of the others asks for nothing.                 *)
(***************************************************************************)
EXTENDS Naturals, FiniteSets, Sequences, TLC

CONSTANTS None, Scenes, RequestIds, Migrations, Dispatchers, Consumers, Tabs, Edits, Foreign,
          Me, Other, Tasks

VARIABLES
  scene,
  gate, permit, writer, source, capture, staging, handler, branch,
  committed, generation, delivery, bootstrap, sending, queue, consumer, archive,
  receipts, cursor,
  job, wake, alarm, replays, sweeps,
  log, follows, outbox, draft, lease, tab, drain, inbox, late, text, saved, discarded,
  opens, moves, stalls, faults,
  published, facts, channel, run, heard

Move == INSTANCE BranchMigration WITH NoMigration <- None, MaxGeneration <- 2, MaxTasks <- 0,
          MaxWrites <- 1, Parts <- 2, MaxAccepted <- 0

Drain == INSTANCE LegacySourceWriter WITH NoMigration <- None, MaxGeneration <- 2,
           MaxTasks <- 1, MaxWrites <- 1

Outbox == INSTANCE OutboxDelivery WITH Jobs <- 1, Legacy <- 1, Imported <- {}, Limit <- 2,
            Page <- 1, MaxAttempts <- 2, MaxMoves <- 1, Clocks <- "shared", Keys <- 1

Wake == INSTANCE OutboxWake WITH Poll <- 2, PollLimit <- 3, Ceiling <- 2,
          Batch <- 2, MaxAge <- 1, MaxReplays <- 0, MaxSweeps <- 1

Sync == INSTANCE ClientSync WITH MaxOpens <- 2, MaxMoves <- 1, MaxStalls <- 0, MaxFaults <- 0

Lossy == INSTANCE ClientSync WITH MaxOpens <- 2, MaxMoves <- 0, MaxStalls <- 0, MaxFaults <- 1

Poll == INSTANCE SelectedPoll WITH Run <- {Me}, Writer <- {Me, Other}, Limit <- 1, Chunk <- 2,
          FactLimit <- 1, MaxEvents <- 3, MaxFacts <- 2

sourceVars == <<gate, permit, writer, source>>
destinationVars == <<capture, staging, handler, branch>>
moveVars == <<gate, permit, writer, source, capture, staging, handler, branch>>
platformVars == <<sending, queue, consumer, archive, receipts, cursor>>
outboxVars == <<committed, generation, delivery, bootstrap, sending, queue, consumer,
                archive, receipts, cursor>>
wakeVars == <<job, wake, alarm, replays, sweeps>>
syncVars == <<log, follows, outbox, draft, lease, tab, drain, inbox, late, text, saved,
              discarded, opens, moves, stalls, faults>>
pollVars == <<published, facts, channel, run, heard>>
allVars == <<scene, moveVars, outboxVars, wakeVars, syncVars, pollVars>>

SceneInit ==
  /\ scene \in Scenes
  /\ Move!MigrationInit /\ Outbox!Init /\ Wake!WakeInit /\ Sync!SyncInit /\ Poll!Init
  /\ scene # "poll" => published = <<>> /\ facts = 0

SceneNext ==
  /\ \/ scene = "move" /\ Move!MigrationNext
        /\ UNCHANGED <<outboxVars, wakeVars, syncVars, pollVars>>
     \/ scene = "drain" /\ Drain!Next
        /\ UNCHANGED <<destinationVars, outboxVars, wakeVars, syncVars, pollVars>>
     \/ scene = "outbox" /\ Outbox!Next
        /\ UNCHANGED <<moveVars, wakeVars, syncVars, pollVars>>
     \/ scene = "wake" /\ Wake!WakeNext
        /\ UNCHANGED <<moveVars, outboxVars, syncVars, pollVars>>
     \/ /\ \/ scene = "sync" /\ Sync!SyncNext
           \/ scene = "lossy" /\ Lossy!SyncNext
        /\ UNCHANGED <<moveVars, outboxVars, wakeVars, pollVars>>
     \/ scene = "poll" /\ Poll!Next
        /\ UNCHANGED <<moveVars, outboxVars, wakeVars, syncVars>>
  /\ UNCHANGED scene

\* "An uncertain activation must recover forward": activate and rollback are
\* retried, and a retry that may be stopped again is not stopped at the same
\* place for ever.
MoveFairness ==
  \A m \in Migrations :
    /\ WF_moveVars(scene = "move" /\ Move!ActivateStarts(m) /\ UNCHANGED sourceVars)
    /\ SF_moveVars(scene = "move" /\ Move!ActivateChecks(m) /\ UNCHANGED sourceVars)
    /\ SF_moveVars(scene = "move" /\ Move!ActivateTransfers(m))
    /\ SF_moveVars(scene = "move" /\ Move!ActivatePublishes(m) /\ UNCHANGED sourceVars)
    /\ WF_moveVars(scene = "move" /\ Move!RollbackReopens(m))
    /\ WF_moveVars(scene = "move" /\ Move!RollbackYields(m) /\ UNCHANGED sourceVars)
    /\ WF_moveVars(scene = "move" /\ Move!RollbackDeletes(m) /\ UNCHANGED sourceVars)

\* The promises of a run settle and its event loop runs, and the migration
\* repeats its fence call as the comment on fence asks.  Nothing makes a run
\* succeed.
DrainFairness ==
  /\ \A r \in RequestIds : WF_sourceVars(scene = "drain" /\ Drain!RunProgress(r))
  /\ WF_sourceVars(scene = "drain" /\ Drain!RepeatFence)

\* The minute cron sweeps every shard, time passes, the queue delivers what
\* it holds again and again, and a consumer that does not fail goes on.
OutboxFairness ==
  /\ \A o \in Outbox!Job :
       WF_outboxVars(scene = "outbox" /\ Outbox!TimePasses(o) /\ UNCHANGED platformVars)
  /\ \A d \in Dispatchers :
       /\ WF_outboxVars(scene = "outbox" /\ Outbox!Dispatch(d))
       /\ WF_outboxVars(scene = "outbox" /\ \E ref \in sending[d] : Outbox!Send(d, ref))
  /\ \A ref \in Outbox!Ref :
       SF_outboxVars(scene = "outbox" /\ \E c \in Consumers : Outbox!Take(c, ref))
  /\ \A c \in Consumers : WF_outboxVars(scene = "outbox" /\ Outbox!ConsumerStep(c))

\* The runtime runs due alarms, claimOutbox does not throw for ever and time
\* passes; the sweep is not assumed.
WakeFairness ==
  /\ WF_wakeVars(scene = "wake" /\ Wake!Tick)
  /\ WF_wakeVars(scene = "wake" /\ Wake!AlarmStep)
  /\ SF_wakeVars(scene = "wake" /\ Wake!AlarmClaims)

\* Timers, transactions and requests of an open tab make progress.
SyncFairness ==
  \A t \in Tabs :
    /\ WF_syncVars(\/ scene = "sync" /\ Sync!DrainStep(t)
                   \/ scene = "lossy" /\ Lossy!DrainStep(t))
    /\ WF_syncVars(\/ scene = "sync" /\ Sync!SessionStep(t)
                   \/ scene = "lossy" /\ Lossy!SessionStep(t))
    /\ WF_syncVars(\/ scene = "sync" /\ Sync!ReceiveStep(t)
                   \/ scene = "lossy" /\ Lossy!ReceiveStep(t))

\* The interval timer keeps firing, the server keeps answering, and an answer
\* is not lost every time.
PollFairness ==
  /\ WF_pollVars(scene = "poll" /\ Poll!Step(Me))
  /\ SF_pollVars(scene = "poll" /\ Poll!Deliver(Me))
  /\ SF_pollVars(scene = "poll" /\ Poll!Handshake(Me))

SceneSpec ==
  /\ SceneInit /\ [][SceneNext]_allVars
  /\ MoveFairness /\ DrainFairness /\ OutboxFairness /\ WakeFairness /\ SyncFairness /\ PollFairness

-----------------------------------------------------------------------------
\* A drain ends in a frozen source unless an admission was left unresolved
\* (LegacySourceWriter); once the source is transferred the destination
\* becomes active, and a rollback that was marked ends (BranchMigration).
MigrationEnds ==
  /\ scene = "drain" => Drain!DrainEnds
  /\ scene = "move" => Move!RecoversForward /\ Move!RollbackEnds

\* Every commit reaches a settled state: delivered, or fenced because the
\* branch moved to another generation (OutboxDelivery).
EveryCommitIsSettled == scene = "outbox" => Outbox!EveryCommitIsSettled

\* A released job is claimed again by the alarm alone, with no sweep and no
\* client traffic (OutboxWake).
RetriedByTheAlarm == scene = "wake" => Wake!RetriedByTheAlarm

\* A tab that keeps the lease drains the queue, unless a conflict blocks it
\* (ClientSync).
QueueDrains == scene \in {"sync", "lossy"} => Sync!QueueDrains

\* While the timer runs, everything written reaches the listeners
\* (SelectedPoll).
EverythingArrives == scene = "poll" => Poll!EverythingArrives
=============================================================================
