# Verification of Nulldown

TLA+ specifications of the parts of Nulldown that decide what is stored, who may
change it and what a client is told: the branch commit authority and its
migration away from the legacy store, the delivery of what was committed, the
legacy store itself, drops, accounts, and the browser and command-line clients.
TLC checks them on small instances. TLAPS proves the central safety properties
for every value of the constants. Paths are relative to the repository root.

## The system

Nulldown stores drops (documents) with branches. A branch is a log of diff
events with snapshots.

| Part | Where | Module |
| --- | --- | --- |
| Source write fence: gate row and permits | `src/server/state-plane/source-fence.ts` | `SourceFence` |
| Legacy source writer | `src/server/state-plane/legacy-source-writer.ts` | `LegacySourceWriter` |
| Branch migration | `sqlite-migration.ts`, `legacy-migration-source.ts` | `BranchMigration`; promise: `Handover` |
| Commit authority | `sqlite-commits.ts`, `shared/drop/branch-*.ts` | `BranchCommits`; promise: `BranchLog` |
| Memory, facts and reads of an active branch | `sqlite-commits.ts`, `commit-application.ts`, `shard-router.ts` | `ImportedBranch` |
| In-memory authority | `memory-commits.ts` | `MemoryPlane`; promise: `BranchLog` |
| Outbox bookkeeping | `sqlite-commits.ts`, `outbox-delivery.ts` | `OutboxLedger` |
| Outbox delivery | `packages/nulldown-state-plane/src/outbox-*.ts` | `OutboxDelivery` |
| Outbox wake alarm | `outbox-alarm.ts`, `branch-state-object.ts` | `OutboxWake` |
| Branch mutation lease | `functions/api/_lib/branches/storage/mutation-lock.ts` | `MutationLease` |
| Legacy append, replay and poll | `nulledit/service.ts`, `branches/storage/diff-log.ts` | `LegacyAppend` |
| Runtime facts | `branches/storage/runtime-fact-log.ts`, `nullplug` | `RuntimeFactLog` |
| Root drops, publication | `drops/storage`, `branches/publication.ts` | `DropRoot` |
| Short links | `drops/identity/id.ts` | `DropAlias` |
| Promotion | `branches/promotion.ts` | `BranchPromotion` |
| Resolved heaps | `functions/api/_lib/resolved/heap` | `ResolvedHeap` |
| Account sync and recovery codes | `accounts/{binding,recovery}`, `lib/auth/account-sync-client.ts` | `AccountRecovery` |
| Device login and credential of the CLI | `accounts/cli-auth`, `cli/cli-credential.ts` | `CliAuth` |
| Account keys and sessions of the browser | `passkey-vault.ts`, `account-session.ts` | `AccountVault` |
| Drop store of the browser | `drop-store.ts` | `DropStore` |
| Diff outbox and editor session | `src/lib/diff/outbox`, `pages/editor/sync` | `ClientSync` |
| Polling channel | `remote-channel.ts`, `commit-application.ts` | `SelectedPoll` |

How they interact. A legacy writer enters the source through the fence. A
migration fences the source, captures it once frozen, stages and verifies the
capture, transfers the source and publishes the branch. From then on commands go
to the commit authority. Each publication registers an outbox row in its own
transaction; the alarm, the cron and the dispatchers claim rows under a lease
and send references through a queue; consumers archive, project and
acknowledge. A branch that was not migrated is a set of R2 objects changed under
the mutation lease. Browsers queue edits durably, drain the queue under a lease
between tabs, and poll what others wrote.

What makes it hard. Every authority command reads in one transaction, awaits, and
writes in another. The fence, the staging tables, R2 and D1 are separate stores,
with stops between them. Clients, queue and dispatchers repeat what was already
done. Leases expire under working holders. `PROJECT.json` lists each hazard with
its line and the properties aimed at it, and maps every definition to its lines.

## How the modules read

State is one variable per table or per kind of local. A method that runs in one
transaction is one action; a method with awaits is one action per stretch between
them, and the locals it carries are a record per call. A call that throws before
it changes anything is a step that is not enabled, or one that ends with its
error code where a property is about the answer. A stop or a lost answer is an
action of its own. Hashes are taken to be injective: an event is its own hash, a
text its own. `Patch` is a parameter of `BranchCommits`.

- `BranchMigration` extends `LegacySourceWriter`, which extends `SourceFence`. A
  capture reads the source in `Parts` pieces and a chunk may arrive damaged.
  Rollback and the tail of activate are synchronous in the code; the model splits
  them at each transaction, which allows more behaviours.
- `BranchCommits`: `append` is `AppendCapture` and `AppendCommit`, `appendBatch`
  the same in a bounded loop, `reserve` one step, `initialize` two. `Crash` drops
  the calls and keeps the rows.
- `OutboxDelivery` extends `OutboxLedger`. Times are reduced to reached or not;
  with `Clocks = "skewed"` each caller may read a claimed row either way.
- `LegacyAppend`, `RuntimeFactLog` and `BranchPromotion` extend `MutationLease`. A
  put its caller gave up on stays in flight and lands later or never.
- The remaining modules stand alone; each begins with what it leaves out.

An `MC_*` module joins several components, one or more *scenes* for each. The scene
is chosen initially and never changes, the variables of other scenes keep one value,
so a run explores the union of separate state spaces. A component with a proof is
extended, not instantiated, so that TLC and TLAPS speak of the same definition; its
scenes then restrict its next-state action. `Null` declares the `None` they share.

An operator introduced by a comment as a mutant is a plausible wrong variant of
the definition after it. For every checked property one of them violates it; they
are listed under "mutants" in `PROJECT.json` and used nowhere else.

## Runs

| Run | Scenes | Distinct states |
| --- | --- | --- |
| `commits` | append, batch, lifecycle; vault, mount, publish | 1,009,824 |
| `migration` | move, writers; memory, facts, history | 634,488 |
| `outbox` | overlap, wake | 813,892 |
| `liveness` | move, drain, outbox, lossy, wake, sync, poll | 67,073 |
| `legacy` | single, frozen | 1,002,580 |
| `storage` | race, publish, claims, links, promote, stall, facts, recovery | 2,448,744 |
| `client` | tabs, foreign, poll, login, refresh | 2,307,357 |
| `plane` | log, memory, heap, prims, replaced, order, bootstrap | 927,654 |

- `commits`: competing, repeated, overlapping and stale commands with crashes, and a
  migration admitted and rolled back. The rows are a whole history in which no
  update is lost (`NoLostUpdate`, `PublicationsAreWhole`), the branch has one owner
  (`OneOwner`), answers are and stay true (`AnswersAreTrue`), identity is decided
  before the predecessor (`ReplayPrecedesPredecessor`), and the whole implements an
  atomic log (`ImplementsLog`). Three scenes ask the same question of the browser: what
  a call read is stale when it acts. A restore that began before a recorded sign-out
  installs nothing after it, and once the account control of a page has completed a
  sign-out the page caches no bearer bound to a user until somebody is signed in there
  again (`SignOutIsFinal`); a publication replaces only what its user was shown
  (`ReplacesWhatWasShown`).
- `migration`: two writers and two migrations, stopped anywhere. Nobody writes behind
  the fence, nothing accepted is left behind, every state can be completed or undone,
  and the whole implements a handover. On the activated branch no integrity check
  fires on rows the plane wrote or imported, and pages answer the history.
- `outbox`: three claims of one job, two consumers, two keys, skewed clocks; and the
  alarm with commits, sweeps, replays and retries.
- `liveness`: what must eventually happen, below.
- `legacy`: three writers under the lease with failing calls, a reused event id, and
  a holder frozen past the stale limit. Replay is the log, acknowledgements are
  durable, a success means that the lease was kept, pages cover the log.
- `storage`: writes to R2 and D1 that race, break off and are repeated: active roots
  have their object, two drops never share a short link, and the link leads to its
  drop, also to one deleted and stored again once no cache names it; a promotion key
  makes one drop, facts are numbered once, owner history is not replaced, recovery
  codes open the account.
- `client`: no saved edit is lost between tabs, polled events arrive once and in order, a
  device ticket makes one login, and rotating its secret keeps the session.
- `plane`: the reference plane implements the same `BranchLog`; a heap is answered with
  the plugins of the content that was read, the facts exactly as stored and every fact
  numbered when the heap was compared, with a replaced snapshot zero, too; the projection
  cursor and the bootstrap of the outbox.

Bounds. Two calls suffice for a read-await-write race, and the command sets let a call
be overtaken more than once. `MaxAttempts = 2` stands for 32 attempts of a batch:
giving up and succeeding late both occur. `MaxSafe = 3` stands for
`Number.MAX_SAFE_INTEGER` and is reached. Two generations allow a source to be
reopened and fenced again; `Parts = 2` allows a mixed capture. Three claims let a
superseded consumer answer during a later claim. The wake scene keeps the order of the
code's delays (commit delay < poll = lease ≤ backoff) and not their lengths. The CLI
scenes mint up to three secrets, so a refresh can meet an already rotated one. In the
foreign scene both pages stay open once the second one is; closing beside another page
is in the tabs scene. `MaxWrites`, `MaxTasks`, `MaxAccepted`, `MaxMoves`, `MaxFaults`,
`MaxStalls` and the like only bound behaviours. The publish scene of `storage` has no
failing call and the race scene one. The publish scene of `commits` has three calls
and page loads together, the replaced scene of `plane` three requests, and its order
scene claims the newer job once. In the outbox, faults are unlimited until the last
attempt the bound allows, which is undisturbed (`MayFail`, `InBound`); with unlimited
faults nothing could be promised. Deadlock is not checked: the systems may stop when
their commands, jobs or bounds are used up.

Fairness (`MC_Liveness`). Activation and rollback are retried, and a retry that may
be stopped again is not stopped at the same place for ever: weak fairness of its
start, strong fairness of its later steps, as the code asks ("must recover
forward"). A received run goes on and the migration repeats its fence call; nothing
makes a run succeed. The minute cron dispatches, time passes, the queue delivers
what it holds, a consumer that does not fail goes on. For the alarm the runtime runs
due alarms and a claim does not throw for ever; the cron is *not* assumed there.
Timers and transactions of an open tab make progress, and a poll's answer is not
lost every time. `RollbackEnds` has one exception: a rollback that stops after
reopening the source, with the source fenced again before the retry, is rejected
from then on.

## Disagreements between the code and what is said of it

Four runs expect a violation; each is a finding in `PROJECT.json`.

| Run | Property | What happens |
| --- | --- | --- |
| `legacy_stranded` | `UnknownCanBeRetried` | one put of a batch fails after a later event landed, and another client appends before the retry: every retry of the batch is answered "unknown", although the client is told to retry it |
| `facts_poll` | `PollSkipsNothing` | a poll lists the objects, then reads a pending head written later, and passes over the fact in between |
| `client_batch` | `LandOnTheirText` | a batch polled while edits are pending is dropped after the cursor moved; a second batch moves the predecessor past it, and a later edit lands on text its author never saw |
| `imported_reads` | `ImportedMemoryIsRead` | the adapter and the router take imported memory at revision 0 for corruption |

## Proofs

Checked by TLAPS for every value of the constants. The assumptions are named:
`FenceConstants`, `WriterConstants`, `MigrationConstants`, `CommitConstants`,
`LedgerConstants`, `DeliveryConstants`, `WakeConstants`, `LeaseConstants`,
`AppendConstants`, `PromotionConstants`, `MemoryConstants`, `SyncConstants`,
`CliConstants`, `RecoveryConstants`; the proofs about `DropStore` use none. They say
that bounds are naturals, that commands have the shape the parsers enforce, and that
placeholders such as `None` are not members of the sets they stand beside; the set of
requests is finite where permits are counted, the set of tasks where the alarm counts
a page. `WakeConstants` also relates the delays. Nothing bounds the number of calls,
migrations, jobs, keys, browsers or attempts.

**`LegacyProofs`.** `WritersAreFenced`, `CompletionAccepted`,
`FrozenSourceStability` rest on `IInv`: every open permit belongs to the gate's
generation and to a run past admission, and the counter is the number of open
permits. Only the counter lets one conclude from `active = 0` that nobody can
write. `NothingLeftBehind`, `AlwaysRecoverable`, `WritersAreFencedOut` and the
refinement `HandoverImplemented` add `MigrationInv`. It runs over the gate's
generation: as long as the generation of a capture or of a staging row is the
gate's, the gate is closed for that migration and the source cannot move
(`CaptureHolds`, `StagingHolds`), so every piece read or staged under it is the
value of the source; once the generation has moved on, no call of that migration
passes `assertFrozen`. A transfer meets verified chunks even if the row was
meanwhile marked for rollback, because the call that transfers has seen them
verified and chunks do not change afterwards.

`AcknowledgedKeptTheLease` is shown by proving that every step of an append is a step
of `MutationLease` (`AppendsFollowTheLease`) and the lease's own
`CommittedKeptTheLease`; `CommitsAreExclusive` holds as long as no holder was frozen
past the stale limit. The invariant dates each belief: who believes to hold the row
took it in that tenure, and only a stall lets another take over.

**`BranchCommitsProofs`.** `TypeCorrectness`, `WholeHistory`, `EveryUpdateCounts`,
`BranchHasOneOwner`, `StoredForGood`, `FirstWins`. The invariant joins the shape of
the rows, the whole history, the bounds and, for each prepared call, what its first
transaction saw (`CallInv`). A prepared append has seen the version it expects, so
publishing is sound exactly when the head still is that version.

A second part proves `LinkedInv`, which relates the tables to one another: every event
has its receipt, every publication its outbox row, an activated authority its first
snapshot. From it follows that what the code wrote passes the validators with which it
reads.

**`BranchLogProofs`.** `WholePublications` and `TrueAnswers`, from `AnswersInv`: beside
`LinkedInv`, by which no call is answered `state_corrupt`, it has `HonestCalls`, what a
call established before its await and that it stays true while others commit: a
prepared batch still holds the receipts of its envelope as long as the head it saw is
the head, and each restart has seen one more head. `AcceptedOnce`: one call at most is
told it was the one accepted. `IdentityFirst`: a command whose events are all stored is
never refused for its predecessor. `LogImplemented`: the authority refines
`BranchLog`. The log is read off the event rows (`LogOfRows`); a publication
extends it by the fresh events of one call, every other step leaves it alone, and
what a call is told of an event is what the log holds.

**`PlaneProofs`.** `ReferenceRefinesLog`: the in-memory plane refines the same
`BranchLog`. `MemoryStaysWhole`: a publication prepared before an await replaces the
whole `State` object and takes no answered record or fact away, because it is refused
unless the object is the one it was prepared from. What replaying the mutations gives is
a recursion over them; `Sound` says that some function replays them and ends in the
stored records, `OneReplay` that there is only one.

`WorkStaysArmed`: unsettled work has an alarm armed or a handler under way that arms it.
`WorkIsArmed` is not inductive, since an alarm that finds nothing counts a poll and may
stop: the invariant weighs the polls left against the backoff left (`BackoffIsCovered`),
which `WakeConstants` asks of the delays and the code's satisfy (at most 1,024 minutes
against 1,440 polls), and relates a claim to the stored lease.

**`OutboxProofs`.** `NothingAcknowledgedUnstored`, `ReceiptsAreBacked`,
`SettledForGood`: the invariant says per consumer step what is already stored
(`Stored`). `NewestDecides`: the settling step of a consumer whose claim is not the
newest leaves the row alone on any clock, because attempts only grow and the row
compares them. `ExactBookkeeping`: the projection cursor is the newest version
delivered, and a bootstrap that reports completion has registered exactly the rows that
were not imported; the invariant says that the bootstrap cursor has passed exactly the
registered ones.

**`PromotionProofs`.** `PromotesOnce`: an idempotency key makes one drop, whatever fails
and whoever lost the lease. The invariant does not use the lease: the receipt of a key
is created once and never replaced by another (`ReceiptsGrow`), a request past the put
of its receipt works on the stored one (`JobOK`), and a drop is filled as the receipt of
its key says.

**`BrowserProofs`.** `CodesOpenTheAccount`: a recovery code somebody was told of opens
the account until a later one replaces it. An upload is told "stored" of a row it saw
some steps ago, and the loser of a race deletes its object after a check some steps ago;
`UploadHolds` says that the row cannot have come back to the object since, `ClaimsHold`
that what was announced is still covered by the row. `OnlyShownIsReplaced`: the
invariant carries the conflict record, and the revision compared with it, across the
awaits of a resolution.

**`ClientProofs`.** `TicketMakesOneLogin`: what a request read of the ticket before its
await stays true (`TicketInv`), and the ticket is redeemed exactly when the credential
row exists. `RotationIsSafe`: while nobody logs out and no answer is lost, the one
current secret is in the file, in the envelope no login has written yet, or in the
answer of the refresh in flight (`SessionInv`). `EditsAreKept`: an edit leaves the queue
when a drain is told it was accepted, an await after the drain took it; `DrainOK` says
that the record is still the first or has gone, and that what was accepted is in the
log. The draft stays the newest edit's because the queue is extended by new edits only
(`TypedIsNew`) and shortened at the front.

Only model-checked:

- all liveness, and every fact with `ENABLED`: out of the prover's reach;
- `PagesCoverTheLog`, `AnswersAreTheHistory` and `DeliveredOnceInOrder`, which say what a
  walk over a sequence returns: induction over data;
- `AcknowledgedIsDurable` and `ReplayIsTheLog` of the legacy log. They do not hold for
  arbitrary batches: a late snapshot put of a batch that is a prefix of a longer one
  overwrites the longer snapshot. The instance sends the batches clients send;
- `PlaneNeverCorrupt`, `FactsAreNumberedOnce`, `RootIsWhole`, `AliasLeadsToItsDrop`,
  `OwnerHistoryIsNotReplaced`, `AnswerIsCurrent` and `SignOutIsFinal`: `ImportedBranch`,
  `RuntimeFactLog`, `DropRoot`, `DropAlias`, `SelectedPoll`, `ResolvedHeap` and
  `AccountVault` have no proofs.

## Behaviours worth knowing

Met while modelling; no run is about them.

- Empty alarms count against the retry polls of the wake alarm: more than 416 of them
  within one longest backoff leave the job to the cron. So does a wake the object could
  not store: `#scheduleOutboxWake` swallows that failure (`branch-state-object.ts:132`),
  a step the models leave out.
- A holder of the mutation lease frozen past the stale limit may still finish a put it
  had issued. It is told that the outcome is unknown, not that it succeeded.
- A batch of the reference plane gives up after 32 heads of others, like the SQLite one.
- A takeover between tabs applies queued events again; the server answers duplicates.
  It does not reset `enqueueFailed`. A reload may restore a draft over a newer head.
- Two pages that create an account at once, or one that creates while another installs,
  keep one account (`passkey-vault.ts:316`, `App.tsx:135`). A sign-out whose control
  was unmounted meanwhile leaves the bearer of its page cached; the next use of it finds
  another user and drops it.
- A failed rotation of the recovery code overwrites the pending marker, and confirming
  one may remove the newer marker of another tab. The packages are not affected.
- Publishing seals again, so publishing an unchanged drop twice, or after a lost create
  answer, is a conflict with oneself. An intent leaves the disk before its publication.
- An isolate may answer a short link from its cache after another one removed it. A drop
  stored again within `ALIAS_CACHE_TTL_MS` in an isolate whose cache still names it is
  taken for registered and stored without alias. A create whose put throws undoes its
  reservation although a concurrent create of the same id may have counted on it, and a
  create that races a delete of the id may keep no alias. After a put that threw although
  it landed, the alias is gone and a repeated upsert is answered 503.
- Only a branch without a record writes its snapshot zero. When that object is replaced
  nevertheless, the heap of snapshot zero is made again, but a delta stored for a later
  snapshot is compared with that snapshot's own content hash and the fact cursor only, so
  it may be read over the new zero; a query that overlaps the replacement may answer the
  earlier content.
- Imported rows keep their legacy form: the router refuses snapshots that are not
  checkpoints, and events and facts that do not name their snapshot.

## Not modelled

- Generated code (`worker-configuration.d.ts`, 30,253 lines), the acceptance and
  benchmark scripts (about 14,000 lines), fixtures, types, rendering. They are most of
  the repository's lines, which is why the mapped share of all lines is small.
- Cryptography (envelopes, passkeys, request signatures), headers and sizes.
- Search and backfill, resolved documents, content caches, telemetry, client library.
- The shard router's placement and the durable object's single thread are taken as
  given. Account preferences, the identity backfill of an account record, the 60 s
  back-off of the bearer and failures of localStorage are left out.
- A partly written initial branch (`lifecycle.ts:450`): the owner bootstrap is one step.
- Listing and pruning of branches, deletion and the local-only mode of the drop store,
  the BroadcastChannel between tabs.
