# Verification of hapcode's orchestration

hapcode is a web and desktop front end for coding agents.  Its server turns what
users and agent runtimes do into *commands*, decides them one at a time, appends
the resulting *events* to a SQLite log, and derives everything else (the
in-memory read model, nine projection tables, the feed reactors and browsers
listen to) from that log.  Around this core, reactors start provider sessions, send
turns, capture git checkpoints and turn the agents' output into commands again; a
terminal manager runs the user's shells, and the desktop application runs the server
as a child.  This directory holds TLA+ models of these
parts, the TLC runs that check them and TLAPS proofs of the most important results.

Paths below are relative to `apps/server/src/` unless they start with `apps/` or
`packages/`.

## 1. Inventory

| Component | State | Operations | Hard behaviour |
|---|---|---|---|
| Orchestration engine (`orchestration/Layers/OrchestrationEngine.ts`) | read model, command queue, PubSub | `dispatch`, `processEnvelope`, start-up replay | crash between commit and publish, failed transactions, repeated commands, reconciliation |
| Decider (`orchestration/decider.ts`, `commandInvariants.ts`) | none | `decideOrchestrationCommand` | deleted entities still "exist"; a turn start yields two events |
| Event store, receipts (`persistence/Layers/OrchestrationEventStore.ts`, `OrchestrationCommandReceipts.ts`) | SQLite tables | append, read with a limit, upsert | rollback, the read limit of 1000 |
| Projection pipeline (`orchestration/Layers/ProjectionPipeline.ts`) | nine tables, one cursor each, attachment files | `projectEvent`, `bootstrap` | nested transactions, side effects on files, upgrade that adds a projector |
| Shared projector (`packages/shared/src/orchestrationProjector.ts`), snapshot query | in-memory threads, turns, messages | `projectEvent`, `getSnapshot` | the SQL tables and the in-memory model must agree |
| Checkpoint reactor (`orchestration/Layers/CheckpointReactor.ts`), checkpoint store | git refs, turn counts | capture, placeholder, baseline, revert | races with ingestion's placeholders, partly failed reverts |
| Provider command reactor (`ProviderCommandReactor.ts`), provider service, session directory | one task at a time, persisted bindings | ensure session, send turn, change of mode, stop | stale sessions, restarts, recovery after a crash |
| Provider runtime ingestion (`ProviderRuntimeIngestion.ts`), drainable worker | text buffers, turn state | one handler per runtime event | late events of an earlier turn, buffered text, a session read before a dispatch and written after it |
| Provider adapters (`provider/Layers/ClaudeAdapter.ts`, `CodexAdapter.ts`, `codexAppServerManager.ts`) | sessions, turns, requests to the user | start, send, interrupt, respond, stop | streams that speak between turns, callbacks that wait, processes that die |
| Client synchronisation (`apps/web/src/routes/__root.tsx`, `wsTransport.ts`), push bus | latest sequence, pending flags, client read model | snapshot, replay, domain event | reordered and lost replies, the replay limit |
| Terminal manager (`terminal/Layers/Manager.ts`) | PTY sessions, history files | open, write, close, kill | kill escalation, exit racing restart |
| Desktop shell (`apps/desktop/src/main.ts`, `updateMachine.ts`) | the backend's process, timers, the updater's state | start, restart, stop, check, download, install, quit | a crash during an installation, failures that come as events and as rejections, a quit at any time |
| Git manager, app processes, web UI | disk, child processes, drafts | | see section 6 |

Interactions: browsers and reactors call `dispatch` and wait; the engine publishes
each committed event to a PubSub; the reactors and the push bus subscribe to it;
provider adapters emit runtime events that ingestion turns into further commands;
clients fetch a snapshot and then follow pushed events, replaying gaps.

What makes each component correct: *engine* - decisions are serial, atomic and at
most once, and read model, tables, feed and answers follow the log; *pipeline* -
each table is the fold of the log, across crashes and upgrades; *projectors* - both
read models say the same of a turn; *checkpoints* - a captured turn can be restored
and a reverted one leaves nothing; *sessions* - processes stay reachable, turns run in
the right mode and conversation and are answered; *ingestion* - no text lost, doubled
or left unfinished; *adapter* - a turn that starts ends, once, and no request is
forgotten; *client* - it ends up with the server's state; *terminal* - no process is
lost and a history is saved; *desktop* - there is one backend, it comes back, and an
offered update can be taken.

## 2. Modules

| Module | What it is |
|---|---|
| `OrchestrationDecider` | commands, events, `Accepts`, `EventTypesOf`: the decider as pure operators |
| `CommandLog` | abstract specification: commands are accepted or rejected atomically, at most once |
| `EventFeed` | abstract specification: how the log grows and its events are announced; what `ClientSync` builds on |
| `OrchestrationEngine` | the engine with store, receipts, pipeline cursors, attachments, crashes |
| `OrchestrationEngineProperties` | what must be true of it, and the refinement mappings to `CommandLog` and `EventFeed` |
| `OrchestrationEngineInvariants` | the inductive invariants the proofs use |
| `OrchestrationEngineProofs` | machine-checked theorems |
| `MCOrchestrationEngine` + `MCOrchestrationEngine.cfg`, `MCEngine*.cfg` | the instances TLC checks |
| `Replica` | abstract specification: a copy of a growing log that is always a prefix and never goes back |
| `ClientSync` | one browser's EventRouter and transport, the push bus and the socket's life on the server |
| `ClientSyncProperties` | what must be true of it, the mapping to `Replica`, the inductive invariant |
| `ClientSyncProofs` | machine-checked theorems |
| `MCClientSync` + `MCClient*.cfg` | the instances TLC checks |
| `Checkpoints` | CheckpointReactor, ingestion's placeholders, both projectors' checkpoints and the git refs, for one thread |
| `CheckpointsProofs` | machine-checked theorems |
| `ProviderSessions` | reactor, provider service, Codex manager and the session life cycle of ingestion, for one thread |
| `ProviderSessionsProofs` | machine-checked theorems |
| `ClaudeSessions` | ClaudeAdapter: contexts, turns, approvals and questions over the SDK's stream, for one thread |
| `ClaudeSessionsProofs` | machine-checked theorems |
| `MessageIngestion` | assistant text from runtime events to the read model, and the DrainableWorker |
| `MessageIngestionProofs` | machine-checked theorems |
| `TerminalManager` | sessions, processes, kill timers and histories of the terminals |
| `TerminalManagerProofs` | machine-checked theorems |
| `DesktopShell` | the desktop application's main process: its backend and its updater |
| `DesktopShellProofs` | machine-checked theorems |
| `...Properties`, `MC...` + `.cfg` | of each of these: what must be true of it, the instance TLC checks |

The two components meet at the log.  `EventFeed` is their contract: the log grows by the
events of one command, one or two at a time (`Extend`); each event is announced once, in
order, after its commit (`Announce`); a process that starts passes over what is there
(`StartOver`).  `ClientSync`'s `CommitEvents`, `PublishEvent` and `ServerRestart` are
these three actions with what the web socket server adds, so its client meets every
behaviour of the feed up to `MaxLog` events; `EventFeedTheorem` shows that the engine is
such a feed.  That a snapshot is the fold of all of the log is `ProjectionsTheorem`.

The others meet at the log and at the provider's events: `Checkpoints`,
`ProviderSessions` and `MessageIngestion` each take from the engine that a dispatched
command is applied as a whole or fails, and that its events reach the reactors in order;
what they dispatch is what the engine decides.
`ClaudeSessions` produces the runtime events that ingestion consumes, and the calls it
receives are those of `ProviderSessions`' reactor.  They are checked apart: the
interleavings that matter lie inside each.

### How the engine's model corresponds to the code

A read model is represented by the sequence of events folded into it:
`projectEvent` is a function, so nothing the decider looks at is lost.  The rows of
a projection table are represented in the same way.  `log[i]` is the row of
`orchestration_events` with sequence `i`.

`pc` is the program counter of start-up and of `processEnvelope`; every `yield*`
that touches shared or durable state is a step:

| `pc` | Code | Actions |
|---|---|---|
| `bootstrap`, `replay` | lines 197-204, `ProjectionPipeline.ts` 1190-1236 | `BootstrapEvent`, `BootstrapNextProjector`, `ReplayLog` |
| `idle` | `Queue.take` (206) | `Take` |
| `lookup` | 85-109 | `AnswerFromReceipt`, `Decide`, `LookupFails` |
| `append`, `project`, `commit` | the transaction, 110-154 | `AppendEvent`, `ProjectEvent`, `Commit`, `TransactionFails` |
| `install`, `publish` | 156-160 | `InstallReadModel`, `Publish`, `Resolve` |
| `reconcile`, `republish` | 162-193 | `Reconcile`, `ReconcileFails`, `Publish`, `RejectCommand` |

`Dispatch` is what clients do at any time (with wsServer's storing of attachments
before a turn start), `Crash` kills the process at any step and starts it again,
possibly as a newer version with more projectors (`installed`).  While a transaction
is open, `working` holds the tables as the transaction sees them and `batch` the
events it appended; both vanish on failure.  `StoreInTransaction` says whether the
event store takes part in the transaction.  It does in production (one SQLite
connection); the engine's tests replace it with an in-memory one that does not, and
the reconciliation exists for that case.

Definitions such as `BootstrapStopsEarly` or `RejectSilently`, each marked `Mutant`,
are not part of the specification: they are plausible bugs, put in place of the
action after them to show that the properties notice.

### How the client's model corresponds to the code

Events are named by their sequence numbers.  `model` is `currentReadModel` as the
events folded into it (`Len(model)` is its `snapshotSequence`), `latestSequence`,
`pending` are the variables of `EventRouter`; `phase` says at which `await` of
`syncSnapshot` the client is (`idle` is `syncing = false`), and for a snapshot whether
a failure still leads to the fallback of the `catch` block.  `timer` is the
throttler's trailing call.

| Code | Actions |
|---|---|
| `__root.tsx` `onDomainEvent` 302-311, throttler 284-300, `onServerWelcome` 325 | `ReceiveEvent`, `TimerFires`, `ReceiveWelcome` |
| `syncSnapshot` 259-282 | `SyncSnapshot(mode)`, `Reject` (its `catch`), `Idle` |
| `flushSnapshotSync` 200-219 | `ReceiveSnapshot` |
| `flushReplaySync` 221-257 | `ReceiveEmptyReplay`, `ReceiveReplay`, `FinishFold` (the fold awaits between events) |
| `wsTransport.ts` `request`, `send`, `flushQueue` | `NewRequest`: at the server if the socket is open, else in the outbox until `Connect` |
| `handleMessage` 221-274, the timeout 90-93 | `ResponseArrives`, `RequestFails`, `RequestTimesOut`; an answer without a pending entry is `Ignored` |
| `connect`, `close`, `scheduleReconnect` | `Connect`, `Disconnect` |
| `wsServer.ts` 1133-1174, `pushBus.ts` | `Connect` queues the welcome, `Push` is the bus's one worker, `Register` adds the socket to `clients` |
| `wsServer.ts` 665, 763, 782 | `PublishEvent`, `ReadDatabase`, `Respond` |
| `OrchestrationEngine.ts` 110-159, 197-210 | `EventFeed`: `Extend` in `CommitEvents`, `Announce` in `PublishEvent`, `StartOver` in `ServerRestart` |

`inbound` is one socket's direction from server to client: ordered, lost as a whole
when the socket drops.  A request on the server is answered in two steps, so commits
and pushes may fall between the read and the answer.  `Connect` queues the welcome at
once because the listeners of `wsServer.ts` 1133 are installed after the last readiness
mark (756): `awaitServerReady` never waits.  `Push` and `Register` are steps of two
fibers, so an event may be pushed in between, to nobody; the history variable `missed`
is the latest such event of the connection, `opened` the length of the log when the
socket was opened.  A restarted server publishes new events only.  Unmounting and remounting the EventRouter (it starts from nothing
with the cached welcome) and terminal events are not modelled.

### How the checkpoints' model corresponds to the code

The provider starts, works on and completes turns and emits runtime events; two
workers read them in order, each at its own pace (`ingestion`, `runtime`), and the
reactor reads domain events too (`domain`).  A ref is named by its turn count.  A job of
the reactor has the steps at which other state may change in between:

| Code | Actions |
|---|---|
| `ProviderRuntimeIngestion.ts` 924-999 (active turn), 1206-1250 (placeholders) | `IngestStarted`, `IngestCompleted`, `IngestDiff`, `DispatchPlaceholder` (the count is read before the dispatch) |
| `CheckpointReactor.ts` `ensurePreTurnBaselineFromTurnStart`, `...FromDomainTurnStart` 450-557 | `TakeStarted`, `TakeTurnStart` |
| `captureCheckpointFromTurnCompletion`, `...FromPlaceholder`, `captureAndDispatchCheckpoint` 190-448 | `TakeCompleted`, `TakePlaceholder`, `Capture`, `DispatchCapture`, `CaptureFails` |
| `handleRevertRequested` 559-685 | `TakeRevert`, `Restore`, `RollBack`, `DeleteRefs`, `CompleteRevert`, `RevertFails` |
| shared projector, `ProjectionPipeline.ts` turns projector | `ApplyToReadModel`, `ApplyToRows`, both in the dispatching transaction |
| `.slice(-MAX_THREAD_CHECKPOINTS)` of `orchestrationProjector.ts` 535 and 574 | `Keep` in `ApplyToReadModel` and `CompleteRevert`: the read model keeps the `MaxCheckpoints` (500) checkpoints of the largest counts, the table all |

A checkpoint set has no order, so among equal counts `Newest` takes any of the older
ones before the one just added, which the stable sort puts last.  `failed`, `overtaken`,
`diverged`, `dropped`, `aborted`, `misaligned` are history: they record where the code
does not do what the properties say (see section 3).

### How the provider sessions' model corresponds to the code

`session` and `mode` are the thread's in the read model, `binding` the row of
`provider_session_runtime`, `owner` the entry of the manager's `sessions` map,
`processes` every process there was.  `task` is what the reactor's worker is doing; it
waits at each request to a process and at each command.

| Code | Actions |
|---|---|
| `ProviderCommandReactor.ts` `processTurnStartRequested`, `ensureSessionForThread` | `TakeTurnStart`, `StartSession`; `Bind` is the session command after a start, `BindFails` its failure |
| the change of runtime mode, `processSessionStopRequested` | `TakeModeSet`, `TakeStop`, `Unbind` (whose command may fail) |
| `ProviderService.ts` `startSession`, `recoverSessionForThread`, `resolveRoutableSession` | `StartSession`, `Cursor`, `Route`; the binding is written in `OpenThread`, and cannot be in `SaveFails` |
| `ProviderService.ts` `sendTurn`, `stopSession` | `TurnAccepted` (the cursor is saved, or the turn fails though the process works on it), `TakeStop` (the binding is removed, or not) |
| `codexAppServerManager.ts` spawn, `thread/start`, `thread/resume`, `turn/start`, exit listener | `Spawn`, `Open`, `StartFails`, `TurnAccepted`, `TurnFails`, `ProcessExits`, `StopEntry` |
| `ProviderRuntimeIngestion.ts` 905-1035, 1270-1283 | `IngestEvent` (reads the session), `DispatchSession` (writes it), `DispatchFails` (the command fails and is logged, the event is gone) |

Every command and every write of the binding may fail, as may every request; all of
them count as failures.  `Crash` takes all memory and the processes; the next start finds the database.

### How the Claude sessions' model corresponds to the code

Each record of `contexts` is a `ClaudeSessionContext`: `turn` is its `turnState`,
`stopped` its flag, `exited` that `session.exited` was published.  `entry` is the
thread's entry in `sessions`; `op` is the caller's operation that waits.  `sdk` is the
other side, external: it takes prompts, answers one at a time, may speak between turns
(background agents) and may die.

| `ClaudeAdapter.ts` | Actions |
|---|---|
| `startSession` 2431 | `StartSession` |
| `sendTurn` 2914 | `SendTurn` (ends the turn in progress), then after `setModel` and `setPermissionMode` `BeginTurn` or `SetModelFails`, then after the attachments are read `OfferMessage` or `ReadAttachmentFails` |
| `handleAssistantMessage` 1874, `handleResultMessage` 1962 | the same names; `Announce` publishes `turn.started`, `CompleteTurn` `turn.completed` |
| the stream's fiber, `handleStreamExit` 2298 | `HandleStreamExit` |
| `canUseTool` 2578, `handleAskUserQuestion` 2469 | `CanUseTool`, `Resume`; `Abort` is the SDK's signal |
| `interruptTurn`, `respondToRequest`, `respondToUserInput` | `InterruptTurn`, `Respond` |
| `stopSession`, `stopSessionInternal` 2333 | `StopSession` (up to the interruption of the fiber), `Close` |

Between `SendTurn` and `BeginTurn` the model always leaves room for the stream; the code
does so when it sets a model or a mode.

### How the messages' model corresponds to the code

Text is numbered by chunks in the order the provider says them.  The worker handles one
input at a time; its steps are the commands it dispatches (`task.commands`), because
the caches are its own.

| `ProviderRuntimeIngestion.ts` | Actions |
|---|---|
| `content.delta` 1037-1090 with `appendBufferedAssistantText` | `TakeDelta` (remember, buffer, spill or stream) |
| `item.completed` with `finalizeAssistantMessage` | `TakeCompletion`, `Finalize` |
| `turn.completed`, `session.exited` | `TakeTurnCompleted`, `TakeExit` |
| the delivery mode of a turn start 1261 | `TakeMode` |
| `DrainableWorker.ts` | `Enqueue`, `Done`, the counter `outstanding` |
| a command that fails ends its event | `DispatchFails`, `LifecycleFails` |

### How the terminals' model corresponds to the code

`objects` are the `TerminalSessionState`s ever created (an evicted one may still be held
by an operation), `sessions` the map, `older` the order of `updatedAt` among inactive
sessions.  `persist` holds per terminal the pending history, its debounce timer and the
promise chain of writes.  `op` is the operation that holds a thread's lock, at one of
its awaits (`read`, `start`, `spawn`, `clear`, `close`); outside them JavaScript runs to
completion, so each stretch between awaits is one action.

| `terminal/Layers/Manager.ts` | Actions |
|---|---|
| `open`, `restart`, `clear`, `close` | `OpenUnknown`, `ReadHistory`, `OpenStopped`, `RestartUnknown`, `Reset`, `Clear`, `ClearDone`, `CloseTerminal`, `CloseThread`, `CloseDone` |
| `startSession`, `trySpawn` | `StartSession`, `SpawnSucceeds`, `SpawnFails` |
| `stopProcess`, `killProcessWithEscalation` | `Kill`: SIGTERM, and a timer for those it did not throw for; `KillTimerFires`: SIGKILL, which may throw too |
| `onProcessData`, `onProcessExit` | `Output`, `Exit`; an exit nobody listens to is `ExitUnnoticed` |
| `evictInactiveSessionsIfNeeded` | `Evict` within the steps that call it |
| `persistHistory`, `queuePersist`, `flushPersistQueue` | `PersistTimerFires`, `WriteHistory`, `WriteFails`, `FlushPersistQueue` |
| `dispose` | `Dispose` |

### How the desktop shell's model corresponds to the code

`children` are the backend processes ever spawned, with what they were told (`told`: by
SIGTERM or SIGKILL) and whether `startBackend`'s listeners hear of their end; `backend`
is `backendProcess`.  `update` is `updateState` without versions and progress.  A step is
a turn of the event loop: an event of electron-updater and the end of the promise it
belongs to are one, and a spawn that fails is an end of its child, which schedules the
next start; Electron itself does not crash.

| `apps/desktop/src/main.ts` | Actions |
|---|---|
| `bootstrap`, `startBackend` with its `error` and `exit` listeners, `scheduleBackendRestart` 1187-1275 | `Bootstrap`, `RestartTimerFires`, `ChildEnds` |
| `stopBackend`, `stopBackendAndWaitForExit` 1277-1346 | `StopBackend`, `KillTimerFires`, `BackendStopped` |
| `before-quit`, SIGINT, SIGTERM 2297-2353 | `Quit`; the end of the process is `AppEnds` |
| `checkForUpdates`, `downloadAvailableUpdate`, the listeners of `configureAutoUpdater` | `CheckForUpdates`, `UpdateFound`, `CheckFails`, `DownloadUpdate`, `UpdateDownloaded`, `DownloadFails`, `UpdaterError` |
| `installDownloadedUpdate` 1058-1076 | `InstallUpdate`, `QuitAndInstall`, `QuitAndInstallThrows` |

## 3. Runs

| Run | Shows | Bounds |
|---|---|---|
| `engine_safety` | all safety properties, the refinement of `CommandLog`, every dispatch is answered | 2 callers, 3 commands (project, thread, turn start with 2 events), 2 projectors, 1 crash |
| `engine_open_store` | the reconciliation keeps read model and feed right when events outlive a failed transaction | 4 commands, no crash, log of at most `LogBound` = 3 plus the last batch |
| `bootstrap_limit` | violation: a new projector more than `ReadLimit` events behind | `ReadLimit` = 2 for the 1000 of the code |
| `attachments_rollback` | violation: files removed, deletion rolled back | one thread |
| `client_sync` | all properties of the client and the refinement of `Replica` | log of 3, 2 disconnects or restarts, 1 request that fails though not lost, `ReplayLimit` = 3 |
| `client_replay_limit` | violation: a client at rest behind what it was told of | as above with `ReplayLimit` = 1 for the 1000 of the code |
| `checkpoints` | checkpoints, refs, the turns table and the provider's conversation agree | 2 turns that overlap and a third that begins when they are done and nothing failed (`ThirdTurnLater`), `MaxCheckpoints` = 2 for the 500 of the code, 1 revert, 1 failing call |
| `provider_sessions` | processes stay reachable, turns are answered in the right mode and conversation, the session shown is real | 2 turns, 1 change of mode, 2 of: a stop, an exit or a failing call or command, a crash (`TwoDisturbances`) |
| `claude_sessions` | turns end once and do end, requests to the user are settled | 2 sessions, 2 turns, 1 message of a background agent, 1 request, 1 failure |
| `message_ingestion` | text is delivered once and in order, a drained worker has finished completed turns | 2 messages of 3 chunks, a buffer of 1, 3 waiting inputs, 2 changes of mode, 1 failing dispatch |
| `terminals` | processes and sessions agree, none is lost, histories are saved or stay deleted, inactive sessions are few; operations finish, stopped processes die | 2 terminals of 2 threads, 1 retained, 3 operations, 1 chunk, 1 failure, any signal may throw |
| `desktop_shell` | no backend is lost, one that ended comes back, offered updates are accepted | 2 checks, 4 failures or crashes |

Why these bounds are enough: the engine treats callers alike and one command at a
time, so two callers and a repeated command give every pair of outcomes for one
command id; a command has one or two events, and both kinds occur; one crash at any
step, followed by a full start-up, reaches every combination of durable state and
lost memory, and a second crash would start from such a state again.  `LogBound` is
never reached where it is 6: an accepted command is never accepted again.  In
`engine_open_store` a failed command may append its events each time it is retried,
so callers stop there at a log of 3; that run does not check deadlock.  The
commands of the runs stand for the 21 types; the others differ only in the guard
`Accepts` and in the event name.  For all of them the theorems hold.

In `client_sync` three events are one in the model, one in a replay and one pushed
meanwhile; two disconnects let a second one hit the recovery from the first; one
failure besides the lost requests lets a replay, its fallback or an answered request
fail.  Everything is bounded and a client without news has nothing to do, so the runs
do not check deadlock.

In the other runs two of a thing are the least that can be confused: two turns (a late
event of the first during the second, a revert to the first), two sessions (one started
over the other), two messages (one completed while the other is buffered), two
terminals (one evicts the other), two checks for updates (one before and one after a
download).  One failure, stop, revert or crash hits every step of
what goes on; several in a row mostly repeat it, and the history variables end what a
property claims after the first.  In `checkpoints` the third turn is there for the limit:
with two it takes a checkpoint of a turn the conversation still has.  `provider_sessions`
was also run once with two failures (8 million states, no error).  The counters are bounds of the environment: users,
processes and the SDK may do anything, a few times.  When they are used up nothing is
left to do, so these runs do not check deadlock; that an operation gets stuck is what
`OperationsFinish`, `TurnsAreAnswered` and `TurnsEnd` would show.

Fairness of the client's runs: `WF(ServerStep)` (the server's fibers), `WF(ClientStep)`
(the browser's event loop and timers, the 60 second timeout among them) and
`WF(Connect)` (`scheduleReconnect` retries for ever).  Nothing is assumed of commits,
disconnects and failures.

Fairness of the engine's run: `WF(StartUp)` because start-up runs to its end before the
server listens, `WF(ProcessEnvelope)` because the worker is a forked `Effect.forever`.
Nothing is assumed of callers, failures or crashes: a statement may fail each time.

Fairness of the others: the terminals' `Proceed`, `Persist` and `KillTimerFires` are
promises and timers that the event loop settles; no process has to exit or to print.
Calls are bounded, so the terminals' liveness is said of the end: all operations are
done and all stopped processes dead.  `DesktopShell` has `WF` of its start, of the
restart and kill timers, and of the end of a child that was sent SIGKILL.
`ClaudeSessions` has `WF` of the operation in progress, the stream's fiber, the resumed
callbacks, and the SDK's work on a prompt (a result comes if no callback waits; a
process that dies ends its stream).  `TurnsEnd` assumes nothing of users: it speaks of
behaviours in which no request waits for ever.  The workers of `Checkpoints` and
`ProviderSessions` are forked for ever; no liveness property is claimed of them
(`TurnsAreAnswered` says in each state that the reactor has a step for the turn).
`MessageIngestion` has none.

### Three disagreements with the repository's tests and plans

* `bootstrap_limit`: `bootstrapProjector` (`ProjectionPipeline.ts` 1190-1204) reads
  once, with the default limit of 1000 events.  `ProjectionPipeline.test.ts`
  1194-1200 asserts that after bootstrap each cursor is the maximum sequence.  A
  projector added by an upgrade to a longer log stays behind, and the next live
  event moves its cursor over the gap.
* `attachments_rollback`: `runAttachmentSideEffects` follows the projector's own
  `withTransaction`, which is a savepoint of the engine's transaction.
  `ProjectionPipeline.test.ts` 583 ("does not persist attachment files when projector
  transaction rolls back") states the intent for one level only.
* `client_replay_limit`: `flushReplaySync` (`apps/web/src/routes/__root.tsx` 227) takes
  what one `replayEvents` returns, at most 1000 events, for everything after its
  sequence.  `.plans/spec-contract-matrix.md` 399 requires that the "snapshot/replay
  handoff has no gap".  More than 1000 events between two flushes (deltas of several
  agents while a background tab's timers are throttled) leave the client behind until
  the next event is pushed.  `InformedTheorem` shows that this is the only way: with a
  replay that reaches the end of the log no interleaving leaves it behind what it was
  told of.

### What the properties exempt

The code does some things the properties would forbid.  Each is named by a history
variable, so that the properties hold of everything else; a reader of the code may want
to look at them.

*Checkpoints.*
* A placeholder dispatched with a count read before the capture of its turn overwrites
  the captured row of the SQL table, although the in-memory projector refuses it
  (`diverged`; the comment at `ProviderRuntimeIngestion.ts` 1218 wants captures not to
  be clobbered).  `ProjectionPipeline.ts` has no such guard.
* The read model keeps a thread's 500 checkpoints of the largest counts
  (`orchestrationProjector.ts` 29, 535, 574), as `projector.test.ts` 718-813 asserts.
  The turns table has no limit, and the refs stay: from the 501st checkpoint on a
  snapshot shows more than the read model.  A turn so `dropped` is in the conversation
  without a checkpoint, a revert takes it from the provider all the same, and a late
  placeholder may give it a checkpoint again.  `TableFollowsReadModel`,
  `TurnsAreCaptured` and the last conjunct of `RevertsAreComplete` exempt these turns.
* A revert that runs while a turn starts or runs takes the wrong number of turns from
  the provider or removes a new turn's checkpoint (`misaligned`).
* A revert that fails between its effects leaves refs and checkpoints apart (`aborted`);
  a completion is skipped while the next turn is active (`overtaken`).
* A baseline captured at a placeholder's count leaves a ref that survives the revert;
  `RevertsAreComplete` is about captured checkpoints.
* The comment at `CheckpointReactor.ts` 709-711, that runtime events are not reliably
  delivered here, is older than the provider service's one subscription per consumer.

*Provider sessions.*
* `startSession` overwrites the entry of a session that lives, as a change of mode does
  (`overlapped`): the old process is unreachable, and its exit listener later deletes
  the new entry (`codexAppServerManager.ts` 580, 1079).
* A turn active at a crash stays active in the read model for ever (`stranded`).
* A stop while the read model still shows the end of the previous session, a crash
  between the binding and the session, or a session written back by ingestion leave
  read model and process apart (`torn`).  So does a started session whose binding
  cannot be saved (`SaveFails`) or whose session command fails (`BindFails`;
  `ProviderCommandReactor.ts` 285-299, the failure ends at 537-548 or 728-739): the new
  process runs in the new mode while the read model keeps the old one.  When the mode is
  set back nothing restarts the session, and the next turn runs in the wrong mode.
  `TurnsRunInTheirMode` and the second half of `SessionIsReal` exempt what follows.
* A session command of ingestion that fails drops its event for good
  (`ProviderRuntimeIngestion.ts` 1270-1283; `unreported` has the kinds of such events):
  after the end of a turn was lost the turn stays active with nothing working on it,
  and after a beginning was lost a session may be shown as stopped that is not.
* A turn whose cursor cannot be saved is reported as failed although the process works on
  it (`sendTurn`, `directory.upsert`); a conversation begun because the old one could not
  be resumed is lost again if it is not saved (`forgotten` lasts until it is).
* A first start that is refused leaves a session in "error" without a binding; later
  turns then fail to route.

*Claude sessions.*
* `sendTurn` ends whatever turn runs, not only the stale synthetic ones its comment
  names; the late result of that turn then completes the next one.
* A turn that a background agent begins while the model is set is forgotten without
  `turn.completed` (`replaced`), and a turn may start just after its session stopped
  (`late`).
* Attachments that cannot be read leave an announced turn that never reaches the SDK
  (`undelivered`); the next turn, a stop or the end of the stream ends it.
* A stop resolves pending approvals, and their callbacks resolve them again
  (`cancelled`); questions, and approvals asked for during the stop, are settled only if
  the SDK aborts them.

*Messages.*
* A turn start of any thread sets the one delivery mode; from buffered to streaming in
  mid-message, later text overtakes the buffer (`overtaken`).
* Buffered text is dropped on `session.exited`, and a dispatch that fails loses what it
  carried (`lost`); streamed messages of such a session stay "streaming", and
  `turn.aborted` finalizes nothing (`unfinished`).

*Terminals.*
* An eviction takes any session that is not running, also one that an operation is
  about to start: its process runs outside the map (`orphans`), and the timer and text
  of its history are dropped (`unsaved`).
* A signal that throws is only logged (`Manager.ts` 958-969, 980-990).  If SIGTERM throws,
  the listeners are gone, the session has given its process up and no SIGKILL follows:
  the process runs on and nobody knows of it (`refused`).  `node-pty` throws for every
  named signal on Windows.  `NoProcessIsLost` and `StoppedProcessesDie` exempt these
  processes; both hold of all that could be signalled.
* A process whose listeners are gone exits unnoticed, and its kill timer fires later, at
  a process id that may be another's; `dispose` during a spawn leaves a process.

*Client.*
* An event pushed between a socket's welcome and its registration (`missed`) reaches
  nobody.  If the client's snapshot was read before the event was committed, the client
  shows the state without it until the next event is pushed.  Whatever was committed
  before the socket was opened is never lost.

*Desktop shell.*
* `installDownloadedUpdate` stops the backend first.  If `quitAndInstall` then throws,
  `isQuitting` is reset but nothing starts a backend again, as its end was heard while
  quitting (`stranded`); if the failure arrives as an `error` event only, `isQuitting`
  stays set and nothing is accepted any more.
* A quit during the wait is taken back when the installation throws (`reopened`): a
  backend that ends late is then restarted by an application that is closing.
* An `error` event outside of check and download sets the status to "error" and keeps
  the context, so the button offers what `downloadAvailableUpdate` and
  `installDownloadedUpdate`, which look at the status only, refuse until the next check
  (`outside`).
* A spawn that throws within the restart timer's callback, instead of reporting by an
  `error` event, schedules no other start: no backend comes back then.  The model has
  only spawns that report.
* The SIGKILL timer is not waited for: a backend that ignores SIGTERM outlives the
  application.

## 4. Proofs

Every safety property the passing runs check is proved, but for the half of
`TurnsAreAnswered` that speaks of `ENABLED`; so are the refinements of `CommandLog`,
`EventFeed` and `Replica`.  Each theorem rests on an inductive invariant, which TLC checked before it was
proved.

For the engine, `CommandsAssumption` (command ids are unique) and `EngineAssumption`
(sorts of the constants; the pipeline has each projector once, as
`ORCHESTRATION_PROJECTOR_NAMES` does) are the only assumptions on the constants;
callers, commands, projectors, the read limit and the number of crashes are arbitrary.

* `ControlTheorem`, `TypeTheorem`: `TypeOK` is not inductive (a `project` step needs
  an event of a current command), so it is proved with `ControlOK`, which says what
  the local variables hold at each `pc`.  Holds for both kinds of store.
* `EngineInvariant`: `EngineInv` = `BatchOK` (the batch is the command's events, about
  to be or already the end of the log), `ModelOK` (the read model is the log but for
  the moment between commit and installation), `FeedOK` (feed + unpublished events =
  log since the start), `ReceiptOK` (receipts and log agree, and the receipt of the
  command in progress), `AnswersOK` (what successful callers were told).  Each part
  needs the others: an append is only right if the read model that decided is the log.
  Proved for `StoreInTransaction = TRUE`, one lemma per part and action.
* From it: `ReceiptsTheorem`, `ReadModelTheorem`, `FeedTheorem`, `SuccessTheorem`,
  `HistoryTheorem` (`HistoryIsNeverRewritten`, which no run checks by itself because
  `ImplementsCommandLog` contains it).
* `WaitersTheorem`: each envelope has its own waiting caller (needed to show that an
  answer never removes or forges another acknowledgement), and `RefinementTheorem`:
  `Commit` maps to `Accept`, `RejectCommand` to `Reject`, answers and crashes to
  `Acknowledge`, every other step to a stutter.
* `EventFeedTheorem`: `Commit` maps to `Extend`, `Publish` to `Announce`, a crash to
  `StartOver`, every other step to a stutter.  `Announced` counts what was published on
  top of `bootSequence`, and is the end of the log while the process starts: nobody can
  observe the engine then.  `FeedOK` is why an event announced is always in the log and
  the next one.  No run lists `ImplementsEventFeed`; TLC checked it on the instance of
  `engine_safety` before it was proved.
* `ProjectionsTheorem`: `TablesOK` says that each table holds the log up to its cursor
  (`PrefixOK`), how far the bootstrap has come (`BootstrapOK`), that the installed
  projectors are at the log's end afterwards (`CurrentOK`), and what they have seen of an
  open transaction (`WorkingOK`).  Its hypothesis `[]BootstrapInReach` is a condition on
  the behaviour: no start-up finds a log longer than the read limit.  Without it the
  property is false, as `bootstrap_limit` shows for a projector that an upgrade added.
* `ReconciliationTheorem`, for both kinds of store: with a store of its own, where a
  failed transaction leaves events behind, `OpenInv` says that the read model is the log
  less the batch until this is installed (`OpenModelOK`), that the batch is the log's end
  (`OpenBatchOK`), and that the feed has got as far as the read model (`OpenFeedOK`).  A
  failed command leaves two events at most, so the hypothesis `ReadLimit >= 2` (1000 in
  the code) is what the one read of the reconciliation needs.

For `ClientSync` the only assumption is `SyncAssumption` (the bounds are numbers); the
length of the log and the numbers of disconnects and failures are arbitrary.

* `SyncInv` = `TypeOK`, `ModelIsPrefix`, `RequestFitsPhase` (a replay was asked for from
  the present end of the model, and what was read does not end before it),
  `AnswerIsAwaited` (at most one answer is on the wire, that of the outstanding
  request).  The last two are why `ImplementsReplica` is true: without them a late
  answer could install an old model.  It gives `ClientTypeTheorem` and, with
  `CommitEvents` mapped to `Grow`, `ReceiveSnapshot` and `FinishFold` to `Follow`,
  `ReplicaTheorem`.
* `InformedTheorem` adds `AnswerIsEnough`: when neither `timer` nor `pending` will cause
  another sync, what was read holds every event the client was told of.  It assumes
  `ReplayLimit >= MaxLog`, which `client_replay_limit` shows to be necessary.
* Its second half is about events the client was *not* told of, with an invariant of its
  own, `NewsIsOnItsWay`: while a client is connected and has not given up, it will read
  what was committed before its socket was opened (`WillRead`: it was told, a request of
  its is unread, the answer it awaits reaches that far, or a welcome will make it ask);
  and the last event is such an event, or one it will be told of (`WillBeTold`: not yet
  published, queued behind the welcome, or on the wire), or was missed.
  `SocketIsGreeted` is needed at a push: a socket that is neither registered nor greeted
  has its welcome in the queue, so an event at its head is not behind the welcome.

For `Checkpoints` the only assumption is `CheckpointAssumption` (the bounds are
numbers); all five properties of the run are proved, for any number of turns, reverts
and failures and any limit on the read model's checkpoints.

* `TypeInv` says what each queue and each job can hold, that the provider's events name
  turns it has started, and that the counts are bounded: `MaxCount` is then the largest
  (`MaxCountIsLargest`).  `NewestOf` says what the limit leaves: all if they are not too
  many, at least one, those of the largest counts; `DiffUpdates` and `RevertUpdates` say
  what so becomes of the read model, and all else rests on these two.  `TypeCorrect` and,
  with it alone, `TableFollows`: each dispatch and each completed revert keeps table and
  read model together but for what the limit takes.
* `RefInv` says which refs a job may still take away: a capture about to be dispatched
  has its ref, a revert will delete only refs beyond its target, and once it has, only
  the checkpoints it is about to remove lack theirs.  It gives `RefsMatch`.
* `StaleInv` (the revert knows every ref beyond its target) and `AlignInv` give
  `RevertsComplete`.  `AlignInv` says that, as long as no turn began since the revert was
  taken, each checkpoint is the one of its position in the conversation or lies beyond
  it with a turn the provider has forgotten or the limit dropped, also the placeholder on
  its way, that each turn of the conversation has its checkpoint or was dropped, and that
  the checkpoints reach to its end (`Reaching`).  At the start this is what `Aligned`
  asks; the roll-back needs that the conversation has its turns in order
  (`ConversationOrdered`).
* `Settling` (a placeholder is queued, in the reactor's hands, or its capture failed) and
  `Capturable` (a turn without a checkpoint has its completion there, or was dropped) give
  `TurnsCaptured`; the step that completes a revert needs `AlignInv`.

For `ProviderSessions` the only assumption is `SessionAssumption` (the bounds are
numbers): turns, changes of mode, stops, failures of calls and commands, and crashes are arbitrary
in number.

* `SessionInv` = `TypeOK` and `CursorsExist` (a conversation that a binding or a task
  names was begun).  It gives `TypeCorrect` and, with one lemma per action,
  `Registered`: a live process is the one of the sessions map unless a session was
  started over it.
* `ModeInv` says which mode a task, its process, the binding and the session agree on at
  each step of the reactor as long as nothing is `torn`, and that a task that sends a turn
  has a binding (`RoutedBound`); `RightMode` follows for the step that hands a turn over.
* `ConversationInv` says that the latest conversation is the one in the binding unless it
  was given up, and that an opened process and a session being opened are in that too, or
  it was given up and its successor is not saved (`Fits`, `Fitting`); `SameConversation`
  follows.
* `SessionAlwaysReal` is about a state at rest, but its invariant is about everything on
  the way there.  `ClaimInv`: a turn that is active in the read model, was active when
  ingestion read the session, or whose start waits in the queue, is worked on by a
  process, or an event that clears it comes later in the queue, as long as no such event
  was lost (`EndsTold`).  `EntryInv`, as long as nothing is torn and no event but exits and
  errors was lost (`EntryTold`): an entry of the sessions map has its "connecting" event under way with no exit behind it, or is shown
  with no exit on the way.  One group of lemmas says what a step may do to the queue
  (`Extends`, `NewEvents`), the others that each action does it.
* `PendingTurnsAreAlwaysKept` is the first conjunct of `TurnsAreAnswered`: a turn that is
  pending is in the reactor's hands or queued for it (`PendingInv` adds that an idle or
  stopping reactor has no turn).

For `DesktopShell` the only assumption is `DesktopAssumption` (the bounds are numbers).

* `BackendInv` = `BackendsAreOwned`'s claim of every child, that an application that
  closes and did not take that back is quitting without a backend, and that before the
  bootstrap there is no child.  `StartBackend` and `StopBackend` have a lemma each;
  `BackendsOwned` follows.
* `UpdateInv` ties the flags to the status (a check in flight is shown as "checking", a
  download as "downloading"), says what an error's context can be, and that during an
  installation nothing is in flight; `OffersAccepted` follows.

For `ClaudeSessions` the only assumption is `ClaudeAssumption` (the bounds are numbers).

* `SessionsInv` = `TypeOK` (in the proof module, as no run lists it), `TurnsInv` (the
  turn a context shows is its own and has not ended, any other has ended once; only a
  late turn is open in a stopped context), `StopsFirst` (a session exits after it was
  stopped), `ResolvedInv` (how often a request was resolved follows from its state),
  `EntryInv` (unless starts overlapped, the context that is not stopped is the entry, and
  there is none while one is being closed) and `ApprovalsInv` (a stop leaves no approval
  pending but one that was asked for meanwhile).  The first two give
  `TurnsEndOnceAlways`, the others `RequestsAreSettledAlways`.

For `TerminalManager` the only assumption is `TerminalAssumption` (each
terminal has a thread, at least one session may be retained, the bounds are numbers);
threads, terminals, operations, processes and failures are arbitrary in number.

* `RuntimeInv` joins `TypeOK`, `OwnersAgree` and `InactiveSessionsAreFew`, which need each
  other, with `MapInv` and `OperationsInv` (what an operation that waits may rely on when
  it goes on: nobody else has given its terminal a session, its session has no process),
  `LocatedInv` (a session that has a process, or is about to get one, is in the map, is an
  orphan, or has left the map with all others at shutdown), `OrphansInv`, `TimersInv`
  (only processes that were stopped will be killed), `WaitInv`, `DetachedInv`, and
  `OrderInv`.  The last says that `older` is a strict linear order of the inactive
  sessions: only then does an eviction leave exactly as many as it should, and closing
  several sessions evict no more than the first one needs.
* `HistoryInv` says of each terminal (`HistoryOf`) that the latest of what is pending, in
  the chain of writes or in the file is its session's history (`Latest`); that a terminal
  without a session has nothing pending but writes that the operation in progress awaits
  (`Settling`, `AwaitedOnce`); and that a deleted one has neither a file nor a write that
  could bring it back.  It gives `HistoryIsAlwaysSaved`, but for sessions that were
  evicted in the middle of something (`unsaved`).

For `MessageIngestion` the only assumption is `MessageAssumption` (each message
has a turn; the bounds are numbers).

* `IngestionInv` = `TypeOK`; `QueueInv` and `PendingInv` (the order of the provider's events as
  it stands in the queue: chunks rise, a message's completion is its last, a turn's end
  comes after all of its text); `TaskInv` (the input in hand was before those that wait,
  and its commands are about its messages); `FallbackInv` (the text of a completion is
  used only where nothing was delivered); `TextInv` and `StateInv`.
* `TextInv` divides what was said of a message into what is delivered, in hand and
  buffered: the three share no chunk, each is in order and before the next unless the
  message was overtaken, and every chunk is in one of them or still queued unless it
  was lost.  `TextIsAlwaysConserved` is the same of the three joined.
* `StateInv` says what is left to do of a message: it is tidy, or remembered for its turn,
  or its completion is queued or being handled; `DrainedTurnsAreAlwaysFinished` follows.

Not proved, only model-checked: liveness (`EveryDispatchIsAnswered`, `KnownEventsArrive`,
`OperationsFinish`, `StoppedProcessesDie`, `TurnsEnd`, `BackendComesBack`), because
fairness is out of the prover's reach, and that the reactor is enabled while a turn is
pending (`ENABLED`).  For a store outside the transaction only the reconciliation is
claimed, as there a failed command's events stay in the log without a receipt.

## 5. Plan

Done, in this order: `OrchestrationEngine` and `ClientSync` (each refining an abstract
specification), `TerminalManager`, `Checkpoints`, `ProviderSessions`, `MessageIngestion`
with the drainable worker, `ClaudeSessions`, `DesktopShell`; all are checked and their
safety properties proved.  What is left, most important first:

1. An abstract specification of a thread's session that `ProviderSessions` and
   `ClaudeSessions` both implement, and a proof that they do.
2. `TurnProjection`: the message and turn rows of the SQL projectors and of the shared
   projector over the same events, beyond the checkpoint columns; a replay projector by
   projector (`ProjectionPipeline.ts` 1219) must equal live projection.
3. The operations that `ProviderSessions` leaves out (interrupt, approvals, user input,
   restarts for another model).
4. `GitManager`'s stacked actions as a sequence of steps of which each may fail.

## 6. Not modelled

* Of the modelled parts: `ProviderSessions` has no interrupts, approvals, restarts for
  other options, worktree rename, dedupe cache (an event is delivered once, so it never
  hits) and `stopAll`; `Checkpoints` no diff summaries, activities or threads without a
  workspace; `MessageIngestion` no cache expiry or capacity, proposed plans, activities,
  reverts of messages or the cap on their number (that on checkpoints is in `Checkpoints`); `ClaudeSessions` no content (tools,
  plans, usage), resume cursor, requests decided without the user, `stopAll`, or
  `rollbackThread`, which trims a list of the adapter while the SDK keeps its
  conversation; `TerminalManager` no writes and resizes, which change nothing here,
  polling for subprocesses or migration of old history files; `DesktopShell` no windows,
  menus, embedded browser and extensions, native messaging, custom protocol, logging, or
  the timers that start checks (a check may start at any time).
* The content of the two provider protocols, provider health.
* `GitManager`/`GitCore` (sequential calls of git and gh), keybindings, workspace
  search, telemetry, app processes, process start-up, and the web application's views.  They make up most of the repository's lines; they keep little
  state that two actors share.  They are listed in `PROJECT.json` with their reasons.
