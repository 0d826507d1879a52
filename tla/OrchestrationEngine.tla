------------------------ MODULE OrchestrationEngine -------------------------
(***************************************************************************)
(* OrchestrationEngine.ts with the parts of the event store, the command   *)
(* receipts and the projection pipeline it drives.                         *)
(*                                                                         *)
(* One worker takes commands from an unbounded queue.  A new command is    *)
(* decided against the in-memory read model; inside one SQL transaction    *)
(* its events are appended and run through every projector, and an         *)
(* accepted receipt is written.  After the commit the read model is        *)
(* replaced, the events are published and the caller is answered.  The     *)
(* process may die at any step; the next start bootstraps the projections  *)
(* and replays the log.                                                    *)
(***************************************************************************)
EXTENDS OrchestrationDecider

CONSTANTS
    Callers,             \* fibers waiting in dispatch
    ProjectorOrder,      \* the projectors, in the order the pipeline runs them
    InitialProjectors,   \* those the first version of the server ships with
    ReadLimit,           \* DEFAULT_READ_FROM_SEQUENCE_LIMIT
    StoreInTransaction,  \* do event appends roll back with the SQL transaction?
    MaxCrashes,          \* bound on process deaths
    LogBound,            \* bound: callers stop dispatching when the log is this long
    NoCommand

Projectors == {ProjectorOrder[i] : i \in DOMAIN ProjectorOrder}

ASSUME EngineAssumption ==
    /\ ReadLimit \in Nat
    /\ StoreInTransaction \in BOOLEAN
    /\ MaxCrashes \in Nat
    /\ LogBound \in Nat
    /\ ProjectorOrder \in Seq(STRING)
    /\ ProjectorOrder # <<>>
    /\ \A i, j \in DOMAIN ProjectorOrder : ProjectorOrder[i] = ProjectorOrder[j] => i = j
    /\ InitialProjectors \subseteq Projectors
    /\ NoCommand \notin Commands

VARIABLES
    \* the SQLite database
    log,           \* orchestration_events; log[i] is the event with sequence i
    receipts,      \* orchestration_command_receipts, one row or none per command
    tables,        \* per projector: its rows and its projection_state cursor
    \* the attachments directory
    files,         \* the threads that have attachment files
    \* the version of the server
    installed,     \* the projectors the running version has
    \* the memory of the process
    readModel,     \* the events folded into the in-memory read model
    commandQueue,  \* envelopes waiting for the worker
    callers,       \* per caller: the answer to its last dispatch
    pc,            \* where the start-up sequence or the worker is
    envelope,      \* the envelope being processed
    batch,         \* the events saved by this transaction, then those to publish
    step,          \* index of the projector to run, or of the last event published
    working,       \* the tables as the open transaction sees them
    failure,       \* why processEnvelope failed
    remaining,     \* events the current bootstrap read may still return
    reconcileFailed, \* a reconciliation has failed since the process started
    bootSequence,  \* snapshotSequence when the worker was forked
    published,     \* events published to the domain-event PubSub since then
    crashes

database   == <<log, receipts, tables>>
version    == <<installed, crashes>>
dispatches == <<commandQueue, callers>>
progress   == <<envelope, batch, step, working, failure, remaining>>
feed       == <<bootSequence, published>>
vars == <<database, files, version, readModel, dispatches, pc, progress,
          reconcileFailed, feed>>

-----------------------------------------------------------------------------
(* Events, receipts and tables.                                            *)

NoReceipt == [status |-> "none", resultSequence |-> 0]

EmptyTable == [rows |-> <<>>, lastAppliedSequence |-> 0]

SnapshotSequence(model) == IF model = <<>> THEN 0 ELSE Last(model).sequence

(* AUTOINCREMENT: the counter rolls back with the transaction.             *)
NextSequence ==
    IF StoreInTransaction THEN Len(log) + Len(batch) + 1 ELSE Len(log) + 1

(* readFromSequence(cursor, limit): sequences are the positions of log.    *)
EventsAfter(cursor, limit) ==
    SubSeq(log, cursor + 1, IF cursor + limit < Len(log) THEN cursor + limit ELSE Len(log))

(* A projector's row changes and its cursor are one inner transaction.     *)
ApplyEvent(table, event) ==
    [rows |-> Append(table.rows, event), lastAppliedSequence |-> event.sequence]

(* The threads projector runs last; on thread.deleted its side effect      *)
(* removes the thread's attachment files as soon as the inner transaction  *)
(* ends, even when an outer one is still open.                             *)
FilesAfter(projector, event) ==
    IF projector = Last(ProjectorOrder) /\ event.type = "thread.deleted"
    THEN files \ {event.command.threadId}
    ELSE files

Idle == [status |-> "idle", command |-> NoCommand, sequence |-> 0]

Answer(status, sequence) ==
    callers' = [callers EXCEPT ![envelope.caller] =
                    [status |-> status, command |-> envelope.command, sequence |-> sequence]]

NoEnvelope == [command |-> NoCommand, caller |-> NoCommand]

(* processEnvelope returns: its local variables are gone.                  *)
EnvelopeDone ==
    /\ pc' = "idle"
    /\ envelope' = NoEnvelope
    /\ batch' = <<>>
    /\ step' = 0
    /\ working' = tables
    /\ failure' = "none"

Init ==
    /\ log = <<>>
    /\ receipts = [c \in Commands |-> NoReceipt]
    /\ tables = [p \in Projectors |-> EmptyTable]
    /\ files = {}
    /\ installed = InitialProjectors
    /\ crashes = 0
    /\ readModel = <<>>
    /\ commandQueue = <<>>
    /\ callers = [k \in Callers |-> Idle]
    /\ pc = "bootstrap"
    /\ envelope = NoEnvelope
    /\ batch = <<>>
    /\ step = 1
    /\ working = tables
    /\ failure = "none"
    /\ remaining = ReadLimit
    /\ reconcileFailed = FALSE
    /\ bootSequence = 0
    /\ published = <<>>
-----------------------------------------------------------------------------
(* Start-up: projectionPipeline.bootstrap, then the replay of the log.     *)

BootstrapEvent ==
    LET p == ProjectorOrder[step]
        cursor == tables[p].lastAppliedSequence
    IN  /\ pc = "bootstrap"
        /\ p \in installed
        /\ remaining > 0
        /\ cursor < Len(log)
        /\ tables' = [tables EXCEPT ![p] = ApplyEvent(@, log[cursor + 1])]
        /\ files' = FilesAfter(p, log[cursor + 1])
        /\ remaining' = remaining - 1
        /\ UNCHANGED <<log, receipts, version, readModel, dispatches, pc, envelope, batch,
                       step, working, failure, reconcileFailed, feed>>

(* Mutant: the replay of a projector stops one event early.                *)
BootstrapStopsEarly ==
    LET p == ProjectorOrder[step]
    IN  /\ pc = "bootstrap"
        /\ p \notin installed \/ remaining = 0 \/ tables[p].lastAppliedSequence + 1 >= Len(log)
        /\ remaining' = ReadLimit
        /\ IF step = Len(ProjectorOrder)
           THEN pc' = "replay" /\ step' = 0
           ELSE pc' = pc /\ step' = step + 1
        /\ UNCHANGED <<database, files, version, readModel, dispatches, envelope, batch,
                       working, failure, reconcileFailed, feed>>

BootstrapNextProjector ==
    LET p == ProjectorOrder[step]
    IN  /\ pc = "bootstrap"
        /\ p \notin installed \/ remaining = 0 \/ tables[p].lastAppliedSequence >= Len(log)
        /\ remaining' = ReadLimit
        /\ IF step = Len(ProjectorOrder)
           THEN pc' = "replay" /\ step' = 0
           ELSE pc' = pc /\ step' = step + 1
        /\ UNCHANGED <<database, files, version, readModel, dispatches, envelope, batch,
                       working, failure, reconcileFailed, feed>>

(* readAll has no limit.  Nothing can observe the engine before its layer  *)
(* is built, so the replay and the fork of the worker are one step.        *)
ReplayLog ==
    /\ pc = "replay"
    /\ readModel' = log
    /\ bootSequence' = Len(log)
    /\ EnvelopeDone
    /\ UNCHANGED <<database, files, version, dispatches, remaining, reconcileFailed, published>>
-----------------------------------------------------------------------------
(* dispatch: the envelope is queued and the caller waits.  wsServer stores *)
(* the attachments of a user message before it dispatches the turn start.  *)
Dispatch(k, c) ==
    /\ pc \notin {"bootstrap", "replay"}
    /\ callers[k].status # "waiting"
    /\ Len(log) < LogBound
    /\ commandQueue' = Append(commandQueue, [command |-> c, caller |-> k])
    /\ callers' = [callers EXCEPT ![k] = [status |-> "waiting", command |-> c, sequence |-> 0]]
    /\ files' = IF c.type = "thread.turn.start" THEN files \cup {c.threadId} ELSE files
    /\ UNCHANGED <<database, version, readModel, pc, progress, reconcileFailed, feed>>

Take ==
    /\ pc = "idle"
    /\ commandQueue # <<>>
    /\ envelope' = Head(commandQueue)
    /\ commandQueue' = Tail(commandQueue)
    /\ pc' = "lookup"
    /\ UNCHANGED <<database, files, version, readModel, callers, batch, step, working, failure,
                   remaining, reconcileFailed, feed>>

(* Mutant: the caller is given the receipt's status.                       *)
AnswerReceiptStatus ==
    LET receipt == receipts[envelope.command]
    IN  /\ pc = "lookup"
        /\ receipt.status # "none"
        /\ Answer(receipt.status, receipt.resultSequence)
        /\ EnvelopeDone
        /\ UNCHANGED <<database, files, version, readModel, commandQueue, remaining,
                       reconcileFailed, feed>>

(* A command that has a receipt is answered from it.                       *)
AnswerFromReceipt ==
    LET receipt == receipts[envelope.command]
    IN  /\ pc = "lookup"
        /\ receipt.status # "none"
        /\ IF receipt.status = "accepted"
           THEN Answer("ok", receipt.resultSequence)
           ELSE Answer("previouslyRejected", 0)
        /\ EnvelopeDone
        /\ UNCHANGED <<database, files, version, readModel, commandQueue, remaining,
                       reconcileFailed, feed>>

Fail(reason) ==
    /\ failure' = reason
    /\ pc' = "reconcile"
    /\ batch' = <<>>
    /\ step' = 0

(* The receipt cannot be read: any storage error of the first step.        *)
LookupFails ==
    /\ pc = "lookup"
    /\ Fail("storage")
    /\ UNCHANGED <<database, files, version, readModel, dispatches, envelope, working, remaining,
                   reconcileFailed, feed>>

Decide ==
    /\ pc = "lookup"
    /\ receipts[envelope.command].status = "none"
    /\ IF Accepts(readModel, envelope.command)
       THEN /\ pc' = "append"
            /\ batch' = <<>>
            /\ step' = 0
            /\ UNCHANGED failure
       ELSE Fail("invariant")
    /\ working' = tables
    /\ UNCHANGED <<database, files, version, readModel, dispatches, envelope, remaining,
                   reconcileFailed, feed>>
-----------------------------------------------------------------------------
(* The transaction of a command.                                           *)

AppendEvent ==
    LET saved == [sequence |-> NextSequence,
                  type |-> EventTypesOf(envelope.command)[Len(batch) + 1],
                  command |-> envelope.command]
    IN  /\ pc = "append"
        /\ batch' = Append(batch, saved)
        /\ log' = IF StoreInTransaction THEN log ELSE Append(log, saved)
        /\ step' = 1
        /\ pc' = "project"
        /\ UNCHANGED <<receipts, tables, files, version, readModel, dispatches, envelope,
                       working, failure, remaining, reconcileFailed, feed>>

ProjectEvent ==
    LET p == ProjectorOrder[step]
        runs == p \in installed
    IN  /\ pc = "project"
        /\ working' = IF runs THEN [working EXCEPT ![p] = ApplyEvent(@, Last(batch))] ELSE working
        /\ files' = IF runs THEN FilesAfter(p, Last(batch)) ELSE files
        /\ IF step < Len(ProjectorOrder)
           THEN step' = step + 1 /\ pc' = pc
           ELSE /\ step' = 0
                /\ pc' = IF Len(batch) < Len(EventTypesOf(envelope.command))
                         THEN "append" ELSE "commit"
        /\ UNCHANGED <<database, version, readModel, dispatches, envelope, batch, failure,
                       remaining, reconcileFailed, feed>>

(* Mutant: the receipt holds the sequence of the first event.              *)
CommitFirstSequence ==
    /\ pc = "commit"
    /\ log' = IF StoreInTransaction THEN log \o batch ELSE log
    /\ tables' = working
    /\ receipts' = [receipts EXCEPT ![envelope.command] =
                        [status |-> "accepted", resultSequence |-> Head(batch).sequence]]
    /\ pc' = "install"
    /\ UNCHANGED <<files, version, readModel, dispatches, progress, reconcileFailed, feed>>

(* The accepted receipt is the last write of the transaction.              *)
Commit ==
    /\ pc = "commit"
    /\ log' = IF StoreInTransaction THEN log \o batch ELSE log
    /\ tables' = working
    /\ receipts' = [receipts EXCEPT ![envelope.command] =
                        [status |-> "accepted", resultSequence |-> Last(batch).sequence]]
    /\ pc' = "install"
    /\ UNCHANGED <<files, version, readModel, dispatches, progress, reconcileFailed, feed>>

(* Any statement of the transaction fails: SQLite rolls everything back,   *)
(* except events of a store outside the transaction and the files a        *)
(* projector has already removed.                                          *)
TransactionFails ==
    /\ pc \in {"append", "project", "commit"}
    /\ Fail("storage")
    /\ UNCHANGED <<database, files, version, readModel, dispatches, envelope, working, remaining,
                   reconcileFailed, feed>>

(* Mutant: each event is folded into the old model, so the last one wins.  *)
InstallLastEvent ==
    /\ pc = "install"
    /\ readModel' = Append(readModel, Last(batch))
    /\ pc' = "publish"
    /\ UNCHANGED <<database, files, version, dispatches, progress, reconcileFailed, feed>>

(* nextReadModel is readModel with the batch folded into it.               *)
InstallReadModel ==
    /\ pc = "install"
    /\ readModel' = readModel \o batch
    /\ pc' = "publish"
    /\ UNCHANGED <<database, files, version, dispatches, progress, reconcileFailed, feed>>

(* Mutant: the events of a command are published last one first.           *)
PublishBackwards ==
    /\ pc \in {"publish", "republish"}
    /\ step < Len(batch)
    /\ published' = Append(published, batch[Len(batch) - step])
    /\ step' = step + 1
    /\ UNCHANGED <<database, files, version, readModel, dispatches, pc, envelope, batch, working,
                   failure, remaining, reconcileFailed, bootSequence>>

Publish ==
    /\ pc \in {"publish", "republish"}
    /\ step < Len(batch)
    /\ published' = Append(published, batch[step + 1])
    /\ step' = step + 1
    /\ UNCHANGED <<database, files, version, readModel, dispatches, pc, envelope, batch, working,
                   failure, remaining, reconcileFailed, bootSequence>>

(* Mutant: the caller is answered before the events are published.         *)
ResolveEarly ==
    /\ pc = "publish"
    /\ step < Len(batch)
    /\ Answer("ok", Last(batch).sequence)
    /\ UNCHANGED <<database, files, version, readModel, commandQueue, pc, progress,
                   reconcileFailed, feed>>

Resolve ==
    /\ pc = "publish"
    /\ step = Len(batch)
    /\ Answer("ok", Last(batch).sequence)
    /\ EnvelopeDone
    /\ UNCHANGED <<database, files, version, readModel, commandQueue, remaining, reconcileFailed,
                   feed>>
-----------------------------------------------------------------------------
(* The failure path: reconcileReadModelAfterDispatchFailure folds and      *)
(* publishes whatever the store holds beyond the read model.  The model    *)
(* has not changed since the envelope was taken, so its snapshotSequence   *)
(* is dispatchStartSequence.                                               *)

(* Mutant: the events found are published but not folded into the model.   *)
ReconcileFeedOnly ==
    /\ pc = "reconcile"
    /\ batch' = EventsAfter(SnapshotSequence(readModel), ReadLimit)
    /\ pc' = "republish"
    /\ UNCHANGED <<database, files, version, readModel, dispatches, envelope, step, working,
                   failure, remaining, reconcileFailed, feed>>

Reconcile ==
    LET persisted == EventsAfter(SnapshotSequence(readModel), ReadLimit)
    IN  /\ pc = "reconcile"
        /\ readModel' = readModel \o persisted
        /\ batch' = persisted
        /\ pc' = "republish"
        /\ UNCHANGED <<database, files, version, dispatches, envelope, step, working, failure,
                       remaining, reconcileFailed, feed>>

(* The store cannot be read; only a warning is logged.                     *)
ReconcileFails ==
    /\ pc = "reconcile"
    /\ reconcileFailed' = TRUE
    /\ pc' = "republish"
    /\ UNCHANGED <<database, files, version, readModel, dispatches, progress, feed>>

(* Mutant: a storage failure is remembered as a rejection.                 *)
RejectAnyFailure ==
    /\ pc = "republish"
    /\ step = Len(batch)
    /\ receipts' = [receipts EXCEPT ![envelope.command] =
                        [status |-> "rejected", resultSequence |-> SnapshotSequence(readModel)]]
    /\ Answer(IF failure = "invariant" THEN "rejected" ELSE "failed", 0)
    /\ EnvelopeDone
    /\ UNCHANGED <<log, tables, files, version, readModel, commandQueue, remaining,
                   reconcileFailed, feed>>

(* Mutant: only a rejected command's caller is told of the failure.        *)
RejectSilently ==
    /\ pc = "republish"
    /\ step = Len(batch)
    /\ IF failure = "invariant" THEN Answer("rejected", 0) ELSE UNCHANGED callers
    /\ EnvelopeDone
    /\ UNCHANGED <<database, files, version, readModel, commandQueue, remaining,
                   reconcileFailed, feed>>

(* A rejection is remembered in a receipt; failing to write it is ignored. *)
RejectCommand ==
    /\ pc = "republish"
    /\ step = Len(batch)
    /\ \/ /\ failure = "invariant"
          /\ receipts' = [receipts EXCEPT ![envelope.command] =
                [status |-> "rejected", resultSequence |-> SnapshotSequence(readModel)]]
       \/ UNCHANGED receipts
    /\ Answer(IF failure = "invariant" THEN "rejected" ELSE "failed", 0)
    /\ EnvelopeDone
    /\ UNCHANGED <<log, tables, files, version, readModel, commandQueue, remaining,
                   reconcileFailed, feed>>
-----------------------------------------------------------------------------

(* The process dies at any point and is started again, possibly as a newer *)
(* version with more projectors.  The database and the files survive.      *)
Crash ==
    /\ crashes < MaxCrashes
    /\ crashes' = crashes + 1
    /\ installed' \in {s \in SUBSET Projectors : installed \subseteq s}
    /\ readModel' = <<>>
    /\ commandQueue' = <<>>
    /\ callers' = [k \in Callers |-> Idle]
    /\ pc' = "bootstrap"
    /\ envelope' = NoEnvelope
    /\ batch' = <<>>
    /\ step' = 1
    /\ working' = tables
    /\ failure' = "none"
    /\ remaining' = ReadLimit
    /\ reconcileFailed' = FALSE
    /\ bootSequence' = 0
    /\ published' = <<>>
    /\ UNCHANGED <<database, files>>

StartUp == BootstrapEvent \/ BootstrapNextProjector \/ ReplayLog

ProcessEnvelope ==
    \/ Take \/ AnswerFromReceipt \/ LookupFails \/ Decide
    \/ AppendEvent \/ ProjectEvent \/ Commit \/ TransactionFails
    \/ InstallReadModel \/ Publish \/ Resolve
    \/ Reconcile \/ ReconcileFails \/ RejectCommand

Next ==
    \/ StartUp
    \/ ProcessEnvelope
    \/ \E k \in Callers, c \in Commands : Dispatch(k, c)
    \/ Crash

(* The start-up sequence runs to its end and the worker is a forked        *)
(* Effect.forever: both keep taking steps.  Callers and crashes need not.  *)
Spec == Init /\ [][Next]_vars /\ WF_vars(StartUp) /\ WF_vars(ProcessEnvelope)
=============================================================================
