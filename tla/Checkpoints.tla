----------------------------- MODULE Checkpoints -----------------------------
(***************************************************************************)
(* The checkpoints of one thread in a git workspace: CheckpointReactor,    *)
(* the placeholders ProviderRuntimeIngestion creates, the checkpoint part  *)
(* of the shared projector and of the SQL turns projector, and the refs of *)
(* CheckpointStore.                                                        *)
(*                                                                         *)
(* The provider runs turns and emits runtime events.  Both workers read    *)
(* them in order, each at its own pace; the checkpoint reactor also reads  *)
(* domain events.  A handler reads the read model, works on git for a      *)
(* while and then dispatches what it decided: the steps of a job.          *)
(*                                                                         *)
(* Turns are numbered as they are requested.  A ref is named by its count  *)
(* (checkpointRefForThreadTurn); what the files contain is left out.       *)
(***************************************************************************)
EXTENDS Integers, Sequences, FiniteSets

CONSTANTS
    MaxCheckpoints, \* MAX_THREAD_CHECKPOINTS
    MaxTurns,       \* bound on the turns requested
    MaxReverts,     \* bound on the reverts requested
    MaxFailures     \* bound on the git, provider and dispatch calls that fail

ASSUME CheckpointAssumption ==
    /\ MaxCheckpoints \in Nat \ {0}
    /\ MaxTurns \in Nat /\ MaxReverts \in Nat /\ MaxFailures \in Nat

VARIABLES
    \* the provider
    requested,      \* the last turn the user asked for
    started,        \* the last turn the provider started
    conversation,   \* the turns the provider remembers
    current,        \* the turn it works on, or 0
    \* the workers
    ingestion,      \* runtime events for ProviderRuntimeIngestion
    ingest,         \* the placeholder it is about to dispatch
    runtime,        \* runtime events for the reactor
    domain,         \* domain events for the reactor
    job,            \* what the reactor is doing
    \* durable and derived state
    refs,           \* the counts whose checkpoint ref exists
    active,         \* session.activeTurnId of the read model
    checkpoints,    \* thread.checkpoints of the read model
    rows,           \* the checkpoint columns of projection_turns, per turn
    \* history
    failed,         \* turns whose capture failed
    overtaken,      \* turns whose completion was skipped for an active turn
    diverged,       \* turns whose row no longer follows the read model
    dropped,        \* turns a checkpoint of which the limit took from the read model
    aborted,        \* a handler failed between two of its effects
    misaligned,     \* a revert overlapped a turn, or its counts did not fit the conversation
    reverts, failures

provider == <<requested, started, conversation, current>>
workers == <<ingestion, ingest, runtime, domain, job>>
model == <<active, checkpoints, rows>>
history == <<failed, overtaken, diverged, dropped, aborted, misaligned>>
vars == <<provider, workers, refs, model, history, reverts, failures>>

Absent == -1
Turns == 1..MaxTurns
NoRow == [count |-> Absent, status |-> "none"]

Event(type, turn, count, status) ==
    [type |-> type, turn |-> turn, count |-> count, status |-> status]

NoJob == Event("none", 0, 0, "none")
Resting == [event |-> NoJob, at |-> "idle", stale |-> {}, drop |-> 0, basis |-> Absent]

(* A placeholder has a status, "missing", but no ref.                      *)
Checkpoint(turn, count, status, captured) ==
    [turn |-> turn, count |-> count, status |-> status, captured |-> captured]

MaxCount == CHOOSE n \in {0} \cup {c.count : c \in checkpoints} :
                \A c \in checkpoints : c.count <= n

Of(turn) == {c \in checkpoints : c.turn = turn}
Real(turn) == {c \in Of(turn) : c.status # "missing"}
TurnsOf(S) == {c.turn : c \in S}

(* The turns the provider remembers have the checkpoints of their          *)
(* positions, but for those the limit took; there are no others, and no    *)
(* placeholder is on its way.                                              *)
Aligned ==
    /\ ingest = NoJob
    /\ MaxCount = Len(conversation)
    /\ \A c \in checkpoints :
            c.count \in DOMAIN conversation /\ c.turn = conversation[c.count]
    /\ \A i \in DOMAIN conversation : conversation[i] \in TurnsOf(checkpoints) \cup dropped

Init ==
    /\ requested = 0 /\ started = 0 /\ conversation = <<>> /\ current = 0
    /\ ingestion = <<>> /\ ingest = NoJob /\ runtime = <<>> /\ domain = <<>> /\ job = Resting
    /\ refs = {}
    /\ active = 0 /\ checkpoints = {} /\ rows = [t \in Turns |-> NoRow]
    /\ failed = {} /\ overtaken = {} /\ diverged = {} /\ dropped = {}
    /\ aborted = FALSE /\ misaligned = FALSE
    /\ reverts = 0 /\ failures = 0
-----------------------------------------------------------------------------
(* The projectors, in the dispatching transaction.                         *)

(* The last MaxCheckpoints of S by their counts.  Of equal counts those of *)
(* later come last; which other was added first is left open.              *)
Newest(S, later) ==
    {K \in SUBSET S :
        /\ Cardinality(K) = IF Cardinality(S) <= MaxCheckpoints
                            THEN Cardinality(S) ELSE MaxCheckpoints
        /\ \A k \in K, d \in S \ K :
                d.count < k.count \/ (d.count = k.count /\ d \notin later)}

Keep(S, later) ==
    \E K \in Newest(S, later) :
        /\ checkpoints' = K
        /\ dropped' = dropped \cup TurnsOf(S \ K)

(* Mutant: a second checkpoint of a turn is added to the first.            *)
AddCheckpoint(c) == Keep(checkpoints \cup {c}, {c})

(* The shared projector on thread.turn-diff-completed.                     *)
ApplyToReadModel(c) ==
    IF c.status = "missing" /\ Real(c.turn) # {}
    THEN UNCHANGED <<checkpoints, dropped>>
    ELSE Keep((checkpoints \ Of(c.turn)) \cup {c}, {c})

(* The turns projector: the count is taken from other turns that have it,  *)
(* and the table has no limit.                                             *)
ApplyToRows(c) ==
    [t \in Turns |->
        IF t = c.turn THEN [count |-> c.count, status |-> c.status]
        ELSE IF rows[t].count = c.count THEN NoRow ELSE rows[t]]

(* The turns whose row and checkpoint this event drives apart: both        *)
(* projectors keep what the other gives up.                                *)
DrivenApart(c) ==
    (IF c.status = "missing" /\ Real(c.turn) # {} THEN {c.turn} ELSE {})
        \cup {t \in Turns \ {c.turn} : rows[t].count = c.count}

CompleteTurnDiff(c) ==
    /\ ApplyToReadModel(c)
    /\ rows' = ApplyToRows(c)
    /\ diverged' = diverged \cup DrivenApart(c)
    /\ domain' = IF c.status = "missing"
                 THEN Append(domain, Event("placeholder", c.turn, c.count, c.status)) ELSE domain
-----------------------------------------------------------------------------
(* The user and the provider.                                              *)

(* thread.turn-start-requested; the user's message, which is handled the   *)
(* same way, is one event with it.                                         *)
RequestTurn ==
    /\ requested < MaxTurns
    /\ requested' = requested + 1
    /\ domain' = Append(domain, Event("turnStart", 0, 0, "none"))
    /\ UNCHANGED <<started, conversation, current, ingestion, ingest, runtime, job, refs,
                   model, history, reverts, failures>>

(* The client asks for no revert while it sees a turn running.             *)
RequestRevert ==
    /\ active = 0
    /\ reverts < MaxReverts
    /\ reverts' = reverts + 1
    /\ \E count \in 0..MaxTurns : domain' = Append(domain, Event("revert", 0, count, "none"))
    /\ UNCHANGED <<provider, ingestion, ingest, runtime, job, refs, model, history,
                   failures>>

(* Runtime events reach both workers.                                      *)
Emit(event) ==
    /\ ingestion' = Append(ingestion, event)
    /\ runtime' = Append(runtime, event)
    /\ UNCHANGED <<requested, ingest, domain, job, refs, model, history, reverts, failures>>

StartTurn ==
    /\ current = 0
    /\ started < requested
    /\ started' = started + 1
    /\ current' = started'
    /\ conversation' = Append(conversation, started')
    /\ Emit(Event("started", started', 0, "none"))

UpdateDiff ==
    /\ current # 0
    /\ \A i \in DOMAIN ingestion : ingestion[i].type # "diff"
    /\ ingestion' = Append(ingestion, Event("diff", current, 0, "none"))
    /\ UNCHANGED <<provider, ingest, runtime, domain, job, refs, model, history, reverts,
                   failures>>

(* checkpointStatusFromRuntime: "missing" is an interrupted turn; a failed *)
(* one, "error", is treated like one that is "ready".                      *)
CompleteTurn ==
    /\ current # 0
    /\ current' = 0
    /\ \E status \in {"ready", "missing"} :
            Emit(Event("completed", current, 0, status))
    /\ UNCHANGED <<started, conversation>>
-----------------------------------------------------------------------------
(* ProviderRuntimeIngestion, as far as it touches turns and checkpoints.   *)

Ingest(type) ==
    /\ ingest = NoJob
    /\ ingestion # <<>>
    /\ Head(ingestion).type = type
    /\ ingestion' = Tail(ingestion)
    /\ UNCHANGED <<provider, runtime, domain, job, refs, checkpoints, rows, history,
                   reverts, failures>>

IngestStarted ==
    /\ Ingest("started")
    /\ active' = IF active = 0 THEN Head(ingestion).turn ELSE active
    /\ UNCHANGED ingest

(* Only the active turn may close the lifecycle state.                     *)
IngestCompleted ==
    /\ Ingest("completed")
    /\ active' = IF active \in {0, Head(ingestion).turn} THEN 0 ELSE active
    /\ UNCHANGED ingest

(* The count is decided on the read model as it is now.                    *)
IngestDiff ==
    LET turn == Head(ingestion).turn
    IN  /\ Ingest("diff")
        /\ ingest' = IF Of(turn) # {} THEN NoJob
                     ELSE Event("placeholder", turn, MaxCount + 1, "missing")
        /\ UNCHANGED active

DispatchPlaceholder ==
    /\ ingest # NoJob
    /\ ingest' = NoJob
    /\ CompleteTurnDiff(Checkpoint(ingest.turn, ingest.count, "missing", FALSE))
    /\ UNCHANGED <<provider, ingestion, runtime, job, refs, active, failed, overtaken,
                   aborted, misaligned, reverts, failures>>
-----------------------------------------------------------------------------
(* CheckpointReactor: one worker, fed by two subscriptions.                *)

Begin(event, at) == job' = [Resting EXCEPT !.event = event, !.at = at]

TakeRuntime(type) ==
    /\ job = Resting
    /\ runtime # <<>>
    /\ Head(runtime).type = type
    /\ runtime' = Tail(runtime)
    /\ UNCHANGED <<provider, ingestion, ingest, domain, refs, model, failed, diverged,
                   dropped, aborted, misaligned, reverts, failures>>

TakeDomain(type) ==
    /\ job = Resting
    /\ domain # <<>>
    /\ Head(domain).type = type
    /\ domain' = Tail(domain)
    /\ UNCHANGED <<provider, ingestion, ingest, runtime, refs, model, history, reverts,
                   failures>>

(* ensurePreTurnBaseline: the ref of the last count, if it is not there.   *)
Baseline == Begin(Event("baseline", 0, MaxCount, "none"), "capture")

TakeStarted == TakeRuntime("started") /\ Baseline /\ UNCHANGED overtaken
TakeTurnStart == TakeDomain("turnStart") /\ Baseline

(* Mutant: only the completion of the active turn is of interest.          *)
TakeCompletedOfActive ==
    LET event == Head(runtime)
        counts == {c.count : c \in Of(event.turn)}
    IN  /\ TakeRuntime("completed")
        /\ IF active # event.turn \/ Real(event.turn) # {}
           THEN UNCHANGED job
           ELSE \E count \in IF counts = {} THEN {MaxCount + 1} ELSE counts :
                    Begin([event EXCEPT !.count = count], "capture")
        /\ overtaken' = IF active \notin {0, event.turn} THEN overtaken \cup {event.turn}
                        ELSE overtaken

(* captureCheckpointFromTurnCompletion: a placeholder keeps its count.     *)
TakeCompleted ==
    LET event == Head(runtime)
        counts == {c.count : c \in Of(event.turn)}
    IN  /\ TakeRuntime("completed")
        /\ IF active \notin {0, event.turn} \/ Real(event.turn) # {}
           THEN UNCHANGED job
           ELSE \E count \in IF counts = {} THEN {MaxCount + 1} ELSE counts :
                    Begin([event EXCEPT !.count = count], "capture")
        /\ overtaken' = IF active \notin {0, event.turn} THEN overtaken \cup {event.turn}
                        ELSE overtaken

(* captureCheckpointFromPlaceholder.                                       *)
TakePlaceholder ==
    LET event == Head(domain)
    IN  /\ TakeDomain("placeholder")
        /\ IF Real(event.turn) # {} THEN UNCHANGED job
           ELSE Begin([event EXCEPT !.status = "ready"], "capture")

Fails == failures < MaxFailures /\ failures' = failures + 1

(* captureCheckpoint of the store.                                         *)
Capture ==
    /\ job.at = "capture"
    /\ refs' = refs \cup {job.event.count}
    /\ IF job.event.type = "baseline"
       THEN job' = Resting ELSE job' = [job EXCEPT !.at = "dispatch"]
    /\ UNCHANGED <<provider, ingestion, ingest, runtime, domain, model, history,
                   reverts, failures>>

(* A failure is logged, or becomes an activity of the thread.              *)
CaptureFails ==
    /\ job.at \in {"capture", "dispatch"}
    /\ Fails
    /\ job' = Resting
    /\ failed' = IF job.event.type = "baseline" THEN failed ELSE failed \cup {job.event.turn}
    /\ aborted' = (aborted \/ job.at = "dispatch")
    /\ UNCHANGED <<provider, ingestion, ingest, runtime, domain, refs, model, overtaken,
                   diverged, dropped, misaligned, reverts>>

DispatchCapture ==
    LET event == job.event
    IN  /\ job.at = "dispatch"
        /\ job' = Resting
        /\ CompleteTurnDiff(Checkpoint(event.turn, event.count, event.status, TRUE))
        /\ UNCHANGED <<provider, ingestion, ingest, runtime, refs, active, failed,
                       overtaken, aborted, misaligned, reverts, failures>>

(* Mutant: the target's ref is deleted too.                                *)
StaleRefsFrom(count) == {c.count : c \in {d \in checkpoints : d.captured /\ d.count >= count}}

(* staleCheckpointRefs.                                                    *)
StaleRefs(count) == {c.count : c \in {d \in checkpoints : d.captured /\ d.count > count}}

(* handleRevertRequested.  The refs to delete and the number of turns to   *)
(* roll back are decided now; a placeholder has no ref to restore.  The    *)
(* basis is the last turn started, if the counts fit the conversation.     *)
TakeRevert ==
    LET event == Head(domain)
    IN  /\ TakeDomain("revert")
        /\ \/ /\ event.count = 0 \/ \E c \in checkpoints : c.count = event.count /\ c.captured
              /\ event.count <= MaxCount
              /\ job' = [event |-> event, at |-> "restore",
                         stale |-> StaleRefs(event.count),
                         drop |-> MaxCount - event.count,
                         basis |-> IF Aligned THEN started ELSE Absent]
           \/ /\ \/ event.count > MaxCount
                 \/ event.count # 0 /\ \E c \in {d \in checkpoints : d.count = event.count} :
                                            ~c.captured
                 \/ event.count # 0 /\ \A c \in checkpoints : c.count # event.count
              /\ UNCHANGED job

RevertStep(at) ==
    /\ job.at = at
    /\ UNCHANGED <<requested, started, current, ingestion, ingest, runtime, active, failed,
                   overtaken, reverts>>

(* restoreCheckpoint; before the first turn HEAD will do.                  *)
Restore ==
    /\ RevertStep("restore")
    /\ job' = IF job.event.count \in {0} \cup refs THEN [job EXCEPT !.at = "rollback"]
              ELSE Resting
    /\ UNCHANGED <<conversation, domain, refs, checkpoints, rows, diverged, dropped, aborted,
                   misaligned, failures>>

LastOf(n, k) == IF n > k THEN n - k ELSE 0

(* Mutant: one turn too few is rolled back.                                *)
RollBackLess ==
    /\ RevertStep("rollback")
    /\ conversation' = SubSeq(conversation, 1, LastOf(Len(conversation), LastOf(job.drop, 1)))
    /\ job' = [job EXCEPT !.at = "delete"]
    /\ UNCHANGED <<domain, refs, checkpoints, rows, diverged, dropped, aborted, misaligned,
                   failures>>

RollBack ==
    /\ RevertStep("rollback")
    /\ conversation' = SubSeq(conversation, 1, LastOf(Len(conversation), job.drop))
    /\ job' = [job EXCEPT !.at = "delete"]
    /\ UNCHANGED <<domain, refs, checkpoints, rows, diverged, dropped, aborted, misaligned,
                   failures>>

DeleteRefs ==
    /\ RevertStep("delete")
    /\ refs' = refs \ job.stale
    /\ job' = [job EXCEPT !.at = "complete"]
    /\ UNCHANGED <<conversation, domain, checkpoints, rows, diverged, dropped, aborted,
                   misaligned, failures>>

(* Mutant: turns without a count stay in the table.                        *)
CompleteRevertKeepingRows ==
    /\ RevertStep("complete")
    /\ misaligned' = (misaligned \/ job.basis # started)
    /\ Keep({c \in checkpoints : c.count <= job.event.count}, {})
    /\ job' = Resting
    /\ UNCHANGED <<conversation, domain, refs, rows, diverged, aborted, failures>>

(* thread.revert.complete; the limit applies here too.                     *)
CompleteRevert ==
    /\ RevertStep("complete")
    /\ misaligned' = (misaligned \/ job.basis # started)
    /\ Keep({c \in checkpoints : c.count <= job.event.count}, {})
    /\ rows' = [t \in Turns |-> IF rows[t].count <= job.event.count THEN rows[t] ELSE NoRow]
    /\ job' = Resting
    /\ UNCHANGED <<conversation, domain, refs, diverged, aborted, failures>>

(* A step of the revert fails: what was done before it stays done.         *)
RevertFails ==
    /\ \E at \in {"restore", "rollback", "delete", "complete"} : RevertStep(at)
    /\ Fails
    /\ aborted' = (aborted \/ job.at # "restore")
    /\ job' = Resting
    /\ UNCHANGED <<conversation, domain, refs, checkpoints, rows, diverged, dropped, misaligned>>

Ingestion == IngestStarted \/ IngestCompleted \/ IngestDiff \/ DispatchPlaceholder

Reactor ==
    \/ TakeStarted \/ TakeTurnStart \/ TakeCompleted \/ TakePlaceholder \/ TakeRevert
    \/ Capture \/ CaptureFails \/ DispatchCapture
    \/ Restore \/ RollBack \/ DeleteRefs \/ CompleteRevert \/ RevertFails

Next ==
    \/ RequestTurn \/ RequestRevert
    \/ StartTurn \/ UpdateDiff \/ CompleteTurn
    \/ Ingestion \/ Reactor

(* The two workers are forked fibers that never stop; users and provider   *)
(* may.                                                                    *)
Spec == Init /\ [][Next]_vars /\ WF_vars(Ingestion) /\ WF_vars(Reactor)
=============================================================================
