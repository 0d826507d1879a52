------------------- MODULE OrchestrationEngineProperties --------------------
(***************************************************************************)
(* What must be true of the orchestration engine.                          *)
(***************************************************************************)
EXTENDS OrchestrationEngine

Event == [sequence : Nat, type : EventTypes, command : Commands]

Receipt == [status : {"none", "accepted", "rejected"}, resultSequence : Nat]

Table == [rows : Seq(Event), lastAppliedSequence : Nat]

CallerState ==
    [status : {"idle", "waiting", "ok", "failed", "rejected", "previouslyRejected"},
     command : Commands \cup {NoCommand}, sequence : Nat]

StartUpSteps == {"bootstrap", "replay"}

WorkerSteps ==
    {"idle", "lookup", "append", "project", "commit", "install", "publish", "reconcile",
     "republish"}

(* The state has the shape the code's declarations give it.                *)
TypeOK ==
    /\ log \in Seq(Event)
    /\ receipts \in [Commands -> Receipt]
    /\ tables \in [Projectors -> Table]
    /\ files \subseteq Threads
    /\ installed \subseteq Projectors
    /\ readModel \in Seq(Event)
    /\ commandQueue \in Seq([command : Commands, caller : Callers])
    /\ callers \in [Callers -> CallerState]
    /\ pc \in StartUpSteps \cup WorkerSteps
    /\ envelope \in [command : Commands, caller : Callers] \cup {NoEnvelope}
    /\ batch \in Seq(Event)
    /\ step \in 0..Len(ProjectorOrder) + Len(batch)
    /\ working \in [Projectors -> Table]
    /\ failure \in {"none", "storage", "invariant"}
    /\ remaining \in 0..ReadLimit
    /\ reconcileFailed \in BOOLEAN
    /\ bootSequence \in Nat
    /\ published \in Seq(Event)
    /\ crashes \in 0..MaxCrashes

-----------------------------------------------------------------------------

(* The engine's state as the command log sees it.                          *)
Verdict ==
    [c \in Commands |-> IF receipts[c].status = "none" THEN "undecided" ELSE receipts[c].status]

Acknowledged ==
    {c \in Commands : \E k \in Callers : callers[k].status = "ok" /\ callers[k].command = c}

CL == INSTANCE CommandLog WITH
        history <- log, verdict <- Verdict, acknowledged <- Acknowledged

(* With a store inside the transaction every behaviour of the engine,      *)
(* crashes, failed transactions and repeated dispatches included, is a     *)
(* behaviour of the command log (processEnvelope, 63-195).                 *)
ImplementsCommandLog == CL!LogSpec

(* How far the subscribers have got in the log; what is there when the     *)
(* process starts is passed over.                                          *)
Announced == IF pc \in StartUpSteps THEN Len(log) ELSE bootSequence + Len(published)

EF == INSTANCE EventFeed WITH committed <- Len(log), announced <- Announced

(* What the web socket server relies on: with a store inside the           *)
(* transaction the log grows by whole commands, and each event is          *)
(* announced once, in order, after its commit, through failed transactions *)
(* and restarts (processEnvelope, 110-160).                                *)
ImplementsEventFeed == EF!FeedSpec

(* Receipts and log tell the same story: each event in the log belongs to  *)
(* an accepted command, and an accepted command's events are in the log    *)
(* once, together, complete, and end at the receipt's resultSequence, the  *)
(* value a repeated dispatch is answered with (85-103, 131-139).           *)
ReceiptsAgreeWithLog ==
    /\ \A i \in DOMAIN log :
          log[i].sequence = i /\ receipts[log[i].command].status = "accepted"
    /\ \A c \in Commands : receipts[c].status = "accepted" =>
          LET last == receipts[c].resultSequence
              before == last - Len(EventTypesOf(c))
          IN  /\ before >= 0 /\ last <= Len(log)
              /\ \A j \in DOMAIN EventTypesOf(c) :
                    log[before + j].type = EventTypesOf(c)[j] /\ log[before + j].command = c
              /\ \A i \in DOMAIN log : log[i].command = c => i \in before + 1..last

(* Whenever the worker is between envelopes the in-memory read model is    *)
(* the fold of the whole log, also after a failed transaction; with a      *)
(* store outside the transaction this is what the reconciliation is for,   *)
(* unless a reconciliation failed (65-82, 156).                            *)
ReadModelIsCurrent ==
    pc = "idle" /\ (StoreInTransaction \/ ~reconcileFailed) => readModel = log

(* Every installed projector's table holds exactly the log and its cursor  *)
(* is the last sequence whenever the engine serves, whatever died or was   *)
(* rolled back before (runProjectorForEvent, bootstrap).                   *)
ProjectionsAreCurrent ==
    pc \notin StartUpSteps =>
        \A p \in installed :
            tables[p] = [rows |-> log, lastAppliedSequence |-> Len(log)]

(* Subscribers see committed events only, each once, in log order and      *)
(* without gaps since the process started, and the worker never goes back  *)
(* to the queue with an event unpublished; with a store outside the        *)
(* transaction, as long as no reconciliation failed (157-159, 79-81).      *)
FeedFollowsLog ==
    StoreInTransaction \/ ~reconcileFailed =>
        /\ bootSequence + Len(published) <= Len(log)
        /\ published = SubSeq(log, bootSequence + 1, bootSequence + Len(published))
        /\ pc = "idle" => bootSequence + Len(published) = Len(log)

(* A reconciliation leaves nothing out: what a failed transaction left in  *)
(* the store is in the read model and was published (65-82).               *)
ReconciliationIsComplete == ReadModelIsCurrent /\ FeedFollowsLog

(* A caller that is told its command succeeded can rely on it: the receipt *)
(* says so with the same sequence, and the read model and the event feed   *)
(* already contain it (156-160, 89-92).                                    *)
SuccessIsVisible ==
    \A k \in Callers : callers[k].status = "ok" =>
        /\ receipts[callers[k].command] =
              [status |-> "accepted", resultSequence |-> callers[k].sequence]
        /\ SnapshotSequence(readModel) >= callers[k].sequence
        /\ bootSequence + Len(published) >= callers[k].sequence

(* No step rewrites an event or a receipt once it is in the database.      *)
HistoryIsNeverRewritten ==
    [][/\ IsPrefix(log, log')
       /\ \A c \in Commands : receipts[c].status # "none" => receipts'[c] = receipts[c]]_vars

(* Every dispatch is answered, unless the process dies first.              *)
EveryDispatchIsAnswered ==
    \A k \in Callers : callers[k].status = "waiting" ~> callers[k].status # "waiting"

(* ProjectionPipeline.test.ts:1194-1200 asserts that after bootstrap every *)
(* projector's cursor is MAX(sequence) of the log.                         *)
BootstrapReachesEndOfLog ==
    pc = "idle" => \A p \in installed : tables[p].lastAppliedSequence = Len(log)

(* A thread that has a user message and was never deleted still has its    *)
(* attachment files when nothing is in progress.                           *)
AttachmentsOfLiveThreadsExist ==
    pc = "idle" =>
        \A i \in DOMAIN log :
            LET t == log[i].command.threadId
            IN  /\ log[i].type = "thread.turn-start-requested"
                /\ ~\E j \in DOMAIN log :
                      log[j].type = "thread.deleted" /\ log[j].command.threadId = t
                => t \in files
=============================================================================
