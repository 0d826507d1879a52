---------------------- MODULE OrchestrationEngineProofs ----------------------
(***************************************************************************)
(* Proofs about the orchestration engine, for every set of commands and    *)
(* callers, every order of projectors, every read limit and any number of  *)
(* crashes: type correctness, for both kinds of event store; safety, for   *)
(* the store that takes part in the SQL transaction; that the engine with  *)
(* that store implements the command log and the event feed, and that its  *)
(* tables follow the log; and that the reconciliation leaves nothing out,  *)
(* for both kinds.                                                         *)
(***************************************************************************)
EXTENDS OrchestrationEngineInvariants, SequenceTheorems, TLAPS

-----------------------------------------------------------------------------
(* Type correctness.                                                       *)

(* Every command has one or two events.                                    *)
LEMMA EventTypesOfType ==
    ASSUME NEW c \in Commands
    PROVE  /\ EventTypesOf(c) \in Seq(EventTypes)
           /\ Len(EventTypesOf(c)) \in 1..2
<1>1. c.type \in CommandTypes
  BY CommandsAssumption DEF CommandRecords
<1>2. CASE c.type \in {"project.create", "thread.create", "thread.turn.start"}
  <2>1. {"project.created", "thread.created", "thread.message-sent",
         "thread.turn-start-requested"} \subseteq EventTypes
    BY DEF EventTypes
  <2>2. CASE c.type = "project.create"
    BY <2>1, <2>2 DEF EventTypesOf, ThreadCommandEvent
  <2>3. CASE c.type = "thread.create"
    BY <2>1, <2>3 DEF EventTypesOf, ThreadCommandEvent
  <2>4. CASE c.type = "thread.turn.start"
    BY <2>1, <2>4 DEF EventTypesOf, ThreadCommandEvent
  <2>5. QED
    BY <1>2, <2>2, <2>3, <2>4
<1>3. CASE c.type \in DOMAIN ThreadCommandEvent
  <2>1. ThreadCommandEvent[c.type] \in EventTypes
    BY <1>3 DEF EventTypes, Range
  <2>2. EventTypesOf(c) = <<ThreadCommandEvent[c.type]>>
    BY <1>3 DEF EventTypesOf, ThreadCommandEvent
  <2>3. QED
    BY <2>1, <2>2
<1>4. CASE c.type \in DOMAIN ProjectCommandEvent
  <2>1. ProjectCommandEvent[c.type] \in EventTypes
    BY <1>4 DEF EventTypes, Range
  <2>2. EventTypesOf(c) = <<ProjectCommandEvent[c.type]>>
    BY <1>4 DEF EventTypesOf, ThreadCommandEvent, ProjectCommandEvent
  <2>3. QED
    BY <2>1, <2>2
<1>5. QED
  BY <1>1, <1>2, <1>3, <1>4 DEF CommandTypes

LEMMA ProjectorCount == Len(ProjectorOrder) \in Nat \ {0}
BY EngineAssumption, EmptySeq

(* A projector applied to a well-typed table and event gives a table.      *)
LEMMA ApplyEventType ==
    ASSUME NEW table \in Table, NEW event \in Event
    PROVE  ApplyEvent(table, event) \in Table
BY DEF Table, Event, ApplyEvent

(* The events read after a cursor are events of the log.                   *)
LEMMA EventsAfterType ==
    ASSUME log \in Seq(Event), NEW cursor \in Nat, NEW limit \in Nat
    PROVE  EventsAfter(cursor, limit) \in Seq(Event)
<1> DEFINE last == IF cursor + limit < Len(log) THEN cursor + limit ELSE Len(log)
<1>1. last \in Int /\ \A i \in cursor + 1 .. last : log[i] \in Event
  BY ElementOfSeq
<1>2. QED
  BY <1>1, SubSeqProperties DEF EventsAfter

LEMMA LastType ==
    ASSUME NEW s \in Seq(Event), s # <<>>
    PROVE  Last(s) \in Event
BY DEF Last

LEMMA SnapshotSequenceType ==
    ASSUME NEW model \in Seq(Event)
    PROVE  SnapshotSequence(model) \in Nat
BY LastType DEF SnapshotSequence, Event

LEMMA FilesAfterType ==
    ASSUME files \subseteq Threads, NEW p, NEW event
    PROVE  FilesAfter(p, event) \subseteq Threads
BY DEF FilesAfter

(* The caller whose command is processed gets an answer of the right type. *)
LEMMA AnswerType ==
    ASSUME callers \in [Callers -> CallerState],
           envelope \in [command : Commands, caller : Callers],
           NEW status \in {"ok", "failed", "rejected", "previouslyRejected"},
           NEW sequence \in Nat,
           Answer(status, sequence)
    PROVE  callers' \in [Callers -> CallerState]
BY DEF Answer, CallerState

-----------------------------------------------------------------------------
(* Type correctness.                                                       *)

LEMMA InitTypeInv == Init => TypeInv
<1> SUFFICES ASSUME Init PROVE TypeInv
  OBVIOUS
<1>1. tables \in [Projectors -> Table]
  BY DEF Init, EmptyTable, Table
<1>2. receipts \in [Commands -> Receipt]
  BY DEF Init, NoReceipt, Receipt
<1>3. TypeOK
  <2>1. log \in Seq(Event) /\ readModel \in Seq(Event) /\ batch \in Seq(Event) /\ published \in Seq(Event)
     BY DEF Init
  <2>2. files \subseteq Threads /\ installed \subseteq Projectors /\ reconcileFailed \in BOOLEAN /\ bootSequence \in Nat
     BY EngineAssumption DEF Init
  <2>3. crashes \in 0..MaxCrashes /\ remaining \in 0..ReadLimit  /\ failure \in {"none", "storage", "invariant"} /\ step \in 0..Len(ProjectorOrder) + Len(batch)
     BY EngineAssumption DEF Init
  <2>4. callers \in [Callers ->
            [status : {"idle", "waiting", "ok", "failed", "rejected", "previouslyRejected"},
             command : Commands \cup {NoCommand}, sequence : Nat]]
     BY DEF Init, Idle
  <2>5. commandQueue \in Seq([command : Commands, caller : Callers])
     BY DEF Init
  <2>6. pc \in StartUpSteps \cup WorkerSteps  /\ envelope \in [command : Commands, caller : Callers] \cup {NoEnvelope}
    BY DEF Init, StartUpSteps
  <2>7. working \in [Projectors -> Table]
    BY <1>1 DEF Init
  <2>8. QED
    BY <1>1, <1>2, <2>1, <2>2, <2>3, <2>4, <2>5, <2>6, <2>7 DEF TypeOK, CallerState
<1>4. ControlOK
  BY EngineAssumption DEF Init, ControlOK, WorkerSteps
<1>5. QED
  BY <1>3, <1>4 DEF TypeInv
LEMMA NextTypeInv == TypeInv /\ [Next]_vars => TypeInv'
<1> SUFFICES ASSUME TypeInv, [Next]_vars PROVE TypeInv'
  OBVIOUS
<1> USE DEF TypeInv, database, version, dispatches, progress, feed
<1>1. CASE BootstrapEvent
  <2>1. TypeOK'
    <3>1. tables' \in [Projectors -> Table]
      <4> DEFINE p == ProjectorOrder[step]
                 cursor == tables[p].lastAppliedSequence
      <4>1. p \in Projectors
        BY <1>1 DEF ControlOK, BootstrapEvent, Projectors
      <4>2. tables[p] \in Table /\ cursor \in Nat
        BY <4>1 DEF TypeOK, Table
      <4>3. log[cursor + 1] \in Event
        BY <1>1, <4>2, ElementOfSeq DEF TypeOK, BootstrapEvent
      <4>4. ApplyEvent(tables[p], log[cursor + 1]) \in Table
        BY <4>2, <4>3, ApplyEventType
      <4>5. QED
        BY <1>1, <4>1, <4>4 DEF TypeOK, BootstrapEvent
    <3>2. files' \subseteq Threads
      BY <1>1, FilesAfterType DEF TypeOK, BootstrapEvent
    <3>3. remaining' \in 0..ReadLimit
      BY <1>1, EngineAssumption DEF TypeOK, BootstrapEvent
    <3>4. QED
      BY <1>1, <3>1, <3>2, <3>3
      DEF TypeOK, ControlOK, BootstrapEvent, StartUpSteps, WorkerSteps
  <2>2. ControlOK'
    BY <1>1 DEF TypeOK, ControlOK, BootstrapEvent, WorkerSteps
  <2>3. QED
    BY <2>1, <2>2
<1>2. CASE BootstrapNextProjector
  <2>1. TypeOK'
    <3>0. Len(batch) \in Nat
      BY DEF TypeOK
    <3>1. step' \in 0..Len(ProjectorOrder) /\ (pc' = "bootstrap" => step' \in DOMAIN ProjectorOrder)
      BY <1>2, ProjectorCount DEF ControlOK, BootstrapNextProjector
    <3>2. step' \in 0..Len(ProjectorOrder) + Len(batch)
      BY <3>0, <3>1, ProjectorCount
    <3>3. remaining' \in 0..ReadLimit
      BY <1>2, EngineAssumption DEF BootstrapNextProjector
    <3>4. QED
      BY <1>2, <3>2, <3>3
      DEF TypeOK, ControlOK, BootstrapNextProjector, StartUpSteps, WorkerSteps
  <2>2. ControlOK'
    BY <1>2 DEF TypeOK, ControlOK, BootstrapNextProjector, WorkerSteps
  <2>3. QED
    BY <2>1, <2>2
<1>3. CASE ReplayLog
  <2>1. TypeOK'
    BY <1>3
    DEF TypeOK, ControlOK, ReplayLog, EnvelopeDone, StartUpSteps, WorkerSteps
  <2>2. ControlOK'
    BY <1>3 DEF TypeOK, ControlOK, ReplayLog, EnvelopeDone, WorkerSteps
  <2>3. QED
    BY <2>1, <2>2
<1>4. ASSUME NEW k \in Callers, NEW c \in Commands, Dispatch(k, c)
      PROVE  TypeInv'
  <2>1. TypeOK'
    <3>1. commandQueue' \in Seq([command : Commands, caller : Callers])
      BY <1>4, AppendProperties DEF TypeOK, Dispatch
    <3>2. callers' \in [Callers -> CallerState]
      BY <1>4 DEF TypeOK, Dispatch, CallerState
    <3>3. files' \subseteq Threads
      BY <1>4, CommandsAssumption DEF TypeOK, Dispatch, CommandRecords
    <3>4. QED
      BY <1>4, <3>1, <3>2, <3>3 DEF TypeOK, Dispatch
  <2>2. ControlOK'
    BY <1>4 DEF TypeOK, ControlOK, Dispatch
  <2>3. QED
    BY <2>1, <2>2
<1>5. CASE Take
  <2>1. TypeOK'
    <3>1. Head(commandQueue) \in [command : Commands, caller : Callers]
           /\ Tail(commandQueue) \in Seq([command : Commands, caller : Callers])
      BY <1>5, HeadTailProperties DEF TypeOK, Take
    <3>2. QED
      BY <1>5, <3>1
      DEF TypeOK, ControlOK, Take, StartUpSteps, WorkerSteps
  <2>2. ControlOK'
    <3>1. Head(commandQueue) \in [command : Commands, caller : Callers]
      BY <1>5, HeadTailProperties DEF TypeOK, Take
    <3>2. QED
      BY <1>5, <3>1 DEF TypeOK, ControlOK, Take, WorkerSteps
  <2>3. QED
    BY <2>1, <2>2
<1>6. CASE AnswerFromReceipt
  <2>1. TypeOK'
    <3>1. callers' \in [Callers -> CallerState]
      <4>1. receipts[envelope.command].resultSequence \in Nat
        BY <1>6 DEF TypeOK, ControlOK, AnswerFromReceipt, Receipt, WorkerSteps
      <4>2. QED
        BY <1>6, <4>1, AnswerType DEF TypeOK, ControlOK, AnswerFromReceipt, WorkerSteps
    <3>2. QED
      BY <1>6, <3>1
      DEF TypeOK, ControlOK, AnswerFromReceipt, EnvelopeDone, StartUpSteps, WorkerSteps
  <2>2. ControlOK'
    BY <1>6 DEF TypeOK, ControlOK, AnswerFromReceipt, EnvelopeDone, WorkerSteps
  <2>3. QED
    BY <2>1, <2>2
<1>7. CASE LookupFails
  <2>1. TypeOK'
    BY <1>7
    DEF TypeOK, ControlOK, LookupFails, Fail, StartUpSteps, WorkerSteps
  <2>2. ControlOK'
    BY <1>7 DEF TypeOK, ControlOK, LookupFails, Fail, WorkerSteps
  <2>3. QED
    BY <2>1, <2>2
<1>8. CASE Decide
  <2>1. TypeOK'
    BY <1>8
    DEF TypeOK, ControlOK, Decide, Fail, StartUpSteps, WorkerSteps
  <2>2. ControlOK'
    <3>1. Len(EventTypesOf(envelope.command)) \in 1..2
      BY <1>8, EventTypesOfType DEF ControlOK, Decide, WorkerSteps
    <3>2. CASE Accepts(readModel, envelope.command)
      <4>1. pc' = "append" /\ batch' = <<>> /\ step' = 0 /\ UNCHANGED envelope
        BY <1>8, <3>2 DEF Decide
      <4>2. Len(batch') < Len(EventTypesOf(envelope.command))
        BY SMTT(30), <3>1, <4>1
      <4>3. envelope \in [command : Commands, caller : Callers]
        BY <1>8 DEF ControlOK, Decide, WorkerSteps
      <4>4. QED
        BY <4>1, <4>2, <4>3 DEF ControlOK
    <3>3. CASE ~Accepts(readModel, envelope.command)
      BY <1>8, <3>3 DEF TypeOK, ControlOK, Decide, Fail, WorkerSteps
    <3>4. QED
      BY <3>2, <3>3
  <2>3. QED
    BY <2>1, <2>2
<1>9. CASE AppendEvent
  <2>1. TypeOK'
    <3>1. NextSequence \in Nat
      BY DEF TypeOK, NextSequence
    <3>2. EventTypesOf(envelope.command)[Len(batch) + 1] \in EventTypes
      BY <1>9, EventTypesOfType, ElementOfSeq DEF TypeOK, ControlOK, AppendEvent, WorkerSteps
    <3>3. [sequence |-> NextSequence, type |-> EventTypesOf(envelope.command)[Len(batch) + 1],
           command |-> envelope.command] \in Event
      BY <1>9, <3>1, <3>2 DEF ControlOK, Event, AppendEvent, WorkerSteps
    <3>4. batch' \in Seq(Event) /\ log' \in Seq(Event) /\ Len(batch') = Len(batch) + 1
      BY <1>9, <3>3, AppendProperties DEF TypeOK, AppendEvent
    <3>5. step' \in 0..Len(ProjectorOrder) + Len(batch')
      BY <1>9, <3>4, EngineAssumption DEF TypeOK, AppendEvent
    <3>6. QED
      BY <1>9, <3>4, <3>5 DEF TypeOK, AppendEvent, WorkerSteps
  <2>2. ControlOK'
    <3>1. batch' # <<>> /\ Len(batch') = Len(batch) + 1
      <4>1. Len(batch') = Len(batch) + 1 /\ Len(batch) \in Nat
        BY <1>9, AppendProperties DEF TypeOK, AppendEvent
      <4>2. QED
        BY <4>1
    <3>2. 1 \in DOMAIN ProjectorOrder
      BY EngineAssumption
    <3>3. Len(EventTypesOf(envelope.command)) \in Nat
      BY <1>9, EventTypesOfType DEF ControlOK, AppendEvent, WorkerSteps
    <3>4. QED
      BY <1>9, <3>1, <3>2, <3>3 DEF TypeOK, ControlOK, AppendEvent, WorkerSteps
  <2>3. QED
    BY <2>1, <2>2
<1>10. CASE ProjectEvent
  <2>1. TypeOK'
    <3>1. working' \in [Projectors -> Table]
      BY <1>10, LastType, ApplyEventType DEF TypeOK, ControlOK, ProjectEvent
    <3>2. files' \subseteq Threads
      BY <1>10, FilesAfterType DEF TypeOK, ProjectEvent
    <3>3. QED
      BY SMTT(30), <1>10, <3>1, <3>2
      DEF TypeOK, ControlOK, ProjectEvent, StartUpSteps, WorkerSteps
  <2>2. ControlOK'
    BY <1>10 DEF TypeOK, ControlOK, ProjectEvent, WorkerSteps
  <2>3. QED
    BY <2>1, <2>2
<1>11. CASE Commit
  <2>1. TypeOK'
    <3>1. log' \in Seq(Event)
      BY <1>11, ConcatProperties DEF TypeOK, Commit
    <3>2. receipts' \in [Commands -> Receipt]
      <4>1. batch # <<>>
        <5>1. envelope.command \in Commands /\ Len(batch) = Len(EventTypesOf(envelope.command))
          BY <1>11 DEF ControlOK, Commit, WorkerSteps
        <5>2. Len(EventTypesOf(envelope.command)) \in 1..2
          BY <5>1, EventTypesOfType
        <5>3. QED
          BY <5>1, <5>2
      <4>2. Last(batch).sequence \in Nat
        BY <4>1, LastType DEF TypeOK, Event
      <4>3. QED
        BY <1>11, <4>2 DEF TypeOK, ControlOK, Commit, Receipt, WorkerSteps
    <3>3. QED
      BY <1>11, <3>1, <3>2
      DEF TypeOK, ControlOK, Commit, StartUpSteps, WorkerSteps
  <2>2. ControlOK'
    BY <1>11 DEF TypeOK, ControlOK, Commit, WorkerSteps
  <2>3. QED
    BY <2>1, <2>2
<1>12. CASE TransactionFails
  <2>1. TypeOK'
    BY <1>12
    DEF TypeOK, ControlOK, TransactionFails, Fail, StartUpSteps, WorkerSteps
  <2>2. ControlOK'
    BY <1>12 DEF TypeOK, ControlOK, TransactionFails, Fail, WorkerSteps
  <2>3. QED
    BY <2>1, <2>2
<1>13. CASE InstallReadModel
  <2>1. TypeOK'
    <3>1. readModel' \in Seq(Event)
      BY <1>13, ConcatProperties DEF TypeOK, InstallReadModel
    <3>2. QED
      BY <1>13, <3>1
      DEF TypeOK, ControlOK, InstallReadModel, StartUpSteps, WorkerSteps
  <2>2. ControlOK'
    BY <1>13 DEF TypeOK, ControlOK, InstallReadModel, WorkerSteps
  <2>3. QED
    BY <2>1, <2>2
<1>14. CASE Publish
  <2>1. TypeOK'
    <3>1. published' \in Seq(Event)
      BY <1>14, ElementOfSeq, AppendProperties DEF TypeOK, ControlOK, Publish
    <3>2. QED
      BY <1>14, <3>1
      DEF TypeOK, ControlOK, Publish, StartUpSteps, WorkerSteps
  <2>2. ControlOK'
    BY <1>14 DEF TypeOK, ControlOK, Publish, WorkerSteps
  <2>3. QED
    BY <2>1, <2>2
<1>15. CASE Resolve
  <2>1. TypeOK'
    <3>1. callers' \in [Callers -> CallerState]
      <4>1. batch # <<>>
        <5>1. envelope.command \in Commands /\ Len(batch) = Len(EventTypesOf(envelope.command))
          BY <1>15 DEF ControlOK, Resolve, WorkerSteps
        <5>2. Len(EventTypesOf(envelope.command)) \in 1..2
          BY <5>1, EventTypesOfType
        <5>3. QED
          BY <5>1, <5>2
      <4>2. Last(batch).sequence \in Nat
        BY <4>1, LastType DEF TypeOK, Event
      <4>3. QED
        BY <1>15, <4>2, AnswerType DEF TypeOK, ControlOK, Resolve, WorkerSteps
    <3>2. QED
      BY <1>15, <3>1
      DEF TypeOK, ControlOK, Resolve, EnvelopeDone, StartUpSteps, WorkerSteps
  <2>2. ControlOK'
    BY <1>15 DEF TypeOK, ControlOK, Resolve, EnvelopeDone, WorkerSteps
  <2>3. QED
    BY <2>1, <2>2
<1>16. CASE Reconcile
  <2>1. TypeOK'
    <3>1. EventsAfter(SnapshotSequence(readModel), ReadLimit) \in Seq(Event)
      BY <1>16, EventsAfterType, SnapshotSequenceType, EngineAssumption DEF TypeOK
    <3>2. readModel' \in Seq(Event) /\ batch' \in Seq(Event)
      BY <1>16, <3>1, ConcatProperties DEF TypeOK, Reconcile
    <3>3. QED
      BY <1>16, <3>1, <3>2
      DEF TypeOK, ControlOK, Reconcile, StartUpSteps, WorkerSteps
  <2>2. ControlOK'
    BY <1>16 DEF TypeOK, ControlOK, Reconcile, WorkerSteps
  <2>3. QED
    BY <2>1, <2>2
<1>17. CASE ReconcileFails
  <2>1. TypeOK'
    BY <1>17
    DEF TypeOK, ControlOK, ReconcileFails, StartUpSteps, WorkerSteps
  <2>2. ControlOK'
    BY <1>17 DEF TypeOK, ControlOK, ReconcileFails, WorkerSteps
  <2>3. QED
    BY <2>1, <2>2
<1>18. CASE RejectCommand
  <2>1. TypeOK'
    <3>1. callers' \in [Callers -> CallerState]
      BY <1>18, AnswerType DEF TypeOK, ControlOK, RejectCommand, WorkerSteps
    <3>2. receipts' \in [Commands -> Receipt]
      <4>1. SnapshotSequence(readModel) \in Nat
        BY SnapshotSequenceType DEF TypeOK
      <4>2. [status |-> "rejected", resultSequence |-> SnapshotSequence(readModel)] \in Receipt
        BY <4>1 DEF Receipt
      <4>3. QED
        BY <1>18, <4>2 DEF TypeOK, RejectCommand
    <3>3. QED
      BY <1>18, <3>1, <3>2
      DEF TypeOK, ControlOK, RejectCommand, EnvelopeDone, StartUpSteps, WorkerSteps
  <2>2. ControlOK'
    BY <1>18 DEF TypeOK, ControlOK, RejectCommand, EnvelopeDone, WorkerSteps
  <2>3. QED
    BY <2>1, <2>2
<1>19. CASE Crash
  <2>1. TypeOK'
    <3>1. crashes' \in 0..MaxCrashes
      BY <1>19, EngineAssumption DEF TypeOK, Crash
    <3>2. callers' \in [Callers -> CallerState]
      BY <1>19 DEF Crash, Idle, CallerState
    <3>3. readModel' \in Seq(Event) /\ batch' \in Seq(Event) /\ published' \in Seq(Event)
            /\ commandQueue' \in Seq([command : Commands, caller : Callers])
      BY <1>19 DEF Crash
    <3>4. step' \in 0..Len(ProjectorOrder) + Len(batch')
      BY <1>19, ProjectorCount DEF Crash
    <3>5. installed' \subseteq Projectors /\ remaining' \in 0..ReadLimit
      BY <1>19, EngineAssumption DEF Crash
    <3>6. QED
      BY <1>19, <3>1, <3>2, <3>3, <3>4, <3>5 DEF TypeOK, Crash, StartUpSteps
  <2>2. ControlOK'
    BY <1>19, EngineAssumption DEF TypeOK, ControlOK, Crash, WorkerSteps
  <2>3. QED
    BY <2>1, <2>2
<1>20. CASE UNCHANGED vars
  BY <1>20 DEF TypeOK, ControlOK, vars
<1>21. QED
  BY <1>1, <1>2, <1>3, <1>4, <1>5, <1>6, <1>7, <1>8, <1>9, <1>10, <1>11, <1>12, <1>13, <1>14,
    <1>15, <1>16, <1>17, <1>18, <1>19, <1>20
  DEF Next, StartUp, ProcessEnvelope

(* Type correctness and the shape of processEnvelope's local variables.    *)
THEOREM ControlTheorem == Spec => []TypeInv
BY InitTypeInv, NextTypeInv, PTL DEF Spec

(* The state has the types the code declares, whatever the commands,       *)
(* projectors, limits and crashes.                                         *)
THEOREM TypeTheorem == Spec => []TypeOK
<1>1. TypeInv => TypeOK
  BY DEF TypeInv
<1>2. QED
  BY <1>1, ControlTheorem, PTL

-----------------------------------------------------------------------------
(* Safety.                                                                 *)

(* A model that is a part of the log from its start on ends at the         *)
(* sequence that is its length.                                            *)
LEMMA SnapshotIsLength ==
    ASSUME NEW model \in Seq(Event), \A i \in DOMAIN model : model[i].sequence = i
    PROVE  SnapshotSequence(model) = Len(model)
BY DEF SnapshotSequence, Last

(* With the store in the transaction, a reconciliation reads nothing.      *)
LEMMA ReconcileFindsNothing ==
    ASSUME TypeInv, EngineInv, pc = "reconcile"
    PROVE  EventsAfter(SnapshotSequence(readModel), ReadLimit) = <<>>
<1>1. readModel = log /\ log \in Seq(Event) /\ Len(log) \in Nat
  BY DEF TypeInv, TypeOK, EngineInv, ModelOK, WorkerSteps
<1>2. SnapshotSequence(readModel) = Len(log)
  BY <1>1, SnapshotIsLength DEF EngineInv, ReceiptOK, ReceiptsAgreeWithLog
<1>3. QED
  BY <1>1, <1>2, EngineAssumption DEF EventsAfter

LEMMA InitEngineInv == Init => EngineInv
BY DEF Init, EngineInv, BatchOK, ModelOK, FeedOK, ReceiptOK, ReceiptsAgreeWithLog, AnswersOK,
       Unpublished, NoReceipt, Idle, InTransaction, StartUpSteps, WorkerSteps

-----------------------------------------------------------------------------
(* The batch stays the command's events.                                   *)
LEMMA NextBatchOK ==
    ASSUME StoreInTransaction = TRUE, TypeInv, EngineInv, [Next]_vars
    PROVE  BatchOK'
<1> USE DEF TypeInv, database, version, dispatches, progress, feed
<1>1. CASE BootstrapEvent
  BY <1>1
  DEF TypeOK, ControlOK, EngineInv, BatchOK, ModelOK, FeedOK, BootstrapEvent, WorkerSteps,
      StartUpSteps, InTransaction
<1>2. CASE BootstrapNextProjector
  BY <1>2
  DEF TypeOK, ControlOK, EngineInv, BatchOK, ModelOK, FeedOK, BootstrapNextProjector,
      WorkerSteps, StartUpSteps, InTransaction
<1>3. CASE ReplayLog
  BY <1>3
  DEF TypeOK, ControlOK, EngineInv, BatchOK, ModelOK, FeedOK, ReplayLog, EnvelopeDone,
      WorkerSteps, StartUpSteps, InTransaction
<1>4. ASSUME NEW k \in Callers, NEW c \in Commands, Dispatch(k, c)
      PROVE  BatchOK'
  BY <1>4
  DEF TypeOK, ControlOK, EngineInv, BatchOK, ModelOK, FeedOK, Dispatch, WorkerSteps,
      StartUpSteps, InTransaction
<1>5. CASE Take
  BY <1>5
  DEF TypeOK, ControlOK, EngineInv, BatchOK, ModelOK, FeedOK, Take, WorkerSteps,
      StartUpSteps, InTransaction
<1>6. CASE AnswerFromReceipt
  BY <1>6
  DEF TypeOK, ControlOK, EngineInv, BatchOK, ModelOK, FeedOK, AnswerFromReceipt,
      EnvelopeDone, Answer, WorkerSteps, StartUpSteps, InTransaction
<1>7. CASE LookupFails
  BY <1>7
  DEF TypeOK, ControlOK, EngineInv, BatchOK, ModelOK, FeedOK, LookupFails, Fail,
      WorkerSteps, StartUpSteps, InTransaction
<1>8. CASE Decide
  BY <1>8
  DEF TypeOK, ControlOK, EngineInv, BatchOK, ModelOK, FeedOK, Decide, Fail, WorkerSteps,
      StartUpSteps, InTransaction
<1>9. CASE AppendEvent
  <2>1. /\ pc = "append" /\ pc' = "project"
        /\ UNCHANGED <<log, envelope>>
        /\ batch' = Append(batch, [sequence |-> Len(log) + Len(batch) + 1,
                                   type |-> EventTypesOf(envelope.command)[Len(batch) + 1],
                                   command |-> envelope.command])
    BY <1>9 DEF AppendEvent, NextSequence
  <2>2. DOMAIN batch' = 1..Len(batch) + 1 /\ Len(batch) \in Nat
    BY <2>1 DEF TypeInv, TypeOK
  <2>3. ASSUME NEW i \in DOMAIN batch'
        PROVE  batch'[i] = [sequence |-> Len(log) + i,
                            type |-> EventTypesOf(envelope.command)[i],
                            command |-> envelope.command]
    <3>1. CASE i <= Len(batch)
      <4>1. i \in DOMAIN batch /\ batch'[i] = batch[i]
        BY <2>1, <2>2, <3>1 DEF TypeInv, TypeOK
      <4>2. QED
        BY <2>1, <4>1 DEF EngineInv, BatchOK, InTransaction
    <3>2. CASE i = Len(batch) + 1
      BY <2>1, <2>2, <3>2 DEF TypeInv, TypeOK
    <3>3. QED
      BY <2>2, <2>3, <3>1, <3>2
  <2>4. QED
    BY <2>1, <2>3 DEF BatchOK, InTransaction
<1>10. CASE ProjectEvent
  BY <1>10
  DEF TypeOK, ControlOK, EngineInv, BatchOK, ModelOK, FeedOK, ProjectEvent, WorkerSteps,
      StartUpSteps, InTransaction
<1>11. CASE Commit
  BY <1>11
  DEF TypeOK, ControlOK, EngineInv, BatchOK, ModelOK, FeedOK, Commit, WorkerSteps,
      StartUpSteps, InTransaction
<1>12. CASE TransactionFails
  BY <1>12
  DEF TypeOK, ControlOK, EngineInv, BatchOK, ModelOK, FeedOK, TransactionFails, Fail,
      WorkerSteps, StartUpSteps, InTransaction
<1>13. CASE InstallReadModel
  BY <1>13
  DEF TypeOK, ControlOK, EngineInv, BatchOK, ModelOK, FeedOK, InstallReadModel, WorkerSteps,
      StartUpSteps, InTransaction
<1>14. CASE Publish
  BY <1>14
  DEF TypeOK, ControlOK, EngineInv, BatchOK, ModelOK, FeedOK, Publish, WorkerSteps,
      StartUpSteps, InTransaction
<1>15. CASE Resolve
  BY <1>15
  DEF TypeOK, ControlOK, EngineInv, BatchOK, ModelOK, FeedOK, Resolve, EnvelopeDone, Answer,
      WorkerSteps, StartUpSteps, InTransaction
<1>16. CASE Reconcile
  BY <1>16, ReconcileFindsNothing DEF Reconcile, BatchOK, InTransaction
<1>17. CASE ReconcileFails
  BY <1>17
  DEF TypeOK, ControlOK, EngineInv, BatchOK, ModelOK, FeedOK, ReconcileFails, WorkerSteps,
      StartUpSteps, InTransaction
<1>18. CASE RejectCommand
  BY <1>18
  DEF TypeOK, ControlOK, EngineInv, BatchOK, ModelOK, FeedOK, RejectCommand, EnvelopeDone,
      Answer, WorkerSteps, StartUpSteps, InTransaction
<1>19. CASE Crash
  BY <1>19
  DEF TypeOK, ControlOK, EngineInv, BatchOK, ModelOK, FeedOK, Crash, Idle, WorkerSteps,
      StartUpSteps, InTransaction
<1>20. CASE UNCHANGED vars
  BY <1>20 DEF EngineInv, BatchOK, vars, InTransaction, StartUpSteps, WorkerSteps
<1>21. QED
  BY <1>1, <1>2, <1>3, <1>4, <1>5, <1>6, <1>7, <1>8, <1>9, <1>10, <1>11, <1>12, <1>13, <1>14,
    <1>15, <1>16, <1>17, <1>18, <1>19, <1>20
  DEF Next, StartUp, ProcessEnvelope

(* The read model stays equal to the log between commands.                 *)
LEMMA NextModelOK ==
    ASSUME StoreInTransaction = TRUE, TypeInv, EngineInv, [Next]_vars
    PROVE  ModelOK'
<1> USE DEF TypeInv, database, version, dispatches, progress, feed
<1>1. CASE BootstrapEvent
  BY <1>1
  DEF TypeOK, ControlOK, EngineInv, BatchOK, ModelOK, FeedOK, BootstrapEvent, WorkerSteps,
      StartUpSteps, InTransaction
<1>2. CASE BootstrapNextProjector
  BY <1>2
  DEF TypeOK, ControlOK, EngineInv, BatchOK, ModelOK, FeedOK, BootstrapNextProjector,
      WorkerSteps, StartUpSteps, InTransaction
<1>3. CASE ReplayLog
  BY <1>3
  DEF TypeOK, ControlOK, EngineInv, BatchOK, ModelOK, FeedOK, ReplayLog, EnvelopeDone,
      WorkerSteps, StartUpSteps, InTransaction
<1>4. ASSUME NEW k \in Callers, NEW c \in Commands, Dispatch(k, c)
      PROVE  ModelOK'
  BY <1>4
  DEF TypeOK, ControlOK, EngineInv, BatchOK, ModelOK, FeedOK, Dispatch, WorkerSteps,
      StartUpSteps, InTransaction
<1>5. CASE Take
  BY <1>5
  DEF TypeOK, ControlOK, EngineInv, BatchOK, ModelOK, FeedOK, Take, WorkerSteps,
      StartUpSteps, InTransaction
<1>6. CASE AnswerFromReceipt
  BY <1>6
  DEF TypeOK, ControlOK, EngineInv, BatchOK, ModelOK, FeedOK, AnswerFromReceipt,
      EnvelopeDone, Answer, WorkerSteps, StartUpSteps, InTransaction
<1>7. CASE LookupFails
  BY <1>7
  DEF TypeOK, ControlOK, EngineInv, BatchOK, ModelOK, FeedOK, LookupFails, Fail,
      WorkerSteps, StartUpSteps, InTransaction
<1>8. CASE Decide
  BY <1>8
  DEF TypeOK, ControlOK, EngineInv, BatchOK, ModelOK, FeedOK, Decide, Fail, WorkerSteps,
      StartUpSteps, InTransaction
<1>9. CASE AppendEvent
  BY <1>9
  DEF TypeOK, ControlOK, EngineInv, BatchOK, ModelOK, FeedOK, AppendEvent, NextSequence,
      WorkerSteps, StartUpSteps, InTransaction
<1>10. CASE ProjectEvent
  BY <1>10
  DEF TypeOK, ControlOK, EngineInv, BatchOK, ModelOK, FeedOK, ProjectEvent, WorkerSteps,
      StartUpSteps, InTransaction
<1>11. CASE Commit
  BY <1>11
  DEF TypeOK, ControlOK, EngineInv, BatchOK, ModelOK, FeedOK, Commit, WorkerSteps,
      StartUpSteps, InTransaction
<1>12. CASE TransactionFails
  BY <1>12
  DEF TypeOK, ControlOK, EngineInv, BatchOK, ModelOK, FeedOK, TransactionFails, Fail,
      WorkerSteps, StartUpSteps, InTransaction
<1>13. CASE InstallReadModel
  BY <1>13
  DEF TypeOK, ControlOK, EngineInv, BatchOK, ModelOK, FeedOK, InstallReadModel, WorkerSteps,
      StartUpSteps, InTransaction
<1>14. CASE Publish
  BY <1>14
  DEF TypeOK, ControlOK, EngineInv, BatchOK, ModelOK, FeedOK, Publish, WorkerSteps,
      StartUpSteps, InTransaction
<1>15. CASE Resolve
  BY <1>15
  DEF TypeOK, ControlOK, EngineInv, BatchOK, ModelOK, FeedOK, Resolve, EnvelopeDone, Answer,
      WorkerSteps, StartUpSteps, InTransaction
<1>16. CASE Reconcile
  <2>1. UNCHANGED <<log, readModel>> /\ pc = "reconcile" /\ pc' = "republish"
    BY <1>16, ReconcileFindsNothing, ConcatEmptySeq DEF Reconcile, database, TypeInv, TypeOK
  <2>2. QED
    BY <2>1 DEF EngineInv, ModelOK, WorkerSteps
<1>17. CASE ReconcileFails
  BY <1>17
  DEF TypeOK, ControlOK, EngineInv, BatchOK, ModelOK, FeedOK, ReconcileFails, WorkerSteps,
      StartUpSteps, InTransaction
<1>18. CASE RejectCommand
  BY <1>18
  DEF TypeOK, ControlOK, EngineInv, BatchOK, ModelOK, FeedOK, RejectCommand, EnvelopeDone,
      Answer, WorkerSteps, StartUpSteps, InTransaction
<1>19. CASE Crash
  BY <1>19
  DEF TypeOK, ControlOK, EngineInv, BatchOK, ModelOK, FeedOK, Crash, Idle, WorkerSteps,
      StartUpSteps, InTransaction
<1>20. CASE UNCHANGED vars
  BY <1>20 DEF EngineInv, ModelOK, vars, InTransaction, StartUpSteps, WorkerSteps
<1>21. QED
  BY <1>1, <1>2, <1>3, <1>4, <1>5, <1>6, <1>7, <1>8, <1>9, <1>10, <1>11, <1>12, <1>13, <1>14,
    <1>15, <1>16, <1>17, <1>18, <1>19, <1>20
  DEF Next, StartUp, ProcessEnvelope

(* The feed stays the published part of the log.                           *)
LEMMA NextFeedOK ==
    ASSUME StoreInTransaction = TRUE, TypeInv, EngineInv, [Next]_vars
    PROVE  FeedOK'
<1> USE DEF TypeInv, database, version, dispatches, progress, feed
<1>1. CASE BootstrapEvent
  BY <1>1
  DEF TypeOK, ControlOK, EngineInv, BatchOK, ModelOK, FeedOK, Unpublished, BootstrapEvent,
      WorkerSteps, StartUpSteps, InTransaction
<1>2. CASE BootstrapNextProjector
  BY <1>2
  DEF TypeOK, ControlOK, EngineInv, BatchOK, ModelOK, FeedOK, Unpublished,
      BootstrapNextProjector, WorkerSteps, StartUpSteps, InTransaction
<1>3. CASE ReplayLog
  BY <1>3
  DEF TypeOK, ControlOK, EngineInv, BatchOK, ModelOK, FeedOK, Unpublished, ReplayLog,
      EnvelopeDone, WorkerSteps, StartUpSteps, InTransaction
<1>4. ASSUME NEW k \in Callers, NEW c \in Commands, Dispatch(k, c)
      PROVE  FeedOK'
  BY <1>4
  DEF TypeOK, ControlOK, EngineInv, BatchOK, ModelOK, FeedOK, Unpublished, Dispatch,
      WorkerSteps, StartUpSteps, InTransaction
<1>5. CASE Take
  BY <1>5
  DEF TypeOK, ControlOK, EngineInv, BatchOK, ModelOK, FeedOK, Unpublished, Take,
      WorkerSteps, StartUpSteps, InTransaction
<1>6. CASE AnswerFromReceipt
  BY <1>6
  DEF TypeOK, ControlOK, EngineInv, BatchOK, ModelOK, FeedOK, Unpublished,
      AnswerFromReceipt, EnvelopeDone, Answer, WorkerSteps, StartUpSteps, InTransaction
<1>7. CASE LookupFails
  BY <1>7
  DEF TypeOK, ControlOK, EngineInv, BatchOK, ModelOK, FeedOK, Unpublished, LookupFails,
      Fail, WorkerSteps, StartUpSteps, InTransaction
<1>8. CASE Decide
  BY <1>8
  DEF TypeOK, ControlOK, EngineInv, BatchOK, ModelOK, FeedOK, Unpublished, Decide, Fail,
      WorkerSteps, StartUpSteps, InTransaction
<1>9. CASE AppendEvent
  BY <1>9
  DEF TypeOK, ControlOK, EngineInv, BatchOK, ModelOK, FeedOK, Unpublished, AppendEvent,
      NextSequence, WorkerSteps, StartUpSteps, InTransaction
<1>10. CASE ProjectEvent
  BY <1>10
  DEF TypeOK, ControlOK, EngineInv, BatchOK, ModelOK, FeedOK, Unpublished, ProjectEvent,
      WorkerSteps, StartUpSteps, InTransaction
<1>11. CASE Commit
  <2>1. /\ pc = "commit" /\ pc' = "install"
        /\ log' = log \o batch
        /\ UNCHANGED <<feed, batch, step>>
    BY <1>11 DEF Commit, progress
  <2>2. Len(log') = Len(log) + Len(batch) /\ \A i \in DOMAIN log : log'[i] = log[i]
    BY <2>1, ConcatProperties DEF TypeInv, TypeOK
  <2>3. Unpublished = 0 /\ Unpublished' = Len(batch)
    BY <2>1 DEF Unpublished
  <2>4. bootSequence + Len(published) = Len(log)
    BY <2>1, <2>3 DEF EngineInv, FeedOK, WorkerSteps, TypeInv, TypeOK
  <2>5. ASSUME NEW i \in DOMAIN published
        PROVE  published[i] = log'[bootSequence + i]
    <3>1. bootSequence + i \in DOMAIN log
      BY <2>4 DEF TypeInv, TypeOK
    <3>2. QED
      BY <2>2, <3>1 DEF EngineInv, FeedOK
  <2>6. QED
    BY <2>1, <2>2, <2>3, <2>4, <2>5 DEF FeedOK, WorkerSteps, StartUpSteps, feed, TypeInv, TypeOK
<1>12. CASE TransactionFails
  BY <1>12
  DEF TypeOK, ControlOK, EngineInv, BatchOK, ModelOK, FeedOK, Unpublished, TransactionFails,
      Fail, WorkerSteps, StartUpSteps, InTransaction
<1>13. CASE InstallReadModel
  BY <1>13
  DEF TypeOK, ControlOK, EngineInv, BatchOK, ModelOK, FeedOK, Unpublished, InstallReadModel,
      WorkerSteps, StartUpSteps, InTransaction
<1>14. CASE Publish
  <2>1. /\ pc = "publish" /\ pc' = "publish"
        /\ step < Len(batch) /\ step' = step + 1
        /\ published' = Append(published, batch[step + 1])
        /\ UNCHANGED <<log, batch, bootSequence>>
    BY <1>14 DEF Publish, database, TypeInv, ControlOK, EngineInv, BatchOK
  <2>2. /\ batch \in Seq(Event) /\ log \in Seq(Event) /\ published \in Seq(Event)
        /\ step \in Nat /\ bootSequence \in Nat
        /\ Len(batch) \in Nat /\ Len(published) \in Nat /\ Len(log) \in Nat
    BY <2>1 DEF TypeInv, TypeOK, ControlOK
  <2>3. bootSequence + Len(published) + Len(batch) - step = Len(log)
    BY <2>1, <2>2 DEF EngineInv, FeedOK, Unpublished, WorkerSteps
  <2>4. batch[step + 1] = log[Len(log) - Len(batch) + step + 1]
    <3>1. step + 1 \in DOMAIN batch
      BY <2>1, <2>2
    <3>2. batch[step + 1] = log[Len(log) - Len(batch) + (step + 1)]
      BY <2>1, <3>1 DEF EngineInv, BatchOK
    <3>3. QED
      BY <2>2, <3>2
  <2>5. /\ DOMAIN published' = 1..Len(published) + 1
        /\ Len(published') = Len(published) + 1
        /\ \A i \in 1..Len(published) : published'[i] = published[i]
        /\ published'[Len(published) + 1] = log[bootSequence + Len(published) + 1]
    <3>1. batch[step + 1] \in Event
      BY <2>1, <2>2, ElementOfSeq
    <3>2. Len(log) - Len(batch) + step + 1 = bootSequence + Len(published) + 1
      BY <2>2, <2>3
    <3>3. published' \in Seq(Event)
      BY <2>1, <2>2, <3>1, AppendProperties
    <3>4. QED
      BY <2>1, <2>2, <2>4, <3>1, <3>2, <3>3, AppendProperties
  <2>6. \A i \in DOMAIN published' : published'[i] = log[bootSequence + i]
    <3>1. \A i \in 1..Len(published) : published[i] = log[bootSequence + i]
      BY <2>2 DEF EngineInv, FeedOK
    <3>2. \A i \in 1..Len(published) + 1 : i \in 1..Len(published) \/ i = Len(published) + 1
      BY <2>2
    <3>3. bootSequence + (Len(published) + 1) = bootSequence + Len(published) + 1
      BY <2>2
    <3>4. QED
      BY <2>5, <3>1, <3>2, <3>3
  <2>7. Unpublished' = Len(batch) - (step + 1)
    BY <2>1 DEF Unpublished
  <2>8. bootSequence + Len(published') + Unpublished' = Len(log)
    BY <2>2, <2>3, <2>5, <2>7
  <2>9. QED
    BY <2>1, <2>6, <2>8 DEF FeedOK, WorkerSteps, StartUpSteps
<1>15. CASE Resolve
  BY <1>15
  DEF TypeOK, ControlOK, EngineInv, BatchOK, ModelOK, FeedOK, Unpublished, Resolve,
      EnvelopeDone, Answer, WorkerSteps, StartUpSteps, InTransaction
<1>16. CASE Reconcile
  <2>1. /\ pc = "reconcile" /\ pc' = "republish"
        /\ step' = 0 /\ batch' = <<>>
        /\ UNCHANGED <<log, feed>>
    BY <1>16, ReconcileFindsNothing DEF Reconcile, database, feed, TypeInv, ControlOK
  <2>2. Unpublished = 0 /\ Unpublished' = 0
    BY <2>1 DEF Unpublished
  <2>3. QED
    BY <2>1, <2>2 DEF EngineInv, FeedOK, WorkerSteps, StartUpSteps, feed
<1>17. CASE ReconcileFails
  BY <1>17
  DEF TypeOK, ControlOK, EngineInv, BatchOK, ModelOK, FeedOK, Unpublished, ReconcileFails,
      WorkerSteps, StartUpSteps, InTransaction
<1>18. CASE RejectCommand
  BY <1>18
  DEF TypeOK, ControlOK, EngineInv, BatchOK, ModelOK, FeedOK, Unpublished, RejectCommand,
      EnvelopeDone, Answer, WorkerSteps, StartUpSteps, InTransaction
<1>19. CASE Crash
  BY <1>19
  DEF TypeOK, ControlOK, EngineInv, BatchOK, ModelOK, FeedOK, Unpublished, Crash, Idle,
      WorkerSteps, StartUpSteps, InTransaction
<1>20. CASE UNCHANGED vars
  BY <1>20 DEF EngineInv, FeedOK, Unpublished, Unpublished, vars, InTransaction, StartUpSteps,
    WorkerSteps
<1>21. QED
  BY <1>1, <1>2, <1>3, <1>4, <1>5, <1>6, <1>7, <1>8, <1>9, <1>10, <1>11, <1>12, <1>13, <1>14,
    <1>15, <1>16, <1>17, <1>18, <1>19, <1>20
  DEF Next, StartUp, ProcessEnvelope

(* Receipts and log keep telling the same story.                           *)
LEMMA NextReceiptOK ==
    ASSUME StoreInTransaction = TRUE, TypeInv, EngineInv, [Next]_vars
    PROVE  ReceiptOK'
<1> USE DEF TypeInv, database, version, dispatches, progress, feed
<1>1. CASE BootstrapEvent
  BY <1>1
  DEF TypeOK, ControlOK, EngineInv, BatchOK, ModelOK, FeedOK, ReceiptOK,
      ReceiptsAgreeWithLog, BootstrapEvent, WorkerSteps, StartUpSteps, InTransaction
<1>2. CASE BootstrapNextProjector
  BY <1>2
  DEF TypeOK, ControlOK, EngineInv, BatchOK, ModelOK, FeedOK, ReceiptOK,
      ReceiptsAgreeWithLog, BootstrapNextProjector, WorkerSteps, StartUpSteps, InTransaction
<1>3. CASE ReplayLog
  BY <1>3
  DEF TypeOK, ControlOK, EngineInv, BatchOK, ModelOK, FeedOK, ReceiptOK,
      ReceiptsAgreeWithLog, ReplayLog, EnvelopeDone, WorkerSteps, StartUpSteps,
      InTransaction
<1>4. ASSUME NEW k \in Callers, NEW c \in Commands, Dispatch(k, c)
      PROVE  ReceiptOK'
  BY <1>4
  DEF TypeOK, ControlOK, EngineInv, BatchOK, ModelOK, FeedOK, ReceiptOK,
      ReceiptsAgreeWithLog, Dispatch, WorkerSteps, StartUpSteps, InTransaction
<1>5. CASE Take
  BY <1>5
  DEF TypeOK, ControlOK, EngineInv, BatchOK, ModelOK, FeedOK, ReceiptOK,
      ReceiptsAgreeWithLog, Take, WorkerSteps, StartUpSteps, InTransaction
<1>6. CASE AnswerFromReceipt
  BY <1>6
  DEF TypeOK, ControlOK, EngineInv, BatchOK, ModelOK, FeedOK, ReceiptOK,
      ReceiptsAgreeWithLog, AnswerFromReceipt, EnvelopeDone, Answer, WorkerSteps,
      StartUpSteps, InTransaction
<1>7. CASE LookupFails
  BY <1>7
  DEF TypeOK, ControlOK, EngineInv, BatchOK, ModelOK, FeedOK, ReceiptOK,
      ReceiptsAgreeWithLog, LookupFails, Fail, WorkerSteps, StartUpSteps, InTransaction
<1>8. CASE Decide
  BY <1>8
  DEF TypeOK, ControlOK, EngineInv, BatchOK, ModelOK, FeedOK, ReceiptOK,
      ReceiptsAgreeWithLog, Decide, Fail, WorkerSteps, StartUpSteps, InTransaction
<1>9. CASE AppendEvent
  BY <1>9
  DEF TypeOK, ControlOK, EngineInv, BatchOK, ModelOK, FeedOK, ReceiptOK,
      ReceiptsAgreeWithLog, AppendEvent, NextSequence, WorkerSteps, StartUpSteps,
      InTransaction
<1>10. CASE ProjectEvent
  BY <1>10
  DEF TypeOK, ControlOK, EngineInv, BatchOK, ModelOK, FeedOK, ReceiptOK,
      ReceiptsAgreeWithLog, ProjectEvent, WorkerSteps, StartUpSteps, InTransaction
<1>11. CASE Commit
  <2> DEFINE c == envelope.command
             n == Len(EventTypesOf(c))
  <2> HIDE DEF c, n
  <2>1. /\ pc = "commit" /\ pc' = "install" /\ c \in Commands
        /\ log' = log \o batch
        /\ UNCHANGED <<envelope, batch>>
        /\ Len(batch) = n
    BY <1>11 DEF Commit, progress, TypeInv, ControlOK, WorkerSteps, c, n
  <2>2. n \in Nat /\ n >= 1 /\ DOMAIN EventTypesOf(c) = 1..n
    <3>1. n \in 1..2
      BY <2>1, EventTypesOfType DEF n
    <3>2. EventTypesOf(c) \in Seq(EventTypes)
      BY <2>1, EventTypesOfType
    <3>3. DOMAIN EventTypesOf(c) = 1..n
      BY <3>2 DEF n
    <3>4. QED
      BY <3>1, <3>3
  <2>3. /\ Len(log) \in Nat /\ Len(log') = Len(log) + n
        /\ \A i \in DOMAIN log : log'[i] = log[i]
        /\ DOMAIN log = 1..Len(log) /\ DOMAIN log' = 1..Len(log) + n
        /\ \A j \in 1..n : log'[Len(log) + j] = batch[j]
    <3>1. log \in Seq(Event) /\ batch \in Seq(Event) /\ Len(log) \in Nat
      BY DEF TypeInv, TypeOK
    <3>2. /\ log' \in Seq(Event) /\ Len(log') = Len(log) + n
          /\ \A i \in 1..Len(log) + n :
                log'[i] = IF i <= Len(log) THEN log[i] ELSE batch[i - Len(log)]
      BY <2>1, <3>1, ConcatProperties
    <3>3. \A i \in 1..Len(log) : log'[i] = log[i]
      BY <2>2, <3>1, <3>2
    <3>4. \A j \in 1..n : log'[Len(log) + j] = batch[j]
      <4> SUFFICES ASSUME NEW j \in 1..n PROVE log'[Len(log) + j] = batch[j]
        OBVIOUS
      <4>1. /\ Len(log) + j \in 1..Len(log) + n /\ ~(Len(log) + j <= Len(log))
            /\ Len(log) + j - Len(log) = j
        BY <2>2, <3>1
      <4>2. QED
        BY <3>2, <4>1
    <3>5. QED
      BY <2>2, <3>1, <3>2, <3>3, <3>4
  <2>4. \A j \in 1..n : log'[Len(log) + j] = [sequence |-> Len(log) + j,
                                             type |-> EventTypesOf(c)[j], command |-> c]
    <3>1. DOMAIN batch = 1..n
      BY <2>1 DEF TypeInv, TypeOK
    <3>2. \A j \in 1..n : batch[j] = [sequence |-> Len(log) + j,
                                       type |-> EventTypesOf(c)[j], command |-> c]
      BY <2>1, <3>1 DEF EngineInv, BatchOK, InTransaction, c
    <3>3. QED
      BY <2>3, <3>2
  <2>5. ASSUME NEW j \in 1..n
        PROVE  /\ log'[Len(log) + j].sequence = Len(log) + j
               /\ log'[Len(log) + j].type = EventTypesOf(c)[j]
               /\ log'[Len(log) + j].command = c
    <3>1. log'[Len(log) + j] = [sequence |-> Len(log) + j,
                                type |-> EventTypesOf(c)[j], command |-> c]
      BY <2>4, Zenon
    <3>2. QED
      BY <3>1
  <2>6. Last(batch).sequence = Len(log) + n
    <3>1. n \in 1..n
      BY <2>2
    <3>2. Last(batch) = log'[Len(log) + n]
      BY <2>1, <2>3, <3>1 DEF Last
    <3>3. QED
      BY <2>5, <3>1, <3>2
  <2>7. receipts' = [receipts EXCEPT ![c] = [status |-> "accepted",
                                             resultSequence |-> Len(log) + n]]
    BY <1>11, <2>6 DEF Commit, c
  <2>8. receipts[c].status = "none" /\ receipts \in [Commands -> Receipt]
    BY <2>1 DEF EngineInv, ReceiptOK, InTransaction, TypeInv, TypeOK, c
  <2>9. \A i \in DOMAIN log : log[i].command \in Commands /\ log[i].command # c
    <3>1. \A i \in DOMAIN log : log[i] \in Event
      BY DEF TypeInv, TypeOK
    <3>2. \A i \in DOMAIN log : receipts[log[i].command].status = "accepted"
      BY DEF EngineInv, ReceiptOK, ReceiptsAgreeWithLog
    <3>3. QED
      BY <2>8, <3>1, <3>2 DEF Event
  <2>10. \A i \in DOMAIN log' :
           log'[i].sequence = i /\ receipts'[log'[i].command].status = "accepted"
    <3> SUFFICES ASSUME NEW i \in DOMAIN log'
                 PROVE  log'[i].sequence = i /\ receipts'[log'[i].command].status = "accepted"
      OBVIOUS
    <3>1. CASE i \in DOMAIN log
      BY <2>3, <2>7, <2>8, <2>9, <3>1 DEF EngineInv, ReceiptOK, ReceiptsAgreeWithLog
    <3>2. CASE i \notin DOMAIN log
      <4>1. PICK j \in 1..n : i = Len(log) + j
        <5>1. i - Len(log) \in 1..n /\ i = Len(log) + (i - Len(log))
          BY <2>2, <2>3, <3>2
        <5>2. QED
          BY <5>1
      <4>2. log'[i] = [sequence |-> i, type |-> EventTypesOf(c)[j], command |-> c]
        BY <2>4, <4>1
      <4>3. receipts'[c].status = "accepted"
        BY <2>1, <2>7, <2>8
      <4>4. QED
        BY <4>2, <4>3
    <3>3. QED
      BY <3>1, <3>2
  <2>11. ASSUME NEW d \in Commands, receipts'[d].status = "accepted",
                NEW last, last = receipts'[d].resultSequence,
                NEW before, before = last - Len(EventTypesOf(d))
         PROVE  /\ before >= 0 /\ last <= Len(log')
                /\ \A j \in DOMAIN EventTypesOf(d) :
                      log'[before + j].type = EventTypesOf(d)[j] /\ log'[before + j].command = d
                /\ \A i \in DOMAIN log' : log'[i].command = d => i \in before + 1..last
    <3>1. CASE d = c
      <4>1. last = Len(log) + n /\ before = Len(log)
        <5>1. receipts'[c].resultSequence = Len(log) + n
          BY <2>1, <2>7, <2>8
        <5>2. last = Len(log) + n /\ before = last - n
          BY <2>11, <3>1, <5>1 DEF n
        <5>3. QED
          BY <2>2, <5>2
      <4>2. before >= 0 /\ last <= Len(log')
        BY <2>2, <2>3, <4>1
      <4>3. \A j \in DOMAIN EventTypesOf(d) :
               log'[before + j].type = EventTypesOf(d)[j] /\ log'[before + j].command = d
        BY <2>2, <2>5, <3>1, <4>1
      <4>4. \A i \in DOMAIN log' : log'[i].command = d => i \in before + 1..last
        BY <2>2, <2>3, <2>9, <3>1, <4>1
      <4>5. QED
        BY <4>2, <4>3, <4>4
    <3>2. CASE d # c
      <4>1. receipts'[d] = receipts[d]
        BY <2>7, <2>8, <3>2
      <4>2. /\ before >= 0 /\ last <= Len(log)
            /\ \A j \in DOMAIN EventTypesOf(d) :
                  log[before + j].type = EventTypesOf(d)[j] /\ log[before + j].command = d
            /\ \A i \in DOMAIN log : log[i].command = d => i \in before + 1..last
        BY <2>11, <4>1 DEF EngineInv, ReceiptOK, ReceiptsAgreeWithLog
      <4>3. last \in Nat /\ Len(EventTypesOf(d)) \in Nat
              /\ DOMAIN EventTypesOf(d) = 1..Len(EventTypesOf(d))
        BY <2>8, <2>11, <4>1, EventTypesOfType DEF Receipt
      <4>4. \A j \in DOMAIN EventTypesOf(d) : before + j \in DOMAIN log
        BY SMTT(30), <2>3, <2>11, <4>2, <4>3
      <4>5. \A i \in DOMAIN log' : log'[i].command = d => i \in DOMAIN log
        <5> SUFFICES ASSUME NEW i \in DOMAIN log', i \notin DOMAIN log
                     PROVE  log'[i].command = c
          BY <3>2
        <5>1. i - Len(log) \in 1..n /\ i = Len(log) + (i - Len(log))
          BY <2>2, <2>3
        <5>2. log'[Len(log) + (i - Len(log))].command = c
          BY <2>5, <5>1
        <5>3. QED
          BY <5>1, <5>2
      <4>6. QED
        BY <2>2, <2>3, <4>2, <4>3, <4>4, <4>5
    <3>3. QED
      BY <3>1, <3>2
  <2>12. ReceiptsAgreeWithLog'
    BY <2>10, <2>11 DEF ReceiptsAgreeWithLog
  <2>13. QED
    BY <2>1, <2>3, <2>7, <2>8, <2>12 DEF ReceiptOK, InTransaction, c
<1>12. CASE TransactionFails
  BY <1>12
  DEF TypeOK, ControlOK, EngineInv, BatchOK, ModelOK, FeedOK, ReceiptOK,
      ReceiptsAgreeWithLog, TransactionFails, Fail, WorkerSteps, StartUpSteps, InTransaction
<1>13. CASE InstallReadModel
  BY <1>13
  DEF TypeOK, ControlOK, EngineInv, BatchOK, ModelOK, FeedOK, ReceiptOK,
      ReceiptsAgreeWithLog, InstallReadModel, WorkerSteps, StartUpSteps, InTransaction
<1>14. CASE Publish
  BY <1>14
  DEF TypeOK, ControlOK, EngineInv, BatchOK, ModelOK, FeedOK, ReceiptOK,
      ReceiptsAgreeWithLog, Publish, WorkerSteps, StartUpSteps, InTransaction
<1>15. CASE Resolve
  BY <1>15
  DEF TypeOK, ControlOK, EngineInv, BatchOK, ModelOK, FeedOK, ReceiptOK,
      ReceiptsAgreeWithLog, Resolve, EnvelopeDone, Answer, WorkerSteps, StartUpSteps,
      InTransaction
<1>16. CASE Reconcile
  BY <1>16
  DEF TypeOK, ControlOK, EngineInv, BatchOK, ModelOK, FeedOK, ReceiptOK,
      ReceiptsAgreeWithLog, Reconcile, WorkerSteps, StartUpSteps, InTransaction
<1>17. CASE ReconcileFails
  BY <1>17
  DEF TypeOK, ControlOK, EngineInv, BatchOK, ModelOK, FeedOK, ReceiptOK,
      ReceiptsAgreeWithLog, ReconcileFails, WorkerSteps, StartUpSteps, InTransaction
<1>18. CASE RejectCommand
  <2>1. pc' = "idle" /\ UNCHANGED log
    BY <1>18 DEF RejectCommand, EnvelopeDone
  <2>2. CASE UNCHANGED receipts
    BY <2>1, <2>2 DEF EngineInv, ReceiptOK, ReceiptsAgreeWithLog, InTransaction
  <2>3. CASE /\ failure = "invariant"
             /\ receipts' = [receipts EXCEPT ![envelope.command] =
                   [status |-> "rejected", resultSequence |-> SnapshotSequence(readModel)]]
    <3>1. receipts[envelope.command].status = "none" /\ receipts \in [Commands -> Receipt]
      BY <1>18, <2>3 DEF RejectCommand, EngineInv, ReceiptOK, TypeInv, TypeOK
    <3>2. \A i \in DOMAIN log : log[i].command \in Commands
      <4>1. \A i \in DOMAIN log : log[i] \in Event
        BY DEF TypeInv, TypeOK
      <4>2. QED
        BY <4>1 DEF Event
    <3>3. \A d \in Commands : d # envelope.command => receipts'[d] = receipts[d]
      BY <2>3, <3>1
    <3>4. \A d \in Commands : receipts'[d].status = "accepted" => d # envelope.command
      BY <2>3, <3>1
    <3>5. \A i \in DOMAIN log : log[i].command # envelope.command
      BY <3>1 DEF EngineInv, ReceiptOK, ReceiptsAgreeWithLog
    <3>6. ReceiptsAgreeWithLog'
      BY <2>1, <3>2, <3>3, <3>4, <3>5 DEF EngineInv, ReceiptOK, ReceiptsAgreeWithLog
    <3>7. QED
      BY <2>1, <3>6 DEF ReceiptOK, InTransaction
  <2>4. QED
    BY <1>18, <2>2, <2>3 DEF RejectCommand
<1>19. CASE Crash
  BY <1>19
  DEF TypeOK, ControlOK, EngineInv, BatchOK, ModelOK, FeedOK, ReceiptOK,
      ReceiptsAgreeWithLog, Crash, Idle, WorkerSteps, StartUpSteps, InTransaction
<1>20. CASE UNCHANGED vars
  BY <1>20 DEF EngineInv, ReceiptOK, ReceiptsAgreeWithLog, vars, InTransaction, StartUpSteps,
    WorkerSteps
<1>21. QED
  BY <1>1, <1>2, <1>3, <1>4, <1>5, <1>6, <1>7, <1>8, <1>9, <1>10, <1>11, <1>12, <1>13, <1>14,
    <1>15, <1>16, <1>17, <1>18, <1>19, <1>20
  DEF Next, StartUp, ProcessEnvelope

(* What callers were told stays true.                                      *)
LEMMA NextAnswersOK ==
    ASSUME StoreInTransaction = TRUE, TypeInv, EngineInv, [Next]_vars
    PROVE  AnswersOK'
<1> USE DEF TypeInv, database, version, dispatches, progress, feed
<1>1. CASE BootstrapEvent
  BY <1>1
  DEF TypeOK, ControlOK, EngineInv, AnswersOK, FeedOK, Unpublished, BootstrapEvent,
      WorkerSteps, StartUpSteps, InTransaction
<1>2. CASE BootstrapNextProjector
  BY <1>2
  DEF TypeOK, ControlOK, EngineInv, AnswersOK, FeedOK, Unpublished, BootstrapNextProjector,
      WorkerSteps, StartUpSteps, InTransaction
<1>3. CASE ReplayLog
  BY <1>3
  DEF TypeOK, ControlOK, EngineInv, AnswersOK, FeedOK, Unpublished, ReplayLog, EnvelopeDone,
      WorkerSteps, StartUpSteps, InTransaction
<1>4. ASSUME NEW k \in Callers, NEW c \in Commands, Dispatch(k, c)
      PROVE  AnswersOK'
  BY <1>4
  DEF TypeOK, ControlOK, EngineInv, AnswersOK, FeedOK, Unpublished, Dispatch, WorkerSteps,
      StartUpSteps, InTransaction
<1>5. CASE Take
  BY <1>5
  DEF TypeOK, ControlOK, EngineInv, AnswersOK, FeedOK, Unpublished, Take, WorkerSteps,
      StartUpSteps, InTransaction
<1>6. CASE AnswerFromReceipt
  <2> DEFINE receipt == receipts[envelope.command]
  <2>1. /\ pc = "lookup" /\ pc' = "idle"
        /\ UNCHANGED <<receipts, feed>>
        /\ envelope \in [command : Commands, caller : Callers]
    BY <1>6 DEF AnswerFromReceipt, EnvelopeDone, database, TypeInv, ControlOK, WorkerSteps
  <2>2. CASE receipt.status = "accepted"
    <3>1. callers' = [callers EXCEPT ![envelope.caller] =
                        [status |-> "ok", command |-> envelope.command,
                         sequence |-> receipt.resultSequence]]
      BY <1>6, <2>2 DEF AnswerFromReceipt, Answer
    <3>2. receipt = [status |-> "accepted", resultSequence |-> receipt.resultSequence]
      BY <2>1, <2>2 DEF TypeInv, TypeOK, Receipt
    <3>3. receipt.resultSequence <= bootSequence + Len(published)
      <4>1. receipt.resultSequence <= Len(log)
        BY <2>1, <2>2 DEF EngineInv, ReceiptOK, ReceiptsAgreeWithLog
      <4>2. bootSequence + Len(published) = Len(log)
        BY <2>1 DEF EngineInv, FeedOK, Unpublished, WorkerSteps, TypeInv, TypeOK
      <4>3. QED
        BY <4>1, <4>2
    <3>4. QED
      BY <2>1, <3>1, <3>2, <3>3 DEF EngineInv, AnswersOK, StartUpSteps, feed, TypeInv, TypeOK
  <2>3. CASE receipt.status # "accepted"
    <3>1. callers' = [callers EXCEPT ![envelope.caller] =
                        [status |-> "previouslyRejected", command |-> envelope.command,
                         sequence |-> 0]]
      BY <1>6, <2>3 DEF AnswerFromReceipt, Answer
    <3>2. \A k \in Callers : callers'[k].status = "ok" => callers'[k] = callers[k]
      BY <2>1, <3>1 DEF TypeInv, TypeOK
    <3>3. QED
      BY <2>1, <3>2 DEF EngineInv, AnswersOK, StartUpSteps, feed
  <2>4. QED
    BY <2>2, <2>3
<1>7. CASE LookupFails
  BY <1>7
  DEF TypeOK, ControlOK, EngineInv, AnswersOK, FeedOK, Unpublished, LookupFails, Fail,
      WorkerSteps, StartUpSteps, InTransaction
<1>8. CASE Decide
  BY <1>8
  DEF TypeOK, ControlOK, EngineInv, AnswersOK, FeedOK, Unpublished, Decide, Fail,
      WorkerSteps, StartUpSteps, InTransaction
<1>9. CASE AppendEvent
  BY <1>9
  DEF TypeOK, ControlOK, EngineInv, AnswersOK, FeedOK, Unpublished, AppendEvent,
      NextSequence, WorkerSteps, StartUpSteps, InTransaction
<1>10. CASE ProjectEvent
  BY <1>10
  DEF TypeOK, ControlOK, EngineInv, AnswersOK, FeedOK, Unpublished, ProjectEvent,
      WorkerSteps, StartUpSteps, InTransaction
<1>11. CASE Commit
  <2>1. pc = "commit" /\ pc' = "install" /\ UNCHANGED <<callers, feed>>
    BY <1>11 DEF Commit, dispatches
  <2>2. receipts[envelope.command].status = "none"
    BY <2>1 DEF EngineInv, ReceiptOK, InTransaction
  <2>3. \A d \in Commands : d # envelope.command => receipts'[d] = receipts[d]
    BY <1>11 DEF Commit, TypeInv, TypeOK
  <2>4. QED
    BY <2>1, <2>2, <2>3 DEF EngineInv, AnswersOK, StartUpSteps, feed
<1>12. CASE TransactionFails
  BY <1>12
  DEF TypeOK, ControlOK, EngineInv, AnswersOK, FeedOK, Unpublished, TransactionFails, Fail,
      WorkerSteps, StartUpSteps, InTransaction
<1>13. CASE InstallReadModel
  BY <1>13
  DEF TypeOK, ControlOK, EngineInv, AnswersOK, FeedOK, Unpublished, InstallReadModel,
      WorkerSteps, StartUpSteps, InTransaction
<1>14. CASE Publish
  <2>1. /\ UNCHANGED <<pc, receipts, callers, bootSequence>>
        /\ pc' \notin StartUpSteps
        /\ Len(published') = Len(published) + 1
    BY <1>14, AppendProperties
    DEF Publish, database, dispatches, StartUpSteps, TypeInv, TypeOK, ControlOK
  <2>2. \A k \in Callers : callers[k].sequence \in Nat
    BY DEF TypeInv, TypeOK, CallerState
  <2>3. bootSequence \in Nat /\ Len(published) \in Nat
    BY DEF TypeInv, TypeOK
  <2>4. QED
    BY <2>1, <2>2, <2>3 DEF EngineInv, AnswersOK
<1>15. CASE Resolve
  <2>1. /\ pc = "publish" /\ pc' = "idle" /\ step = Len(batch)
        /\ UNCHANGED <<receipts, feed>>
        /\ envelope \in [command : Commands, caller : Callers]
        /\ Len(batch) = Len(EventTypesOf(envelope.command))
    BY <1>15 DEF Resolve, EnvelopeDone, database, TypeInv, ControlOK, WorkerSteps
  <2>2. Len(batch) \in Nat /\ Len(batch) >= 1
    <3>1. Len(EventTypesOf(envelope.command)) \in 1..2
      BY <2>1, EventTypesOfType
    <3>2. QED
      BY <2>1, <3>1
  <2>3. Last(batch).sequence = Len(log)
    <3>1. Len(log) \in Nat /\ Len(log) >= 1 /\ Last(batch) = log[Len(log)]
      BY <2>1, <2>2 DEF Last, EngineInv, BatchOK, TypeInv, TypeOK
    <3>2. QED
      BY <3>1 DEF EngineInv, ReceiptOK, ReceiptsAgreeWithLog, TypeInv, TypeOK
  <2>4. bootSequence + Len(published) = Len(log)
    BY <2>1, <2>2 DEF EngineInv, FeedOK, Unpublished, WorkerSteps, TypeInv, TypeOK
  <2>5. receipts[envelope.command] = [status |-> "accepted", resultSequence |-> Len(log)]
    BY <2>1 DEF EngineInv, ReceiptOK
  <2>6. callers' = [callers EXCEPT ![envelope.caller] =
                      [status |-> "ok", command |-> envelope.command, sequence |-> Len(log)]]
    BY <1>15, <2>3 DEF Resolve, Answer
  <2>7. Len(log) <= bootSequence + Len(published)
    BY <2>4 DEF TypeInv, TypeOK
  <2>8. QED
    BY <2>1, <2>5, <2>6, <2>7 DEF EngineInv, AnswersOK, StartUpSteps, feed, TypeInv, TypeOK
<1>16. CASE Reconcile
  BY <1>16
  DEF TypeOK, ControlOK, EngineInv, AnswersOK, FeedOK, Unpublished, Reconcile, WorkerSteps,
      StartUpSteps, InTransaction
<1>17. CASE ReconcileFails
  BY <1>17
  DEF TypeOK, ControlOK, EngineInv, AnswersOK, FeedOK, Unpublished, ReconcileFails,
      WorkerSteps, StartUpSteps, InTransaction
<1>18. CASE RejectCommand
  <2>1. /\ pc = "republish" /\ pc' = "idle" /\ UNCHANGED feed
        /\ envelope \in [command : Commands, caller : Callers]
    BY <1>18 DEF RejectCommand, EnvelopeDone, TypeInv, ControlOK, WorkerSteps
  <2>2. \A d \in Commands : receipts[d].status # "none" => receipts'[d] = receipts[d]
    BY <1>18, <2>1 DEF RejectCommand, EngineInv, ReceiptOK, TypeInv, TypeOK
  <2>3. \A k \in Callers : callers'[k].status = "ok" => callers'[k] = callers[k]
    BY <1>18, <2>1 DEF RejectCommand, Answer, TypeInv, TypeOK
  <2>4. QED
    BY <2>1, <2>2, <2>3 DEF EngineInv, AnswersOK, StartUpSteps, feed
<1>19. CASE Crash
  BY <1>19
  DEF TypeOK, ControlOK, EngineInv, AnswersOK, FeedOK, Unpublished, Crash, Idle,
      WorkerSteps, StartUpSteps, InTransaction
<1>20. CASE UNCHANGED vars
  BY <1>20 DEF EngineInv, AnswersOK, vars, InTransaction, StartUpSteps, WorkerSteps
<1>21. QED
  BY <1>1, <1>2, <1>3, <1>4, <1>5, <1>6, <1>7, <1>8, <1>9, <1>10, <1>11, <1>12, <1>13, <1>14,
    <1>15, <1>16, <1>17, <1>18, <1>19, <1>20
  DEF Next, StartUp, ProcessEnvelope

-----------------------------------------------------------------------------

LEMMA NextEngineInv ==
    ASSUME StoreInTransaction = TRUE
    PROVE  TypeInv /\ EngineInv /\ [Next]_vars => EngineInv'
BY NextBatchOK, NextModelOK, NextFeedOK, NextReceiptOK, NextAnswersOK DEF EngineInv

(* The conjunction is an invariant of the engine.                          *)
THEOREM EngineInvariant ==
    ASSUME StoreInTransaction = TRUE
    PROVE  Spec => [](TypeInv /\ EngineInv)
BY InitTypeInv, NextTypeInv, InitEngineInv, NextEngineInv, PTL DEF Spec

-----------------------------------------------------------------------------
(* The properties of the engine follow from the invariant.                 *)

(* Every event in the log belongs to an accepted command, and the events   *)
(* of an accepted command are in the log once, complete, together and end  *)
(* at the sequence its receipt reports.                                    *)
THEOREM ReceiptsTheorem ==
    ASSUME StoreInTransaction = TRUE
    PROVE  Spec => []ReceiptsAgreeWithLog
<1>1. EngineInv => ReceiptsAgreeWithLog
  BY DEF EngineInv, ReceiptOK
<1>2. QED
  BY <1>1, EngineInvariant, PTL

(* Between commands the read model commands are decided against is the     *)
(* fold of the whole log, whatever failed before.                          *)
THEOREM ReadModelTheorem ==
    ASSUME StoreInTransaction = TRUE
    PROVE  Spec => []ReadModelIsCurrent
<1>1. EngineInv => ReadModelIsCurrent
  BY DEF EngineInv, ModelOK, ReadModelIsCurrent, WorkerSteps
<1>2. QED
  BY <1>1, EngineInvariant, PTL

(* Subscribers get the committed events in log order, without gaps and     *)
(* without repetition, and all of them before the next command.            *)
THEOREM FeedTheorem ==
    ASSUME StoreInTransaction = TRUE
    PROVE  Spec => []FeedFollowsLog
<1>1. TypeInv /\ EngineInv => FeedFollowsLog
  <2> SUFFICES ASSUME TypeInv, EngineInv PROVE FeedFollowsLog
    OBVIOUS
  <2> DEFINE n == Len(published)
             part == SubSeq(log, bootSequence + 1, bootSequence + n)
  <2>1. /\ log \in Seq(Event) /\ published \in Seq(Event)
        /\ n \in Nat /\ bootSequence \in Nat /\ Len(log) \in Nat
    BY DEF TypeInv, TypeOK
  <2>2. bootSequence + n <= Len(log)
    <3>1. CASE pc \in StartUpSteps
      BY <2>1, <3>1 DEF EngineInv, FeedOK
    <3>2. CASE pc \in WorkerSteps
      <4>1. Unpublished \in Nat
        BY <3>2 DEF Unpublished, TypeInv, TypeOK, ControlOK
      <4>2. bootSequence + n + Unpublished = Len(log)
        BY <3>2 DEF EngineInv, FeedOK
      <4>3. QED
        BY <2>1, <4>1, <4>2
    <3>3. QED
      BY <3>1, <3>2 DEF TypeInv, TypeOK
  <2>3. pc = "idle" => bootSequence + n = Len(log)
    BY <2>1 DEF EngineInv, FeedOK, Unpublished, WorkerSteps
  <2>4. published = part
    <3>1. \A i \in bootSequence + 1 .. bootSequence + n : log[i] \in Event
      BY <2>1, <2>2
    <3>2. /\ part \in Seq(Event) /\ Len(part) = n
          /\ \A i \in 1..n : part[i] = log[bootSequence + 1 + i - 1]
      BY SMTT(30), <2>1, <3>1, SubSeqProperties
    <3>3. \A i \in 1..n : part[i] = published[i]
      <4> SUFFICES ASSUME NEW i \in 1..n PROVE part[i] = published[i]
        OBVIOUS
      <4>1. bootSequence + 1 + i - 1 = bootSequence + i
        BY <2>1
      <4>2. published[i] = log[bootSequence + i]
        BY <2>1 DEF EngineInv, FeedOK
      <4>3. QED
        BY <3>2, <4>1, <4>2
    <3>4. QED
      BY <2>1, <3>2, <3>3, SeqEqual
  <2>5. QED
    BY <2>2, <2>3, <2>4 DEF FeedFollowsLog
<1>2. QED
  BY <1>1, EngineInvariant, PTL

(* A caller that is told of a success can rely on the receipt, the read    *)
(* model and the feed.                                                     *)
THEOREM SuccessTheorem ==
    ASSUME StoreInTransaction = TRUE
    PROVE  Spec => []SuccessIsVisible
<1>1. TypeInv /\ EngineInv => SuccessIsVisible
  <2> SUFFICES ASSUME TypeInv, EngineInv, NEW k \in Callers, callers[k].status = "ok"
               PROVE  /\ receipts[callers[k].command] =
                            [status |-> "accepted", resultSequence |-> callers[k].sequence]
                      /\ SnapshotSequence(readModel) >= callers[k].sequence
                      /\ bootSequence + Len(published) >= callers[k].sequence
    BY DEF SuccessIsVisible
  <2>1. /\ pc \in WorkerSteps
        /\ callers[k].sequence \in Nat
        /\ callers[k].sequence <= bootSequence + Len(published)
        /\ receipts[callers[k].command] =
              [status |-> "accepted", resultSequence |-> callers[k].sequence]
    BY DEF EngineInv, AnswersOK, TypeInv, TypeOK, CallerState
  <2>2. /\ log \in Seq(Event) /\ readModel \in Seq(Event) /\ batch \in Seq(Event)
        /\ bootSequence \in Nat
        /\ Len(log) \in Nat /\ Len(readModel) \in Nat /\ Len(batch) \in Nat
        /\ Len(published) \in Nat
    BY DEF TypeInv, TypeOK
  <2>3. \A i \in DOMAIN log : log[i].sequence = i
    BY DEF EngineInv, ReceiptOK, ReceiptsAgreeWithLog
  <2>4. /\ bootSequence + Len(published) <= Len(readModel)
        /\ \A i \in DOMAIN readModel : readModel[i].sequence = i
    <3>1. CASE pc = "install"
      <4>1. log = readModel \o batch
        BY <3>1 DEF EngineInv, ModelOK
      <4>2. Len(log) = Len(readModel) + Len(batch)
              /\ \A i \in DOMAIN readModel : i \in DOMAIN log /\ log[i] = readModel[i]
        BY <2>2, <4>1, ConcatProperties
      <4>3. bootSequence + Len(published) + Len(batch) = Len(log)
        BY <3>1 DEF EngineInv, FeedOK, Unpublished, WorkerSteps
      <4>4. QED
        BY <2>2, <2>3, <4>2, <4>3
    <3>2. CASE pc # "install"
      <4>1. readModel = log
        BY <2>1, <3>2 DEF EngineInv, ModelOK
      <4>2. Unpublished \in Nat
        BY <2>1, <3>2 DEF Unpublished, TypeInv, TypeOK, ControlOK
      <4>3. bootSequence + Len(published) + Unpublished = Len(log)
        BY <2>1 DEF EngineInv, FeedOK
      <4>4. QED
        BY <2>2, <2>3, <4>1, <4>2, <4>3
    <3>3. QED
      BY <3>1, <3>2
  <2>5. SnapshotSequence(readModel) = Len(readModel)
    BY <2>2, <2>4, SnapshotIsLength
  <2>6. QED
    BY <2>1, <2>2, <2>4, <2>5
<1>2. QED
  BY <1>1, EngineInvariant, PTL

(* No step takes an event out of the log, changes one, or changes a        *)
(* receipt once it is written.                                             *)
LEMMA LogGrows ==
    ASSUME StoreInTransaction = TRUE, TypeInv, [Next]_vars
    PROVE  log' = log \/ log' = log \o batch
<1> USE DEF database
<1>1. CASE UNCHANGED vars
  BY <1>1 DEF vars
<1>2. ASSUME NEW k \in Callers, NEW c \in Commands, Dispatch(k, c)
      PROVE  log' = log
  BY <1>2 DEF Dispatch
<1>3. CASE StartUp \/ Crash
  BY <1>3 DEF StartUp, BootstrapEvent, BootstrapNextProjector, ReplayLog, Crash
<1>4. CASE ProcessEnvelope
  BY <1>4
  DEF ProcessEnvelope, Take, AnswerFromReceipt, LookupFails, Decide, AppendEvent, ProjectEvent,
      Commit, TransactionFails, InstallReadModel, Publish, Resolve, Reconcile, ReconcileFails,
      RejectCommand
<1>5. QED
  BY <1>1, <1>2, <1>3, <1>4 DEF Next

LEMMA ReceiptsKept ==
    ASSUME TypeInv, EngineInv, [Next]_vars,
           NEW c \in Commands, receipts[c].status # "none"
    PROVE  receipts'[c] = receipts[c]
<1> USE DEF database
<1>1. CASE Commit
  BY <1>1 DEF Commit, TypeInv, TypeOK, EngineInv, ReceiptOK, InTransaction
<1>2. CASE RejectCommand
  BY <1>2 DEF RejectCommand, TypeInv, TypeOK, EngineInv, ReceiptOK
<1>3. CASE UNCHANGED vars
  BY <1>3 DEF vars
<1>4. ASSUME NEW k \in Callers, NEW d \in Commands, Dispatch(k, d)
      PROVE  receipts' = receipts
  BY <1>4 DEF Dispatch
<1>5. CASE StartUp \/ Crash
  BY <1>5 DEF StartUp, BootstrapEvent, BootstrapNextProjector, ReplayLog, Crash
<1>6. CASE ProcessEnvelope /\ ~Commit /\ ~RejectCommand
  BY <1>6
  DEF ProcessEnvelope, Take, AnswerFromReceipt, LookupFails, Decide, AppendEvent, ProjectEvent,
      TransactionFails, InstallReadModel, Publish, Resolve, Reconcile, ReconcileFails
<1>7. QED
  BY <1>1, <1>2, <1>3, <1>4, <1>5, <1>6 DEF Next

THEOREM HistoryTheorem ==
    ASSUME StoreInTransaction = TRUE
    PROVE  Spec => HistoryIsNeverRewritten
<1>1. TypeInv /\ EngineInv /\ [Next]_vars =>
         [/\ IsPrefix(log, log')
          /\ \A c \in Commands : receipts[c].status # "none" => receipts'[c] = receipts[c]]_vars
  <2> SUFFICES ASSUME TypeInv, EngineInv, [Next]_vars
               PROVE  /\ IsPrefix(log, log')
                      /\ \A c \in Commands :
                            receipts[c].status # "none" => receipts'[c] = receipts[c]
    OBVIOUS
  <2>1. log \in Seq(Event) /\ batch \in Seq(Event) /\ Len(log) \in Nat
    BY DEF TypeInv, TypeOK
  <2>2. IsPrefix(log, log')
    <3>1. CASE log' = log
      BY <2>1, <3>1 DEF IsPrefix
    <3>2. CASE log' = log \o batch
      <4>1. Len(log) <= Len(log')
        BY <2>1, <3>2, ConcatProperties
      <4>2. SubSeq(log', 1, Len(log)) = SubSeq(log, 1, Len(log))
        <5>1. CASE log = <<>>
          BY <5>1, SubSeqEmpty
        <5>2. CASE log # <<>>
          <6>1. 1 \in 1..Len(log) /\ Len(log) \in 1..Len(log)
            BY <2>1, <5>2, EmptySeq
          <6>2. QED
            BY <2>1, <3>2, <6>1, SubSeqOfConcat1
        <5>3. QED
          BY <5>1, <5>2
      <4>3. QED
        BY <4>1, <4>2 DEF IsPrefix
    <3>3. QED
      BY <3>1, <3>2, LogGrows
  <2>3. QED
    BY <2>2, ReceiptsKept
<1>2. QED
  BY <1>1, EngineInvariant, PTL DEF Spec, HistoryIsNeverRewritten

-----------------------------------------------------------------------------
(* The command log.                                                        *)

(* One envelope per waiting caller.                                        *)

LEMMA QueuedCallers ==
    ASSUME TypeOK
    PROVE  \A i \in DOMAIN commandQueue : commandQueue[i].caller \in Callers
<1> DEFINE Envelope == [command : Commands, caller : Callers]
<1>1. commandQueue \in Seq(Envelope)
  BY DEF TypeOK
<1> HIDE DEF Envelope
<1>2. \A i \in DOMAIN commandQueue : commandQueue[i] \in Envelope
  BY <1>1
<1>3. QED
  BY <1>2 DEF Envelope

LEMMA InitWaitersOK == Init => WaitersOK
BY DEF Init, WaitersOK, WorkerSteps

LEMMA NextWaitersOK ==
    ASSUME TypeInv, WaitersOK, [Next]_vars
    PROVE  WaitersOK'
<1> USE DEF TypeInv, database, version, dispatches, progress, feed
<1>1. CASE BootstrapEvent
  BY <1>1
  DEF TypeOK, ControlOK, WaitersOK, BootstrapEvent, WorkerSteps, StartUpSteps
<1>2. CASE BootstrapNextProjector
  BY <1>2
  DEF TypeOK, ControlOK, WaitersOK, BootstrapNextProjector, WorkerSteps, StartUpSteps
<1>3. CASE ReplayLog
  BY <1>3
  DEF TypeOK, ControlOK, WaitersOK, ReplayLog, EnvelopeDone, WorkerSteps, StartUpSteps
<1>4. ASSUME NEW k \in Callers, NEW c \in Commands, Dispatch(k, c)
      PROVE  WaitersOK'
  <2>1. /\ commandQueue \in Seq([command : Commands, caller : Callers])
        /\ callers \in [Callers -> CallerState]
        /\ pc \notin StartUpSteps /\ UNCHANGED <<pc, envelope>>
        /\ callers[k].status # "waiting"
        /\ commandQueue' = Append(commandQueue, [command |-> c, caller |-> k])
        /\ callers' = [callers EXCEPT ![k] =
                          [status |-> "waiting", command |-> c, sequence |-> 0]]
    BY <1>4 DEF TypeOK, Dispatch, StartUpSteps
  <2>2. /\ Len(commandQueue) \in Nat
        /\ DOMAIN commandQueue = 1..Len(commandQueue)
        /\ DOMAIN commandQueue' = 1..Len(commandQueue) + 1
        /\ \A i \in DOMAIN commandQueue : commandQueue'[i] = commandQueue[i]
        /\ commandQueue'[Len(commandQueue) + 1].caller = k
    BY <2>1
  <2>3. \A i \in DOMAIN commandQueue :
           commandQueue[i].caller \in Callers /\ commandQueue[i].caller # k
    <3>1. \A i \in DOMAIN commandQueue : callers[commandQueue[i].caller].status = "waiting"
      BY DEF WaitersOK
    <3>2. QED
      BY <2>1, <3>1, QueuedCallers
  <2>4. ASSUME NEW i \in DOMAIN commandQueue'
        PROVE  /\ callers'[commandQueue'[i].caller].status = "waiting"
               /\ \A j \in DOMAIN commandQueue' :
                     commandQueue'[i].caller = commandQueue'[j].caller => i = j
    <3>1. CASE i \in DOMAIN commandQueue
      BY <2>1, <2>2, <2>3, <3>1 DEF WaitersOK
    <3>2. CASE i = Len(commandQueue) + 1
      BY <2>1, <2>2, <2>3, <3>2
    <3>3. QED
      BY <2>2, <2>4, <3>1, <3>2
  <2>5. pc' \in WorkerSteps \ {"idle"} =>
          /\ callers'[envelope'.caller].status = "waiting"
          /\ \A i \in DOMAIN commandQueue' : commandQueue'[i].caller # envelope'.caller
    BY <2>1, <2>2 DEF WaitersOK, ControlOK
  <2>6. QED
    BY <2>1, <2>4, <2>5 DEF WaitersOK
<1>5. CASE Take
  <2>1. /\ commandQueue \in Seq([command : Commands, caller : Callers]) /\ commandQueue # <<>>
        /\ pc' = "lookup" /\ UNCHANGED callers
        /\ envelope' = Head(commandQueue) /\ commandQueue' = Tail(commandQueue)
    BY <1>5 DEF TypeOK, Take
  <2>2. /\ Len(commandQueue) \in Nat \ {0}
        /\ envelope' = commandQueue[1]
        /\ DOMAIN commandQueue' = 1..Len(commandQueue) - 1
        /\ \A i \in DOMAIN commandQueue' :
              i + 1 \in DOMAIN commandQueue /\ commandQueue'[i] = commandQueue[i + 1]
    BY <2>1, EmptySeq, HeadTailProperties
  <2>3. QED
    BY <2>1, <2>2 DEF WaitersOK, StartUpSteps
<1>6. CASE AnswerFromReceipt
  <2>1. /\ callers \in [Callers -> CallerState] /\ pc \in WorkerSteps \ {"idle"}
        /\ pc' = "idle" /\ UNCHANGED commandQueue
        /\ \A k \in Callers : k # envelope.caller => callers'[k] = callers[k]
    BY <1>6 DEF TypeOK, AnswerFromReceipt, EnvelopeDone, Answer, WorkerSteps
  <2>2. \A i \in DOMAIN commandQueue : commandQueue[i].caller \in Callers
    BY QueuedCallers
  <2>3. QED
    BY <2>1, <2>2 DEF WaitersOK, StartUpSteps
<1>7. CASE LookupFails
  BY <1>7
  DEF TypeOK, ControlOK, WaitersOK, LookupFails, Fail, WorkerSteps, StartUpSteps
<1>8. CASE Decide
  BY <1>8
  DEF TypeOK, ControlOK, WaitersOK, Decide, Fail, WorkerSteps, StartUpSteps
<1>9. CASE AppendEvent
  BY <1>9
  DEF TypeOK, ControlOK, WaitersOK, AppendEvent, WorkerSteps, StartUpSteps
<1>10. CASE ProjectEvent
  BY <1>10
  DEF TypeOK, ControlOK, WaitersOK, ProjectEvent, WorkerSteps, StartUpSteps
<1>11. CASE Commit
  BY <1>11
  DEF TypeOK, ControlOK, WaitersOK, Commit, WorkerSteps, StartUpSteps
<1>12. CASE TransactionFails
  BY <1>12
  DEF TypeOK, ControlOK, WaitersOK, TransactionFails, Fail, WorkerSteps, StartUpSteps
<1>13. CASE InstallReadModel
  BY <1>13
  DEF TypeOK, ControlOK, WaitersOK, InstallReadModel, WorkerSteps, StartUpSteps
<1>14. CASE Publish
  BY <1>14
  DEF TypeOK, ControlOK, WaitersOK, Publish, WorkerSteps, StartUpSteps
<1>15. CASE Resolve
  <2>1. /\ callers \in [Callers -> CallerState] /\ pc \in WorkerSteps \ {"idle"}
        /\ pc' = "idle" /\ UNCHANGED commandQueue
        /\ \A k \in Callers : k # envelope.caller => callers'[k] = callers[k]
    BY <1>15 DEF TypeOK, Resolve, EnvelopeDone, Answer, WorkerSteps
  <2>2. \A i \in DOMAIN commandQueue : commandQueue[i].caller \in Callers
    BY QueuedCallers
  <2>3. QED
    BY <2>1, <2>2 DEF WaitersOK, StartUpSteps
<1>16. CASE Reconcile
  BY <1>16
  DEF TypeOK, ControlOK, WaitersOK, Reconcile, WorkerSteps, StartUpSteps
<1>17. CASE ReconcileFails
  BY <1>17
  DEF TypeOK, ControlOK, WaitersOK, ReconcileFails, WorkerSteps, StartUpSteps
<1>18. CASE RejectCommand
  <2>1. /\ callers \in [Callers -> CallerState] /\ pc \in WorkerSteps \ {"idle"}
        /\ pc' = "idle" /\ UNCHANGED commandQueue
        /\ \A k \in Callers : k # envelope.caller => callers'[k] = callers[k]
    BY <1>18 DEF TypeOK, RejectCommand, EnvelopeDone, Answer, WorkerSteps
  <2>2. \A i \in DOMAIN commandQueue : commandQueue[i].caller \in Callers
    BY QueuedCallers
  <2>3. QED
    BY <2>1, <2>2 DEF WaitersOK, StartUpSteps
<1>19. CASE Crash
  BY <1>19
  DEF TypeOK, ControlOK, WaitersOK, Crash, Idle, WorkerSteps, StartUpSteps
<1>20. CASE UNCHANGED vars
  BY <1>20 DEF WaitersOK, vars
<1>21. QED
  BY <1>1, <1>2, <1>3, <1>4, <1>5, <1>6, <1>7, <1>8, <1>9, <1>10, <1>11, <1>12, <1>13, <1>14,
    <1>15, <1>16, <1>17, <1>18, <1>19, <1>20
  DEF Next, StartUp, ProcessEnvelope

(* Every waiting caller has exactly one envelope.                          *)
THEOREM WaitersTheorem == Spec => []WaitersOK
BY InitTypeInv, NextTypeInv, InitWaitersOK, NextWaitersOK, PTL DEF Spec

-----------------------------------------------------------------------------
(* The step simulation.                                                    *)

(* The command log sees the engine's decider.                              *)
LEMMA SameDecider ==
    ASSUME NEW c \in Commands, NEW model
    PROVE  CL!Accepts(model, c) <=> Accepts(model, c)
BY Zenon
DEF CL!Accepts, Accepts, CL!ProjectExists, ProjectExists, CL!ThreadExists, ThreadExists,
    CL!SourcePlanUsable, SourcePlanUsable, CL!PlanExists, PlanExists,
    CL!ThreadInProject, ThreadInProject, CL!ThreadCommandEvent, ThreadCommandEvent

LEMMA SameEvents ==
    ASSUME NEW c \in Commands
    PROVE  CL!EventTypesOf(c) = EventTypesOf(c)
BY Zenon
DEF CL!EventTypesOf, EventTypesOf, CL!ThreadCommandEvent, ThreadCommandEvent,
    CL!ProjectCommandEvent, ProjectCommandEvent

LEMMA VerdictOfReceipt ==
    ASSUME TypeInv, NEW c \in Commands
    PROVE  /\ Verdict[c] = "undecided" <=> receipts[c].status = "none"
           /\ Verdict[c] = "accepted" <=> receipts[c].status = "accepted"
BY DEF Verdict, TypeInv, TypeOK, Receipt

(* Only accepted commands are acknowledged.                                *)
AcknowledgedOK == Acknowledged \in SUBSET {c \in Commands : Verdict[c] = "accepted"}

LEMMA AcknowledgedAccepted == TypeInv /\ EngineInv => AcknowledgedOK
<1> SUFFICES ASSUME TypeInv, EngineInv, NEW c \in Acknowledged
             PROVE  c \in Commands /\ Verdict[c] = "accepted"
  BY DEF AcknowledgedOK
<1>1. PICK k \in Callers : callers[k].status = "ok" /\ callers[k].command = c
  BY DEF Acknowledged
<1>2. /\ callers[k].command \in Commands
      /\ receipts[callers[k].command] =
            [status |-> "accepted", resultSequence |-> callers[k].sequence]
  BY <1>1 DEF EngineInv, AnswersOK
<1>3. c \in Commands /\ receipts[c].status = "accepted"
  BY <1>1, <1>2
<1>4. QED
  BY <1>3, VerdictOfReceipt

(* A step that leaves the database alone is at most an acknowledgement.    *)
LEMMA AnswerStep ==
    ASSUME TypeInv', EngineInv', UNCHANGED <<log, receipts>>
    PROVE  CL!Acknowledge
<1>1. AcknowledgedOK'
  BY AcknowledgedAccepted, PTL
<1>2. UNCHANGED <<log, Verdict>>
  BY DEF Verdict
<1>3. QED
  BY <1>1, <1>2 DEF CL!Acknowledge, AcknowledgedOK

(* The commit is the command log's acceptance.                             *)
LEMMA CommitStep ==
    ASSUME StoreInTransaction = TRUE, TypeInv, EngineInv, EngineInv', Commit
    PROVE  CL!Accept(envelope.command)
<1> DEFINE c == envelope.command
<1>1. /\ c \in Commands /\ pc = "commit" /\ pc' = "install"
      /\ log' = log \o batch
      /\ Len(batch) = Len(EventTypesOf(c))
      /\ UNCHANGED <<callers, envelope>>
  BY DEF TypeInv, ControlOK, Commit, WorkerSteps, dispatches, progress
<1>2. CL!Undecided(c)
  <2>1. receipts[c].status = "none"
    BY <1>1 DEF EngineInv, ReceiptOK, InTransaction
  <2>2. QED
    BY <1>1, <2>1, VerdictOfReceipt DEF CL!Undecided
<1>3. CL!Accepts(log, c)
  BY <1>1, SameDecider DEF EngineInv, ReceiptOK, InTransaction
<1>4. log' = log \o CL!EventsOf(c, Len(log))
  <2> DEFINE events == CL!EventsOf(c, Len(log))
  <2>1. batch \in Seq(Event) /\ log \in Seq(Event)
    BY DEF TypeInv, TypeOK
  <2>2. /\ DOMAIN batch = 1..Len(batch)
        /\ \A i \in DOMAIN batch :
              batch[i] = [sequence |-> Len(log) + i, type |-> EventTypesOf(c)[i], command |-> c]
    BY <1>1, <2>1 DEF EngineInv, BatchOK, InTransaction
  <2>3. events = [i \in 1..Len(batch) |->
                    [sequence |-> Len(log) + i, type |-> EventTypesOf(c)[i], command |-> c]]
    BY <1>1, SameEvents DEF CL!EventsOf
  <2>4. batch = [i \in DOMAIN batch |-> batch[i]]
    BY <2>1
  <2>5. batch = events
    BY <2>2, <2>3, <2>4
  <2>6. QED
    BY <1>1, <2>5
<1>5. Verdict' = [Verdict EXCEPT ![c] = "accepted"]
  <2>1. receipts \in [Commands -> Receipt]
    BY DEF TypeInv, TypeOK
  <2>2. receipts'[c].status = "accepted"
          /\ \A d \in Commands : d # c => receipts'[d] = receipts[d]
    BY <1>1, <2>1 DEF Commit
  <2>3. QED
    BY <1>1, <2>2 DEF Verdict
<1>6. UNCHANGED Acknowledged
  BY <1>1 DEF Acknowledged
<1>7. QED
  BY <1>2, <1>3, <1>4, <1>5, <1>6 DEF CL!Accept

(* Writing the receipt of a rejection is the command log's rejection.      *)
LEMMA RejectStep ==
    ASSUME TypeInv, TypeInv', EngineInv, EngineInv', WaitersOK, RejectCommand
    PROVE  CL!Acknowledge \/ CL!Reject(envelope.command)
<1> DEFINE c == envelope.command
<1>1. /\ c \in Commands /\ envelope.caller \in Callers
      /\ pc = "republish" /\ UNCHANGED log
  BY DEF TypeInv, ControlOK, RejectCommand, WorkerSteps
<1>2. CASE UNCHANGED receipts
  BY <1>1, <1>2, AnswerStep
<1>3. CASE /\ failure = "invariant"
           /\ receipts' = [receipts EXCEPT ![c] =
                 [status |-> "rejected", resultSequence |-> SnapshotSequence(readModel)]]
  <2>1. receipts[c].status = "none" /\ ~Accepts(log, c)
    BY <1>1, <1>3 DEF EngineInv, ReceiptOK
  <2>2. CL!Undecided(c) /\ ~CL!Accepts(log, c)
    BY <1>1, <2>1, VerdictOfReceipt, SameDecider DEF CL!Undecided
  <2>3. Verdict' = [Verdict EXCEPT ![c] = "rejected"]
    <3>1. receipts \in [Commands -> Receipt]
      BY DEF TypeInv, TypeOK
    <3>2. receipts'[c].status = "rejected"
            /\ \A d \in Commands : d # c => receipts'[d] = receipts[d]
      BY <1>1, <1>3, <3>1
    <3>3. QED
      BY <1>1, <3>2 DEF Verdict
  <2>4. UNCHANGED Acknowledged
    <3>1. callers[envelope.caller].status = "waiting"
      BY <1>1 DEF WaitersOK, WorkerSteps
    <3>2. callers'[envelope.caller].status # "ok"
            /\ \A k \in Callers : k # envelope.caller => callers'[k] = callers[k]
      BY <1>1 DEF RejectCommand, Answer, TypeInv, TypeOK
    <3>3. \A k \in Callers, d \in Commands :
             callers'[k].status = "ok" /\ callers'[k].command = d
               <=> callers[k].status = "ok" /\ callers[k].command = d
      BY <3>1, <3>2
    <3>4. QED
      BY <3>3 DEF Acknowledged
  <2>5. QED
    BY <1>1, <2>2, <2>3, <2>4 DEF CL!Reject
<1>4. QED
  BY <1>2, <1>3 DEF RejectCommand

LEMMA StepRefines ==
    ASSUME StoreInTransaction = TRUE, TypeInv, EngineInv, WaitersOK,
           TypeInv', EngineInv', [Next]_vars
    PROVE  [CL!LogNext]_(CL!logVars)
<1> USE DEF database, version, dispatches, progress, feed
<1>1. ASSUME UNCHANGED <<log, receipts>>
      PROVE  CL!LogNext
  BY <1>1, AnswerStep DEF CL!LogNext
<1>2. CASE UNCHANGED vars
  BY <1>1, <1>2 DEF vars
<1>3. CASE StartUp
  BY <1>1, <1>3 DEF StartUp, BootstrapEvent, BootstrapNextProjector, ReplayLog
<1>4. ASSUME NEW k \in Callers, NEW c \in Commands, Dispatch(k, c)
      PROVE  CL!LogNext
  BY <1>1, <1>4 DEF Dispatch
<1>5. CASE Crash
  BY <1>1, <1>5 DEF Crash
<1>6. CASE Commit
  <2>1. envelope.command \in Commands
    BY <1>6 DEF TypeInv, ControlOK, Commit, WorkerSteps
  <2>2. QED
    BY <1>6, <2>1, CommitStep DEF CL!LogNext
<1>7. CASE RejectCommand
  <2>1. envelope.command \in Commands
    BY <1>7 DEF TypeInv, ControlOK, RejectCommand, WorkerSteps
  <2>2. QED
    BY <1>7, <2>1, RejectStep DEF CL!LogNext
<1>8. CASE Take \/ AnswerFromReceipt \/ LookupFails \/ Decide \/ AppendEvent \/ ProjectEvent
             \/ TransactionFails \/ InstallReadModel \/ Publish \/ Resolve \/ Reconcile
             \/ ReconcileFails
  BY <1>1, <1>8
  DEF Take, AnswerFromReceipt, LookupFails, Decide, AppendEvent, ProjectEvent, TransactionFails,
      InstallReadModel, Publish, Resolve, Reconcile, ReconcileFails
<1>9. QED
  BY <1>2, <1>3, <1>4, <1>5, <1>6, <1>7, <1>8 DEF Next, ProcessEnvelope

LEMMA InitRefines == Init => CL!LogInit
BY DEF Init, CL!LogInit, Verdict, Acknowledged, NoReceipt, Idle

(* Every behaviour of the engine is a behaviour of the command log.        *)
THEOREM RefinementTheorem ==
    ASSUME StoreInTransaction = TRUE
    PROVE  Spec => ImplementsCommandLog
<1>1. TypeInv /\ EngineInv /\ WaitersOK /\ TypeInv' /\ EngineInv' /\ [Next]_vars
         => [CL!LogNext]_(CL!logVars)
  BY StepRefines
<1>2. QED
  BY <1>1, InitRefines, EngineInvariant, WaitersTheorem, PTL
  DEF Spec, ImplementsCommandLog, CL!LogSpec

-----------------------------------------------------------------------------
(* The feed the web socket server and the browsers follow (ClientSync).    *)

(* A step that leaves the log, the feed and the start-up alone.            *)
LEMMA FeedAlone ==
    ASSUME UNCHANGED <<log, feed>>, pc' \in StartUpSteps <=> pc \in StartUpSteps
    PROVE  UNCHANGED EF!feedVars
BY DEF EF!feedVars, Announced, feed

(* Commit writes the one or two events of a command.                       *)
LEMMA CommitExtends ==
    ASSUME StoreInTransaction = TRUE, TypeInv, Commit
    PROVE  EF!Extend
<1>1. /\ pc = "commit" /\ pc' = "install" /\ log' = log \o batch
      /\ bootSequence' = bootSequence /\ published' = published
  BY DEF Commit, feed
<1>2. envelope.command \in Commands /\ Len(batch) = Len(EventTypesOf(envelope.command))
  BY <1>1 DEF TypeInv, ControlOK, WorkerSteps
<1>3. Len(batch) \in 1..2
  BY <1>2, EventTypesOfType
<1>4. Len(log') = Len(log) + Len(batch)
  BY <1>1 DEF TypeInv, TypeOK
<1>5. Announced' = Announced
  BY <1>1 DEF Announced, StartUpSteps
<1>6. QED
  BY <1>3, <1>4, <1>5 DEF EF!Extend, EF!EventsPerCommand

(* Publish announces the event after the last one announced, and it is in  *)
(* the log.                                                                *)
LEMMA PublishAnnounces ==
    ASSUME TypeInv, EngineInv, Publish
    PROVE  EF!Announce
<1>1. /\ pc \in {"publish", "republish"} /\ pc' = pc /\ step < Len(batch) /\ log' = log
      /\ bootSequence' = bootSequence /\ Len(published') = Len(published) + 1
  BY DEF Publish, database, TypeInv, TypeOK
<1>2. /\ Len(published) \in Nat /\ bootSequence \in Nat /\ Len(log) \in Nat
      /\ Len(batch) \in Nat /\ step \in Nat
  BY DEF TypeInv, TypeOK
<1>3. bootSequence + Len(published) + (Len(batch) - step) = Len(log)
  BY <1>1 DEF EngineInv, FeedOK, Unpublished, WorkerSteps
<1>4. Announced = bootSequence + Len(published) /\ Announced' = Announced + 1
  BY <1>1, <1>2 DEF Announced, StartUpSteps
<1>5. QED
  BY <1>1, <1>2, <1>3, <1>4 DEF EF!Announce

LEMMA StepFeeds ==
    ASSUME StoreInTransaction = TRUE, TypeInv, EngineInv, TypeInv', [Next]_vars
    PROVE  [EF!FeedNext]_(EF!feedVars)
<1> USE DEF database, version, dispatches, progress, feed
<1>1. CASE UNCHANGED vars
  BY <1>1, FeedAlone DEF vars
<1>2. CASE BootstrapEvent \/ BootstrapNextProjector
  BY <1>2, FeedAlone DEF BootstrapEvent, BootstrapNextProjector, StartUpSteps
<1>3. CASE ReplayLog
  <2>1. /\ pc = "replay" /\ pc' = "idle" /\ log' = log /\ bootSequence' = Len(log)
        /\ published' = <<>>
    BY <1>3 DEF ReplayLog, EnvelopeDone, EngineInv, FeedOK, StartUpSteps
  <2>2. Announced = Len(log) /\ Announced' = Len(log)
    BY <2>1 DEF Announced, StartUpSteps, TypeInv, TypeOK
  <2>3. QED
    BY <2>1, <2>2 DEF EF!feedVars
<1>4. ASSUME NEW k \in Callers, NEW c \in Commands, Dispatch(k, c)
      PROVE  UNCHANGED EF!feedVars
  BY <1>4, FeedAlone DEF Dispatch
<1>5. CASE Crash
  <2>1. log' = log /\ pc' = "bootstrap"
    BY <1>5 DEF Crash
  <2>2. Announced' = Len(log)
    BY <2>1 DEF Announced, StartUpSteps
  <2>3. QED
    BY <2>1, <2>2 DEF EF!FeedNext, EF!StartOver
<1>6. CASE Commit
  BY <1>6, CommitExtends DEF EF!FeedNext
<1>7. CASE Publish
  BY <1>7, PublishAnnounces DEF EF!FeedNext
<1>8. CASE Take \/ AnswerFromReceipt \/ LookupFails \/ Decide \/ AppendEvent \/ ProjectEvent
             \/ TransactionFails \/ InstallReadModel \/ Resolve \/ Reconcile
             \/ ReconcileFails \/ RejectCommand
  BY <1>8, FeedAlone
  DEF Take, AnswerFromReceipt, LookupFails, Decide, AppendEvent, ProjectEvent, TransactionFails,
      InstallReadModel, Resolve, Reconcile, ReconcileFails, RejectCommand, Fail, EnvelopeDone,
      StartUpSteps
<1>9. QED
  BY <1>1, <1>2, <1>3, <1>4, <1>5, <1>6, <1>7, <1>8 DEF Next, StartUp, ProcessEnvelope

LEMMA InitFeeds == Init => EF!FeedInit
BY DEF Init, EF!FeedInit, Announced, StartUpSteps

(* With a store inside the transaction the engine implements the event     *)
(* feed, and ClientSync takes its events from that feed: what is proved of *)
(* a browser there is proved of one that follows this engine               *)
(* (processEnvelope, 110-160; the replay at start-up).                     *)
THEOREM EventFeedTheorem ==
    ASSUME StoreInTransaction = TRUE
    PROVE  Spec => ImplementsEventFeed
<1>1. TypeInv /\ EngineInv /\ TypeInv' /\ [Next]_vars => [EF!FeedNext]_(EF!feedVars)
  BY StepFeeds
<1>2. QED
  BY <1>1, InitFeeds, EngineInvariant, PTL DEF Spec, ImplementsEventFeed, EF!FeedSpec
-----------------------------------------------------------------------------
(* The projections follow the log.                                         *)

LEMMA FollowsFurther ==
    ASSUME NEW events \in Seq(Event), NEW more \in Seq(Event), NEW table, NEW n \in Nat,
           Follows(table, events, n)
    PROVE  Follows(table, events \o more, n)
<1>1. /\ Len(events \o more) = Len(events) + Len(more)
      /\ Len(events) \in Nat /\ Len(more) \in Nat
      /\ \A i \in 1..Len(events) : (events \o more)[i] = events[i]
  OBVIOUS
<1>2. QED
  BY <1>1 DEF Follows

LEMMA AppliedFollows ==
    ASSUME NEW events \in Seq(Event), NEW table \in Table, NEW n \in Nat, n < Len(events),
           events[n + 1].sequence = n + 1, Follows(table, events, n)
    PROVE  Follows(ApplyEvent(table, events[n + 1]), events, n + 1)
<1> DEFINE new == ApplyEvent(table, events[n + 1])
<1>1. table.rows \in Seq(Event) /\ Len(table.rows) = n
  BY DEF Table, Follows
<1>2. new.rows = Append(table.rows, events[n + 1]) /\ new.lastAppliedSequence = n + 1
  BY DEF ApplyEvent
<1>3. /\ Len(new.rows) = n + 1 /\ new.rows[n + 1] = events[n + 1]
      /\ \A i \in 1..n : new.rows[i] = table.rows[i]
  BY <1>1, <1>2
<1> HIDE DEF new
<1>4. \A i \in 1..n + 1 : i \in 1..n \/ i = n + 1
  OBVIOUS
<1>5. QED
  BY <1>2, <1>3, <1>4 DEF Follows, new

LEMMA ProjectorFacts ==
    /\ \A i \in DOMAIN ProjectorOrder : ProjectorOrder[i] \in Projectors
    /\ \A p \in Projectors : \E i \in DOMAIN ProjectorOrder : p = ProjectorOrder[i]
    /\ \A i, j \in DOMAIN ProjectorOrder : ProjectorOrder[i] = ProjectorOrder[j] => i = j
    /\ DOMAIN ProjectorOrder = 1..Len(ProjectorOrder) /\ Len(ProjectorOrder) \in Nat
BY EngineAssumption DEF Projectors

LEMMA TableFacts ==
    ASSUME TypeInv
    PROVE  /\ log \in Seq(Event) /\ batch \in Seq(Event) /\ Len(log) \in Nat /\ Len(batch) \in Nat
           /\ tables \in [Projectors -> Table] /\ working \in [Projectors -> Table]
           /\ installed \subseteq Projectors /\ remaining \in Nat /\ step \in Nat
           /\ \A p \in Projectors : Cursor(p) \in Nat
<1>1. /\ log \in Seq(Event) /\ batch \in Seq(Event)
      /\ tables \in [Projectors -> Table] /\ working \in [Projectors -> Table]
      /\ installed \subseteq Projectors /\ remaining \in 0..ReadLimit
      /\ step \in 0..Len(ProjectorOrder) + Len(batch)
  BY DEF TypeInv, TypeOK
<1>2. \A p \in Projectors : Cursor(p) \in Nat
  BY <1>1 DEF Cursor, Table
<1>3. QED
  BY <1>1, <1>2, EngineAssumption

(* A step that touches no table and is neither in the bootstrap nor in a   *)
(* transaction afterwards.                                                 *)
LEMMA TablesAlone ==
    ASSUME TypeInv, TablesOK, UNCHANGED <<log, tables, installed>>, pc # "bootstrap",
           pc' # "bootstrap", pc' \notin InTransaction
    PROVE  TablesOK'
BY DEF TablesOK, PrefixOK, BootstrapOK, CurrentOK, WorkingOK, Cursor

LEMMA TablesSame ==
    ASSUME TablesOK, UNCHANGED <<log, tables, installed, pc, working, batch, step, remaining>>
    PROVE  TablesOK'
<1>1. \A i : Seen(i)' = Seen(i)
  BY DEF Seen
<1>2. QED
  BY <1>1 DEF TablesOK, PrefixOK, BootstrapOK, CurrentOK, WorkingOK, Cursor

LEMMA BootstrapEventKeepsTables ==
    ASSUME TypeInv, EngineInv, TablesOK, BootstrapEvent
    PROVE  TablesOK'
<1> DEFINE p == ProjectorOrder[step]
           n == Cursor(p)
<1>1. step \in DOMAIN ProjectorOrder /\ p \in Projectors
  BY ProjectorFacts DEF TypeInv, ControlOK, BootstrapEvent
<1>2. /\ pc = "bootstrap" /\ p \in installed /\ remaining > 0 /\ n < Len(log)
      /\ tables' = [tables EXCEPT ![p] = ApplyEvent(tables[p], log[n + 1])]
      /\ remaining' = remaining - 1
      /\ UNCHANGED <<log, installed, pc, step>>
  BY DEF BootstrapEvent, Cursor, version
<1>3. Follows(tables'[p], log, n + 1)
  <2>1. log[n + 1].sequence = n + 1
    BY <1>1, <1>2, TableFacts DEF EngineInv, ReceiptOK, ReceiptsAgreeWithLog
  <2>2. Follows(tables[p], log, n) /\ tables[p] \in Table
    BY <1>1, TableFacts DEF TablesOK, PrefixOK
  <2>3. Follows(ApplyEvent(tables[p], log[n + 1]), log, n + 1)
    BY <1>1, <1>2, <2>1, <2>2, TableFacts, AppliedFollows
  <2>4. QED
    BY <1>1, <1>2, <2>3, TableFacts
<1>4. tables'[p].lastAppliedSequence = n + 1
  BY <1>3 DEF Follows
<1>5. \A q \in Projectors \ {p} : tables'[q] = tables[q]
  BY <1>2, TableFacts
<1> HIDE DEF p
<1>6. PrefixOK'
  <2> SUFFICES ASSUME NEW q \in Projectors
               PROVE  Follows(tables'[q], log, tables'[q].lastAppliedSequence)
    BY <1>2 DEF PrefixOK, Cursor
  <2>1. QED
    BY <1>3, <1>4, <1>5 DEF TablesOK, PrefixOK, Cursor
<1>7. BootstrapOK'
  <2> SUFFICES ASSUME NEW i \in DOMAIN ProjectorOrder, ProjectorOrder[i] \in installed, i <= step
               PROVE  LET c == tables'[ProjectorOrder[i]].lastAppliedSequence
                      IN  /\ i < step => c = Len(log)
                          /\ i = step => Len(log) <= c + (remaining - 1)
    BY <1>1, <1>2, ProjectorFacts DEF BootstrapOK, Cursor
  <2>1. CASE i < step
    <3>1. ProjectorOrder[i] \in Projectors \ {p}
      BY <1>1, <2>1, ProjectorFacts DEF p
    <3>2. QED
      BY <1>1, <1>2, <1>5, <2>1, <3>1, ProjectorFacts DEF TablesOK, BootstrapOK, Cursor
  <2>2. CASE i = step
    <3>1. Len(log) <= n + remaining
      BY <1>1, <1>2, <2>2 DEF TablesOK, BootstrapOK, p
    <3>2. n \in Nat /\ remaining \in Nat /\ Len(log) \in Nat
      BY <1>1, TableFacts
    <3>3. ProjectorOrder[i] = p
      BY <2>2 DEF p
    <3> HIDE DEF n
    <3>4. Len(log) <= (n + 1) + (remaining - 1)
      BY <3>1, <3>2
    <3>5. QED
      BY <1>1, <1>4, <2>2, <3>3, <3>4, ProjectorFacts
  <2>3. QED
    BY <1>1, <2>1, <2>2, ProjectorFacts
<1>8. QED
  BY <1>2, <1>6, <1>7 DEF TablesOK, CurrentOK, WorkingOK, InTransaction

LEMMA BootstrapNextKeepsTables ==
    ASSUME TypeInv, TablesOK, BootstrapInReach, BootstrapNextProjector
    PROVE  TablesOK'
<1> DEFINE p == ProjectorOrder[step]
<1>1. step \in DOMAIN ProjectorOrder /\ p \in Projectors
  BY ProjectorFacts DEF TypeInv, ControlOK, BootstrapNextProjector
<1>2. /\ pc = "bootstrap"
      /\ p \notin installed \/ remaining = 0 \/ Cursor(p) >= Len(log)
      /\ remaining' = ReadLimit
      /\ IF step = Len(ProjectorOrder) THEN pc' = "replay" ELSE pc' = pc /\ step' = step + 1
      /\ UNCHANGED <<log, tables, installed>>
  BY DEF BootstrapNextProjector, Cursor, version, database
<1>3. p \in installed => Cursor(p) = Len(log)
  <2> SUFFICES ASSUME p \in installed PROVE Cursor(p) = Len(log)
    OBVIOUS
  <2>1. Cursor(p) <= Len(log) /\ Cursor(p) \in Nat /\ Len(log) \in Nat
    BY <1>1, TableFacts DEF TablesOK, PrefixOK, Follows
  <2>2. Len(log) <= Cursor(p) + remaining
    BY <1>1, <1>2 DEF TablesOK, BootstrapOK, BootstrapNextProjector
  <2>3. QED
    BY <1>2, <2>1, <2>2 DEF BootstrapNextProjector
<1>4. \A i \in DOMAIN ProjectorOrder :
         i <= step /\ ProjectorOrder[i] \in installed => Cursor(ProjectorOrder[i]) = Len(log)
  <2> SUFFICES ASSUME NEW i \in DOMAIN ProjectorOrder, i <= step, ProjectorOrder[i] \in installed
               PROVE  Cursor(ProjectorOrder[i]) = Len(log)
    OBVIOUS
  <2>1. pc = "bootstrap"
    BY DEF BootstrapNextProjector
  <2>2. i < step \/ i = step
    BY <1>1, ProjectorFacts
  <2>3. QED
    BY <1>3, <2>1, <2>2 DEF TablesOK, BootstrapOK
<1>5. PrefixOK'
  BY <1>2 DEF TablesOK, PrefixOK, Cursor
<1>6. CASE step = Len(ProjectorOrder)
  <2>1. \A q \in installed : Cursor(q) = Len(log)
    BY <1>4, <1>6, ProjectorFacts, TableFacts
  <2>2. QED
    BY <1>2, <1>5, <1>6, <2>1
    DEF TablesOK, BootstrapOK, CurrentOK, WorkingOK, InTransaction, Cursor
<1>7. CASE step # Len(ProjectorOrder)
  <2>1. pc' = "bootstrap" /\ step' = step + 1
    BY <1>2, <1>7 DEF BootstrapNextProjector
  <2>2. BootstrapOK'
    <3> SUFFICES ASSUME NEW i \in DOMAIN ProjectorOrder, ProjectorOrder[i] \in installed
                 PROVE  LET c == Cursor(ProjectorOrder[i])
                        IN  /\ i < step + 1 => c = Len(log)
                            /\ i = step + 1 => Len(log) <= c + ReadLimit
      BY <1>2, <2>1 DEF BootstrapOK, Cursor
    <3>1. i \in Nat /\ step \in Nat /\ Len(log) \in Nat /\ Cursor(ProjectorOrder[i]) \in Nat
      BY ProjectorFacts, TableFacts
    <3>2. Len(log) <= ReadLimit /\ ReadLimit \in Nat
      BY EngineAssumption DEF BootstrapInReach, BootstrapNextProjector
    <3>3. QED
      BY <1>4, <3>1, <3>2
  <2>3. QED
    BY <1>5, <2>1, <2>2 DEF TablesOK, CurrentOK, WorkingOK, InTransaction
<1>8. QED
  BY <1>6, <1>7


LEMMA DecideKeepsTables ==
    ASSUME TypeInv, TablesOK, Decide
    PROVE  TablesOK'
<1>1. /\ UNCHANGED <<log, tables, installed>> /\ pc = "lookup" /\ working' = tables
      /\ \/ pc' = "append" /\ batch' = <<>>
         \/ pc' = "reconcile"
  BY DEF Decide, Fail, database, version
<1>2. CASE pc' = "reconcile"
  BY <1>1, <1>2, TablesAlone DEF InTransaction
<1>3. CASE pc' = "append" /\ batch' = <<>>
  <2>1. log \o <<>> = log /\ Len(<<>>) = 0 /\ Len(log) \in Nat
    BY TableFacts
  <2>2. \A i \in DOMAIN ProjectorOrder : ProjectorOrder[i] \in installed =>
            Follows(tables[ProjectorOrder[i]], log, Len(log))
    BY <1>1, TableFacts DEF TablesOK, PrefixOK, CurrentOK
  <2>3. \A i : Seen(i)' = 0
    BY <1>3, <2>1 DEF Seen
  <2>4. WorkingOK'
    BY <1>1, <1>3, <2>1, <2>2, <2>3 DEF WorkingOK
  <2>5. QED
    BY <1>1, <1>3, <2>4 DEF TablesOK, PrefixOK, BootstrapOK, CurrentOK, Cursor
<1>4. QED
  BY <1>1, <1>2, <1>3

LEMMA AppendKeepsTables ==
    ASSUME StoreInTransaction = TRUE, TypeInv, TablesOK, AppendEvent
    PROVE  TablesOK'
<1>1. PICK saved : /\ saved = [sequence |-> NextSequence,
                               type |-> EventTypesOf(envelope.command)[Len(batch) + 1],
                               command |-> envelope.command]
                   /\ batch' = Append(batch, saved)
  BY DEF AppendEvent
<1>2. /\ UNCHANGED <<log, tables, installed, working>> /\ pc = "append" /\ pc' = "project"
      /\ step' = 1
  BY DEF AppendEvent, version
<1>3. batch' \in Seq(Event)
  BY NextTypeInv DEF TypeInv, TypeOK, Next, ProcessEnvelope
<1>4. /\ Len(batch') = Len(batch) + 1 /\ log \o batch' = (log \o batch) \o <<saved>>
      /\ saved \in Event
  <2>1. batch'[Len(batch) + 1] = saved /\ Len(batch') = Len(batch) + 1
    BY <1>1, TableFacts
  <2>2. saved \in Event
    BY <1>3, <2>1, TableFacts
  <2>3. batch' = batch \o <<saved>> /\ <<saved>> \in Seq(Event)
    BY <1>1, <2>2, TableFacts, AppendIsConcat
  <2>4. log \o (batch \o <<saved>>) = (log \o batch) \o <<saved>>
    BY <2>3, TableFacts, ConcatAssociative
  <2>5. QED
    BY <2>1, <2>2, <2>3, <2>4
<1>5. \A i \in DOMAIN ProjectorOrder : Seen(i)' = Seen(i)
  BY <1>2, <1>4, TableFacts, ProjectorFacts DEF Seen
<1>6. \A i \in DOMAIN ProjectorOrder : Len(log) + Seen(i) \in Nat
  BY <1>2, TableFacts DEF Seen
<1>7. WorkingOK'
  <2> SUFFICES ASSUME NEW i \in DOMAIN ProjectorOrder
               PROVE  LET p == ProjectorOrder[i]
                      IN  IF p \in installed
                          THEN Follows(working[p], log \o batch', Len(log) + Seen(i))
                          ELSE working[p] = tables[p]
    BY <1>2, <1>5 DEF WorkingOK, InTransaction
  <2>1. /\ log \o batch \in Seq(Event) /\ <<saved>> \in Seq(Event)
        /\ log \o batch' = (log \o batch) \o <<saved>>
    BY <1>4, TableFacts
  <2>2. LET p == ProjectorOrder[i]
        IN  IF p \in installed
            THEN Follows(working[p], log \o batch, Len(log) + Seen(i))
            ELSE working[p] = tables[p]
    BY <1>2 DEF TablesOK, WorkingOK, InTransaction
  <2>3. QED
    BY <1>6, <2>1, <2>2, FollowsFurther
<1>8. QED
  BY <1>2, <1>7 DEF TablesOK, PrefixOK, BootstrapOK, CurrentOK, Cursor

(* The events of a transaction are numbered on from the log.               *)
LEMMA TentativeSequence ==
    ASSUME TypeInv, EngineInv, pc \in InTransaction, batch # <<>>
    PROVE  /\ Last(batch) = (log \o batch)[Len(log) + Len(batch)]
           /\ Last(batch).sequence = Len(log) + Len(batch)
<1>1. /\ log \in Seq(Event) /\ batch \in Seq(Event) /\ Len(batch) \in 1..Len(batch)
      /\ Len(batch) \in DOMAIN batch
  BY TableFacts
<1>2. Last(batch) = batch[Len(batch)]
  BY DEF Last
<1>3. (log \o batch)[Len(log) + Len(batch)] = batch[Len(batch)]
  BY <1>1
<1>4. batch[Len(batch)] = [sequence |-> Len(log) + Len(batch),
                           type |-> EventTypesOf(envelope.command)[Len(batch)],
                           command |-> envelope.command]
  BY <1>1 DEF EngineInv, BatchOK
<1>5. QED
  BY <1>2, <1>3, <1>4

LEMMA ProjectKeepsTables ==
    ASSUME TypeInv, EngineInv, TablesOK, ProjectEvent
    PROVE  TablesOK'
<1> DEFINE p == ProjectorOrder[step]
           all == log \o batch
           n == Len(log) + Len(batch)
           event == Last(batch)
<1>1. /\ pc = "project" /\ step \in DOMAIN ProjectorOrder /\ p \in Projectors /\ batch # <<>>
  BY ProjectorFacts DEF TypeInv, ControlOK, ProjectEvent
<1>2. /\ working' = IF p \in installed
                    THEN [working EXCEPT ![p] = ApplyEvent(working[p], event)] ELSE working
      /\ \/ step < Len(ProjectorOrder) /\ step' = step + 1 /\ pc' = "project"
         \/ step >= Len(ProjectorOrder) /\ pc' \in {"append", "commit"}
      /\ UNCHANGED <<log, tables, installed, batch>>
  BY <1>1, ProjectorFacts DEF ProjectEvent, database, version
<1>3. /\ log \in Seq(Event) /\ batch \in Seq(Event) /\ all \in Seq(Event) /\ Len(all) = n
      /\ n \in Nat /\ Len(batch) \in Nat \ {0} /\ Len(log) \in Nat
  BY <1>1, TableFacts
<1>4. event = all[n] /\ event.sequence = n
  BY <1>1, TentativeSequence DEF InTransaction
<1>5. p \in installed => Follows(working'[p], all, n)
  <2> SUFFICES ASSUME p \in installed PROVE Follows(working'[p], all, n)
    OBVIOUS
  <2>1. Follows(working[p], all, n - 1)
    <3>1. Seen(step) = Len(batch) - 1
      BY <1>1, ProjectorFacts DEF Seen
    <3>2. Follows(working[p], all, Len(log) + Seen(step))
      BY <1>1 DEF TablesOK, WorkingOK, InTransaction
    <3>3. Len(log) + (Len(batch) - 1) = n - 1
      BY <1>3
    <3>4. QED
      BY <3>1, <3>2, <3>3
  <2>2. working[p] \in Table /\ working'[p] = ApplyEvent(working[p], event)
    BY <1>1, <1>2, TableFacts
  <2> HIDE DEF p, all, n, event
  <2>3. /\ n - 1 \in Nat /\ (n - 1) + 1 = n /\ n - 1 < Len(all)
    BY <1>3 DEF n
  <2>4. Follows(ApplyEvent(working[p], all[n]), all, n)
    <3> DEFINE m == n - 1
    <3>1. m \in Nat /\ m + 1 = n /\ m < Len(all) /\ Follows(working[p], all, m)
      BY <2>1, <2>3
    <3> HIDE DEF m
    <3>2. all[m + 1].sequence = m + 1
      BY <1>4, <3>1
    <3>3. Follows(ApplyEvent(working[p], all[m + 1]), all, m + 1)
      BY <1>3, <2>2, <3>1, <3>2, AppliedFollows
    <3>4. QED
      BY <3>1, <3>3
  <2>5. QED
    BY <1>4, <2>2, <2>4
<1>6. \A q \in Projectors \ {p} : working'[q] = working[q]
  BY <1>2, TableFacts
<1>7. p \notin installed => working' = working
  BY <1>2
<1> HIDE DEF p
<1>8. pc' \in InTransaction
  BY <1>2 DEF InTransaction
<1>9. \A i \in DOMAIN ProjectorOrder :
         Seen(i)' = IF i <= step THEN Len(batch) ELSE Len(batch) - 1
  BY <1>1, <1>2, ProjectorFacts DEF Seen
<1>10. \A i \in DOMAIN ProjectorOrder :
         Seen(i) = IF i < step THEN Len(batch) ELSE Len(batch) - 1
  BY <1>1, ProjectorFacts DEF Seen
<1>11. WorkingOK'
  <2> SUFFICES ASSUME NEW i \in DOMAIN ProjectorOrder
               PROVE  LET q == ProjectorOrder[i]
                      IN  IF q \in installed
                          THEN Follows(working'[q], all, Len(log) + Seen(i)')
                          ELSE working'[q] = tables[q]
    BY <1>2 DEF WorkingOK
  <2> DEFINE q == ProjectorOrder[i]
  <2>1. IF q \in installed THEN Follows(working[q], all, Len(log) + Seen(i))
        ELSE working[q] = tables[q]
    BY <1>1 DEF TablesOK, WorkingOK, InTransaction
  <2>2. CASE i = step
    <3>1. q = p /\ Seen(i)' = Len(batch)
      BY <1>9, <2>2, <1>1, ProjectorFacts DEF p
    <3>2. QED
      BY <1>5, <1>7, <2>1, <3>1
  <2>3. CASE i # step
    <3>1. q \in Projectors \ {p} /\ working'[q] = working[q]
      BY <1>1, <1>6, <2>3, ProjectorFacts DEF p
    <3>2. Seen(i)' = Seen(i)
      BY <1>1, <1>9, <1>10, <2>3, ProjectorFacts
    <3> HIDE DEF q
    <3>3. IF q \in installed THEN Follows(working'[q], all, Len(log) + Seen(i))
          ELSE working'[q] = tables[q]
      BY <2>1, <3>1
    <3>4. QED
      BY <3>2, <3>3 DEF q
  <2>4. QED
    BY <2>2, <2>3
<1>12. QED
  BY <1>1, <1>2, <1>11 DEF TablesOK, PrefixOK, BootstrapOK, CurrentOK, Cursor

LEMMA CommitKeepsTables ==
    ASSUME StoreInTransaction = TRUE, TypeInv, TablesOK, Commit
    PROVE  TablesOK'
<1>1. /\ pc = "commit" /\ pc' = "install" /\ tables' = working /\ log' = log \o batch
      /\ UNCHANGED installed
  BY DEF Commit, version
<1>2. Len(log') = Len(log) + Len(batch)
  BY <1>1, TableFacts
<1>3. \A i : Seen(i) = Len(batch)
  BY <1>1 DEF Seen
<1>4. \A p \in installed : Follows(tables'[p], log', Len(log'))
  <2> SUFFICES ASSUME NEW p \in installed PROVE Follows(working[p], log', Len(log'))
    BY <1>1
  <2>1. PICK i \in DOMAIN ProjectorOrder : p = ProjectorOrder[i]
    BY TableFacts, ProjectorFacts
  <2>2. Follows(working[p], log \o batch, Len(log) + Seen(i))
    BY <1>1, <2>1 DEF TablesOK, WorkingOK, InTransaction
  <2>3. QED
    BY <1>1, <1>2, <1>3, <2>2
<1>5. \A p \in Projectors \ installed : Follows(tables'[p], log', Cursor(p))
                                         /\ tables'[p] = tables[p]
  <2> SUFFICES ASSUME NEW p \in Projectors \ installed
               PROVE  Follows(working[p], log \o batch, Cursor(p)) /\ working[p] = tables[p]
    BY <1>1
  <2>1. PICK i \in DOMAIN ProjectorOrder : p = ProjectorOrder[i]
    BY ProjectorFacts
  <2>2. working[p] = tables[p]
    BY <1>1, <2>1 DEF TablesOK, WorkingOK, InTransaction
  <2>3. Follows(tables[p], log, Cursor(p)) /\ Cursor(p) \in Nat
    BY TableFacts DEF TablesOK, PrefixOK
  <2>4. QED
    BY <2>2, <2>3, FollowsFurther, TableFacts
<1>6. \A p \in installed : tables'[p].lastAppliedSequence = Len(log')
  BY <1>4 DEF Follows
<1>7. PrefixOK'
  <2> SUFFICES ASSUME NEW p \in Projectors
               PROVE  Follows(tables'[p], log', tables'[p].lastAppliedSequence)
    BY DEF PrefixOK, Cursor
  <2>1. CASE p \in installed
    BY <1>4, <1>6, <2>1
  <2>2. CASE p \notin installed
    BY <1>5, <2>2 DEF Cursor
  <2>3. QED
    BY <2>1, <2>2
<1>8. CurrentOK'
  BY <1>1, <1>6 DEF CurrentOK, Cursor
<1>9. QED
  BY <1>1, <1>7, <1>8 DEF TablesOK, BootstrapOK, WorkingOK, InTransaction

LEMMA CrashKeepsTables ==
    ASSUME TypeInv, TablesOK, Crash, BootstrapInReach'
    PROVE  TablesOK'
<1>1. /\ UNCHANGED <<log, tables>> /\ pc' = "bootstrap" /\ step' = 1 /\ remaining' = ReadLimit
  BY DEF Crash, database
<1>2. Len(log) <= ReadLimit /\ ReadLimit \in Nat /\ Len(log) \in Nat
  BY <1>1, TableFacts, EngineAssumption DEF BootstrapInReach
<1>3. PrefixOK'
  BY <1>1 DEF TablesOK, PrefixOK, Cursor
<1>4. BootstrapOK'
  <2> SUFFICES ASSUME NEW i \in DOMAIN ProjectorOrder
               PROVE  ~(i < 1) /\ Len(log) <= Cursor(ProjectorOrder[i]) + ReadLimit
    BY <1>1 DEF BootstrapOK, Cursor
  <2>1. i \in Nat \ {0} /\ Cursor(ProjectorOrder[i]) \in Nat
    BY ProjectorFacts, TableFacts
  <2>2. QED
    BY <1>2, <2>1
<1>5. QED
  BY <1>1, <1>3, <1>4 DEF TablesOK, CurrentOK, WorkingOK, InTransaction

LEMMA NextTablesOK ==
    ASSUME StoreInTransaction = TRUE, TypeInv, EngineInv, TablesOK, [Next]_vars,
           BootstrapInReach, BootstrapInReach'
    PROVE  TablesOK'
<1>1. CASE StartUp
  <2>1. CASE ReplayLog
    BY <2>1, TablesAlone DEF ReplayLog, EnvelopeDone, database, version, InTransaction
  <2>2. QED
    BY <1>1, <2>1, BootstrapEventKeepsTables, BootstrapNextKeepsTables DEF StartUp
<1>2. CASE Take \/ AnswerFromReceipt \/ LookupFails \/ TransactionFails \/ InstallReadModel
           \/ Publish \/ Resolve \/ Reconcile \/ ReconcileFails \/ RejectCommand
  <2>1. /\ UNCHANGED <<log, tables, installed>> /\ pc # "bootstrap" /\ pc' # "bootstrap"
        /\ pc' \notin InTransaction
    BY <1>2
    DEF Take, AnswerFromReceipt, LookupFails, TransactionFails, InstallReadModel, Publish,
        Resolve, Reconcile, ReconcileFails, RejectCommand, EnvelopeDone, Fail, database,
        version, InTransaction
  <2>2. QED
    BY <2>1, TablesAlone
<1>3. CASE UNCHANGED vars \/ \E k \in Callers, c \in Commands : Dispatch(k, c)
  BY <1>3, TablesSame DEF vars, Dispatch, database, version, progress
<1>4. CASE Decide \/ AppendEvent \/ ProjectEvent \/ Commit
  BY <1>4, DecideKeepsTables, AppendKeepsTables, ProjectKeepsTables, CommitKeepsTables
<1>5. CASE Crash
  BY <1>5, CrashKeepsTables
<1>6. QED
  BY <1>1, <1>2, <1>3, <1>4, <1>5 DEF Next, ProcessEnvelope

LEMMA InitTablesOK == Init => TablesOK
<1> SUFFICES ASSUME Init PROVE TablesOK
  OBVIOUS
<1>1. /\ Len(log) = 0 /\ pc = "bootstrap" /\ step = 1 /\ remaining \in Nat
      /\ \A p \in Projectors : tables[p] = EmptyTable
  BY EngineAssumption DEF Init
<1>2. EmptyTable.lastAppliedSequence = 0 /\ Len(EmptyTable.rows) = 0
  BY DEF EmptyTable
<1>3. PrefixOK
  BY <1>1, <1>2 DEF PrefixOK, Follows, Cursor
<1>4. BootstrapOK
  <2>1. \A i \in DOMAIN ProjectorOrder : ~(i < 1) /\ ProjectorOrder[i] \in Projectors
    BY ProjectorFacts
  <2>2. QED
    BY <1>1, <1>2, <2>1 DEF BootstrapOK, Cursor
<1>5. QED
  BY <1>1, <1>3, <1>4 DEF TablesOK, CurrentOK, WorkingOK, InTransaction

(* Whenever the engine serves, the table of every installed projector      *)
(* holds exactly the log, whatever died or was rolled back before and      *)
(* whichever projectors a newer version brought (ProjectionsAreCurrent;    *)
(* runProjectorForEvent, bootstrap), provided that no start-up meets a log *)
(* of more events than one read returns: without that it is false, as the  *)
(* run with a short read limit shows.                                      *)
THEOREM ProjectionsTheorem ==
    ASSUME StoreInTransaction = TRUE
    PROVE  Spec /\ []BootstrapInReach => []ProjectionsAreCurrent
<1>1. TypeInv /\ TablesOK => ProjectionsAreCurrent
  <2> SUFFICES ASSUME TypeInv, TablesOK, pc \notin StartUpSteps, NEW p \in installed
               PROVE  tables[p] = [rows |-> log, lastAppliedSequence |-> Len(log)]
    BY DEF ProjectionsAreCurrent
  <2>1. p \in Projectors /\ tables[p] \in Table /\ log \in Seq(Event)
    BY TableFacts
  <2>2. tables[p].lastAppliedSequence = Len(log) /\ Follows(tables[p], log, Len(log))
    BY <2>1 DEF TablesOK, PrefixOK, CurrentOK, StartUpSteps, Cursor
  <2>3. tables[p].rows \in Seq(Event)
    BY <2>1 DEF Table
  <2>4. tables[p].rows = log
    BY <2>1, <2>2, <2>3, SeqEqual DEF Follows
  <2>5. QED
    BY <2>1, <2>2, <2>4 DEF Table
<1>2. TypeInv /\ EngineInv /\ BootstrapInReach /\ BootstrapInReach' /\ TablesOK /\ [Next]_vars
        => TablesOK'
  BY NextTablesOK
<1>3. Spec => Init /\ [][Next]_vars /\ [](TypeInv /\ EngineInv)
  BY EngineInvariant, PTL DEF Spec
<1>4. QED
  BY <1>1, <1>2, <1>3, InitTablesOK, PTL


-----------------------------------------------------------------------------
(* A store outside the transaction: what the reconciliation is for.        *)

LEMMA OpenSeqs ==
    ASSUME TypeInv
    PROVE  /\ log \in Seq(Event) /\ batch \in Seq(Event) /\ readModel \in Seq(Event)
           /\ published \in Seq(Event)
BY DEF TypeInv, TypeOK

LEMMA OpenFacts ==
    ASSUME TypeInv
    PROVE  /\ Len(log) \in Nat /\ Len(batch) \in Nat /\ Len(readModel) \in Nat
           /\ Len(published) \in Nat /\ bootSequence \in Nat /\ step \in Nat
           /\ reconcileFailed \in BOOLEAN
           /\ DOMAIN log = 1..Len(log) /\ DOMAIN batch = 1..Len(batch)
           /\ DOMAIN readModel = 1..Len(readModel) /\ DOMAIN published = 1..Len(published)
<1>1. /\ bootSequence \in Nat /\ reconcileFailed \in BOOLEAN
      /\ step \in 0..Len(ProjectorOrder) + Len(batch)
  BY DEF TypeInv, TypeOK
<1>2. QED
  BY <1>1, OpenSeqs, EngineAssumption

LEMMA ShiftedSum ==
    ASSUME NEW a \in Nat, NEW b \in Nat, NEW c \in Nat, NEW d \in Nat, NEW e \in Nat,
           a + b = c, e = c + d
    PROVE  a + b + d = e + 0 /\ d <= e /\ e <= e
OBVIOUS

LEMMA EventCount ==
    ASSUME NEW c
    PROVE  Len(EventTypesOf(c)) \in Nat /\ Len(EventTypesOf(c)) <= 2
<1>1. Len(EventTypesOf(c)) \in {1, 2}
  BY DEF EventTypesOf
<1>2. ASSUME NEW l \in {1, 2} PROVE l \in Nat /\ l <= 2
  OBVIOUS
<1>3. QED
  BY <1>1, <1>2

(* The batch is the command's, so a failure leaves at most two events.     *)
LEMMA SmallBatch ==
    ASSUME TypeInv, pc \in InTransaction
    PROVE  Len(batch) <= 2
<1>1. Len(EventTypesOf(envelope.command)) \in Nat /\ Len(EventTypesOf(envelope.command)) <= 2
  BY EventCount
<1>2. Len(batch) \in Nat
  BY OpenFacts
<1>3. \/ Len(batch) <= Len(EventTypesOf(envelope.command))
      \/ Len(batch) < Len(EventTypesOf(envelope.command))
      \/ Len(batch) = Len(EventTypesOf(envelope.command))
  BY DEF TypeInv, ControlOK, InTransaction
<1>4. QED
  BY <1>1, <1>2, <1>3

(* A step from which on the worker has nothing in hand.                    *)
OpenSame == UNCHANGED <<log, readModel, published, bootSequence, reconcileFailed>>

LEMMA OpenStays ==
    ASSUME OpenInv, OpenSame, UNCHANGED <<pc, batch, step>>
    PROVE  OpenInv'
BY DEF OpenInv, OpenSame, OpenModelOK, OpenBatchOK, OpenFeedOK

LEMMA OpenMoves ==
    ASSUME TypeInv, OpenInv, OpenSame,
           \/ pc \in {"idle", "lookup"} /\ pc' \in {"lookup", "append", "reconcile"}
                /\ UNCHANGED <<batch, step>>
           \/ pc \in InTransaction \ {"append"} /\ pc' \in InTransaction /\ UNCHANGED batch
           \/ pc \in InTransaction /\ pc' = "reconcile"
           \/ pc = "lookup" /\ pc' = "idle" /\ UNCHANGED <<batch, step>>
           \/ pc \in {"publish", "republish"} /\ step = Len(batch) /\ pc' = "idle"
           \/ pc = "bootstrap" /\ pc' \in StartUpSteps
    PROVE  OpenInv'
<1> SUFFICES ASSUME ~reconcileFailed PROVE OpenModelOK' /\ OpenBatchOK' /\ OpenFeedOK'
  BY DEF OpenInv, OpenSame
<1>1. OpenModelOK /\ OpenBatchOK /\ OpenFeedOK
  BY DEF OpenInv
<1> USE DEF OpenSame, OpenModelOK, OpenBatchOK, OpenFeedOK, WorkerSteps, StartUpSteps, InTransaction
<1>2. CASE \/ pc \in {"idle", "lookup"} /\ pc' \in {"lookup", "append", "reconcile"}
                /\ UNCHANGED <<batch, step>>
           \/ pc = "lookup" /\ pc' = "idle" /\ UNCHANGED <<batch, step>>
  <2>1. batch = <<>> /\ Len(<<>>) = 0 /\ DOMAIN batch = {}
    BY <1>2 DEF TypeInv, ControlOK
  <2>2. Len(log) \in Nat /\ Len(readModel) = Len(log)
    BY <1>1, <1>2, OpenFacts
  <2>3. Len(log) <= Len(log) + 2 /\ Len(log) = Len(log) + 0 /\ 0 <= Len(log)
    BY <2>2
  <2>4. QED
    BY <1>1, <1>2, <2>1, <2>2, <2>3
<1>3. CASE pc \in InTransaction \ {"append"} /\ pc' \in InTransaction /\ UNCHANGED batch
  BY <1>1, <1>3
<1>4. CASE pc \in InTransaction /\ pc' = "reconcile"
  <2>1. Len(batch) <= 2 /\ Len(batch) \in Nat /\ Len(readModel) \in Nat
    BY <1>4, SmallBatch, OpenFacts
  <2>2. Len(log) = Len(readModel) + Len(batch)
    BY <1>1, <1>4
  <2>3. Len(log) <= Len(readModel) + 2
    BY <2>1, <2>2
  <2>4. QED
    BY <1>1, <1>4, <2>3
<1>5. CASE pc \in {"publish", "republish"} /\ step = Len(batch) /\ pc' = "idle"
  <2>1. bootSequence + Len(published) + Len(batch) = Len(readModel) + Len(batch)
    BY <1>1, <1>5
  <2>2. bootSequence + Len(published) = Len(readModel)
    BY <2>1, OpenFacts
  <2>3. QED
    BY <1>1, <1>5, <2>2
<1>6. CASE pc = "bootstrap" /\ pc' \in StartUpSteps
  BY <1>1, <1>6
<1>7. QED
  BY <1>2, <1>3, <1>4, <1>5, <1>6

LEMMA OpenReplay ==
    ASSUME TypeInv, OpenInv, ReplayLog
    PROVE  OpenInv'
<1>1. /\ readModel' = log /\ bootSequence' = Len(log) /\ pc = "replay" /\ pc' = "idle"
      /\ UNCHANGED <<log, published, reconcileFailed>>
  BY DEF ReplayLog, EnvelopeDone, database
<1>2. ~reconcileFailed => published' = <<>> /\ Len(<<>>) = 0 /\ DOMAIN published' = {}
  BY <1>1 DEF OpenInv, OpenFeedOK, StartUpSteps
<1>3. Len(log) \in Nat /\ Len(log) <= Len(log) /\ Len(log) + 0 = Len(log)
  BY OpenFacts
<1>4. QED
  BY <1>1, <1>2, <1>3
  DEF OpenInv, OpenModelOK, OpenBatchOK, OpenFeedOK, WorkerSteps, StartUpSteps, InTransaction

LEMMA OpenAppend ==
    ASSUME StoreInTransaction = FALSE, TypeInv, OpenInv, AppendEvent
    PROVE  OpenInv'
<1>1. PICK saved : /\ saved.sequence = Len(log) + 1
                   /\ batch' = Append(batch, saved) /\ log' = Append(log, saved)
  BY DEF AppendEvent, NextSequence
<1>2. /\ pc = "append" /\ pc' = "project"
      /\ UNCHANGED <<readModel, published, bootSequence, reconcileFailed>>
  BY DEF AppendEvent, feed
<1>3. /\ Len(log') = Len(log) + 1 /\ Len(batch') = Len(batch) + 1
      /\ DOMAIN log' = 1..Len(log) + 1 /\ DOMAIN batch' = 1..Len(batch) + 1
      /\ log'[Len(log) + 1] = saved /\ batch'[Len(batch) + 1] = saved
      /\ \A i \in 1..Len(log) : log'[i] = log[i]
      /\ \A i \in 1..Len(batch) : batch'[i] = batch[i]
  BY <1>1, OpenSeqs
<1>4. \A i \in DOMAIN log' : log'[i].sequence = i
  <2> SUFFICES ASSUME NEW i \in DOMAIN log' PROVE log'[i].sequence = i
    OBVIOUS
  <2>1. CASE i = Len(log) + 1
    BY <1>1, <1>3, <2>1
  <2>2. CASE i # Len(log) + 1
    BY <1>3, <2>2, OpenFacts DEF OpenInv
  <2>3. QED
    BY <2>1, <2>2
<1>5. ASSUME ~reconcileFailed PROVE OpenModelOK' /\ OpenBatchOK' /\ OpenFeedOK'
  <2>1. /\ Len(batch) <= Len(log) /\ Len(log) = Len(readModel) + Len(batch)
        /\ bootSequence + Len(published) = Len(readModel)
        /\ \A i \in DOMAIN batch : batch[i] = log[Len(log) - Len(batch) + i]
        /\ \A i \in DOMAIN readModel : readModel[i] = log[i]
        /\ \A i \in DOMAIN published : published[i] = log[bootSequence + i]
    BY <1>2, <1>5
    DEF OpenInv, OpenModelOK, OpenBatchOK, OpenFeedOK, WorkerSteps, StartUpSteps,
        InTransaction
  <2>2. \A i \in DOMAIN readModel : readModel[i] = log'[i]
    BY <1>3, <2>1, OpenFacts
  <2>3. \A i \in DOMAIN published : published[i] = log'[bootSequence + i]
    BY <1>3, <2>1, OpenFacts
  <2>4. \A i \in DOMAIN batch' : batch'[i] = log'[(Len(log) + 1) - (Len(batch) + 1) + i]
    <3> SUFFICES ASSUME NEW i \in 1..Len(batch) + 1
                 PROVE  batch'[i] = log'[(Len(log) + 1) - (Len(batch) + 1) + i]
      BY <1>3
    <3>1. (Len(log) + 1) - (Len(batch) + 1) + i = Len(log) - Len(batch) + i
      BY OpenFacts
    <3>2. CASE i = Len(batch) + 1
      <4>1. Len(log) - Len(batch) + i = Len(log) + 1
        BY <3>2, OpenFacts
      <4>2. QED
        BY <1>3, <3>1, <3>2, <4>1
    <3>3. CASE i # Len(batch) + 1
      <4>1. i \in 1..Len(batch) /\ Len(log) - Len(batch) + i \in 1..Len(log)
        BY <2>1, <3>3, OpenFacts
      <4>2. QED
        BY <1>3, <2>1, <3>1, <4>1, OpenFacts
    <3>4. QED
      BY <3>2, <3>3
  <2>5. /\ Len(batch) + 1 <= Len(log) + 1 /\ Len(log) + 1 = Len(readModel) + (Len(batch) + 1)
        /\ Len(readModel) <= Len(log) + 1
    BY <2>1, OpenFacts
  <2>6. OpenModelOK'
    BY <1>2, <1>3, <2>2, <2>5 DEF OpenModelOK, WorkerSteps, InTransaction
  <2>7. OpenBatchOK'
    BY <1>2, <1>3, <2>4, <2>5 DEF OpenBatchOK
  <2>8. OpenFeedOK'
    BY <1>2, <1>3, <2>1, <2>3 DEF OpenFeedOK, WorkerSteps, StartUpSteps
  <2>9. QED
    BY <2>6, <2>7, <2>8
<1>6. QED
  BY <1>2, <1>4, <1>5 DEF OpenInv

(* Two sequences, the second of which is the end of a third.               *)
LEMMA PrefixAndEnd ==
    ASSUME NEW whole \in Seq(Event), NEW begin \in Seq(Event), NEW end \in Seq(Event),
           Len(whole) = Len(begin) + Len(end),
           \A i \in DOMAIN begin : begin[i] = whole[i],
           \A i \in DOMAIN end : end[i] = whole[Len(whole) - Len(end) + i]
    PROVE  begin \o end = whole
<1>1. /\ Len(begin) \in Nat /\ Len(end) \in Nat /\ DOMAIN begin = 1..Len(begin)
      /\ DOMAIN end = 1..Len(end) /\ begin \o end \in Seq(Event)
      /\ Len(begin \o end) = Len(begin) + Len(end)
  OBVIOUS
<1>2. ASSUME NEW i \in 1..Len(whole) PROVE (begin \o end)[i] = whole[i]
  <2>1. (begin \o end)[i] = IF i <= Len(begin) THEN begin[i] ELSE end[i - Len(begin)]
    BY <1>1, ConcatProperties
  <2>2. CASE i <= Len(begin)
    BY <1>1, <2>1, <2>2
  <2>3. CASE i > Len(begin)
    <3>1. i - Len(begin) \in 1..Len(end) /\ Len(whole) - Len(end) + (i - Len(begin)) = i
      BY <1>1, <2>3
    <3>2. QED
      BY <1>1, <2>1, <2>3, <3>1
  <2>4. QED
    BY <1>1, <2>2, <2>3
<1>3. QED
  BY <1>1, <1>2, SeqEqual

LEMMA OpenCommit ==
    ASSUME StoreInTransaction = FALSE, TypeInv, OpenInv, Commit
    PROVE  OpenInv'
<1>1. /\ pc = "commit" /\ pc' = "install" /\ UNCHANGED batch /\ OpenSame
  BY DEF Commit, OpenSame, progress, feed
<1>2. QED
  BY <1>1
  DEF OpenInv, OpenSame, OpenModelOK, OpenBatchOK, OpenFeedOK, WorkerSteps, StartUpSteps,
      InTransaction

LEMMA OpenInstall ==
    ASSUME TypeInv, OpenInv, InstallReadModel
    PROVE  OpenInv'
<1>1. /\ pc = "install" /\ pc' = "publish" /\ readModel' = readModel \o batch /\ step = 0
      /\ UNCHANGED <<log, batch, step, published, bootSequence, reconcileFailed>>
  BY DEF InstallReadModel, database, progress, feed, TypeInv, ControlOK
<1>2. ASSUME ~reconcileFailed PROVE readModel' = log
  <2>1. /\ Len(log) = Len(readModel) + Len(batch)
        /\ \A i \in DOMAIN readModel : readModel[i] = log[i]
        /\ \A i \in DOMAIN batch : batch[i] = log[Len(log) - Len(batch) + i]
    BY <1>1, <1>2 DEF OpenInv, OpenModelOK, OpenBatchOK, WorkerSteps
  <2>2. QED
    BY <1>1, <2>1, OpenSeqs, PrefixAndEnd
<1>3. ASSUME ~reconcileFailed PROVE OpenFeedOK'
  <2>1. bootSequence + Len(published) = Len(readModel) /\ Len(log) = Len(readModel) + Len(batch)
    BY <1>1, <1>3 DEF OpenInv, OpenModelOK, OpenFeedOK, WorkerSteps
  <2>2. bootSequence + Len(published) + Len(batch) = Len(log) + 0
    <3>1. /\ bootSequence \in Nat /\ Len(published) \in Nat /\ Len(readModel) \in Nat
          /\ Len(batch) \in Nat /\ Len(log) \in Nat
      BY OpenFacts
    <3>2. QED
      BY <2>1, <3>1, ShiftedSum
  <2>3. QED
    BY <1>1, <1>2, <1>3, <2>2
    DEF OpenInv, OpenFeedOK, WorkerSteps, StartUpSteps
<1>4. ASSUME ~reconcileFailed PROVE OpenModelOK' /\ OpenBatchOK'
  <2>1. Len(log) <= Len(log)
    BY OpenFacts
  <2>2. QED
    BY <1>1, <1>2, <1>4, <2>1
    DEF OpenInv, OpenModelOK, OpenBatchOK, WorkerSteps, InTransaction
<1>5. QED
  BY <1>1, <1>3, <1>4 DEF OpenInv

LEMMA OpenPublish ==
    ASSUME TypeInv, OpenInv, Publish
    PROVE  OpenInv'
<1>1. /\ pc \in {"publish", "republish"} /\ step < Len(batch)
      /\ published' = Append(published, batch[step + 1]) /\ step' = step + 1
      /\ UNCHANGED <<log, readModel, batch, pc, bootSequence, reconcileFailed>>
  BY DEF Publish, database
<1>2. /\ Len(published') = Len(published) + 1 /\ DOMAIN published' = 1..Len(published) + 1
      /\ published'[Len(published) + 1] = batch[step + 1]
      /\ \A i \in 1..Len(published) : published'[i] = published[i]
  BY <1>1, OpenSeqs
<1>3. ASSUME ~reconcileFailed PROVE OpenFeedOK'
  <2> DEFINE m == Len(published)
  <2>1. /\ bootSequence + m + Len(batch) = Len(log) + step
        /\ \A i \in DOMAIN published : published[i] = log[bootSequence + i]
        /\ \A i \in DOMAIN batch : batch[i] = log[Len(log) - Len(batch) + i]
    BY <1>1, <1>3 DEF OpenInv, OpenModelOK, OpenBatchOK, OpenFeedOK, WorkerSteps
  <2>2. /\ m \in Nat /\ Len(batch) \in Nat /\ Len(log) \in Nat /\ step \in Nat
        /\ bootSequence \in Nat /\ DOMAIN batch = 1..Len(batch) /\ DOMAIN published = 1..m
    BY OpenFacts
  <2>3. step + 1 \in DOMAIN batch
    BY <1>1, <2>2
  <2>4. /\ bootSequence + (m + 1) = Len(log) - Len(batch) + (step + 1)
        /\ bootSequence + (m + 1) + Len(batch) = Len(log) + (step + 1)
    BY <2>1, <2>2
  <2>5. batch[step + 1] = log[bootSequence + (m + 1)]
    BY <2>1, <2>3, <2>4
  <2>6. \A i \in 1..m + 1 : i \in 1..m \/ i = m + 1
    BY <2>2
  <2>7. \A i \in DOMAIN published' : published'[i] = log[bootSequence + i]
    BY <1>2, <2>1, <2>2, <2>5, <2>6
  <2>8. Len(readModel) = Len(log)
    BY <1>1, <1>3 DEF OpenInv, OpenModelOK
  <2> HIDE DEF m
  <2>9. QED
    BY <1>1, <1>2, <2>4, <2>7, <2>8 DEF OpenFeedOK, WorkerSteps, StartUpSteps, m
<1>4. QED
  BY <1>1, <1>3 DEF OpenInv, OpenModelOK, OpenBatchOK, WorkerSteps, InTransaction

(* The reconciliation reads everything the read model lacks, as it lacks   *)
(* two events at most.                                                     *)
LEMMA OpenReconcile ==
    ASSUME ReadLimit >= 2, TypeInv, OpenInv, Reconcile
    PROVE  OpenInv'
<1> DEFINE n == Len(readModel)
           rest == EventsAfter(SnapshotSequence(readModel), ReadLimit)
<1>1. /\ pc = "reconcile" /\ pc' = "republish" /\ readModel' = readModel \o rest
      /\ batch' = rest /\ step' = 0
      /\ UNCHANGED <<log, published, bootSequence, reconcileFailed>>
  BY DEF Reconcile, database, feed, TypeInv, ControlOK
<1>2. ASSUME ~reconcileFailed PROVE OpenModelOK' /\ OpenBatchOK' /\ OpenFeedOK'
  <2>1. /\ n <= Len(log) /\ Len(log) <= n + 2
        /\ \A i \in DOMAIN readModel : readModel[i] = log[i]
        /\ bootSequence + Len(published) = n
        /\ \A i \in DOMAIN published : published[i] = log[bootSequence + i]
    BY <1>1, <1>2 DEF OpenInv, OpenModelOK, OpenFeedOK, WorkerSteps
  <2>0. n \in Nat /\ Len(log) \in Nat /\ bootSequence \in Nat /\ Len(published) \in Nat
    BY OpenFacts
  <2>2. SnapshotSequence(readModel) = n
    <3>1. \A i \in DOMAIN readModel : readModel[i].sequence = i
      BY <2>1, OpenFacts DEF OpenInv
    <3>2. QED
      BY <3>1, OpenSeqs, SnapshotIsLength
  <2>3. rest = SubSeq(log, n + 1, Len(log))
    <3>1. ~(n + ReadLimit < Len(log))
      BY <2>0, <2>1, EngineAssumption
    <3>2. QED
      BY <2>2, <3>1 DEF EventsAfter
  <2>4. /\ rest \in Seq(Event) /\ Len(rest) = Len(log) - n
        /\ \A i \in 1..Len(rest) : rest[i] = log[Len(log) - Len(rest) + i]
    <3>1. \A i \in n + 1..Len(log) : log[i] \in Event
      BY OpenSeqs, OpenFacts
    <3>2. /\ rest \in Seq(Event)
          /\ Len(rest) = IF n + 1 <= Len(log) THEN Len(log) - (n + 1) + 1 ELSE 0
          /\ \A i \in 1..(Len(log) - (n + 1) + 1) : rest[i] = log[(n + 1) + i - 1]
      BY <2>0, <2>3, <3>1, OpenSeqs, SubSeqProperties
    <3> HIDE DEF rest
    <3>3. Len(rest) = Len(log) - n
      BY <2>0, <2>1, <3>2
    <3>4. ASSUME NEW i \in 1..Len(rest) PROVE rest[i] = log[Len(log) - Len(rest) + i]
      <4>1. i \in 1..(Len(log) - (n + 1) + 1) /\ (n + 1) + i - 1 = Len(log) - Len(rest) + i
        BY <2>0, <3>3
      <4>2. QED
        BY <3>2, <4>1
    <3>5. QED
      BY <3>2, <3>3, <3>4
  <2> HIDE DEF rest
  <2>5. readModel' = log
    <3>1. DOMAIN rest = 1..Len(rest) /\ Len(log) = n + Len(rest)
      BY <2>0, <2>1, <2>4
    <3>2. /\ rest \in Seq(Event) /\ Len(log) = Len(readModel) + Len(rest)
          /\ \A i \in DOMAIN rest : rest[i] = log[Len(log) - Len(rest) + i]
      BY <2>4, <3>1
    <3>3. readModel \o rest = log
      BY <2>1, <3>2, OpenSeqs, PrefixAndEnd
    <3>4. QED
      BY <1>1, <3>3
  <2>6. /\ bootSequence + Len(published) + Len(rest) = Len(log) + 0
        /\ Len(rest) <= Len(log) /\ Len(log) <= Len(log)
    <3>1. Len(rest) \in Nat /\ Len(log) = n + Len(rest)
      BY <2>0, <2>1, <2>4
    <3>2. QED
      BY <2>0, <2>1, <3>1, ShiftedSum
  <2>7. OpenFeedOK'
    BY <1>1, <2>1, <2>5, <2>6 DEF OpenFeedOK, WorkerSteps, StartUpSteps
  <2>8. OpenModelOK'
    BY <1>1, <2>5, <2>6 DEF OpenModelOK, WorkerSteps, InTransaction
  <2>9. OpenBatchOK'
    <3>1. DOMAIN rest = 1..Len(rest)
      BY <2>4
    <3>2. QED
      BY <1>1, <2>4, <2>6, <3>1 DEF OpenBatchOK
  <2>10. QED
    BY <2>7, <2>8, <2>9
<1>3. QED
  BY <1>1, <1>2 DEF OpenInv

LEMMA OpenCrash ==
    ASSUME TypeInv, OpenInv, Crash
    PROVE  OpenInv'
<1>1. /\ UNCHANGED log /\ pc' = "bootstrap" /\ readModel' = <<>> /\ published' = <<>>
      /\ bootSequence' = 0
  BY DEF Crash, database
<1>2. DOMAIN published' = {}
  BY <1>1
<1>3. QED
  BY <1>1, <1>2
  DEF OpenInv, OpenModelOK, OpenBatchOK, OpenFeedOK, WorkerSteps, StartUpSteps, InTransaction

LEMMA NextOpenInv ==
    ASSUME StoreInTransaction = FALSE, ReadLimit >= 2, TypeInv, OpenInv, [Next]_vars
    PROVE  OpenInv'
<1>1. CASE BootstrapEvent \/ BootstrapNextProjector \/ Take \/ AnswerFromReceipt \/ LookupFails
           \/ Decide \/ ProjectEvent \/ TransactionFails \/ Resolve \/ RejectCommand
  <2>1. OpenSame
    BY <1>1
    DEF BootstrapEvent, BootstrapNextProjector, Take, AnswerFromReceipt, LookupFails, Decide,
        ProjectEvent, TransactionFails, Resolve, RejectCommand, OpenSame, database, feed
  <2>2. pc \in {"idle", "lookup"} => batch = <<>> /\ step = 0
    BY DEF TypeInv, ControlOK
  <2>3. CASE BootstrapEvent
    BY <2>1, <2>3, OpenStays DEF BootstrapEvent
  <2>4. CASE BootstrapNextProjector
    BY <2>1, <2>4, OpenMoves DEF BootstrapNextProjector, StartUpSteps
  <2>5. CASE Take \/ AnswerFromReceipt \/ LookupFails \/ Decide
    BY <2>1, <2>2, <2>5, OpenMoves
    DEF Take, AnswerFromReceipt, LookupFails, Decide, EnvelopeDone, Fail
  <2>6. CASE ProjectEvent \/ TransactionFails
    BY <2>1, <2>6, OpenMoves DEF ProjectEvent, TransactionFails, Fail, InTransaction
  <2>7. CASE Resolve \/ RejectCommand
    BY <2>1, <2>7, OpenMoves DEF Resolve, RejectCommand, EnvelopeDone
  <2>8. QED
    BY <1>1, <2>3, <2>4, <2>5, <2>6, <2>7
<1>2. CASE UNCHANGED vars \/ \E k \in Callers, c \in Commands : Dispatch(k, c)
  BY <1>2, OpenStays DEF vars, Dispatch, database, version, progress, feed, OpenSame
<1>3. CASE ReconcileFails
  BY <1>3 DEF ReconcileFails, OpenInv, database
<1>4. QED
  BY <1>1, <1>2, <1>3, OpenReplay, OpenAppend, OpenCommit, OpenInstall, OpenPublish,
    OpenReconcile, OpenCrash
  DEF Next, StartUp, ProcessEnvelope

LEMMA InitOpenInv == Init => OpenInv
BY DEF Init, OpenInv, OpenModelOK, OpenBatchOK, OpenFeedOK, WorkerSteps, StartUpSteps,
       InTransaction

(* A part of the log, event by event, is a subsequence of it.              *)
LEMMA FeedIsPart ==
    ASSUME NEW whole \in Seq(Event), NEW part \in Seq(Event), NEW from \in Nat,
           from + Len(part) <= Len(whole), \A i \in DOMAIN part : part[i] = whole[from + i]
    PROVE  part = SubSeq(whole, from + 1, from + Len(part))
<1> DEFINE n == Len(part)
           sub == SubSeq(whole, from + 1, from + n)
<1>1. n \in Nat /\ Len(whole) \in Nat /\ DOMAIN part = 1..n
  OBVIOUS
<1>2. \A i \in from + 1 .. from + n : whole[i] \in Event
  BY <1>1
<1>3. /\ sub \in Seq(Event) /\ Len(sub) = n
      /\ \A i \in 1..n : sub[i] = whole[from + 1 + i - 1]
  BY SMTT(30), <1>1, <1>2, SubSeqProperties
<1> HIDE DEF sub
<1>4. ASSUME NEW i \in 1..n PROVE part[i] = sub[i]
  <2>1. from + 1 + i - 1 = from + i
    BY <1>1
  <2>2. QED
    BY <1>1, <1>3, <2>1
<1>5. part = sub
  BY <1>1, <1>3, <1>4, SeqEqual
<1>6. QED
  BY <1>5 DEF sub

(* A reconciliation leaves nothing out: as long as none fails, read model  *)
(* and feed hold the whole store whenever the worker is between commands,  *)
(* also what a failed transaction left in a store of its own               *)
(* (ReconciliationIsComplete; reconcileReadModelAfterDispatchFailure), for *)
(* both kinds of store and any read limit that a command's events fit.     *)
THEOREM ReconciliationTheorem ==
    ASSUME ReadLimit >= 2
    PROVE  Spec => []ReconciliationIsComplete
<1>1. CASE StoreInTransaction = TRUE
  BY <1>1, ReadModelTheorem, FeedTheorem, PTL DEF ReconciliationIsComplete
<1>2. CASE StoreInTransaction = FALSE
  <2>1. TypeInv /\ OpenInv => ReconciliationIsComplete
    <3> SUFFICES ASSUME TypeInv, OpenInv, ~reconcileFailed
                 PROVE  ReconciliationIsComplete
      BY <1>2 DEF ReconciliationIsComplete, ReadModelIsCurrent, FeedFollowsLog
    <3> DEFINE n == Len(published)
    <3>1. pc = "idle" => readModel = log
      BY OpenSeqs, OpenFacts, SeqEqual DEF OpenInv, OpenModelOK, WorkerSteps
    <3>2. bootSequence + n <= Len(log) /\ (pc = "idle" => bootSequence + n = Len(log))
      <4>1. CASE pc \in StartUpSteps
        <5>1. n = 0 /\ bootSequence = 0
          BY <4>1 DEF OpenInv, OpenFeedOK
        <5>2. QED
          BY <4>1, <5>1, OpenFacts DEF StartUpSteps
      <4>2. CASE pc \in WorkerSteps
        <5>1. /\ Len(readModel) <= Len(log) /\ (pc = "idle" => Len(readModel) = Len(log))
              /\ pc \notin {"publish", "republish"} => bootSequence + n = Len(readModel)
              /\ pc \in {"publish", "republish"} =>
                    bootSequence + n + Len(batch) = Len(readModel) + step
          BY <4>2 DEF OpenInv, OpenModelOK, OpenFeedOK
        <5>2. pc \in {"publish", "republish"} => step <= Len(batch)
          BY OpenFacts DEF TypeInv, ControlOK
        <5>3. QED
          <6>1. /\ bootSequence \in Nat /\ n \in Nat /\ Len(log) \in Nat
                /\ Len(readModel) \in Nat /\ Len(batch) \in Nat /\ step \in Nat
            BY OpenFacts
          <6>2. CASE pc \in {"publish", "republish"}
            <7>1. bootSequence + n <= Len(readModel)
              BY <5>1, <5>2, <6>1, <6>2
            <7>2. QED
              BY <5>1, <6>1, <6>2, <7>1
          <6>3. CASE pc \notin {"publish", "republish"}
            BY <5>1, <6>1, <6>3
          <6>4. QED
            BY <6>2, <6>3
      <4>3. QED
        BY <4>1, <4>2 DEF TypeInv, TypeOK
    <3>3. published = SubSeq(log, bootSequence + 1, bootSequence + n)
      <4>1. \A i \in DOMAIN published : published[i] = log[bootSequence + i]
        BY DEF OpenInv, OpenFeedOK
      <4>2. /\ bootSequence \in Nat /\ bootSequence + Len(published) <= Len(log)
            /\ log \in Seq(Event) /\ published \in Seq(Event)
        BY <3>2, OpenSeqs, OpenFacts
      <4>3. QED
        BY <4>1, <4>2, FeedIsPart
    <3>4. QED
      BY <3>1, <3>2, <3>3 DEF ReconciliationIsComplete, ReadModelIsCurrent, FeedFollowsLog
  <2>2. TypeInv /\ OpenInv /\ [Next]_vars => OpenInv'
    BY <1>2, NextOpenInv
  <2>3. QED
    BY <2>1, <2>2, InitOpenInv, ControlTheorem, PTL DEF Spec
<1>3. QED
  BY <1>1, <1>2, EngineAssumption
=============================================================================
