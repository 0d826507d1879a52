------------------------ MODULE ProviderSessionsProofs ------------------------
(***************************************************************************)
(* Proofs about the provider session of a thread: the type invariant, that *)
(* every live process is registered, that a turn runs in its mode and its  *)
(* conversation, that the session in the read model is real, and that no   *)
(* requested turn is forgotten.                                            *)
(***************************************************************************)
EXTENDS ProviderSessionsProperties, TLAPS

Processes(n) ==
    [alive : BOOLEAN, mode : Modes, conversation : 0..n, turn : 0..MaxTurns]

Tasks(n) ==
    [at : {"idle", "start", "recover", "bind", "send", "request", "unbind"},
     turn : 0..MaxTurns, mode : Modes, resume : Nat, process : 0..n]

TurnsAlive == \A p \in DOMAIN processes : processes[p].turn # 0 => processes[p].alive

(* The conversations that may be resumed have begun.                       *)
CursorsExist == binding.cursor <= conversations /\ task.resume <= conversations

SessionInv == TypeOK /\ CursorsExist

LEMMA TypeFacts ==
    ASSUME SessionInv
    PROVE  /\ processes \in Seq(Processes(conversations)) /\ TurnsAlive
           /\ mode \in Modes /\ session \in Sessions /\ binding \in Bindings
           /\ intents \in Seq(Events) /\ runtime \in Seq(Events)
           /\ conversations \in Nat /\ owner \in 0..Len(processes)
BY DEF SessionInv, TypeOK, Processes, TurnsAlive

LEMMA DeadTypes ==
    ASSUME SessionInv
    PROVE  Dead \in Processes(conversations) /\ Dead.turn = 0 /\ Dead.alive = FALSE
PROOF
  <1> DEFINE P == Process("full-access")
  <1>1. P \in Processes(conversations) /\ P.turn = 0
    BY TypeFacts, SessionAssumption DEF Processes, Process, Modes
  <1>2. Dead = [P EXCEPT !.alive = FALSE]
    BY DEF Dead
  <1> HIDE DEF P
  <1> QED
    BY <1>1, <1>2 DEF Processes

LEMMA IdleTypes ==
    ASSUME NEW n \in Nat
    PROVE  Idle \in Tasks(n) /\ Idle.resume = 0
BY SessionAssumption DEF Idle, Tasks, Modes

LEMMA SpawnTypes ==
    ASSUME SessionInv, NEW m \in Modes, Spawn(m)
    PROVE  /\ processes' \in Seq(Processes(conversations)) /\ TurnsAlive'
           /\ Len(processes') = Len(processes) + 1
           /\ owner' = Len(processes') /\ runtime' \in Seq(Events) /\ overlapped' \in BOOLEAN
PROOF
  <1>1. Process(m) \in Processes(conversations)
    BY TypeFacts, SessionAssumption DEF Process, Processes
  <1>2. /\ processes' = Append(processes, Process(m)) /\ processes \in Seq(Processes(conversations))
    BY TypeFacts DEF Spawn
  <1>3. processes' \in Seq(Processes(conversations)) /\ Len(processes') = Len(processes) + 1
    BY <1>1, <1>2
  <1>4. TurnsAlive'
    BY <1>2, TypeFacts DEF TurnsAlive, Process
  <1>5. Event("connecting", 0) \in Events
    BY SessionAssumption DEF Event, Events, Types
  <1>6. runtime' \in Seq(Events)
    BY <1>5, TypeFacts DEF Spawn
  <1>7. owner' = Len(processes')
    BY DEF Spawn
  <1>8. overlapped' \in BOOLEAN
    BY TypeFacts DEF Spawn, SessionInv, TypeOK
  <1> QED
    BY <1>3, <1>4, <1>6, <1>7, <1>8

LEMMA StopEntryTypes ==
    ASSUME SessionInv, NEW events \in Seq(Events), StopEntry(events)
    PROVE  /\ processes' \in Seq(Processes(conversations)) /\ TurnsAlive'
           /\ Len(processes') = Len(processes)
           /\ owner' = 0 /\ runtime' \in Seq(Events)
PROOF
  <1>1. Dead \in Processes(conversations) /\ Dead.turn = 0
    BY DeadTypes
  <1>2. processes' = [p \in 1..Len(processes) |-> IF p = owner THEN Dead ELSE processes[p]]
    BY TypeFacts DEF StopEntry
  <1>3. processes' \in Seq(Processes(conversations)) /\ Len(processes') = Len(processes)
    BY <1>1, <1>2, TypeFacts
  <1>4. TurnsAlive'
    BY <1>1, <1>2, TypeFacts DEF TurnsAlive
  <1>5. Event("exited", 0) \in Events
    BY SessionAssumption DEF Event, Events, Types
  <1>6. runtime' \in Seq(Events)
    BY <1>5, TypeFacts DEF StopEntry
  <1> QED
    BY <1>3, <1>4, <1>6 DEF StopEntry

LEMMA SettleTypes ==
    ASSUME SessionInv, NEW t \in 0..MaxTurns, NEW result \in {"pending", "sent", "failed", "lost"},
           Settle(t, result)
    PROVE  outcome' \in [Turns -> {"none", "pending", "sent", "failed", "lost"}]
BY SessionAssumption DEF Settle, SessionInv, TypeOK, Turns

LEMMA FailsTypes ==
    ASSUME SessionInv, Fails
    PROVE  failures' \in 0..MaxFailures
BY SessionAssumption DEF Fails, SessionInv, TypeOK

LEMMA EventTypes ==
    ASSUME NEW type \in Types, NEW t \in 0..MaxTurns
    PROVE  Event(type, t) \in Events
BY DEF Event, Events

LEMMA TakeTypes ==
    ASSUME SessionInv, NEW type, Take(type)
    PROVE  /\ intents' \in Seq(Events) /\ Head(intents).turn \in 0..MaxTurns
           /\ UNCHANGED <<mode, session, ingest, conversations, latest, stranded, unreported,
                          switches, stops, crashes>>
PROOF
  <1>1. intents \in Seq(Events) /\ intents # <<>> /\ intents' = Tail(intents)
    BY TypeFacts DEF Take
  <1>2. Head(intents) \in Events /\ intents' \in Seq(Events)
    BY <1>1
  <1> QED
    BY <1>2 DEF Take, Events

LEMMA RequestPreserves ==
    ASSUME SessionInv, RequestTurn \/ SetMode \/ RequestStop
    PROVE  SessionInv'
PROOF
  <1>1. CASE RequestTurn
    <2>1. PICK t \in Turns : outcome' = [outcome EXCEPT ![t] = "pending"]
                             /\ Request(Event("turn", t)) /\ UNCHANGED <<mode, switches, stops>>
      BY <1>1 DEF RequestTurn
    <2>2. Event("turn", t) \in Events
      BY EventTypes, SessionAssumption DEF Turns, Types
    <2> QED
      BY <2>1, <2>2 DEF Request, SessionInv, TypeOK, CursorsExist
  <1>2. CASE SetMode
    <2>1. Event("mode", 0) \in Events
      BY EventTypes, SessionAssumption DEF Types
    <2> QED
      BY <1>2, <2>1, SessionAssumption DEF SetMode, Request, SessionInv, TypeOK, CursorsExist
  <1>3. CASE RequestStop
    <2>1. Event("stop", 0) \in Events
      BY EventTypes, SessionAssumption DEF Types
    <2> QED
      BY <1>3, <2>1, SessionAssumption DEF RequestStop, Request, SessionInv, TypeOK, CursorsExist
  <1> QED
    BY <1>1, <1>2, <1>3

LEMMA ProcessPreserves ==
    ASSUME SessionInv, NEW p \in DOMAIN processes, CompleteTurn(p) \/ ProcessExits(p)
    PROVE  SessionInv'
PROOF
  <1>1. CASE CompleteTurn(p)
    <2>1. processes[p] \in Processes(conversations) /\ Live(p)
      BY <1>1, TypeFacts DEF CompleteTurn
    <2>2. Event("completed", processes[p].turn) \in Events
      BY <2>1, EventTypes DEF Processes, Types
    <2>3. [processes[p] EXCEPT !.turn = 0] \in Processes(conversations)
      BY <2>1, SessionAssumption DEF Processes
    <2>4. processes' = [processes EXCEPT ![p] = [processes[p] EXCEPT !.turn = 0]]
      BY <1>1 DEF CompleteTurn
    <2>5. processes' \in Seq(Processes(conversations)) /\ Len(processes') = Len(processes)
      BY <2>3, <2>4, TypeFacts
    <2>6. TurnsAlive'
      BY <2>1, <2>4, TypeFacts DEF TurnsAlive, Processes
    <2>7. runtime' \in Seq(Events)
      BY <1>1, <2>2, TypeFacts DEF CompleteTurn
    <2> QED
      BY <1>1, <2>5, <2>6, <2>7, SMTT(30)
      DEF CompleteTurn, SessionInv, TypeOK, CursorsExist, Processes, TurnsAlive, database, history,
          counters
  <1>2. CASE ProcessExits(p)
    <2>1. Dead \in Processes(conversations) /\ Dead.turn = 0
      BY DeadTypes
    <2>2. Event("exited", 0) \in Events
      BY EventTypes, SessionAssumption DEF Types
    <2>3. processes' = [processes EXCEPT ![p] = Dead] /\ Fails
      BY <1>2 DEF ProcessExits
    <2>4. processes' \in Seq(Processes(conversations)) /\ Len(processes') = Len(processes)
      BY <2>1, <2>3, TypeFacts
    <2>5. TurnsAlive'
      BY <2>1, <2>3, TypeFacts DEF TurnsAlive
    <2>6. failures' \in 0..MaxFailures
      BY <2>3, FailsTypes
    <2>7. runtime' \in Seq(Events) /\ owner' \in 0..Len(processes')
      BY <1>2, <2>2, <2>4, TypeFacts DEF ProcessExits
    <2> QED
      BY <1>2, <2>4, <2>5, <2>6, <2>7, SMTT(30)
      DEF ProcessExits, SessionInv, TypeOK, CursorsExist, Processes, TurnsAlive, database, history,
          counters
  <1> QED
    BY <1>1, <1>2

LEMMA CursorTypes ==
    ASSUME SessionInv
    PROVE  Cursor \in 0..conversations
PROOF
  <1>1. CASE owner # 0
    <2>1. processes[owner] \in Processes(conversations)
      BY <1>1, TypeFacts
    <2> QED
      BY <1>1, <2>1 DEF Cursor, Processes
  <1>2. CASE owner = 0
    BY <1>2 DEF Cursor, SessionInv, TypeOK, CursorsExist, Bindings
  <1> QED
    BY <1>1, <1>2

(* What a session being started leaves typed.                              *)
LEMMA StartTypes ==
    ASSUME SessionInv, NEW t \in 0..MaxTurns, StartSession(t)
    PROVE  /\ processes' \in Seq(Processes(conversations)) /\ TurnsAlive'
           /\ owner' \in 0..Len(processes') /\ runtime' \in Seq(Events) /\ overlapped' \in BOOLEAN
           /\ task' \in Tasks(Len(processes')) /\ task'.resume <= conversations
           /\ outcome' \in [Turns -> {"none", "pending", "sent", "failed", "lost"}]
           /\ failures' \in 0..MaxFailures
PROOF
  <1>1. CASE /\ Spawn(mode)
             /\ task' = [at |-> "start", turn |-> t, mode |-> mode, resume |-> Cursor,
                         process |-> Len(processes')]
             /\ UNCHANGED <<outcome, failures>>
    <2>1. /\ processes' \in Seq(Processes(conversations)) /\ TurnsAlive'
          /\ owner' = Len(processes') /\ runtime' \in Seq(Events) /\ overlapped' \in BOOLEAN
      BY <1>1, SpawnTypes, TypeFacts
    <2>2. Len(processes') \in Nat
      BY <2>1
    <2>3. task' \in Tasks(Len(processes')) /\ task'.resume <= conversations
      BY <1>1, <2>2, CursorTypes, TypeFacts DEF Tasks
    <2> QED
      BY <1>1, <2>1, <2>2, <2>3 DEF SessionInv, TypeOK
  <1>2. CASE /\ Fails
             /\ runtime' \in {runtime, Append(runtime, Event("error", 0))}
             /\ Settle(t, "failed")
             /\ UNCHANGED <<task, processes, owner, overlapped>>
    <2>1. failures' \in 0..MaxFailures
          /\ outcome' \in [Turns -> {"none", "pending", "sent", "failed", "lost"}]
      BY <1>2, FailsTypes, SettleTypes
    <2>2. runtime' \in Seq(Events)
      BY <1>2, EventTypes, TypeFacts, SessionAssumption DEF Types
    <2>3. task' \in Tasks(Len(processes')) /\ task'.resume <= conversations
      BY <1>2, TypeFacts DEF SessionInv, TypeOK, Tasks, CursorsExist
    <2> QED
      BY <1>2, <2>1, <2>2, <2>3 DEF SessionInv, TypeOK, Processes, TurnsAlive
  <1> QED
    BY <1>1, <1>2 DEF StartSession

LEMMA TakeTurnStartPreserves ==
    ASSUME SessionInv, TakeTurnStart
    PROVE  SessionInv'
PROOF
  <1> DEFINE t == Head(intents).turn
  <1>1. /\ Take("turn") /\ UNCHANGED <<binding, forgotten, torn>>
        /\ \/ StartSession(t)
           \/ /\ task' = [Idle EXCEPT !.at = "send", !.turn = t, !.mode = mode]
              /\ UNCHANGED <<outcome, processes, owner, runtime, overlapped, failures>>
    BY DEF TakeTurnStart
  <1>2. /\ intents' \in Seq(Events) /\ t \in 0..MaxTurns
        /\ UNCHANGED <<mode, session, ingest, conversations, latest, stranded, unreported,
                       switches, stops, crashes>>
    BY <1>1, TakeTypes
  <1> HIDE DEF t
  <1>3. CASE StartSession(t)
    BY <1>1, <1>2, <1>3, StartTypes DEF SessionInv, TypeOK, CursorsExist, Processes, TurnsAlive,
      Tasks
  <1>4. CASE /\ task' = [Idle EXCEPT !.at = "send", !.turn = t, !.mode = mode]
             /\ UNCHANGED <<outcome, processes, owner, runtime, overlapped, failures>>
    <2>1. task' \in Tasks(Len(processes)) /\ task'.resume = 0
      <3>1. Idle \in Tasks(Len(processes)) /\ Idle.resume = 0 /\ mode \in Modes
        BY IdleTypes, TypeFacts
      <3> QED
        BY <1>2, <1>4, <3>1 DEF Tasks
    <2> QED
      BY <1>1, <1>2, <1>4, <2>1 DEF SessionInv, TypeOK, CursorsExist, Tasks
  <1> QED
    BY <1>1, <1>3, <1>4

LEMMA TakeModeSetPreserves ==
    ASSUME SessionInv, TakeModeSet
    PROVE  SessionInv'
PROOF
  <1>1. /\ Take("mode") /\ UNCHANGED <<binding, forgotten, torn>>
        /\ \/ UNCHANGED <<task, outcome, processes, owner, runtime, overlapped, failures>>
           \/ StartSession(0)
    BY DEF TakeModeSet
  <1>2. /\ intents' \in Seq(Events)
        /\ UNCHANGED <<mode, session, ingest, conversations, latest, stranded, unreported,
                       switches, stops, crashes>>
    BY <1>1, TakeTypes
  <1>3. CASE StartSession(0)
    <2>1. 0 \in 0..MaxTurns
      BY SessionAssumption
    <2>2. /\ processes' \in Seq(Processes(conversations)) /\ TurnsAlive'
          /\ owner' \in 0..Len(processes') /\ runtime' \in Seq(Events) /\ overlapped' \in BOOLEAN
          /\ task' \in Tasks(Len(processes')) /\ task'.resume <= conversations
          /\ outcome' \in [Turns -> {"none", "pending", "sent", "failed", "lost"}]
          /\ failures' \in 0..MaxFailures
      BY <1>3, <2>1, StartTypes
    <2> QED
      BY <1>1, <1>2, <2>2
      DEF SessionInv, TypeOK, CursorsExist, Processes, TurnsAlive, Tasks
  <1>4. CASE UNCHANGED <<task, outcome, processes, owner, runtime, overlapped, failures>>
    BY <1>1, <1>2, <1>4 DEF SessionInv, TypeOK, CursorsExist
  <1> QED
    BY <1>1, <1>3, <1>4

(* What a stop leaves alone keeps its type.                                *)
LEMMA StoppedTypes ==
    ASSUME SessionInv,
           UNCHANGED <<mode, session, ingest, conversations, latest, stranded, unreported,
                       switches, stops, crashes, outcome, overlapped>>,
           intents' \in Seq(Events), runtime' \in Seq(Events), binding' \in Bindings,
           processes' \in Seq(Processes(conversations)), TurnsAlive',
           task' \in Tasks(Len(processes')), owner' \in 0..Len(processes'),
           forgotten' \in BOOLEAN, torn' \in BOOLEAN, failures' \in 0..MaxFailures
    PROVE  TypeOK'
BY SMTT(30) DEF SessionInv, TypeOK, Processes, TurnsAlive, Tasks

LEMMA TakeStopPreserves ==
    ASSUME SessionInv, TakeStop
    PROVE  SessionInv'
PROOF
  <1> DEFINE Unbinding == [Idle EXCEPT !.at = "unbind", !.mode = session.mode]
  <1>1. /\ intents' \in Seq(Events)
        /\ UNCHANGED <<mode, session, ingest, conversations, latest, stranded, unreported,
                       switches, stops, crashes>>
    BY TakeTypes DEF TakeStop
  <1>2. session.mode \in Modes
    BY TypeFacts DEF Sessions
  <1>3. \A n \in Nat : Unbinding \in Tasks(n) /\ Unbinding.resume = 0
    BY <1>2, IdleTypes DEF Tasks
  <1>4. NoBinding \in Bindings /\ NoBinding.cursor = 0
    BY DEF NoBinding, Bindings, Modes
  <1>5. UNCHANGED <<outcome, overlapped>> /\ failures' \in 0..MaxFailures
    BY FailsTypes DEF TakeStop, SessionInv, TypeOK
  <1> HIDE DEF Unbinding
  <1>6. CASE /\ task' = Unbinding /\ torn' = (torn \/ owner # 0)
             /\ UNCHANGED <<binding, processes, owner, runtime, forgotten>>
    <2>1. task' \in Tasks(Len(processes)) /\ task'.resume = 0
      BY <1>3, <1>6, TypeFacts
    <2> QED
      BY <1>1, <1>5, <1>6, <2>1 DEF SessionInv, TypeOK, CursorsExist, Tasks
  <1>7. CASE UNCHANGED <<task, binding, processes, owner, runtime, forgotten, torn>>
    BY <1>1, <1>5, <1>7 DEF SessionInv, TypeOK, CursorsExist
  <1>8. CASE /\ StopEntry(<<>>) /\ UNCHANGED torn
             /\ \/ binding' = NoBinding /\ forgotten' = TRUE /\ task' = Unbinding
                \/ UNCHANGED <<task, binding, forgotten>>
    <2>1. /\ Len(processes') = Len(processes)
          /\ processes' \in Seq(Processes(conversations)) /\ TurnsAlive'
          /\ owner' = 0 /\ runtime' \in Seq(Events)
      <3>1. <<>> \in Seq(Events)
        OBVIOUS
      <3> QED
        BY <1>8, <3>1, StopEntryTypes
    <2>2. /\ task' \in Tasks(Len(processes')) /\ task'.resume <= conversations
          /\ owner' \in 0..Len(processes')
      BY <1>3, <1>8, <2>1, TypeFacts DEF SessionInv, TypeOK, Tasks, CursorsExist
    <2>3. CursorsExist'
      BY <1>1, <1>4, <1>8, <2>2, TypeFacts DEF SessionInv, CursorsExist
    <2>4. forgotten' \in BOOLEAN /\ torn' \in BOOLEAN /\ binding' \in Bindings
      BY <1>4, <1>8 DEF SessionInv, TypeOK
    <2>5. TypeOK'
      BY <1>1, <1>5, <2>1, <2>2, <2>4, StoppedTypes
    <2> QED
      BY <2>3, <2>5 DEF SessionInv
  <1> QED
    BY <1>6, <1>7, <1>8 DEF TakeStop, Unbinding

LEMMA TaskTypes ==
    ASSUME SessionInv
    PROVE  /\ task \in Tasks(Len(processes)) /\ task.turn \in 0..MaxTurns /\ task.mode \in Modes
           /\ task.resume \in 0..conversations /\ Len(processes) \in Nat
BY TypeFacts DEF SessionInv, TypeOK, Tasks, CursorsExist

(* What the thread being open leaves typed.                                *)
LEMMA OpenTypes ==
    ASSUME SessionInv, NEW c \in 1..(conversations + 1), Open(c)
    PROVE  /\ conversations' \in Nat /\ conversations <= conversations' /\ c \in 1..conversations'
           /\ forgotten' \in BOOLEAN /\ runtime' \in Seq(Events)
           /\ processes[task.process] \in Processes(conversations)
           /\ processes' \in Seq(Processes(conversations')) /\ Len(processes') = Len(processes)
           /\ TurnsAlive'
PROOF
  <1> DEFINE p == task.process
             q == [processes[p] EXCEPT !.conversation = c]
  <1>1. /\ Live(p)
        /\ \/ c = task.resume /\ UNCHANGED <<conversations, forgotten>>
           \/ /\ conversations' = conversations + 1 /\ c = conversations'
              /\ forgotten' = (forgotten \/ task.resume # 0)
        /\ processes' = [processes EXCEPT ![p] = q]
        /\ runtime' = Append(runtime, Event("ready", 0))
    BY DEF Open
  <1>2. p \in DOMAIN processes /\ processes[p] \in Processes(conversations)
    BY <1>1, TypeFacts DEF Live
  <1>3. conversations' \in Nat /\ conversations <= conversations' /\ c \in 1..conversations'
    BY <1>1, TypeFacts, TaskTypes
  <1>4. forgotten' \in BOOLEAN
    BY <1>1 DEF SessionInv, TypeOK
  <1>5. Event("ready", 0) \in Events
    BY EventTypes, SessionAssumption DEF Types
  <1>6. runtime' \in Seq(Events)
    BY <1>1, <1>5, TypeFacts
  <1>7. /\ q \in Processes(conversations')
        /\ q.turn = processes[p].turn /\ q.alive = processes[p].alive
    BY <1>2, <1>3 DEF Processes
  <1>8. processes \in Seq(Processes(conversations'))
    <2>1. Processes(conversations) \subseteq Processes(conversations')
      BY <1>3, TypeFacts DEF Processes
    <2> QED
      BY <2>1, TypeFacts
  <1> HIDE DEF p, q
  <1>9. /\ processes' \in Seq(Processes(conversations')) /\ Len(processes') = Len(processes)
        /\ TurnsAlive'
    BY <1>1, <1>2, <1>7, <1>8, TypeFacts DEF TurnsAlive
  <1> QED
    BY <1>2, <1>3, <1>4, <1>6, <1>9 DEF p

LEMMA OpenPreserves ==
    ASSUME SessionInv, OpenThread \/ SaveFails
    PROVE  SessionInv'
PROOF
  <1>1. PICK at \in {"start", "recover"}, c \in 1..(conversations + 1) :
          /\ Step(at) /\ Open(c)
          /\ UNCHANGED failures \/ Fails
          /\ \/ /\ binding' = [cursor |-> c, mode |-> processes[task.process].mode]
                /\ task' = [task EXCEPT !.at = IF at = "start" THEN "bind" ELSE "request"]
                /\ UNCHANGED <<outcome, torn>>
             \/ /\ task' = Idle /\ Settle(task.turn, "failed") /\ UNCHANGED binding
                /\ torn' = (torn \/ at = "start")
          /\ UNCHANGED <<session, owner, latest, overlapped>>
    <2>1. CASE OpenThread
      BY <2>1 DEF OpenThread
    <2>2. CASE SaveFails
      BY <2>2 DEF SaveFails
    <2> QED
      BY <2>1, <2>2
  <1>2. /\ conversations' \in Nat /\ conversations <= conversations' /\ c \in 1..conversations'
        /\ forgotten' \in BOOLEAN /\ runtime' \in Seq(Events)
        /\ processes[task.process] \in Processes(conversations)
        /\ processes' \in Seq(Processes(conversations')) /\ Len(processes') = Len(processes)
        /\ TurnsAlive'
    BY <1>1, OpenTypes
  <1>3. binding' \in Bindings /\ binding'.cursor <= conversations'
    <2>1. processes[task.process].mode \in Modes
      BY <1>2 DEF Processes
    <2>2. CASE binding' = [cursor |-> c, mode |-> processes[task.process].mode]
      BY <1>2, <2>1, <2>2 DEF Bindings
    <2>3. CASE UNCHANGED binding
      BY <1>2, <2>3, TypeFacts DEF SessionInv, CursorsExist, Bindings
    <2> QED
      BY <1>1, <2>2, <2>3
  <1>4. task' \in Tasks(Len(processes)) /\ task'.resume <= conversations'
    <2>1. task \in Tasks(Len(processes)) /\ task.resume <= conversations' /\ 0 <= conversations'
      BY <1>2, TaskTypes, TypeFacts
    <2>2. LET new == [task EXCEPT !.at = IF at = "start" THEN "bind" ELSE "request"]
          IN  new \in Tasks(Len(processes)) /\ new.resume = task.resume
      BY <2>1 DEF Tasks
    <2>3. Idle \in Tasks(Len(processes)) /\ Idle.resume = 0
      BY IdleTypes, TaskTypes
    <2> QED
      BY <1>1, <2>1, <2>2, <2>3
  <1>5. /\ failures' \in 0..MaxFailures /\ torn' \in BOOLEAN
        /\ outcome' \in [Turns -> {"none", "pending", "sent", "failed", "lost"}]
    BY <1>1, FailsTypes, SettleTypes, TaskTypes DEF SessionInv, TypeOK
  <1>6. UNCHANGED <<mode, intents, ingest, stranded, unreported, switches, stops, crashes>>
    BY <1>1 DEF Step
  <1>7. latest \in 0..conversations'
    BY <1>2, TypeFacts DEF SessionInv, TypeOK
  <1>8. /\ mode' \in Modes /\ session' \in Sessions /\ intents' \in Seq(Events)
        /\ owner' \in 0..Len(processes') /\ latest' \in 0..conversations'
    BY <1>1, <1>2, <1>6, <1>7, TypeFacts
  <1>9. TypeOK'
    BY <1>1, <1>2, <1>3, <1>4, <1>5, <1>6, <1>8
    DEF SessionInv, TypeOK, Processes, TurnsAlive, Tasks
  <1>10. CursorsExist'
    BY <1>3, <1>4 DEF CursorsExist
  <1> QED
    BY <1>9, <1>10 DEF SessionInv

LEMMA StartFailsPreserves ==
    ASSUME SessionInv, StartFails
    PROVE  SessionInv'
PROOF
  <1>1. PICK at \in {"start", "recover"} :
          /\ Step(at)
          /\ IF Live(task.process) THEN Fails ELSE UNCHANGED failures
          /\ StopEntry(<<Event("error", 0)>>)
          /\ Settle(task.turn, "failed")
          /\ task' = Idle
          /\ UNCHANGED <<session, binding, conversations, latest, forgotten, overlapped, torn>>
    BY DEF StartFails
  <1>2. <<Event("error", 0)>> \in Seq(Events)
    BY EventTypes, SessionAssumption DEF Types
  <1>3. /\ processes' \in Seq(Processes(conversations)) /\ TurnsAlive'
        /\ Len(processes') \in Nat /\ owner' = 0 /\ runtime' \in Seq(Events)
    BY <1>1, <1>2, StopEntryTypes, TaskTypes
  <1>4. failures' \in 0..MaxFailures
    BY <1>1, FailsTypes DEF SessionInv, TypeOK
  <1>5. outcome' \in [Turns -> {"none", "pending", "sent", "failed", "lost"}]
    BY <1>1, TaskTypes, SettleTypes
  <1>6. task' \in Tasks(Len(processes')) /\ task'.resume = 0 /\ owner' \in 0..Len(processes')
    BY <1>1, <1>3, IdleTypes
  <1> QED
    BY <1>1, <1>3, <1>4, <1>5, <1>6
    DEF Step, SessionInv, TypeOK, CursorsExist, Processes, TurnsAlive, Tasks

LEMMA BindPreserves ==
    ASSUME SessionInv, Bind
    PROVE  SessionInv'
PROOF
  <1>1. session' \in Sessions
    BY TaskTypes, SessionAssumption DEF Bind, Sessions
  <1>2. task' \in Tasks(Len(processes)) /\ task'.resume <= conversations
    <2>1. CASE task' = Idle
      BY <2>1, IdleTypes, TaskTypes, TypeFacts
    <2>2. CASE task' = [task EXCEPT !.at = "send"]
      BY <2>2, TaskTypes, TypeFacts DEF Tasks
    <2> QED
      BY <2>1, <2>2 DEF Bind
  <1> QED
    BY <1>1, <1>2 DEF Bind, Step, SessionInv, TypeOK, CursorsExist, Tasks

LEMMA BindFailsPreserves ==
    ASSUME SessionInv, BindFails
    PROVE  SessionInv'
PROOF
  <1>1. failures' \in 0..MaxFailures
    BY FailsTypes DEF BindFails
  <1>2. outcome' \in [Turns -> {"none", "pending", "sent", "failed", "lost"}]
    BY TaskTypes, SettleTypes DEF BindFails
  <1>3. task' \in Tasks(Len(processes)) /\ task'.resume <= conversations
    BY IdleTypes, TaskTypes, TypeFacts DEF BindFails
  <1> QED
    BY <1>1, <1>2, <1>3 DEF BindFails, Step, SessionInv, TypeOK, CursorsExist, Tasks

LEMMA RoutePreserves ==
    ASSUME SessionInv, Route
    PROVE  SessionInv'
PROOF
  <1>1. /\ UNCHANGED <<session, binding, conversations, latest, forgotten, torn>>
        /\ UNCHANGED <<mode, intents, ingest, stranded, unreported, switches, stops, crashes>>
        /\ failures' \in 0..MaxFailures
    BY FailsTypes DEF Route, RouteIn, Step, SessionInv, TypeOK
  <1>2. CASE /\ task' = [task EXCEPT !.at = "request", !.process = owner]
             /\ UNCHANGED <<processes, owner, runtime, outcome, overlapped>>
    <2>1. task' \in Tasks(Len(processes)) /\ task'.resume <= conversations
      <3>1. /\ task \in Tasks(Len(processes)) /\ owner \in 0..Len(processes)
            /\ task.resume <= conversations
        BY TaskTypes, TypeFacts
      <3>2. LET new == [task EXCEPT !.at = "request", !.process = owner]
            IN  new \in Tasks(Len(processes)) /\ new.resume = task.resume
        BY <3>1 DEF Tasks
      <3> QED
        BY <1>2, <3>1, <3>2
    <2> QED
      BY <1>1, <1>2, <2>1 DEF SessionInv, TypeOK, CursorsExist, Tasks
  <1>3. CASE /\ Spawn(binding.mode) /\ UNCHANGED outcome
             /\ task' = [task EXCEPT !.at = "recover", !.resume = binding.cursor,
                                     !.process = owner']
    <2>1. binding.mode \in Modes /\ binding.cursor \in 0..conversations
      BY TypeFacts DEF Bindings, SessionInv, CursorsExist
    <2>2. /\ processes' \in Seq(Processes(conversations)) /\ TurnsAlive'
          /\ Len(processes') = Len(processes) + 1
          /\ owner' = Len(processes') /\ runtime' \in Seq(Events) /\ overlapped' \in BOOLEAN
      BY <1>3, <2>1, SpawnTypes
    <2>3. owner' \in 0..Len(processes') /\ Len(processes') \in Nat
      BY <2>2, TaskTypes
    <2>4. task' \in Tasks(Len(processes')) /\ task'.resume <= conversations
      <3>1. task \in Tasks(Len(processes))
        BY TaskTypes
      <3>2. task \in Tasks(Len(processes'))
        BY <2>2, <3>1, TaskTypes DEF Tasks
      <3>3. LET new == [task EXCEPT !.at = "recover", !.resume = binding.cursor, !.process = owner']
            IN  new \in Tasks(Len(processes')) /\ new.resume = binding.cursor
        <4>1. binding.cursor \in Nat
          BY <2>1, TypeFacts
        <4> QED
          BY <2>3, <3>2, <4>1 DEF Tasks
      <3> QED
        BY <1>3, <2>1, <3>3, TypeFacts
    <2> QED
      BY <1>1, <1>3, <2>2, <2>3, <2>4
      DEF SessionInv, TypeOK, CursorsExist, Processes, TurnsAlive, Tasks
  <1>4. CASE /\ Settle(task.turn, "failed") /\ task' = Idle
             /\ UNCHANGED <<processes, owner, runtime, overlapped>>
    <2>1. outcome' \in [Turns -> {"none", "pending", "sent", "failed", "lost"}]
      BY <1>4, TaskTypes, SettleTypes
    <2>2. task' \in Tasks(Len(processes)) /\ task'.resume <= conversations
      BY <1>4, IdleTypes, TaskTypes, TypeFacts
    <2> QED
      BY <1>1, <1>4, <2>1, <2>2 DEF SessionInv, TypeOK, CursorsExist, Tasks
  <1> QED
    BY <1>2, <1>3, <1>4 DEF Route, RouteIn

LEMMA TurnAcceptedPreserves ==
    ASSUME SessionInv, TurnAccepted
    PROVE  SessionInv'
PROOF
  <1> DEFINE p == task.process
             q == [processes[p] EXCEPT !.turn = task.turn]
  <1>1. p \in DOMAIN processes /\ processes[p] \in Processes(conversations) /\ processes[p].alive
    BY TypeFacts DEF TurnAccepted, Live
  <1>2. q \in Processes(conversations) /\ q.alive
    BY <1>1, TaskTypes DEF Processes
  <1>3. processes' = [processes EXCEPT ![p] = q] /\ latest' = processes[p].conversation
    BY DEF TurnAccepted
  <1>4. latest' \in 0..conversations
    BY <1>1, <1>3 DEF Processes
  <1> HIDE DEF p, q
  <1>5. /\ processes' \in Seq(Processes(conversations)) /\ Len(processes') = Len(processes)
        /\ TurnsAlive'
    BY <1>1, <1>2, <1>3, TypeFacts DEF TurnsAlive
  <1>6. Event("started", task.turn) \in Events
    BY TaskTypes, EventTypes DEF Types
  <1>7. runtime' \in Seq(Events)
    BY <1>6, TypeFacts DEF TurnAccepted
  <1>8. outcome' \in [Turns -> {"none", "pending", "sent", "failed", "lost"}]
    BY TaskTypes, SettleTypes DEF TurnAccepted
  <1>9. task' \in Tasks(Len(processes)) /\ task'.resume <= conversations
    BY IdleTypes, TaskTypes, TypeFacts DEF TurnAccepted
  <1>10. failures' \in 0..MaxFailures /\ forgotten' \in BOOLEAN
    BY FailsTypes DEF TurnAccepted, SessionInv, TypeOK
  <1>11. binding' \in Bindings /\ binding'.cursor <= conversations
    <2>1. binding \in Bindings /\ binding.cursor <= conversations
      BY TypeFacts DEF SessionInv, CursorsExist
    <2>2. [binding EXCEPT !.cursor = latest'] \in Bindings
          /\ [binding EXCEPT !.cursor = latest'].cursor = latest'
      BY <1>4, <2>1, TypeFacts DEF Bindings
    <2>3. latest' <= conversations
      BY <1>4
    <2> QED
      BY <2>1, <2>2, <2>3 DEF TurnAccepted
  <1> QED
    BY <1>4, <1>5, <1>7, <1>8, <1>9, <1>10, <1>11
    DEF TurnAccepted, Step, SessionInv, TypeOK, CursorsExist, Processes, TurnsAlive, Tasks

LEMMA TurnFailsPreserves ==
    ASSUME SessionInv, TurnFails
    PROVE  SessionInv'
PROOF
  <1>1. failures' \in 0..MaxFailures
    BY FailsTypes DEF TurnFails, SessionInv, TypeOK
  <1>2. outcome' \in [Turns -> {"none", "pending", "sent", "failed", "lost"}]
    BY TaskTypes, SettleTypes DEF TurnFails, TurnFailed
  <1>3. task' \in Tasks(Len(processes)) /\ task'.resume <= conversations
    BY IdleTypes, TaskTypes, TypeFacts DEF TurnFails, TurnFailed
  <1> QED
    BY <1>1, <1>2, <1>3
    DEF TurnFails, TurnFailed, Step, SessionInv, TypeOK, CursorsExist, Tasks

LEMMA UnbindPreserves ==
    ASSUME SessionInv, Unbind
    PROVE  SessionInv'
PROOF
  <1>1. session' \in Sessions /\ failures' \in 0..MaxFailures
    <2>1. [status |-> "stopped", mode |-> task.mode, turn |-> 0] \in Sessions
      BY TaskTypes, SessionAssumption DEF Sessions
    <2> QED
      BY <2>1, FailsTypes DEF Unbind, SessionInv, TypeOK
  <1>2. task' \in Tasks(Len(processes)) /\ task'.resume <= conversations
    BY IdleTypes, TaskTypes, TypeFacts DEF Unbind
  <1> QED
    BY <1>1, <1>2 DEF Unbind, Step, SessionInv, TypeOK, CursorsExist, Tasks

LEMMA IngestionPreserves ==
    ASSUME SessionInv, Ingestion
    PROVE  SessionInv'
PROOF
  <1>1. CASE IngestEvent
    <2>1. runtime' \in Seq(Events) /\ Head(runtime) \in Events
      BY <1>1, TypeFacts DEF IngestEvent
    <2>2. ingest' \in [event : Events, seen : Sessions]
      BY <1>1, <2>1, TypeFacts DEF IngestEvent
    <2> QED
      BY <1>1, <2>1, <2>2
      DEF IngestEvent, SessionInv, TypeOK, CursorsExist, database, history, counters
  <1>2. CASE DispatchSession
    <2>1. ingest.event \in Events /\ ingest.seen \in Sessions
      BY DEF SessionInv, TypeOK
    <2>2. NextSession \in Sessions
      BY <2>1, SessionAssumption DEF NextSession, Status, Sessions, Events, Types
    <2>3. session' \in Sessions
      BY <1>2, <2>2, TypeFacts DEF DispatchSession
    <2>4. Quiet \in [event : Events, seen : Sessions]
      BY SessionAssumption DEF Quiet, Event, Events, Types, NoSession, Sessions, Modes
    <2> QED
      BY <1>2, <2>3, <2>4
      DEF DispatchSession, SessionInv, TypeOK, CursorsExist, counters
  <1>3. CASE DispatchFails
    <2>1. failures' \in 0..MaxFailures
      BY <1>3, FailsTypes DEF DispatchFails
    <2>2. unreported' \subseteq Types
      BY <1>3 DEF DispatchFails, SessionInv, TypeOK, Events
    <2>3. Quiet \in [event : Events, seen : Sessions]
      BY SessionAssumption
      DEF Quiet, Event, Events, Types, NoSession, Sessions, Modes
    <2> QED
      BY <1>3, <2>1, <2>2, <2>3
      DEF DispatchFails, SessionInv, TypeOK, CursorsExist, database
  <1> QED
    BY <1>1, <1>2, <1>3 DEF Ingestion

LEMMA CrashPreserves ==
    ASSUME SessionInv, Crash
    PROVE  SessionInv'
PROOF
  <1>1. processes' = [p \in 1..Len(processes) |-> Dead]
    BY TypeFacts DEF Crash
  <1>2. /\ processes' \in Seq(Processes(conversations)) /\ Len(processes') = Len(processes)
        /\ TurnsAlive'
    BY <1>1, DeadTypes, TaskTypes DEF TurnsAlive
  <1>3. task' \in Tasks(Len(processes')) /\ task'.resume <= conversations
    BY <1>2, IdleTypes, TaskTypes, TypeFacts DEF Crash
  <1>4. Quiet \in [event : Events, seen : Sessions]
    BY SessionAssumption DEF Quiet, Event, Events, Types, NoSession, Sessions, Modes
  <1>5. outcome' \in [Turns -> {"none", "pending", "sent", "failed", "lost"}]
    BY DEF Crash, SessionInv, TypeOK
  <1>6. owner' \in 0..Len(processes') /\ crashes' \in 0..MaxCrashes
    BY <1>2, TaskTypes, SessionAssumption DEF Crash, SessionInv, TypeOK
  <1>7. runtime' \in Seq(Events) /\ intents' \in Seq(Events) /\ CursorsExist'
    BY <1>3 DEF Crash, database, SessionInv, CursorsExist
  <1>8. torn' \in BOOLEAN /\ stranded' \in BOOLEAN /\ ingest' = Quiet
    BY DEF Crash, SessionInv, TypeOK
  <1>9. UNCHANGED <<database, conversations, latest, forgotten, overlapped, unreported, switches,
                    stops, failures>>
    BY DEF Crash
  <1> QED
    BY <1>2, <1>3, <1>4, <1>5, <1>6, <1>7, <1>8, <1>9, SMTT(30)
    DEF SessionInv, TypeOK, Processes, TurnsAlive, Tasks, database

LEMMA InitTypes == Init => SessionInv
PROOF
  <1> SUFFICES ASSUME Init PROVE SessionInv
    OBVIOUS
  <1>1. task \in Tasks(0) /\ task.resume = 0
    BY IdleTypes DEF Init
  <1>2. Quiet \in [event : Events, seen : Sessions] /\ session \in Sessions
    BY SessionAssumption DEF Init, Quiet, Event, Events, Types, NoSession, Sessions, Modes
  <1>3. binding \in Bindings /\ binding.cursor = 0
    BY DEF Init, NoBinding, Bindings, Modes
  <1>4. /\ processes = <<>> /\ Len(processes) = 0 /\ intents = <<>> /\ runtime = <<>>
        /\ DOMAIN processes = {}
    BY DEF Init
  <1>5. /\ outcome \in [Turns -> {"none", "pending", "sent", "failed", "lost"}]
        /\ conversations = 0 /\ latest = 0 /\ owner = 0
        /\ 0 \in 0..0 /\ 0 \in Nat /\ 0 <= 0
    BY DEF Init
  <1>6. /\ switches \in 0..MaxSwitches /\ stops \in 0..MaxStops
        /\ failures \in 0..MaxFailures /\ crashes \in 0..MaxCrashes
    BY SessionAssumption DEF Init
  <1>7. processes \in Seq(Processes(conversations)) /\ intents \in Seq(Events)
        /\ runtime \in Seq(Events)
    BY <1>4
  <1>8. owner \in 0..Len(processes) /\ latest \in 0..conversations
    BY <1>4, <1>5
  <1> QED
    BY <1>1, <1>2, <1>3, <1>4, <1>5, <1>6, <1>7, <1>8
    DEF Init, SessionInv, TypeOK, CursorsExist, Tasks, Processes

LEMMA NextPreserves ==
    ASSUME SessionInv, [Next]_vars
    PROVE  SessionInv'
PROOF
  <1>1. CASE RequestTurn \/ SetMode \/ RequestStop
    BY <1>1, RequestPreserves
  <1>2. CASE \E p \in DOMAIN processes : CompleteTurn(p) \/ ProcessExits(p)
    BY <1>2, ProcessPreserves
  <1>3. CASE Reactor
    BY <1>3, TakeTurnStartPreserves, TakeModeSetPreserves, TakeStopPreserves, OpenPreserves,
       StartFailsPreserves, BindPreserves, BindFailsPreserves, RoutePreserves,
       TurnAcceptedPreserves, TurnFailsPreserves, UnbindPreserves
    DEF Reactor
  <1>4. CASE Ingestion
    BY <1>4, IngestionPreserves
  <1>5. CASE Crash
    BY <1>5, CrashPreserves
  <1>6. CASE UNCHANGED vars
    BY <1>6 DEF vars, database, memory, history, counters, SessionInv, TypeOK, CursorsExist
  <1> QED
    BY <1>1, <1>2, <1>3, <1>4, <1>5, <1>6 DEF Next

(* The state has the declared shape, for any number of turns, changes,     *)
(* failures and crashes.                                                   *)
THEOREM TypeCorrect == Spec => []TypeOK
PROOF
  <1>1. Init => SessionInv
    BY InitTypes
  <1>2. SessionInv /\ [Next]_vars => SessionInv'
    BY NextPreserves
  <1>3. SessionInv => TypeOK
    BY DEF SessionInv
  <1> QED
    BY <1>1, <1>2, <1>3, PTL DEF Spec

-----------------------------------------------------------------------------
(* Which steps touch the processes.                                        *)

LEMMA ReactorSteps ==
    ASSUME Reactor
    PROVE  \/ \E m \in {mode, binding.mode} : Spawn(m)
           \/ \E events : StopEntry(events) /\ UNCHANGED overlapped
           \/ \E c : Open(c) /\ UNCHANGED <<owner, overlapped>>
           \/ TurnAccepted
           \/ UNCHANGED <<processes, owner, overlapped>>
PROOF
  <1>1. CASE TakeTurnStart
    BY <1>1 DEF TakeTurnStart, StartSession
  <1>2. CASE TakeModeSet
    BY <1>2 DEF TakeModeSet, StartSession
  <1>3. CASE TakeStop
    BY <1>3 DEF TakeStop
  <1>4. CASE StartFails
    BY <1>4 DEF StartFails
  <1>5. CASE Route
    BY <1>5 DEF Route, RouteIn
  <1>6. CASE Bind \/ BindFails \/ TurnFails \/ Unbind
    BY <1>6 DEF Bind, BindFails, TurnFails, TurnFailed, Unbind
  <1>7. CASE OpenThread \/ SaveFails
    BY <1>7 DEF OpenThread, SaveFails
  <1> QED
    BY <1>1, <1>2, <1>3, <1>4, <1>5, <1>6, <1>7 DEF Reactor

(* A change of other fields of a process leaves it as alive as it was.     *)
LEMMA SameLife ==
    ASSUME SessionInv, NEW p \in DOMAIN processes, NEW q, q.alive = processes[p].alive,
           processes' = [processes EXCEPT ![p] = q]
    PROVE  DOMAIN processes' = DOMAIN processes
           /\ \A r \in DOMAIN processes : processes'[r].alive = processes[r].alive
BY TypeFacts

LEMMA RegisteredPreserves ==
    ASSUME SessionInv, ProcessesAreRegistered, [Next]_vars
    PROVE  ProcessesAreRegistered'
PROOF
  <1> DEFINE Same == /\ DOMAIN processes' = DOMAIN processes
                     /\ \A r \in DOMAIN processes : processes'[r].alive = processes[r].alive
                     /\ UNCHANGED <<owner, overlapped>>
  <1>1. CASE Same
    BY <1>1 DEF ProcessesAreRegistered, Live
  <1>2. CASE UNCHANGED <<processes, owner, overlapped>>
    BY <1>1, <1>2
  <1>3. CASE RequestTurn \/ SetMode \/ RequestStop \/ Ingestion \/ UNCHANGED vars
    BY <1>2, <1>3 DEF RequestTurn, SetMode, RequestStop, Request, Ingestion, IngestEvent,
       DispatchSession, DispatchFails, vars, memory, history
  <1>4. ASSUME NEW p \in DOMAIN processes, CompleteTurn(p)
        PROVE  ProcessesAreRegistered'
    <2>1. processes[p] \in Processes(conversations)
      BY TypeFacts
    <2>2. [processes[p] EXCEPT !.turn = 0].alive = processes[p].alive
      BY <2>1 DEF Processes
    <2>3. processes' = [processes EXCEPT ![p] = [processes[p] EXCEPT !.turn = 0]]
          /\ UNCHANGED <<owner, overlapped>>
      BY <1>4 DEF CompleteTurn, history
    <2> QED
      BY <1>1, <2>2, <2>3, SameLife
  <1>5. ASSUME NEW p \in DOMAIN processes, ProcessExits(p)
        PROVE  ProcessesAreRegistered'
    BY <1>5, DeadTypes, TypeFacts DEF ProcessExits, ProcessesAreRegistered, Live, history
  <1>6. CASE Crash
    BY <1>6, DeadTypes DEF Crash, ProcessesAreRegistered, Live
  <1>7. CASE Reactor
    <2>1. ASSUME NEW m, Spawn(m) PROVE ProcessesAreRegistered'
      <3>1. /\ processes \in Seq(Processes(conversations))
            /\ processes' = Append(processes, Process(m)) /\ owner' = Len(processes')
            /\ overlapped' = (overlapped \/ owner # 0) /\ overlapped \in BOOLEAN
        BY <2>1, TypeFacts DEF Spawn, SessionInv, TypeOK
      <3>2. /\ DOMAIN processes' = 1..(Len(processes) + 1) /\ Len(processes') = Len(processes) + 1
            /\ \A p \in DOMAIN processes : processes'[p] = processes[p]
        BY <3>1
      <3>3. ~overlapped' => \A p \in DOMAIN processes : ~processes[p].alive
        <4>1. \A p \in DOMAIN processes : p # 0
          BY <3>1
        <4>2. ~overlapped' => ~overlapped /\ owner = 0
          BY <3>1
        <4> QED
          BY <4>1, <4>2 DEF ProcessesAreRegistered, Live
      <3> QED
        BY <3>1, <3>2, <3>3 DEF ProcessesAreRegistered, Live
    <2>2. ASSUME NEW events, StopEntry(events), UNCHANGED overlapped PROVE ProcessesAreRegistered'
      BY <2>2, DeadTypes DEF StopEntry, ProcessesAreRegistered, Live
    <2>3. ASSUME NEW c, Open(c), UNCHANGED <<owner, overlapped>> PROVE ProcessesAreRegistered'
      <3>1. /\ task.process \in DOMAIN processes
            /\ processes' = [processes EXCEPT ![task.process] =
                                [processes[task.process] EXCEPT !.conversation = c]]
        BY <2>3 DEF Open, Live
      <3>2. processes[task.process] \in Processes(conversations)
        BY <3>1, TypeFacts
      <3>3. [processes[task.process] EXCEPT !.conversation = c].alive
              = processes[task.process].alive
        BY <3>2 DEF Processes
      <3> QED
        BY <1>1, <2>3, <3>1, <3>3, SameLife
    <2>4. CASE TurnAccepted
      <3>1. /\ task.process \in DOMAIN processes
            /\ processes' = [processes EXCEPT ![task.process] =
                                [processes[task.process] EXCEPT !.turn = task.turn]]
            /\ UNCHANGED <<owner, overlapped>>
        BY <2>4 DEF TurnAccepted, Live
      <3>2. processes[task.process] \in Processes(conversations)
        BY <3>1, TypeFacts
      <3>3. [processes[task.process] EXCEPT !.turn = task.turn].alive
              = processes[task.process].alive
        BY <3>2 DEF Processes
      <3> QED
        BY <1>1, <3>1, <3>3, SameLife
    <2> QED
      BY <1>2, <1>7, <2>1, <2>2, <2>3, <2>4, ReactorSteps
  <1> QED
    BY <1>3, <1>4, <1>5, <1>6, <1>7 DEF Next

(* Every live process can be reached through the sessions map, however     *)
(* many sessions came and went, unless one was started over a live one.    *)
THEOREM Registered == Spec => []ProcessesAreRegistered
PROOF
  <1>1. Init => SessionInv /\ ProcessesAreRegistered
    BY InitTypes DEF Init, ProcessesAreRegistered, Live
  <1>2. SessionInv /\ ProcessesAreRegistered /\ [Next]_vars
          => (SessionInv /\ ProcessesAreRegistered)'
    BY NextPreserves, RegisteredPreserves
  <1> QED
    BY <1>1, <1>2, PTL DEF Spec

-----------------------------------------------------------------------------
(* Turns run in their mode.                                                *)

ModeOf(p) == processes[p].mode

(* As long as nothing was torn: the process that is the thread's, the      *)
(* request in hand and the binding have the mode of the session, except    *)
(* that a start goes ahead of the session until it is bound.               *)
OwnerLives == owner # 0 => Live(owner)

OwnMode ==
    /\ task.at \in {"start", "recover", "bind"} => owner \in {0, task.process}
    /\ owner # 0 /\ task.at \notin {"start", "bind"} => ModeOf(owner) = session.mode

TaskMode ==
    /\ Live(task.process) =>
        /\ task.at \in {"start", "bind", "request"} => ModeOf(task.process) = task.mode
        /\ task.at = "recover" => ModeOf(task.process) = session.mode
    /\ task.at \in {"recover", "send", "request", "unbind"} => task.mode = session.mode

BindingMode ==
    binding # NoBinding =>
        binding.mode = IF task.at = "bind" THEN task.mode ELSE session.mode

(* What is routed has a binding.                                           *)
RoutedBound == task.at = "request" => binding # NoBinding

ModeInv == OwnerLives /\ RoutedBound /\ (~torn => OwnMode /\ TaskMode /\ BindingMode)

SameProcesses ==
    /\ DOMAIN processes' = DOMAIN processes
    /\ \A p \in DOMAIN processes :
        processes'[p].alive = processes[p].alive /\ processes'[p].mode = processes[p].mode

LEMMA SameModes ==
    ASSUME SessionInv, NEW p \in DOMAIN processes, NEW q,
           q.alive = processes[p].alive, q.mode = processes[p].mode,
           processes' = [processes EXCEPT ![p] = q]
    PROVE  SameProcesses
BY TypeFacts DEF SameProcesses

LEMMA ProcessFields ==
    ASSUME SessionInv, NEW p \in DOMAIN processes
    PROVE  \A c : /\ [processes[p] EXCEPT !.turn = c].alive = processes[p].alive
                 /\ [processes[p] EXCEPT !.turn = c].mode = processes[p].mode
                 /\ [processes[p] EXCEPT !.conversation = c].alive = processes[p].alive
                 /\ [processes[p] EXCEPT !.conversation = c].mode = processes[p].mode
PROOF
  <1>1. processes[p] \in Processes(conversations)
    BY TypeFacts
  <1> QED
    BY <1>1 DEF Processes

LEMMA SpawnedProcess ==
    ASSUME SessionInv, NEW m \in Modes, Spawn(m)
    PROVE  /\ DOMAIN processes' = DOMAIN processes \cup {owner'} /\ owner' # 0
           /\ \A p \in DOMAIN processes : processes'[p] = processes[p]
           /\ Live(owner)' /\ ModeOf(owner)' = m
PROOF
  <1>1. /\ processes \in Seq(Processes(conversations)) /\ processes' = Append(processes, Process(m))
        /\ owner' = Len(processes')
    BY TypeFacts DEF Spawn
  <1>2. /\ DOMAIN processes' = 1..(Len(processes) + 1) /\ Len(processes') = Len(processes) + 1
        /\ DOMAIN processes = 1..Len(processes) /\ Len(processes) \in Nat
        /\ \A p \in DOMAIN processes : processes'[p] = processes[p]
        /\ processes'[Len(processes) + 1] = Process(m)
    BY <1>1
  <1> QED
    BY <1>1, <1>2 DEF Live, ModeOf, Process

LEMMA NobodyIsZero ==
    ASSUME SessionInv
    PROVE  0 \notin DOMAIN processes /\ ~Live(0)
BY TypeFacts DEF Live

LEMMA IdleModes ==
    Idle.at = "idle" /\ Idle.process = 0
BY DEF Idle

(* Steps that leave the reactor and the modes alone.                       *)
LEMMA ModeKept ==
    ASSUME SessionInv, ModeInv, SameProcesses, UNCHANGED <<task, owner, binding>>,
           torn => torn', ~torn' => session'.mode = session.mode
    PROVE  ModeInv'
BY DEF ModeInv, OwnerLives, OwnMode, TaskMode, BindingMode, RoutedBound, SameProcesses, Live, ModeOf

LEMMA OthersKeepModes ==
    ASSUME SessionInv, ModeInv,
           \/ RequestTurn \/ SetMode \/ RequestStop \/ Ingestion \/ UNCHANGED vars
           \/ \E p \in DOMAIN processes : CompleteTurn(p)
    PROVE  ModeInv'
PROOF
  <1>1. CASE UNCHANGED processes
    <2>1. SameProcesses
      BY <1>1 DEF SameProcesses
    <2> QED
      BY <2>1, ModeKept, TypeFacts
      DEF RequestTurn, SetMode, RequestStop, Request, Ingestion, IngestEvent, DispatchSession,
          DispatchFails,
          CompleteTurn, vars, database, memory, history, SessionInv, TypeOK
  <1>2. ASSUME NEW p \in DOMAIN processes, CompleteTurn(p)
        PROVE  ModeInv'
    <2>1. SameProcesses
      <3>1. processes' = [processes EXCEPT ![p] = [processes[p] EXCEPT !.turn = 0]]
        BY <1>2 DEF CompleteTurn
      <3> DEFINE q == [processes[p] EXCEPT !.turn = 0]
      <3>2. q.alive = processes[p].alive /\ q.mode = processes[p].mode
        BY ProcessFields
      <3> HIDE DEF q
      <3>3. processes' = [processes EXCEPT ![p] = q]
        BY <3>1 DEF q
      <3> QED
        BY <3>2, <3>3, SameModes
    <2> QED
      BY <1>2, <2>1, ModeKept DEF CompleteTurn, database, history
  <1> QED
    BY <1>1, <1>2 DEF RequestTurn, SetMode, RequestStop, Request, Ingestion, IngestEvent,
       DispatchSession, DispatchFails, vars, memory

(* A process may die at any time, and with it the entry.                   *)
LEMMA ExitKeepsModes ==
    ASSUME SessionInv, ModeInv, NEW p \in DOMAIN processes, ProcessExits(p)
    PROVE  ModeInv'
PROOF
  <1>1. /\ processes' = [processes EXCEPT ![p] = Dead] /\ owner' = 0
        /\ UNCHANGED <<session, binding, task, torn>>
    BY DEF ProcessExits, database, history
  <1>2. \A r : Live(r)' => Live(r) /\ processes'[r] = processes[r]
    BY <1>1, DeadTypes, TypeFacts DEF Live
  <1> QED
    BY <1>1, <1>2 DEF ModeInv, OwnerLives, OwnMode, TaskMode, BindingMode, RoutedBound, ModeOf

LEMMA CrashKeepsModes ==
    ASSUME SessionInv, ModeInv, Crash
    PROVE  ModeInv'
PROOF
  <1>1. \A r : ~Live(r)'
    BY DeadTypes DEF Crash, Live
  <1>2. /\ owner' = 0 /\ task' = Idle /\ UNCHANGED <<session, binding>>
        /\ torn' = (torn \/ task.at = "bind") /\ torn \in BOOLEAN
    BY DEF Crash, database, SessionInv, TypeOK
  <1> QED
    BY <1>1, <1>2, IdleModes DEF ModeInv, OwnerLives, OwnMode, TaskMode, BindingMode, RoutedBound

(* The task is over: what was known of process and binding is kept.        *)
LEMMA IdleKeepsModes ==
    ASSUME SessionInv, ModeInv, SameProcesses, task' = Idle, UNCHANGED <<binding, session, torn>>,
           task.at \notin {"start", "bind"}, UNCHANGED owner
    PROVE  ModeInv'
BY IdleModes, NobodyIsZero
   DEF ModeInv, OwnerLives, OwnMode, TaskMode, BindingMode, RoutedBound, SameProcesses, Live, ModeOf

LEMMA StartKeepsModes ==
    ASSUME SessionInv, ModeInv, NEW t, StartSession(t), task = Idle,
           UNCHANGED <<session, binding, torn>>
    PROVE  ModeInv'
PROOF
  <1>1. CASE /\ Spawn(mode)
             /\ task' = [at |-> "start", turn |-> t, mode |-> mode, resume |-> Cursor,
                         process |-> Len(processes')]
    <2>1. /\ owner' = Len(processes') /\ Live(owner)' /\ ModeOf(owner)' = mode
      BY <1>1, SpawnedProcess, TypeFacts DEF Spawn
    <2>2. /\ task'.at = "start" /\ task'.process = owner' /\ task'.mode = mode
      BY <1>1, <2>1
    <2> QED
      BY <2>1, <2>2, IdleModes
      DEF ModeInv, OwnerLives, OwnMode, TaskMode, BindingMode, RoutedBound, ModeOf
  <1>2. CASE UNCHANGED <<task, processes, owner>>
    <2>1. SameProcesses
      BY <1>2 DEF SameProcesses
    <2> QED
      BY <1>2, <2>1, ModeKept
  <1> QED
    BY <1>1, <1>2 DEF StartSession

LEMMA TakeKeepsModes ==
    ASSUME SessionInv, ModeInv, TakeTurnStart \/ TakeModeSet
    PROVE  ModeInv'
PROOF
  <1>1. task = Idle /\ UNCHANGED <<mode, session, binding, torn>>
    BY DEF TakeTurnStart, TakeModeSet, Take
  <1>2. CASE \E t : StartSession(t)
    BY <1>1, <1>2, StartKeepsModes
  <1>3. CASE UNCHANGED <<task, processes, owner>>
    <2>1. SameProcesses
      BY <1>3 DEF SameProcesses
    <2> QED
      BY <1>1, <1>3, <2>1, ModeKept
  <1>4. ASSUME NEW t, session.mode = mode, UNCHANGED <<processes, owner>>,
               task' = [Idle EXCEPT !.at = "send", !.turn = t, !.mode = mode]
        PROVE  ModeInv'
    <2>1. task'.at = "send" /\ task'.mode = mode /\ task'.process = 0
      BY <1>4 DEF Idle
    <2>2. UNCHANGED <<owner, processes>> /\ ~Live(0)' /\ session'.mode = mode
      BY <1>1, <1>4, NobodyIsZero DEF Live
    <2> QED
      BY <1>1, <2>1, <2>2, IdleModes
      DEF ModeInv, OwnerLives, OwnMode, TaskMode, BindingMode, RoutedBound, Live, ModeOf
  <1>5. CASE TakeTurnStart
    BY <1>2, <1>4, <1>5 DEF TakeTurnStart
  <1>6. CASE TakeModeSet
    BY <1>2, <1>3, <1>6 DEF TakeModeSet
  <1> QED
    BY <1>5, <1>6

LEMMA StoppedEntry ==
    ASSUME SessionInv, NEW events, StopEntry(events)
    PROVE  /\ owner' = 0 /\ \A r : Live(r)' => Live(r) /\ processes'[r] = processes[r]
BY DeadTypes, TypeFacts DEF StopEntry, Live

LEMMA TakeStopKeepsModes ==
    ASSUME SessionInv, ModeInv, TakeStop
    PROVE  ModeInv'
PROOF
  <1> DEFINE Unbinding == [Idle EXCEPT !.at = "unbind", !.mode = session.mode]
  <1>1. Unbinding.at = "unbind" /\ Unbinding.process = 0 /\ Unbinding.mode = session.mode
    BY DEF Idle
  <1>2. task = Idle /\ UNCHANGED <<mode, session>> /\ torn \in BOOLEAN
    BY DEF TakeStop, Take, SessionInv, TypeOK
  <1> HIDE DEF Unbinding
  <1>3. CASE /\ task' = Unbinding /\ torn' = (torn \/ owner # 0)
             /\ UNCHANGED <<binding, processes, owner>>
    <2>1. ~Live(0)'
      BY <1>3, NobodyIsZero DEF Live
    <2> QED
      BY <1>1, <1>2, <1>3, <2>1, IdleModes
      DEF ModeInv, OwnerLives, OwnMode, TaskMode, BindingMode, RoutedBound, Live
  <1>4. CASE UNCHANGED <<task, binding, processes, owner, torn>>
    <2>1. SameProcesses
      BY <1>4 DEF SameProcesses
    <2> QED
      BY <1>2, <1>4, <2>1, ModeKept
  <1>5. CASE /\ StopEntry(<<>>) /\ UNCHANGED torn
             /\ \/ binding' = NoBinding /\ task' = Unbinding
                \/ UNCHANGED <<task, binding>>
    <2>1. owner' = 0 /\ ~Live(0)'
      BY <1>5, StoppedEntry, NobodyIsZero
    <2> QED
      BY <1>1, <1>2, <1>5, <2>1, IdleModes
      DEF ModeInv, OwnerLives, OwnMode, TaskMode, BindingMode, RoutedBound
  <1> QED
    BY <1>3, <1>4, <1>5 DEF TakeStop, Unbinding

LEMMA TaskFields ==
    ASSUME SessionInv, NEW at, NEW r, NEW p
    PROVE  /\ LET new == [task EXCEPT !.at = at]
              IN  new.at = at /\ new.mode = task.mode /\ new.process = task.process
           /\ LET new == [task EXCEPT !.at = at, !.process = p]
              IN  new.at = at /\ new.mode = task.mode /\ new.process = p
           /\ LET new == [task EXCEPT !.at = at, !.resume = r, !.process = p]
              IN  new.at = at /\ new.mode = task.mode /\ new.process = p
PROOF
  <1>1. task \in Tasks(Len(processes))
    BY TaskTypes
  <1> QED
    BY <1>1 DEF Tasks

LEMMA OpenKeepsProcesses ==
    ASSUME SessionInv, NEW c, Open(c)
    PROVE  SameProcesses
BY ProcessFields, SameModes DEF Open, Live

LEMMA OpenKeepsModes ==
    ASSUME SessionInv, ModeInv, OpenThread
    PROVE  ModeInv'
PROOF
  <1> DEFINE p == task.process
  <1>1. PICK at \in {"start", "recover"}, c \in 1..(conversations + 1) :
          /\ task.at = at /\ Live(p) /\ Open(c)
          /\ binding' = [cursor |-> c, mode |-> processes[p].mode]
          /\ task' = [task EXCEPT !.at = IF at = "start" THEN "bind" ELSE "request"]
          /\ UNCHANGED <<session, owner, torn>>
    BY DEF OpenThread, Step, Open
  <1>2. SameProcesses
    BY <1>1, OpenKeepsProcesses
  <1>3. /\ task'.at = (IF at = "start" THEN "bind" ELSE "request")
        /\ task'.mode = task.mode /\ task'.process = task.process
    BY <1>1, TaskFields
  <1>4. /\ \A r : Live(r)' <=> Live(r)
        /\ \A r : Live(r) => ModeOf(r)' = ModeOf(r)
    BY <1>2 DEF SameProcesses, Live, ModeOf
  <1>5. /\ Live(p) /\ binding'.mode = ModeOf(p) /\ binding' # NoBinding
        /\ UNCHANGED <<session, owner, torn>>
    <2>1. c # 0 /\ binding'.cursor = c /\ NoBinding.cursor = 0
      BY <1>1, TypeFacts DEF NoBinding
    <2> QED
      BY <1>1, <2>1 DEF ModeOf
  <1> HIDE DEF p
  <1>6. OwnerLives' /\ RoutedBound'
    BY <1>4, <1>5 DEF ModeInv, OwnerLives, RoutedBound
  <1>7. CASE at = "start"
    <2>1. task'.at = "bind" /\ task.at = "start" /\ p = task.process
      BY <1>1, <1>3, <1>7 DEF p
    <2> QED
      BY <1>3, <1>4, <1>5, <1>6, <2>1 DEF ModeInv, OwnerLives, OwnMode, TaskMode, BindingMode
  <1>8. CASE at = "recover"
    <2>1. task'.at = "request" /\ task.at = "recover" /\ p = task.process
      BY <1>1, <1>3, <1>8 DEF p
    <2> QED
      BY <1>3, <1>4, <1>5, <1>6, <2>1 DEF ModeInv, OwnerLives, OwnMode, TaskMode, BindingMode
  <1> QED
    BY <1>7, <1>8

(* A session that is not bound is torn, unless it is recovered.            *)
LEMMA UnboundKeepsModes ==
    ASSUME SessionInv, ModeInv, SaveFails \/ BindFails
    PROVE  ModeInv'
PROOF
  <1>1. /\ task.at \in {"start", "recover", "bind"} /\ task' = Idle
        /\ torn' = (torn \/ task.at # "recover") /\ torn \in BOOLEAN
        /\ UNCHANGED <<session, binding, owner>>
    BY DEF SaveFails, BindFails, Step, SessionInv, TypeOK
  <1>2. SameProcesses
    <2>1. CASE SaveFails
      BY <2>1, OpenKeepsProcesses DEF SaveFails
    <2>2. CASE BindFails
      BY <2>2 DEF BindFails, SameProcesses
    <2> QED
      BY <2>1, <2>2
  <1>3. CASE task.at = "recover"
    BY <1>1, <1>2, <1>3, IdleKeepsModes DEF SessionInv, TypeOK
  <1>4. CASE task.at # "recover"
    <2>1. torn'
      BY <1>1, <1>4
    <2> QED
      BY <1>1, <1>2, <2>1, IdleModes DEF ModeInv, OwnerLives, RoutedBound, SameProcesses, Live
  <1> QED
    BY <1>3, <1>4

LEMMA StartFailsKeepsModes ==
    ASSUME SessionInv, ModeInv, StartFails
    PROVE  ModeInv'
PROOF
  <1>1. /\ task.at \in {"start", "recover"} /\ task' = Idle
        /\ \E events : StopEntry(events)
        /\ UNCHANGED <<session, binding, torn>>
    BY DEF StartFails, Step
  <1>2. owner' = 0 /\ ~Live(0)'
    BY <1>1, StoppedEntry, NobodyIsZero
  <1>3. task'.at = "idle" /\ ~Live(task.process)'
    BY <1>1, <1>2, IdleModes
  <1> QED
    BY <1>1, <1>2, <1>3 DEF ModeInv, OwnerLives, OwnMode, TaskMode, BindingMode, RoutedBound

LEMMA BindKeepsModes ==
    ASSUME SessionInv, ModeInv, Bind
    PROVE  ModeInv'
PROOF
  <1>1. /\ task.at = "bind" /\ session'.mode = task.mode
        /\ task' = Idle \/ task' = [task EXCEPT !.at = "send"]
        /\ UNCHANGED <<binding, owner, processes, torn>>
    BY DEF Bind, Step
  <1>2. \/ task'.at = "idle" /\ task'.process = 0
        \/ task'.at = "send" /\ task'.mode = task.mode /\ task'.process = task.process
    <2>1. CASE task' = Idle
      BY <2>1, IdleModes
    <2>2. CASE task' = [task EXCEPT !.at = "send"]
      BY <2>2, TaskFields
    <2> QED
      BY <1>1, <2>1, <2>2
  <1>3. ~Live(0)'
    BY <1>1, NobodyIsZero DEF Live
  <1> QED
    BY <1>1, <1>2, <1>3
    DEF ModeInv, OwnerLives, OwnMode, TaskMode, BindingMode, RoutedBound, Live, ModeOf

LEMMA RouteKeepsModes ==
    ASSUME SessionInv, ModeInv, Route
    PROVE  ModeInv'
PROOF
  <1>1. task.at = "send" /\ UNCHANGED <<session, binding, torn>>
    BY DEF Route, RouteIn, Step
  <1>2. CASE /\ owner # 0 /\ binding # NoBinding
             /\ task' = [task EXCEPT !.at = "request", !.process = owner]
             /\ UNCHANGED <<processes, owner>>
    <2>1. task'.at = "request" /\ task'.mode = task.mode /\ task'.process = owner
      BY <1>2, TaskFields
    <2> QED
      BY <1>1, <1>2, <2>1
      DEF ModeInv, OwnerLives, OwnMode, TaskMode, BindingMode, RoutedBound, Live, ModeOf
  <1>3. CASE /\ Spawn(binding.mode) /\ binding # NoBinding
             /\ task' = [task EXCEPT !.at = "recover", !.resume = binding.cursor,
                                     !.process = owner']
    <2>1. task'.at = "recover" /\ task'.mode = task.mode /\ task'.process = owner'
      BY <1>3, TaskFields
    <2>2. binding.mode \in Modes
      BY TypeFacts DEF Bindings
    <2>3. Live(owner)' /\ ModeOf(owner)' = binding.mode
      BY <1>3, <2>2, SpawnedProcess
    <2> QED
      BY <1>1, <1>3, <2>1, <2>3
      DEF ModeInv, OwnerLives, OwnMode, TaskMode, BindingMode, RoutedBound, ModeOf
  <1>4. CASE task' = Idle /\ UNCHANGED <<processes, owner>>
    <2>1. SameProcesses
      BY <1>4 DEF SameProcesses
    <2> QED
      BY <1>1, <1>4, <2>1, IdleKeepsModes
  <1> QED
    BY <1>2, <1>3, <1>4 DEF Route, RouteIn

LEMMA TurnKeepsModes ==
    ASSUME SessionInv, ModeInv, TurnAccepted \/ TurnFails
    PROVE  ModeInv'
PROOF
  <1>1. /\ task.at = "request" /\ task' = Idle /\ UNCHANGED <<session, torn, owner>>
        /\ binding' = binding \/ binding' = [binding EXCEPT !.cursor = latest']
    BY DEF TurnAccepted, TurnFails, TurnFailed, Step
  <1>2. binding'.mode = binding.mode
    BY <1>1, TypeFacts DEF Bindings
  <1>3. SameProcesses
    <2>1. CASE TurnAccepted
      BY <2>1, ProcessFields, SameModes DEF TurnAccepted, Live
    <2>2. CASE TurnFails
      BY <2>2 DEF TurnFails, TurnFailed, SameProcesses
    <2> QED
      BY <2>1, <2>2
  <1> QED
    BY <1>1, <1>2, <1>3, IdleModes, NobodyIsZero
    DEF ModeInv, OwnerLives, OwnMode, TaskMode, BindingMode, RoutedBound, SameProcesses, Live,
        ModeOf

LEMMA UnbindKeepsModes ==
    ASSUME SessionInv, ModeInv, Unbind
    PROVE  ModeInv'
PROOF
  <1>1. /\ task.at = "unbind" /\ task' = Idle /\ session'.mode \in {task.mode, session.mode}
        /\ UNCHANGED <<binding, owner, processes, torn>>
    BY DEF Unbind, Step
  <1>2. ~Live(0)'
    BY <1>1, NobodyIsZero DEF Live
  <1> QED
    BY <1>1, <1>2, IdleModes
    DEF ModeInv, OwnerLives, OwnMode, TaskMode, BindingMode, RoutedBound, Live, ModeOf

LEMMA ModesPreserved ==
    ASSUME SessionInv, ModeInv, [Next]_vars
    PROVE  ModeInv'
PROOF
  <1>1. CASE Reactor
    BY <1>1, TakeKeepsModes, TakeStopKeepsModes, OpenKeepsModes, UnboundKeepsModes,
       StartFailsKeepsModes,
       BindKeepsModes, RouteKeepsModes, TurnKeepsModes, UnbindKeepsModes
    DEF Reactor
  <1>2. CASE \E p \in DOMAIN processes : ProcessExits(p)
    BY <1>2, ExitKeepsModes
  <1>3. CASE Crash
    BY <1>3, CrashKeepsModes
  <1> QED
    BY <1>1, <1>2, <1>3, OthersKeepModes DEF Next

(* A turn goes to a process that runs in the mode the thread had when the  *)
(* reactor took the request, over any number of restarts, recoveries,      *)
(* failures and crashes, unless something was torn.                        *)
THEOREM RightMode == Spec => TurnsRunInTheirMode
PROOF
  <1>1. Init => SessionInv /\ ModeInv
    <2>1. ASSUME Init PROVE ModeInv
      BY <2>1, IdleModes
      DEF Init, ModeInv, OwnerLives, OwnMode, TaskMode, BindingMode, RoutedBound, Live
    <2> QED
      BY <2>1, InitTypes
  <1>2. SessionInv /\ ModeInv /\ [Next]_vars => (SessionInv /\ ModeInv)'
    BY NextPreserves, ModesPreserved
  <1>3. SessionInv /\ ModeInv /\ [Next]_vars
          => [TurnAccepted /\ ~torn => processes[task.process].mode = task.mode]_vars
    BY DEF ModeInv, TaskMode, TurnAccepted, Step, ModeOf
  <1> QED
    BY <1>1, <1>2, <1>3, PTL DEF Spec, TurnsRunInTheirMode

-----------------------------------------------------------------------------
(* Conversations continue.                                                 *)

ConversationOf(p) == processes[p].conversation
Opening == task.at \in {"start", "recover"}

(* The persisted cursor is the conversation of the thread's process once   *)
(* that is open, and what a session being opened resumes, unless there is  *)
(* none yet or the conversation was given up and its successor is not      *)
(* saved; turns were run in it unless it was given up.                     *)
Fits(c) == c = binding.cursor \/ binding.cursor = 0 \/ forgotten
Fitting(p) == ConversationOf(p) # 0 /\ Fits(ConversationOf(p))

OwnConversation ==
    /\ Opening \/ task.at = "request" => owner \in {0, task.process}
    /\ owner # 0 /\ ~Opening => Fitting(owner)

TaskConversation ==
    /\ Opening => Fits(task.resume)
    /\ task.at = "request" => binding.cursor # 0
    /\ task.at = "request" /\ Live(task.process) => Fitting(task.process)

ConversationInv ==
    /\ OwnConversation /\ TaskConversation
    /\ ~forgotten => latest \in {0, binding.cursor}
    /\ binding # NoBinding => binding.cursor # 0

SameConversations ==
    /\ DOMAIN processes' = DOMAIN processes
    /\ \A p \in DOMAIN processes :
        /\ processes'[p].alive = processes[p].alive
        /\ processes'[p].conversation = processes[p].conversation

LEMMA TurnKeepsConversations ==
    ASSUME SessionInv, NEW p \in DOMAIN processes, NEW t,
           processes' = [processes EXCEPT ![p].turn = t]
    PROVE  SameConversations
PROOF
  <1> DEFINE q == [processes[p] EXCEPT !.turn = t]
  <1>1. processes[p] \in Processes(conversations)
    BY TypeFacts
  <1>2. q.alive = processes[p].alive /\ q.conversation = processes[p].conversation
    BY <1>1 DEF Processes
  <1>3. processes' = [processes EXCEPT ![p] = q]
    OBVIOUS
  <1> HIDE DEF q
  <1> QED
    BY <1>2, <1>3, TypeFacts DEF SameConversations

LEMMA ConversationKept ==
    ASSUME SessionInv, ConversationInv, SameConversations,
           UNCHANGED <<task, owner, binding, latest, forgotten>>
    PROVE  ConversationInv'
PROOF
  <1>1. \A p : Live(p)' <=> Live(p)
    BY DEF SameConversations, Live
  <1>2. \A p \in DOMAIN processes : ConversationOf(p)' = ConversationOf(p)
    BY DEF SameConversations, ConversationOf
  <1>3. owner # 0 => owner \in DOMAIN processes
    BY TypeFacts
  <1>4. Live(task.process) => task.process \in DOMAIN processes
    BY DEF Live
  <1> QED
    BY <1>1, <1>2, <1>3, <1>4
    DEF ConversationInv, OwnConversation, TaskConversation, Opening, Fits, Fitting

LEMMA OthersKeepConversations ==
    ASSUME SessionInv, ConversationInv,
           \/ RequestTurn \/ SetMode \/ RequestStop \/ Ingestion \/ UNCHANGED vars
           \/ \E p \in DOMAIN processes : CompleteTurn(p) \/ ProcessExits(p)
           \/ Crash
    PROVE  ConversationInv'
PROOF
  <1>1. CASE RequestTurn \/ SetMode \/ RequestStop \/ Ingestion \/ UNCHANGED vars
    <2>1. UNCHANGED <<processes, task, owner, binding, latest, forgotten>>
      BY <1>1 DEF RequestTurn, SetMode, RequestStop, Request, Ingestion, IngestEvent,
         DispatchSession, DispatchFails, vars, database, memory, history
    <2>2. SameConversations
      BY <2>1 DEF SameConversations
    <2> QED
      BY <2>1, <2>2, ConversationKept
  <1>2. ASSUME NEW p \in DOMAIN processes, CompleteTurn(p)
        PROVE  ConversationInv'
    BY <1>2, TurnKeepsConversations, ConversationKept DEF CompleteTurn, database, history
  <1>3. ASSUME NEW p \in DOMAIN processes, ProcessExits(p)
        PROVE  ConversationInv'
    <2>1. /\ processes' = [processes EXCEPT ![p] = Dead] /\ owner' = 0
          /\ UNCHANGED <<task, binding, latest, forgotten>>
      BY <1>3 DEF ProcessExits, database, history
    <2>2. \A r : Live(r)' => Live(r) /\ processes'[r] = processes[r]
      BY <2>1, DeadTypes, TypeFacts DEF Live
    <2> QED
      BY <2>1, <2>2
      DEF ConversationInv, OwnConversation, TaskConversation, Opening, Fits, Fitting,
          ConversationOf
  <1>4. CASE Crash
    BY <1>4, IdleModes
    DEF Crash, database, ConversationInv, OwnConversation, TaskConversation, Opening
  <1> QED
    BY <1>1, <1>2, <1>3, <1>4

(* The cursor of a session to start is the persisted one or fits as well.  *)
LEMMA CursorFits ==
    ASSUME SessionInv, ConversationInv, task = Idle
    PROVE  Fits(Cursor)
BY IdleModes
   DEF Cursor, ConversationInv, OwnConversation, Opening, ConversationOf, Fits, Fitting

LEMMA StartKeepsConversations ==
    ASSUME SessionInv, ConversationInv, NEW t, StartSession(t), task = Idle,
           UNCHANGED <<binding, latest, forgotten>>
    PROVE  ConversationInv'
PROOF
  <1>1. CASE /\ Spawn(mode)
             /\ task' = [at |-> "start", turn |-> t, mode |-> mode, resume |-> Cursor,
                         process |-> Len(processes')]
    <2>1. /\ task'.at = "start" /\ task'.resume = Cursor /\ task'.process = owner'
      BY <1>1 DEF Spawn
    <2> QED
      BY <2>1, CursorFits DEF ConversationInv, OwnConversation, TaskConversation, Opening, Fits
  <1>2. CASE UNCHANGED <<task, processes, owner>>
    <2>1. SameConversations
      BY <1>2 DEF SameConversations
    <2> QED
      BY <1>2, <2>1, ConversationKept
  <1> QED
    BY <1>1, <1>2 DEF StartSession

LEMMA TakeKeepsConversations ==
    ASSUME SessionInv, ConversationInv, TakeTurnStart \/ TakeModeSet \/ TakeStop
    PROVE  ConversationInv'
PROOF
  <1>1. task = Idle /\ UNCHANGED latest
    BY DEF TakeTurnStart, TakeModeSet, TakeStop, Take
  <1>2. ASSUME NEW t, StartSession(t), UNCHANGED <<binding, forgotten>>
        PROVE  ConversationInv'
    BY <1>1, <1>2, StartKeepsConversations
  <1>3. ASSUME UNCHANGED <<processes, owner, binding, forgotten>>,
               task'.at \notin {"start", "recover", "request"}
        PROVE  ConversationInv'
    BY <1>1, <1>3, IdleModes
    DEF ConversationInv, OwnConversation, TaskConversation, Opening, Fits, Fitting, ConversationOf
  <1>4. CASE TakeTurnStart
    <2>1. CASE StartSession(Head(intents).turn)
      BY <1>2, <1>4, <2>1 DEF TakeTurnStart
    <2>2. CASE /\ task' = [Idle EXCEPT !.at = "send", !.turn = Head(intents).turn, !.mode = mode]
               /\ UNCHANGED <<processes, owner>>
      <3>1. task'.at = "send"
        BY <2>2 DEF Idle
      <3> QED
        BY <1>3, <1>4, <2>2, <3>1 DEF TakeTurnStart
    <2> QED
      BY <1>4, <2>1, <2>2 DEF TakeTurnStart
  <1>5. CASE TakeModeSet
    <2>1. CASE StartSession(0)
      BY <1>2, <1>5, <2>1 DEF TakeModeSet
    <2>2. CASE UNCHANGED <<task, processes, owner>>
      BY <1>1, <1>3, <1>5, <2>2, IdleModes DEF TakeModeSet
    <2> QED
      BY <1>5, <2>1, <2>2 DEF TakeModeSet
  <1>6. CASE TakeStop
    <2>1. CASE /\ task' = [Idle EXCEPT !.at = "unbind", !.mode = session.mode]
               /\ UNCHANGED <<processes, owner, binding, forgotten>>
      <3>1. task'.at = "unbind"
        BY <2>1 DEF Idle
      <3> QED
        BY <1>3, <2>1, <3>1
    <2>2. CASE UNCHANGED <<task, processes, owner, binding, forgotten>>
      BY <1>1, <1>3, <2>2, IdleModes
    <2>3. CASE /\ StopEntry(<<>>)
               /\ \/ /\ forgotten' = TRUE /\ binding' = NoBinding
                     /\ task' = [Idle EXCEPT !.at = "unbind", !.mode = session.mode]
                  \/ UNCHANGED <<task, binding, forgotten>>
      <3>1. task'.at \in {"unbind", "idle"} /\ owner' = 0
        BY <1>1, <2>3, StoppedEntry, IdleModes DEF Idle
      <3> QED
        BY <1>1, <2>3, <3>1
        DEF ConversationInv, OwnConversation, TaskConversation, Opening, Fits
    <2> QED
      BY <1>6, <2>1, <2>2, <2>3 DEF TakeStop
  <1> QED
    BY <1>4, <1>5, <1>6

(* What the thread is opened with is what it was to resume, or new.        *)
LEMMA OpenedConversation ==
    ASSUME SessionInv, ConversationInv, NEW c \in 1..(conversations + 1), Open(c), Opening
    PROVE  /\ processes'[task.process].conversation = c /\ c # 0
           /\ ~forgotten' => /\ ~forgotten
                             /\ c = binding.cursor \/ binding.cursor = 0
                             /\ latest \in {0, c}
PROOF
  <1> DEFINE p == task.process
             q == [processes[p] EXCEPT !.conversation = c]
  <1>1. /\ Live(p)
        /\ \/ c = task.resume /\ UNCHANGED forgotten
           \/ forgotten' = (forgotten \/ task.resume # 0)
        /\ processes' = [processes EXCEPT ![p] = q]
    BY DEF Open
  <1>2. p \in DOMAIN processes /\ processes[p] \in Processes(conversations)
    BY <1>1, TypeFacts DEF Live
  <1>3. q.conversation = c
    BY <1>2 DEF Processes
  <1> HIDE DEF q
  <1>4. processes'[p].conversation = c /\ c # 0
    BY <1>1, <1>2, <1>3, TypeFacts
  <1>5. forgotten \in BOOLEAN
    BY DEF SessionInv, TypeOK
  <1>6. Fits(task.resume) /\ (~forgotten => latest \in {0, binding.cursor})
    BY DEF ConversationInv, TaskConversation
  <1>7. ~forgotten' => ~forgotten /\ (c = task.resume \/ task.resume = 0)
    BY <1>1, <1>5
  <1> QED
    BY <1>4, <1>6, <1>7 DEF Fits

LEMMA OpenKeepsConversations ==
    ASSUME SessionInv, ConversationInv, OpenThread \/ SaveFails
    PROVE  ConversationInv'
PROOF
  <1>1. PICK at \in {"start", "recover"}, c \in 1..(conversations + 1) :
          /\ task.at = at /\ Open(c) /\ UNCHANGED <<owner, latest>>
          /\ \/ /\ binding' = [cursor |-> c, mode |-> processes[task.process].mode]
                /\ task' = [task EXCEPT !.at = IF at = "start" THEN "bind" ELSE "request"]
             \/ task' = Idle /\ UNCHANGED binding
    BY DEF OpenThread, SaveFails, Step
  <1>2. Opening /\ owner \in {0, task.process}
    BY <1>1 DEF Opening, ConversationInv, OwnConversation
  <1>3. /\ processes'[task.process].conversation = c /\ c # 0
        /\ ~forgotten' => /\ ~forgotten
                          /\ c = binding.cursor \/ binding.cursor = 0
                          /\ latest \in {0, c}
    BY <1>1, <1>2, OpenedConversation
  <1>4. CASE /\ binding' = [cursor |-> c, mode |-> processes[task.process].mode]
             /\ task' = [task EXCEPT !.at = IF at = "start" THEN "bind" ELSE "request"]
    <2>1. binding'.cursor = c /\ task'.at \in {"bind", "request"} /\ task'.process = task.process
      BY <1>4, TaskFields
    <2> QED
      BY <1>1, <1>2, <1>3, <2>1
      DEF ConversationInv, OwnConversation, TaskConversation, Opening, Fits, Fitting, ConversationOf
  <1>5. CASE task' = Idle /\ UNCHANGED binding
    BY <1>1, <1>2, <1>3, <1>5, IdleModes
    DEF ConversationInv, OwnConversation, TaskConversation, Opening, Fits, Fitting, ConversationOf
  <1> QED
    BY <1>1, <1>4, <1>5

LEMMA StepsKeepConversations ==
    ASSUME SessionInv, ConversationInv,
           \/ StartFails \/ Bind \/ BindFails \/ Route
           \/ TurnAccepted \/ TurnFails \/ Unbind
    PROVE  ConversationInv'
PROOF
  <1>1. ASSUME task'.at \notin {"start", "recover", "request"}, ~Opening, SameConversations,
               UNCHANGED <<owner, binding, latest, forgotten>>
        PROVE  ConversationInv'
    <2>1. owner # 0 => owner \in DOMAIN processes
      BY TypeFacts
    <2> QED
      BY <1>1, <2>1
      DEF ConversationInv, OwnConversation, TaskConversation, Opening, ConversationOf,
          SameConversations, Fits, Fitting
  <1>2. ASSUME UNCHANGED processes PROVE SameConversations
    BY <1>2 DEF SameConversations
  <1>3. CASE StartFails
    <2>1. /\ task' = Idle /\ \E events : StopEntry(events)
          /\ UNCHANGED <<binding, latest, forgotten>>
      BY <1>3 DEF StartFails
    <2>2. owner' = 0 /\ task'.at = "idle"
      BY <2>1, StoppedEntry, IdleModes
    <2> QED
      BY <2>1, <2>2 DEF ConversationInv, OwnConversation, TaskConversation, Opening, Fits
  <1>4. CASE Bind
    <2>1. task' = Idle \/ task' = [task EXCEPT !.at = "send"]
      BY <1>4 DEF Bind
    <2>2. CASE task' = Idle
      BY <1>1, <1>2, <1>4, <2>2, IdleModes DEF Bind, Step, Opening
    <2>3. CASE task' = [task EXCEPT !.at = "send"]
      <3>1. task'.at = "send"
        BY <2>3, TaskFields
      <3> QED
        BY <1>1, <1>2, <1>4, <3>1 DEF Bind, Step, Opening
    <2> QED
      BY <2>1, <2>2, <2>3
  <1>5. CASE Route
    <2>1. task.at = "send" /\ ~Opening /\ UNCHANGED <<binding, latest, forgotten>>
      BY <1>5 DEF Route, RouteIn, Step, Opening
    <2>2. CASE /\ owner # 0 /\ binding # NoBinding
               /\ task' = [task EXCEPT !.at = "request", !.process = owner]
               /\ UNCHANGED <<processes, owner>>
      <3>1. task'.at = "request" /\ task'.process = owner
        BY <2>2, TaskFields
      <3> QED
        BY <2>1, <2>2, <3>1
        DEF ConversationInv, OwnConversation, TaskConversation, Opening, ConversationOf, Fits,
            Fitting
    <2>3. CASE /\ Spawn(binding.mode)
               /\ task' = [task EXCEPT !.at = "recover", !.resume = binding.cursor,
                                       !.process = owner']
      <3>1. task'.at = "recover" /\ task'.process = owner'
        BY <2>3, TaskFields
      <3>2. task'.resume = binding.cursor
        <4>1. task \in Tasks(Len(processes))
          BY TaskTypes
        <4> QED
          BY <2>3, <4>1 DEF Tasks
      <3> QED
        BY <2>1, <3>1, <3>2
        DEF ConversationInv, OwnConversation, TaskConversation, Opening, Fits
    <2>4. CASE task' = Idle /\ UNCHANGED <<processes, owner>>
      BY <1>1, <1>2, <2>1, <2>4, IdleModes
    <2> QED
      BY <1>5, <2>2, <2>3, <2>4 DEF Route, RouteIn
  <1>6. CASE TurnAccepted
    <2>1. /\ task.at = "request" /\ task' = Idle /\ UNCHANGED owner
          /\ Live(task.process) /\ latest' = ConversationOf(task.process)
          /\ processes' = [processes EXCEPT ![task.process].turn = task.turn]
          /\ \/ binding' = [binding EXCEPT !.cursor = latest'] /\ forgotten' = FALSE
             \/ UNCHANGED <<binding, forgotten>>
      BY <1>6 DEF TurnAccepted, Step, ConversationOf
    <2>2. /\ latest' # 0 /\ Fits(latest') /\ binding.cursor # 0 /\ owner \in {0, task.process}
          /\ ~forgotten => latest \in {0, binding.cursor}
      BY <2>1 DEF ConversationInv, OwnConversation, TaskConversation, Fitting, Fits
    <2>3. SameConversations
      BY <2>1, TurnKeepsConversations DEF Live
    <2>4. owner # 0 => ConversationOf(owner)' = latest'
      BY <2>1, <2>2, <2>3 DEF SameConversations, ConversationOf, Live
    <2>5. CASE binding' = [binding EXCEPT !.cursor = latest'] /\ forgotten' = FALSE
      <3>1. binding'.cursor = latest'
        BY <2>5, TypeFacts DEF Bindings
      <3> QED
        BY <2>1, <2>2, <2>4, <3>1, IdleModes
        DEF ConversationInv, OwnConversation, TaskConversation, Opening, Fits, Fitting
    <2>6. CASE UNCHANGED <<binding, forgotten>>
      BY <2>1, <2>2, <2>4, <2>6, IdleModes
      DEF ConversationInv, OwnConversation, TaskConversation, Opening, Fits, Fitting
    <2> QED
      BY <2>1, <2>5, <2>6
  <1>7. CASE BindFails \/ TurnFails \/ Unbind
    BY <1>1, <1>2, <1>7, IdleModes DEF BindFails, TurnFails, TurnFailed, Unbind, Step, Opening
  <1> QED
    BY <1>3, <1>4, <1>5, <1>6, <1>7

(* A turn continues the conversation of the turn before it, over any       *)
(* number of restarts of session and server, unless the conversation was   *)
(* stopped or could not be resumed.                                        *)
THEOREM SameConversation == Spec => ConversationContinues
PROOF
  <1>1. Init => SessionInv /\ ConversationInv
    <2>1. ASSUME Init PROVE ConversationInv
      BY <2>1, IdleModes
      DEF Init, NoBinding, ConversationInv, OwnConversation, TaskConversation, Opening
    <2> QED
      BY <2>1, InitTypes
  <1>2. SessionInv /\ ConversationInv /\ [Next]_vars => (SessionInv /\ ConversationInv)'
    BY NextPreserves, OthersKeepConversations, TakeKeepsConversations, OpenKeepsConversations,
       StepsKeepConversations
    DEF Next, Reactor
  <1>3. SessionInv /\ ConversationInv /\ [Next]_vars
          => [latest # 0 /\ latest' # latest => forgotten]_vars
    <2>1. ASSUME ConversationInv, TurnAccepted
          PROVE  latest # 0 /\ latest' # latest => forgotten
      BY <2>1
      DEF ConversationInv, TaskConversation, TurnAccepted, Step, ConversationOf, Fits, Fitting
    <2>2. ASSUME Next, ~TurnAccepted PROVE UNCHANGED latest
      BY <2>2 DEF Next, RequestTurn, SetMode, RequestStop, Request, CompleteTurn, ProcessExits,
         Reactor, TakeTurnStart, TakeModeSet, TakeStop, Take, OpenThread, SaveFails, StartFails,
         Bind, BindFails, Route, RouteIn, TurnFails, TurnFailed, Unbind, Ingestion, IngestEvent,
         DispatchSession, DispatchFails, Crash, history
    <2> QED
      BY <2>1, <2>2
  <1> QED
    BY <1>1, <1>2, <1>3, PTL DEF Spec, ConversationContinues

-----------------------------------------------------------------------------
(* The session in the read model is real.                                  *)

(* The events that, once ingested, end the turn t, and the one that begins *)
(* it.                                                                     *)
Clears(e, t) == e.type \in {"exited", "error"} \/ (e.type = "completed" /\ e.turn = t)
Starts(e, t) == e.type = "started" /\ e.turn = t

(* A live process works on t; its end waits for ingestion.                 *)
Worked(t) == \E p \in DOMAIN processes : Live(p) /\ processes[p].turn = t
Cleared(t) == \E j \in DOMAIN runtime : Clears(runtime[j], t)

(* No turn lost its end, and no session its beginning.                     *)
EndsTold == ~stranded /\ unreported \cap {"completed", "exited", "error"} = {}
EntryTold == ~torn /\ unreported \subseteq {"exited", "error"}

(* A turn that is active, or was when the event was taken, or will be, is  *)
(* worked on or its end is on the way.                                     *)
ActiveTurns ==
    \A t \in Turns : EndsTold /\ t \in {session.turn, ingest.seen.turn} =>
        Worked(t) \/ Clears(ingest.event, t) \/ Cleared(t)

StartedTurn == \A t \in Turns : Starts(ingest.event, t) => Worked(t) \/ Cleared(t)

StartingTurns ==
    \A t \in Turns : \A i \in DOMAIN runtime : Starts(runtime[i], t) =>
        Worked(t) \/ \E j \in DOMAIN runtime : i < j /\ Clears(runtime[j], t)

(* While an event is ingested, nobody begins a turn in the read model.     *)
SeenTurn == ingest # Quiet /\ session.turn # 0 => ingest.seen.turn = session.turn

ClaimInv == ActiveTurns /\ StartedTurn /\ StartingTurns /\ SeenTurn

(* Of the sessions map: its entry is yet to be shown, or is shown and no   *)
(* exit waits to be.                                                       *)
NoExits == \A j \in DOMAIN runtime : runtime[j].type # "exited"

Connects ==
    \/ ingest.event.type = "connecting" /\ NoExits
    \/ \E i \in DOMAIN runtime :
          /\ runtime[i].type = "connecting"
          /\ \A j \in DOMAIN runtime : i < j => runtime[j].type # "exited"

Shown == NoExits /\ ingest.event.type # "exited" /\ session.status # "stopped"

EntryInv ==
    EntryTold => /\ owner # 0 => Connects \/ Shown
                 /\ task.at = "unbind" => owner = 0

(* What a step leaves of the runtime events: those that were, in order, and *)
(* new ones behind them.                                                   *)
Extends ==
    /\ DOMAIN runtime \subseteq DOMAIN runtime'
    /\ \A i \in DOMAIN runtime : runtime'[i] = runtime[i]
    /\ \A i \in DOMAIN runtime, j \in DOMAIN runtime' \ DOMAIN runtime : i < j

NewEvents == {runtime'[j] : j \in DOMAIN runtime' \ DOMAIN runtime}

(* A turn is no longer worked on only if an event says so, and an event    *)
(* says that it began only if it is.                                       *)
KeepsClaims ==
    /\ \A t \in Turns : Worked(t) => Worked(t)' \/ \E e \in NewEvents : Clears(e, t)
    /\ \A t \in Turns : \A e \in NewEvents : Starts(e, t) => Worked(t)'

(* The entry of the sessions map is announced, or it was there before and  *)
(* nothing shows its end.                                                  *)
KeepsEntry ==
    EntryTold' =>
        /\ task'.at = "unbind" => owner' = 0
        /\ owner' # 0 =>
              \/ \E e \in NewEvents : e.type = "connecting"
              \/ owner # 0 /\ (session'.status = "stopped" => session.status = "stopped")
        /\ owner' # 0 => \A e \in NewEvents : e.type # "exited"

SameIngestion ==
    UNCHANGED <<ingest, stranded, unreported>> /\ session'.turn \in {session.turn, 0}

LEMMA ClaimsKept ==
    ASSUME SessionInv, ClaimInv, SameIngestion, Extends, KeepsClaims
    PROVE  ClaimInv'
PROOF
  <1>1. ASSUME NEW t \in Turns, Worked(t) \/ Cleared(t)
        PROVE  Worked(t)' \/ Cleared(t)'
    BY <1>1 DEF Cleared, Extends, KeepsClaims, NewEvents
  <1>2. \A t : Clears(ingest.event, t)' = Clears(ingest.event, t)
               /\ Starts(ingest.event, t)' = Starts(ingest.event, t)
    BY DEF SameIngestion, Clears, Starts
  <1>3. ActiveTurns'
    <2> SUFFICES ASSUME NEW t \in Turns, EndsTold', t \in {session'.turn, ingest'.seen.turn}
                 PROVE  Worked(t)' \/ Clears(ingest.event, t)' \/ Cleared(t)'
      BY DEF ActiveTurns
    <2>1. EndsTold /\ t \in {session.turn, ingest.seen.turn}
      BY SessionAssumption DEF SameIngestion, Turns, EndsTold
    <2> QED
      BY <1>1, <1>2, <2>1 DEF ClaimInv, ActiveTurns
  <1>4. StartedTurn'
    BY <1>1, <1>2 DEF ClaimInv, StartedTurn
  <1>5. StartingTurns'
    <2> SUFFICES ASSUME NEW t \in Turns, NEW i \in DOMAIN runtime', Starts(runtime'[i], t)
                 PROVE  Worked(t)' \/ \E j \in DOMAIN runtime' : i < j /\ Clears(runtime'[j], t)
      BY DEF StartingTurns, Starts, Clears
    <2>1. CASE i \in DOMAIN runtime
      <3>1. runtime'[i] = runtime[i]
        BY <2>1 DEF Extends
      <3>2. Worked(t) \/ \E j \in DOMAIN runtime : i < j /\ Clears(runtime[j], t)
        BY <2>1, <3>1 DEF ClaimInv, StartingTurns
      <3>3. CASE Worked(t)
        <4>1. Worked(t)' \/ \E e \in NewEvents : Clears(e, t)
          BY <3>3 DEF KeepsClaims
        <4>2. ASSUME NEW e \in NewEvents, Clears(e, t)
              PROVE  \E j \in DOMAIN runtime' : i < j /\ Clears(runtime'[j], t)
          BY <2>1, <4>2 DEF NewEvents, Extends
        <4> QED
          BY <4>1, <4>2
      <3>4. CASE \E j \in DOMAIN runtime : i < j /\ Clears(runtime[j], t)
        BY <3>4 DEF Extends
      <3> QED
        BY <3>2, <3>3, <3>4
    <2>2. CASE i \notin DOMAIN runtime
      BY <2>2 DEF KeepsClaims, NewEvents
    <2> QED
      BY <2>1, <2>2
  <1>6. SeenTurn'
    BY DEF ClaimInv, SeenTurn, SameIngestion
  <1> QED
    BY <1>3, <1>4, <1>5, <1>6 DEF ClaimInv

LEMMA EntryKept ==
    ASSUME SessionInv, EntryInv, UNCHANGED <<ingest, unreported>>, torn => torn', Extends,
           KeepsEntry, runtime' \in Seq(Events)
    PROVE  EntryInv'
PROOF
  <1> SUFFICES ASSUME EntryTold', owner' # 0 PROVE (Connects \/ Shown)'
    BY DEF EntryInv, KeepsEntry
  <1>1. EntryTold /\ \A e \in NewEvents : e.type # "exited"
    BY DEF KeepsEntry, EntryTold
  <1>2. CASE \E e \in NewEvents : e.type = "connecting"
    <2>1. PICK i \in DOMAIN runtime' \ DOMAIN runtime : runtime'[i].type = "connecting"
      BY <1>2 DEF NewEvents
    <2>2. \A j \in DOMAIN runtime' : i < j => runtime'[j].type # "exited"
      <3> SUFFICES ASSUME NEW j \in DOMAIN runtime', i < j PROVE j \notin DOMAIN runtime
        BY <1>1 DEF NewEvents
      <3>1. i \in Int /\ j \in Int
        BY <2>1
      <3> QED
        BY <2>1, <3>1 DEF Extends
    <2> QED
      BY <2>1, <2>2 DEF Connects
  <1>3. CASE owner # 0 /\ (session'.status = "stopped" => session.status = "stopped")
    <2>1. Connects \/ Shown
      BY <1>1, <1>3 DEF EntryInv
    <2>2. NoExits => NoExits'
      BY <1>1 DEF NoExits, NewEvents, Extends
    <2>3. CASE Shown
      BY <1>3, <2>2, <2>3 DEF Shown
    <2>4. CASE ingest.event.type = "connecting" /\ NoExits
      BY <2>2, <2>4 DEF Connects
    <2>5. CASE \E i \in DOMAIN runtime :
                  /\ runtime[i].type = "connecting"
                  /\ \A j \in DOMAIN runtime : i < j => runtime[j].type # "exited"
      BY <1>1, <2>5 DEF Connects, NewEvents, Extends
    <2> QED
      BY <2>1, <2>3, <2>4, <2>5 DEF Connects
  <1> QED
    BY <1>2, <1>3 DEF KeepsEntry

LEMMA SameEvents ==
    ASSUME SessionInv, UNCHANGED runtime
    PROVE  Extends /\ NewEvents = {}
BY DEF Extends, NewEvents

LEMMA OneEvent ==
    ASSUME SessionInv, NEW e, runtime' = Append(runtime, e)
    PROVE  Extends /\ NewEvents = {e}
PROOF
  <1>1. /\ runtime \in Seq(Events) /\ DOMAIN runtime = 1..Len(runtime) /\ Len(runtime) \in Nat
        /\ DOMAIN runtime' = 1..(Len(runtime) + 1)
        /\ runtime'[Len(runtime) + 1] = e
        /\ \A i \in DOMAIN runtime : runtime'[i] = runtime[i]
    BY TypeFacts
  <1>2. DOMAIN runtime' \ DOMAIN runtime = {Len(runtime) + 1}
    BY <1>1
  <1>3. NewEvents = {e}
    BY <1>1, <1>2 DEF NewEvents
  <1>4. Extends
    BY <1>1, <1>2 DEF Extends
  <1> QED
    BY <1>3, <1>4

LEMMA TwoEvents ==
    ASSUME SessionInv, NEW d, NEW e, runtime' = Append(Append(runtime, d), e)
    PROVE  Extends /\ NewEvents = {d, e}
PROOF
  <1>1. /\ runtime \in Seq(Events) /\ DOMAIN runtime = 1..Len(runtime) /\ Len(runtime) \in Nat
        /\ DOMAIN runtime' = 1..(Len(runtime) + 2)
        /\ runtime'[Len(runtime) + 1] = d /\ runtime'[Len(runtime) + 2] = e
        /\ \A i \in DOMAIN runtime : runtime'[i] = runtime[i]
    BY TypeFacts
  <1>2. DOMAIN runtime' \ DOMAIN runtime = {Len(runtime) + 1, Len(runtime) + 2}
    BY <1>1
  <1>3. NewEvents = {d, e}
    BY <1>1, <1>2 DEF NewEvents
  <1>4. Extends
    BY <1>1, <1>2 DEF Extends
  <1> QED
    BY <1>3, <1>4

(* The processes work on what they worked on.                              *)
SameWork ==
    \A p \in DOMAIN processes :
        /\ p \in DOMAIN processes'
        /\ Live(p) => Live(p)' /\ processes'[p].turn = processes[p].turn

LEMMA WorkGoesOn ==
    ASSUME SameWork, \A e \in NewEvents : e.type # "started"
    PROVE  KeepsClaims
BY DEF KeepsClaims, SameWork, Worked, Starts, Live

LEMMA SpawnKeeps ==
    ASSUME SessionInv, NEW m \in Modes, Spawn(m)
    PROVE  /\ Extends /\ KeepsClaims
           /\ \E e \in NewEvents : e.type = "connecting"
           /\ \A e \in NewEvents : e.type # "exited"
PROOF
  <1>1. Extends /\ NewEvents = {Event("connecting", 0)}
    BY OneEvent DEF Spawn
  <1>2. SameWork
    BY SpawnedProcess DEF SameWork, Live
  <1>3. Event("connecting", 0).type = "connecting"
    BY DEF Event
  <1> QED
    BY <1>1, <1>2, <1>3, WorkGoesOn

LEMMA StoppedEvents ==
    ASSUME SessionInv, NEW events \in {<<>>, <<Event("error", 0)>>}, StopEntry(events)
    PROVE  /\ Extends
           /\ owner # 0 => Event("exited", 0) \in NewEvents
           /\ \A e \in NewEvents : e.type # "started"
PROOF
  <1> DEFINE exited == Event("exited", 0)
             error == Event("error", 0)
  <1>1. exited.type = "exited" /\ error.type = "error"
    BY DEF Event
  <1>2. runtime \in Seq(Events) /\ exited \in Events /\ error \in Events
    BY TypeFacts, EventTypes, SessionAssumption DEF Types
  <1>3. runtime' = IF owner = 0 THEN runtime \o events ELSE Append(runtime \o events, exited)
    BY DEF StopEntry
  <1> HIDE DEF exited, error
  <1>4. runtime \o <<>> = runtime /\ runtime \o <<error>> = Append(runtime, error)
    BY <1>2
  <1>5. \/ owner = 0 /\ runtime' = runtime
        \/ owner = 0 /\ runtime' = Append(runtime, error)
        \/ runtime' = Append(runtime, exited)
        \/ runtime' = Append(Append(runtime, error), exited)
    BY <1>3, <1>4 DEF error
  <1>6. CASE owner = 0 /\ runtime' = runtime
    BY <1>6, SameEvents
  <1>7. CASE owner = 0 /\ runtime' = Append(runtime, error)
    BY <1>1, <1>7, OneEvent
  <1>8. CASE runtime' = Append(runtime, exited)
    <2>1. Extends /\ NewEvents = {exited}
      BY <1>8, OneEvent
    <2> QED
      BY <1>1, <2>1 DEF exited
  <1>9. CASE runtime' = Append(Append(runtime, error), exited)
    <2>1. Extends /\ NewEvents = {error, exited}
      BY <1>9, TwoEvents
    <2> QED
      BY <1>1, <2>1 DEF exited
  <1> QED
    BY <1>5, <1>6, <1>7, <1>8, <1>9

LEMMA StopKeeps ==
    ASSUME SessionInv, NEW events \in {<<>>, <<Event("error", 0)>>}, StopEntry(events)
    PROVE  Extends /\ KeepsClaims
PROOF
  <1>1. /\ Extends /\ (owner # 0 => Event("exited", 0) \in NewEvents)
        /\ \A e \in NewEvents : e.type # "started"
    BY StoppedEvents
  <1>2. CASE owner = 0
    <2>1. processes' = processes
      BY <1>2, TypeFacts DEF StopEntry
    <2>2. SameWork
      BY <2>1 DEF SameWork, Live
    <2> QED
      BY <1>1, <2>2, WorkGoesOn
  <1>3. CASE owner # 0
    <2>1. \A t : Clears(Event("exited", 0), t)
      BY DEF Event, Clears
    <2> QED
      BY <1>1, <1>3, <2>1 DEF KeepsClaims, Starts
  <1> QED
    BY <1>2, <1>3

LEMMA RequestKeeps ==
    ASSUME SessionInv, EntryInv, RequestTurn \/ SetMode \/ RequestStop \/ UNCHANGED vars
    PROVE  SameIngestion /\ UNCHANGED torn /\ Extends /\ KeepsClaims /\ KeepsEntry
PROOF
  <1>1. UNCHANGED <<session, task, owner, runtime, ingest, processes, torn, stranded, unreported>>
    BY DEF RequestTurn, SetMode, RequestStop, Request, vars, database, memory, history
  <1>2. SameWork
    BY <1>1 DEF SameWork, Live
  <1> QED
    BY <1>1, <1>2, SameEvents, WorkGoesOn DEF SameIngestion, KeepsEntry, EntryInv, EntryTold

LEMMA ProcessKeeps ==
    ASSUME SessionInv, EntryInv, NEW p \in DOMAIN processes, CompleteTurn(p) \/ ProcessExits(p)
    PROVE  SameIngestion /\ UNCHANGED torn /\ Extends /\ KeepsClaims /\ KeepsEntry
PROOF
  <1>1. /\ UNCHANGED <<session, task, ingest, torn, stranded, unreported>>
        /\ processes \in Seq(Processes(conversations))
    BY TypeFacts DEF CompleteTurn, ProcessExits, database, history
  <1>2. CASE CompleteTurn(p)
    <2> DEFINE e == Event("completed", processes[p].turn)
    <2>1. e.type = "completed" /\ e.turn = processes[p].turn
      BY DEF Event
    <2>2. runtime' = Append(runtime, e) /\ processes' = [processes EXCEPT ![p].turn = 0]
          /\ UNCHANGED owner
      BY <1>2 DEF CompleteTurn
    <2> HIDE DEF e
    <2>3. Extends /\ NewEvents = {e}
      BY <2>2, OneEvent
    <2>4. DOMAIN processes' = DOMAIN processes
          /\ \A q \in DOMAIN processes \ {p} : processes'[q] = processes[q]
      BY <1>1, <2>2
    <2>5. \A t \in Turns : Worked(t) => Worked(t)' \/ Clears(e, t)
      BY <2>1, <2>4 DEF Worked, Live, Clears
    <2>6. KeepsClaims
      BY <2>1, <2>3, <2>5 DEF KeepsClaims, Starts
    <2>7. KeepsEntry
      BY <1>1, <2>1, <2>2, <2>3 DEF KeepsEntry, EntryInv, EntryTold
    <2> QED
      BY <1>1, <2>3, <2>6, <2>7 DEF SameIngestion
  <1>3. CASE ProcessExits(p)
    <2>1. Event("exited", 0).type = "exited"
      BY DEF Event
    <2>2. Extends /\ NewEvents = {Event("exited", 0)} /\ owner' = 0
      BY <1>3, OneEvent DEF ProcessExits
    <2> QED
      BY <1>1, <2>1, <2>2 DEF SameIngestion, KeepsClaims, Clears, Starts, KeepsEntry
  <1> QED
    BY <1>2, <1>3

(* A task that goes on, or ends, without an unbinding.                     *)
LEMMA Unbinding ==
    ASSUME SessionInv, NEW at
    PROVE  /\ Idle.at = "idle"
           /\ [task EXCEPT !.at = at].at = at
           /\ \A t, m : [Idle EXCEPT !.at = "send", !.turn = t, !.mode = m].at = "send"
BY TaskTypes DEF Idle, Tasks

LEMMA StartSessionKeeps ==
    ASSUME SessionInv, EntryInv, NEW t, StartSession(t), task = Idle,
           UNCHANGED <<session, ingest, stranded, unreported, torn>>
    PROVE  SameIngestion /\ Extends /\ KeepsClaims /\ KeepsEntry
PROOF
  <1>1. CASE /\ Spawn(mode)
             /\ task' = [at |-> "start", turn |-> t, mode |-> mode, resume |-> Cursor,
                         process |-> Len(processes')]
    <2>1. /\ Extends /\ KeepsClaims /\ \E e \in NewEvents : e.type = "connecting"
          /\ \A e \in NewEvents : e.type # "exited"
      BY <1>1, SpawnKeeps, TypeFacts
    <2>2. task'.at # "unbind"
      BY <1>1
    <2> QED
      BY <2>1, <2>2 DEF SameIngestion, KeepsEntry
  <1>2. CASE /\ runtime' \in {runtime, Append(runtime, Event("error", 0))}
             /\ UNCHANGED <<task, processes, owner>>
    <2>1. Event("error", 0).type = "error"
      BY DEF Event
    <2>2. Extends /\ NewEvents \subseteq {Event("error", 0)}
      BY <1>2, SameEvents, OneEvent
    <2>3. SameWork
      BY <1>2 DEF SameWork, Live
    <2>4. KeepsClaims
      BY <2>1, <2>2, <2>3, WorkGoesOn
    <2>5. KeepsEntry
      BY <1>2, <2>1, <2>2 DEF KeepsEntry, EntryInv, EntryTold
    <2> QED
      BY <2>2, <2>4, <2>5 DEF SameIngestion
  <1> QED
    BY <1>1, <1>2 DEF StartSession

LEMMA TakeKeeps ==
    ASSUME SessionInv, EntryInv, TakeTurnStart \/ TakeModeSet
    PROVE  SameIngestion /\ UNCHANGED torn /\ Extends /\ KeepsClaims /\ KeepsEntry
PROOF
  <1>1. task = Idle /\ UNCHANGED <<session, ingest, stranded, unreported, torn>>
    BY DEF TakeTurnStart, TakeModeSet, Take
  <1>2. CASE \E t : StartSession(t)
    BY <1>1, <1>2, StartSessionKeeps
  <1>3. CASE /\ UNCHANGED <<processes, owner, runtime>>
             /\ \/ UNCHANGED task
                \/ task' = [Idle EXCEPT !.at = "send", !.turn = Head(intents).turn, !.mode = mode]
    <2>1. task'.at # "unbind"
      BY <1>1, <1>3, Unbinding
    <2>2. SameWork
      BY <1>3 DEF SameWork, Live
    <2>3. Extends /\ NewEvents = {}
      BY <1>3, SameEvents
    <2>4. KeepsClaims
      BY <2>2, <2>3, WorkGoesOn
    <2>5. KeepsEntry
      BY <1>1, <1>3, <2>1, <2>3 DEF KeepsEntry
    <2> QED
      BY <1>1, <2>3, <2>4, <2>5 DEF SameIngestion
  <1> QED
    BY <1>2, <1>3 DEF TakeTurnStart, TakeModeSet

LEMMA TakeStopKeeps ==
    ASSUME SessionInv, EntryInv, TakeStop
    PROVE  SameIngestion /\ (torn => torn') /\ Extends /\ KeepsClaims /\ KeepsEntry
PROOF
  <1>1. task = Idle /\ UNCHANGED <<session, ingest, stranded, unreported>>
    BY DEF TakeStop, Take
  <1>2. CASE StopEntry(<<>>) /\ UNCHANGED torn
    <2>1. Extends /\ KeepsClaims
      BY <1>2, StopKeeps
    <2>2. KeepsEntry
      BY <1>2 DEF KeepsEntry, StopEntry
    <2> QED
      BY <1>1, <1>2, <2>1, <2>2 DEF SameIngestion
  <1>3. CASE /\ UNCHANGED <<processes, owner, runtime>>
             /\ (torn' = (torn \/ owner # 0) \/ UNCHANGED <<task, torn>>)
    <2>1. SameWork
      BY <1>3 DEF SameWork, Live
    <2>2. Extends /\ NewEvents = {}
      BY <1>3, SameEvents
    <2>3. KeepsClaims
      BY <2>1, <2>2, WorkGoesOn
    <2>4. KeepsEntry
      BY <1>1, <1>3, <2>2 DEF KeepsEntry, EntryInv, EntryTold
    <2>5. torn => torn'
      BY <1>3 DEF SessionInv, TypeOK
    <2> QED
      BY <1>1, <2>2, <2>3, <2>4, <2>5 DEF SameIngestion
  <1> QED
    BY <1>2, <1>3 DEF TakeStop

LEMMA OpenKeeps ==
    ASSUME SessionInv, EntryInv, OpenThread \/ SaveFails
    PROVE  SameIngestion /\ (torn => torn') /\ Extends /\ KeepsClaims /\ KeepsEntry
PROOF
  <1> DEFINE p == task.process
  <1>1. PICK at \in {"start", "recover"}, c \in 1..(conversations + 1) :
          /\ Live(p)
          /\ processes' = [processes EXCEPT ![p].conversation = c]
          /\ runtime' = Append(runtime, Event("ready", 0))
          /\ task' \in {[task EXCEPT !.at = IF at = "start" THEN "bind" ELSE "request"], Idle}
          /\ UNCHANGED <<session, ingest, stranded, unreported, owner>>
          /\ UNCHANGED torn \/ torn' = (torn \/ at = "start")
    BY DEF OpenThread, SaveFails, Step, Open
  <1>2. task'.at # "unbind"
    <2>1. task'.at \in {"bind", "request", "idle"}
      BY <1>1, Unbinding
    <2> QED
      BY <2>1
  <1>3. Event("ready", 0).type = "ready" /\ (torn => torn')
    BY <1>1 DEF Event, SessionInv, TypeOK
  <1>4. Extends /\ NewEvents = {Event("ready", 0)}
    BY <1>1, OneEvent
  <1>5. SameWork
    <2> DEFINE q == [processes[p] EXCEPT !.conversation = c]
    <2>1. processes[p] \in Processes(conversations) /\ p \in DOMAIN processes
          /\ processes \in Seq(Processes(conversations))
      BY <1>1, TypeFacts DEF Live
    <2>2. q.alive = processes[p].alive /\ q.turn = processes[p].turn
      BY <2>1 DEF Processes
    <2>3. processes' = [processes EXCEPT ![p] = q]
      BY <1>1
    <2> HIDE DEF q
    <2> QED
      BY <2>1, <2>2, <2>3 DEF SameWork, Live
  <1>6. KeepsClaims
    BY <1>3, <1>4, <1>5, WorkGoesOn
  <1>7. KeepsEntry
    BY <1>1, <1>2, <1>3, <1>4 DEF KeepsEntry
  <1> QED
    BY <1>1, <1>3, <1>4, <1>6, <1>7 DEF SameIngestion

LEMMA StartFailsKeeps ==
    ASSUME SessionInv, EntryInv, StartFails
    PROVE  SameIngestion /\ UNCHANGED torn /\ Extends /\ KeepsClaims /\ KeepsEntry
PROOF
  <1>1. /\ StopEntry(<<Event("error", 0)>>)
        /\ UNCHANGED <<session, ingest, stranded, unreported, torn>>
    BY DEF StartFails, Step
  <1>2. Extends /\ KeepsClaims
    BY <1>1, StopKeeps
  <1> QED
    BY <1>1, <1>2 DEF SameIngestion, KeepsEntry, StopEntry

LEMMA BindKeeps ==
    ASSUME SessionInv, EntryInv, Bind \/ BindFails \/ Unbind \/ TurnFails
    PROVE  SameIngestion /\ (torn => torn') /\ Extends /\ KeepsClaims /\ KeepsEntry
PROOF
  <1>1. /\ UNCHANGED <<processes, owner, runtime, ingest, stranded, unreported>>
        /\ UNCHANGED torn \/ torn' = TRUE
    BY DEF Bind, BindFails, Unbind, TurnFails, TurnFailed, Step
  <1>2. SameWork
    BY <1>1 DEF SameWork, Live
  <1>3. Extends /\ NewEvents = {}
    BY <1>1, SameEvents
  <1>4. KeepsClaims
    BY <1>2, <1>3, WorkGoesOn
  <1>5. session'.turn \in {session.turn, 0}
    BY DEF Bind, BindFails, Unbind, TurnFails, TurnFailed
  <1>6. KeepsEntry
    <2>1. CASE Bind
      <3>1. task'.at # "unbind" /\ session'.status = "ready"
        BY <2>1, Unbinding DEF Bind
      <3> QED
        BY <1>1, <1>3, <3>1 DEF KeepsEntry
    <2>2. CASE Unbind
      <3>1. task'.at # "unbind" /\ task.at = "unbind" /\ UNCHANGED torn
        BY <2>2, Unbinding DEF Unbind, Step
      <3> QED
        BY <1>1, <1>3, <3>1 DEF KeepsEntry, EntryInv, EntryTold
    <2>3. CASE BindFails \/ TurnFails
      <3>1. task'.at # "unbind" /\ UNCHANGED session
        BY <2>3, Unbinding DEF BindFails, TurnFails, TurnFailed
      <3> QED
        BY <1>1, <1>3, <3>1 DEF KeepsEntry
    <2> QED
      BY <2>1, <2>2, <2>3
  <1> QED
    BY <1>1, <1>3, <1>4, <1>5, <1>6 DEF SameIngestion

LEMMA RouteKeeps ==
    ASSUME SessionInv, EntryInv, Route
    PROVE  SameIngestion /\ UNCHANGED torn /\ Extends /\ KeepsClaims /\ KeepsEntry
PROOF
  <1>1. UNCHANGED <<session, ingest, stranded, unreported, torn>>
    BY DEF Route, RouteIn, Step
  <1>2. task'.at # "unbind"
    <2>1. CASE task' = Idle
      BY <2>1, Unbinding
    <2>2. CASE task' = [task EXCEPT !.at = "request", !.process = owner]
      BY <2>2, TaskFields
    <2>3. CASE task' = [task EXCEPT !.at = "recover", !.resume = binding.cursor,
                                    !.process = owner']
      BY <2>3, TaskFields
    <2> QED
      BY <2>1, <2>2, <2>3 DEF Route, RouteIn
  <1>3. CASE Spawn(binding.mode)
    <2>1. binding.mode \in Modes
      BY TypeFacts DEF Bindings
    <2>2. /\ Extends /\ KeepsClaims /\ \E e \in NewEvents : e.type = "connecting"
          /\ \A e \in NewEvents : e.type # "exited"
      BY <1>3, <2>1, SpawnKeeps
    <2> QED
      BY <1>1, <1>2, <2>2 DEF SameIngestion, KeepsEntry
  <1>4. CASE UNCHANGED <<processes, owner, runtime>>
    <2>1. SameWork
      BY <1>4 DEF SameWork, Live
    <2>2. Extends /\ NewEvents = {}
      BY <1>4, SameEvents
    <2>3. KeepsClaims
      BY <2>1, <2>2, WorkGoesOn
    <2> QED
      BY <1>1, <1>2, <1>4, <2>2, <2>3 DEF SameIngestion, KeepsEntry
  <1> QED
    BY <1>3, <1>4 DEF Route, RouteIn

LEMMA TurnAcceptedKeeps ==
    ASSUME SessionInv, EntryInv, TurnAccepted
    PROVE  SameIngestion /\ UNCHANGED torn /\ Extends /\ KeepsClaims /\ KeepsEntry
PROOF
  <1>0. PICK u : u = task.turn
    OBVIOUS
  <1> DEFINE p == task.process
             q == [processes[p] EXCEPT !.turn = u]
             e == Event("started", u)
  <1>1. /\ p \in DOMAIN processes /\ processes[p].alive /\ processes[p].turn = 0
        /\ processes \in Seq(Processes(conversations)) /\ processes[p] \in Processes(conversations)
    BY TypeFacts DEF TurnAccepted, Live
  <1>2. q.alive = processes[p].alive /\ q.turn = u
    BY <1>1 DEF Processes
  <1>3. /\ processes' = [processes EXCEPT ![p] = q] /\ runtime' = Append(runtime, e)
        /\ task' = Idle /\ UNCHANGED <<session, ingest, stranded, unreported, owner, torn>>
    BY <1>0 DEF TurnAccepted, Step
  <1>4. e.type = "started" /\ e.turn = u /\ task'.at # "unbind"
    BY <1>3, Unbinding DEF Event
  <1> HIDE DEF q, e
  <1>5. Extends /\ NewEvents = {e}
    BY <1>3, OneEvent
  <1>6. /\ DOMAIN processes' = DOMAIN processes /\ processes'[p] = q
        /\ \A r \in DOMAIN processes \ {p} : processes'[r] = processes[r]
    BY <1>1, <1>3
  <1>7. Worked(u)'
    <2>1. processes'[p].alive /\ processes'[p].turn = u
      BY <1>1, <1>2, <1>6
    <2>2. \E r \in DOMAIN processes' : /\ r \in DOMAIN processes' /\ processes'[r].alive
                                       /\ processes'[r].turn = u
      BY <1>1, <1>6, <2>1
    <2> QED
      BY <2>2 DEF Worked, Live
  <1>8. ASSUME NEW t \in Turns, Worked(t) PROVE Worked(t)'
    <2>1. PICK r \in DOMAIN processes : Live(r) /\ processes[r].turn = t
      BY <1>8 DEF Worked
    <2>2. r # p
      BY <1>1, <2>1, SessionAssumption DEF Turns
    <2> QED
      BY <1>6, <2>1, <2>2 DEF Worked, Live
  <1>9. KeepsClaims
    BY <1>4, <1>5, <1>7, <1>8 DEF KeepsClaims, Starts
  <1>10. KeepsEntry
    BY <1>3, <1>4, <1>5 DEF KeepsEntry
  <1> QED
    BY <1>3, <1>5, <1>9, <1>10 DEF SameIngestion

(* Ingestion takes an event, with the session it will be applied to.       *)
LEMMA TakenEvent ==
    ASSUME SessionInv, IngestEvent
    PROVE  /\ 1 \in DOMAIN runtime
           /\ ingest'.event = runtime[1] /\ ingest'.seen = session
           /\ \A i \in DOMAIN runtime' : i + 1 \in DOMAIN runtime /\ runtime'[i] = runtime[i + 1]
           /\ \A i \in DOMAIN runtime \ {1} : i - 1 \in DOMAIN runtime'
           /\ DOMAIN runtime \subseteq Int /\ DOMAIN runtime' \subseteq Int
           /\ \A i \in DOMAIN runtime : 1 <= i
           /\ UNCHANGED <<session, task, owner, processes, torn, stranded, unreported>>
PROOF
  <1>1. runtime \in Seq(Events) /\ runtime # <<>> /\ runtime' = Tail(runtime)
        /\ ingest' = [event |-> Head(runtime), seen |-> session]
    BY TypeFacts DEF IngestEvent
  <1>2. UNCHANGED <<session, task, owner, processes, torn, stranded, unreported>>
    BY DEF IngestEvent, database, history
  <1> QED
    BY <1>1, <1>2

LEMMA QuietFields ==
    /\ Quiet.event.type = "none" /\ Quiet.seen.turn = 0
    /\ \A t : ~Clears(Quiet.event, t) /\ ~Starts(Quiet.event, t)
BY DEF Quiet, Event, NoSession, Clears, Starts

LEMMA IngestKeepsClaims ==
    ASSUME SessionInv, ClaimInv, IngestEvent
    PROVE  ClaimInv'
PROOF
  <1>1. /\ 1 \in DOMAIN runtime
        /\ ingest'.event = runtime[1] /\ ingest'.seen = session
        /\ \A i \in DOMAIN runtime' : i + 1 \in DOMAIN runtime /\ runtime'[i] = runtime[i + 1]
        /\ \A i \in DOMAIN runtime \ {1} : i - 1 \in DOMAIN runtime'
        /\ DOMAIN runtime \subseteq Int /\ DOMAIN runtime' \subseteq Int
        /\ \A i \in DOMAIN runtime : 1 <= i
        /\ UNCHANGED <<session, processes, stranded, unreported>>
    BY TakenEvent
  <1>2. ingest = Quiet
    BY DEF IngestEvent
  <1>3. \A t : Worked(t)' = Worked(t)
    BY <1>1 DEF Worked, Live
  <1>4. \A i \in DOMAIN runtime \ {1} : runtime'[i - 1] = runtime[i]
    BY <1>1
  <1>5. \A t : \A j \in DOMAIN runtime \ {1} : Clears(runtime[j], t) => Cleared(t)'
    <2> SUFFICES ASSUME NEW t, NEW j \in DOMAIN runtime \ {1}, Clears(runtime[j], t)
                 PROVE  \E i \in DOMAIN runtime' : Clears(runtime'[i], t)
      BY DEF Cleared, Clears
    <2> QED
      BY <1>1, <1>4
  <1>6. ActiveTurns'
    <2> SUFFICES ASSUME NEW t \in Turns, EndsTold', t \in {session'.turn, ingest'.seen.turn}
                 PROVE  Worked(t)' \/ Clears(ingest'.event, t) \/ Cleared(t)'
      BY DEF ActiveTurns, Clears
    <2>1. Worked(t) \/ Cleared(t)
      BY <1>1, <1>2, QuietFields DEF ClaimInv, ActiveTurns, EndsTold
    <2> QED
      BY <1>1, <1>3, <1>5, <2>1 DEF Cleared
  <1>7. StartedTurn'
    <2> SUFFICES ASSUME NEW t \in Turns, Starts(ingest'.event, t)
                 PROVE  Worked(t)' \/ Cleared(t)'
      BY DEF StartedTurn, Starts
    <2>1. Worked(t) \/ \E j \in DOMAIN runtime : 1 < j /\ Clears(runtime[j], t)
      BY <1>1 DEF ClaimInv, StartingTurns
    <2> QED
      BY <1>3, <1>5, <2>1
  <1>8. StartingTurns'
    <2> SUFFICES ASSUME NEW t \in Turns, NEW i \in DOMAIN runtime', Starts(runtime'[i], t)
                 PROVE  Worked(t)' \/ \E j \in DOMAIN runtime' : i < j /\ Clears(runtime'[j], t)
      BY DEF StartingTurns, Starts, Clears
    <2>1. i + 1 \in DOMAIN runtime /\ runtime'[i] = runtime[i + 1]
      BY <1>1
    <2>2. CASE Worked(t)
      BY <1>3, <2>2
    <2>3. ASSUME NEW j \in DOMAIN runtime, i + 1 < j, Clears(runtime[j], t)
          PROVE  \E k \in DOMAIN runtime' : i < k /\ Clears(runtime'[k], t)
      <3>1. i \in Int /\ j \in Int /\ 1 <= i + 1
        BY <1>1, <2>1
      <3>2. j - 1 \in DOMAIN runtime' /\ runtime'[j - 1] = runtime[j] /\ i < j - 1
        BY <1>1, <1>4, <2>3, <3>1
      <3> QED
        BY <2>3, <3>2
    <2> QED
      BY <2>1, <2>2, <2>3 DEF ClaimInv, StartingTurns
  <1>9. SeenTurn'
    BY <1>1 DEF SeenTurn
  <1> QED
    BY <1>6, <1>7, <1>8, <1>9 DEF ClaimInv

LEMMA IngestKeepsEntry ==
    ASSUME SessionInv, EntryInv, IngestEvent
    PROVE  EntryInv'
PROOF
  <1>1. /\ 1 \in DOMAIN runtime
        /\ ingest'.event = runtime[1]
        /\ \A i \in DOMAIN runtime' : i + 1 \in DOMAIN runtime /\ runtime'[i] = runtime[i + 1]
        /\ \A i \in DOMAIN runtime \ {1} : i - 1 \in DOMAIN runtime'
        /\ DOMAIN runtime \subseteq Int /\ DOMAIN runtime' \subseteq Int
        /\ \A i \in DOMAIN runtime : 1 <= i
        /\ UNCHANGED <<session, task, owner, torn, unreported>>
    BY TakenEvent
  <1>2. ingest.event.type = "none"
    BY QuietFields DEF IngestEvent
  <1> SUFFICES ASSUME EntryTold, owner # 0 PROVE (Connects \/ Shown)'
    BY <1>1 DEF EntryInv, EntryTold
  <1>3. \A i \in DOMAIN runtime \ {1} : runtime'[i - 1] = runtime[i]
    BY <1>1
  <1>4. CASE Shown
    BY <1>1, <1>4 DEF Shown, NoExits
  <1>5. CASE Connects
    <2>1. PICK i \in DOMAIN runtime :
            /\ runtime[i].type = "connecting"
            /\ \A j \in DOMAIN runtime : i < j => runtime[j].type # "exited"
      BY <1>2, <1>5 DEF Connects
    <2>2. \A j \in DOMAIN runtime' : i <= j => runtime'[j].type # "exited"
      <3> SUFFICES ASSUME NEW j \in DOMAIN runtime', i <= j PROVE runtime'[j].type # "exited"
        OBVIOUS
      <3>1. i \in Int /\ j \in Int
        BY <1>1
      <3> QED
        BY <1>1, <2>1, <3>1
    <2>3. CASE i = 1
      <3>1. NoExits'
        <4> SUFFICES ASSUME NEW j \in DOMAIN runtime' PROVE runtime'[j].type # "exited"
          BY DEF NoExits
        <4>1. j \in Int /\ 1 <= j + 1 /\ 1 < j + 1
          <5>1. j \in Int /\ j + 1 \in DOMAIN runtime /\ runtime' = Tail(runtime)
                /\ runtime \in Seq(Events) /\ runtime # <<>>
            BY <1>1, TypeFacts DEF IngestEvent
          <5> QED
            BY <5>1
        <4> QED
          BY <1>1, <2>1, <2>3, <4>1
      <3> QED
        BY <1>1, <2>1, <2>3, <3>1 DEF Connects
    <2>4. CASE i # 1
      <3> DEFINE k == i - 1
      <3>1. k \in DOMAIN runtime' /\ runtime'[k].type = "connecting"
        BY <1>1, <1>3, <2>1, <2>4
      <3>2. \A j \in DOMAIN runtime' : k < j => runtime'[j].type # "exited"
        <4> SUFFICES ASSUME NEW j \in DOMAIN runtime', k < j PROVE i <= j
          BY <2>2
        <4>1. i \in Int /\ j \in Int
          BY <1>1
        <4> QED
          BY <4>1
      <3> HIDE DEF k
      <3> QED
        BY <3>1, <3>2 DEF Connects
    <2> QED
      BY <2>3, <2>4
  <1> QED
    BY <1>4, <1>5 DEF EntryInv

LEMMA DispatchKeepsClaims ==
    ASSUME SessionInv, ClaimInv, DispatchSession
    PROVE  ClaimInv'
PROOF
  <1>1. /\ ingest # Quiet /\ ingest' = Quiet
        /\ session' = IF Applies THEN NextSession ELSE session
        /\ UNCHANGED <<runtime, processes, stranded, unreported>>
    BY DEF DispatchSession
  <1>2. \A t : Worked(t)' = Worked(t) /\ Cleared(t)' = Cleared(t)
    BY <1>1 DEF Worked, Live, Cleared, Clears
  <1>3. session.turn \in 0..MaxTurns
    BY TypeFacts DEF Sessions
  <1>4. ASSUME NEW t \in Turns, EndsTold, session'.turn = t
        PROVE  Worked(t) \/ Cleared(t)
    <2>1. t # 0
      BY SessionAssumption DEF Turns
    <2>2. CASE Applies
      <3>1. session'.turn = CASE ingest.event.type = "started" -> ingest.event.turn
                              [] ingest.event.type \in {"completed", "exited", "error"} -> 0
                              [] OTHER -> ingest.seen.turn
        BY <1>1, <2>2 DEF NextSession
      <3>2. CASE ingest.event.type = "started"
        <4>1. Starts(ingest.event, t)
          BY <1>4, <3>1, <3>2 DEF Starts
        <4> QED
          BY <4>1 DEF ClaimInv, StartedTurn
      <3>3. CASE ingest.event.type \notin {"started", "completed", "exited", "error"}
        <4>1. ingest.seen.turn = t /\ ~Clears(ingest.event, t)
          BY <1>4, <3>1, <3>3 DEF Clears
        <4> QED
          BY <1>4, <4>1 DEF ClaimInv, ActiveTurns
      <3>4. ingest.event.type \notin {"completed", "exited", "error"}
        BY <1>4, <2>1, <3>1
      <3> QED
        BY <3>2, <3>3, <3>4
    <2>3. CASE ~Applies
      <3>1. session.turn = t /\ ingest.seen.turn = t
        BY <1>1, <1>4, <2>1, <2>3 DEF ClaimInv, SeenTurn
      <3>2. ~Clears(ingest.event, t)
        BY <2>3, <3>1 DEF Applies, Clears
      <3> QED
        BY <1>4, <3>1, <3>2 DEF ClaimInv, ActiveTurns
    <2> QED
      BY <2>2, <2>3
  <1>5. ActiveTurns'
    <2> SUFFICES ASSUME NEW t \in Turns, EndsTold', t \in {session'.turn, ingest'.seen.turn}
                 PROVE  Worked(t)' \/ Cleared(t)'
      BY DEF ActiveTurns
    <2>1. t # 0 /\ ingest'.seen.turn = 0 /\ EndsTold
      BY <1>1, QuietFields, SessionAssumption DEF Turns, EndsTold
    <2> QED
      BY <1>1, <1>2, <1>4, <2>1
  <1>6. StartedTurn'
    BY <1>1, QuietFields DEF StartedTurn, Starts
  <1>7. StartingTurns'
    BY <1>1, <1>2 DEF ClaimInv, StartingTurns, Starts, Clears
  <1>8. SeenTurn'
    BY <1>1 DEF SeenTurn
  <1> QED
    BY <1>5, <1>6, <1>7, <1>8 DEF ClaimInv

(* An event that is dropped tells nothing.                                 *)
LEMMA DispatchFailsKeepsClaims ==
    ASSUME SessionInv, ClaimInv, DispatchFails
    PROVE  ClaimInv'
PROOF
  <1>1. /\ ingest' = Quiet /\ unreported' = unreported \cup {ingest.event.type}
        /\ UNCHANGED <<session, runtime, processes, stranded>>
    BY DEF DispatchFails, database
  <1>2. \A t : Worked(t)' = Worked(t) /\ Cleared(t)' = Cleared(t)
    BY <1>1 DEF Worked, Live, Cleared, Clears
  <1>3. ActiveTurns'
    <2> SUFFICES ASSUME NEW t \in Turns, EndsTold', t \in {session'.turn, ingest'.seen.turn}
                 PROVE  Worked(t)' \/ Cleared(t)'
      BY DEF ActiveTurns
    <2>1. t # 0 /\ ingest'.seen.turn = 0
      BY <1>1, QuietFields, SessionAssumption DEF Turns
    <2>2. EndsTold /\ ~Clears(ingest.event, t)
      BY <1>1 DEF EndsTold, Clears
    <2> QED
      BY <1>1, <1>2, <2>1, <2>2 DEF ClaimInv, ActiveTurns
  <1>4. StartedTurn'
    BY <1>1, QuietFields DEF StartedTurn, Starts
  <1>5. StartingTurns'
    BY <1>1, <1>2 DEF ClaimInv, StartingTurns, Starts, Clears
  <1>6. SeenTurn'
    BY <1>1 DEF SeenTurn
  <1> QED
    BY <1>3, <1>4, <1>5, <1>6 DEF ClaimInv

LEMMA DispatchFailsKeepsEntry ==
    ASSUME SessionInv, EntryInv, DispatchFails
    PROVE  EntryInv'
PROOF
  <1>1. /\ ingest' = Quiet /\ unreported' = unreported \cup {ingest.event.type}
        /\ UNCHANGED <<session, runtime, owner, task, torn>>
    BY DEF DispatchFails, database
  <1>2. ingest'.event.type = "none"
    BY <1>1, QuietFields
  <1>3. EntryTold' => EntryTold /\ ingest.event.type # "connecting"
    BY <1>1 DEF EntryTold
  <1> QED
    BY <1>1, <1>2, <1>3 DEF EntryInv, Connects, Shown, NoExits

LEMMA DispatchKeepsEntry ==
    ASSUME SessionInv, EntryInv, DispatchSession
    PROVE  EntryInv'
PROOF
  <1>1. /\ ingest # Quiet /\ ingest' = Quiet
        /\ session' = IF Applies THEN NextSession ELSE session
        /\ torn => torn'
        /\ UNCHANGED <<runtime, owner, task, unreported>>
    BY DEF DispatchSession, SessionInv, TypeOK
  <1> SUFFICES ASSUME EntryTold, owner # 0 PROVE (Connects \/ Shown)'
    BY <1>1 DEF EntryInv, EntryTold
  <1>2. NoExits' = NoExits /\ ingest'.event.type = "none"
    BY <1>1, QuietFields DEF NoExits
  <1>3. CASE \E i \in DOMAIN runtime :
                /\ runtime[i].type = "connecting"
                /\ \A j \in DOMAIN runtime : i < j => runtime[j].type # "exited"
    BY <1>1, <1>3 DEF Connects
  <1>4. Applies => session'.status = Status(ingest.event.type)
    BY <1>1 DEF NextSession
  <1>5. ingest.event.type # "exited" => Status(ingest.event.type) # "stopped"
    BY DEF Status
  <1>6. CASE ingest.event.type = "connecting" /\ NoExits
    <2>1. Applies
      BY <1>6 DEF Applies
    <2> QED
      BY <1>2, <1>4, <1>5, <1>6, <2>1 DEF Shown
  <1>7. CASE Shown
    <2>1. session'.status # "stopped"
      BY <1>1, <1>4, <1>5, <1>7 DEF Shown
    <2> QED
      BY <1>2, <1>7, <2>1 DEF Shown
  <1> QED
    BY <1>3, <1>6, <1>7 DEF EntryInv, Connects

LEMMA CrashKeepsReal ==
    ASSUME SessionInv, Crash
    PROVE  ClaimInv' /\ EntryInv'
PROOF
  <1>1. /\ owner' = 0 /\ runtime' = <<>> /\ ingest' = Quiet /\ UNCHANGED session
        /\ stranded' = (stranded \/ session.turn # 0) /\ stranded \in BOOLEAN
    BY DEF Crash, database, SessionInv, TypeOK
  <1>2. \A t \in Turns : t # 0
    BY SessionAssumption DEF Turns
  <1>3. DOMAIN runtime' = {}
    BY <1>1
  <1>4. ActiveTurns'
    BY <1>1, <1>2, QuietFields DEF ActiveTurns, EndsTold
  <1>5. StartedTurn'
    BY <1>1, QuietFields DEF StartedTurn, Starts
  <1>6. StartingTurns' /\ SeenTurn'
    BY <1>1, <1>3 DEF StartingTurns, SeenTurn
  <1> QED
    BY <1>1, <1>4, <1>5, <1>6 DEF ClaimInv, EntryInv

LEMMA RealKept ==
    ASSUME SessionInv, ClaimInv, EntryInv, [Next]_vars
    PROVE  ClaimInv' /\ EntryInv'
PROOF
  <1>1. CASE SameIngestion /\ (torn => torn') /\ Extends /\ KeepsClaims /\ KeepsEntry
    <2>1. runtime' \in Seq(Events)
      BY NextPreserves, TypeFacts DEF SessionInv, TypeOK
    <2> QED
      BY <1>1, <2>1, ClaimsKept, EntryKept DEF SameIngestion
  <1>2. CASE RequestTurn \/ SetMode \/ RequestStop \/ UNCHANGED vars
    BY <1>1, <1>2, RequestKeeps
  <1>3. CASE \E p \in DOMAIN processes : CompleteTurn(p) \/ ProcessExits(p)
    BY <1>1, <1>3, ProcessKeeps
  <1>4. CASE Reactor
    BY <1>1, <1>4, TakeKeeps, TakeStopKeeps, OpenKeeps, StartFailsKeeps, BindKeeps, RouteKeeps,
       TurnAcceptedKeeps
    DEF Reactor
  <1>5. CASE Ingestion
    BY <1>5, IngestKeepsClaims, IngestKeepsEntry, DispatchKeepsClaims, DispatchKeepsEntry,
       DispatchFailsKeepsClaims, DispatchFailsKeepsEntry
    DEF Ingestion
  <1>6. CASE Crash
    BY <1>6, CrashKeepsReal
  <1> QED
    BY <1>2, <1>3, <1>4, <1>5, <1>6 DEF Next

(* When nothing is under way, nothing clears a turn or announces an entry. *)
LEMMA RealAtRest ==
    ASSUME SessionInv, ClaimInv, EntryInv
    PROVE  SessionIsReal
PROOF
  <1> SUFFICES ASSUME AtRest
               PROVE  /\ EndsTold /\ session.turn # 0 => Worked(session.turn)
                      /\ EntryTold /\ session.status = "stopped" => owner = 0
    BY DEF SessionIsReal, Worked, EndsTold, EntryTold
  <1>1. ingest = Quiet /\ runtime = <<>>
    BY DEF AtRest
  <1>2. DOMAIN runtime = {}
    BY <1>1
  <1>3. ASSUME EndsTold, session.turn # 0
        PROVE  Worked(session.turn)
    <2>1. session.turn \in Turns
      BY <1>3, TypeFacts, SessionAssumption DEF Sessions, Turns
    <2> QED
      BY <1>1, <1>2, <1>3, <2>1, QuietFields DEF ClaimInv, ActiveTurns, Cleared
  <1>4. ASSUME EntryTold, session.status = "stopped"
        PROVE  owner = 0
    BY <1>1, <1>2, <1>4, QuietFields DEF EntryInv, Connects, Shown
  <1> QED
    BY <1>3, <1>4

(* When all is settled, the turn that the read model calls active is being *)
(* worked on, and a stopped session has no process: for any number of      *)
(* turns, switches, stops, failures and crashes (SessionIsReal; the exit   *)
(* listener, processSessionStopRequested, the ingestion's guards).         *)
THEOREM SessionAlwaysReal == Spec => []SessionIsReal
PROOF
  <1>1. Init => SessionInv /\ ClaimInv /\ EntryInv
    <2> SUFFICES ASSUME Init PROVE ClaimInv /\ EntryInv
      BY InitTypes
    <2>1. /\ owner = 0 /\ ingest = Quiet /\ session.turn = 0 /\ task.at = "idle"
          /\ DOMAIN runtime = {}
      BY DEF Init, NoSession, Idle
    <2>2. \A t \in Turns : t # 0
      BY SessionAssumption DEF Turns
    <2> QED
      BY <2>1, <2>2, QuietFields
      DEF ClaimInv, ActiveTurns, StartedTurn, StartingTurns, SeenTurn, EntryInv
  <1>2. SessionInv /\ ClaimInv /\ EntryInv /\ [Next]_vars
          => (SessionInv /\ ClaimInv /\ EntryInv)'
    BY NextPreserves, RealKept
  <1>3. SessionInv /\ ClaimInv /\ EntryInv => SessionIsReal
    BY RealAtRest
  <1> QED
    BY <1>1, <1>2, <1>3, PTL DEF Spec

-----------------------------------------------------------------------------
(* Requested turns.                                                        *)

Queued(t) == \E i \in DOMAIN intents : intents[i] = Event("turn", t)

(* The turn of a task is settled with it; a stop has none.                 *)
PendingInv == PendingTurnsAreKept /\ (task.at \in {"idle", "unbind"} => task.turn = 0)

LEMMA IdleHasNoTurn == Idle.turn = 0 /\ Idle.at = "idle"
BY DEF Idle

LEMMA TurnsArePositive == \A t \in Turns : t # 0
BY SessionAssumption DEF Turns

LEMMA SettledTurn ==
    ASSUME SessionInv, NEW t \in 0..MaxTurns, NEW result, Settle(t, result), result # "pending"
    PROVE  \A u \in Turns : outcome'[u] = "pending" => outcome[u] = "pending" /\ u # t
BY TurnsArePositive DEF Settle, SessionInv, TypeOK

LEMMA QueuedLater ==
    ASSUME SessionInv, NEW intent, intents' = Append(intents, intent)
    PROVE  /\ \A t \in Turns : Queued(t) => Queued(t)'
           /\ \A t \in Turns : intent = Event("turn", t) => Queued(t)'
PROOF
  <1>1. intents \in Seq(Events)
    BY TypeFacts
  <1>2. /\ DOMAIN intents \subseteq DOMAIN intents' /\ Len(intents) + 1 \in DOMAIN intents'
        /\ intents'[Len(intents) + 1] = intent
        /\ \A i \in DOMAIN intents : intents'[i] = intents[i]
    BY <1>1
  <1> QED
    BY <1>2 DEF Queued

LEMMA QueuedStill ==
    ASSUME SessionInv, NEW type, Take(type), NEW t \in Turns, Queued(t)
    PROVE  Queued(t)' \/ (type = "turn" /\ Head(intents).turn = t)
PROOF
  <1>1. /\ intents \in Seq(Events) /\ intents # <<>> /\ intents' = Tail(intents)
        /\ Head(intents).type = type
    BY TypeFacts DEF Take
  <1>2. PICK i \in DOMAIN intents : intents[i] = Event("turn", t)
    BY DEF Queued
  <1>3. CASE i = 1
    BY <1>1, <1>2, <1>3 DEF Event
  <1>4. CASE i # 1
    <2>1. i - 1 \in DOMAIN intents' /\ intents'[i - 1] = intents[i]
      BY <1>1, <1>4
    <2> QED
      BY <1>2, <2>1 DEF Queued
  <1> QED
    BY <1>3, <1>4

LEMMA TakeKeepsTurns ==
    ASSUME SessionInv, PendingInv, TakeTurnStart \/ TakeModeSet \/ TakeStop
    PROVE  PendingInv'
PROOF
  <1>1. PICK type \in {"turn", "mode", "stop"} : Take(type)
    BY DEF TakeTurnStart, TakeModeSet, TakeStop
  <1>2. task = Idle /\ Head(intents).turn \in 0..MaxTurns
    BY <1>1, TakeTypes DEF Take
  <1>3. \A t \in Turns : outcome[t] = "pending" =>
            Queued(t)' \/ (Head(intents).type = "turn" /\ Head(intents).turn = t)
    BY <1>1, <1>2, IdleHasNoTurn, TurnsArePositive, QueuedStill
    DEF PendingInv, PendingTurnsAreKept, Queued, Take
  <1>4. CASE TakeTurnStart
    <2> DEFINE t == Head(intents).turn
    <2>1. CASE outcome' = outcome /\ task'.turn = t /\ task'.at \notin {"idle", "unbind"}
      BY <1>3, <2>1 DEF PendingInv, PendingTurnsAreKept, Queued
    <2>2. CASE Settle(t, "failed") /\ UNCHANGED task
      <3>1. \A u \in Turns : outcome'[u] = "pending" => outcome[u] = "pending" /\ u # t
        BY <1>2, <2>2, SettledTurn
      <3> QED
        BY <1>3, <2>2, <3>1 DEF PendingInv, PendingTurnsAreKept, Queued
    <2>3. /\ [Idle EXCEPT !.at = "send", !.turn = t, !.mode = mode].turn = t
          /\ [Idle EXCEPT !.at = "send", !.turn = t, !.mode = mode].at = "send"
      BY DEF Idle
    <2>4. \/ StartSession(t)
          \/ task' = [Idle EXCEPT !.at = "send", !.turn = t, !.mode = mode] /\ UNCHANGED outcome
      BY <1>4 DEF TakeTurnStart
    <2>5. CASE StartSession(t)
      BY <2>1, <2>2, <2>5 DEF StartSession
    <2> QED
      BY <2>1, <2>3, <2>4, <2>5
  <1>5. CASE TakeModeSet \/ TakeStop
    <2>1. Head(intents).type # "turn" /\ UNCHANGED outcome
      BY <1>5, TurnsArePositive DEF TakeModeSet, TakeStop, Take, StartSession, Settle
    <2>2. task'.at \in {"idle", "unbind"} => task'.turn = 0
      <3>1. \A m : [Idle EXCEPT !.at = "unbind", !.mode = m].turn = 0
        BY DEF Idle
      <3>2. CASE TakeModeSet
        BY <1>2, <3>2, IdleHasNoTurn DEF TakeModeSet, StartSession
      <3>3. CASE TakeStop
        BY <1>2, <3>1, <3>3, IdleHasNoTurn DEF TakeStop
      <3> QED
        BY <1>5, <3>2, <3>3
    <2> QED
      BY <1>3, <2>1, <2>2 DEF PendingInv, PendingTurnsAreKept, Queued
  <1> QED
    BY <1>4, <1>5

LEMMA TaskKeepsTurns ==
    ASSUME SessionInv, PendingInv,
           \/ OpenThread \/ SaveFails \/ StartFails \/ Bind \/ BindFails \/ Route
           \/ TurnAccepted \/ TurnFails \/ Unbind
    PROVE  PendingInv'
PROOF
  <1>1. UNCHANGED intents /\ task.at # "idle" /\ task.turn \in 0..MaxTurns
    BY DEF OpenThread, SaveFails, StartFails, Bind, BindFails, Route, RouteIn, TurnAccepted,
           TurnFails, Unbind, Step, SessionInv, TypeOK
  <1>2. CASE UNCHANGED outcome /\ task'.turn = task.turn /\ task'.at \notin {"idle", "unbind"}
    BY <1>1, <1>2 DEF PendingInv, PendingTurnsAreKept
  <1>3. CASE /\ task' = Idle
             /\ \/ UNCHANGED outcome /\ task.turn = 0
                \/ \E result \in {"failed", "sent"} : Settle(task.turn, result)
    <2>1. \A u \in Turns : outcome'[u] = "pending" => outcome[u] = "pending" /\ u # task.turn
      BY <1>1, <1>3, SettledTurn, TurnsArePositive
    <2> QED
      BY <1>1, <1>3, <2>1, IdleHasNoTurn DEF PendingInv, PendingTurnsAreKept
  <1>4. /\ task \in Tasks(Len(processes)) /\ \A a : [task EXCEPT !.at = a].turn = task.turn
    BY TaskTypes DEF Tasks
  <1>5. CASE OpenThread \/ Bind \/ Route
    BY <1>2, <1>3, <1>4, <1>5 DEF OpenThread, Bind, Route, RouteIn, Tasks
  <1>6. CASE SaveFails \/ StartFails \/ BindFails \/ TurnAccepted \/ TurnFails
    BY <1>3, <1>6 DEF SaveFails, StartFails, BindFails, TurnAccepted, TurnFails, TurnFailed
  <1>7. CASE Unbind
    BY <1>3, <1>7 DEF Unbind, Step, PendingInv
  <1> QED
    BY <1>5, <1>6, <1>7

LEMMA OthersKeepTurns ==
    ASSUME SessionInv, PendingInv,
           \/ RequestTurn \/ SetMode \/ RequestStop \/ Ingestion \/ Crash \/ UNCHANGED vars
           \/ \E p \in DOMAIN processes : CompleteTurn(p) \/ ProcessExits(p)
    PROVE  PendingInv'
PROOF
  <1>1. CASE UNCHANGED <<outcome, intents, task>>
    BY <1>1 DEF PendingInv, PendingTurnsAreKept
  <1>2. CASE RequestTurn
    <2>1. PICK t \in Turns : /\ outcome' = [outcome EXCEPT ![t] = "pending"]
                             /\ intents' = Append(intents, Event("turn", t)) /\ UNCHANGED task
      BY <1>2 DEF RequestTurn, Request
    <2>2. \A u \in Turns : outcome'[u] = "pending" => outcome[u] = "pending" \/ u = t
      BY <2>1 DEF SessionInv, TypeOK
    <2> QED
      BY <2>1, <2>2, QueuedLater DEF PendingInv, PendingTurnsAreKept, Queued
  <1>3. CASE SetMode \/ RequestStop
    <2>1. PICK intent : intents' = Append(intents, intent) /\ UNCHANGED <<outcome, task>>
      BY <1>3 DEF SetMode, RequestStop, Request
    <2> QED
      BY <2>1, QueuedLater DEF PendingInv, PendingTurnsAreKept, Queued
  <1>4. CASE Crash
    BY <1>4, IdleHasNoTurn DEF Crash, PendingInv, PendingTurnsAreKept
  <1>5. CASE Ingestion \/ UNCHANGED vars
               \/ \E p \in DOMAIN processes : CompleteTurn(p) \/ ProcessExits(p)
    BY <1>1, <1>5
    DEF Ingestion, IngestEvent, DispatchSession, DispatchFails, CompleteTurn, ProcessExits, vars,
        memory, history
  <1> QED
    BY <1>2, <1>3, <1>4, <1>5

(* No requested turn is forgotten: as long as it is neither sent nor seen  *)
(* to fail nor lost with the process, the reactor has it or will take it   *)
(* (the part of TurnsAreAnswered that does not speak of ENABLED;           *)
(* processTurnStartRequested).                                             *)
THEOREM PendingTurnsAreAlwaysKept == Spec => []PendingTurnsAreKept
PROOF
  <1>1. Init => SessionInv /\ PendingInv
    BY InitTypes, IdleHasNoTurn DEF Init, PendingInv, PendingTurnsAreKept
  <1>2. SessionInv /\ PendingInv /\ [Next]_vars => (SessionInv /\ PendingInv)'
    BY NextPreserves, TakeKeepsTurns, TaskKeepsTurns, OthersKeepTurns DEF Next, Reactor
  <1>3. PendingInv => PendingTurnsAreKept
    BY DEF PendingInv
  <1> QED
    BY <1>1, <1>2, <1>3, PTL DEF Spec
=============================================================================
