--------------------------- MODULE ProviderSessions ---------------------------
(***************************************************************************)
(* The provider session of one thread, from the intents of the user to the *)
(* process that runs the turns: ProviderCommandReactor, ProviderService    *)
(* with its session directory, CodexAppServerManager and the session       *)
(* lifecycle of ProviderRuntimeIngestion.                                  *)
(*                                                                         *)
(* The reactor's worker takes one intent at a time; the steps of its task  *)
(* are the requests to the process and the dispatched commands.  Ingestion *)
(* reads the session before it dispatches a new one.  A crash takes all    *)
(* memory and the processes; the session, the runtime mode and the binding *)
(* are in the database.                                                    *)
(*                                                                         *)
(* Processes and conversations are numbered as they come into being, turns *)
(* as they are requested.  Intents nobody waits for here (interrupt,       *)
(* approval, user input) and a change of model are left out.               *)
(***************************************************************************)
EXTENDS Integers, Sequences

CONSTANTS
    MaxTurns,       \* bound on the turns requested
    MaxSwitches,    \* bound on the changes of runtime mode
    MaxStops,       \* bound on the session stops requested
    MaxFailures,    \* bound on the exits of processes and the calls and commands that fail
    MaxCrashes      \* bound on the crashes of the server

ASSUME SessionAssumption ==
    /\ MaxTurns \in Nat /\ MaxSwitches \in Nat /\ MaxStops \in Nat
    /\ MaxFailures \in Nat /\ MaxCrashes \in Nat

VARIABLES
    \* in the database
    mode,           \* thread.runtimeMode
    session,        \* thread.session
    binding,        \* the row of provider_session_runtime
    \* in memory
    intents,        \* domain events for the reactor
    task,           \* what the reactor is doing
    owner,          \* the entry of the manager's sessions map, or 0
    runtime,        \* runtime events for ingestion
    ingest,         \* the event being ingested, with the session it saw
    processes,      \* every process there ever was
    \* history
    outcome,        \* what became of each turn
    conversations,  \* conversations begun
    latest,         \* the conversation of the last turn, or 0
    forgotten,      \* the conversation was given up, by a stop or a failed resume
    overlapped,     \* a session was started over a live one
    torn,           \* the session in the read model was not that of the process
    stranded,       \* a crash left an active turn behind
    unreported,     \* the kinds of events whose session command failed
    switches, stops, failures, crashes

database == <<mode, session, binding>>
memory == <<intents, task, owner, runtime, ingest, processes>>
history == <<outcome, conversations, latest, forgotten, overlapped, torn, stranded, unreported>>
counters == <<switches, stops, failures, crashes>>
vars == <<database, memory, history, counters>>

Turns == 1..MaxTurns
Modes == {"approval-required", "full-access"}

NoSession == [status |-> "none", mode |-> "full-access", turn |-> 0]
NoBinding == [cursor |-> 0, mode |-> "full-access"]
Idle == [at |-> "idle", turn |-> 0, mode |-> "full-access", resume |-> 0, process |-> 0]
Event(type, turn) == [type |-> type, turn |-> turn]
Quiet == [event |-> Event("none", 0), seen |-> NoSession]

Process(m) == [alive |-> TRUE, mode |-> m, conversation |-> 0, turn |-> 0]
Dead == [Process("full-access") EXCEPT !.alive = FALSE]

Live(p) == p \in DOMAIN processes /\ processes[p].alive
Gone(s) == s.status \in {"none", "stopped"}

Init ==
    /\ mode \in Modes /\ session = NoSession /\ binding = NoBinding
    /\ intents = <<>> /\ task = Idle /\ owner = 0
    /\ runtime = <<>> /\ ingest = Quiet /\ processes = <<>>
    /\ outcome = [t \in Turns |-> "none"]
    /\ conversations = 0 /\ latest = 0 /\ forgotten = FALSE
    /\ overlapped = FALSE /\ torn = FALSE /\ stranded = FALSE /\ unreported = {}
    /\ switches = 0 /\ stops = 0 /\ failures = 0 /\ crashes = 0
-----------------------------------------------------------------------------
(* The user: each command becomes an event for the reactor.                *)

Request(intent) ==
    /\ intents' = Append(intents, intent)
    /\ UNCHANGED <<session, binding, task, owner, runtime, ingest, processes, conversations,
                   latest, forgotten, overlapped, torn, stranded, unreported, failures, crashes>>

RequestTurn ==
    \E t \in Turns :
        /\ \A u \in Turns : (u < t) <=> (outcome[u] # "none")
        /\ outcome' = [outcome EXCEPT ![t] = "pending"]
        /\ Request(Event("turn", t))
        /\ UNCHANGED <<mode, switches, stops>>

SetMode ==
    /\ switches < MaxSwitches
    /\ switches' = switches + 1
    /\ mode' \in Modes \ {mode}
    /\ Request(Event("mode", 0))
    /\ UNCHANGED <<outcome, stops>>

RequestStop ==
    /\ stops < MaxStops
    /\ stops' = stops + 1
    /\ Request(Event("stop", 0))
    /\ UNCHANGED <<mode, outcome, switches>>
-----------------------------------------------------------------------------
(* The processes.  Whatever is no longer in the sessions map still has its *)
(* listeners.                                                              *)

Fails == failures < MaxFailures /\ failures' = failures + 1

CompleteTurn(p) ==
    /\ Live(p)
    /\ processes[p].turn # 0
    /\ processes' = [processes EXCEPT ![p].turn = 0]
    /\ runtime' = Append(runtime, Event("completed", processes[p].turn))
    /\ UNCHANGED <<database, intents, task, owner, ingest, history, counters>>

(* Mutant: the turn stays.                                                 *)
ProcessExitsInMidTurn(p) ==
    /\ Live(p)
    /\ Fails
    /\ processes' = [processes EXCEPT ![p].alive = FALSE]
    /\ owner' = 0
    /\ runtime' = Append(runtime, Event("exited", 0))
    /\ UNCHANGED <<database, intents, task, ingest, history, switches, stops, crashes>>

(* The exit listener deletes the thread's entry, whose ever it is.         *)
ProcessExits(p) ==
    /\ Live(p)
    /\ Fails
    /\ processes' = [processes EXCEPT ![p] = Dead]
    /\ owner' = 0
    /\ runtime' = Append(runtime, Event("exited", 0))
    /\ UNCHANGED <<database, intents, task, ingest, history, switches, stops, crashes>>
-----------------------------------------------------------------------------
(* CodexAppServerManager.                                                  *)

(* startSession up to the first request; an older entry is overwritten.    *)
Spawn(m) ==
    /\ processes' = Append(processes, Process(m))
    /\ owner' = Len(processes')
    /\ overlapped' = (overlapped \/ owner # 0)
    /\ runtime' = Append(runtime, Event("connecting", 0))

(* Mutant: the process survives its session.                               *)
StopWithoutKill(events) ==
    /\ UNCHANGED processes
    /\ owner' = 0
    /\ runtime' = IF owner = 0 THEN runtime \o events
                  ELSE Append(runtime \o events, Event("exited", 0))

(* stopSession, after what was emitted before: it kills the process of the *)
(* entry and removes its listeners.                                        *)
StopEntry(events) ==
    /\ processes' = [p \in DOMAIN processes |->
                        IF p = owner THEN Dead ELSE processes[p]]
    /\ owner' = 0
    /\ runtime' = IF owner = 0 THEN runtime \o events
                  ELSE Append(runtime \o events, Event("exited", 0))
-----------------------------------------------------------------------------
(* ProviderCommandReactor and ProviderService.                             *)

Take(type) ==
    /\ task = Idle
    /\ intents # <<>>
    /\ Head(intents).type = type
    /\ intents' = Tail(intents)
    /\ UNCHANGED <<mode, session, ingest, conversations, latest, stranded, unreported, switches,
                   stops, crashes>>

Settle(t, result) == outcome' = IF t = 0 THEN outcome ELSE [outcome EXCEPT ![t] = result]

(* Mutant: only a cursor of a live session is resumed.                     *)
LiveCursor == IF owner # 0 THEN processes[owner].conversation ELSE 0

(* The cursor of the live session, or else the persisted one.              *)
Cursor == IF owner # 0 THEN processes[owner].conversation ELSE binding.cursor

(* startSession; it may be refused before there is a process, for lack of  *)
(* a suitable CLI or because the binding cannot be read.                   *)
StartSession(t) ==
    \/ /\ Spawn(mode)
       /\ task' = [at |-> "start", turn |-> t, mode |-> mode, resume |-> Cursor,
                   process |-> Len(processes')]
       /\ UNCHANGED <<outcome, failures>>
    \/ /\ Fails
       /\ runtime' \in {runtime, Append(runtime, Event("error", 0))}
       /\ Settle(t, "failed")
       /\ UNCHANGED <<task, processes, owner, overlapped>>

(* processTurnStartRequested and ensureSessionForThread.                   *)
TakeTurnStart ==
    LET t == Head(intents).turn
    IN  /\ Take("turn")
        /\ IF Gone(session) \/ session.mode # mode
           THEN StartSession(t)
           ELSE /\ task' = [Idle EXCEPT !.at = "send", !.turn = t, !.mode = mode]
                /\ UNCHANGED <<outcome, processes, owner, runtime, overlapped, failures>>
        /\ UNCHANGED <<binding, forgotten, torn>>

(* thread.runtime-mode-set: a live session is restarted.                   *)
TakeModeSet ==
    /\ Take("mode")
    /\ IF Gone(session) \/ session.mode = mode
       THEN UNCHANGED <<task, outcome, processes, owner, runtime, overlapped, failures>>
       ELSE StartSession(0)
    /\ UNCHANGED <<binding, forgotten, torn>>

(* processSessionStopRequested.  Without a binding, or if it cannot be     *)
(* read, stopSession fails and that is all; if it cannot be removed the    *)
(* process is stopped all the same.                                        *)
TakeStop ==
    /\ Take("stop")
    /\ \/ /\ Gone(session)
          /\ task' = [Idle EXCEPT !.at = "unbind", !.mode = session.mode]
          /\ torn' = (torn \/ owner # 0)
          /\ UNCHANGED <<binding, processes, owner, runtime, forgotten, failures>>
       \/ /\ ~Gone(session)
          /\ IF binding = NoBinding THEN UNCHANGED failures ELSE Fails
          /\ UNCHANGED <<task, binding, processes, owner, runtime, forgotten, torn>>
       \/ /\ ~Gone(session) /\ binding # NoBinding
          /\ StopEntry(<<>>)
          /\ \/ /\ binding' = NoBinding
                /\ forgotten' = TRUE
                /\ task' = [Idle EXCEPT !.at = "unbind", !.mode = session.mode]
                /\ UNCHANGED failures
             \/ /\ Fails
                /\ UNCHANGED <<task, binding, forgotten>>
          /\ UNCHANGED torn
    /\ UNCHANGED <<outcome, overlapped>>

Step(at) ==
    /\ task.at = at
    /\ UNCHANGED <<mode, intents, ingest, stranded, unreported, switches, stops, crashes>>

(* The thread is opened: resumed, or begun if there is none to resume or   *)
(* the provider lost it.                                                   *)
Open(c) ==
    /\ Live(task.process)
    /\ \/ /\ task.resume # 0 /\ c = task.resume
          /\ UNCHANGED <<conversations, forgotten>>
       \/ /\ conversations' = conversations + 1 /\ c = conversations'
          /\ forgotten' = (forgotten \/ task.resume # 0)
    /\ processes' = [processes EXCEPT ![task.process].conversation = c]
    /\ runtime' = Append(runtime, Event("ready", 0))

(* It is open, and the binding is written.                                 *)
OpenThread ==
    \E at \in {"start", "recover"}, c \in 1..(conversations + 1) :
        /\ Step(at)
        /\ Open(c)
        /\ IF task.resume \in {0, c} THEN UNCHANGED failures ELSE Fails
        /\ binding' = [cursor |-> c, mode |-> processes[task.process].mode]
        /\ task' = [task EXCEPT !.at = IF at = "start" THEN "bind" ELSE "request"]
        /\ UNCHANGED <<session, owner, outcome, latest, overlapped, torn>>

(* It is open, but the binding cannot be written: the process goes on, the *)
(* task does not, and the session is not that of the process.              *)
SaveFails ==
    \E at \in {"start", "recover"}, c \in 1..(conversations + 1) :
        /\ Step(at)
        /\ Open(c)
        /\ Fails
        /\ Settle(task.turn, "failed")
        /\ task' = Idle
        /\ torn' = (torn \/ at = "start")
        /\ UNCHANGED <<session, binding, owner, latest, overlapped>>

(* A request of startSession fails, or times out when the process is gone. *)
StartFails ==
    \E at \in {"start", "recover"} :
        /\ Step(at)
        /\ IF Live(task.process) THEN Fails ELSE UNCHANGED failures
        /\ StopEntry(<<Event("error", 0)>>)
        /\ Settle(task.turn, "failed")
        /\ task' = Idle
        /\ UNCHANGED <<session, binding, conversations, latest, forgotten, overlapped, torn>>

(* bindSessionToThread.                                                    *)
Bind ==
    /\ Step("bind")
    /\ session' = [status |-> "ready", mode |-> task.mode, turn |-> 0]
    /\ task' = IF task.turn = 0 THEN Idle ELSE [task EXCEPT !.at = "send"]
    /\ UNCHANGED <<binding, owner, runtime, processes, outcome, conversations, latest, forgotten,
                   overlapped, torn, failures>>

(* The command fails: the process goes on, the session is not that of it.  *)
BindFails ==
    /\ Step("bind")
    /\ Fails
    /\ Settle(task.turn, "failed")
    /\ task' = Idle
    /\ torn' = TRUE
    /\ UNCHANGED <<session, binding, owner, runtime, processes, conversations, latest, forgotten,
                   overlapped>>

(* resolveRoutableSession and recoverSessionForThread for sendTurn.        *)
RouteIn(m) ==
    /\ Step("send")
    /\ \/ /\ owner # 0 /\ binding # NoBinding
          /\ task' = [task EXCEPT !.at = "request", !.process = owner]
          /\ UNCHANGED <<processes, owner, runtime, outcome, overlapped, failures>>
       \/ /\ owner = 0 /\ binding # NoBinding
          /\ Spawn(m)
          /\ task' = [task EXCEPT !.at = "recover", !.resume = binding.cursor, !.process = owner']
          /\ UNCHANGED <<outcome, failures>>
       \/ /\ IF binding = NoBinding THEN UNCHANGED failures ELSE Fails
          /\ Settle(task.turn, "failed")
          /\ task' = Idle
          /\ UNCHANGED <<processes, owner, runtime, overlapped>>
    /\ UNCHANGED <<session, binding, conversations, latest, forgotten, torn>>

(* Mutant: a session is recovered in the default mode.                     *)
RouteWithDefaultMode == RouteIn("full-access")

(* A session is recovered in the mode it was bound in.                     *)
Route == RouteIn(binding.mode)

(* turn/start is answered; a process is taken to run one turn at a time.   *)
(* The cursor is saved; if that fails, so does the turn for the reactor,   *)
(* though the process works on it.                                         *)
TurnAccepted ==
    /\ Step("request")
    /\ Live(task.process)
    /\ processes[task.process].turn = 0
    /\ processes' = [processes EXCEPT ![task.process].turn = task.turn]
    /\ runtime' = Append(runtime, Event("started", task.turn))
    /\ latest' = processes[task.process].conversation
    /\ \/ /\ binding' = [binding EXCEPT !.cursor = latest']
          /\ forgotten' = FALSE
          /\ Settle(task.turn, "sent")
          /\ UNCHANGED failures
       \/ /\ Fails
          /\ Settle(task.turn, "failed")
          /\ UNCHANGED <<binding, forgotten>>
    /\ task' = Idle
    /\ UNCHANGED <<session, owner, conversations, overlapped, torn>>

TurnFailed ==
    /\ Settle(task.turn, "failed")
    /\ task' = Idle
    /\ UNCHANGED <<session, binding, owner, runtime, processes, conversations, latest, forgotten,
                   overlapped, torn>>

(* Mutant: a request to a process that is gone waits for its answer.       *)
TurnFailsIfRefused == Step("request") /\ Live(task.process) /\ Fails /\ TurnFailed

(* turn/start fails, or times out when the process is gone or busy.        *)
TurnFails ==
    /\ Step("request")
    /\ IF Live(task.process) /\ processes[task.process].turn = 0 THEN Fails
       ELSE UNCHANGED failures
    /\ TurnFailed

(* setThreadSession of processSessionStopRequested; when the command fails *)
(* the session is shown as it was.                                         *)
Unbind ==
    /\ Step("unbind")
    /\ \/ /\ session' = [status |-> "stopped", mode |-> task.mode, turn |-> 0]
          /\ UNCHANGED failures
       \/ /\ Fails
          /\ UNCHANGED session
    /\ task' = Idle
    /\ UNCHANGED <<binding, owner, runtime, processes, outcome, conversations, latest, forgotten,
                   overlapped, torn>>
-----------------------------------------------------------------------------
(* ProviderRuntimeIngestion.                                               *)

IngestEvent ==
    /\ ingest = Quiet
    /\ runtime # <<>>
    /\ ingest' = [event |-> Head(runtime), seen |-> session]
    /\ runtime' = Tail(runtime)
    /\ UNCHANGED <<database, intents, task, owner, processes, history, counters>>

(* shouldApplyThreadLifecycle.                                             *)
Applies ==
    ingest.event.type \in {"started", "completed"} =>
        ingest.seen.turn \in {0, ingest.event.turn}

Status(type) ==
    CASE type = "connecting" -> "starting"
      [] type = "started" -> "running"
      [] type = "exited" -> "stopped"
      [] type = "error" -> "error"
      [] OTHER -> "ready"

(* Mutant: a turn outlives its session.                                    *)
NextSessionKeepingTurn ==
    LET event == ingest.event
    IN  [status |-> Status(event.type), mode |-> ingest.seen.mode,
         turn |-> CASE event.type = "started" -> event.turn
                    [] event.type = "completed" -> 0
                    [] OTHER -> ingest.seen.turn]

NextSession ==
    LET event == ingest.event
    IN  [status |-> Status(event.type), mode |-> ingest.seen.mode,
         turn |-> CASE event.type = "started" -> event.turn
                    [] event.type \in {"completed", "exited", "error"} -> 0
                    [] OTHER -> ingest.seen.turn]

DispatchSession ==
    /\ ingest # Quiet
    /\ ingest' = Quiet
    /\ session' = IF Applies THEN NextSession ELSE session
    /\ torn' = (torn \/ session'.mode # session.mode)
    /\ UNCHANGED <<mode, binding, intents, task, owner, runtime, processes, outcome,
                   conversations, latest, forgotten, overlapped, stranded, unreported, counters>>

(* The command fails: it is logged, and the event is done with.            *)
DispatchFails ==
    /\ ingest # Quiet
    /\ Applies
    /\ Fails
    /\ ingest' = Quiet
    /\ unreported' = unreported \cup {ingest.event.type}
    /\ UNCHANGED <<database, intents, task, owner, runtime, processes, outcome, conversations,
                   latest, forgotten, overlapped, torn, stranded, switches, stops, crashes>>
-----------------------------------------------------------------------------
(* The intents that were not handled are never delivered again.            *)
Crash ==
    /\ crashes < MaxCrashes
    /\ crashes' = crashes + 1
    /\ intents' = <<>> /\ task' = Idle /\ owner' = 0 /\ runtime' = <<>> /\ ingest' = Quiet
    /\ processes' = [p \in DOMAIN processes |-> Dead]
    /\ outcome' = [t \in Turns |-> IF outcome[t] = "pending" THEN "lost" ELSE outcome[t]]
    /\ torn' = (torn \/ task.at = "bind")
    /\ stranded' = (stranded \/ session.turn # 0)
    /\ UNCHANGED <<database, conversations, latest, forgotten, overlapped, unreported, switches,
                   stops, failures>>

Reactor ==
    \/ TakeTurnStart \/ TakeModeSet \/ TakeStop
    \/ OpenThread \/ SaveFails \/ StartFails \/ Bind \/ BindFails
    \/ Route \/ TurnAccepted \/ TurnFails \/ Unbind

Ingestion == IngestEvent \/ DispatchSession \/ DispatchFails

Next ==
    \/ RequestTurn \/ SetMode \/ RequestStop
    \/ \E p \in DOMAIN processes : CompleteTurn(p) \/ ProcessExits(p)
    \/ Reactor \/ Ingestion \/ Crash

(* The workers run, and a request to a process is answered or times out.   *)
Spec == Init /\ [][Next]_vars /\ WF_vars(Reactor) /\ WF_vars(Ingestion)
=============================================================================
