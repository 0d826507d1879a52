---------------------- MODULE ProviderSessionsProperties ----------------------
(***************************************************************************)
(* What must be true of a thread's provider session.                       *)
(***************************************************************************)
EXTENDS ProviderSessions

Sessions ==
    [status : {"none", "starting", "ready", "running", "error", "stopped"},
     mode : Modes, turn : 0..MaxTurns]

Bindings == [cursor : Nat, mode : Modes]

Types == {"none", "turn", "mode", "stop", "connecting", "ready", "started", "completed",
          "exited", "error"}

Events == [type : Types, turn : 0..MaxTurns]

(* The state has the declared shape, and only a live process has a turn.   *)
TypeOK ==
    /\ mode \in Modes /\ session \in Sessions /\ binding \in Bindings
    /\ intents \in Seq(Events) /\ runtime \in Seq(Events)
    /\ task \in [at : {"idle", "start", "recover", "bind", "send", "request", "unbind"},
                 turn : 0..MaxTurns, mode : Modes, resume : Nat, process : 0..Len(processes)]
    /\ owner \in 0..Len(processes)
    /\ ingest \in [event : Events, seen : Sessions]
    /\ processes \in Seq([alive : BOOLEAN, mode : Modes, conversation : 0..conversations,
                          turn : 0..MaxTurns])
    /\ \A p \in DOMAIN processes : processes[p].turn # 0 => processes[p].alive
    /\ outcome \in [Turns -> {"none", "pending", "sent", "failed", "lost"}]
    /\ conversations \in Nat /\ latest \in 0..conversations
    /\ forgotten \in BOOLEAN /\ overlapped \in BOOLEAN /\ torn \in BOOLEAN /\ stranded \in BOOLEAN
    /\ unreported \subseteq Types
    /\ switches \in 0..MaxSwitches /\ stops \in 0..MaxStops
    /\ failures \in 0..MaxFailures /\ crashes \in 0..MaxCrashes

(* Every live process can be reached through the sessions map, to be       *)
(* stopped or sent to.  Only a restart leaves one behind, as startSession  *)
(* overwrites the entry of a session that lives (CodexAppServerManager).   *)
ProcessesAreRegistered ==
    ~overlapped => \A p \in DOMAIN processes : Live(p) => p = owner

(* A turn goes to a process that runs in the mode the thread had when the  *)
(* reactor took the request, whether the session is new, restarted,        *)
(* recovered or still there (ensureSessionForThread,                       *)
(* recoverSessionForThread); unless a started session was never bound, as  *)
(* the server died, the binding could not be written or the command failed,*)
(* or ingestion wrote back a session from before it was.                   *)
TurnsRunInTheirMode ==
    [][TurnAccepted /\ ~torn => processes[task.process].mode = task.mode]_vars

(* A turn continues the conversation of the turn before it, over restarts  *)
(* of session and server, unless that was stopped or could not be resumed  *)
(* and its successor is not saved yet (startSession of ProviderService,    *)
(* directory.upsert).                                                      *)
ConversationContinues ==
    [][latest # 0 /\ latest' # latest => forgotten]_vars

AtRest == intents = <<>> /\ task = Idle /\ runtime = <<>> /\ ingest = Quiet

(* When all is settled, the turn that the read model calls active is being *)
(* worked on, and a stopped session has no process (exit listener,         *)
(* processSessionStopRequested, the guards of the ingestion); unless the   *)
(* turn was active when the server died, the command that ends it failed   *)
(* and with it the event was dropped, or so did one that shows the session *)
(* alive, a session was not bound, or the stop came while the read model   *)
(* still showed the end of the session before.                             *)
SessionIsReal ==
    AtRest =>
        /\ ~stranded /\ unreported \cap {"completed", "exited", "error"} = {}
            /\ session.turn # 0 =>
                \E p \in DOMAIN processes : Live(p) /\ processes[p].turn = session.turn
        /\ ~torn /\ unreported \subseteq {"exited", "error"}
            /\ session.status = "stopped" => owner = 0

(* A requested turn is with the reactor or waits for it.                   *)
PendingTurnsAreKept ==
    \A t \in Turns : outcome[t] = "pending" =>
        task.turn = t \/ \E i \in DOMAIN intents : intents[i] = Event("turn", t)

(* A requested turn waits for the reactor, which has a step to take for    *)
(* it: whatever becomes of the processes, it will be sent or fail, unless  *)
(* the server dies (processTurnStartRequested, sendRequest).               *)
TurnsAreAnswered ==
    /\ PendingTurnsAreKept
    /\ (\E t \in Turns : outcome[t] = "pending") => ENABLED Reactor
=============================================================================
