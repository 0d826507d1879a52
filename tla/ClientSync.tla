----------------------------- MODULE ClientSync -----------------------------
(***************************************************************************)
(* One browser following the server's event log: the EventRouter of        *)
(* apps/web/src/routes/__root.tsx over wsTransport.ts, and the part of     *)
(* wsServer.ts and pushBus.ts it talks to.                                 *)
(*                                                                         *)
(* Pushed events only tell the client that something is new; it fetches    *)
(* what is new with getSnapshot or replayEvents, at most one at a time.    *)
(* The connection may drop, the server restart, a request fail or time     *)
(* out.  Events are named by their sequence numbers; that a snapshot holds *)
(* exactly the committed log, and that EventFeed describes how the log     *)
(* grows and is announced, is what OrchestrationEngine establishes.        *)
(***************************************************************************)
EXTENDS Naturals, Sequences

CONSTANTS
    ReplayLimit,      \* events one replayEvents returns at most
    MaxLog,           \* bound on the events committed
    MaxDisconnects,   \* bound on dropped connections and server restarts
    MaxFailures       \* bound on requests that fail though they are not lost

ASSUME SyncAssumption ==
    /\ ReplayLimit \in Nat \ {0}
    /\ MaxLog \in Nat
    /\ MaxDisconnects \in Nat
    /\ MaxFailures \in Nat

VARIABLES
    \* the server
    logLength,       \* committed events
    published,       \* those the push bus was given
    pushQueue,       \* jobs of the push bus
    greeted,         \* the welcome was sent, the socket is not yet in clients
    registered,      \* the socket is in clients
    \* history, which no step depends on
    opened,          \* the length of the log when the socket was opened
    missed,          \* the latest event pushed while the socket was only greeted
    \* the connection
    connected,
    inbound,         \* messages on their way to the client, in order
    request,         \* the client's outstanding request, or what became of it
    \* the client
    model,           \* currentReadModel: the events folded into it
    loaded,          \* currentReadModel is not null
    latestSequence,
    phase,           \* where syncSnapshot is
    pending,
    timer,           \* the throttled flush is scheduled
    gaveUp,          \* the last syncSnapshot ended in a failure
    \* bounds
    disconnects, failures

history == <<opened, missed>>
server == <<logLength, published, pushQueue, greeted, registered, history>>
router == <<model, loaded, latestSequence, phase, pending, timer, gaveUp>>
bounds == <<disconnects, failures>>
vars == <<server, connected, inbound, request, router, bounds>>

EF == INSTANCE EventFeed WITH committed <- logLength, announced <- published

-----------------------------------------------------------------------------

(* A client that folded the first n events.                                *)
EventsUpTo(n) == [i \in 1..n |-> i]

Larger(m, n) == IF m > n THEN m ELSE n

(* phase: the request awaited, and whether a failure still leads to the    *)
(* fallback of the catch block ("replay" and "replaySnapshot") or not.     *)
Awaiting == {"snapshot", "replaySnapshot", "replay"}

NoRequest == [kind |-> "none", from |-> 0, upTo |-> 0, at |-> "none"]

(* A request is sent when the socket is open and waits for it otherwise.   *)
NewRequest(kind, from) ==
    [kind |-> kind, from |-> from, upTo |-> 0,
     at |-> IF connected THEN "server" ELSE "outbox"]

Welcome == [channel |-> "serverWelcome", sequence |-> 0]
DomainEvent(n) == [channel |-> "domainEvent", sequence |-> n]
Response == [channel |-> "response", sequence |-> 0]
Ignored == [channel |-> "ignored", sequence |-> 0]

(* A message whose addressee is gone: a welcome for a closed socket, or an *)
(* answer whose promise was rejected.  It arrives and has no effect.       *)
Orphan(messages, orphan) ==
    [i \in DOMAIN messages |-> IF messages[i] = orphan THEN Ignored ELSE messages[i]]

Init ==
    /\ logLength = 0 /\ published = 0 /\ pushQueue = <<>>
    /\ greeted = FALSE /\ registered = FALSE /\ opened = 0 /\ missed = 0
    /\ connected = FALSE /\ inbound = <<>> /\ request = NoRequest
    /\ model = <<>> /\ loaded = FALSE /\ latestSequence = 0
    /\ phase = "idle" /\ pending = FALSE /\ timer = FALSE /\ gaveUp = FALSE
    /\ disconnects = 0 /\ failures = 0
-----------------------------------------------------------------------------
(* The server.                                                             *)

(* The events of a command are committed together.                         *)
CommitEvents ==
    /\ EF!Extend
    /\ logLength' <= MaxLog
    /\ UNCHANGED <<pushQueue, greeted, registered, history, connected, inbound,
                   request, router, bounds>>

(* The engine publishes in log order, after the commit.                    *)
PublishEvent ==
    /\ EF!Announce
    /\ pushQueue' = Append(pushQueue, DomainEvent(published'))
    /\ UNCHANGED <<greeted, registered, history, connected, inbound, request, router, bounds>>

(* One worker sends the jobs: an event to the sockets registered now, a    *)
(* welcome to its own socket.                                              *)
Push ==
    LET job == Head(pushQueue)
    IN  /\ pushQueue # <<>>
        /\ pushQueue' = Tail(pushQueue)
        /\ inbound' = IF job = Welcome \/ (registered /\ job # Ignored)
                      THEN Append(inbound, job) ELSE inbound
        /\ greeted' = (greeted \/ job = Welcome)
        /\ missed' = IF greeted /\ job.channel = "domainEvent" THEN Larger(missed, job.sequence)
                     ELSE missed
        /\ UNCHANGED <<logLength, published, registered, opened, connected, request, router,
                       bounds>>

Register ==
    /\ greeted
    /\ greeted' = FALSE
    /\ registered' = TRUE
    /\ UNCHANGED <<logLength, published, pushQueue, history, connected, inbound, request, router,
                   bounds>>

(* getSnapshot reads all tables in one transaction; replayEvents reads at  *)
(* most ReplayLimit events.                                                *)
ReadDatabase ==
    /\ request.at = "server"
    /\ request' = [request EXCEPT
            !.at = "read",
            !.upTo = IF request.kind = "replay" /\ request.from + ReplayLimit < logLength
                     THEN request.from + ReplayLimit ELSE logLength]
    /\ UNCHANGED <<server, connected, inbound, router, bounds>>

Respond ==
    /\ request.at = "read"
    /\ request' = [request EXCEPT !.at = "wire"]
    /\ inbound' = Append(inbound, Response)
    /\ UNCHANGED <<server, connected, router, bounds>>
-----------------------------------------------------------------------------
(* The connection.                                                         *)

(* Everything on the wire is lost, and so is an answer not yet sent.       *)
ConnectionLost ==
    /\ disconnects < MaxDisconnects
    /\ disconnects' = disconnects + 1
    /\ connected' = FALSE
    /\ inbound' = <<>>
    /\ request' = IF request.at \in {"server", "read", "wire"}
                  THEN [request EXCEPT !.at = "lost"] ELSE request
    /\ greeted' = FALSE
    /\ registered' = FALSE
    /\ opened' = 0 /\ missed' = 0
    /\ UNCHANGED <<router, failures>>

Disconnect ==
    /\ connected
    /\ ConnectionLost
    /\ pushQueue' = Orphan(pushQueue, Welcome)
    /\ UNCHANGED <<logLength, published>>

(* The restarted server has an empty push bus and publishes new events     *)
(* only.                                                                   *)
ServerRestart ==
    /\ ConnectionLost
    /\ pushQueue' = <<>>
    /\ EF!StartOver

(* The transport flushes its outbound queue, the server greets the socket: *)
(* it accepts one only when it is ready, so the welcome is queued at once. *)
Connect ==
    /\ ~connected
    /\ connected' = TRUE
    /\ request' = IF request.at = "outbox" THEN [request EXCEPT !.at = "server"] ELSE request
    /\ pushQueue' = Append(pushQueue, Welcome)
    /\ opened' = logLength
    /\ UNCHANGED <<logLength, published, greeted, registered, missed, inbound, router, bounds>>
-----------------------------------------------------------------------------
(* The client.                                                             *)

Idle ==
    /\ phase' = "idle"
    /\ request' = NoRequest

Ask(nextPhase, kind, from) ==
    /\ phase' = nextPhase
    /\ request' = NewRequest(kind, from)

(* Mutant: a request while another sync runs is dropped.                   *)
SyncOnlyWhenIdle(mode) ==
    IF phase # "idle"
    THEN UNCHANGED <<pending, phase, request, gaveUp>>
    ELSE /\ pending' = FALSE
         /\ gaveUp' = FALSE
         /\ IF mode = "replay" /\ loaded
            THEN Ask("replay", "replay", Len(model))
            ELSE Ask(IF mode = "replay" THEN "replaySnapshot" ELSE "snapshot", "snapshot", 0)

(* syncSnapshot(mode): while one runs, only pending is set and the mode of *)
(* the new one forgotten.                                                  *)
SyncSnapshot(mode) ==
    IF phase # "idle"
    THEN /\ pending' = TRUE
         /\ UNCHANGED <<phase, request, gaveUp>>
    ELSE /\ pending' = FALSE
         /\ gaveUp' = FALSE
         /\ IF mode = "replay" /\ loaded
            THEN Ask("replay", "replay", Len(model))
            ELSE Ask(IF mode = "replay" THEN "replaySnapshot" ELSE "snapshot", "snapshot", 0)

ReceiveEvent ==
    LET event == Head(inbound)
    IN  /\ inbound # <<>>
        /\ event.channel = "domainEvent"
        /\ inbound' = Tail(inbound)
        /\ latestSequence' = Larger(latestSequence, event.sequence)
        /\ timer' = (timer \/ event.sequence > latestSequence)
        /\ UNCHANGED <<server, connected, request, model, loaded, phase, pending, gaveUp, bounds>>

ReceiveWelcome ==
    /\ inbound # <<>>
    /\ Head(inbound) = Welcome
    /\ inbound' = Tail(inbound)
    /\ SyncSnapshot("snapshot")
    /\ UNCHANGED <<server, connected, model, loaded, latestSequence, timer, bounds>>

ReceiveIgnored ==
    /\ inbound # <<>>
    /\ Head(inbound) = Ignored
    /\ inbound' = Tail(inbound)
    /\ UNCHANGED <<server, connected, request, router, bounds>>

TimerFires ==
    /\ timer
    /\ timer' = FALSE
    /\ SyncSnapshot("replay")
    /\ UNCHANGED <<server, connected, inbound, model, loaded, latestSequence, bounds>>

ResponseArrives ==
    /\ inbound # <<>>
    /\ Head(inbound) = Response
    /\ inbound' = Tail(inbound)

(* Mutant: syncing is cleared while the answered request is kept.          *)
ReceiveSnapshotForgettingRequest ==
    /\ ResponseArrives
    /\ phase \in {"snapshot", "replaySnapshot"}
    /\ model' = EventsUpTo(request.upTo)
    /\ loaded' = TRUE
    /\ latestSequence' = Larger(latestSequence, request.upTo)
    /\ IF pending THEN Ask(phase, "snapshot", 0) ELSE phase' = "idle" /\ UNCHANGED request
    /\ pending' = FALSE
    /\ UNCHANGED <<server, connected, timer, gaveUp, bounds>>

(* flushSnapshotSync after its await.                                      *)
ReceiveSnapshot ==
    /\ ResponseArrives
    /\ phase \in {"snapshot", "replaySnapshot"}
    /\ model' = EventsUpTo(request.upTo)
    /\ loaded' = TRUE
    /\ latestSequence' = Larger(latestSequence, request.upTo)
    /\ IF pending THEN Ask(phase, "snapshot", 0) ELSE Idle
    /\ pending' = FALSE
    /\ UNCHANGED <<server, connected, timer, gaveUp, bounds>>

(* Mutant: an empty replay always ends the sync.                           *)
EmptyReplayIsEnough ==
    /\ ResponseArrives
    /\ phase = "replay"
    /\ request.upTo = request.from
    /\ Idle
    /\ UNCHANGED <<server, connected, model, loaded, latestSequence, pending, timer, gaveUp,
                   bounds>>

(* flushReplaySync with no events: a snapshot if an event is known that    *)
(* the model lacks; pending is left as it is.                              *)
ReceiveEmptyReplay ==
    /\ ResponseArrives
    /\ phase = "replay"
    /\ request.upTo = request.from
    /\ IF latestSequence > Len(model) THEN Ask("replaySnapshot", "snapshot", 0) ELSE Idle
    /\ UNCHANGED <<server, connected, model, loaded, latestSequence, pending, timer, gaveUp,
                   bounds>>

(* The fold awaits between events: messages may arrive before it is done.  *)
ReceiveReplay ==
    /\ ResponseArrives
    /\ phase = "replay"
    /\ request.upTo > request.from
    /\ phase' = "folding"
    /\ request' = [request EXCEPT !.at = "received"]
    /\ UNCHANGED <<server, connected, model, loaded, latestSequence, pending, timer, gaveUp,
                   bounds>>

FinishFold ==
    /\ phase = "folding"
    /\ model' = model \o [i \in 1..request.upTo - request.from |-> request.from + i]
    /\ latestSequence' = Larger(latestSequence, request.upTo)
    /\ IF pending THEN Ask("replay", "replay", Len(model')) ELSE Idle
    /\ pending' = FALSE
    /\ UNCHANGED <<server, connected, inbound, loaded, timer, gaveUp, bounds>>

(* Mutant: a late answer is taken for the answer to the next request.      *)
RejectKeepingAnswer ==
    /\ UNCHANGED inbound
    /\ IF phase = "snapshot"
       THEN Idle /\ gaveUp' = TRUE
       ELSE Ask("snapshot", "snapshot", 0) /\ UNCHANGED gaveUp
    /\ UNCHANGED <<server, connected, model, loaded, latestSequence, pending, timer, disconnects>>

(* The awaited promise is rejected; a replay falls back to a snapshot,     *)
(* once.                                                                   *)
Reject ==
    /\ inbound' = Orphan(inbound, Response)
    /\ IF phase = "snapshot"
       THEN Idle /\ gaveUp' = TRUE
       ELSE Ask("snapshot", "snapshot", 0) /\ UNCHANGED gaveUp
    /\ UNCHANGED <<server, connected, model, loaded, latestSequence, pending, timer, disconnects>>

(* REQUEST_TIMEOUT_MS after a request whose answer was lost.               *)
RequestTimesOut ==
    /\ request.at = "lost"
    /\ Reject
    /\ UNCHANGED failures

(* An error response, a timeout though the answer is on its way, or an     *)
(* event that cannot be decoded.                                           *)
RequestFails ==
    /\ phase # "idle"
    /\ request.at # "lost"
    /\ failures < MaxFailures
    /\ failures' = failures + 1
    /\ Reject

ServerStep == PublishEvent \/ Push \/ Register \/ ReadDatabase \/ Respond

ClientStep ==
    \/ ReceiveEvent \/ ReceiveWelcome \/ ReceiveIgnored \/ TimerFires
    \/ ReceiveSnapshot \/ ReceiveEmptyReplay \/ ReceiveReplay \/ FinishFold
    \/ RequestTimesOut

Next ==
    \/ CommitEvents \/ ServerStep
    \/ Disconnect \/ ServerRestart \/ Connect
    \/ ClientStep \/ RequestFails

(* The server's fibers, the browser's event loop and the reconnect timer   *)
(* keep running; nothing is assumed of commits, failures and disconnects.  *)
Spec ==
    Init /\ [][Next]_vars /\ WF_vars(ServerStep) /\ WF_vars(ClientStep) /\ WF_vars(Connect)
=============================================================================
