------------------------ MODULE ClientSyncProperties ------------------------
(***************************************************************************)
(* What must be true of a browser that follows the event log.              *)
(***************************************************************************)
EXTENDS ClientSync

Requests ==
    [kind : {"none", "snapshot", "replay"}, from : Nat, upTo : Nat,
     at : {"none", "outbox", "server", "read", "wire", "received", "lost"}]

Jobs == [channel : {"serverWelcome", "domainEvent", "ignored"}, sequence : Nat]
Messages == [channel : {"serverWelcome", "domainEvent", "ignored", "response"}, sequence : Nat]

(* The state has the declared shape, and syncSnapshot waits for a request  *)
(* exactly while it runs.                                                  *)
TypeOK ==
    /\ logLength \in 0..MaxLog
    /\ published \in 0..logLength
    /\ pushQueue \in Seq(Jobs)
    /\ greeted \in BOOLEAN /\ registered \in BOOLEAN
    /\ opened \in 0..logLength /\ missed \in 0..logLength
    /\ connected \in BOOLEAN
    /\ inbound \in Seq(Messages)
    /\ request \in Requests
    /\ model \in Seq(Nat)
    /\ loaded \in BOOLEAN
    /\ latestSequence \in Nat
    /\ phase \in Awaiting \cup {"idle", "folding"}
    /\ pending \in BOOLEAN /\ timer \in BOOLEAN /\ gaveUp \in BOOLEAN
    /\ disconnects \in 0..MaxDisconnects
    /\ failures \in 0..MaxFailures
    /\ phase = "idle" <=> request = NoRequest

R == INSTANCE Replica WITH source <- EventsUpTo(logLength), copy <- model

(* Through disconnects, restarts, timeouts and fallbacks the read model is *)
(* the fold of a prefix of the log, each event once and in order, and      *)
(* never goes back (flushSnapshotSync, flushReplaySync).                   *)
ImplementsReplica == R!ReplicaSpec

(* The server has told all there is to tell, and all of it has arrived.    *)
Silent == published = logLength /\ pushQueue = <<>> /\ inbound = <<>>

(* A client that is at rest lacks no event it was told of, unless its last *)
(* sync failed: no interleaving of pushes, flushes and answers makes it    *)
(* forget that it is behind (pending, the throttler, latestSequence).      *)
(* Connected, with nothing under way, it has what was committed before its *)
(* socket was opened, and all of the log unless the last event was pushed  *)
(* between the welcome and the registration (wsServer.ts, "Send welcome    *)
(* before adding to broadcast set").                                       *)
QuietClientIsInformed ==
    phase = "idle" /\ ~timer /\ ~gaveUp =>
        /\ Len(model) >= latestSequence
        /\ (connected /\ Silent =>
                Len(model) >= opened /\ (missed = logLength \/ Len(model) = logLength))

(* An event the client was told of is in its model eventually, unless a    *)
(* sync fails ("Keep prior state and wait for next domain event").         *)
KnownEventsArrive ==
    \A n \in 1..MaxLog : latestSequence >= n ~> Len(model) >= n \/ gaveUp
-----------------------------------------------------------------------------
(* What keeps these true, step by step.                                    *)

Sent(messages, message) == \E i \in DOMAIN messages : messages[i] = message

Committed(messages) == \A i \in DOMAIN messages : messages[i].sequence <= logLength

(* The model is a prefix of the log; events the client was or will be told *)
(* of are committed, and it was told of those in its model.                *)
ModelIsPrefix ==
    /\ model = EventsUpTo(Len(model))
    /\ Len(model) <= latestSequence
    /\ latestSequence <= logLength
    /\ Committed(pushQueue)
    /\ Committed(inbound)

(* The request awaited is the one the phase sent, for the model as it is   *)
(* now; what was read for it does not end before that model.               *)
RequestFitsPhase ==
    /\ phase \in {"snapshot", "replaySnapshot"} => request.kind = "snapshot"
    /\ phase \in {"replay", "folding"} => request.kind = "replay" /\ request.from = Len(model)
    /\ phase = "folding" <=> request.at = "received"
    /\ request.at \in {"read", "wire", "received"} =>
            Len(model) <= request.upTo /\ request.upTo <= logLength

(* Only the outstanding request has an answer on the wire, and only one.   *)
AnswerIsAwaited ==
    /\ \A i \in DOMAIN inbound : inbound[i] = Response => request.at = "wire"
    /\ \A i, j \in DOMAIN inbound : inbound[i] = Response /\ inbound[j] = Response => i = j

SyncInv == TypeOK /\ ModelIsPrefix /\ RequestFitsPhase /\ AnswerIsAwaited

(* When nothing will make the client sync again, what it is about to       *)
(* receive holds every event it was told of.                               *)
AnswerIsEnough ==
    phase # "idle" /\ ~timer /\ ~pending /\ request.at \in {"read", "wire", "received"}
        => request.upTo >= latestSequence

(* The part of QuietClientIsInformed about events the client was told of.  *)
ToldIsFolded == phase = "idle" /\ ~timer /\ ~gaveUp => Len(model) >= latestSequence

(* A socket that is not registered is greeted or will be; without one no   *)
(* request is being answered.                                              *)
SocketIsGreeted ==
    /\ connected => greeted \/ registered \/ Sent(pushQueue, Welcome)
    /\ ~connected => request.at \notin {"server", "read", "wire"}

WelcomeComes == Sent(pushQueue, Welcome) \/ Sent(inbound, Welcome)

(* The client was told of the first n events, or it will read the log, or  *)
(* it awaits an answer that holds them.                                    *)
WillRead(n) ==
    \/ latestSequence >= n
    \/ phase = "idle" /\ WelcomeComes
    \/ phase = "folding" /\ (pending \/ WelcomeComes)
    \/ phase # "idle" /\ (request.at \in {"read", "wire", "received"} => request.upTo >= n)

(* Event n is published later, or is pushed after the welcome, or is on    *)
(* the wire.                                                               *)
WillBeTold(n) ==
    \/ published < n
    \/ \E i \in DOMAIN pushQueue :
            /\ pushQueue[i] = DomainEvent(n)
            /\ \A j \in DOMAIN pushQueue : j > i => pushQueue[j] # Welcome
    \/ Sent(inbound, DomainEvent(n))

(* Nothing committed escapes a connected client but what was pushed        *)
(* between its welcome and its registration.                               *)
NewsIsOnItsWay ==
    connected /\ ~gaveUp =>
        /\ WillRead(opened)
        /\ missed = logLength \/ WillBeTold(logLength) \/ WillRead(logLength)
=============================================================================
