-------------------------- MODULE ClientSyncProofs --------------------------
(***************************************************************************)
(* The proofs about ClientSync, for every length of the log and any number *)
(* of disconnects, restarts and failures: the state's shape, that the read *)
(* model follows the log (ImplementsReplica), and that a client at rest    *)
(* is informed, provided a replay reaches the end of the log.              *)
(***************************************************************************)
EXTENDS ClientSyncProperties, SequenceTheorems, TLAPS

(* Orphan keeps the length of a sequence and the kind of its elements.     *)
LEMMA OrphanType ==
    ASSUME NEW S, NEW messages \in Seq(S), NEW orphan, Ignored \in S
    PROVE  /\ Orphan(messages, orphan) \in Seq(S)
           /\ DOMAIN Orphan(messages, orphan) = DOMAIN messages
BY DEF Orphan

LEMMA MessageTypes ==
    /\ Welcome \in Jobs /\ Ignored \in Jobs
    /\ \A n \in Nat : DomainEvent(n) \in Jobs
    /\ Jobs \subseteq Messages
    /\ Response \in Messages /\ Response \notin Jobs
    /\ Welcome.sequence = 0 /\ Ignored.sequence = 0 /\ Response.sequence = 0
    /\ \A n : DomainEvent(n).sequence = n
BY DEF Welcome, Ignored, DomainEvent, Response, Jobs, Messages

LEMMA RequestTypes ==
    /\ NoRequest \in Requests
    /\ TypeOK => \A kind \in {"snapshot", "replay"}, from \in Nat :
            NewRequest(kind, from) \in Requests /\ NewRequest(kind, from) # NoRequest
BY DEF NoRequest, NewRequest, Requests, TypeOK

(* The first element of a sequence is one of its elements, the rest of the *)
(* sequence are the others.                                                *)
LEMMA HeadAndTail ==
    ASSUME NEW S, NEW s \in Seq(S), s # <<>>
    PROVE  /\ 1 \in DOMAIN s /\ Head(s) = s[1] /\ Head(s) \in S
           /\ Tail(s) \in Seq(S)
           /\ \A i \in DOMAIN Tail(s) : i + 1 \in DOMAIN s /\ Tail(s)[i] = s[i + 1]
BY HeadTailProperties

LEMMA AppendElements ==
    ASSUME NEW S, NEW s \in Seq(S), NEW e \in S
    PROVE  /\ Append(s, e) \in Seq(S)
           /\ \A i \in DOMAIN Append(s, e) :
                IF i = Len(s) + 1 THEN Append(s, e)[i] = e
                ELSE i \in DOMAIN s /\ Append(s, e)[i] = s[i]
BY AppendProperties

(* The fold of the first n events.                                         *)
LEMMA EventsUpToProperties ==
    ASSUME NEW n \in Nat
    PROVE  EventsUpTo(n) \in Seq(Nat) /\ Len(EventsUpTo(n)) = n
BY DEF EventsUpTo

LEMMA NoEvents == EventsUpTo(0) = <<>>
BY EventsUpToProperties, EmptySeq

(* Sequence numbers are numbers.                                           *)
LEMMA SequenceNumbers ==
    TypeOK => /\ \A i \in DOMAIN pushQueue : pushQueue[i].sequence \in Nat
              /\ \A i \in DOMAIN inbound : inbound[i].sequence \in Nat
<1> SUFFICES ASSUME TypeOK
             PROVE  /\ \A i \in DOMAIN pushQueue : pushQueue[i].sequence \in Nat
                    /\ \A i \in DOMAIN inbound : inbound[i].sequence \in Nat
  OBVIOUS
<1>1. \A i \in DOMAIN pushQueue : pushQueue[i] \in Jobs
  BY DEF TypeOK
<1>2. \A i \in DOMAIN inbound : inbound[i] \in Messages
  BY DEF TypeOK
<1>3. QED
  BY <1>1, <1>2 DEF Jobs, Messages
-----------------------------------------------------------------------------
(* What receiving a message leaves on the wire.                            *)
LEMMA ReceiveMessage ==
    ASSUME SyncInv, inbound # <<>>, inbound' = Tail(inbound), logLength' = logLength
    PROVE  /\ Head(inbound) \in Messages
           /\ Head(inbound).sequence <= logLength
           /\ inbound' \in Seq(Messages)
           /\ Committed(inbound)'
           /\ request' = request /\ Head(inbound) # Response => AnswerIsAwaited'
           /\ Head(inbound) = Response =>
                request.at = "wire" /\ \A i \in DOMAIN inbound' : inbound'[i] # Response
<1>1. /\ 1 \in DOMAIN inbound /\ Head(inbound) = inbound[1] /\ Head(inbound) \in Messages
      /\ Tail(inbound) \in Seq(Messages)
      /\ \A i \in DOMAIN Tail(inbound) : i + 1 \in DOMAIN inbound /\ Tail(inbound)[i] = inbound[i + 1]
  <2>1. inbound \in Seq(Messages)
    BY DEF SyncInv, TypeOK
  <2>2. QED
    BY <2>1, HeadAndTail
<1>2. \A i \in DOMAIN Tail(inbound) : i \in Nat \ {0}
  BY <1>1
<1>3. Head(inbound).sequence <= logLength /\ Committed(inbound)'
  BY <1>1 DEF SyncInv, ModelIsPrefix, Committed
<1>4. request' = request /\ Head(inbound) # Response => AnswerIsAwaited'
  BY <1>1, <1>2 DEF SyncInv, AnswerIsAwaited, Response
<1>5. Head(inbound) = Response =>
        request.at = "wire" /\ \A i \in DOMAIN inbound' : inbound'[i] # Response
  BY <1>1, <1>2 DEF SyncInv, AnswerIsAwaited
<1>6. QED
  BY <1>1, <1>3, <1>4, <1>5

(* What a rejection leaves on the wire.                                    *)
LEMMA RejectedAnswer ==
    ASSUME SyncInv, inbound' = Orphan(inbound, Response), logLength' = logLength
    PROVE  /\ inbound' \in Seq(Messages)
           /\ Committed(inbound)'
           /\ AnswerIsAwaited'
<1>1. inbound \in Seq(Messages) /\ logLength \in Nat
  BY DEF SyncInv, TypeOK
<1>2. \A i \in DOMAIN inbound' : i \in DOMAIN inbound /\ inbound'[i] # Response
        /\ (inbound'[i] = inbound[i] \/ inbound'[i].sequence = 0)
  BY DEF Orphan, Ignored, Response
<1>3. QED
  BY <1>1, <1>2, OrphanType, MessageTypes, SyncAssumption
  DEF Committed, SyncInv, ModelIsPrefix, AnswerIsAwaited
(* syncSnapshot keeps phase and request together and never leaves a        *)
(* request behind: it sends one only when none is outstanding.             *)
LEMMA SyncSnapshotFits ==
    ASSUME SyncInv, NEW mode \in {"snapshot", "replay"}, SyncSnapshot(mode),
           model' = model, logLength' = logLength
    PROVE  /\ request' \in Requests
           /\ phase' \in Awaiting \cup {"idle", "folding"}
           /\ phase' = "idle" <=> request' = NoRequest
           /\ pending' \in BOOLEAN /\ gaveUp' \in BOOLEAN
           /\ RequestFitsPhase'
           /\ phase # "idle" => request' = request
           /\ phase = "idle" => \A i \in DOMAIN inbound : inbound[i] # Response
<1>1. CASE phase # "idle"
  BY <1>1 DEF SyncSnapshot, SyncInv, TypeOK, RequestFitsPhase
<1>2. CASE phase = "idle"
  <2>1. Len(model) \in Nat /\ 0 \in Nat
    BY DEF SyncInv, TypeOK
  <2>2. \A i \in DOMAIN inbound : inbound[i] # Response
    BY <1>2 DEF SyncInv, TypeOK, AnswerIsAwaited, NoRequest
  <2>3. CASE mode = "replay" /\ loaded
    <3>1. phase' = "replay" /\ request' = NewRequest("replay", Len(model))
          /\ pending' = FALSE /\ gaveUp' = FALSE
      BY <1>2, <2>3 DEF SyncSnapshot, Ask
    <3>2. RequestFitsPhase'
      BY <3>1 DEF RequestFitsPhase, NewRequest, SyncInv, TypeOK
    <3>3. QED
      BY <1>2, <2>1, <2>2, <3>1, <3>2, RequestTypes DEF SyncInv, Awaiting
  <2>4. CASE ~(mode = "replay" /\ loaded)
    <3>1. phase' \in {"snapshot", "replaySnapshot"} /\ request' = NewRequest("snapshot", 0)
          /\ pending' = FALSE /\ gaveUp' = FALSE
      BY <1>2, <2>4 DEF SyncSnapshot, Ask
    <3>2. RequestFitsPhase'
      BY <3>1 DEF RequestFitsPhase, NewRequest, SyncInv, TypeOK
    <3>3. QED
      BY <1>2, <2>1, <2>2, <3>1, <3>2, RequestTypes DEF SyncInv, Awaiting
  <2>5. QED
    BY <2>3, <2>4
<1>3. QED
  BY <1>1, <1>2

(* A sync that goes on with another request, or ends.                      *)
LEMMA NextRequestFits ==
    ASSUME SyncInv, Len(model') \in Nat,
           \/ Idle
           \/ Ask("snapshot", "snapshot", 0)
           \/ Ask("replaySnapshot", "snapshot", 0)
           \/ Ask("replay", "replay", Len(model'))
    PROVE  /\ request' \in Requests
           /\ phase' \in Awaiting \cup {"idle", "folding"}
           /\ phase' = "idle" <=> request' = NoRequest
           /\ RequestFitsPhase'
<1>1. CASE Idle
  BY <1>1, RequestTypes DEF Idle, RequestFitsPhase, NoRequest
<1>2. CASE Ask("snapshot", "snapshot", 0) \/ Ask("replaySnapshot", "snapshot", 0)
  <2>1. phase' \in {"snapshot", "replaySnapshot"} /\ request' = NewRequest("snapshot", 0)
    BY <1>2 DEF Ask
  <2>2. RequestFitsPhase'
    BY <2>1 DEF RequestFitsPhase, NewRequest, SyncInv, TypeOK
  <2>3. QED
    BY <2>1, <2>2, RequestTypes DEF SyncInv, Awaiting
<1>3. CASE Ask("replay", "replay", Len(model'))
  <2>1. phase' = "replay" /\ request' = NewRequest("replay", Len(model'))
    BY <1>3 DEF Ask
  <2>2. RequestFitsPhase'
    BY <2>1 DEF RequestFitsPhase, NewRequest, SyncInv, TypeOK
  <2>3. QED
    BY <2>1, <2>2, RequestTypes DEF SyncInv, Awaiting
<1>4. QED
  BY <1>1, <1>2, <1>3
-----------------------------------------------------------------------------
LEMMA InitSyncInv == Init => SyncInv
<1> SUFFICES ASSUME Init PROVE SyncInv
  OBVIOUS
<1>1. TypeOK
  <2>1. pushQueue \in Seq(Jobs) /\ inbound \in Seq(Messages) /\ model \in Seq(Nat)
    BY DEF Init
  <2>2. request \in Requests /\ (phase = "idle" <=> request = NoRequest)
    BY RequestTypes DEF Init
  <2>3. logLength \in 0..MaxLog /\ published \in 0..logLength
        /\ disconnects \in 0..MaxDisconnects /\ failures \in 0..MaxFailures
    BY SyncAssumption DEF Init
  <2>4. QED
    BY <2>1, <2>2, <2>3 DEF Init, TypeOK
<1>2. ModelIsPrefix
  <2>1. Len(model) = 0 /\ latestSequence = 0 /\ logLength = 0
    BY DEF Init
  <2>2. model = EventsUpTo(0) /\ Committed(pushQueue) /\ Committed(inbound)
    BY NoEvents DEF Init, Committed
  <2>3. QED
    BY <2>1, <2>2 DEF ModelIsPrefix
<1>3. RequestFitsPhase /\ AnswerIsAwaited
  BY DEF Init, RequestFitsPhase, AnswerIsAwaited, NoRequest
<1>4. QED
  BY <1>1, <1>2, <1>3 DEF SyncInv

(* Every step keeps the invariant.                                         *)
LEMMA NextSyncInv == SyncInv /\ [Next]_vars => SyncInv'
<1> SUFFICES ASSUME SyncInv, [Next]_vars PROVE SyncInv'
  OBVIOUS
<1> USE DEF server, history, router, bounds
<1>1. CASE CommitEvents
  <2>1. TypeOK'
    BY <1>1, SyncAssumption DEF SyncInv, TypeOK, CommitEvents, EF!Extend
  <2>2. ModelIsPrefix'
    <3>1. /\ logLength \in Nat /\ latestSequence \in Nat
          /\ logLength' \in Nat /\ logLength' > logLength
          /\ pushQueue' = pushQueue /\ inbound' = inbound
      BY <1>1, SyncAssumption DEF SyncInv, TypeOK, CommitEvents, EF!Extend
    <3>2. Committed(pushQueue)' /\ Committed(inbound)'
      BY <3>1, SequenceNumbers DEF SyncInv, ModelIsPrefix, Committed
    <3>3. QED
      BY <1>1, <3>1, <3>2 DEF SyncInv, ModelIsPrefix, CommitEvents, EF!Extend
  <2>3. RequestFitsPhase'
    BY <1>1, SyncAssumption DEF SyncInv, TypeOK, Requests, RequestFitsPhase, CommitEvents, EF!Extend
  <2>4. AnswerIsAwaited'
    BY <1>1 DEF SyncInv, AnswerIsAwaited, CommitEvents, EF!Extend
  <2>5. QED
    BY <2>1, <2>2, <2>3, <2>4 DEF SyncInv
<1>2. CASE PublishEvent
  <2>1. published + 1 \in 1..logLength /\ DomainEvent(published + 1) \in Jobs
        /\ DomainEvent(published + 1).sequence = published + 1
    BY <1>2, MessageTypes, SyncAssumption DEF SyncInv, TypeOK, PublishEvent, EF!Announce
  <2>2. pushQueue' \in Seq(Jobs) /\ Committed(pushQueue)'
    BY <1>2, <2>1, AppendElements
    DEF SyncInv, TypeOK, PublishEvent, EF!Announce, ModelIsPrefix, Committed
  <2>3. TypeOK'
    BY <1>2, <2>1, <2>2 DEF SyncInv, TypeOK, PublishEvent, EF!Announce
  <2>4. ModelIsPrefix'
    BY <1>2, <2>2 DEF SyncInv, ModelIsPrefix, PublishEvent, EF!Announce, Committed
  <2>5. RequestFitsPhase' /\ AnswerIsAwaited'
    BY <1>2 DEF SyncInv, RequestFitsPhase, AnswerIsAwaited, PublishEvent, EF!Announce
  <2>6. QED
    BY <2>3, <2>4, <2>5 DEF SyncInv
<1>3. CASE Push
  <2> DEFINE job == Head(pushQueue)
  <2>1. /\ job \in Jobs /\ job.sequence <= logLength
        /\ pushQueue' \in Seq(Jobs) /\ Committed(pushQueue)'
    <3>1. /\ 1 \in DOMAIN pushQueue /\ job = pushQueue[1] /\ job \in Jobs
          /\ Tail(pushQueue) \in Seq(Jobs)
          /\ \A i \in DOMAIN Tail(pushQueue) :
                i + 1 \in DOMAIN pushQueue /\ Tail(pushQueue)[i] = pushQueue[i + 1]
      <4>1. pushQueue \in Seq(Jobs) /\ pushQueue # <<>>
        BY <1>3 DEF SyncInv, TypeOK, Push
      <4>2. QED
        BY <4>1, HeadAndTail
    <3>2. QED
      BY <1>3, <3>1 DEF SyncInv, ModelIsPrefix, Push, Committed
  <2>2. /\ inbound' \in Seq(Messages) /\ Committed(inbound)'
        /\ AnswerIsAwaited'
    <3>1. CASE inbound' = Append(inbound, job)
      <4>1. job \in Messages /\ job # Response
        BY <2>1, MessageTypes
      <4>2. /\ inbound' \in Seq(Messages)
            /\ \A i \in DOMAIN inbound' : IF i = Len(inbound) + 1 THEN inbound'[i] = job
                    ELSE i \in DOMAIN inbound /\ inbound'[i] = inbound[i]
        BY <3>1, <4>1, AppendElements DEF SyncInv, TypeOK
      <4>3. logLength' = logLength /\ request' = request
        BY <1>3 DEF Push
      <4>4. Committed(inbound)'
        BY <2>1, <4>2, <4>3 DEF SyncInv, ModelIsPrefix, Committed
      <4>5. AnswerIsAwaited'
        BY <4>1, <4>2, <4>3 DEF SyncInv, AnswerIsAwaited
      <4>6. QED
        BY <4>2, <4>4, <4>5
    <3>2. CASE inbound' = inbound
      BY <1>3, <3>2 DEF SyncInv, TypeOK, ModelIsPrefix, AnswerIsAwaited, Push, Committed
    <3>3. QED
      BY <1>3, <3>1, <3>2 DEF Push
  <2>3. TypeOK'
    <3>1. missed' \in 0..logLength
      BY <1>3, <2>1, SyncAssumption DEF SyncInv, TypeOK, Push, Jobs, Larger
    <3>2. QED
      BY <1>3, <2>1, <2>2, <3>1 DEF SyncInv, TypeOK, Push
  <2>4. ModelIsPrefix'
    BY <1>3, <2>1, <2>2 DEF SyncInv, ModelIsPrefix, Push, Committed
  <2>5. RequestFitsPhase'
    BY <1>3 DEF SyncInv, RequestFitsPhase, Push
  <2>6. QED
    BY <2>2, <2>3, <2>4, <2>5 DEF SyncInv
<1>4. CASE Register
  <2>1. TypeOK'
    BY <1>4 DEF SyncInv, TypeOK, Register
  <2>2. ModelIsPrefix' /\ RequestFitsPhase' /\ AnswerIsAwaited'
    BY <1>4 DEF SyncInv, ModelIsPrefix, RequestFitsPhase, AnswerIsAwaited, Register, Committed
  <2>3. QED
    BY <2>1, <2>2 DEF SyncInv
<1>5. CASE ReadDatabase
  <2>1. /\ logLength \in Nat /\ Len(model) \in Nat /\ Len(model) <= logLength
        /\ request.from \in Nat /\ request.kind \in {"none", "snapshot", "replay"}
    BY SyncAssumption DEF SyncInv, TypeOK, ModelIsPrefix, Requests
  <2>2. request.at = "server" /\ phase # "idle" /\ phase # "folding"
        /\ (request.kind = "replay" => request.from = Len(model))
    BY <1>5 DEF SyncInv, TypeOK, NoRequest, RequestFitsPhase, ReadDatabase, Awaiting
  <2>3. /\ request' = [request EXCEPT !.at = "read", !.upTo = request'.upTo]
        /\ request'.upTo \in Nat
        /\ Len(model) <= request'.upTo /\ request'.upTo <= logLength
    <3>1. CASE request.kind = "replay" /\ request.from + ReplayLimit < logLength
      <4>1. request' = [request EXCEPT !.at = "read", !.upTo = request.from + ReplayLimit]
        BY <1>5, <3>1 DEF ReadDatabase
      <4>2. /\ request.from + ReplayLimit \in Nat
            /\ Len(model) <= request.from + ReplayLimit
            /\ request.from + ReplayLimit <= logLength
        BY <2>1, <2>2, <3>1, SyncAssumption
      <4>3. QED
        BY <4>1, <4>2 DEF SyncInv, TypeOK, Requests
    <3>2. CASE ~(request.kind = "replay" /\ request.from + ReplayLimit < logLength)
      <4>1. request' = [request EXCEPT !.at = "read", !.upTo = logLength]
        BY <1>5, <3>2 DEF ReadDatabase
      <4>2. QED
        BY <2>1, <4>1 DEF SyncInv, TypeOK, Requests
    <3>3. QED
      BY <3>1, <3>2
  <2>4. TypeOK'
    <3>1. request' \in Requests /\ request' # NoRequest
      <4>1. request \in Requests
        BY DEF SyncInv, TypeOK
      <4>2. request'.at = "read"
        BY <2>3, <4>1 DEF Requests
      <4>3. QED
        <5>1. request' \in Requests
          <6> DEFINE n == request'.upTo
          <6>1. n \in Nat /\ request' = [request EXCEPT !.at = "read", !.upTo = n]
            BY <2>3
          <6> HIDE DEF n
          <6>2. QED
            BY <4>1, <6>1 DEF Requests
        <5>2. QED
          BY <4>2, <5>1 DEF NoRequest
    <3>2. QED
      BY <1>5, <2>2, <3>1 DEF SyncInv, TypeOK, ReadDatabase
  <2>5. ModelIsPrefix'
    BY <1>5 DEF SyncInv, ModelIsPrefix, ReadDatabase, Committed
  <2>6. RequestFitsPhase'
    BY <1>5, <2>2, <2>3 DEF SyncInv, TypeOK, Requests, RequestFitsPhase, ReadDatabase
  <2>7. AnswerIsAwaited'
    BY <1>5, <2>2 DEF SyncInv, AnswerIsAwaited, ReadDatabase
  <2>8. QED
    BY <2>4, <2>5, <2>6, <2>7 DEF SyncInv
<1>6. CASE Respond
  <2>1. request.at = "read" /\ phase # "idle" /\ phase # "folding"
    BY <1>6 DEF SyncInv, TypeOK, NoRequest, RequestFitsPhase, Respond
  <2>2. request' \in Requests /\ request' # NoRequest /\ request' = [request EXCEPT !.at = "wire"]
    BY <1>6, <2>1 DEF SyncInv, TypeOK, Requests, NoRequest, Respond
  <2>3. /\ inbound' \in Seq(Messages)
        /\ \A i \in DOMAIN inbound' : IF i = Len(inbound) + 1 THEN inbound'[i] = Response
                ELSE i \in DOMAIN inbound /\ inbound'[i] = inbound[i]
    BY <1>6, MessageTypes, AppendElements DEF SyncInv, TypeOK, Respond
  <2>4. TypeOK'
    BY <1>6, <2>1, <2>2, <2>3 DEF SyncInv, TypeOK, Respond
  <2>5. ModelIsPrefix'
    <3>1. Committed(inbound)'
      BY <1>6, <2>3, MessageTypes, SyncAssumption
      DEF SyncInv, TypeOK, ModelIsPrefix, Respond, Committed
    <3>2. QED
      BY <1>6, <3>1 DEF SyncInv, ModelIsPrefix, Respond, Committed
  <2>6. RequestFitsPhase'
    BY <1>6, <2>1, <2>2 DEF SyncInv, TypeOK, Requests, RequestFitsPhase, Respond
  <2>7. AnswerIsAwaited'
    <3>1. request'.at = "wire"
      BY <2>2 DEF SyncInv, TypeOK, Requests
    <3>2. \A i \in DOMAIN inbound : inbound[i] # Response
      BY <2>1 DEF SyncInv, AnswerIsAwaited
    <3>3. QED
      BY <2>3, <3>1, <3>2 DEF AnswerIsAwaited
  <2>8. QED
    BY <2>4, <2>5, <2>6, <2>7 DEF SyncInv
<1>7. CASE Disconnect \/ ServerRestart
  <2>1. ConnectionLost /\ logLength' = logLength
    BY <1>7 DEF Disconnect, ServerRestart, EF!StartOver
  <2>2. pushQueue' \in Seq(Jobs) /\ Committed(pushQueue)' /\ published' \in 0..logLength
    <3>1. CASE Disconnect
      <4>1. pushQueue \in Seq(Jobs) /\ logLength \in Nat
        BY DEF SyncInv, TypeOK
      <4>2. \A i \in DOMAIN Orphan(pushQueue, Welcome) : i \in DOMAIN pushQueue
              /\ (\/ Orphan(pushQueue, Welcome)[i] = pushQueue[i]
                  \/ Orphan(pushQueue, Welcome)[i].sequence = 0)
        BY DEF Orphan, Ignored
      <4>3. Committed(pushQueue)'
        BY <2>1, <3>1, <4>1, <4>2 DEF SyncInv, ModelIsPrefix, Committed, Disconnect, ConnectionLost
      <4>4. QED
        BY <3>1, <4>1, <4>3, OrphanType, MessageTypes DEF SyncInv, TypeOK, Disconnect
    <3>2. CASE ServerRestart
      BY <3>2, SyncAssumption DEF SyncInv, TypeOK, ServerRestart, EF!StartOver, Committed
    <3>3. QED
      BY <1>7, <3>1, <3>2
  <2>3. /\ request' \in Requests /\ (phase = "idle" <=> request' = NoRequest)
        /\ request'.kind = request.kind /\ request'.from = request.from
        /\ request'.upTo = request.upTo
        /\ request'.at \in {request.at, "lost"}
        /\ request'.at = "received" <=> request.at = "received"
    <3>1. CASE request.at \in {"server", "read", "wire"}
      <4>1. request' = [request EXCEPT !.at = "lost"] /\ phase # "idle"
        BY <2>1, <3>1 DEF SyncInv, TypeOK, ConnectionLost, NoRequest
      <4>2. QED
        BY <3>1, <4>1 DEF SyncInv, TypeOK, Requests, NoRequest
    <3>2. CASE request.at \notin {"server", "read", "wire"}
      BY <2>1, <3>2 DEF SyncInv, TypeOK, ConnectionLost
    <3>3. QED
      BY <3>1, <3>2
  <2>4. TypeOK'
    <3>1. disconnects' \in 0..MaxDisconnects /\ inbound' \in Seq(Messages)
      BY <2>1, SyncAssumption DEF SyncInv, TypeOK, ConnectionLost
    <3>2. opened' \in 0..logLength /\ missed' \in 0..logLength
      BY <2>1, SyncAssumption DEF SyncInv, TypeOK, ConnectionLost
    <3>3. QED
      BY <2>1, <2>2, <2>3, <3>1, <3>2 DEF SyncInv, TypeOK, ConnectionLost
  <2>5. ModelIsPrefix'
    BY <2>1, <2>2 DEF SyncInv, ModelIsPrefix, ConnectionLost, Committed
  <2>6. RequestFitsPhase'
    BY <2>1, <2>3 DEF SyncInv, RequestFitsPhase, ConnectionLost
  <2>7. AnswerIsAwaited'
    BY <2>1 DEF AnswerIsAwaited, ConnectionLost
  <2>8. QED
    BY <2>4, <2>5, <2>6, <2>7 DEF SyncInv
<1>8. CASE Connect
  <2>1. pushQueue' \in Seq(Jobs) /\ Committed(pushQueue)'
    BY <1>8, MessageTypes, AppendElements, SyncAssumption
    DEF SyncInv, TypeOK, ModelIsPrefix, Connect, Committed
  <2>2. /\ request' \in Requests /\ (phase = "idle" <=> request' = NoRequest)
        /\ request'.kind = request.kind /\ request'.from = request.from
        /\ request'.upTo = request.upTo
        /\ request'.at = request.at \/ (request.at = "outbox" /\ request'.at = "server")
    <3>1. CASE request.at = "outbox"
      <4>1. request' = [request EXCEPT !.at = "server"] /\ phase # "idle"
        BY <1>8, <3>1 DEF SyncInv, TypeOK, Connect, NoRequest
      <4>2. QED
        BY <3>1, <4>1 DEF SyncInv, TypeOK, Requests, NoRequest
    <3>2. CASE request.at # "outbox"
      BY <1>8, <3>2 DEF SyncInv, TypeOK, Connect
    <3>3. QED
      BY <3>1, <3>2
  <2>3. TypeOK'
    <3>1. /\ UNCHANGED <<logLength, published, greeted, registered, missed, inbound, router,
                         bounds>>
          /\ connected' = TRUE /\ opened' \in 0..logLength
      BY <1>8, SyncAssumption DEF SyncInv, TypeOK, Connect
    <3>2. QED
      BY <2>1, <2>2, <3>1 DEF SyncInv, TypeOK
  <2>4. ModelIsPrefix'
    BY <1>8, <2>1 DEF SyncInv, ModelIsPrefix, Connect, Committed
  <2>5. RequestFitsPhase' /\ AnswerIsAwaited'
    BY <1>8, <2>2 DEF SyncInv, RequestFitsPhase, AnswerIsAwaited, Connect
  <2>6. QED
    BY <2>3, <2>4, <2>5 DEF SyncInv
<1>9. CASE ReceiveEvent
  <2> DEFINE event == Head(inbound)
  <2>1. /\ event \in Messages /\ event.sequence <= logLength /\ event # Response
        /\ inbound' \in Seq(Messages) /\ Committed(inbound)' /\ AnswerIsAwaited'
    BY <1>9, ReceiveMessage DEF ReceiveEvent, Response
  <2>2. event.sequence \in Nat
    BY <2>1 DEF Messages
  <2>3. latestSequence' \in Nat /\ latestSequence' <= logLength /\ latestSequence <= latestSequence'
    BY <1>9, <2>1, <2>2 DEF SyncInv, TypeOK, ModelIsPrefix, ReceiveEvent, Larger
  <2>4. TypeOK'
    BY <1>9, <2>1, <2>3 DEF SyncInv, TypeOK, ReceiveEvent
  <2>5. ModelIsPrefix'
    BY <1>9, <2>1, <2>3 DEF SyncInv, TypeOK, ModelIsPrefix, ReceiveEvent, Committed
  <2>6. RequestFitsPhase'
    BY <1>9 DEF SyncInv, RequestFitsPhase, ReceiveEvent
  <2>7. QED
    BY <2>1, <2>4, <2>5, <2>6 DEF SyncInv
<1>10. CASE ReceiveWelcome
  <2>1. inbound' \in Seq(Messages) /\ Committed(inbound)'
        /\ (request' = request => AnswerIsAwaited')
    BY <1>10, ReceiveMessage DEF ReceiveWelcome, Welcome, Response
  <2>2. /\ request' \in Requests
        /\ phase' \in Awaiting \cup {"idle", "folding"}
        /\ phase' = "idle" <=> request' = NoRequest
        /\ pending' \in BOOLEAN /\ gaveUp' \in BOOLEAN
        /\ RequestFitsPhase'
        /\ phase # "idle" => request' = request
        /\ phase = "idle" => \A i \in DOMAIN inbound : inbound[i] # Response
    BY <1>10, SyncSnapshotFits DEF ReceiveWelcome
  <2>3. AnswerIsAwaited'
    <3>1. CASE phase # "idle"
      BY <2>1, <2>2, <3>1
    <3>2. CASE phase = "idle"
      <4>1. inbound \in Seq(Messages) /\ inbound # <<>> /\ inbound' = Tail(inbound)
        BY <1>10 DEF SyncInv, TypeOK, ReceiveWelcome
      <4>2. QED
        BY <2>2, <3>2, <4>1, HeadAndTail DEF AnswerIsAwaited
    <3>3. QED
      BY <3>1, <3>2
  <2>4. TypeOK'
    BY <1>10, <2>1, <2>2 DEF SyncInv, TypeOK, ReceiveWelcome
  <2>5. ModelIsPrefix'
    BY <1>10, <2>1 DEF SyncInv, ModelIsPrefix, ReceiveWelcome, Committed
  <2>6. QED
    BY <2>2, <2>3, <2>4, <2>5 DEF SyncInv
<1>11. CASE ReceiveIgnored
  <2>1. inbound' \in Seq(Messages) /\ Committed(inbound)' /\ AnswerIsAwaited'
    BY <1>11, ReceiveMessage DEF ReceiveIgnored, Ignored, Response
  <2>2. TypeOK'
    BY <1>11, <2>1 DEF SyncInv, TypeOK, ReceiveIgnored
  <2>3. ModelIsPrefix' /\ RequestFitsPhase'
    BY <1>11, <2>1 DEF SyncInv, ModelIsPrefix, RequestFitsPhase, ReceiveIgnored, Committed
  <2>4. QED
    BY <2>1, <2>2, <2>3 DEF SyncInv
<1>12. CASE TimerFires
  <2>1. /\ request' \in Requests
        /\ phase' \in Awaiting \cup {"idle", "folding"}
        /\ phase' = "idle" <=> request' = NoRequest
        /\ pending' \in BOOLEAN /\ gaveUp' \in BOOLEAN
        /\ RequestFitsPhase'
        /\ phase # "idle" => request' = request
        /\ phase = "idle" => \A i \in DOMAIN inbound : inbound[i] # Response
    BY <1>12, SyncSnapshotFits DEF TimerFires
  <2>2. AnswerIsAwaited'
    BY <1>12, <2>1 DEF SyncInv, AnswerIsAwaited, TimerFires
  <2>3. TypeOK'
    BY <1>12, <2>1 DEF SyncInv, TypeOK, TimerFires
  <2>4. ModelIsPrefix'
    BY <1>12 DEF SyncInv, ModelIsPrefix, TimerFires, Committed
  <2>5. QED
    BY <2>1, <2>2, <2>3, <2>4 DEF SyncInv
<1>13. CASE ReceiveSnapshot
  <2>1. /\ inbound' \in Seq(Messages) /\ Committed(inbound)' /\ AnswerIsAwaited'
        /\ request.at = "wire"
    BY <1>13, ReceiveMessage DEF ReceiveSnapshot, ResponseArrives, AnswerIsAwaited
  <2>2. request.upTo \in Nat /\ Len(model) <= request.upTo /\ request.upTo <= logLength
    BY <2>1 DEF SyncInv, TypeOK, Requests, RequestFitsPhase
  <2>3. model' \in Seq(Nat) /\ Len(model') = request.upTo /\ model' = EventsUpTo(Len(model'))
    BY <1>13, <2>2, EventsUpToProperties DEF ReceiveSnapshot
  <2>4. /\ request' \in Requests
        /\ phase' \in Awaiting \cup {"idle", "folding"}
        /\ phase' = "idle" <=> request' = NoRequest
        /\ RequestFitsPhase'
    BY <1>13, <2>2, <2>3, NextRequestFits DEF ReceiveSnapshot
  <2>5. latestSequence' \in Nat /\ latestSequence' <= logLength /\ Len(model') <= latestSequence'
    BY <1>13, <2>2, <2>3 DEF SyncInv, TypeOK, ModelIsPrefix, ReceiveSnapshot, Larger
  <2>6. TypeOK'
    BY <1>13, <2>1, <2>3, <2>4, <2>5 DEF SyncInv, TypeOK, ReceiveSnapshot
  <2>7. ModelIsPrefix'
    BY <1>13, <2>1, <2>3, <2>5 DEF SyncInv, ModelIsPrefix, ReceiveSnapshot, Committed
  <2>8. QED
    BY <2>1, <2>4, <2>6, <2>7 DEF SyncInv
<1>14. CASE ReceiveEmptyReplay
  <2>1. inbound' \in Seq(Messages) /\ Committed(inbound)' /\ AnswerIsAwaited'
    BY <1>14, ReceiveMessage DEF ReceiveEmptyReplay, ResponseArrives, AnswerIsAwaited
  <2>2. /\ request' \in Requests
        /\ phase' \in Awaiting \cup {"idle", "folding"}
        /\ phase' = "idle" <=> request' = NoRequest
        /\ RequestFitsPhase'
    BY <1>14, NextRequestFits DEF ReceiveEmptyReplay, SyncInv, TypeOK
  <2>3. TypeOK'
    BY <1>14, <2>1, <2>2 DEF SyncInv, TypeOK, ReceiveEmptyReplay
  <2>4. ModelIsPrefix'
    BY <1>14, <2>1 DEF SyncInv, ModelIsPrefix, ReceiveEmptyReplay, Committed
  <2>5. QED
    BY <2>1, <2>2, <2>3, <2>4 DEF SyncInv
<1>15. CASE ReceiveReplay
  <2>1. /\ inbound' \in Seq(Messages) /\ Committed(inbound)' /\ AnswerIsAwaited'
        /\ request.at = "wire"
    BY <1>15, ReceiveMessage DEF ReceiveReplay, ResponseArrives, AnswerIsAwaited
  <2>2. request' \in Requests /\ request' # NoRequest /\ request' = [request EXCEPT !.at = "received"]
    BY <1>15 DEF SyncInv, TypeOK, Requests, NoRequest, ReceiveReplay
  <2>3. TypeOK'
    BY <1>15, <2>1, <2>2 DEF SyncInv, TypeOK, ReceiveReplay
  <2>4. ModelIsPrefix'
    BY <1>15, <2>1 DEF SyncInv, ModelIsPrefix, ReceiveReplay, Committed
  <2>5. RequestFitsPhase'
    BY <1>15, <2>1, <2>2 DEF SyncInv, TypeOK, Requests, RequestFitsPhase, ReceiveReplay
  <2>6. QED
    BY <2>1, <2>3, <2>4, <2>5 DEF SyncInv
<1>16. CASE FinishFold
  <2>1. /\ request.at = "received" /\ request.from = Len(model) /\ request.from \in Nat
        /\ request.upTo \in Nat /\ Len(model) <= request.upTo /\ request.upTo <= logLength
    BY <1>16 DEF SyncInv, TypeOK, Requests, RequestFitsPhase, FinishFold
  <2>2. model' \in Seq(Nat) /\ Len(model') = request.upTo /\ model' = EventsUpTo(Len(model'))
    <3>1. model = [i \in 1..request.from |-> i]
      BY <2>1 DEF SyncInv, ModelIsPrefix, EventsUpTo
    <3>2. model' = [i \in 1..request.upTo |-> i]
      BY <1>16, <2>1, <3>1 DEF FinishFold
    <3>3. QED
      BY <2>1, <3>2, EventsUpToProperties DEF EventsUpTo
  <2>3. /\ request' \in Requests
        /\ phase' \in Awaiting \cup {"idle", "folding"}
        /\ phase' = "idle" <=> request' = NoRequest
        /\ RequestFitsPhase'
    BY <1>16, <2>1, <2>2, NextRequestFits DEF FinishFold
  <2>4. latestSequence' \in Nat /\ latestSequence' <= logLength /\ Len(model') <= latestSequence'
    BY <1>16, <2>1, <2>2 DEF SyncInv, TypeOK, ModelIsPrefix, FinishFold, Larger
  <2>5. TypeOK'
    BY <1>16, <2>2, <2>3, <2>4 DEF SyncInv, TypeOK, FinishFold
  <2>6. ModelIsPrefix'
    BY <1>16, <2>2, <2>4 DEF SyncInv, ModelIsPrefix, FinishFold, Committed
  <2>7. AnswerIsAwaited'
    BY <1>16, <2>1 DEF SyncInv, AnswerIsAwaited, FinishFold
  <2>8. QED
    BY <2>3, <2>5, <2>6, <2>7 DEF SyncInv
<1>17. CASE RequestTimesOut \/ RequestFails
  <2>1. Reject /\ failures' \in 0..MaxFailures
    BY <1>17, SyncAssumption DEF SyncInv, TypeOK, RequestTimesOut, RequestFails
  <2>2. inbound' \in Seq(Messages) /\ Committed(inbound)' /\ AnswerIsAwaited'
    BY <2>1, RejectedAnswer DEF Reject
  <2>3. /\ request' \in Requests
        /\ phase' \in Awaiting \cup {"idle", "folding"}
        /\ phase' = "idle" <=> request' = NoRequest
        /\ RequestFitsPhase'
    BY <2>1, NextRequestFits DEF Reject, SyncInv, TypeOK
  <2>4. TypeOK'
    BY <2>1, <2>2, <2>3 DEF SyncInv, TypeOK, Reject
  <2>5. ModelIsPrefix'
    BY <2>1, <2>2 DEF SyncInv, ModelIsPrefix, Reject, Committed
  <2>6. QED
    BY <2>2, <2>3, <2>4, <2>5 DEF SyncInv
<1>18. CASE UNCHANGED vars
  <2>1. TypeOK'
    BY <1>18 DEF SyncInv, TypeOK, vars
  <2>2. ModelIsPrefix' /\ RequestFitsPhase' /\ AnswerIsAwaited'
    BY <1>18 DEF SyncInv, ModelIsPrefix, RequestFitsPhase, AnswerIsAwaited, vars, Committed
  <2>3. QED
    BY <2>1, <2>2 DEF SyncInv
<1>19. QED
  BY <1>1, <1>2, <1>3, <1>4, <1>5, <1>6, <1>7, <1>8, <1>9, <1>10, <1>11, <1>12, <1>13, <1>14,
     <1>15, <1>16, <1>17, <1>18
  DEF Next, ServerStep, ClientStep

LEMMA SyncInvariant == Spec => []SyncInv
BY InitSyncInv, NextSyncInv, PTL DEF Spec

(* The state always has the declared shape, whatever is lost or restarted. *)
THEOREM ClientTypeTheorem == Spec => []TypeOK
<1>1. SyncInv => TypeOK
  BY DEF SyncInv
<1>2. QED
  BY <1>1, SyncInvariant, PTL
-----------------------------------------------------------------------------
(* The read model is always the fold of a prefix of the log and never goes *)
(* back: flushSnapshotSync and flushReplaySync follow the log.             *)
LEMMA StepFollows ==
    ASSUME SyncInv, SyncInv', logLength' = logLength, Len(model) <= Len(model')
    PROVE  R!Follow
<1> DEFINE n == Len(model')
<1>1. logLength \in Nat /\ n \in Nat /\ n <= logLength /\ Len(model) \in Nat
  BY DEF SyncInv, TypeOK, ModelIsPrefix
<1>2. model' = [i \in 1..n |-> i]
  BY DEF SyncInv, ModelIsPrefix, EventsUpTo
<1>3. SubSeq(EventsUpTo(logLength), 1, n) = [i \in 1..n |-> i]
  BY <1>1 DEF EventsUpTo
<1>4. n \in Len(model)..Len(EventsUpTo(logLength))
  BY <1>1, EventsUpToProperties
<1>5. QED
  BY <1>2, <1>3, <1>4 DEF R!Follow

LEMMA NextImplementsReplica ==
    SyncInv /\ SyncInv' /\ [Next]_vars => [R!ReplicaNext]_(R!replicaVars)
<1> SUFFICES ASSUME SyncInv, SyncInv', [Next]_vars
             PROVE  [R!ReplicaNext]_(R!replicaVars)
  OBVIOUS
<1> USE DEF server, history, router, bounds
<1>1. CASE CommitEvents
  <2>1. /\ logLength \in Nat /\ logLength' \in Nat /\ logLength' > logLength
        /\ model' = model
    BY <1>1 DEF SyncInv, TypeOK, CommitEvents, EF!Extend, EF!EventsPerCommand
  <2>2. EventsUpTo(logLength)' = EventsUpTo(logLength')
    BY DEF EventsUpTo
  <2>3. SubSeq(EventsUpTo(logLength'), 1, logLength) = EventsUpTo(logLength)
    BY <2>1 DEF EventsUpTo
  <2>4. Len(EventsUpTo(logLength)) = logLength /\ Len(EventsUpTo(logLength')) = logLength'
    BY <2>1, EventsUpToProperties
  <2>5. QED
    BY <2>1, <2>2, <2>3, <2>4 DEF R!ReplicaNext, R!Grow
<1>2. CASE ReceiveSnapshot
  <2>1. request.at = "wire"
    BY <1>2, ReceiveMessage DEF ReceiveSnapshot, ResponseArrives
  <2>2. request.upTo \in Nat /\ Len(model) <= request.upTo /\ model' = EventsUpTo(request.upTo)
    BY <1>2, <2>1 DEF SyncInv, TypeOK, Requests, RequestFitsPhase, ReceiveSnapshot
  <2>3. logLength' = logLength /\ Len(model) <= Len(model')
    BY <1>2, <2>2, EventsUpToProperties DEF ReceiveSnapshot
  <2>4. QED
    BY <2>3, StepFollows DEF R!ReplicaNext
<1>3. CASE FinishFold
  <2>1. request.from \in Nat /\ request.upTo \in Nat /\ request.from <= request.upTo
    BY <1>3 DEF SyncInv, TypeOK, Requests, RequestFitsPhase, FinishFold
  <2>2. logLength' = logLength /\ Len(model) <= Len(model')
    BY <1>3, <2>1 DEF SyncInv, TypeOK, FinishFold
  <2>3. QED
    BY <2>2, StepFollows DEF R!ReplicaNext
<1>4. CASE UNCHANGED <<logLength, model>>
  BY <1>4 DEF R!replicaVars, EventsUpTo
<1>5. QED
  <2>1. PublishEvent \/ Push \/ Register \/ ReadDatabase \/ Respond => UNCHANGED <<logLength, model>>
    BY DEF PublishEvent, EF!Announce, Push, Register, ReadDatabase, Respond
  <2>2. Disconnect \/ ServerRestart \/ Connect \/ UNCHANGED vars => UNCHANGED <<logLength, model>>
    BY DEF Disconnect, ServerRestart, EF!StartOver, ConnectionLost, Connect, vars
  <2>3. ReceiveEvent \/ ReceiveWelcome \/ ReceiveIgnored \/ TimerFires
            => UNCHANGED <<logLength, model>>
    BY DEF ReceiveEvent, ReceiveWelcome, ReceiveIgnored, TimerFires
  <2>4. ReceiveEmptyReplay \/ ReceiveReplay \/ RequestTimesOut \/ RequestFails
            => UNCHANGED <<logLength, model>>
    BY DEF ReceiveEmptyReplay, ReceiveReplay, RequestTimesOut, RequestFails, Reject
  <2>5. QED
    BY <1>1, <1>2, <1>3, <1>4, <2>1, <2>2, <2>3, <2>4 DEF Next, ServerStep, ClientStep

(* Through disconnects, restarts, timeouts and fallbacks the client is a   *)
(* replica of the event log.                                               *)
THEOREM ReplicaTheorem == Spec => ImplementsReplica
<1>1. Init => R!ReplicaInit
  BY NoEvents DEF Init, R!ReplicaInit
<1>2. QED
  BY <1>1, SyncInvariant, NextImplementsReplica, PTL
  DEF Spec, ImplementsReplica, R!ReplicaSpec
-----------------------------------------------------------------------------
(* A replay that reaches the end of the log leaves no client behind.       *)
InformedInv == SyncInv /\ AnswerIsEnough /\ ToldIsFolded

LEMMA InitInformed == Init => InformedInv
<1> SUFFICES ASSUME Init PROVE InformedInv
  OBVIOUS
<1>1. AnswerIsEnough /\ ToldIsFolded
  BY DEF Init, AnswerIsEnough, ToldIsFolded
<1>2. QED
  BY <1>1, InitSyncInv DEF InformedInv

(* A sync that starts reads again; one that runs goes on, or is followed   *)
(* by another because pending is set.                                      *)
LEMMA SyncSnapshotInforms ==
    ASSUME SyncInv, NEW mode \in {"snapshot", "replay"}, SyncSnapshot(mode)
    PROVE  /\ phase' # "idle"
           /\ pending' \/ request'.at \in {"outbox", "server"}
<1>1. CASE phase # "idle"
  BY <1>1 DEF SyncSnapshot
<1>2. CASE phase = "idle"
  <2>1. /\ phase' \in {"snapshot", "replaySnapshot", "replay"}
        /\ \E kind, from : request' = NewRequest(kind, from)
    BY <1>2 DEF SyncSnapshot, Ask
  <2>2. QED
    BY <2>1 DEF NewRequest
<1>3. QED
  BY <1>1, <1>2

LEMMA NextInformed ==
    ASSUME ReplayLimit >= MaxLog, InformedInv, SyncInv', [Next]_vars
    PROVE  InformedInv'
<1> USE DEF server, history, router, bounds
<1> SUFFICES AnswerIsEnough' /\ ToldIsFolded'
  BY DEF InformedInv
<1>1. CASE CommitEvents \/ PublishEvent \/ Push \/ Register
  BY <1>1
  DEF InformedInv, AnswerIsEnough, ToldIsFolded, CommitEvents, EF!Extend, PublishEvent,
      EF!Announce, Push, Register
<1>2. CASE ReadDatabase
  <2>1. ~(request.kind = "replay" /\ request.from + ReplayLimit < logLength)
    <3>1. /\ request.from \in Nat /\ logLength \in 0..MaxLog
          /\ MaxLog \in Nat /\ ReplayLimit \in Nat
      BY SyncAssumption DEF InformedInv, SyncInv, TypeOK, Requests
    <3>2. QED
      BY <3>1
  <2>2. request' = [request EXCEPT !.at = "read", !.upTo = logLength]
    BY <1>2, <2>1 DEF ReadDatabase
  <2>3. request'.upTo = logLength /\ latestSequence <= logLength
    BY <2>2 DEF InformedInv, SyncInv, TypeOK, Requests, ModelIsPrefix
  <2>4. latestSequence' = latestSequence /\ latestSequence \in Nat /\ logLength \in Nat
    BY <1>2, SyncAssumption DEF ReadDatabase, InformedInv, SyncInv, TypeOK
  <2>5. AnswerIsEnough'
    BY <2>3, <2>4 DEF AnswerIsEnough
  <2>6. QED
    BY <1>2, <2>5 DEF InformedInv, ToldIsFolded, ReadDatabase
<1>3. CASE Respond
  <2>1. request.at = "read" /\ request' = [request EXCEPT !.at = "wire"]
    BY <1>3 DEF Respond
  <2>2. request'.upTo = request.upTo
    BY <2>1 DEF InformedInv, SyncInv, TypeOK, Requests
  <2>3. QED
    BY <1>3, <2>1, <2>2 DEF InformedInv, AnswerIsEnough, ToldIsFolded, Respond
<1>4. CASE Disconnect \/ ServerRestart
  <2>1. ConnectionLost
    BY <1>4 DEF Disconnect, ServerRestart, EF!StartOver
  <2>2. request' = request \/ request'.at = "lost"
    BY <2>1 DEF ConnectionLost, InformedInv, SyncInv, TypeOK, Requests
  <2>3. QED
    BY <2>1, <2>2 DEF InformedInv, AnswerIsEnough, ToldIsFolded, ConnectionLost
<1>5. CASE Connect
  <2>1. request' = request \/ request'.at = "server"
    BY <1>5 DEF Connect, InformedInv, SyncInv, TypeOK, Requests
  <2>2. QED
    BY <1>5, <2>1 DEF InformedInv, AnswerIsEnough, ToldIsFolded, Connect
<1>6. CASE ReceiveEvent
  <2>1. timer' \/ (timer' = timer /\ latestSequence' = latestSequence)
    <3>1. Head(inbound) \in Messages
      BY <1>6, ReceiveMessage DEF InformedInv, ReceiveEvent
    <3>2. Head(inbound).sequence \in Nat /\ latestSequence \in Nat /\ timer \in BOOLEAN
      BY <3>1 DEF Messages, InformedInv, SyncInv, TypeOK
    <3>3. CASE Head(inbound).sequence > latestSequence
      BY <1>6, <3>3 DEF ReceiveEvent
    <3>4. CASE ~(Head(inbound).sequence > latestSequence)
      <4>1. latestSequence' = latestSequence
        BY <1>6, <3>2, <3>4 DEF ReceiveEvent, Larger
      <4>2. timer' = timer
        BY <1>6, <3>2, <3>4 DEF ReceiveEvent
      <4>3. QED
        BY <4>1, <4>2
    <3>5. QED
      BY <3>3, <3>4
  <2>2. QED
    BY <1>6, <2>1 DEF InformedInv, AnswerIsEnough, ToldIsFolded, ReceiveEvent
<1>7. CASE ReceiveWelcome \/ TimerFires
  <2>1. phase' # "idle" /\ (pending' \/ request'.at \in {"outbox", "server"})
    BY <1>7, SyncSnapshotInforms DEF InformedInv, ReceiveWelcome, TimerFires
  <2>2. QED
    BY <2>1 DEF AnswerIsEnough, ToldIsFolded
<1>8. CASE ReceiveIgnored
  BY <1>8 DEF InformedInv, AnswerIsEnough, ToldIsFolded, ReceiveIgnored
<1>9. CASE ReceiveSnapshot
  <2>1. request.at = "wire"
    BY <1>9, ReceiveMessage DEF InformedInv, ReceiveSnapshot, ResponseArrives
  <2>2. request.upTo \in Nat /\ latestSequence \in Nat
    BY DEF InformedInv, SyncInv, TypeOK, Requests
  <2>3. CASE pending
    BY <1>9, <2>3 DEF ReceiveSnapshot, Ask, NewRequest, AnswerIsEnough, ToldIsFolded,
                      InformedInv, SyncInv, TypeOK
  <2>4. CASE ~pending
    <3>1. phase' = "idle" /\ timer' = timer /\ Len(model') = request.upTo
          /\ latestSequence' = Larger(latestSequence, request.upTo)
      BY <1>9, <2>2, <2>4, EventsUpToProperties DEF ReceiveSnapshot, Idle
    <3>2. ~timer => request.upTo >= latestSequence
      BY <1>9, <2>1, <2>4 DEF InformedInv, AnswerIsEnough, ReceiveSnapshot
    <3>3. QED
      BY <2>2, <3>1, <3>2 DEF AnswerIsEnough, ToldIsFolded, Larger
  <2>5. QED
    BY <2>3, <2>4
<1>10. CASE ReceiveEmptyReplay
  <2>1. latestSequence \in Nat /\ Len(model) \in Nat
    BY DEF InformedInv, SyncInv, TypeOK
  <2>2. CASE latestSequence > Len(model)
    BY <1>10, <2>2 DEF ReceiveEmptyReplay, Ask, NewRequest, AnswerIsEnough, ToldIsFolded
  <2>3. CASE ~(latestSequence > Len(model))
    BY <1>10, <2>1, <2>3 DEF ReceiveEmptyReplay, Idle, AnswerIsEnough, ToldIsFolded
  <2>4. QED
    BY <2>2, <2>3
<1>11. CASE ReceiveReplay
  <2>1. request.at = "wire"
    BY <1>11, ReceiveMessage DEF InformedInv, ReceiveReplay, ResponseArrives
  <2>2. request'.upTo = request.upTo
    BY <1>11 DEF InformedInv, SyncInv, TypeOK, Requests, ReceiveReplay
  <2>3. phase # "idle" /\ phase' # "idle"
    BY <1>11 DEF ReceiveReplay
  <2>4. QED
    BY <1>11, <2>1, <2>2, <2>3 DEF InformedInv, AnswerIsEnough, ToldIsFolded, ReceiveReplay
<1>12. CASE FinishFold
  <2>1. /\ request.at = "received" /\ request.from = Len(model)
        /\ request.from \in Nat /\ request.upTo \in Nat /\ latestSequence \in Nat
        /\ Len(model) <= request.upTo
    BY <1>12 DEF InformedInv, SyncInv, TypeOK, Requests, RequestFitsPhase, FinishFold
  <2>2. CASE pending
    BY <1>12, <2>2 DEF FinishFold, Ask, NewRequest, AnswerIsEnough, ToldIsFolded
  <2>3. CASE ~pending
    <3>1. phase' = "idle" /\ timer' = timer
          /\ latestSequence' = Larger(latestSequence, request.upTo)
      BY <1>12, <2>3 DEF FinishFold, Idle
    <3>2. Len(model') = request.upTo
      BY <1>12, <2>1 DEF FinishFold, InformedInv, SyncInv, TypeOK
    <3>3. ~timer => request.upTo >= latestSequence
      BY <1>12, <2>1, <2>3 DEF InformedInv, AnswerIsEnough, FinishFold
    <3>4. QED
      BY <2>1, <3>1, <3>2, <3>3 DEF AnswerIsEnough, ToldIsFolded, Larger
  <2>4. QED
    BY <2>2, <2>3
<1>13. CASE RequestTimesOut \/ RequestFails
  <2>1. Reject
    BY <1>13 DEF RequestTimesOut, RequestFails
  <2>2. CASE phase = "snapshot"
    BY <2>1, <2>2 DEF Reject, Idle, AnswerIsEnough, ToldIsFolded
  <2>3. CASE phase # "snapshot"
    BY <2>1, <2>3 DEF Reject, Ask, NewRequest, AnswerIsEnough, ToldIsFolded
  <2>4. QED
    BY <2>2, <2>3
<1>14. CASE UNCHANGED vars
  BY <1>14 DEF InformedInv, AnswerIsEnough, ToldIsFolded, vars
<1>15. QED
  BY <1>1, <1>2, <1>3, <1>4, <1>5, <1>6, <1>7, <1>8, <1>9, <1>10, <1>11, <1>12, <1>13, <1>14
  DEF Next, ServerStep, ClientStep
-----------------------------------------------------------------------------
(* What is sent stays sent until it is received.                           *)
LEMMA SentAppended ==
    ASSUME NEW S, NEW s \in Seq(S), NEW e \in S, NEW message
    PROVE  Sent(s, message) \/ message = e => Sent(Append(s, e), message)
<1>1. /\ \A i \in DOMAIN s : i \in DOMAIN Append(s, e) /\ Append(s, e)[i] = s[i]
      /\ Len(s) + 1 \in DOMAIN Append(s, e) /\ Append(s, e)[Len(s) + 1] = e
  BY AppendProperties
<1>2. QED
  BY <1>1 DEF Sent

LEMMA SentAfterHead ==
    ASSUME NEW S, NEW s \in Seq(S), s # <<>>, NEW message, Sent(s, message)
    PROVE  Head(s) = message \/ Sent(Tail(s), message)
<1>1. PICK i \in DOMAIN s : s[i] = message
  BY DEF Sent
<1>2. CASE i = 1
  BY <1>1, <1>2, HeadAndTail
<1>3. CASE i # 1
  <2>1. i - 1 \in DOMAIN Tail(s) /\ Tail(s)[i - 1] = s[i]
    BY <1>1, <1>3, HeadTailProperties
  <2>2. QED
    BY <1>1, <2>1 DEF Sent
<1>4. QED
  BY <1>2, <1>3

LEMMA SentThoughOrphaned ==
    ASSUME NEW messages, NEW orphan, NEW message, message # orphan, Sent(messages, message)
    PROVE  Sent(Orphan(messages, orphan), message)
BY DEF Sent, Orphan

LEMMA DifferentMessages ==
    /\ Welcome # Response /\ Welcome # Ignored /\ Response # Ignored
    /\ Welcome.channel # "domainEvent" /\ Response.channel # "domainEvent"
    /\ Ignored.channel # "domainEvent"
    /\ \A n : DomainEvent(n).channel = "domainEvent" /\ DomainEvent(n).sequence = n
BY DEF Welcome, Response, Ignored, DomainEvent

(* What the steps that do not touch the connection's far end leave sent.   *)
Keeps(message) ==
    /\ Sent(pushQueue, message) => Sent(pushQueue, message)'
    /\ Sent(inbound, message) => Sent(inbound, message)'

LEMMA ReceivingKeeps ==
    ASSUME SyncInv, inbound # <<>>, inbound' = Tail(inbound), pushQueue' = pushQueue,
           NEW message, Head(inbound) # message
    PROVE  Keeps(message)
<1>1. inbound \in Seq(Messages)
  BY DEF SyncInv, TypeOK
<1>2. Sent(inbound, message) => Sent(Tail(inbound), message)
  BY <1>1, SentAfterHead
<1>3. QED
  BY <1>2 DEF Keeps, Sent

LEMMA AppendingKeeps ==
    ASSUME SyncInv, NEW message,
           pushQueue' = pushQueue \/ \E job \in Jobs : pushQueue' = Append(pushQueue, job),
           inbound' = inbound \/ \E job \in Messages : inbound' = Append(inbound, job)
    PROVE  Keeps(message)
<1>1. pushQueue \in Seq(Jobs) /\ inbound \in Seq(Messages)
  BY DEF SyncInv, TypeOK
<1>2. Sent(pushQueue, message) => Sent(pushQueue, message)'
  BY <1>1, SentAppended DEF Sent
<1>3. Sent(inbound, message) => Sent(inbound, message)'
  BY <1>1, SentAppended DEF Sent
<1>4. QED
  BY <1>2, <1>3 DEF Keeps

(* A push moves a welcome to the wire.                                     *)
LEMMA PushKeepsWelcome ==
    ASSUME SyncInv, Push, WelcomeComes
    PROVE  WelcomeComes'
<1>1. pushQueue \in Seq(Jobs) /\ inbound \in Seq(Messages) /\ pushQueue # <<>>
  BY DEF SyncInv, TypeOK, Push
<1>2. Head(pushQueue) \in Jobs /\ Head(pushQueue) \in Messages
  BY <1>1, HeadAndTail, MessageTypes
<1>3. CASE Sent(inbound, Welcome)
  <2>1. inbound' = inbound \/ inbound' = Append(inbound, Head(pushQueue))
    BY DEF Push
  <2>2. Sent(Append(inbound, Head(pushQueue)), Welcome)
    BY <1>1, <1>2, <1>3, SentAppended
  <2>3. QED
    BY <1>3, <2>1, <2>2 DEF WelcomeComes, Sent
<1>4. CASE Sent(pushQueue, Welcome) /\ Head(pushQueue) # Welcome
  <2>1. Sent(Tail(pushQueue), Welcome)
    BY <1>1, <1>4, SentAfterHead
  <2>2. QED
    BY <2>1 DEF WelcomeComes, Sent, Push
<1>5. CASE Head(pushQueue) = Welcome
  <2>1. inbound' = Append(inbound, Welcome)
    BY <1>5 DEF Push
  <2>2. Sent(Append(inbound, Welcome), Welcome)
    BY <1>1, MessageTypes, SentAppended
  <2>3. QED
    BY <2>1, <2>2 DEF WelcomeComes, Sent
<1>6. QED
  BY <1>3, <1>4, <1>5 DEF WelcomeComes

LEMMA NextSocketIsGreeted ==
    ASSUME SyncInv, SocketIsGreeted, [Next]_vars
    PROVE  SocketIsGreeted'
<1> USE DEF server, history, router, bounds
<1>1. CASE Disconnect \/ ServerRestart
  <2>1. connected' = FALSE /\ request'.at \notin {"server", "read", "wire"}
    <3>1. ConnectionLost
      BY <1>1 DEF Disconnect, ServerRestart, EF!StartOver
    <3>2. CASE request.at \in {"server", "read", "wire"}
      BY <3>1, <3>2 DEF ConnectionLost, SyncInv, TypeOK, Requests
    <3>3. CASE request.at \notin {"server", "read", "wire"}
      BY <3>1, <3>3 DEF ConnectionLost
    <3>4. QED
      BY <3>1, <3>2, <3>3 DEF ConnectionLost
  <2>2. QED
    BY <2>1 DEF SocketIsGreeted
<1>2. CASE Connect
  <2>1. pushQueue \in Seq(Jobs) /\ pushQueue' = Append(pushQueue, Welcome)
    BY <1>2 DEF SyncInv, TypeOK, Connect
  <2>2. Sent(pushQueue, Welcome)' /\ connected'
    BY <1>2, <2>1, MessageTypes, SentAppended DEF Sent, Connect
  <2>3. QED
    BY <2>2 DEF SocketIsGreeted
<1>3. ASSUME connected' = connected
      PROVE  ~connected => request'.at \notin {"server", "read", "wire"}
  <2> SUFFICES ASSUME ~connected PROVE request'.at \notin {"server", "read", "wire"}
    OBVIOUS
  <2>1. request.at \notin {"server", "read", "wire"}
    BY DEF SocketIsGreeted
  <2>2. request' = request \/ request' = NoRequest \/ request' = [request EXCEPT !.at = "received"]
            \/ \E kind, from : request' = NewRequest(kind, from)
    <3>1. ~ReadDatabase /\ ~Respond
      BY <2>1 DEF ReadDatabase, Respond
    <3>2. CommitEvents \/ PublishEvent \/ Push \/ Register \/ ReceiveEvent \/ ReceiveIgnored
              \/ UNCHANGED vars => request' = request
      BY DEF CommitEvents, EF!Extend, PublishEvent, EF!Announce, Push, Register, ReceiveEvent,
             ReceiveIgnored, vars
    <3>3. Disconnect \/ ServerRestart \/ Connect => request' = request
      BY <1>3, <2>1 DEF Disconnect, ServerRestart, EF!StartOver, ConnectionLost, Connect
    <3>4. QED
      BY <3>1, <3>2, <3>3
      DEF Next, ServerStep, ClientStep, ReceiveWelcome, TimerFires, SyncSnapshot, ReceiveSnapshot,
          ReceiveEmptyReplay, ReceiveReplay, FinishFold, RequestTimesOut, RequestFails, Reject,
          Ask, Idle
  <2>3. QED
    BY <2>1, <2>2 DEF NoRequest, NewRequest, SyncInv, TypeOK, Requests
<1>4. ASSUME connected' = connected
      PROVE  connected => (greeted \/ registered \/ Sent(pushQueue, Welcome))'
  <2> SUFFICES ASSUME connected PROVE (greeted \/ registered \/ Sent(pushQueue, Welcome))'
    OBVIOUS
  <2>1. greeted \/ registered \/ Sent(pushQueue, Welcome)
    BY DEF SocketIsGreeted
  <2>2. CASE Push
    <3>1. pushQueue \in Seq(Jobs) /\ pushQueue # <<>> /\ pushQueue' = Tail(pushQueue)
      BY <2>2 DEF SyncInv, TypeOK, Push
    <3>2. Sent(pushQueue, Welcome) => Head(pushQueue) = Welcome \/ Sent(pushQueue, Welcome)'
      BY <3>1, SentAfterHead DEF Sent
    <3>3. QED
      BY <2>1, <2>2, <3>2 DEF Push
  <2>3. CASE PublishEvent
    <3>1. pushQueue' = Append(pushQueue, DomainEvent(published + 1)) /\ inbound' = inbound
          /\ DomainEvent(published + 1) \in Jobs
      BY <2>3, MessageTypes DEF PublishEvent, EF!Announce, SyncInv, TypeOK
    <3>2. Keeps(Welcome)
      BY <3>1, AppendingKeeps
    <3>3. QED
      BY <2>1, <2>3, <3>2 DEF Keeps, PublishEvent, EF!Announce
  <2>4. CASE Register
    BY <2>4 DEF Register
  <2>5. CASE greeted' = greeted /\ registered' = registered /\ pushQueue' = pushQueue
    BY <2>1, <2>5 DEF Sent
  <2>6. QED
    BY <1>4, <2>2, <2>3, <2>4, <2>5
    DEF Next, ServerStep, ClientStep, CommitEvents, EF!Extend, ReadDatabase, Respond, Disconnect,
        ServerRestart, EF!StartOver, ConnectionLost, Connect, ReceiveEvent, ReceiveWelcome,
        ReceiveIgnored, TimerFires, ReceiveSnapshot, ReceiveEmptyReplay, ReceiveReplay,
        FinishFold, RequestTimesOut, RequestFails, Reject, vars
<1>5. connected' = connected \/ Disconnect \/ ServerRestart \/ Connect
  BY DEF Next, ServerStep, ClientStep, CommitEvents, EF!Extend, PublishEvent, EF!Announce, Push,
         Register, ReadDatabase, Respond, ReceiveEvent, ReceiveWelcome, ReceiveIgnored,
         TimerFires, ReceiveSnapshot, ReceiveEmptyReplay, ReceiveReplay, FinishFold,
         RequestTimesOut, RequestFails, Reject, vars
<1>6. QED
  BY <1>1, <1>2, <1>3, <1>4, <1>5 DEF SocketIsGreeted

(* A sync that starts will read the log, one that runs already is followed *)
(* by another.                                                             *)
LEMMA SyncSnapshotReads ==
    ASSUME SyncInv, NEW mode \in {"snapshot", "replay"}, SyncSnapshot(mode), NEW n,
           latestSequence' = latestSequence,
           ~gaveUp => WillRead(n) \/ phase = "idle"
    PROVE  gaveUp' \/ WillRead(n)'
<1>1. CASE phase = "idle"
  <2>1. \E kind, from : request' = NewRequest(kind, from)
    BY <1>1 DEF SyncSnapshot, Ask
  <2>2. phase' # "idle"
    BY <1>1 DEF SyncSnapshot, Ask
  <2>3. QED
    BY <2>1, <2>2 DEF WillRead, NewRequest
<1>2. CASE phase # "idle"
  BY <1>2 DEF SyncSnapshot, WillRead
<1>3. QED
  BY <1>1, <1>2

(* An answer that holds the first n events, once folded, is followed by    *)
(* another request or has told the client of them.                         *)
LEMMA NextWillRead ==
    ASSUME ReplayLimit >= MaxLog, SyncInv, [Next]_vars, connected, connected',
           NEW n \in Nat, n <= logLength, gaveUp \/ WillRead(n)
    PROVE  gaveUp' \/ WillRead(n)'
<1> USE DEF server, history, router, bounds
<1>1. CASE CommitEvents \/ Register \/ UNCHANGED vars
  BY <1>1 DEF CommitEvents, EF!Extend, Register, vars, WillRead, WelcomeComes, Sent
<1>2. CASE PublishEvent
  <2>1. pushQueue' = Append(pushQueue, DomainEvent(published + 1)) /\ inbound' = inbound
        /\ DomainEvent(published + 1) \in Jobs
    BY <1>2, MessageTypes DEF PublishEvent, EF!Announce, SyncInv, TypeOK
  <2>2. WelcomeComes => WelcomeComes'
    BY <2>1, AppendingKeeps DEF Keeps, WelcomeComes
  <2>3. QED
    BY <1>2, <2>2 DEF PublishEvent, EF!Announce, WillRead
<1>3. CASE Push
  <2>1. WelcomeComes => WelcomeComes'
    BY <1>3, PushKeepsWelcome
  <2>2. QED
    BY <1>3, <2>1 DEF Push, WillRead
<1>4. CASE ReadDatabase
  <2>1. ~(request.kind = "replay" /\ request.from + ReplayLimit < logLength)
    <3>1. /\ request.from \in Nat /\ logLength \in 0..MaxLog
          /\ MaxLog \in Nat /\ ReplayLimit \in Nat
      BY SyncAssumption DEF SyncInv, TypeOK, Requests
    <3>2. QED
      BY <3>1
  <2>2. request' = [request EXCEPT !.at = "read", !.upTo = logLength]
    BY <1>4, <2>1 DEF ReadDatabase
  <2>3. request'.upTo = logLength /\ phase # "idle" /\ phase' = phase /\ gaveUp' = gaveUp
    <3>1. request \in Requests /\ request.at = "server"
      BY <1>4 DEF ReadDatabase, SyncInv, TypeOK
    <3>2. request'.upTo = logLength
      BY <2>2, <3>1 DEF Requests
    <3>3. phase # "idle"
      BY <3>1 DEF SyncInv, TypeOK, NoRequest
    <3>4. QED
      BY <1>4, <3>2, <3>3 DEF ReadDatabase
  <2>4. QED
    BY <2>3 DEF WillRead
<1>5. CASE Respond
  <2>1. request' = [request EXCEPT !.at = "wire"] /\ inbound' = Append(inbound, Response)
        /\ pushQueue' = pushQueue /\ request.at = "read"
    BY <1>5 DEF Respond
  <2>2. request'.upTo = request.upTo
    BY <2>1 DEF SyncInv, TypeOK, Requests
  <2>3. WelcomeComes => WelcomeComes'
    BY <2>1, AppendingKeeps, MessageTypes DEF Keeps, WelcomeComes
  <2>4. QED
    BY <1>5, <2>1, <2>2, <2>3 DEF Respond, WillRead
<1>6. CASE ReceiveEvent
  <2>1. Head(inbound) # Welcome
    BY <1>6, DifferentMessages DEF ReceiveEvent
  <2>2. WelcomeComes => WelcomeComes'
    BY <1>6, <2>1, ReceivingKeeps DEF ReceiveEvent, Keeps, WelcomeComes
  <2>3. Head(inbound).sequence \in Nat /\ latestSequence \in Nat
    <3>1. Head(inbound) \in Messages
      BY <1>6, ReceiveMessage DEF ReceiveEvent
    <3>2. QED
      BY <3>1 DEF Messages, SyncInv, TypeOK
  <2>4. latestSequence >= n => latestSequence' >= n
    BY <1>6, <2>3 DEF ReceiveEvent, Larger
  <2>5. QED
    BY <1>6, <2>2, <2>4 DEF ReceiveEvent, WillRead
<1>7. CASE ReceiveWelcome
  BY <1>7, SyncSnapshotReads DEF ReceiveWelcome
<1>8. CASE ReceiveIgnored
  <2>1. WelcomeComes => WelcomeComes'
    BY <1>8, ReceivingKeeps, DifferentMessages DEF ReceiveIgnored, Keeps, WelcomeComes
  <2>2. QED
    BY <1>8, <2>1 DEF ReceiveIgnored, WillRead
<1>9. CASE TimerFires
  BY <1>9, SyncSnapshotReads DEF TimerFires
<1>10. CASE ReceiveSnapshot
  <2>1. request.at = "wire"
    BY <1>10, ReceiveMessage DEF ReceiveSnapshot, ResponseArrives
  <2>2. request.upTo \in Nat /\ latestSequence \in Nat
    BY DEF SyncInv, TypeOK, Requests
  <2>3. gaveUp \/ latestSequence >= n \/ request.upTo >= n
    BY <1>10, <2>1 DEF WillRead, ReceiveSnapshot
  <2>4. gaveUp' = gaveUp /\ latestSequence' = Larger(latestSequence, request.upTo)
    BY <1>10 DEF ReceiveSnapshot
  <2>5. QED
    BY <2>2, <2>3, <2>4 DEF WillRead, Larger
<1>11. CASE ReceiveEmptyReplay
  <2>1. request.at = "wire"
    BY <1>11, ReceiveMessage DEF ReceiveEmptyReplay, ResponseArrives
  <2>2. request.upTo \in Nat /\ latestSequence \in Nat /\ Len(model) \in Nat
        /\ request.upTo <= latestSequence
    <3>1. request.upTo = Len(model)
      BY <1>11 DEF ReceiveEmptyReplay, SyncInv, RequestFitsPhase
    <3>2. QED
      BY <3>1 DEF SyncInv, TypeOK, Requests, ModelIsPrefix
  <2>3. gaveUp \/ latestSequence >= n \/ request.upTo >= n
    BY <1>11, <2>1 DEF WillRead, ReceiveEmptyReplay
  <2>4. gaveUp' = gaveUp /\ latestSequence' = latestSequence
    BY <1>11 DEF ReceiveEmptyReplay
  <2>5. QED
    BY <2>2, <2>3, <2>4 DEF WillRead
<1>12. CASE ReceiveReplay
  <2>1. request.at = "wire"
    BY <1>12, ReceiveMessage DEF ReceiveReplay, ResponseArrives
  <2>2. request' = [request EXCEPT !.at = "received"] /\ request'.upTo = request.upTo
    BY <1>12 DEF ReceiveReplay, SyncInv, TypeOK, Requests
  <2>3. gaveUp \/ latestSequence >= n \/ request.upTo >= n
    BY <1>12, <2>1 DEF WillRead, ReceiveReplay
  <2>4. QED
    BY <1>12, <2>2, <2>3 DEF WillRead, ReceiveReplay
<1>13. CASE FinishFold
  <2>1. /\ request.at = "received" /\ request.upTo \in Nat /\ latestSequence \in Nat
        /\ phase = "folding" /\ gaveUp' = gaveUp
        /\ latestSequence' = Larger(latestSequence, request.upTo)
        /\ pushQueue' = pushQueue /\ inbound' = inbound
    BY <1>13 DEF FinishFold, SyncInv, TypeOK, Requests, RequestFitsPhase
  <2>2. CASE pending
    <3>1. phase' # "idle" /\ \E kind, from : request' = NewRequest(kind, from)
      BY <1>13, <2>2 DEF FinishFold, Ask
    <3>2. QED
      BY <3>1 DEF WillRead, NewRequest
  <2>3. CASE ~pending
    <3>1. phase' = "idle"
      BY <1>13, <2>3 DEF FinishFold, Idle
    <3>2. gaveUp \/ latestSequence >= n \/ request.upTo >= n \/ WelcomeComes
      BY <2>1, <2>3 DEF WillRead
    <3>3. WelcomeComes => WelcomeComes'
      BY <2>1 DEF WelcomeComes, Sent
    <3>4. QED
      BY <2>1, <3>1, <3>2, <3>3 DEF WillRead, Larger
  <2>4. QED
    BY <2>2, <2>3
<1>14. CASE RequestTimesOut \/ RequestFails
  <2>1. Reject
    BY <1>14 DEF RequestTimesOut, RequestFails
  <2>2. CASE phase = "snapshot"
    BY <2>1, <2>2 DEF Reject
  <2>3. CASE phase # "snapshot"
    BY <2>1, <2>3 DEF Reject, Ask, NewRequest, WillRead
  <2>4. QED
    BY <2>2, <2>3
<1>15. QED
  <2>1. ~Disconnect /\ ~ServerRestart /\ ~Connect
    BY DEF Disconnect, ServerRestart, EF!StartOver, ConnectionLost, Connect
  <2>2. QED
    BY <1>1, <1>2, <1>3, <1>4, <1>5, <1>6, <1>7, <1>8, <1>9, <1>10, <1>11, <1>12, <1>13, <1>14,
       <2>1
    DEF Next, ServerStep, ClientStep
-----------------------------------------------------------------------------
(* An event pushed before the welcome is none of WillBeTold's: the head of *)
(* the queue is pushed to a registered socket, or one still only greeted.  *)
LEMMA PushTells ==
    ASSUME SyncInv, SocketIsGreeted, connected, Push, NEW n \in Nat, WillBeTold(n)
    PROVE  missed' >= n \/ WillBeTold(n)'
<1> DEFINE job == Head(pushQueue)
<1>1. pushQueue \in Seq(Jobs) /\ inbound \in Seq(Messages) /\ pushQueue # <<>>
  BY DEF SyncInv, TypeOK, Push
<1>2. /\ 1 \in DOMAIN pushQueue /\ job = pushQueue[1] /\ job \in Jobs
      /\ \A i \in DOMAIN Tail(pushQueue) :
            i + 1 \in DOMAIN pushQueue /\ Tail(pushQueue)[i] = pushQueue[i + 1]
  BY <1>1, HeadAndTail
<1>3. inbound' = inbound \/ inbound' = Append(inbound, job)
  BY DEF Push
<1>4. CASE published < n
  BY <1>4 DEF Push, WillBeTold
<1>5. CASE Sent(inbound, DomainEvent(n))
  <2>1. Sent(Append(inbound, job), DomainEvent(n))
    BY <1>1, <1>2, <1>5, MessageTypes, SentAppended
  <2>2. QED
    BY <1>3, <1>5, <2>1 DEF WillBeTold, Sent
<1>6. CASE \E i \in DOMAIN pushQueue :
              /\ pushQueue[i] = DomainEvent(n)
              /\ \A j \in DOMAIN pushQueue : j > i => pushQueue[j] # Welcome
  <2>1. PICK i \in DOMAIN pushQueue :
              /\ pushQueue[i] = DomainEvent(n)
              /\ \A j \in DOMAIN pushQueue : j > i => pushQueue[j] # Welcome
    BY <1>6
  <2>2. CASE i = 1
    <3>1. job = DomainEvent(n) /\ ~Sent(pushQueue, Welcome)
      <4>1. job = DomainEvent(n)
        BY <1>2, <2>1, <2>2
      <4>2. pushQueue[1] # Welcome
        BY <1>2, <4>1, DifferentMessages
      <4>3. \A j \in DOMAIN pushQueue : j = 1 \/ j > 1
        BY <1>1
      <4>4. QED
        BY <2>1, <2>2, <4>1, <4>2, <4>3 DEF Sent
    <3>2. CASE registered
      <4>1. inbound' = Append(inbound, DomainEvent(n))
        BY <3>1, <3>2, DifferentMessages DEF Push
      <4>2. Sent(Append(inbound, DomainEvent(n)), DomainEvent(n))
        BY <1>1, MessageTypes, SentAppended
      <4>3. QED
        BY <4>1, <4>2 DEF WillBeTold, Sent
    <3>3. CASE greeted
      <4>1. missed' = Larger(missed, n)
        BY <3>1, <3>3, DifferentMessages DEF Push
      <4>2. missed \in Nat
        BY DEF SyncInv, TypeOK
      <4>3. QED
        BY <4>1, <4>2 DEF Larger
    <3>4. QED
      BY <3>1, <3>2, <3>3 DEF SocketIsGreeted
  <2>3. CASE i # 1
    <3>1. i - 1 \in DOMAIN Tail(pushQueue) /\ Tail(pushQueue)[i - 1] = DomainEvent(n)
      BY <1>1, <2>1, <2>3, HeadTailProperties
    <3>2. \A j \in DOMAIN Tail(pushQueue) : j > i - 1 => Tail(pushQueue)[j] # Welcome
      <4>1. SUFFICES ASSUME NEW j \in DOMAIN Tail(pushQueue), j > i - 1
                     PROVE  Tail(pushQueue)[j] # Welcome
        OBVIOUS
      <4>2. j \in Nat /\ i \in Nat
        BY <1>1, <1>2, HeadAndTail
      <4>3. j + 1 \in DOMAIN pushQueue /\ j + 1 > i
        BY <1>2, <4>1, <4>2
      <4>4. QED
        BY <1>2, <2>1, <4>3
    <3>3. QED
      BY <3>1, <3>2 DEF WillBeTold, Push
  <2>4. QED
    BY <2>2, <2>3
<1>7. QED
  BY <1>4, <1>5, <1>6 DEF WillBeTold

(* Once received, the client was told.                                     *)
LEMMA ReceivingTells ==
    ASSUME SyncInv, inbound # <<>>, inbound' = Tail(inbound),
           UNCHANGED <<published, pushQueue>>, NEW n \in Nat, WillBeTold(n)
    PROVE  WillBeTold(n)' \/ Head(inbound) = DomainEvent(n)
<1>1. inbound \in Seq(Messages)
  BY DEF SyncInv, TypeOK
<1>2. Sent(inbound, DomainEvent(n)) => Head(inbound) = DomainEvent(n) \/ Sent(inbound, DomainEvent(n))'
  BY <1>1, SentAfterHead DEF Sent
<1>3. QED
  BY <1>2 DEF WillBeTold

(* What the client will be told of it was told of, or is still on its way, *)
(* or was missed.                                                          *)
LEMMA NextWillBeTold ==
    ASSUME SyncInv, SocketIsGreeted, [Next]_vars, connected, connected',
           NEW n \in Nat, n <= logLength, WillBeTold(n)
    PROVE  missed' >= n \/ WillBeTold(n)' \/ latestSequence' >= n
<1> USE DEF server, history, router, bounds
<1>1. CASE UNCHANGED <<published, pushQueue, inbound>>
  BY <1>1 DEF WillBeTold, Sent
<1>2. CASE PublishEvent
  <2>1. pushQueue \in Seq(Jobs) /\ published \in Nat
    BY DEF SyncInv, TypeOK
  <2>2. DomainEvent(published + 1) \in Jobs /\ inbound' = inbound /\ published' = published + 1
        /\ pushQueue' = Append(pushQueue, DomainEvent(published + 1))
    BY <1>2, <2>1, MessageTypes DEF PublishEvent, EF!Announce
  <2>3. \A i \in DOMAIN pushQueue' :
            IF i = Len(pushQueue) + 1 THEN pushQueue'[i] = DomainEvent(published + 1)
            ELSE i \in DOMAIN pushQueue /\ pushQueue'[i] = pushQueue[i]
    BY <2>1, <2>2, AppendElements
  <2>4. /\ \A i \in DOMAIN pushQueue : i \in DOMAIN pushQueue' /\ pushQueue'[i] = pushQueue[i]
        /\ Len(pushQueue) + 1 \in DOMAIN pushQueue'
        /\ \A i \in DOMAIN pushQueue' : i <= Len(pushQueue) + 1
    BY <2>1, <2>2, AppendProperties
  <2>5. DomainEvent(published + 1) # Welcome
    BY DifferentMessages
  <2>6. CASE published < n
    <3>1. published' < n \/ published + 1 = n
      BY <2>1, <2>2, <2>6
    <3>2. CASE published + 1 = n
      <4>1. pushQueue'[Len(pushQueue) + 1] = DomainEvent(n)
        BY <2>3, <2>4, <3>2
      <4>2. \A j \in DOMAIN pushQueue' : ~(j > Len(pushQueue) + 1)
        BY <2>1, <2>2, AppendProperties
      <4>3. QED
        BY <2>4, <4>1, <4>2 DEF WillBeTold
    <3>3. QED
      BY <3>1, <3>2 DEF WillBeTold
  <2>7. CASE Sent(inbound, DomainEvent(n))
    BY <2>2, <2>7 DEF WillBeTold, Sent
  <2>8. CASE \E i \in DOMAIN pushQueue :
              /\ pushQueue[i] = DomainEvent(n)
              /\ \A j \in DOMAIN pushQueue : j > i => pushQueue[j] # Welcome
    <3>1. PICK i \in DOMAIN pushQueue :
              /\ pushQueue[i] = DomainEvent(n)
              /\ \A j \in DOMAIN pushQueue : j > i => pushQueue[j] # Welcome
      BY <2>8
    <3>2. i \in DOMAIN pushQueue' /\ pushQueue'[i] = DomainEvent(n)
      BY <2>4, <3>1
    <3>3. \A j \in DOMAIN pushQueue' : j > i => pushQueue'[j] # Welcome
      BY <2>3, <2>5, <3>1
    <3>4. QED
      BY <3>2, <3>3 DEF WillBeTold
  <2>9. QED
    BY <2>6, <2>7, <2>8 DEF WillBeTold
<1>3. CASE Push
  BY <1>3, PushTells
<1>4. CASE Respond
  <2>1. inbound' = Append(inbound, Response) /\ UNCHANGED <<published, pushQueue>>
    BY <1>4 DEF Respond
  <2>2. Sent(inbound, DomainEvent(n)) => Sent(inbound, DomainEvent(n))'
    BY <2>1, AppendingKeeps, MessageTypes DEF Keeps
  <2>3. QED
    BY <2>1, <2>2 DEF WillBeTold
<1>5. CASE ReceiveEvent
  <2>1. WillBeTold(n)' \/ Head(inbound) = DomainEvent(n)
    BY <1>5, ReceivingTells DEF ReceiveEvent
  <2>2. Head(inbound) = DomainEvent(n) => latestSequence' >= n
    BY <1>5, DifferentMessages DEF ReceiveEvent, Larger, SyncInv, TypeOK
  <2>3. QED
    BY <2>1, <2>2
<1>6. CASE ReceiveWelcome \/ ReceiveIgnored \/ ReceiveSnapshot \/ ReceiveEmptyReplay \/ ReceiveReplay
  <2>1. inbound # <<>> /\ inbound' = Tail(inbound) /\ UNCHANGED <<published, pushQueue>>
    BY <1>6 DEF ReceiveWelcome, ReceiveIgnored, ReceiveSnapshot, ReceiveEmptyReplay,
                ReceiveReplay, ResponseArrives
  <2>2. Head(inbound) \in {Welcome, Ignored, Response}
    BY <1>6 DEF ReceiveWelcome, ReceiveIgnored, ReceiveSnapshot, ReceiveEmptyReplay,
                ReceiveReplay, ResponseArrives
  <2>3. Head(inbound) # DomainEvent(n)
    BY <2>2, DifferentMessages
  <2>4. QED
    BY <2>1, <2>3, ReceivingTells
<1>7. CASE RequestTimesOut \/ RequestFails
  <2>1. inbound' = Orphan(inbound, Response) /\ UNCHANGED <<published, pushQueue>>
    BY <1>7 DEF RequestTimesOut, RequestFails, Reject
  <2>2. DomainEvent(n) # Response
    BY DifferentMessages
  <2>3. Sent(inbound, DomainEvent(n)) => Sent(Orphan(inbound, Response), DomainEvent(n))
    BY <2>2, SentThoughOrphaned
  <2>4. QED
    BY <2>1, <2>3 DEF WillBeTold, Sent
<1>8. QED
  <2>1. CommitEvents \/ Register \/ ReadDatabase \/ TimerFires \/ FinishFold \/ UNCHANGED vars
            => UNCHANGED <<published, pushQueue, inbound>>
    BY DEF CommitEvents, EF!Extend, Register, ReadDatabase, TimerFires, FinishFold, vars
  <2>2. ~Disconnect /\ ~ServerRestart /\ ~Connect
    BY DEF Disconnect, ServerRestart, EF!StartOver, ConnectionLost, Connect
  <2>3. QED
    BY <1>1, <1>2, <1>3, <1>4, <1>5, <1>6, <1>7, <2>1, <2>2 DEF Next, ServerStep, ClientStep

NewsInv == SyncInv /\ SocketIsGreeted /\ NewsIsOnItsWay

LEMMA InitNewsInv == Init => NewsInv
<1> SUFFICES ASSUME Init PROVE SocketIsGreeted /\ NewsIsOnItsWay
  BY InitSyncInv DEF NewsInv
<1>1. QED
  BY DEF Init, SocketIsGreeted, NewsIsOnItsWay, NoRequest

LEMMA NextNewsInv ==
    ASSUME ReplayLimit >= MaxLog, NewsInv, SyncInv', [Next]_vars
    PROVE  NewsInv'
<1> USE DEF server, history, router, bounds
<1>1. SyncInv /\ SocketIsGreeted /\ SocketIsGreeted'
  BY NextSocketIsGreeted DEF NewsInv
<1> SUFFICES ASSUME connected', ~gaveUp'
             PROVE  /\ WillRead(opened)'
                    /\ (missed = logLength \/ WillBeTold(logLength) \/ WillRead(logLength))'
  BY <1>1 DEF NewsInv, NewsIsOnItsWay
<1>2. PICK m : m = opened
  OBVIOUS
<1>3. PICK n : n = logLength
  OBVIOUS
<1>4. m \in Nat /\ n \in Nat /\ m <= n
  BY <1>1, <1>2, <1>3, SyncAssumption DEF SyncInv, TypeOK
<1>5. CASE Connect
  <2>1. /\ pushQueue' = Append(pushQueue, Welcome) /\ phase' = phase
        /\ request' = request \/ request'.at = "server"
        /\ opened' = logLength' /\ ~connected
    BY <1>1, <1>5 DEF Connect, SyncInv, TypeOK, Requests
  <2>2. WelcomeComes'
    <3>1. pushQueue \in Seq(Jobs)
      BY <1>1 DEF SyncInv, TypeOK
    <3>2. Sent(Append(pushQueue, Welcome), Welcome)
      BY <3>1, MessageTypes, SentAppended
    <3>3. QED
      BY <2>1, <3>2 DEF WelcomeComes, Sent
  <2>3. request.at \notin {"server", "read", "wire"}
    BY <1>1, <2>1 DEF SocketIsGreeted
  <2>4. phase = "folding" <=> request.at = "received"
    BY <1>1 DEF SyncInv, RequestFitsPhase
  <2>5. WillRead(logLength)'
    BY <2>1, <2>2, <2>3, <2>4 DEF WillRead
  <2>6. QED
    BY <2>1, <2>5 DEF WillRead
<1>6. CASE ~Connect
  <2>1. connected /\ opened' = m
    BY <1>2, <1>6
    DEF Next, ServerStep, ClientStep, CommitEvents, EF!Extend, PublishEvent, EF!Announce, Push,
        Register, ReadDatabase, Respond, Disconnect, ServerRestart, EF!StartOver, ConnectionLost,
        ReceiveEvent, ReceiveWelcome, ReceiveIgnored, TimerFires, ReceiveSnapshot,
        ReceiveEmptyReplay, ReceiveReplay, FinishFold, RequestTimesOut, RequestFails, Reject, vars
  <2>2. gaveUp \/ WillRead(m)
    BY <1>2, <2>1 DEF NewsInv, NewsIsOnItsWay, WillRead
  <2>3. WillRead(m)'
    BY <1>1, <1>3, <1>4, <2>1, <2>2, NextWillRead
  <2>4. WillRead(opened)'
    BY <2>1, <2>3 DEF WillRead
  <2>5. CASE CommitEvents
    <3>1. /\ published' = published /\ published \in 0..n
          /\ logLength' \in Nat /\ logLength' > n
      BY <1>1, <1>3, <2>5
      DEF CommitEvents, EF!Extend, EF!EventsPerCommand, SyncInv, TypeOK
    <3>2. published' < logLength'
      BY <1>4, <3>1
    <3>3. QED
      BY <2>4, <3>2 DEF WillBeTold
  <2>6. CASE ~CommitEvents
    <3>1. logLength' = n
      BY <1>3, <1>6, <2>6
      DEF Next, ServerStep, ClientStep, PublishEvent, EF!Announce, Push, Register, ReadDatabase,
          Respond, Disconnect, ServerRestart, EF!StartOver, ConnectionLost, ReceiveEvent,
          ReceiveWelcome, ReceiveIgnored, TimerFires, ReceiveSnapshot, ReceiveEmptyReplay,
          ReceiveReplay, FinishFold, RequestTimesOut, RequestFails, Reject, vars
    <3>2. missed' \in Nat /\ missed' <= n
      BY <3>1, <1>4 DEF SyncInv, TypeOK
    <3>3. missed' >= missed
      <4>1. missed \in Nat /\ \A job \in Jobs : job.sequence \in Nat
        BY <1>1 DEF SyncInv, TypeOK, Jobs
      <4>2. CASE Push
        <5>1. Head(pushQueue) \in Jobs
          BY <1>1, <4>2, HeadAndTail DEF Push, SyncInv, TypeOK
        <5>2. QED
          BY <4>1, <4>2, <5>1 DEF Push, Larger
      <4>3. CASE ~Push
        <5>1. missed' = missed
          BY <1>6, <2>1, <4>3
          DEF Next, ServerStep, ClientStep, CommitEvents, EF!Extend, PublishEvent, EF!Announce,
              Register, ReadDatabase, Respond, Disconnect, ServerRestart, EF!StartOver,
              ConnectionLost, ReceiveEvent, ReceiveWelcome, ReceiveIgnored, TimerFires,
              ReceiveSnapshot, ReceiveEmptyReplay, ReceiveReplay, FinishFold, RequestTimesOut,
              RequestFails, Reject, vars
        <5>2. QED
          BY <4>1, <5>1
      <4>4. QED
        BY <4>2, <4>3
    <3>4. gaveUp \/ missed = n \/ WillBeTold(n) \/ WillRead(n)
      BY <1>3, <2>1 DEF NewsInv, NewsIsOnItsWay, WillRead, WillBeTold
    <3>5. CASE missed = n
      BY <1>4, <2>4, <3>1, <3>2, <3>3, <3>5
    <3>6. CASE gaveUp \/ WillRead(n)
      <4>1. WillRead(n)'
        BY <1>1, <1>3, <1>4, <2>1, <3>6, NextWillRead
      <4>2. QED
        BY <2>4, <3>1, <4>1 DEF WillRead
    <3>7. CASE WillBeTold(n)
      <4>1. missed' >= n \/ WillBeTold(n)' \/ latestSequence' >= n
        BY <1>1, <1>3, <1>4, <2>1, <3>7, NextWillBeTold
      <4>2. missed' >= n => missed' = n
        BY <1>4, <3>2
      <4>3. QED
        BY <2>4, <3>1, <4>1, <4>2 DEF WillRead, WillBeTold
    <3>8. QED
      BY <3>4, <3>5, <3>6, <3>7
  <2>7. QED
    BY <2>5, <2>6
<1>7. QED
  BY <1>5, <1>6

(* With nothing left to arrive, what the client will read or be told of it *)
(* was told of, and so holds.                                              *)
LEMMA InformedAtRest ==
    ASSUME InformedInv, NewsInv
    PROVE  QuietClientIsInformed
<1> SUFFICES ASSUME phase = "idle", ~timer, ~gaveUp, connected, Silent
             PROVE  Len(model) >= opened /\ (missed = logLength \/ Len(model) = logLength)
  BY DEF InformedInv, ToldIsFolded, QuietClientIsInformed
<1>1. /\ Len(model) \in Nat /\ latestSequence \in Nat /\ opened \in Nat /\ logLength \in Nat
      /\ Len(model) >= latestSequence /\ Len(model) <= logLength
  BY SyncAssumption DEF NewsInv, InformedInv, ToldIsFolded, SyncInv, TypeOK, ModelIsPrefix
<1>2. DOMAIN pushQueue = {} /\ DOMAIN inbound = {}
  BY DEF Silent
<1>3. ~WelcomeComes /\ ~WillBeTold(logLength)
  BY <1>1, <1>2 DEF Silent, WelcomeComes, WillBeTold, Sent
<1>4. latestSequence >= opened /\ (missed = logLength \/ latestSequence >= logLength)
  BY <1>3 DEF NewsInv, NewsIsOnItsWay, WillRead
<1>5. QED
  BY <1>1, <1>4
-----------------------------------------------------------------------------
(* If one replay can return the whole log, a client at rest lacks no event *)
(* it was told of, however pushes, flushes, answers and losses interleave; *)
(* connected, it lacks nothing committed before its socket was opened, and *)
(* nothing at all unless the last event was pushed between its welcome and *)
(* its registration.                                                       *)
THEOREM InformedTheorem ==
    ASSUME ReplayLimit >= MaxLog
    PROVE  Spec => []QuietClientIsInformed
<1>1. InformedInv /\ SyncInv' /\ [Next]_vars => InformedInv'
  BY NextInformed
<1>2. NewsInv /\ SyncInv' /\ [Next]_vars => NewsInv'
  BY NextNewsInv
<1>3. InformedInv /\ NewsInv => QuietClientIsInformed
  BY InformedAtRest
<1>4. QED
  BY <1>1, <1>2, <1>3, InitInformed, InitNewsInv, SyncInvariant, PTL DEF Spec
=============================================================================
