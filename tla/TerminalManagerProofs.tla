------------------------ MODULE TerminalManagerProofs ------------------------
(***************************************************************************)
(* Proofs about the server's terminals: the type invariant, that sessions  *)
(* and processes agree, that no process is lost, that few sessions are     *)
(* retained and that histories are saved, for any terminals and threads,   *)
(* any limit of retained sessions and any number of calls and failures.    *)
(***************************************************************************)
EXTENDS TerminalManagerProperties, FiniteSetTheorems, WellFoundedInduction, TLAPS

Launching == {"start", "spawn"}

(* The terminal of a session in the map is the one it is in the map of.    *)
MapInv == \A t \in Terminals : sessions[t] # 0 => objects[sessions[t]].terminal = t

(* An operation works on terminals of its thread; on some as it has found  *)
(* or left them, without a session, and on a session without a process.    *)
OperationOf(th) ==
    /\ \A t \in op[th].terminals \cup op[th].deletes : ThreadOf[t] = th
    /\ op[th].kind = "read" => \A t \in op[th].terminals : sessions[t] = 0
    /\ op[th].kind = "close" => \A t \in op[th].deletes : sessions[t] = 0
    /\ op[th].kind \in Launching =>
        /\ objects[op[th].object].process = 0
        /\ ThreadOf[objects[op[th].object].terminal] = th

OperationsInv == \A th \in Threads : OperationOf(th)

(* Only the operation in progress waits for writes.                        *)
WaitInv ==
    \A t \in Terminals : t \notin op[ThreadOf[t]].terminals => persist[t].waiting = "no"

(* The operation of a terminal's thread launches the session s.            *)
Launched(s) ==
    LET operation == op[ThreadOf[objects[s].terminal]]
    IN  operation.kind \in Launching /\ operation.object = s

(* The session s has left the map with the others when the server shut     *)
(* down, and none takes its place.                                         *)
Disposed(s) ==
    LET t == objects[s].terminal
    IN  disposed /\ sessions[t] = 0 /\ op[ThreadOf[t]].kind # "read"

(* A session that has a process or is about to have one is in the map.     *)
LocatedInv ==
    \A s \in DOMAIN objects :
        objects[s].process # 0 \/ Launched(s) =>
            sessions[objects[s].terminal] = s \/ s \in orphans \/ Disposed(s)

(* The chains that an eviction detached are not empty.                     *)
Full(chains) == \A i \in DOMAIN chains : chains[i] # <<>>
DetachedInv == \A t \in Terminals : Full(persist[t].detached)

(* Only processes that were stopped will be killed.                        *)
TimersInv == \A p \in killTimers : ~processes[p].subscribed

OrphansInv == \A s \in orphans : objects[s].terminal \in unsaved

(* A strict linear order of the terminals I.                               *)
Linear(order, I) ==
    /\ \A t \in I : <<t, t>> \notin order
    /\ \A t, u \in I : t # u => <<t, u>> \in order \/ <<u, t>> \in order
    /\ \A t, u, v \in I : <<t, u>> \in order /\ <<u, v>> \in order => <<t, v>> \in order

OrderInv == Linear(older, Inactive(sessions, objects))

RuntimeInv ==
    /\ TypeOK /\ OwnersAgree /\ MapInv /\ OperationsInv /\ WaitInv /\ LocatedInv /\ OrphansInv
    /\ DetachedInv /\ TimersInv /\ OrderInv /\ InactiveSessionsAreFew
-----------------------------------------------------------------------------
(* Histories.                                                              *)

Stored(content) == IF content = Absent THEN 0 ELSE content

(* What the file will hold when the writes are done.                       *)
Latest(r, content) ==
    IF r.pending # Absent THEN r.pending
    ELSE IF r.chain # <<>> THEN r.chain[Len(r.chain)].history
    ELSE Stored(content)

(* At most one write of a chain is awaited, and only by who waits.         *)
AwaitedOnce(r) ==
    /\ \A i, j \in DOMAIN r.chain : r.chain[i].awaited /\ r.chain[j].awaited => i = j
    /\ r.waiting = "no" => \A i \in DOMAIN r.chain : ~r.chain[i].awaited

LastAwaited(chain) == \A i \in DOMAIN chain : chain[i].awaited <=> i = Len(chain)

(* Nothing is pending, and the operation in progress awaits the last write.*)
Settling(r) ==
    /\ r.pending = Absent
    /\ \/ /\ r.detached = <<>> /\ LastAwaited(r.chain)
          /\ r.chain # <<>> => r.waiting # "no"
       \/ /\ r.chain = <<>> /\ Len(r.detached) = 1
          /\ r.detached[1] # <<>> /\ LastAwaited(r.detached[1])
          /\ r.waiting # "no"

Reading(t) == op[ThreadOf[t]].kind = "read" /\ t \in op[ThreadOf[t]].terminals

(* What is being written is what the session of the terminal holds, and    *)
(* nothing is written late of one that is read again or was removed.       *)
HistoryOf(t) ==
    /\ ~disposed => persist[t].detached = <<>> /\ AwaitedOnce(persist[t])
    /\ sessions[t] # 0 =>
        /\ persist[t].detached = <<>>
        /\ Latest(persist[t], file[t]) = objects[sessions[t]].history
    /\ sessions[t] = 0 /\ (~disposed \/ Reading(t)) => Settling(persist[t])
    /\ t \in deleted /\ ~disposed =>
        sessions[t] = 0 /\ file[t] = Absent /\ ~Unfinished(persist[t])

HistoryInv == \A t \in Terminals \ unsaved : HistoryOf(t)

ManagerInv == RuntimeInv /\ HistoryInv
-----------------------------------------------------------------------------
(* The persistence of one terminal.                                        *)

LEMMA AbsentIsNoHistory == \A h \in Nat : h # Absent
BY DEF Absent

LEMMA PersistenceFields ==
    ASSUME NEW r \in Persistence
    PROVE  /\ r.pending \in Nat \cup {Absent} /\ r.timer \in BOOLEAN /\ r.chain \in Seq(Writes)
           /\ r.detached \in Seq(Seq(Writes)) /\ r.waiting \in {"no", "write", "tail", "persist"}
BY DEF Persistence

LEMMA WriteTypes ==
    ASSUME NEW h \in Nat
    PROVE  /\ [history |-> h, awaited |-> TRUE] \in Writes
           /\ [history |-> h, awaited |-> FALSE] \in Writes
BY DEF Writes

LEMMA AppendWrite ==
    ASSUME NEW chain \in Seq(Writes), NEW h \in Nat
    PROVE  /\ Append(chain, [history |-> h, awaited |-> TRUE]) \in Seq(Writes)
           /\ Append(chain, [history |-> h, awaited |-> FALSE]) \in Seq(Writes)
PROOF
  <1> DEFINE yes == [history |-> h, awaited |-> TRUE]
             no == [history |-> h, awaited |-> FALSE]
  <1>1. yes \in Writes /\ no \in Writes
    BY WriteTypes
  <1> HIDE DEF yes, no
  <1>2. Append(chain, yes) \in Seq(Writes) /\ Append(chain, no) \in Seq(Writes)
    BY <1>1
  <1> QED
    BY <1>2 DEF yes, no

LEMMA PersistHistoryFields ==
    ASSUME NEW r \in Persistence, NEW h \in Nat
    PROVE  LET n == PersistHistory(r, h)
           IN  /\ n \in Persistence /\ n.pending = Absent /\ n.detached = r.detached
               /\ n.chain = Append(r.chain, [history |-> h, awaited |-> TRUE])
               /\ n.waiting = "persist"
PROOF
  <1> DEFINE chain == Append(r.chain, [history |-> h, awaited |-> TRUE])
             n == [r EXCEPT !.chain = chain, !.pending = Absent, !.timer = FALSE,
                            !.waiting = "persist"]
  <1>1. chain \in Seq(Writes)
    BY PersistenceFields, AppendWrite
  <1>2. PersistHistory(r, h) = n
    BY DEF PersistHistory, Enqueued
  <1> HIDE DEF chain
  <1>3. n \in Persistence /\ n.pending = Absent /\ n.detached = r.detached /\ n.chain = chain
        /\ n.waiting = "persist"
    BY <1>1 DEF Persistence
  <1> QED
    BY <1>2, <1>3 DEF chain

LEMMA QueuePersistFields ==
    ASSUME NEW r \in Persistence, NEW h \in Nat
    PROVE  LET n == QueuePersist(r, h)
           IN  /\ n \in Persistence /\ n.pending = h /\ n.detached = r.detached
               /\ n.chain = r.chain /\ n.waiting = r.waiting
BY DEF QueuePersist, Persistence

(* The last write of a chain becomes awaited.                              *)
LEMMA FlushTailFields ==
    ASSUME NEW r \in Persistence
    PROVE  LET n == FlushTail(r)
           IN  /\ n \in Persistence /\ n.pending = r.pending /\ n.detached = r.detached
               /\ Len(n.chain) = Len(r.chain) /\ DOMAIN n.chain = DOMAIN r.chain
               /\ \A i \in DOMAIN r.chain :
                    /\ n.chain[i].history = r.chain[i].history
                    /\ n.chain[i].awaited <=> r.chain[i].awaited \/ i = Len(r.chain)
               /\ n.waiting = IF r.chain = <<>> THEN "no" ELSE "tail"
PROOF
  <1> DEFINE n == FlushTail(r)
  <1>1. CASE r.chain = <<>>
    <2> DEFINE m == [r EXCEPT !.waiting = "no"]
    <2>1. n = m
      BY <1>1 DEF FlushTail
    <2>2. m \in Persistence /\ m.pending = r.pending /\ m.detached = r.detached
          /\ m.chain = r.chain /\ m.waiting = "no"
      BY DEF Persistence
    <2> QED
      BY <2>1, <2>2, <1>1, PersistenceFields
  <1>2. CASE r.chain # <<>>
    <2> DEFINE k == Len(r.chain)
               last == [r.chain[k] EXCEPT !.awaited = TRUE]
               chain == [r.chain EXCEPT ![k] = last]
               m == [r EXCEPT !.chain = chain, !.waiting = "tail"]
    <2>1. k \in DOMAIN r.chain /\ r.chain[k] \in Writes /\ r.chain \in Seq(Writes)
      BY <1>2, PersistenceFields
    <2>2. n = m
      BY <1>2 DEF FlushTail
    <2>3. last \in Writes /\ last.history = r.chain[k].history /\ last.awaited = TRUE
      BY <2>1 DEF Writes
    <2> HIDE DEF last
    <2>4. /\ chain \in Seq(Writes) /\ Len(chain) = k /\ DOMAIN chain = DOMAIN r.chain
          /\ chain[k] = last /\ \A i \in DOMAIN r.chain \ {k} : chain[i] = r.chain[i]
      BY <2>1, <2>3
    <2> HIDE DEF chain
    <2>5. /\ m \in Persistence /\ m.pending = r.pending /\ m.detached = r.detached
          /\ m.chain = chain /\ m.waiting = "tail"
      BY <2>4 DEF Persistence
    <2> HIDE DEF m, n
    <2>6. \A i \in DOMAIN r.chain :
            /\ chain[i].history = r.chain[i].history
            /\ chain[i].awaited <=> r.chain[i].awaited \/ i = k
      BY <2>3, <2>4
    <2> QED
      BY <1>2, <2>2, <2>4, <2>5, <2>6 DEF n
  <1> QED
    BY <1>1, <1>2

LEMMA FlushLoopFields ==
    ASSUME NEW r \in Persistence
    PROVE  LET n == FlushLoop(r)
           IN  /\ r.pending = Absent => n = FlushTail(r)
               /\ r.pending # Absent =>
                    /\ n \in Persistence /\ n.pending = Absent /\ n.detached = r.detached
                    /\ n.chain = Append(r.chain, [history |-> r.pending, awaited |-> TRUE])
                    /\ n.waiting = "write"
PROOF
  <1>1. CASE r.pending = Absent
    BY <1>1 DEF FlushLoop
  <1>2. CASE r.pending # Absent
    <2> DEFINE chain == Append(r.chain, [history |-> r.pending, awaited |-> TRUE])
               n == [r EXCEPT !.chain = chain, !.pending = Absent, !.waiting = "write"]
    <2>1. chain \in Seq(Writes)
      BY <1>2, PersistenceFields, AppendWrite
    <2>2. FlushLoop(r) = n
      BY <1>2 DEF FlushLoop, Enqueued
    <2> HIDE DEF chain
    <2>3. n \in Persistence /\ n.pending = Absent /\ n.detached = r.detached /\ n.chain = chain
          /\ n.waiting = "write"
      BY <2>1 DEF Persistence
    <2> QED
      BY <1>2, <2>2, <2>3 DEF chain
  <1> QED
    BY <1>1, <1>2

Finished(r) == r.pending = Absent /\ r.chain = <<>> /\ r.detached = <<>>

Unawaited(chain) == \A i \in DOMAIN chain : ~chain[i].awaited

LEMMA UnfinishedIsNotFinished == \A r : Finished(r) <=> ~Unfinished(r)
BY DEF Finished, Unfinished

(* What is left of the persistence r by a flush that gets as far as n.     *)
Flushed(r, n) ==
    /\ n \in Persistence /\ n.detached = r.detached
    /\ \A content : Latest(n, content) = Latest(r, content)
    /\ Unawaited(r.chain) => AwaitedOnce(n)
    /\ r.pending = Absent /\ r.chain = <<>> =>
            n.pending = Absent /\ n.chain = <<>> /\ n.waiting = "no"

LEMMA FlushTailFlushes ==
    ASSUME NEW r \in Persistence
    PROVE  /\ Flushed(r, FlushTail(r))
           /\ r.pending = Absent /\ Unawaited(r.chain) /\ r.detached = <<>> =>
                Settling(FlushTail(r))
PROOF
  <1> DEFINE n == FlushTail(r)
  <1>1. /\ n \in Persistence /\ n.pending = r.pending /\ n.detached = r.detached
        /\ Len(n.chain) = Len(r.chain) /\ DOMAIN n.chain = DOMAIN r.chain
        /\ \A i \in DOMAIN r.chain :
             /\ n.chain[i].history = r.chain[i].history
             /\ n.chain[i].awaited <=> r.chain[i].awaited \/ i = Len(r.chain)
        /\ n.waiting = IF r.chain = <<>> THEN "no" ELSE "tail"
    BY FlushTailFields
  <1>2. /\ r.chain \in Seq(Writes) /\ n.chain \in Seq(Writes)
        /\ DOMAIN r.chain = 1..Len(r.chain) /\ Len(r.chain) \in Nat
    BY <1>1, PersistenceFields
  <1>3. n.chain = <<>> <=> r.chain = <<>>
    BY <1>1, <1>2
  <1>4. r.chain # <<>> => Len(r.chain) \in DOMAIN r.chain
    BY <1>2
  <1> HIDE DEF n
  <1>5. \A content : Latest(n, content) = Latest(r, content)
    BY <1>1, <1>3, <1>4 DEF Latest
  <1>6. Unawaited(r.chain) => AwaitedOnce(n) /\ LastAwaited(n.chain)
    BY <1>1, <1>2, <1>3 DEF Unawaited, AwaitedOnce, LastAwaited
  <1>7. r.pending = Absent /\ Unawaited(r.chain) /\ r.detached = <<>> => Settling(n)
    BY <1>1, <1>3, <1>6 DEF Settling
  <1> QED
    BY <1>1, <1>3, <1>5, <1>6, <1>7 DEF Flushed, n

LEMMA FlushLoopFlushes ==
    ASSUME NEW r \in Persistence
    PROVE  /\ Flushed(r, FlushLoop(r))
           /\ Unawaited(r.chain) /\ r.detached = <<>> => Settling(FlushLoop(r))
PROOF
  <1> DEFINE n == FlushLoop(r)
  <1>1. CASE r.pending = Absent
    BY <1>1, FlushTailFlushes, FlushLoopFields
  <1>2. CASE r.pending # Absent
    <2> DEFINE write == [history |-> r.pending, awaited |-> TRUE]
    <2>1. /\ n \in Persistence /\ n.pending = Absent /\ n.detached = r.detached
          /\ n.chain = Append(r.chain, write) /\ n.waiting = "write"
      BY <1>2, FlushLoopFields
    <2>2. /\ r.chain \in Seq(Writes) /\ r.pending \in Nat
          /\ DOMAIN r.chain = 1..Len(r.chain) /\ Len(r.chain) \in Nat
      BY <1>2, PersistenceFields
    <2>3. write \in Writes /\ write.history = r.pending /\ write.awaited
      BY <2>2, WriteTypes
    <2> HIDE DEF write, n
    <2>4. /\ DOMAIN n.chain = 1..(Len(r.chain) + 1) /\ Len(n.chain) = Len(r.chain) + 1
          /\ n.chain # <<>> /\ n.chain[Len(n.chain)] = write
          /\ \A i \in DOMAIN r.chain : n.chain[i] = r.chain[i]
      BY <2>1, <2>2, <2>3
    <2>5. \A content : Latest(n, content) = Latest(r, content)
      BY <1>2, <2>1, <2>3, <2>4 DEF Latest
    <2>6. Unawaited(r.chain) => AwaitedOnce(n) /\ LastAwaited(n.chain)
      BY <2>1, <2>2, <2>3, <2>4 DEF Unawaited, AwaitedOnce, LastAwaited
    <2>7. Unawaited(r.chain) /\ r.detached = <<>> => Settling(n)
      BY <2>1, <2>6 DEF Settling
    <2> QED
      BY <1>2, <2>1, <2>5, <2>6, <2>7 DEF Flushed, n
  <1> QED
    BY <1>1, <1>2

LEMMA FlushPersistQueueFlushes ==
    ASSUME NEW r \in Persistence
    PROVE  /\ Flushed(r, FlushPersistQueue(r))
           /\ Unawaited(r.chain) /\ r.detached = <<>> => Settling(FlushPersistQueue(r))
PROOF
  <1> DEFINE q == [r EXCEPT !.timer = FALSE]
  <1>1. q \in Persistence /\ q.pending = r.pending /\ q.chain = r.chain /\ q.detached = r.detached
    BY DEF Persistence
  <1>2. /\ Flushed(q, FlushLoop(q))
        /\ Unawaited(q.chain) /\ q.detached = <<>> => Settling(FlushLoop(q))
    BY <1>1, FlushLoopFlushes
  <1>3. FlushPersistQueue(r) = FlushLoop(q)
    BY DEF FlushPersistQueue
  <1> HIDE DEF q
  <1>4. \A content : Latest(q, content) = Latest(r, content)
    BY <1>1 DEF Latest
  <1> QED
    BY <1>1, <1>2, <1>3, <1>4 DEF Flushed

LEMMA ResumedFlushes ==
    ASSUME NEW r \in Persistence
    PROVE  Flushed(r, Resumed(r)) /\ (r.waiting = "no" => Resumed(r).waiting = "no")
PROOF
  <1>1. CASE r.waiting = "write"
    BY <1>1, FlushTailFlushes DEF Resumed
  <1>2. CASE r.waiting = "tail"
    BY <1>2, FlushLoopFlushes DEF Resumed
  <1>3. CASE r.waiting \notin {"write", "tail"}
    <2> DEFINE n == [r EXCEPT !.waiting = "no"]
    <2>1. Resumed(r) = n
      BY <1>3 DEF Resumed
    <2>2. /\ n \in Persistence /\ n.pending = r.pending /\ n.chain = r.chain
          /\ n.detached = r.detached /\ n.waiting = "no"
      BY DEF Persistence
    <2> HIDE DEF n
    <2>3. Unawaited(r.chain) => AwaitedOnce(n)
      BY <2>2 DEF Unawaited, AwaitedOnce
    <2>4. \A content : Latest(n, content) = Latest(r, content)
      BY <2>2 DEF Latest
    <2> QED
      BY <2>1, <2>2, <2>3, <2>4 DEF Flushed
  <1> QED
    BY <1>1, <1>2, <1>3

LEMMA ForgottenFields ==
    ASSUME NEW r \in Persistence
    PROVE  LET n == Forgotten(r)
           IN  /\ n \in Persistence /\ n.pending = Absent /\ n.chain = <<>>
               /\ n.waiting = r.waiting
               /\ n.detached = IF r.chain = <<>> THEN r.detached ELSE Append(r.detached, r.chain)
PROOF
  <1> DEFINE detached == IF r.chain = <<>> THEN r.detached ELSE Append(r.detached, r.chain)
             n == [r EXCEPT !.pending = Absent, !.timer = FALSE, !.chain = <<>>,
                            !.detached = detached]
  <1>1. detached \in Seq(Seq(Writes))
    BY PersistenceFields
  <1>2. Forgotten(r) = n
    BY DEF Forgotten
  <1>3. <<>> \in Seq(Writes)
    OBVIOUS
  <1> HIDE DEF detached
  <1>4. n \in Persistence /\ n.pending = Absent /\ n.chain = <<>> /\ n.waiting = r.waiting
        /\ n.detached = detached
    BY <1>1, <1>3 DEF Persistence
  <1> QED
    BY <1>2, <1>4 DEF detached

LEMMA TimerExpiredFields ==
    ASSUME NEW r \in Persistence
    PROVE  LET n == TimerExpired(r)
           IN  /\ n \in Persistence /\ n.detached = r.detached /\ n.waiting = r.waiting
               /\ n.pending = Absent
               /\ n.chain = IF r.pending = Absent THEN r.chain
                            ELSE Append(r.chain, [history |-> r.pending, awaited |-> FALSE])
PROOF
  <1>1. CASE r.pending = Absent
    BY <1>1 DEF TimerExpired, Persistence
  <1>2. CASE r.pending # Absent
    <2> DEFINE chain == Append(r.chain, [history |-> r.pending, awaited |-> FALSE])
               n == [r EXCEPT !.chain = chain, !.timer = FALSE, !.pending = Absent]
    <2>1. chain \in Seq(Writes)
      BY <1>2, PersistenceFields, AppendWrite
    <2>2. TimerExpired(r) = n
      BY <1>2 DEF TimerExpired, Enqueued
    <2> HIDE DEF chain
    <2>3. n \in Persistence /\ n.pending = Absent /\ n.detached = r.detached /\ n.chain = chain
          /\ n.waiting = r.waiting
      BY <2>1 DEF Persistence
    <2> QED
      BY <1>2, <2>2, <2>3 DEF chain
  <1> QED
    BY <1>1, <1>2

LEMMA TimerExpiredKeeps ==
    ASSUME NEW r \in Persistence
    PROVE  LET n == TimerExpired(r)
           IN  /\ \A content : Latest(n, content) = Latest(r, content)
               /\ AwaitedOnce(r) => AwaitedOnce(n)
               /\ Settling(r) => Settling(n)
               /\ ~Unfinished(r) => ~Unfinished(n)
PROOF
  <1> DEFINE n == TimerExpired(r)
  <1>1. /\ n \in Persistence /\ n.detached = r.detached /\ n.waiting = r.waiting
        /\ n.pending = Absent
        /\ n.chain = IF r.pending = Absent THEN r.chain
                     ELSE Append(r.chain, [history |-> r.pending, awaited |-> FALSE])
    BY TimerExpiredFields
  <1> HIDE DEF n
  <1>2. CASE r.pending = Absent
    BY <1>1, <1>2 DEF Latest, AwaitedOnce, Settling, Unfinished, n
  <1>3. CASE r.pending # Absent
    <2> DEFINE write == [history |-> r.pending, awaited |-> FALSE]
    <2>1. /\ r.chain \in Seq(Writes) /\ r.pending \in Nat
          /\ DOMAIN r.chain = 1..Len(r.chain) /\ Len(r.chain) \in Nat
      BY <1>3, PersistenceFields
    <2>2. write \in Writes /\ write.history = r.pending /\ ~write.awaited /\ n.chain = Append(r.chain, write)
      BY <2>1, <1>1, <1>3, WriteTypes
    <2> HIDE DEF write
    <2>3. /\ DOMAIN n.chain = 1..(Len(r.chain) + 1) /\ Len(n.chain) = Len(r.chain) + 1
          /\ n.chain # <<>> /\ n.chain[Len(n.chain)] = write
          /\ \A i \in DOMAIN r.chain : n.chain[i] = r.chain[i]
      BY <2>1, <2>2
    <2>4. \A content : Latest(n, content) = Latest(r, content)
      BY <1>1, <1>3, <2>2, <2>3 DEF Latest
    <2>5. AwaitedOnce(r) => AwaitedOnce(n)
      BY <1>1, <2>1, <2>2, <2>3 DEF AwaitedOnce
    <2> QED
      BY <1>3, <2>4, <2>5 DEF Settling, Unfinished, n
  <1> QED
    BY <1>2, <1>3

LEMMA TailOfWrites ==
    ASSUME NEW q \in Seq(Writes), q # <<>>
    PROVE  /\ Tail(q) \in Seq(Writes) /\ Len(Tail(q)) = Len(q) - 1 /\ Len(q) \in Nat \ {0}
           /\ DOMAIN q = 1..Len(q) /\ DOMAIN Tail(q) = 1..(Len(q) - 1)
           /\ \A i \in 1..(Len(q) - 1) : Tail(q)[i] = q[i + 1]
           /\ Head(q) = q[1] /\ Head(q) \in Writes
OBVIOUS

(* The write at the head of the chain leaves it.                           *)
LEMMA DequeuedKeeps ==
    ASSUME NEW r \in Persistence, r.chain # <<>>
    PROVE  LET n == Dequeued(r)
           IN  /\ n \in Persistence /\ n.detached = r.detached
               /\ r.waiting = "no" => n.waiting = "no"
               /\ \A content : Latest(n, Head(r.chain).history) = Latest(r, content)
               /\ AwaitedOnce(r) => AwaitedOnce(n)
               /\ Settling(r) => Settling(n)
PROOF
  <1> DEFINE n == Dequeued(r)
             chain == Tail(r.chain)
             rest == [r EXCEPT !.chain = chain]
             h == Head(r.chain).history
  <1>1. /\ r.chain \in Seq(Writes) /\ chain \in Seq(Writes) /\ Len(r.chain) \in Nat \ {0}
        /\ DOMAIN r.chain = 1..Len(r.chain) /\ DOMAIN chain = 1..(Len(r.chain) - 1)
        /\ Len(chain) = Len(r.chain) - 1
        /\ \A i \in 1..(Len(r.chain) - 1) : chain[i] = r.chain[i + 1]
        /\ Head(r.chain) = r.chain[1] /\ h \in Nat
    BY PersistenceFields, TailOfWrites DEF Writes
  <1>2. n = IF Head(r.chain).awaited THEN Resumed(rest) ELSE rest
    BY DEF Dequeued
  <1> HIDE DEF chain, n
  <1>3. /\ rest \in Persistence /\ rest.pending = r.pending /\ rest.chain = chain
        /\ rest.detached = r.detached /\ rest.waiting = r.waiting
    BY <1>1 DEF Persistence
  <1> HIDE DEF rest
  <1>4. Flushed(rest, Resumed(rest)) /\ (rest.waiting = "no" => Resumed(rest).waiting = "no")
    BY <1>3, ResumedFlushes
  <1>5. \A content : Latest(rest, h) = Latest(r, content)
    <2>1. CASE r.pending # Absent
      BY <2>1, <1>3 DEF Latest
    <2>2. CASE r.pending = Absent /\ chain = <<>>
      <3>1. Len(r.chain) = 1
        BY <2>2, <1>1
      <3>2. Stored(h) = h
        BY <1>1, AbsentIsNoHistory DEF Stored
      <3> QED
        BY <2>2, <3>1, <3>2, <1>1, <1>3 DEF Latest
    <2>3. CASE r.pending = Absent /\ chain # <<>>
      <3>1. Len(chain) \in 1..(Len(r.chain) - 1) /\ chain[Len(chain)] = r.chain[Len(r.chain)]
        BY <2>3, <1>1
      <3> QED
        BY <2>3, <3>1, <1>3 DEF Latest
    <2> QED
      BY <2>1, <2>2, <2>3
  <1>6. CASE ~Head(r.chain).awaited
    <2>1. n = rest
      BY <1>2, <1>6
    <2>2. AwaitedOnce(r) => AwaitedOnce(n)
      <3> SUFFICES ASSUME AwaitedOnce(r)
                   PROVE  AwaitedOnce(rest)
        BY <2>1
      <3>1. \A i \in DOMAIN chain : i + 1 \in DOMAIN r.chain /\ chain[i] = r.chain[i + 1]
        BY <1>1
      <3>2. ASSUME NEW i \in DOMAIN chain, NEW j \in DOMAIN chain, chain[i].awaited, chain[j].awaited
            PROVE  i = j
        <4>1. i + 1 = j + 1
          BY <3>1, <3>2 DEF AwaitedOnce
        <4> QED
          BY <4>1, <1>1
      <3> QED
        BY <3>1, <3>2, <1>3 DEF AwaitedOnce
    <2>3. Settling(r) => Settling(n)
      <3> SUFFICES ASSUME Settling(r)
                   PROVE  Settling(rest)
        BY <2>1
      <3>1. r.detached = <<>> /\ LastAwaited(r.chain) /\ r.waiting # "no" /\ r.pending = Absent
        BY DEF Settling
      <3>2. LastAwaited(chain)
        BY <3>1, <1>1 DEF LastAwaited
      <3> QED
        BY <3>1, <3>2, <1>3 DEF Settling
    <2> QED
      BY <2>1, <2>2, <2>3, <1>3, <1>5 DEF n
  <1>7. CASE Head(r.chain).awaited
    <2>1. n = Resumed(rest)
      BY <1>2, <1>7
    <2>2. AwaitedOnce(r) => AwaitedOnce(n)
      <3> SUFFICES ASSUME AwaitedOnce(r)
                   PROVE  Unawaited(chain)
        BY <2>1, <1>3, <1>4 DEF Flushed
      <3>1. \A i \in DOMAIN r.chain : r.chain[i].awaited => i = 1
        BY <1>1, <1>7 DEF AwaitedOnce
      <3>2. \A i \in DOMAIN chain : i + 1 \in DOMAIN r.chain /\ chain[i] = r.chain[i + 1] /\ i + 1 # 1
        BY <1>1
      <3> QED
        BY <3>1, <3>2 DEF Unawaited
    <2>3. Settling(r) => Settling(n)
      <3> SUFFICES ASSUME Settling(r)
                   PROVE  Settling(n)
        OBVIOUS
      <3>1. r.detached = <<>> /\ LastAwaited(r.chain) /\ r.pending = Absent
        BY DEF Settling
      <3>2. Len(r.chain) = 1
        <4>1. 1 \in DOMAIN r.chain /\ r.chain[1].awaited
          BY <1>1, <1>7
        <4> QED
          BY <3>1, <4>1 DEF LastAwaited
      <3>3. chain = <<>>
        BY <3>2, <1>1
      <3>4. n.pending = Absent /\ n.chain = <<>> /\ n.detached = <<>>
        BY <3>1, <3>3, <2>1, <1>3, <1>4 DEF Flushed
      <3> QED
        BY <3>4 DEF Settling, LastAwaited
    <2> QED
      BY <2>1, <2>2, <2>3, <1>3, <1>4, <1>5 DEF Flushed, n
  <1> QED
    BY <1>6, <1>7

LEMMA ShortenedDetached ==
    ASSUME NEW d \in Seq(Seq(Writes)), d # <<>>, Full(d)
    PROVE  LET q == (IF Len(Head(d)) = 1 THEN <<>> ELSE <<Tail(Head(d))>>) \o Tail(d)
           IN  /\ q \in Seq(Seq(Writes)) /\ Full(q)
               /\ Len(d) = 1 =>
                    /\ Len(d[1]) = 1 => q = <<>>
                    /\ Len(d[1]) # 1 => Len(q) = 1 /\ q[1] = Tail(d[1])
PROOF
  <1> DEFINE e == Tail(d)
  <1>1. /\ e \in Seq(Seq(Writes)) /\ Head(d) = d[1] /\ d[1] \in Seq(Writes) /\ d[1] # <<>>
        /\ Len(d) \in Nat \ {0} /\ Len(e) = Len(d) - 1
        /\ \A i \in DOMAIN e : i + 1 \in DOMAIN d /\ e[i] = d[i + 1]
    BY DEF Full
  <1>2. Full(e)
    BY <1>1 DEF Full
  <1> HIDE DEF e
  <1>3. CASE Len(d[1]) = 1
    <2>1. <<>> \o e = e
      BY <1>1
    <2>2. Len(d) = 1 => e = <<>>
      BY <1>1
    <2> QED
      BY <2>1, <2>2, <1>1, <1>2, <1>3 DEF e
  <1>4. CASE Len(d[1]) # 1
    <2> DEFINE x == Tail(d[1])
               q == <<x>> \o e
    <2>1. x \in Seq(Writes) /\ Len(x) = Len(d[1]) - 1 /\ Len(d[1]) \in Nat \ {0}
      BY <1>1, TailOfWrites
    <2> HIDE DEF x
    <2>2. x # <<>>
      <3>1. Len(x) # 0
        BY <2>1, <1>4
      <3>2. Len(<<>>) = 0
        OBVIOUS
      <3> QED
        BY <3>1, <3>2
    <2>3. /\ q \in Seq(Seq(Writes)) /\ Len(q) = 1 + Len(e) /\ q[1] = x
          /\ DOMAIN q = 1..(1 + Len(e)) /\ \A i \in DOMAIN q : i # 1 => i - 1 \in DOMAIN e /\ q[i] = e[i - 1]
      BY <2>1, <1>1
    <2> HIDE DEF q
    <2>4. Full(q)
      BY <2>2, <2>3, <1>2 DEF Full
    <2> QED
      BY <2>3, <2>4, <1>1, <1>4 DEF x, q, e
  <1> QED
    BY <1>3, <1>4

LEMMA DequeuedDetachedKeeps ==
    ASSUME NEW r \in Persistence, r.detached # <<>>, Full(r.detached)
    PROVE  LET n == DequeuedDetached(r)
           IN  /\ n \in Persistence /\ Full(n.detached)
               /\ r.waiting = "no" => n.waiting = "no"
               /\ Settling(r) => Settling(n)
               /\ Head(Head(r.detached)).history \in Nat
PROOF
  <1> DEFINE n == DequeuedDetached(r)
             chain == Head(r.detached)
             detached == (IF Len(chain) = 1 THEN <<>> ELSE <<Tail(chain)>>) \o Tail(r.detached)
             rest == [r EXCEPT !.detached = detached]
  <1>1. r.detached \in Seq(Seq(Writes))
    BY PersistenceFields
  <1>2. /\ detached \in Seq(Seq(Writes)) /\ Full(detached)
        /\ Len(r.detached) = 1 =>
             /\ Len(r.detached[1]) = 1 => detached = <<>>
             /\ Len(r.detached[1]) # 1 => Len(detached) = 1 /\ detached[1] = Tail(r.detached[1])
    BY <1>1, ShortenedDetached
  <1>3. chain \in Seq(Writes) /\ chain # <<>> /\ chain = r.detached[1]
    BY <1>1 DEF Full
  <1>4. Head(chain) \in Writes
    BY <1>3, TailOfWrites
  <1>5. n = IF Head(chain).awaited THEN Resumed(rest) ELSE rest
    BY DEF DequeuedDetached
  <1> HIDE DEF detached, n, chain
  <1>6. /\ rest \in Persistence /\ rest.pending = r.pending /\ rest.chain = r.chain
        /\ rest.detached = detached /\ rest.waiting = r.waiting
    BY <1>2 DEF Persistence
  <1> HIDE DEF rest
  <1>7. Flushed(rest, Resumed(rest)) /\ (rest.waiting = "no" => Resumed(rest).waiting = "no")
    BY <1>6, ResumedFlushes
  <1>8. n \in Persistence /\ Full(n.detached) /\ (r.waiting = "no" => n.waiting = "no")
    BY <1>2, <1>5, <1>6, <1>7 DEF Flushed
  <1>9. Settling(r) => Settling(n)
    <2> SUFFICES ASSUME Settling(r)
                 PROVE  Settling(n)
      OBVIOUS
    <2>1. /\ r.pending = Absent /\ r.chain = <<>> /\ Len(r.detached) = 1
          /\ LastAwaited(chain) /\ r.waiting # "no"
      BY <1>3 DEF Settling
    <2>2. /\ Tail(chain) \in Seq(Writes) /\ Len(Tail(chain)) = Len(chain) - 1 /\ Len(chain) \in Nat \ {0}
          /\ DOMAIN chain = 1..Len(chain) /\ DOMAIN Tail(chain) = 1..(Len(chain) - 1)
          /\ \A i \in 1..(Len(chain) - 1) : Tail(chain)[i] = chain[i + 1]
          /\ Head(chain) = chain[1]
      BY <1>3, TailOfWrites
    <2>3. Head(chain).awaited <=> Len(chain) = 1
      BY <2>1, <2>2 DEF LastAwaited
    <2>4. CASE Len(chain) = 1
      <3>1. detached = <<>> /\ n = Resumed(rest)
        BY <2>1, <2>3, <2>4, <1>2, <1>3, <1>5
      <3>2. n.pending = Absent /\ n.chain = <<>> /\ n.detached = <<>>
        BY <3>1, <2>1, <1>6, <1>7 DEF Flushed
      <3> QED
        BY <3>2 DEF Settling, LastAwaited
    <2>5. CASE Len(chain) # 1
      <3>1. Len(detached) = 1 /\ detached[1] = Tail(chain) /\ n = rest
        BY <2>1, <2>3, <2>5, <1>2, <1>3, <1>5
      <3>2. LastAwaited(Tail(chain)) /\ Tail(chain) # <<>>
        BY <2>1, <2>2, <2>5 DEF LastAwaited
      <3> QED
        BY <3>1, <3>2, <2>1, <1>6 DEF Settling
    <2> QED
      BY <2>4, <2>5
  <1> QED
    BY <1>4, <1>8, <1>9 DEF Writes, n, chain
-----------------------------------------------------------------------------
(* The order of the inactive sessions and what an eviction leaves of them. *)

Newer(t, I, order) == {u \in I : <<t, u>> \in order}

LEMMA EvicteesAreOld ==
    ASSUME NEW map, NEW objs, NEW order
    PROVE  Evictees(map, objs, order) =
              {t \in Inactive(map, objs) :
                  Cardinality(Newer(t, Inactive(map, objs), order)) >= MaxRetained}
BY DEF Evictees, Newer

LEMMA NewerIsFinite ==
    ASSUME NEW I, IsFiniteSet(I), NEW t, NEW order
    PROVE  /\ IsFiniteSet(Newer(t, I, order))
           /\ Cardinality(Newer(t, I, order)) \in Nat
           /\ Cardinality(Newer(t, I, order)) <= Cardinality(I)
PROOF
  <1>1. Newer(t, I, order) \subseteq I
    BY DEF Newer
  <1> QED
    BY <1>1, FS_Subset, FS_CardinalityType

LEMMA LeastNatural ==
    ASSUME NEW S, S \subseteq Nat, S # {}
    PROVE  \E least \in S : \A n \in S : least <= n
PROOF
  <1> DEFINE Less == OpToRel(<, Nat)
  <1>1. \A m, n \in Nat : m < n => <<m, n>> \in Less
    BY DEF OpToRel
  <1>2. IsWellFoundedOn(Less, Nat)
    BY NatLessThanWellFounded
  <1> HIDE DEF Less
  <1>3. PICK least \in S : \A n \in S : ~(<<n, least>> \in Less)
    BY <1>2, WFMin
  <1>4. \A n \in S : ~(n < least)
    BY <1>1, <1>3, Zenon
  <1> QED
    BY <1>4

(* Of linearly ordered terminals, those with less than n newer ones are    *)
(* at most n.                                                              *)
LEMMA FewAreNew ==
    ASSUME NEW I, IsFiniteSet(I), NEW order, Linear(order, I), NEW n \in Nat
    PROVE  LET R == {t \in I : ~(Cardinality(Newer(t, I, order)) >= n)}
           IN  IsFiniteSet(R) /\ Cardinality(R) <= n
PROOF
  <1> DEFINE c(t) == Cardinality(Newer(t, I, order))
             R == {t \in I : ~(c(t) >= n)}
  <1>1. IsFiniteSet(R) /\ Cardinality(R) \in Nat
    <2>1. R \subseteq I
      OBVIOUS
    <2> QED
      BY <2>1, FS_Subset, FS_CardinalityType
  <1>2. \A t : c(t) \in Nat /\ IsFiniteSet(Newer(t, I, order))
    BY NewerIsFinite
  <1>3. CASE R = {}
    BY <1>1, <1>3, FS_EmptySet
  <1>4. CASE R # {}
    <2> DEFINE D == {n - c(t) : t \in R}
    <2> HIDE DEF c
    <2>1. D \subseteq Nat /\ D # {}
      BY <1>2, <1>4
    <2>2. PICK d \in D : \A m \in D : d <= m
      BY <2>1, LeastNatural
    <2>3. PICK x \in R : d = n - c(x)
      BY <2>2
    <2>4. \A y \in R : c(y) <= c(x)
      BY <2>2, <2>3, <1>2
    <2> HIDE DEF D
    <2>5. ASSUME NEW y \in R, y # x
          PROVE  y \in Newer(x, I, order)
      <3> SUFFICES ASSUME <<x, y>> \notin order
                   PROVE  FALSE
        BY <2>5 DEF Newer
      <3>1. <<y, x>> \in order /\ <<x, x>> \notin order
        BY <2>5, <2>3 DEF Linear
      <3>2. Newer(x, I, order) \cup {x} \subseteq Newer(y, I, order)
        BY <3>1, <2>3, <2>5 DEF Newer, Linear
      <3>3. x \notin Newer(x, I, order)
        BY <3>1 DEF Newer
      <3>4. Cardinality(Newer(x, I, order) \cup {x}) = c(x) + 1
        BY <3>3, <1>2, FS_AddElement DEF c
      <3>5. c(x) + 1 <= c(y)
        BY <3>2, <3>4, <1>2, FS_Subset DEF c
      <3> QED
        BY <3>5, <2>4, <1>2
    <2>6. R \subseteq Newer(x, I, order) \cup {x}
      BY <2>5
    <2>7. /\ IsFiniteSet(Newer(x, I, order) \cup {x})
          /\ Cardinality(Newer(x, I, order) \cup {x}) <= c(x) + 1
      <3>1. IsFiniteSet(Newer(x, I, order)) /\ c(x) \in Nat
        BY <1>2
      <3>2. CASE x \in Newer(x, I, order)
        <4>1. Newer(x, I, order) \cup {x} = Newer(x, I, order)
          BY <3>2
        <4> QED
          BY <4>1, <3>1 DEF c
      <3>3. CASE x \notin Newer(x, I, order)
        <4>1. IsFiniteSet(Newer(x, I, order) \cup {x})
              /\ Cardinality(Newer(x, I, order) \cup {x}) = Cardinality(Newer(x, I, order)) + 1
          BY <3>1, <3>3, FS_AddElement
        <4>2. Cardinality(Newer(x, I, order) \cup {x}) = c(x) + 1
          BY <4>1 DEF c
        <4> QED
          BY <3>1, <4>1, <4>2
      <3> QED
        BY <3>2, <3>3
    <2>8. Cardinality(R) <= Cardinality(Newer(x, I, order) \cup {x})
          /\ Cardinality(Newer(x, I, order) \cup {x}) \in Nat
      BY <2>6, <2>7, FS_Subset, FS_CardinalityType
    <2>9. c(x) < n
      BY <2>3, <1>2
    <2>10. Cardinality(R) <= n
      BY <2>7, <2>8, <2>9, <1>1, <1>2
    <2> QED
      BY <2>10, <1>1 DEF c
  <1> QED
    BY <1>3, <1>4

(* While there are few, nothing is evicted.                                *)
LEMMA FewAreKept ==
    ASSUME NEW I, IsFiniteSet(I), Cardinality(I) <= MaxRetained, NEW order, Linear(order, I),
           NEW t \in I
    PROVE  ~(Cardinality(Newer(t, I, order)) >= MaxRetained)
PROOF
  <1>1. Newer(t, I, order) \subseteq I \ {t}
    BY DEF Newer, Linear
  <1>2. IsFiniteSet(I \ {t}) /\ Cardinality(I \ {t}) = Cardinality(I) - 1
    BY FS_RemoveElement
  <1>3. Cardinality(I) \in Nat /\ Cardinality(Newer(t, I, order)) \in Nat
    BY FS_CardinalityType, NewerIsFinite
  <1>4. Cardinality(Newer(t, I, order)) <= Cardinality(I \ {t})
    BY <1>1, <1>2, FS_Subset
  <1> QED
    BY <1>2, <1>3, <1>4, TerminalAssumption

LEMMA FewEvictees ==
    ASSUME NEW map, NEW objs, NEW order, IsFiniteSet(Inactive(map, objs)),
           Cardinality(Inactive(map, objs)) <= MaxRetained, Linear(order, Inactive(map, objs))
    PROVE  Evictees(map, objs, order) = {}
BY FewAreKept, EvicteesAreOld

(* Nothing is newer than the session that was just touched.                *)
LEMMA TouchedIsKept ==
    ASSUME NEW map, NEW objs, NEW t
    PROVE  t \notin Evictees(map, objs, Touched(t))
PROOF
  <1>1. Newer(t, Inactive(map, objs), Touched(t)) = {}
    BY DEF Newer, Touched
  <1>2. ~(Cardinality({}) >= MaxRetained)
    BY FS_EmptySet, TerminalAssumption
  <1> QED
    BY <1>1, <1>2, EvicteesAreOld

LEMMA LinearOnFewer ==
    ASSUME NEW order, NEW I, Linear(order, I), NEW J, J \subseteq I
    PROVE  /\ Linear(order, J)
           /\ Linear({pair \in order : pair[1] \in J /\ pair[2] \in J}, J)
BY DEF Linear

LEMMA TouchedIsLinear ==
    ASSUME NEW I, Linear(older, I), NEW t, NEW J \in SUBSET Terminals, J \subseteq I \cup {t}
    PROVE  Linear(Touched(t), J)
BY DEF Linear, Touched

LEMMA TouchedTypes ==
    ASSUME older \subseteq Terminals \X Terminals
    PROVE  /\ \A t \in Terminals : Touched(t) \subseteq Terminals \X Terminals
           /\ \A s : objects[s].terminal \in Terminals => TouchedBy(s) \subseteq Terminals \X Terminals
BY DEF Touched, TouchedBy

LEMMA TouchedByIsLinear ==
    ASSUME NEW I, Linear(older, I), NEW s, NEW J \in SUBSET Terminals,
           J \subseteq I \/ (sessions[objects[s].terminal] = s /\ J \subseteq I \cup {objects[s].terminal})
    PROVE  Linear(TouchedBy(s), J)
PROOF
  <1>1. CASE sessions[objects[s].terminal] = s
    <2>1. TouchedBy(s) = Touched(objects[s].terminal)
      BY <1>1 DEF TouchedBy
    <2> QED
      BY <2>1, TouchedIsLinear
  <1>2. CASE sessions[objects[s].terminal] # s
    <2>1. TouchedBy(s) = older
      BY <1>2 DEF TouchedBy
    <2> QED
      BY <1>2, <2>1, LinearOnFewer
  <1> QED
    BY <1>1, <1>2

LEMMA InactiveIsFinite ==
    ASSUME NEW objs \in Seq(Objects), NEW map \in [Terminals -> 0..Len(objs)],
           \A t \in Terminals : map[t] # 0 => objs[map[t]].terminal = t
    PROVE  /\ IsFiniteSet(Inactive(map, objs)) /\ Cardinality(Inactive(map, objs)) \in Nat
           /\ Inactive(map, objs) \subseteq Terminals
PROOF
  <1> DEFINE I == Inactive(map, objs)
             f == [t \in I |-> map[t]]
  <1>1. \A t \in I : t \in Terminals /\ map[t] \in 1..Len(objs)
    BY DEF Inactive
  <1>2. \A t, u \in I : f[t] = f[u] => t = u
    BY <1>1
  <1>3. f \in [I -> 1..Len(objs)]
    BY <1>1
  <1> HIDE DEF I
  <1>4. f \in Injection(I, 1..Len(objs))
    BY <1>2, <1>3 DEF Injection, IsInjective
  <1>5. IsFiniteSet(1..Len(objs))
    BY FS_Interval
  <1>6. IsFiniteSet(I)
    BY <1>4, <1>5, FS_Injection
  <1> QED
    BY <1>1, <1>6, FS_CardinalityType DEF I

(* The map and its order when sessions are evicted or closed.              *)
LEMMA DropLeaves ==
    ASSUME NEW evicted, NEW closed, NEW map, NEW order, Drop(evicted, closed, map, order)
    PROVE  /\ sessions' = [t \in Terminals |-> IF t \in evicted \cup closed THEN 0 ELSE map[t]]
           /\ Inactive(sessions', objects') = Inactive(map, objects') \ (evicted \cup closed)
BY DEF Drop, Inactive

LEMMA DropOrders ==
    ASSUME NEW evicted, NEW closed, NEW map, NEW order, Drop(evicted, closed, map, order),
           Linear(order, Inactive(map, objects') \ (evicted \cup closed))
    PROVE  older' \subseteq order /\ OrderInv'
PROOF
  <1> DEFINE left == [t \in Terminals |-> IF t \in evicted \cup closed THEN 0 ELSE map[t]]
             J == Inactive(left, objects')
  <1>1. /\ sessions' = left
        /\ older' = {pair \in order : pair[1] \in J /\ pair[2] \in J}
    BY DEF Drop
  <1>2. J = Inactive(map, objects') \ (evicted \cup closed)
    BY DEF Inactive
  <1> HIDE DEF left, J
  <1>3. Inactive(sessions', objects') = J
    BY <1>1 DEF J
  <1>4. Linear(order, J) => OrderInv'
    BY <1>1, <1>3, LinearOnFewer DEF OrderInv
  <1> QED
    BY <1>1, <1>2, <1>4

LEMMA DropLoses ==
    ASSUME NEW evicted, NEW closed, NEW map, NEW order, Drop(evicted, closed, map, order)
    PROVE  /\ orphans' = orphans \cup {map[t] : t \in {u \in evicted : Starting(map[u])}}
           /\ unsaved' = unsaved \cup {t \in evicted : Unfinished(persist[t]) \/ Starting(map[t])}
BY DEF Drop

LEMMA EvictMoves ==
    ASSUME NEW map, NEW order, Evict(map, order), IsFiniteSet(Inactive(map, objects')),
           Linear(order, Inactive(map, objects'))
    PROVE  OrderInv' /\ InactiveSessionsAreFew'
PROOF
  <1> DEFINE I == Inactive(map, objects')
             E == Evictees(map, objects', order)
             R == {t \in I : ~(Cardinality(Newer(t, I, order)) >= MaxRetained)}
  <1>1. Drop(E, {}, map, order)
    BY DEF Evict
  <1> HIDE DEF E
  <1>2. Inactive(sessions', objects') = I \ (E \cup {})
    BY <1>1, DropLeaves
  <1>3. I \ (E \cup {}) = R
    <2>1. E = {t \in I : Cardinality(Newer(t, I, order)) >= MaxRetained}
      BY EvicteesAreOld DEF E
    <2> QED
      BY <2>1
  <1>4. Linear(order, R)
    <2>1. R \subseteq I
      OBVIOUS
    <2> QED
      BY <2>1, LinearOnFewer
  <1>5. OrderInv'
    BY <1>1, <1>3, <1>4, DropOrders
  <1>6. Cardinality(R) <= MaxRetained
    BY FewAreNew, TerminalAssumption
  <1> QED
    BY <1>2, <1>3, <1>5, <1>6 DEF InactiveSessionsAreFew

LEMMA ReorderMoves ==
    ASSUME NEW order, Reorder(order)
    PROVE  /\ sessions' = sessions /\ older' \subseteq order
           /\ Linear(order, Inactive(sessions, objects')) => OrderInv'
PROOF
  <1> DEFINE J == Inactive(sessions, objects')
  <1>1. older' = {pair \in order : pair[1] \in J /\ pair[2] \in J} /\ sessions' = sessions
    BY DEF Reorder
  <1>2. Inactive(sessions', objects') = J
    BY <1>1
  <1> HIDE DEF J
  <1>3. Linear(order, J) => OrderInv'
    BY <1>1, <1>2, LinearOnFewer DEF OrderInv
  <1> QED
    BY <1>1, <1>3 DEF J
-----------------------------------------------------------------------------
(* Objects and processes.                                                  *)

LEMMA ObjectFields ==
    ASSUME NEW o \in Objects
    PROVE  /\ o.terminal \in Terminals /\ o.status \in {"starting", "running", "exited", "error"}
           /\ o.process \in Nat /\ o.history \in Nat
           /\ \A status \in {"starting", "running", "exited", "error"} : \A p \in Nat :
                LET n == [o EXCEPT !.status = status, !.process = p]
                IN  /\ n \in Objects /\ n.terminal = o.terminal /\ n.status = status
                    /\ n.process = p /\ n.history = o.history
           /\ \A status \in {"starting", "running", "exited", "error"} :
                LET n == [o EXCEPT !.status = status]
                IN  /\ n \in Objects /\ n.terminal = o.terminal /\ n.status = status
                    /\ n.process = o.process /\ n.history = o.history
           /\ \A h \in Nat :
                LET n == [o EXCEPT !.history = h]
                IN  /\ n \in Objects /\ n.terminal = o.terminal /\ n.status = o.status
                    /\ n.process = o.process /\ n.history = h
BY DEF Objects

LEMMA ObjectTypes ==
    ASSUME TypeOK, NEW s \in DOMAIN objects
    PROVE  /\ objects[s] \in Objects /\ objects[s].terminal \in Terminals
           /\ ThreadOf[objects[s].terminal] \in Threads
PROOF
  <1>1. objects[s] \in Objects
    BY DEF TypeOK
  <1>2. objects[s].terminal \in Terminals
    BY <1>1 DEF Objects
  <1> QED
    BY <1>1, <1>2, TerminalAssumption

LEMMA ObjectReplaced ==
    ASSUME NEW q \in Seq(Objects), NEW s \in DOMAIN q, NEW o \in Objects
    PROVE  LET n == [q EXCEPT ![s] = o]
           IN  /\ n \in Seq(Objects) /\ Len(n) = Len(q) /\ DOMAIN n = DOMAIN q
               /\ n[s] = o /\ \A r \in DOMAIN q : r # s => n[r] = q[r]
OBVIOUS

LEMMA ObjectCreated ==
    ASSUME NEW q \in Seq(Objects), NEW t \in Terminals, NEW h \in Nat
    PROVE  LET n == Append(q, Object(t, "starting", h))
               s == Len(q) + 1
           IN  /\ n \in Seq(Objects) /\ Len(n) = s /\ DOMAIN n = DOMAIN q \cup {s}
               /\ s \notin DOMAIN q /\ s # 0 /\ s \in Nat
               /\ n[s].terminal = t /\ n[s].status = "starting" /\ n[s].process = 0
               /\ n[s].history = h
               /\ \A r \in DOMAIN q : n[r] = q[r]
PROOF
  <1> DEFINE o == Object(t, "starting", h)
  <1>1. /\ o \in Objects /\ o.terminal = t /\ o.status = "starting" /\ o.process = 0
        /\ o.history = h
    BY DEF Object, Objects
  <1> HIDE DEF o
  <1>2. /\ Append(q, o) \in Seq(Objects) /\ Len(Append(q, o)) = Len(q) + 1
        /\ Append(q, o)[Len(q) + 1] = o /\ \A r \in DOMAIN q : Append(q, o)[r] = q[r]
        /\ DOMAIN q = 1..Len(q) /\ Len(q) \in Nat /\ DOMAIN Append(q, o) = 1..(Len(q) + 1)
    BY <1>1
  <1> QED
    BY <1>1, <1>2 DEF o

LEMMA StoppedObjects ==
    ASSUME objects \in Seq(Objects), NEW S
    PROVE  LET n == Stopped(S)
           IN  /\ n \in Seq(Objects) /\ Len(n) = Len(objects) /\ DOMAIN n = DOMAIN objects
               /\ \A s \in DOMAIN objects :
                    /\ n[s].terminal = objects[s].terminal /\ n[s].history = objects[s].history
                    /\ s \in S /\ objects[s].process # 0 => n[s].status = "exited"
                    /\ s \in S => n[s].process = 0
                    /\ s \notin S \/ objects[s].process = 0 => n[s] = objects[s]
PROOF
  <1> DEFINE stop(s) == [objects[s] EXCEPT !.status = "exited", !.process = 0]
             n == Stopped(S)
  <1>1. \A s \in DOMAIN objects :
           /\ stop(s) \in Objects /\ stop(s).terminal = objects[s].terminal
           /\ stop(s).history = objects[s].history /\ stop(s).status = "exited"
           /\ stop(s).process = 0
    <2> SUFFICES ASSUME NEW s \in DOMAIN objects
                 PROVE  /\ stop(s) \in Objects /\ stop(s).terminal = objects[s].terminal
                        /\ stop(s).history = objects[s].history /\ stop(s).status = "exited"
                        /\ stop(s).process = 0
      OBVIOUS
    <2>1. objects[s] \in Objects
      OBVIOUS
    <2> QED
      BY <2>1 DEF Objects
  <1> HIDE DEF stop
  <1>2. n = [s \in DOMAIN objects |->
                IF s \in S /\ objects[s].process # 0 THEN stop(s) ELSE objects[s]]
    BY DEF Stopped, stop
  <1> HIDE DEF n
  <1>3. DOMAIN objects = 1..Len(objects) /\ Len(objects) \in Nat
    OBVIOUS
  <1>4. \A s \in DOMAIN objects : n[s] \in Objects
    BY <1>1, <1>2
  <1>5. n \in Seq(Objects) /\ Len(n) = Len(objects) /\ DOMAIN n = DOMAIN objects
    BY <1>2, <1>3, <1>4
  <1> QED
    BY <1>1, <1>2, <1>5 DEF n

LEMMA TerminatedProcesses ==
    ASSUME processes \in Seq(Processes), NEW S, NEW R
    PROVE  LET n == Terminated(S, R)
           IN  /\ n \in Seq(Processes) /\ Len(n) = Len(processes) /\ DOMAIN n = DOMAIN processes
               /\ \A p \in DOMAIN processes :
                    /\ n[p].session = processes[p].session
                    /\ p \in ProcessesOf(S) => n[p].status # "running" /\ ~n[p].subscribed
                    /\ p \notin ProcessesOf(S) => n[p] = processes[p]
PROOF
  <1> DEFINE stop(p) == [processes[p] EXCEPT !.status = Signalled(p, R), !.subscribed = FALSE]
             n == Terminated(S, R)
  <1>1. \A p \in DOMAIN processes :
           /\ stop(p) \in Processes /\ stop(p).session = processes[p].session
           /\ stop(p).status # "running" /\ ~stop(p).subscribed
    <2> SUFFICES ASSUME NEW p \in DOMAIN processes
                 PROVE  /\ stop(p) \in Processes /\ stop(p).session = processes[p].session
                        /\ stop(p).status # "running" /\ ~stop(p).subscribed
      OBVIOUS
    <2>1. processes[p] \in Processes
      OBVIOUS
    <2> QED
      BY <2>1 DEF Processes, Signalled
  <1> HIDE DEF stop
  <1>2. n = [p \in DOMAIN processes |-> IF p \in ProcessesOf(S) THEN stop(p) ELSE processes[p]]
    BY DEF Terminated, stop
  <1> HIDE DEF n
  <1>3. DOMAIN processes = 1..Len(processes) /\ Len(processes) \in Nat
    OBVIOUS
  <1>4. \A p \in DOMAIN processes : n[p] \in Processes
    BY <1>1, <1>2
  <1>5. n \in Seq(Processes) /\ Len(n) = Len(processes) /\ DOMAIN n = DOMAIN processes
    BY <1>2, <1>3, <1>4
  <1> QED
    BY <1>1, <1>2, <1>5 DEF n

LEMMA KeptPersistence ==
    ASSUME persist \in [Terminals -> Persistence], NEW map, NEW order
    PROVE  /\ Kept(map, order) \in [Terminals -> Persistence]
           /\ \A t \in Terminals :
                /\ Kept(map, order)[t].waiting = persist[t].waiting
                /\ t \notin Evictees(map, objects', order) => Kept(map, order)[t] = persist[t]
                /\ t \in Evictees(map, objects', order) =>
                        Kept(map, order)[t] = Forgotten(persist[t])
BY ForgottenFields DEF Kept
-----------------------------------------------------------------------------
(* Operations.                                                             *)

LEMMA OperationFields ==
    ASSUME NEW kind \in {"idle", "read", "start", "spawn", "clear", "close"},
           NEW T \in SUBSET Terminals, NEW s \in Nat, NEW deletes \in SUBSET Terminals
    PROVE  LET n == Operation(kind, T, s, deletes)
           IN  /\ n \in Operations /\ n.kind = kind /\ n.terminals = T /\ n.object = s
               /\ n.deletes = deletes
BY DEF Operation, Operations

LEMMA IdleFields ==
    /\ Idle \in Operations /\ Idle.kind = "idle" /\ Idle.terminals = {} /\ Idle.object = 0
    /\ Idle.deletes = {}
BY DEF Idle, Operations

LEMMA CalledMoves ==
    ASSUME TypeOK, NEW th \in Threads, NEW operation \in Operations, Called(th, operation)
    PROVE  /\ op' \in [Threads -> Operations] /\ op'[th] = operation
           /\ \A k \in Threads : k # th => op'[k] = op[k]
           /\ op[th] = Idle /\ ~disposed /\ requests' \in 0..MaxRequests
           /\ file' = file /\ disposed' = disposed /\ outputs' = outputs /\ failures' = failures
BY TerminalAssumption DEF Called, TypeOK

LEMMA ContinueMoves ==
    ASSUME TypeOK, NEW th \in Threads, NEW operation \in Operations, NEW kind,
           Continue(th, kind, operation)
    PROVE  /\ op' \in [Threads -> Operations] /\ op'[th] = operation
           /\ \A k \in Threads : k # th => op'[k] = op[k]
           /\ op[th].kind = kind /\ \A t \in op[th].terminals : persist[t].waiting = "no"
           /\ disposed' = disposed /\ outputs' = outputs /\ requests' = requests
BY DEF Continue, Ready, TypeOK

LEMMA FailureCounted ==
    ASSUME TypeOK, failures < MaxFailures, failures' = failures + 1
    PROVE  failures' \in 0..MaxFailures
BY TerminalAssumption DEF TypeOK

(* What a step leaves of the history of a terminal that it does not touch. *)
LEMMA HistoryKept ==
    ASSUME NEW t \in Terminals, HistoryOf(t),
           persist'[t] = persist[t], file'[t] = file[t], sessions'[t] = sessions[t],
           sessions[t] # 0 => objects'[sessions[t]].history = objects[sessions[t]].history,
           disposed' = disposed, Reading(t)' => Reading(t), t \in deleted' => t \in deleted
    PROVE  HistoryOf(t)'
PROOF
  <1>1. /\ ~disposed' => persist'[t].detached = <<>> /\ AwaitedOnce(persist'[t])
        /\ sessions'[t] # 0 =>
            /\ persist'[t].detached = <<>>
            /\ Latest(persist'[t], file'[t]) = objects'[sessions'[t]].history
        /\ sessions'[t] = 0 /\ (~disposed' \/ Reading(t)') => Settling(persist'[t])
        /\ t \in deleted' /\ ~disposed' =>
            sessions'[t] = 0 /\ file'[t] = Absent /\ ~Unfinished(persist'[t])
    BY DEF HistoryOf
  <1> QED
    BY <1>1 DEF HistoryOf

(* A terminal is read only by an operation that has begun to read it.      *)
LEMMA ReadingKept ==
    ASSUME TypeOK, NEW th \in Threads, \A k \in Threads : k # th => op'[k] = op[k],
           op'[th].kind # "read", NEW t \in Terminals, Reading(t)'
    PROVE  Reading(t)
BY TerminalAssumption DEF Reading

LEMMA TableKept ==
    ASSUME RuntimeInv, UNCHANGED table, orphans' = orphans, unsaved \subseteq unsaved'
    PROVE  MapInv' /\ OrphansInv' /\ OrderInv' /\ InactiveSessionsAreFew'
PROOF
  <1>1. objects' = objects /\ sessions' = sessions /\ older' = older
    BY DEF table
  <1>2. Inactive(sessions', objects') = Inactive(sessions, objects)
    BY <1>1
  <1>3. MapInv' /\ OrphansInv'
    BY <1>1 DEF RuntimeInv, MapInv, OrphansInv
  <1> QED
    BY <1>1, <1>2, <1>3 DEF RuntimeInv, OrderInv, InactiveSessionsAreFew

(* Nothing but processes changes.                                          *)
LEMMA RestKept ==
    ASSUME ManagerInv, UNCHANGED <<table, persist, file, op, disposed, history>>
    PROVE  /\ MapInv' /\ OperationsInv' /\ WaitInv' /\ LocatedInv' /\ OrphansInv' /\ DetachedInv'
           /\ OrderInv' /\ InactiveSessionsAreFew' /\ HistoryInv'
PROOF
  <1>1. /\ objects' = objects /\ sessions' = sessions /\ older' = older /\ persist' = persist
        /\ file' = file /\ op' = op /\ disposed' = disposed /\ orphans' = orphans
        /\ unsaved' = unsaved /\ deleted' = deleted
    BY DEF table, history
  <1>2. OperationsInv' /\ WaitInv' /\ DetachedInv'
    BY <1>1 DEF ManagerInv, RuntimeInv, OperationsInv, OperationOf, WaitInv, DetachedInv
  <1>3. LocatedInv'
    BY <1>1 DEF ManagerInv, RuntimeInv, LocatedInv, Launched, Disposed
  <1>4. HistoryInv'
    <2> SUFFICES ASSUME NEW t \in Terminals \ unsaved
                 PROVE  HistoryOf(t)'
      BY <1>1 DEF HistoryInv
    <2>1. Reading(t)' => Reading(t)
      BY <1>1 DEF Reading
    <2> QED
      BY <1>1, <2>1, HistoryKept DEF ManagerInv, HistoryInv
  <1> QED
    BY <1>1, <1>2, <1>3, <1>4, TableKept DEF ManagerInv

LEMMA ExitUnnoticedPreserves ==
    ASSUME ManagerInv, NEW p \in DOMAIN processes, ExitUnnoticed(p)
    PROVE  ManagerInv'
PROOF
  <1> DEFINE dead == [processes[p] EXCEPT !.status = "dead"]
  <1>1. processes[p] \in Processes /\ processes \in Seq(Processes)
    BY DEF ManagerInv, RuntimeInv, TypeOK
  <1>2. /\ dead \in Processes /\ dead.session = processes[p].session /\ dead.status = "dead"
        /\ dead.subscribed = processes[p].subscribed
    BY <1>1 DEF Processes
  <1>3. processes' = [processes EXCEPT ![p] = dead] /\ processes[p].status # "running"
    BY DEF ExitUnnoticed
  <1> HIDE DEF dead
  <1>4. /\ processes' \in Seq(Processes) /\ DOMAIN processes' = DOMAIN processes
        /\ processes'[p] = dead /\ \A q \in DOMAIN processes : q # p => processes'[q] = processes[q]
    BY <1>1, <1>2, <1>3
  <1>5. /\ objects' = objects /\ sessions' = sessions /\ older' = older /\ killTimers' = killTimers
        /\ persist' = persist /\ file' = file /\ op' = op /\ disposed' = disposed
        /\ orphans' = orphans /\ unsaved' = unsaved /\ deleted' = deleted
        /\ outputs' = outputs /\ requests' = requests /\ failures' = failures
    BY DEF ExitUnnoticed, table, history, bounds
  <1>6. \A q \in DOMAIN processes' : processes'[q].session \in DOMAIN objects'
    BY <1>2, <1>4, <1>5 DEF ManagerInv, RuntimeInv, TypeOK
  <1>7. TypeOK'
    BY <1>4, <1>5, <1>6 DEF ManagerInv, RuntimeInv, TypeOK
  <1>8. OwnersAgree'
    BY <1>2, <1>3, <1>4, <1>5 DEF ManagerInv, RuntimeInv, OwnersAgree
  <1>9. TimersInv'
    BY <1>2, <1>4, <1>5 DEF ManagerInv, RuntimeInv, TimersInv, TypeOK
  <1> QED
    BY <1>5, <1>7, <1>8, <1>9, RestKept DEF ManagerInv, RuntimeInv, table, history

LEMMA KillTimerFiresPreserves ==
    ASSUME ManagerInv, NEW p \in DOMAIN processes, KillTimerFires(p)
    PROVE  ManagerInv'
PROOF
  <1> PICK left \in {"dead", "refused"} : processes' = [processes EXCEPT ![p].status = left]
    BY DEF KillTimerFires
  <1> DEFINE done == [processes[p] EXCEPT !.status = left]
  <1>1. processes[p] \in Processes /\ processes \in Seq(Processes)
    BY DEF ManagerInv, RuntimeInv, TypeOK
  <1>2. /\ done \in Processes /\ done.session = processes[p].session /\ done.status # "running"
        /\ done.subscribed = processes[p].subscribed
    BY <1>1 DEF Processes
  <1>3. processes' = [processes EXCEPT ![p] = done] /\ p \in killTimers
    BY DEF KillTimerFires
  <1> HIDE DEF done
  <1>4. /\ processes' \in Seq(Processes) /\ DOMAIN processes' = DOMAIN processes
        /\ processes'[p] = done /\ \A q \in DOMAIN processes : q # p => processes'[q] = processes[q]
    BY <1>1, <1>2, <1>3
  <1>5. /\ objects' = objects /\ sessions' = sessions /\ older' = older /\ killTimers' = killTimers \ {p}
        /\ persist' = persist /\ file' = file /\ op' = op /\ disposed' = disposed
        /\ orphans' = orphans /\ unsaved' = unsaved /\ deleted' = deleted
        /\ outputs' = outputs /\ requests' = requests /\ failures' = failures
    BY DEF KillTimerFires, table, history, bounds
  <1>6. \A q \in DOMAIN processes' : processes'[q].session \in DOMAIN objects'
    BY <1>2, <1>4, <1>5 DEF ManagerInv, RuntimeInv, TypeOK
  <1>7. TypeOK'
    BY <1>4, <1>5, <1>6 DEF ManagerInv, RuntimeInv, TypeOK
  <1>8. OwnersAgree'
    <2>1. ~processes[p].subscribed
      BY <1>3 DEF ManagerInv, RuntimeInv, TimersInv
    <2> QED
      BY <1>2, <1>4, <1>5, <2>1 DEF ManagerInv, RuntimeInv, OwnersAgree
  <1>9. TimersInv'
    BY <1>2, <1>4, <1>5 DEF ManagerInv, RuntimeInv, TimersInv, TypeOK
  <1> QED
    BY <1>5, <1>7, <1>8, <1>9, RestKept DEF ManagerInv, RuntimeInv, table, history

(* Only what is written of one terminal changes.                           *)
LEMMA WritingPreserves ==
    ASSUME ManagerInv, UNCHANGED <<table, pty, op, disposed, orphans, deleted, outputs, requests>>,
           NEW t \in Terminals, NEW n \in Persistence, persist' = [persist EXCEPT ![t] = n],
           Full(n.detached), persist[t].waiting = "no" => n.waiting = "no",
           file' \in [Terminals -> Nat \cup {Absent}],
           \A u \in Terminals : u # t => file'[u] = file[u],
           unsaved \subseteq unsaved', unsaved' \subseteq Terminals, failures' \in 0..MaxFailures,
           t \notin unsaved' => HistoryOf(t)'
    PROVE  ManagerInv'
PROOF
  <1>1. /\ objects' = objects /\ sessions' = sessions /\ older' = older
        /\ processes' = processes /\ killTimers' = killTimers
        /\ op' = op /\ disposed' = disposed
        /\ orphans' = orphans /\ deleted' = deleted
        /\ outputs' = outputs /\ requests' = requests
    BY DEF table, pty
  <1>2. /\ persist' \in [Terminals -> Persistence] /\ persist'[t] = n
        /\ \A u \in Terminals : u # t => persist'[u] = persist[u]
    BY DEF ManagerInv, RuntimeInv, TypeOK
  <1>3. TypeOK'
    BY <1>1, <1>2 DEF ManagerInv, RuntimeInv, TypeOK
  <1>4. OwnersAgree' /\ OperationsInv' /\ TimersInv'
    BY <1>1 DEF ManagerInv, RuntimeInv, OwnersAgree, OperationsInv, OperationOf, TimersInv
  <1>5. WaitInv' /\ DetachedInv'
    BY <1>1, <1>2 DEF ManagerInv, RuntimeInv, WaitInv, DetachedInv
  <1>6. LocatedInv'
    BY <1>1 DEF ManagerInv, RuntimeInv, LocatedInv, Launched, Disposed
  <1>7. HistoryInv'
    <2> SUFFICES ASSUME NEW u \in Terminals \ unsaved', u # t
                 PROVE  HistoryOf(u)'
      BY DEF HistoryInv
    <2>1. (Reading(u)' => Reading(u)) /\ HistoryOf(u)
      BY <1>1 DEF Reading, ManagerInv, HistoryInv
    <2> QED
      BY <1>1, <1>2, <2>1, HistoryKept
  <1> QED
    BY <1>1, <1>3, <1>4, <1>5, <1>6, <1>7, TableKept DEF ManagerInv, RuntimeInv, table

LEMMA PersistTimerFiresPreserves ==
    ASSUME ManagerInv, NEW t \in Terminals, PersistTimerFires(t)
    PROVE  ManagerInv'
PROOF
  <1> DEFINE r == persist[t]
             n == TimerExpired(r)
  <1>1. r \in Persistence /\ Full(r.detached)
    BY DEF ManagerInv, RuntimeInv, TypeOK, DetachedInv
  <1>2. /\ n \in Persistence /\ n.detached = r.detached /\ n.waiting = r.waiting
        /\ \A content : Latest(n, content) = Latest(r, content)
        /\ AwaitedOnce(r) => AwaitedOnce(n)
        /\ Settling(r) => Settling(n)
        /\ ~Unfinished(r) => ~Unfinished(n)
    BY <1>1, TimerExpiredFields, TimerExpiredKeeps
  <1>3. /\ persist' = [persist EXCEPT ![t] = n]
        /\ objects' = objects /\ sessions' = sessions /\ older' = older
        /\ processes' = processes /\ killTimers' = killTimers
        /\ file' = file /\ op' = op /\ disposed' = disposed
        /\ orphans' = orphans /\ unsaved' = unsaved /\ deleted' = deleted
        /\ outputs' = outputs /\ requests' = requests /\ failures' = failures
    BY DEF PersistTimerFires, table, pty, history, bounds
  <1> HIDE DEF n
  <1>4. persist'[t] = n
    BY <1>3 DEF ManagerInv, RuntimeInv, TypeOK
  <1>5. t \notin unsaved' => HistoryOf(t)'
    <2> SUFFICES ASSUME t \notin unsaved'
                 PROVE  HistoryOf(t)'
      OBVIOUS
    <2>1. HistoryOf(t) /\ (Reading(t)' <=> Reading(t))
      BY <1>3 DEF ManagerInv, HistoryInv, Reading
    <2> QED
      BY <1>2, <1>3, <1>4, <2>1 DEF HistoryOf
  <1>6. /\ file' \in [Terminals -> Nat \cup {Absent}] /\ unsaved' \subseteq Terminals
        /\ failures' \in 0..MaxFailures
    BY <1>3 DEF ManagerInv, RuntimeInv, TypeOK
  <1> QED
    BY <1>1, <1>2, <1>3, <1>5, <1>6, WritingPreserves DEF table, pty

LEMMA WriteHistoryPreserves ==
    ASSUME ManagerInv, NEW t \in Terminals, WriteHistory(t)
    PROVE  ManagerInv'
PROOF
  <1> DEFINE r == persist[t]
  <1>1. r \in Persistence /\ Full(r.detached)
    BY DEF ManagerInv, RuntimeInv, TypeOK, DetachedInv
  <1>2. /\ objects' = objects /\ sessions' = sessions /\ older' = older
        /\ processes' = processes /\ killTimers' = killTimers
        /\ op' = op /\ disposed' = disposed
        /\ orphans' = orphans /\ unsaved' = unsaved /\ deleted' = deleted
        /\ outputs' = outputs /\ requests' = requests /\ failures' = failures
    BY DEF WriteHistory, table, pty, history, bounds
  <1>3. Reading(t)' <=> Reading(t)
    BY <1>2 DEF Reading
  <1>4. /\ unsaved' \subseteq Terminals /\ failures' \in 0..MaxFailures
        /\ persist \in [Terminals -> Persistence] /\ file \in [Terminals -> Nat \cup {Absent}]
    BY <1>2 DEF ManagerInv, RuntimeInv, TypeOK
  <1>5. ASSUME r.chain # <<>>, file' = [file EXCEPT ![t] = Head(r.chain).history],
               persist' = [persist EXCEPT ![t] = Dequeued(r)]
        PROVE  ManagerInv'
    <2> DEFINE n == Dequeued(r)
               h == Head(r.chain).history
    <2>1. /\ n \in Persistence /\ n.detached = r.detached
          /\ r.waiting = "no" => n.waiting = "no"
          /\ \A content : Latest(n, h) = Latest(r, content)
          /\ AwaitedOnce(r) => AwaitedOnce(n)
          /\ Settling(r) => Settling(n)
      BY <1>1, <1>5, DequeuedKeeps
    <2>2. h \in Nat
      <3>1. Head(r.chain) \in Writes
        BY <1>1, <1>5, PersistenceFields, TailOfWrites
      <3> QED
        BY <3>1 DEF Writes
    <2>3. persist' = [persist EXCEPT ![t] = n] /\ file' = [file EXCEPT ![t] = h]
      BY <1>5
    <2> HIDE DEF n, h
    <2>4. /\ persist'[t] = n /\ file'[t] = h /\ file' \in [Terminals -> Nat \cup {Absent}]
          /\ \A u \in Terminals : u # t => file'[u] = file[u]
      BY <1>4, <2>2, <2>3
    <2>5. t \notin unsaved' => HistoryOf(t)'
      <3> SUFFICES ASSUME t \notin unsaved'
                   PROVE  HistoryOf(t)'
        OBVIOUS
      <3>1. HistoryOf(t)
        BY <1>2 DEF ManagerInv, HistoryInv
      <3>2. t \in deleted => disposed
        BY <3>1, <1>5 DEF HistoryOf, Unfinished
      <3> QED
        BY <1>2, <1>3, <2>1, <2>4, <3>1, <3>2 DEF HistoryOf
    <2> QED
      BY <1>1, <1>2, <1>4, <2>1, <2>3, <2>4, <2>5, WritingPreserves DEF table, pty
  <1>6. ASSUME r.detached # <<>>, file' = [file EXCEPT ![t] = Head(Head(r.detached)).history],
               persist' = [persist EXCEPT ![t] = DequeuedDetached(r)]
        PROVE  ManagerInv'
    <2> DEFINE n == DequeuedDetached(r)
               h == Head(Head(r.detached)).history
    <2>1. /\ n \in Persistence /\ Full(n.detached)
          /\ r.waiting = "no" => n.waiting = "no"
          /\ Settling(r) => Settling(n)
          /\ h \in Nat
      BY <1>1, <1>6, DequeuedDetachedKeeps
    <2>3. persist' = [persist EXCEPT ![t] = n] /\ file' = [file EXCEPT ![t] = h]
      BY <1>6
    <2> HIDE DEF n, h
    <2>4. /\ persist'[t] = n /\ file' \in [Terminals -> Nat \cup {Absent}]
          /\ \A u \in Terminals : u # t => file'[u] = file[u]
      BY <1>4, <2>1, <2>3
    <2>5. t \notin unsaved' => HistoryOf(t)'
      <3> SUFFICES ASSUME t \notin unsaved'
                   PROVE  HistoryOf(t)'
        OBVIOUS
      <3>1. HistoryOf(t)
        BY <1>2 DEF ManagerInv, HistoryInv
      <3>2. disposed /\ sessions[t] = 0
        BY <3>1, <1>6 DEF HistoryOf
      <3> QED
        BY <1>2, <1>3, <2>1, <2>4, <3>1, <3>2 DEF HistoryOf
    <2> QED
      BY <1>1, <1>2, <1>4, <2>1, <2>3, <2>4, <2>5, WritingPreserves DEF table, pty
  <1> QED
    BY <1>5, <1>6 DEF WriteHistory

LEMMA WriteFailsPreserves ==
    ASSUME ManagerInv, NEW t \in Terminals, WriteFails(t)
    PROVE  ManagerInv'
PROOF
  <1> DEFINE r == persist[t]
             n == Dequeued(r)
  <1>1. r \in Persistence /\ Full(r.detached) /\ unsaved \subseteq Terminals
        /\ file \in [Terminals -> Nat \cup {Absent}] /\ TypeOK
    BY DEF ManagerInv, RuntimeInv, TypeOK, DetachedInv
  <1>2. /\ persist' = [persist EXCEPT ![t] = n] /\ r.chain # <<>>
        /\ unsaved' = unsaved \cup {t} /\ file' = file
        /\ failures < MaxFailures /\ failures' = failures + 1
        /\ UNCHANGED <<table, pty, op, disposed, orphans, deleted, outputs, requests>>
    BY DEF WriteFails
  <1>3. /\ n \in Persistence /\ n.detached = r.detached
        /\ r.waiting = "no" => n.waiting = "no"
    BY <1>1, <1>2, DequeuedKeeps
  <1>4. failures' \in 0..MaxFailures
    BY <1>1, <1>2, FailureCounted
  <1> HIDE DEF n
  <1> QED
    BY <1>1, <1>2, <1>3, <1>4, WritingPreserves

(* An operation ends that changes no session.                              *)
LEMMA EndingPreserves ==
    ASSUME ManagerInv, NEW th \in Threads, NEW kind, Continue(th, kind, Idle),
           UNCHANGED <<table, pty, persist, orphans, unsaved>>,
           file' \in [Terminals -> Nat \cup {Absent}], deleted' \subseteq Terminals,
           failures' \in 0..MaxFailures, HistoryInv'
    PROVE  ManagerInv'
PROOF
  <1>1. /\ op' \in [Threads -> Operations] /\ op'[th] = Idle
        /\ \A k \in Threads : k # th => op'[k] = op[k]
        /\ \A t \in op[th].terminals : persist[t].waiting = "no"
        /\ disposed' = disposed /\ outputs' = outputs /\ requests' = requests
    BY IdleFields, ContinueMoves DEF ManagerInv, RuntimeInv
  <1>2. /\ objects' = objects /\ sessions' = sessions /\ older' = older
        /\ processes' = processes /\ killTimers' = killTimers
        /\ persist' = persist /\ orphans' = orphans /\ unsaved' = unsaved
    BY DEF table, pty
  <1>3. Idle.kind = "idle" /\ Idle.terminals = {} /\ Idle.deletes = {}
    BY IdleFields
  <1>4. TypeOK'
    BY <1>1, <1>2, <1>3 DEF ManagerInv, RuntimeInv, TypeOK
  <1>5. OwnersAgree' /\ TimersInv' /\ DetachedInv'
    BY <1>2 DEF ManagerInv, RuntimeInv, OwnersAgree, TimersInv, DetachedInv
  <1>6. OperationsInv'
    BY <1>1, <1>2, <1>3 DEF ManagerInv, RuntimeInv, OperationsInv, OperationOf, Launching
  <1>7. WaitInv'
    BY <1>1, <1>2, TerminalAssumption DEF ManagerInv, RuntimeInv, WaitInv
  <1>8. LocatedInv'
    <2> SUFFICES ASSUME NEW s \in DOMAIN objects, objects[s].process # 0 \/ Launched(s)'
                 PROVE  \/ sessions[objects[s].terminal] = s \/ s \in orphans
                        \/ Disposed(s)'
      BY <1>2 DEF LocatedInv
    <2>2. objects[s].terminal \in Terminals /\ ThreadOf[objects[s].terminal] \in Threads
      BY ObjectTypes DEF ManagerInv, RuntimeInv
    <2>3. Launched(s)' => Launched(s)
      BY <1>1, <1>2, <1>3, <2>2 DEF Launched, Launching
    <2>4. Disposed(s) => Disposed(s)'
      BY <1>1, <1>2, <1>3, <2>2 DEF Disposed
    <2> QED
      BY <2>3, <2>4 DEF ManagerInv, RuntimeInv, LocatedInv
  <1> QED
    BY <1>2, <1>4, <1>5, <1>6, <1>7, <1>8, TableKept DEF ManagerInv, RuntimeInv, table

(* Nor a history.                                                          *)
LEMMA EndingKeepsHistories ==
    ASSUME ManagerInv, NEW th \in Threads, NEW kind, Continue(th, kind, Idle),
           UNCHANGED <<table, persist, file, history>>
    PROVE  HistoryInv'
PROOF
  <1>1. /\ op'[th] = Idle /\ \A k \in Threads : k # th => op'[k] = op[k]
        /\ disposed' = disposed
    BY IdleFields, ContinueMoves DEF ManagerInv, RuntimeInv
  <1>2. /\ objects' = objects /\ sessions' = sessions /\ persist' = persist /\ file' = file
        /\ unsaved' = unsaved /\ deleted' = deleted
    BY DEF table, history
  <1> SUFFICES ASSUME NEW t \in Terminals \ unsaved
               PROVE  HistoryOf(t)'
    BY <1>2 DEF HistoryInv
  <1>3. HistoryOf(t) /\ (Reading(t)' => Reading(t))
    BY <1>1, IdleFields, ReadingKept DEF ManagerInv, RuntimeInv, HistoryInv
  <1> QED
    BY <1>1, <1>2, <1>3, HistoryKept

LEMMA FailedEndingPreserves ==
    ASSUME ManagerInv, NEW th \in Threads, NEW kind, Continue(th, kind, Idle),
           UNCHANGED <<table, pty, persist, file, history>>,
           failures' \in 0..MaxFailures
    PROVE  ManagerInv'
PROOF
  <1>1. HistoryInv'
    BY EndingKeepsHistories
  <1>2. file' = file /\ deleted' = deleted /\ orphans' = orphans /\ unsaved' = unsaved
    BY DEF history
  <1>3. file' \in [Terminals -> Nat \cup {Absent}] /\ deleted' \subseteq Terminals
    BY <1>2 DEF ManagerInv, RuntimeInv, TypeOK
  <1> QED
    BY <1>1, <1>2, <1>3, EndingPreserves

LEMMA ReadFailsPreserves ==
    ASSUME ManagerInv, NEW th \in Threads, ReadFails(th)
    PROVE  ManagerInv'
BY FailureCounted, FailedEndingPreserves DEF ReadFails, ManagerInv, RuntimeInv

LEMMA DeletionFailsPreserves ==
    ASSUME ManagerInv, NEW th \in Threads, DeletionFails(th)
    PROVE  ManagerInv'
BY FailureCounted, FailedEndingPreserves DEF DeletionFails, ManagerInv, RuntimeInv

LEMMA ClearDonePreserves ==
    ASSUME ManagerInv, NEW th \in Threads, ClearDone(th)
    PROVE  ManagerInv'
PROOF
  <1>1. failures' \in 0..MaxFailures
    BY DEF ClearDone, ManagerInv, RuntimeInv, TypeOK
  <1> QED
    BY <1>1, FailedEndingPreserves DEF ClearDone

(* What settles is finished when nothing is waited for.                    *)
LEMMA SettledIsFinished ==
    ASSUME NEW r \in Persistence, Settling(r), r.waiting = "no"
    PROVE  Finished(r) /\ ~Unfinished(r)
BY DEF Settling, Finished, Unfinished

LEMMA CloseDonePreserves ==
    ASSUME ManagerInv, NEW th \in Threads, CloseDone(th)
    PROVE  ManagerInv'
PROOF
  <1> DEFINE D == op[th].deletes
  <1>1. /\ Continue(th, "close", Idle)
        /\ file' = [t \in Terminals |-> IF t \in D THEN Absent ELSE file[t]]
        /\ deleted' = deleted \cup D
        /\ UNCHANGED <<table, pty, persist, orphans, unsaved>>
        /\ objects' = objects /\ sessions' = sessions /\ persist' = persist
        /\ unsaved' = unsaved /\ failures' = failures
    BY DEF CloseDone, table
  <1>2. /\ op'[th] = Idle /\ \A k \in Threads : k # th => op'[k] = op[k]
        /\ \A t \in op[th].terminals : persist[t].waiting = "no"
        /\ op[th].kind = "close" /\ disposed' = disposed
    BY <1>1, IdleFields, ContinueMoves DEF ManagerInv, RuntimeInv
  <1>3. D \subseteq Terminals
    BY DEF ManagerInv, RuntimeInv, TypeOK, Operations
  <1>4. /\ file' \in [Terminals -> Nat \cup {Absent}] /\ deleted' \subseteq Terminals
        /\ failures' \in 0..MaxFailures
    BY <1>1, <1>3 DEF ManagerInv, RuntimeInv, TypeOK
  <1>5. ASSUME NEW t \in Terminals \ unsaved
        PROVE  HistoryOf(t)'
    <2>1. HistoryOf(t) /\ (Reading(t)' => Reading(t))
      BY <1>2, IdleFields, ReadingKept DEF ManagerInv, RuntimeInv, HistoryInv
    <2>2. CASE t \notin D
      <3>1. file'[t] = file[t] /\ (t \in deleted' => t \in deleted)
        BY <1>1, <2>2
      <3> QED
        BY <1>1, <1>2, <2>1, <3>1, HistoryKept
    <2>3. CASE t \in D
      <3>1. sessions[t] = 0 /\ ThreadOf[t] = th
        BY <1>2, <2>3 DEF ManagerInv, RuntimeInv, OperationsInv, OperationOf
      <3>2. persist[t].waiting = "no"
        BY <1>2, <3>1 DEF ManagerInv, RuntimeInv, WaitInv
      <3>3. ~disposed => ~Unfinished(persist[t])
        <4>1. persist[t] \in Persistence
          BY DEF ManagerInv, RuntimeInv, TypeOK
        <4>2. ~disposed => Settling(persist[t])
          BY <2>1, <3>1 DEF HistoryOf
        <4> QED
          BY <4>1, <4>2, <3>2, SettledIsFinished
      <3>4. file'[t] = Absent
        BY <1>1, <2>3
      <3> QED
        BY <1>1, <1>2, <2>1, <3>1, <3>3, <3>4 DEF HistoryOf
    <2> QED
      BY <2>2, <2>3
  <1>6. HistoryInv'
    BY <1>1, <1>5 DEF HistoryInv
  <1> QED
    BY <1>1, <1>4, <1>6, EndingPreserves
-----------------------------------------------------------------------------
(* The other operations go on.                                             *)

LEMMA OperationsKept ==
    ASSUME ManagerInv, NEW th \in Threads, \A k \in Threads : k # th => op'[k] = op[k],
           OperationOf(th)',
           \A t \in Terminals : ThreadOf[t] # th /\ sessions[t] = 0 => sessions'[t] = 0,
           \A s \in DOMAIN objects :
                /\ objects'[s].terminal = objects[s].terminal
                /\ objects[s].process = 0 /\ ThreadOf[objects[s].terminal] # th
                        => objects'[s].process = 0
    PROVE  OperationsInv'
PROOF
  <1> SUFFICES ASSUME NEW k \in Threads, k # th
               PROVE  OperationOf(k)'
    BY DEF OperationsInv
  <1>1. op'[k] = op[k] /\ OperationOf(k)
    BY DEF ManagerInv, RuntimeInv, OperationsInv
  <1>2. op[k] \in Operations /\ (op[k].kind \in Launching => op[k].object \in DOMAIN objects)
    BY DEF ManagerInv, RuntimeInv, TypeOK, Launching
  <1>3. op[k].terminals \subseteq Terminals /\ op[k].deletes \subseteq Terminals
    BY <1>2 DEF Operations
  <1> QED
    BY <1>1, <1>2, <1>3 DEF OperationOf

LEMMA WaitKept ==
    ASSUME ManagerInv, NEW th \in Threads, \A k \in Threads : k # th => op'[k] = op[k],
           \A t \in Terminals : ThreadOf[t] # th /\ persist[t].waiting = "no"
                                    => persist'[t].waiting = "no",
           \A t \in Terminals : ThreadOf[t] = th /\ t \notin op'[th].terminals
                                    => persist'[t].waiting = "no"
    PROVE  WaitInv'
BY TerminalAssumption DEF ManagerInv, RuntimeInv, WaitInv

(* A session that is launched now was launched before, but for that of th. *)
LEMMA LaunchedKept ==
    ASSUME ManagerInv, NEW th \in Threads, \A k \in Threads : k # th => op'[k] = op[k],
           NEW s \in DOMAIN objects, objects'[s].terminal = objects[s].terminal, Launched(s)',
           ~(op'[th].kind \in Launching /\ op'[th].object = s)
    PROVE  Launched(s) /\ Starting(s)
PROOF
  <1>1. ThreadOf[objects[s].terminal] \in Threads
    BY ObjectTypes DEF ManagerInv, RuntimeInv
  <1> QED
    BY <1>1 DEF Launched, Starting, Launching

LEMMA DisposedKept ==
    ASSUME ManagerInv, NEW th \in Threads, \A k \in Threads : k # th => op'[k] = op[k],
           NEW s \in DOMAIN objects, objects'[s].terminal = objects[s].terminal, Disposed(s),
           disposed' = disposed, op'[th].kind # "read",
           sessions[objects[s].terminal] = 0 => sessions'[objects[s].terminal] = 0
    PROVE  Disposed(s)'
PROOF
  <1>1. ThreadOf[objects[s].terminal] \in Threads
    BY ObjectTypes DEF ManagerInv, RuntimeInv
  <1> QED
    BY <1>1 DEF Disposed

(* The map after an eviction.                                              *)
LEMMA EvictTypes ==
    ASSUME NEW map, NEW order, Evict(map, order),
           objects' \in Seq(Objects), map \in [Terminals -> 0..Len(objects')],
           \A t \in Terminals : map[t] # 0 => objects'[map[t]].terminal = t,
           order \subseteq Terminals \X Terminals, Linear(order, Inactive(map, objects'))
    PROVE  /\ sessions' \in [Terminals -> 0..Len(objects')]
           /\ older' \subseteq Terminals \X Terminals
           /\ MapInv' /\ OrderInv' /\ InactiveSessionsAreFew'
PROOF
  <1> DEFINE E == Evictees(map, objects', order)
             I == Inactive(map, objects')
  <1>1. Drop(E, {}, map, order)
    BY DEF Evict
  <1> HIDE DEF E
  <1>2. sessions' = [t \in Terminals |-> IF t \in E \cup {} THEN 0 ELSE map[t]]
    BY <1>1, DropLeaves
  <1>3. sessions' \in [Terminals -> 0..Len(objects')]
    BY <1>2
  <1>4. MapInv'
    BY <1>2 DEF MapInv
  <1>5. IsFiniteSet(I)
    BY InactiveIsFinite
  <1>6. OrderInv' /\ InactiveSessionsAreFew'
    BY <1>5, EvictMoves
  <1>7. older' \subseteq order
    BY <1>1 DEF Drop
  <1> QED
    BY <1>3, <1>4, <1>6, <1>7

LEMMA EvictChanges ==
    ASSUME NEW map, NEW order, Evict(map, order), NEW t \in Terminals
    PROVE  LET E == Evictees(map, objects', order)
           IN  /\ t \in E => sessions'[t] = 0 /\ map[t] # 0 /\ objects'[map[t]].status # "running"
               /\ t \notin E => sessions'[t] = map[t]
               /\ t \in E /\ Starting(map[t]) => map[t] \in orphans' /\ t \in unsaved'
               /\ t \in E /\ Unfinished(persist[t]) => t \in unsaved'
PROOF
  <1> DEFINE E == Evictees(map, objects', order)
  <1>1. Drop(E, {}, map, order) /\ (t \in E => map[t] # 0 /\ objects'[map[t]].status # "running")
    BY DEF Evict, Evictees, Inactive
  <1> HIDE DEF E
  <1>2. sessions' = [u \in Terminals |-> IF u \in E \cup {} THEN 0 ELSE map[u]]
    BY <1>1, DropLeaves
  <1>3. /\ orphans' = orphans \cup {map[u] : u \in {v \in E : Starting(map[v])}}
        /\ unsaved' = unsaved \cup {u \in E : Unfinished(persist[u]) \/ Starting(map[u])}
    BY <1>1, DropLoses
  <1>4. t \in E /\ Starting(map[t]) => map[t] \in orphans' /\ t \in unsaved'
    BY <1>3
  <1>5. t \in E /\ Unfinished(persist[t]) => t \in unsaved'
    BY <1>3
  <1> QED
    BY <1>1, <1>2, <1>4, <1>5 DEF E

LEMMA EvictOrphans ==
    ASSUME ManagerInv, NEW map, NEW order, Evict(map, order),
           map \in [Terminals -> 0..Len(objects')],
           \A t \in Terminals : map[t] # 0 => objects'[map[t]].terminal = t,
           objects' \in Seq(Objects), DOMAIN objects \subseteq DOMAIN objects',
           \A s \in DOMAIN objects : objects'[s].terminal = objects[s].terminal
    PROVE  /\ orphans' \subseteq DOMAIN objects' /\ orphans \subseteq orphans'
           /\ unsaved' \subseteq Terminals /\ unsaved \subseteq unsaved'
           /\ OrphansInv'
PROOF
  <1> DEFINE E == Evictees(map, objects', order)
             new == {map[u] : u \in {v \in E : Starting(map[v])}}
             lost == {u \in E : Unfinished(persist[u]) \/ Starting(map[u])}
  <1>1. Drop(E, {}, map, order) /\ \A t \in E : t \in Terminals /\ map[t] # 0
    BY DEF Evict, Evictees, Inactive
  <1> HIDE DEF E
  <1>2. orphans' = orphans \cup new /\ unsaved' = unsaved \cup lost
    BY <1>1, DropLoses
  <1>3. \A t \in E : map[t] \in DOMAIN objects' /\ objects'[map[t]].terminal = t
    BY <1>1
  <1>4. \A s \in new : s \in DOMAIN objects' /\ objects'[s].terminal \in lost
    BY <1>3
  <1>5. lost \subseteq Terminals
    BY <1>1
  <1> HIDE DEF new, lost
  <1>6. /\ orphans \subseteq DOMAIN objects /\ unsaved \subseteq Terminals
        /\ \A s \in orphans : objects[s].terminal \in unsaved
    BY DEF ManagerInv, RuntimeInv, TypeOK, OrphansInv
  <1>7. \A s \in orphans' : objects'[s].terminal \in unsaved'
    BY <1>2, <1>4, <1>6
  <1> QED
    BY <1>2, <1>4, <1>5, <1>6, <1>7 DEF OrphansInv

(* A session with a process, or with one to come, stays in the map or is   *)
(* lost to an operation that is starting it.                               *)
LEMMA EvictLocates ==
    ASSUME NEW map, NEW order, Evict(map, order), NEW t \in Terminals, NEW s \in DOMAIN objects',
           OwnersAgree', map[t] = s, objects'[s].process # 0 \/ Starting(s)
    PROVE  sessions'[t] = s \/ s \in orphans'
PROOF
  <1>1. objects'[s].process # 0 => objects'[s].status = "running"
    BY DEF OwnersAgree
  <1> QED
    BY <1>1, EvictChanges

LEMMA ForgottenKeepsFull ==
    ASSUME NEW r \in Persistence, Full(r.detached)
    PROVE  Full(Forgotten(r).detached)
PROOF
  <1>1. r.detached \in Seq(Seq(Writes)) /\ r.chain \in Seq(Writes)
    BY PersistenceFields
  <1>2. r.chain # <<>> => Full(Append(r.detached, r.chain))
    BY <1>1 DEF Full
  <1> QED
    BY <1>2, ForgottenFields

(* What an eviction leaves of the history of a terminal.                   *)
LEMMA LostHistory ==
    ASSUME ManagerInv, NEW t \in Terminals \ unsaved, sessions[t] # 0, ~Unfinished(persist[t]),
           sessions'[t] = 0, persist'[t] = Forgotten(persist[t]), disposed' = disposed,
           t \in deleted' => t \in deleted
    PROVE  HistoryOf(t)'
PROOF
  <1>1. HistoryOf(t) /\ persist[t] \in Persistence
    BY DEF ManagerInv, RuntimeInv, TypeOK, HistoryInv
  <1>2. t \in deleted' => disposed'
    BY <1>1 DEF HistoryOf
  <1>3. persist'[t].pending = Absent /\ persist'[t].chain = <<>> /\ persist'[t].detached = <<>>
    BY <1>1, ForgottenFields DEF Unfinished
  <1>4. AwaitedOnce(persist'[t]) /\ Settling(persist'[t])
    BY <1>3 DEF AwaitedOnce, Settling, LastAwaited
  <1> QED
    BY <1>2, <1>3, <1>4 DEF HistoryOf

LEMMA EvictedHistory ==
    ASSUME ManagerInv, NEW map, NEW order, Evict(map, order), NEW t \in Terminals \ unsaved',
           unsaved \subseteq unsaved', t \in Evictees(map, objects', order), map[t] = sessions[t],
           persist'[t] = Forgotten(persist[t]), disposed' = disposed, t \in deleted' => t \in deleted
    PROVE  HistoryOf(t)'
PROOF
  <1>1. sessions'[t] = 0 /\ sessions[t] # 0 /\ ~Unfinished(persist[t])
    BY EvictChanges
  <1> QED
    BY <1>1, LostHistory
-----------------------------------------------------------------------------
(* Calls.                                                                  *)

(* While no operation is in progress, nothing is waited for.               *)
LEMMA IdleTerminals ==
    ASSUME ManagerInv, NEW t \in Terminals, op[ThreadOf[t]] = Idle
    PROVE  /\ persist[t] \in Persistence /\ Full(persist[t].detached)
           /\ persist[t].waiting = "no" /\ ThreadOf[t] \in Threads
BY IdleFields, TerminalAssumption DEF ManagerInv, RuntimeInv, WaitInv, TypeOK, DetachedInv

LEMMA UnawaitedWhileIdle ==
    ASSUME NEW r, AwaitedOnce(r), r.waiting = "no"
    PROVE  Unawaited(r.chain)
BY DEF AwaitedOnce, Unawaited

LEMMA OpenUnknownPreserves ==
    ASSUME ManagerInv, NEW t \in Terminals, OpenUnknown(t)
    PROVE  ManagerInv'
PROOF
  <1> DEFINE th == ThreadOf[t]
             new == Operation("read", {t}, 0, {})
             r == persist[t]
             n == FlushPersistQueue(r)
  <1>1. /\ sessions[t] = 0 /\ Called(th, new) /\ persist' = [persist EXCEPT ![t] = n]
        /\ objects' = objects /\ sessions' = sessions /\ older' = older
        /\ processes' = processes /\ killTimers' = killTimers
        /\ orphans' = orphans /\ unsaved' = unsaved /\ deleted' = deleted
    BY DEF OpenUnknown, table, pty, history
  <1>2. /\ new \in Operations /\ new.kind = "read" /\ new.terminals = {t} /\ new.deletes = {}
        /\ th \in Threads
    BY OperationFields, TerminalAssumption
  <1> HIDE DEF new
  <1>3. /\ op' \in [Threads -> Operations] /\ op'[th] = new
        /\ \A k \in Threads : k # th => op'[k] = op[k]
        /\ op[th] = Idle /\ ~disposed /\ requests' \in 0..MaxRequests
        /\ file' = file /\ disposed' = disposed /\ outputs' = outputs /\ failures' = failures
    BY <1>1, <1>2, CalledMoves DEF ManagerInv, RuntimeInv
  <1>4. r \in Persistence /\ Full(r.detached) /\ r.waiting = "no"
    BY <1>3, IdleTerminals
  <1>5. Flushed(r, n)
    BY <1>4, FlushPersistQueueFlushes
  <1> HIDE DEF n
  <1>6. n \in Persistence /\ Full(n.detached)
    BY <1>4, <1>5 DEF Flushed
  <1>7. /\ persist' \in [Terminals -> Persistence] /\ persist'[t] = n
        /\ \A u \in Terminals : u # t => persist'[u] = persist[u]
    BY <1>1, <1>6 DEF ManagerInv, RuntimeInv, TypeOK
  <1>8. TypeOK'
    BY <1>1, <1>2, <1>3, <1>7 DEF ManagerInv, RuntimeInv, TypeOK
  <1>9. OwnersAgree' /\ TimersInv' /\ DetachedInv'
    BY <1>1, <1>6, <1>7 DEF ManagerInv, RuntimeInv, OwnersAgree, TimersInv, DetachedInv
  <1>10. OperationsInv'
    <2>1. OperationOf(th)'
      BY <1>1, <1>2, <1>3 DEF OperationOf, Launching
    <2> QED
      BY <1>1, <1>2, <1>3, <2>1, OperationsKept
  <1>11. WaitInv'
    <2>1. \A u \in Terminals : ThreadOf[u] = th /\ u # t => persist'[u].waiting = "no"
      BY <1>3, <1>7, IdleTerminals
    <2>2. \A u \in Terminals : ThreadOf[u] # th => persist'[u] = persist[u]
      BY <1>7
    <2> QED
      BY <1>2, <1>3, <2>1, <2>2, WaitKept
  <1>12. LocatedInv'
    <2> SUFFICES ASSUME NEW s \in DOMAIN objects, objects[s].process # 0 \/ Launched(s)'
                 PROVE  sessions[objects[s].terminal] = s \/ s \in orphans
      BY <1>1 DEF LocatedInv
    <2>1. Launched(s)' => Launched(s)
      BY <1>1, <1>2, <1>3, LaunchedKept DEF Launching
    <2> QED
      BY <1>3, <2>1 DEF ManagerInv, RuntimeInv, LocatedInv, Disposed
  <1>13. HistoryInv'
    <2> SUFFICES ASSUME NEW u \in Terminals \ unsaved
                 PROVE  HistoryOf(u)'
      BY <1>1 DEF HistoryInv
    <2>1. HistoryOf(u)
      BY DEF ManagerInv, HistoryInv
    <2>2. CASE u # t
      <3>1. Reading(u)' => Reading(u)
        BY <1>2, <1>3, <2>2, TerminalAssumption DEF Reading
      <3> QED
        BY <1>1, <1>3, <1>7, <2>1, <2>2, <3>1, HistoryKept
    <2>3. CASE u = t
      <3>1. Finished(r)
        BY <1>1, <1>3, <1>4, <2>1, <2>3, SettledIsFinished DEF HistoryOf
      <3>2. n.pending = Absent /\ n.chain = <<>> /\ n.detached = <<>>
        BY <1>5, <3>1 DEF Flushed, Finished
      <3>3. AwaitedOnce(n) /\ Settling(n) /\ ~Unfinished(n)
        BY <3>2 DEF AwaitedOnce, Settling, LastAwaited, Unfinished
      <3> QED
        BY <1>1, <1>3, <1>7, <2>1, <2>3, <3>2, <3>3 DEF HistoryOf
    <2> QED
      BY <2>2, <2>3
  <1> QED
    BY <1>1, <1>8, <1>9, <1>10, <1>11, <1>12, <1>13, TableKept DEF ManagerInv, RuntimeInv, table

(* A session without a process is an inactive one.                         *)
LEMMA WithoutProcess ==
    ASSUME ManagerInv, NEW s \in DOMAIN objects, objects[s].process = 0
    PROVE  objects[s].status # "running"
BY DEF ManagerInv, RuntimeInv, OwnersAgree

LEMMA OpenStoppedPreserves ==
    ASSUME ManagerInv, NEW t \in Terminals, OpenStopped(t)
    PROVE  ManagerInv'
PROOF
  <1> DEFINE th == ThreadOf[t]
             s == sessions[t]
             new == Operation("spawn", {}, s, {})
             o == [objects[s] EXCEPT !.status = "starting"]
  <1>1. /\ s # 0 /\ objects[s].process = 0 /\ Called(th, new)
        /\ objects' = [objects EXCEPT ![s] = o] /\ Reorder(Touched(t))
        /\ processes' = processes /\ killTimers' = killTimers /\ persist' = persist
        /\ orphans' = orphans /\ unsaved' = unsaved /\ deleted' = deleted
    BY DEF OpenStopped, pty, history
  <1>2. /\ s \in DOMAIN objects /\ s \in Nat /\ objects[s] \in Objects /\ objects[s].terminal = t
        /\ objects \in Seq(Objects)
    BY <1>1, ObjectTypes DEF ManagerInv, RuntimeInv, TypeOK, MapInv
  <1>3. /\ new \in Operations /\ new.kind = "spawn" /\ new.terminals = {} /\ new.deletes = {}
        /\ new.object = s /\ th \in Threads
    BY <1>2, OperationFields, TerminalAssumption
  <1>4. /\ o \in Objects /\ o.terminal = t /\ o.status = "starting" /\ o.process = 0
        /\ o.history = objects[s].history
    BY <1>1, <1>2 DEF Objects
  <1> HIDE DEF new, o
  <1>5. /\ op' \in [Threads -> Operations] /\ op'[th] = new
        /\ \A k \in Threads : k # th => op'[k] = op[k]
        /\ op[th] = Idle /\ ~disposed /\ requests' \in 0..MaxRequests
        /\ file' = file /\ disposed' = disposed /\ outputs' = outputs /\ failures' = failures
    BY <1>1, <1>3, CalledMoves DEF ManagerInv, RuntimeInv
  <1>6. /\ objects' \in Seq(Objects) /\ Len(objects') = Len(objects)
        /\ DOMAIN objects' = DOMAIN objects /\ objects'[s] = o
        /\ \A r \in DOMAIN objects : r # s => objects'[r] = objects[r]
    BY <1>1, <1>2, <1>4, ObjectReplaced
  <1> HIDE DEF s
  <1>7. \A r \in DOMAIN objects :
          /\ objects'[r].terminal = objects[r].terminal /\ objects'[r].process = objects[r].process
          /\ objects'[r].history = objects[r].history
          /\ objects'[r].status = "running" <=> objects[r].status = "running"
    BY <1>1, <1>2, <1>4, <1>6, WithoutProcess
  <1>8. Inactive(sessions, objects') = Inactive(sessions, objects)
    BY <1>7 DEF Inactive, ManagerInv, RuntimeInv, TypeOK
  <1>9. sessions' = sessions /\ OrderInv' /\ InactiveSessionsAreFew'
        /\ older' \subseteq Terminals \X Terminals
    <2>1. Linear(Touched(t), Inactive(sessions, objects'))
      <3>1. Inactive(sessions, objects) \subseteq Terminals
        BY DEF Inactive
      <3> QED
        BY <1>8, <3>1, TouchedIsLinear DEF ManagerInv, RuntimeInv, OrderInv
    <2>2. Touched(t) \subseteq Terminals \X Terminals
      BY DEF Touched, ManagerInv, RuntimeInv, TypeOK
    <2>3. sessions' = sessions /\ older' \subseteq Touched(t) /\ OrderInv'
      BY <1>1, <2>1, ReorderMoves
    <2> QED
      BY <1>8, <2>2, <2>3 DEF ManagerInv, RuntimeInv, InactiveSessionsAreFew
  <1>10. TypeOK'
    BY <1>1, <1>2, <1>3, <1>5, <1>6, <1>9 DEF ManagerInv, RuntimeInv, TypeOK
  <1>11. OwnersAgree' /\ TimersInv' /\ DetachedInv'
    BY <1>1, <1>6, <1>7 DEF ManagerInv, RuntimeInv, OwnersAgree, TimersInv, DetachedInv, TypeOK
  <1>12. MapInv' /\ OrphansInv'
    BY <1>1, <1>6, <1>7, <1>9 DEF ManagerInv, RuntimeInv, MapInv, OrphansInv, TypeOK
  <1>13. OperationsInv'
    <2>1. OperationOf(th)'
      BY <1>3, <1>4, <1>5, <1>6 DEF OperationOf, Launching
    <2> QED
      BY <1>3, <1>5, <1>7, <1>9, <2>1, OperationsKept
  <1>14. WaitInv'
    BY <1>1, <1>3, <1>5, IdleTerminals, WaitKept
  <1>15. LocatedInv'
    <2> SUFFICES ASSUME NEW r \in DOMAIN objects, objects[r].process # 0 \/ Launched(r)', r # s
                 PROVE  sessions[objects[r].terminal] = r \/ r \in orphans
      BY <1>1, <1>2, <1>6, <1>7, <1>9 DEF LocatedInv, s
    <2>1. Launched(r)' => Launched(r)
      BY <1>3, <1>5, <1>7, LaunchedKept
    <2> QED
      BY <1>5, <2>1 DEF ManagerInv, RuntimeInv, LocatedInv, Disposed
  <1>16. HistoryInv'
    <2> SUFFICES ASSUME NEW u \in Terminals \ unsaved
                 PROVE  HistoryOf(u)'
      BY <1>1 DEF HistoryInv
    <2>1. HistoryOf(u) /\ (Reading(u)' => Reading(u))
      BY <1>3, <1>5, ReadingKept DEF ManagerInv, RuntimeInv, HistoryInv
    <2>2. sessions[u] # 0 => sessions[u] \in DOMAIN objects
      BY DEF ManagerInv, RuntimeInv, TypeOK
    <2> QED
      BY <1>1, <1>5, <1>7, <1>9, <2>1, <2>2, HistoryKept
  <1> QED
    BY <1>9, <1>10, <1>11, <1>12, <1>13, <1>14, <1>15, <1>16 DEF ManagerInv, RuntimeInv

(* Sessions stay in the map, and none becomes inactive.                    *)
LEMMA ReorderTypes ==
    ASSUME ManagerInv, NEW order, Reorder(order), order \subseteq Terminals \X Terminals,
           Linear(order, Inactive(sessions, objects)),
           objects' \in Seq(Objects), DOMAIN objects' = DOMAIN objects,
           \A s \in DOMAIN objects :
                /\ objects'[s].terminal = objects[s].terminal
                /\ objects[s].status = "running" => objects'[s].status = "running",
           orphans' = orphans, unsaved' = unsaved
    PROVE  /\ sessions' = sessions /\ sessions' \in [Terminals -> 0..Len(objects')]
           /\ older' \subseteq Terminals \X Terminals
           /\ MapInv' /\ OrphansInv' /\ OrderInv' /\ InactiveSessionsAreFew'
PROOF
  <1> DEFINE I == Inactive(sessions, objects)
             J == Inactive(sessions, objects')
  <1>1. sessions \in [Terminals -> 0..Len(objects)] /\ objects \in Seq(Objects) /\ MapInv
        /\ OrphansInv /\ orphans \subseteq DOMAIN objects /\ Cardinality(I) <= MaxRetained
    BY DEF ManagerInv, RuntimeInv, TypeOK, InactiveSessionsAreFew
  <1>2. Len(objects') = Len(objects)
    BY <1>1
  <1>3. J \subseteq I
    BY <1>1 DEF Inactive
  <1>4. Linear(order, J)
    BY <1>3, LinearOnFewer
  <1>5. sessions' = sessions /\ older' \subseteq order /\ OrderInv'
    BY <1>4, ReorderMoves
  <1>6. IsFiniteSet(I) /\ Cardinality(I) \in Nat
    BY <1>1, InactiveIsFinite DEF MapInv
  <1>7. Cardinality(J) \in Nat /\ Cardinality(J) <= Cardinality(I)
    BY <1>3, <1>6, FS_Subset, FS_CardinalityType
  <1>8. InactiveSessionsAreFew'
    BY <1>1, <1>5, <1>6, <1>7, TerminalAssumption DEF InactiveSessionsAreFew
  <1>9. MapInv' /\ OrphansInv'
    BY <1>1, <1>5 DEF MapInv, OrphansInv
  <1> QED
    BY <1>1, <1>2, <1>5, <1>8, <1>9

LEMMA StartSessionPreserves ==
    ASSUME ManagerInv, NEW th \in Threads, StartSession(th)
    PROVE  ManagerInv'
PROOF
  <1> DEFINE s == op[th].object
             new == Operation("spawn", {}, s, {})
             o == [objects[s] EXCEPT !.status = "starting"]
  <1>1. /\ Continue(th, "start", new)
        /\ objects' = [objects EXCEPT ![s] = o] /\ Reorder(TouchedBy(s))
        /\ processes' = processes /\ killTimers' = killTimers /\ persist' = persist /\ file' = file
        /\ orphans' = orphans /\ unsaved' = unsaved /\ deleted' = deleted /\ failures' = failures
    BY DEF StartSession, pty, history
  <1>2. op[th].kind = "start"
    BY <1>1 DEF Continue
  <1>3. /\ s \in DOMAIN objects /\ s \in Nat /\ objects[s] \in Objects /\ objects[s].process = 0
        /\ objects \in Seq(Objects) /\ objects[s].terminal \in Terminals
        /\ ThreadOf[objects[s].terminal] = th
    BY <1>2, ObjectTypes DEF ManagerInv, RuntimeInv, TypeOK, OperationsInv, OperationOf, Launching
  <1>4. /\ new \in Operations /\ new.kind = "spawn" /\ new.terminals = {} /\ new.deletes = {}
        /\ new.object = s
    BY <1>3, OperationFields
  <1>5. /\ o \in Objects /\ o.terminal = objects[s].terminal /\ o.status = "starting"
        /\ o.process = 0 /\ o.history = objects[s].history
    BY <1>3 DEF Objects
  <1> HIDE DEF new, o
  <1>6. /\ op' \in [Threads -> Operations] /\ op'[th] = new
        /\ \A k \in Threads : k # th => op'[k] = op[k]
        /\ \A t \in op[th].terminals : persist[t].waiting = "no"
        /\ disposed' = disposed /\ outputs' = outputs /\ requests' = requests
    BY <1>1, <1>4, ContinueMoves DEF ManagerInv, RuntimeInv
  <1>7. /\ objects' \in Seq(Objects) /\ Len(objects') = Len(objects)
        /\ DOMAIN objects' = DOMAIN objects /\ objects'[s] = o
        /\ \A r \in DOMAIN objects : r # s => objects'[r] = objects[r]
    BY <1>1, <1>3, <1>5, ObjectReplaced
  <1>8. Launched(s)
    BY <1>2, <1>3 DEF Launched, Launching
  <1> HIDE DEF s
  <1>9. \A r \in DOMAIN objects :
          /\ objects'[r].terminal = objects[r].terminal /\ objects'[r].process = objects[r].process
          /\ objects'[r].history = objects[r].history
          /\ objects'[r].status = "running" <=> objects[r].status = "running"
    BY <1>3, <1>5, <1>7, WithoutProcess
  <1>10. TouchedBy(s) \subseteq Terminals \X Terminals
         /\ Linear(TouchedBy(s), Inactive(sessions, objects))
    <2> DEFINE I == Inactive(sessions, objects)
    <2>1. I \subseteq Terminals
      BY DEF Inactive
    <2>2. Linear(older, I) /\ older \subseteq Terminals \X Terminals
      BY DEF ManagerInv, RuntimeInv, TypeOK, OrderInv
    <2> HIDE DEF I
    <2>3. Linear(TouchedBy(s), I)
      BY <2>1, <2>2, TouchedByIsLinear
    <2> QED
      BY <1>3, <2>2, <2>3, TouchedTypes DEF I
  <1>11. /\ sessions' = sessions /\ sessions' \in [Terminals -> 0..Len(objects')]
         /\ older' \subseteq Terminals \X Terminals
         /\ MapInv' /\ OrphansInv' /\ OrderInv' /\ InactiveSessionsAreFew'
    BY <1>1, <1>7, <1>9, <1>10, ReorderTypes
  <1>12. TypeOK'
    BY <1>1, <1>3, <1>4, <1>6, <1>7, <1>11 DEF ManagerInv, RuntimeInv, TypeOK
  <1>13. OwnersAgree' /\ TimersInv' /\ DetachedInv'
    BY <1>1, <1>7, <1>9 DEF ManagerInv, RuntimeInv, OwnersAgree, TimersInv, DetachedInv, TypeOK
  <1>14. OperationsInv'
    <2>1. OperationOf(th)'
      BY <1>3, <1>4, <1>5, <1>6, <1>7 DEF OperationOf, Launching
    <2> QED
      BY <1>6, <1>9, <1>11, <2>1, OperationsKept
  <1>15. WaitInv'
    <2>1. \A u \in Terminals : ThreadOf[u] = th => persist[u].waiting = "no"
      BY <1>6 DEF ManagerInv, RuntimeInv, WaitInv
    <2> QED
      BY <1>1, <1>6, <2>1, WaitKept
  <1>16. LocatedInv'
    <2> SUFFICES ASSUME NEW r \in DOMAIN objects, objects[r].process # 0 \/ Launched(r)'
                 PROVE  \/ sessions[objects[r].terminal] = r \/ r \in orphans
                        \/ Disposed(r)'
      BY <1>1, <1>7, <1>9, <1>11 DEF LocatedInv
    <2>1. Launched(r)' => Launched(r)
      BY <1>4, <1>6, <1>8, <1>9, LaunchedKept
    <2>2. Disposed(r) => Disposed(r)'
      BY <1>4, <1>6, <1>9, <1>11, DisposedKept
    <2> QED
      BY <2>1, <2>2 DEF ManagerInv, RuntimeInv, LocatedInv
  <1>17. HistoryInv'
    <2> SUFFICES ASSUME NEW u \in Terminals \ unsaved
                 PROVE  HistoryOf(u)'
      BY <1>1 DEF HistoryInv
    <2>1. HistoryOf(u) /\ (Reading(u)' => Reading(u))
      BY <1>4, <1>6, ReadingKept DEF ManagerInv, RuntimeInv, HistoryInv
    <2>2. sessions[u] # 0 => sessions[u] \in DOMAIN objects
      BY DEF ManagerInv, RuntimeInv, TypeOK
    <2> QED
      BY <1>1, <1>6, <1>9, <1>11, <2>1, <2>2, HistoryKept
  <1> QED
    BY <1>11, <1>12, <1>13, <1>14, <1>15, <1>16, <1>17 DEF ManagerInv, RuntimeInv

LEMMA SpawnSucceedsPreserves ==
    ASSUME ManagerInv, NEW th \in Threads, SpawnSucceeds(th)
    PROVE  ManagerInv'
PROOF
  <1> DEFINE s == op[th].object
             p == Len(processes) + 1
             process == [session |-> s, status |-> "running", subscribed |-> TRUE]
             o == [objects[s] EXCEPT !.status = "running", !.process = p]
  <1>1. /\ Continue(th, "spawn", Idle) /\ processes' = Append(processes, process)
        /\ objects' = [objects EXCEPT ![s] = o] /\ Reorder(older)
        /\ killTimers' = killTimers /\ persist' = persist /\ file' = file
        /\ orphans' = orphans /\ unsaved' = unsaved /\ deleted' = deleted /\ failures' = failures
    BY DEF SpawnSucceeds, history
  <1>2. op[th].kind = "spawn"
    BY <1>1 DEF Continue
  <1>3. /\ s \in DOMAIN objects /\ s \in Nat /\ objects[s] \in Objects /\ objects[s].process = 0
        /\ objects \in Seq(Objects) /\ objects[s].terminal \in Terminals
        /\ ThreadOf[objects[s].terminal] = th
    BY <1>2, ObjectTypes DEF ManagerInv, RuntimeInv, TypeOK, OperationsInv, OperationOf, Launching
  <1>4. process \in Processes /\ process.session = s /\ process.status = "running"
    BY <1>3 DEF Processes
  <1>5. process.subscribed
    OBVIOUS
  <1>6. processes \in Seq(Processes) /\ p \in Nat /\ p # 0
    BY DEF ManagerInv, RuntimeInv, TypeOK
  <1>7. /\ o \in Objects /\ o.terminal = objects[s].terminal /\ o.status = "running"
        /\ o.process = p /\ o.history = objects[s].history
    BY <1>3, <1>6 DEF Objects
  <1> HIDE DEF process, o
  <1>8. /\ op' \in [Threads -> Operations] /\ op'[th] = Idle
        /\ \A k \in Threads : k # th => op'[k] = op[k]
        /\ \A t \in op[th].terminals : persist[t].waiting = "no"
        /\ disposed' = disposed /\ outputs' = outputs /\ requests' = requests
    BY <1>1, IdleFields, ContinueMoves DEF ManagerInv, RuntimeInv
  <1>9. /\ objects' \in Seq(Objects) /\ Len(objects') = Len(objects)
        /\ DOMAIN objects' = DOMAIN objects /\ objects'[s] = o
        /\ \A r \in DOMAIN objects : r # s => objects'[r] = objects[r]
    BY <1>1, <1>3, <1>7, ObjectReplaced
  <1>10. /\ processes' \in Seq(Processes) /\ DOMAIN processes' = DOMAIN processes \cup {p}
         /\ p \notin DOMAIN processes /\ processes'[p] = process
         /\ \A q \in DOMAIN processes : processes'[q] = processes[q]
    BY <1>1, <1>4, <1>6
  <1>11. Launched(s)
    BY <1>2, <1>3 DEF Launched, Launching
  <1> HIDE DEF s, p
  <1>12. \A r \in DOMAIN objects :
          /\ objects'[r].terminal = objects[r].terminal
          /\ objects'[r].history = objects[r].history
          /\ objects[r].status = "running" => objects'[r].status = "running"
    BY <1>3, <1>7, <1>9
  <1>13. older \subseteq Terminals \X Terminals /\ Linear(older, Inactive(sessions, objects))
    BY DEF ManagerInv, RuntimeInv, TypeOK, OrderInv
  <1>14. /\ sessions' = sessions /\ sessions' \in [Terminals -> 0..Len(objects')]
         /\ older' \subseteq Terminals \X Terminals
         /\ MapInv' /\ OrphansInv' /\ OrderInv' /\ InactiveSessionsAreFew'
    BY <1>1, <1>9, <1>12, <1>13, ReorderTypes
  <1>15. TypeOK'
    <2>1. \A q \in DOMAIN processes' : processes'[q].session \in DOMAIN objects'
      BY <1>3, <1>4, <1>9, <1>10 DEF ManagerInv, RuntimeInv, TypeOK
    <2>2. \A k \in Threads : op'[k].kind \in {"start", "spawn"} => op'[k].object \in DOMAIN objects'
      BY <1>8, <1>9, IdleFields DEF ManagerInv, RuntimeInv, TypeOK
    <2> QED
      BY <1>1, <1>8, <1>9, <1>10, <1>14, <2>1, <2>2 DEF ManagerInv, RuntimeInv, TypeOK
  <1>16. OwnersAgree'
    <2>1. \A q \in DOMAIN processes : processes[q].subscribed => processes[q].session # s
      BY <1>3, <1>6, <1>10 DEF ManagerInv, RuntimeInv, OwnersAgree
    <2>2. \A q \in DOMAIN processes : processes[q].session \in DOMAIN objects
      BY DEF ManagerInv, RuntimeInv, TypeOK
    <2>3. \A r \in DOMAIN objects' :
            /\ objects'[r].status = "running" <=> objects'[r].process # 0
            /\ objects'[r].process # 0 =>
                 /\ objects'[r].process \in DOMAIN processes'
                 /\ processes'[objects'[r].process].session = r
      BY <1>3, <1>4, <1>6, <1>7, <1>9, <1>10 DEF ManagerInv, RuntimeInv, OwnersAgree
    <2>4. \A q \in DOMAIN processes' :
            /\ processes'[q].subscribed <=> processes'[q].status = "running"
            /\ processes'[q].subscribed => objects'[processes'[q].session].process = q
      BY <1>4, <1>5, <1>7, <1>9, <1>10, <2>1, <2>2 DEF ManagerInv, RuntimeInv, OwnersAgree
    <2> QED
      BY <2>3, <2>4 DEF OwnersAgree
  <1>17. TimersInv' /\ DetachedInv'
    BY <1>1, <1>10 DEF ManagerInv, RuntimeInv, TimersInv, DetachedInv, TypeOK
  <1>18. OperationsInv'
    <2>1. OperationOf(th)'
      BY <1>8, IdleFields DEF OperationOf, Launching
    <2>2. \A r \in DOMAIN objects :
            /\ objects'[r].terminal = objects[r].terminal
            /\ objects[r].process = 0 /\ ThreadOf[objects[r].terminal] # th
                    => objects'[r].process = 0
      BY <1>3, <1>9, <1>12
    <2> QED
      BY <1>8, <1>14, <2>1, <2>2, OperationsKept
  <1>19. WaitInv'
    <2>1. \A u \in Terminals : ThreadOf[u] = th => persist[u].waiting = "no"
      BY <1>8 DEF ManagerInv, RuntimeInv, WaitInv
    <2> QED
      BY <1>1, <1>8, <2>1, WaitKept
  <1>20. LocatedInv'
    <2> SUFFICES ASSUME NEW r \in DOMAIN objects, objects'[r].process # 0 \/ Launched(r)'
                 PROVE  \/ sessions[objects[r].terminal] = r \/ r \in orphans
                        \/ Disposed(r)'
      BY <1>1, <1>9, <1>12, <1>14 DEF LocatedInv
    <2>1. Launched(r)' => Launched(r)
      BY <1>8, <1>12, IdleFields, LaunchedKept DEF Launching
    <2>2. objects[r].process # 0 \/ Launched(r)
      BY <1>9, <1>11, <2>1
    <2>3. Disposed(r) => Disposed(r)'
      BY <1>8, <1>12, <1>14, IdleFields, DisposedKept
    <2> QED
      BY <2>2, <2>3 DEF ManagerInv, RuntimeInv, LocatedInv
  <1>21. HistoryInv'
    <2> SUFFICES ASSUME NEW u \in Terminals \ unsaved
                 PROVE  HistoryOf(u)'
      BY <1>1 DEF HistoryInv
    <2>1. HistoryOf(u) /\ (Reading(u)' => Reading(u))
      BY <1>8, IdleFields, ReadingKept DEF ManagerInv, RuntimeInv, HistoryInv
    <2>2. sessions[u] # 0 => sessions[u] \in DOMAIN objects
      BY DEF ManagerInv, RuntimeInv, TypeOK
    <2> QED
      BY <1>1, <1>8, <1>12, <1>14, <2>1, <2>2, HistoryKept
  <1> QED
    BY <1>14, <1>15, <1>16, <1>17, <1>18, <1>19, <1>20, <1>21 DEF ManagerInv, RuntimeInv

(* A history that is written at once, while nothing is waited for.         *)
LEMMA PersistHistoryKeeps ==
    ASSUME NEW r \in Persistence, Unawaited(r.chain), NEW h \in Nat
    PROVE  LET n == PersistHistory(r, h)
           IN  AwaitedOnce(n) /\ \A content : Latest(n, content) = h
PROOF
  <1> DEFINE n == PersistHistory(r, h)
             write == [history |-> h, awaited |-> TRUE]
  <1>1. /\ n.pending = Absent /\ n.chain = Append(r.chain, write) /\ n.waiting = "persist"
    BY PersistHistoryFields
  <1>2. write \in Writes /\ write.history = h
    BY WriteTypes
  <1>3. r.chain \in Seq(Writes) /\ DOMAIN r.chain = 1..Len(r.chain) /\ Len(r.chain) \in Nat
    BY PersistenceFields
  <1> HIDE DEF n, write
  <1>4. /\ DOMAIN n.chain = 1..(Len(r.chain) + 1) /\ Len(n.chain) = Len(r.chain) + 1
        /\ n.chain # <<>> /\ n.chain[Len(n.chain)] = write
        /\ \A i \in DOMAIN r.chain : n.chain[i] = r.chain[i]
    BY <1>1, <1>2, <1>3
  <1>5. AwaitedOnce(n)
    BY <1>1, <1>3, <1>4 DEF AwaitedOnce, Unawaited
  <1>6. \A content : Latest(n, content) = h
    BY <1>1, <1>2, <1>4 DEF Latest
  <1> QED
    BY <1>5, <1>6 DEF n

LEMMA ClearPreserves ==
    ASSUME ManagerInv, NEW t \in Terminals, Clear(t)
    PROVE  ManagerInv'
PROOF
  <1> DEFINE th == ThreadOf[t]
             s == sessions[t]
             new == Operation("clear", {t}, s, {})
             o == [objects[s] EXCEPT !.history = 0]
             r == persist[t]
             n == PersistHistory(r, 0)
  <1>1. /\ s # 0 /\ Called(th, new) /\ persist' = [persist EXCEPT ![t] = n]
        /\ objects' = [objects EXCEPT ![s] = o] /\ Reorder(Touched(t))
        /\ processes' = processes /\ killTimers' = killTimers
        /\ orphans' = orphans /\ unsaved' = unsaved /\ deleted' = deleted
    BY DEF Clear, pty, history
  <1>2. /\ s \in DOMAIN objects /\ s \in Nat /\ objects[s] \in Objects /\ objects[s].terminal = t
        /\ objects \in Seq(Objects)
    BY <1>1, ObjectTypes DEF ManagerInv, RuntimeInv, TypeOK, MapInv
  <1>3. /\ new \in Operations /\ new.kind = "clear" /\ new.terminals = {t} /\ new.deletes = {}
        /\ th \in Threads
    BY <1>2, OperationFields, TerminalAssumption
  <1>4. /\ o \in Objects /\ o.terminal = t /\ o.status = objects[s].status
        /\ o.process = objects[s].process /\ o.history = 0
    BY <1>2 DEF Objects
  <1> HIDE DEF new, o
  <1>5. /\ op' \in [Threads -> Operations] /\ op'[th] = new
        /\ \A k \in Threads : k # th => op'[k] = op[k]
        /\ op[th] = Idle /\ ~disposed /\ requests' \in 0..MaxRequests
        /\ file' = file /\ disposed' = disposed /\ outputs' = outputs /\ failures' = failures
    BY <1>1, <1>3, CalledMoves DEF ManagerInv, RuntimeInv
  <1>6. /\ objects' \in Seq(Objects) /\ Len(objects') = Len(objects)
        /\ DOMAIN objects' = DOMAIN objects /\ objects'[s] = o
        /\ \A q \in DOMAIN objects : q # s => objects'[q] = objects[q]
    BY <1>1, <1>2, <1>4, ObjectReplaced
  <1>7. r \in Persistence /\ Full(r.detached) /\ r.waiting = "no"
    BY <1>5, IdleTerminals
  <1>8. n \in Persistence /\ n.detached = r.detached
    BY <1>7, PersistHistoryFields
  <1> HIDE DEF n
  <1>9. /\ persist' \in [Terminals -> Persistence] /\ persist'[t] = n
        /\ \A u \in Terminals : u # t => persist'[u] = persist[u]
    BY <1>1, <1>8 DEF ManagerInv, RuntimeInv, TypeOK
  <1> HIDE DEF s
  <1>10. \A q \in DOMAIN objects :
          /\ objects'[q].terminal = objects[q].terminal /\ objects'[q].process = objects[q].process
          /\ objects'[q].status = objects[q].status
    BY <1>2, <1>4, <1>6
  <1>11. Touched(t) \subseteq Terminals \X Terminals
         /\ Linear(Touched(t), Inactive(sessions, objects))
    <2> DEFINE I == Inactive(sessions, objects)
    <2>1. I \subseteq Terminals
      BY DEF Inactive
    <2>2. Linear(older, I) /\ older \subseteq Terminals \X Terminals
      BY DEF ManagerInv, RuntimeInv, TypeOK, OrderInv
    <2> HIDE DEF I
    <2>3. Linear(Touched(t), I)
      BY <2>1, <2>2, TouchedIsLinear
    <2> QED
      BY <2>2, <2>3, TouchedTypes DEF I
  <1>12. /\ sessions' = sessions /\ sessions' \in [Terminals -> 0..Len(objects')]
         /\ older' \subseteq Terminals \X Terminals
         /\ MapInv' /\ OrphansInv' /\ OrderInv' /\ InactiveSessionsAreFew'
    BY <1>1, <1>6, <1>10, <1>11, ReorderTypes
  <1>13. TypeOK'
    BY <1>1, <1>3, <1>5, <1>6, <1>9, <1>12 DEF ManagerInv, RuntimeInv, TypeOK
  <1>14. OwnersAgree' /\ TimersInv' /\ DetachedInv'
    BY <1>1, <1>6, <1>7, <1>8, <1>9, <1>10
    DEF ManagerInv, RuntimeInv, OwnersAgree, TimersInv, DetachedInv, TypeOK
  <1>15. OperationsInv'
    <2>1. OperationOf(th)'
      BY <1>3, <1>5 DEF OperationOf, Launching
    <2> QED
      BY <1>3, <1>5, <1>10, <1>12, <2>1, OperationsKept
  <1>16. WaitInv'
    <2>1. \A u \in Terminals : ThreadOf[u] = th /\ u # t => persist'[u].waiting = "no"
      BY <1>5, <1>9, IdleTerminals
    <2>2. \A u \in Terminals : ThreadOf[u] # th => persist'[u] = persist[u]
      BY <1>9
    <2> QED
      BY <1>3, <1>5, <2>1, <2>2, WaitKept
  <1>17. LocatedInv'
    <2> SUFFICES ASSUME NEW q \in DOMAIN objects, objects[q].process # 0 \/ Launched(q)'
                 PROVE  sessions[objects[q].terminal] = q \/ q \in orphans
      BY <1>1, <1>6, <1>10, <1>12 DEF LocatedInv
    <2>1. Launched(q)' => Launched(q)
      BY <1>3, <1>5, <1>10, LaunchedKept DEF Launching
    <2> QED
      BY <1>5, <2>1 DEF ManagerInv, RuntimeInv, LocatedInv, Disposed
  <1>18. HistoryInv'
    <2> SUFFICES ASSUME NEW u \in Terminals \ unsaved
                 PROVE  HistoryOf(u)'
      BY <1>1 DEF HistoryInv
    <2>1. HistoryOf(u) /\ (Reading(u)' => Reading(u))
      BY <1>3, <1>5, ReadingKept DEF ManagerInv, RuntimeInv, HistoryInv
    <2>2. CASE u # t
      <3>1. sessions[u] # 0 => sessions[u] \in DOMAIN objects /\ objects[sessions[u]].terminal = u
        BY DEF ManagerInv, RuntimeInv, TypeOK, MapInv
      <3>2. sessions[u] # 0 => objects'[sessions[u]].history = objects[sessions[u]].history
        BY <1>2, <1>6, <2>2, <3>1
      <3> QED
        BY <1>1, <1>5, <1>9, <1>12, <2>1, <2>2, <3>2, HistoryKept
    <2>3. CASE u = t
      <3>1. r.detached = <<>> /\ AwaitedOnce(r) /\ t \notin deleted
        BY <1>1, <1>5, <2>1, <2>3 DEF HistoryOf, s
      <3>2. AwaitedOnce(n) /\ \A content : Latest(n, content) = 0
        BY <1>7, <3>1, UnawaitedWhileIdle, PersistHistoryKeeps DEF n
      <3>3. sessions'[t] # 0 /\ objects'[sessions'[t]].history = 0
        BY <1>1, <1>4, <1>6, <1>12 DEF s
      <3> QED
        BY <1>1, <1>8, <1>9, <2>3, <3>1, <3>2, <3>3 DEF HistoryOf
    <2> QED
      BY <2>2, <2>3
  <1> QED
    BY <1>12, <1>13, <1>14, <1>15, <1>16, <1>17, <1>18 DEF ManagerInv, RuntimeInv

-----------------------------------------------------------------------------
(* Steps that evict.                                                       *)

LEMMA SpawnFailsPreserves ==
    ASSUME ManagerInv, NEW th \in Threads, SpawnFails(th)
    PROVE  ManagerInv'
PROOF
  <1> DEFINE s == op[th].object
             o == [objects[s] EXCEPT !.status = "error"]
             order == TouchedBy(s)
             E == Evictees(sessions, objects', order)
             I == Inactive(sessions, objects)
  <1>1. /\ Continue(th, "spawn", Idle) /\ objects' = [objects EXCEPT ![s] = o]
        /\ Evict(sessions, order) /\ persist' = Kept(sessions, order)
        /\ processes' = processes /\ killTimers' = killTimers /\ file' = file
        /\ deleted' = deleted /\ failures < MaxFailures /\ failures' = failures + 1
    BY DEF SpawnFails, pty
  <1>2. op[th].kind = "spawn"
    BY <1>1 DEF Continue
  <1>3. /\ s \in DOMAIN objects /\ s \in Nat /\ objects[s] \in Objects /\ objects[s].process = 0
        /\ objects \in Seq(Objects) /\ objects[s].terminal \in Terminals
        /\ ThreadOf[objects[s].terminal] = th
    BY <1>2, ObjectTypes DEF ManagerInv, RuntimeInv, TypeOK, OperationsInv, OperationOf, Launching
  <1>4. /\ o \in Objects /\ o.terminal = objects[s].terminal /\ o.status = "error"
        /\ o.process = 0 /\ o.history = objects[s].history
    BY <1>3 DEF Objects
  <1> HIDE DEF o
  <1>5. /\ op' \in [Threads -> Operations] /\ op'[th] = Idle
        /\ \A k \in Threads : k # th => op'[k] = op[k]
        /\ \A t \in op[th].terminals : persist[t].waiting = "no"
        /\ disposed' = disposed /\ outputs' = outputs /\ requests' = requests
    BY <1>1, IdleFields, ContinueMoves DEF ManagerInv, RuntimeInv
  <1>6. /\ objects' \in Seq(Objects) /\ Len(objects') = Len(objects)
        /\ DOMAIN objects' = DOMAIN objects /\ objects'[s] = o
        /\ \A r \in DOMAIN objects : r # s => objects'[r] = objects[r]
    BY <1>1, <1>3, <1>4, ObjectReplaced
  <1> HIDE DEF s
  <1>7. \A r \in DOMAIN objects :
          /\ objects'[r].terminal = objects[r].terminal /\ objects'[r].process = objects[r].process
          /\ objects'[r].history = objects[r].history
          /\ objects'[r].status = "running" <=> objects[r].status = "running"
    BY <1>3, <1>4, <1>6, WithoutProcess
  <1>8. /\ sessions \in [Terminals -> 0..Len(objects)] /\ persist \in [Terminals -> Persistence]
        /\ \A t \in Terminals : sessions[t] # 0 =>
             sessions[t] \in DOMAIN objects /\ objects[sessions[t]].terminal = t
        /\ older \subseteq Terminals \X Terminals /\ Linear(older, I)
    BY DEF ManagerInv, RuntimeInv, TypeOK, MapInv, OrderInv
  <1>9. Inactive(sessions, objects') = I /\ I \subseteq Terminals
    BY <1>7, <1>8 DEF Inactive
  <1> HIDE DEF I, order
  <1>10. order \subseteq Terminals \X Terminals /\ Linear(order, I)
    BY <1>3, <1>8, <1>9, TouchedTypes, TouchedByIsLinear DEF order
  <1>11. /\ sessions \in [Terminals -> 0..Len(objects')]
                /\ \A t \in Terminals : sessions[t] # 0 => objects'[sessions[t]].terminal = t
                /\ DOMAIN objects \subseteq DOMAIN objects'
    BY <1>6, <1>7, <1>8
  <1>12. /\ sessions' \in [Terminals -> 0..Len(objects')]
         /\ older' \subseteq Terminals \X Terminals
         /\ MapInv' /\ OrderInv' /\ InactiveSessionsAreFew'
    <2>1. Linear(order, Inactive(sessions, objects'))
      BY <1>9, <1>10
    <2>2. Evict(sessions, order) /\ objects' \in Seq(Objects) /\ order \subseteq Terminals \X Terminals
      BY <1>1, <1>6, <1>10
    <2> QED
      BY <2>1, <2>2, <1>11, EvictTypes
  <1>13. /\ orphans' \subseteq DOMAIN objects' /\ orphans \subseteq orphans'
         /\ unsaved' \subseteq Terminals /\ unsaved \subseteq unsaved' /\ OrphansInv'
    BY <1>1, <1>6, <1>7, <1>11, EvictOrphans
  <1>14. /\ persist' \in [Terminals -> Persistence]
         /\ \A t \in Terminals :
              /\ persist'[t].waiting = persist[t].waiting
              /\ t \notin E => persist'[t] = persist[t]
              /\ t \in E => persist'[t] = Forgotten(persist[t])
    <2>1. /\ Kept(sessions, order) \in [Terminals -> Persistence]
          /\ \A t \in Terminals :
               /\ Kept(sessions, order)[t].waiting = persist[t].waiting
               /\ t \notin E => Kept(sessions, order)[t] = persist[t]
               /\ t \in E => Kept(sessions, order)[t] = Forgotten(persist[t])
      BY <1>8, KeptPersistence
    <2> QED
      BY <1>1, <2>1
  <1> HIDE DEF E
  <1>15. failures' \in 0..MaxFailures
    BY <1>1, FailureCounted DEF ManagerInv, RuntimeInv
  <1>16. TypeOK'
    BY <1>1, <1>3, <1>5, <1>6, <1>12, <1>13, <1>14, <1>15, IdleFields DEF ManagerInv, RuntimeInv,
      TypeOK
  <1>17. OwnersAgree' /\ TimersInv'
    BY <1>1, <1>6, <1>7 DEF ManagerInv, RuntimeInv, OwnersAgree, TimersInv, TypeOK
  <1>18. DetachedInv'
    BY <1>8, <1>14, ForgottenKeepsFull DEF ManagerInv, RuntimeInv, DetachedInv
  <1>19. \A t \in Terminals :
           /\ t \in E => sessions'[t] = 0 /\ sessions[t] # 0
           /\ t \notin E => sessions'[t] = sessions[t]
    BY <1>1, EvictChanges DEF E
  <1>20. OperationsInv'
    <2>1. OperationOf(th)'
      BY <1>5, IdleFields DEF OperationOf, Launching
    <2> QED
      BY <1>5, <1>7, <1>19, <2>1, OperationsKept
  <1>21. WaitInv'
    <2>1. \A u \in Terminals : ThreadOf[u] = th => persist[u].waiting = "no"
      BY <1>5 DEF ManagerInv, RuntimeInv, WaitInv
    <2> QED
      BY <1>5, <1>14, <2>1, WaitKept
  <1>22. LocatedInv'
    <2> SUFFICES ASSUME NEW r \in DOMAIN objects, objects'[r].process # 0 \/ Launched(r)'
                 PROVE  \/ sessions'[objects[r].terminal] = r \/ r \in orphans'
                        \/ Disposed(r)'
      BY <1>6, <1>7 DEF LocatedInv
    <2>1. Launched(r)' => Launched(r) /\ Starting(r)
      BY <1>5, <1>7, IdleFields, LaunchedKept DEF Launching
    <2>2. objects[r].terminal \in Terminals
      BY ObjectTypes DEF ManagerInv, RuntimeInv
    <2>3. Disposed(r) => Disposed(r)'
      BY <1>5, <1>7, <1>19, <2>2, IdleFields, DisposedKept
    <2>4. CASE sessions[objects[r].terminal] = r
      BY <1>1, <1>17, <2>1, <2>2, <2>4, EvictLocates
    <2> QED
      BY <1>7, <1>13, <2>1, <2>3, <2>4 DEF ManagerInv, RuntimeInv, LocatedInv
  <1>23. HistoryInv'
    <2> SUFFICES ASSUME NEW u \in Terminals \ unsaved'
                 PROVE  HistoryOf(u)'
      BY DEF HistoryInv
    <2>1. HistoryOf(u) /\ (Reading(u)' => Reading(u))
      BY <1>5, <1>13, IdleFields, ReadingKept DEF ManagerInv, RuntimeInv, HistoryInv
    <2>2. CASE u \in E
      BY <1>1, <1>5, <1>13, <1>14, <2>2, EvictedHistory DEF E
    <2>3. CASE u \notin E
      BY <1>1, <1>5, <1>7, <1>8, <1>14, <1>19, <2>1, <2>3, HistoryKept
    <2> QED
      BY <2>2, <2>3
  <1> QED
    BY <1>12, <1>13, <1>16, <1>17, <1>18, <1>20, <1>21, <1>22, <1>23 DEF ManagerInv, RuntimeInv

(* No operation goes on.                                                   *)
LEMMA OperationsUntouched ==
    ASSUME ManagerInv, op' = op,
           \A t \in Terminals : sessions[t] = 0 => sessions'[t] = 0,
           \A s \in DOMAIN objects :
                /\ objects'[s].terminal = objects[s].terminal
                /\ objects[s].process = 0 => objects'[s].process = 0
    PROVE  OperationsInv'
PROOF
  <1> SUFFICES ASSUME NEW k \in Threads
               PROVE  OperationOf(k)'
    BY DEF OperationsInv
  <1>1. OperationOf(k)
    BY DEF ManagerInv, RuntimeInv, OperationsInv
  <1>2. op[k] \in Operations /\ (op[k].kind \in Launching => op[k].object \in DOMAIN objects)
    BY DEF ManagerInv, RuntimeInv, TypeOK, Launching
  <1>3. op[k].terminals \subseteq Terminals /\ op[k].deletes \subseteq Terminals
    BY <1>2 DEF Operations
  <1> QED
    BY <1>1, <1>2, <1>3 DEF OperationOf

LEMMA LaunchedIsStarting ==
    ASSUME TypeOK, NEW s \in DOMAIN objects, Launched(s)
    PROVE  Starting(s)
PROOF
  <1>1. ThreadOf[objects[s].terminal] \in Threads
    BY ObjectTypes
  <1> QED
    BY <1>1 DEF Launched, Starting, Launching

LEMMA ExitPreserves ==
    ASSUME ManagerInv, NEW p \in DOMAIN processes, Exit(p)
    PROVE  ManagerInv'
PROOF
  <1> DEFINE s == processes[p].session
             dead == [processes[p] EXCEPT !.status = "dead", !.subscribed = FALSE]
             o == [objects[s] EXCEPT !.status = "exited", !.process = 0]
             order == TouchedBy(s)
             E == Evictees(sessions, objects', order)
             I == Inactive(sessions, objects)
  <1>1. /\ processes[p].subscribed /\ processes' = [processes EXCEPT ![p] = dead]
        /\ killTimers' = killTimers \ {p}
        /\ objects' = [objects EXCEPT ![s] = o]
        /\ Evict(sessions, order) /\ persist' = Kept(sessions, order)
        /\ file' = file /\ op' = op /\ disposed' = disposed /\ deleted' = deleted
        /\ outputs' = outputs /\ requests' = requests /\ failures' = failures
    BY DEF Exit, bounds
  <1>2. processes[p] \in Processes /\ processes \in Seq(Processes) /\ p # 0
    BY DEF ManagerInv, RuntimeInv, TypeOK
  <1>3. /\ dead \in Processes /\ dead.session = s /\ dead.status = "dead"
    BY <1>2 DEF Processes
  <1>4. ~dead.subscribed
    BY <1>2 DEF Processes
  <1>5. s \in DOMAIN objects /\ objects \in Seq(Objects) /\ objects[s].process = p
    BY <1>1 DEF ManagerInv, RuntimeInv, TypeOK, OwnersAgree
  <1>6. objects[s] \in Objects /\ objects[s].terminal \in Terminals
    BY <1>5, ObjectTypes DEF ManagerInv, RuntimeInv
  <1>7. /\ o \in Objects /\ o.terminal = objects[s].terminal /\ o.status = "exited"
        /\ o.process = 0 /\ o.history = objects[s].history
    BY <1>6 DEF Objects
  <1> HIDE DEF dead, o
  <1>8. /\ processes' \in Seq(Processes) /\ DOMAIN processes' = DOMAIN processes
        /\ processes'[p] = dead /\ \A q \in DOMAIN processes : q # p => processes'[q] = processes[q]
    BY <1>1, <1>2, <1>3
  <1>9. /\ objects' \in Seq(Objects) /\ Len(objects') = Len(objects)
        /\ DOMAIN objects' = DOMAIN objects /\ objects'[s] = o
        /\ \A r \in DOMAIN objects : r # s => objects'[r] = objects[r]
    BY <1>1, <1>5, <1>7, ObjectReplaced
  <1> HIDE DEF s
  <1>10. \A r \in DOMAIN objects :
          /\ objects'[r].terminal = objects[r].terminal /\ objects'[r].history = objects[r].history
          /\ objects'[r].process # 0 => objects'[r] = objects[r]
          /\ r # s => objects'[r] = objects[r]
    BY <1>7, <1>9
  <1>11. /\ sessions \in [Terminals -> 0..Len(objects')] /\ persist \in [Terminals -> Persistence]
         /\ \A t \in Terminals : sessions[t] # 0 =>
              sessions[t] \in DOMAIN objects /\ objects[sessions[t]].terminal = t
         /\ \A t \in Terminals : sessions[t] # 0 => objects'[sessions[t]].terminal = t
         /\ DOMAIN objects \subseteq DOMAIN objects'
         /\ older \subseteq Terminals \X Terminals /\ Linear(older, I)
    BY <1>9, <1>10 DEF ManagerInv, RuntimeInv, TypeOK, MapInv, OrderInv
  <1>12. /\ Inactive(sessions, objects') \subseteq Terminals
         /\ \A t \in Inactive(sessions, objects') : t \in I \/ sessions[t] = s
    BY <1>9, <1>11 DEF Inactive
  <1> HIDE DEF I, order
  <1>13. order \subseteq Terminals \X Terminals /\ Linear(order, Inactive(sessions, objects'))
    <2> DEFINE J == Inactive(sessions, objects')
               t == objects[s].terminal
    <2>1. J \subseteq I \/ (sessions[t] = s /\ J \subseteq I \cup {t})
      BY <1>5, <1>11, <1>12
    <2>2. J \subseteq Terminals
      BY <1>12
    <2> HIDE DEF J
    <2>3. Linear(order, J)
      BY <1>11, <2>1, <2>2, TouchedByIsLinear DEF order
    <2> QED
      BY <1>6, <1>11, <2>3, TouchedTypes DEF order, J
  <1>14. /\ sessions' \in [Terminals -> 0..Len(objects')]
         /\ older' \subseteq Terminals \X Terminals
         /\ MapInv' /\ OrderInv' /\ InactiveSessionsAreFew'
    <2>1. Evict(sessions, order) /\ objects' \in Seq(Objects)
      BY <1>1, <1>9
    <2> QED
      BY <2>1, <1>11, <1>13, EvictTypes
  <1>15. /\ orphans' \subseteq DOMAIN objects' /\ orphans \subseteq orphans'
         /\ unsaved' \subseteq Terminals /\ unsaved \subseteq unsaved' /\ OrphansInv'
    BY <1>1, <1>9, <1>10, <1>11, EvictOrphans
  <1>16. /\ persist' \in [Terminals -> Persistence]
         /\ \A t \in Terminals :
              /\ persist'[t].waiting = persist[t].waiting
              /\ t \notin E => persist'[t] = persist[t]
              /\ t \in E => persist'[t] = Forgotten(persist[t])
    <2>1. /\ Kept(sessions, order) \in [Terminals -> Persistence]
          /\ \A t \in Terminals :
               /\ Kept(sessions, order)[t].waiting = persist[t].waiting
               /\ t \notin E => Kept(sessions, order)[t] = persist[t]
               /\ t \in E => Kept(sessions, order)[t] = Forgotten(persist[t])
      BY <1>11, KeptPersistence
    <2> QED
      BY <1>1, <2>1
  <1>17. \A t \in Terminals :
           /\ t \in E => sessions'[t] = 0 /\ sessions[t] # 0
           /\ t \notin E => sessions'[t] = sessions[t]
    BY <1>1, EvictChanges
  <1> HIDE DEF E
  <1>18. TypeOK'
    <2>1. \A q \in DOMAIN processes' : processes'[q].session \in DOMAIN objects'
      BY <1>3, <1>8, <1>9 DEF ManagerInv, RuntimeInv, TypeOK, s
    <2> QED
      BY <1>1, <1>8, <1>9, <1>14, <1>15, <1>16, <2>1 DEF ManagerInv, RuntimeInv, TypeOK
  <1>19. OwnersAgree'
    <2>1. \A r \in DOMAIN objects' :
            /\ objects'[r].status = "running" <=> objects'[r].process # 0
            /\ objects'[r].process # 0 =>
                 /\ objects'[r].process \in DOMAIN processes'
                 /\ processes'[objects'[r].process].session = r
      <3>1. \A q \in DOMAIN processes : processes'[q].session = processes[q].session
        BY <1>3, <1>8 DEF s
      <3>2. objects'[s].process = 0 /\ objects'[s].status # "running"
        BY <1>7, <1>9
      <3>3. \A r \in DOMAIN objects : r # s => objects'[r] = objects[r]
        BY <1>9
      <3> QED
        BY <1>8, <1>9, <3>1, <3>2, <3>3 DEF ManagerInv, RuntimeInv, OwnersAgree
    <2>2. \A q \in DOMAIN processes : q # p /\ processes[q].subscribed => processes[q].session # s
      BY <1>5 DEF ManagerInv, RuntimeInv, OwnersAgree
    <2>3. \A q \in DOMAIN processes : processes[q].session \in DOMAIN objects
      BY DEF ManagerInv, RuntimeInv, TypeOK
    <2>4. \A q \in DOMAIN processes' :
            /\ processes'[q].subscribed <=> processes'[q].status = "running"
            /\ processes'[q].subscribed => objects'[processes'[q].session].process = q
      BY <1>3, <1>4, <1>8, <1>9, <2>2, <2>3 DEF ManagerInv, RuntimeInv, OwnersAgree
    <2> QED
      BY <2>1, <2>4 DEF OwnersAgree
  <1>20. TimersInv' /\ DetachedInv'
    <2>1. TimersInv'
      BY <1>1, <1>8 DEF ManagerInv, RuntimeInv, TimersInv, TypeOK
    <2>2. DetachedInv'
      BY <1>11, <1>16, ForgottenKeepsFull DEF ManagerInv, RuntimeInv, DetachedInv
    <2> QED
      BY <2>1, <2>2
  <1>21. OperationsInv'
    <2>1. \A r \in DOMAIN objects :
            /\ objects'[r].terminal = objects[r].terminal
            /\ objects[r].process = 0 => objects'[r].process = 0
      BY <1>10
    <2> QED
      BY <1>1, <1>17, <2>1, OperationsUntouched
  <1>22. WaitInv'
    BY <1>1, <1>16 DEF ManagerInv, RuntimeInv, WaitInv
  <1>23. LocatedInv'
    <2> SUFFICES ASSUME NEW r \in DOMAIN objects, objects'[r].process # 0 \/ Launched(r)'
                 PROVE  \/ sessions'[objects[r].terminal] = r \/ r \in orphans'
                        \/ Disposed(r)'
      BY <1>9, <1>10 DEF LocatedInv
    <2>1. Launched(r)' => Launched(r)
      BY <1>1, <1>10 DEF Launched
    <2>2. objects'[r].process # 0 => objects[r].process # 0
      BY <1>10
    <2>3. objects'[r].process # 0 \/ Starting(r)
      BY <2>1, LaunchedIsStarting DEF ManagerInv, RuntimeInv
    <2>4. objects[r].terminal \in Terminals
      BY ObjectTypes DEF ManagerInv, RuntimeInv
    <2>5. Disposed(r) => Disposed(r)'
      BY <1>1, <1>10, <1>17, <2>4 DEF Disposed
    <2>6. CASE sessions[objects[r].terminal] = r
      BY <1>1, <1>9, <1>19, <2>3, <2>4, <2>6, EvictLocates
    <2> QED
      BY <1>15, <2>1, <2>2, <2>5, <2>6 DEF ManagerInv, RuntimeInv, LocatedInv
  <1>24. HistoryInv'
    <2> SUFFICES ASSUME NEW u \in Terminals \ unsaved'
                 PROVE  HistoryOf(u)'
      BY DEF HistoryInv
    <2>1. HistoryOf(u) /\ (Reading(u)' => Reading(u))
      BY <1>1, <1>15 DEF ManagerInv, HistoryInv, Reading
    <2>2. CASE u \in E
      BY <1>1, <1>15, <1>16, <2>2, EvictedHistory DEF E
    <2>3. CASE u \notin E
      BY <1>1, <1>10, <1>11, <1>16, <1>17, <2>1, <2>3, HistoryKept
    <2> QED
      BY <2>2, <2>3
  <1> QED
    BY <1>14, <1>15, <1>18, <1>19, <1>20, <1>21, <1>22, <1>23, <1>24 DEF ManagerInv, RuntimeInv

LEMMA OutputPreserves ==
    ASSUME ManagerInv, NEW p \in DOMAIN processes, Output(p)
    PROVE  ManagerInv'
PROOF
  <1> DEFINE s == processes[p].session
             t == objects[s].terminal
             h == outputs + 1
             o == [objects[s] EXCEPT !.history = h]
             n == QueuePersist(persist[t], h)
  <1>1. /\ processes[p].subscribed /\ outputs < MaxOutputs /\ outputs' = h
        /\ objects' = [objects EXCEPT ![s] = o]
        /\ persist' = [persist EXCEPT ![t] = n]
        /\ sessions' = sessions /\ older' = older /\ processes' = processes
        /\ killTimers' = killTimers /\ file' = file /\ op' = op /\ disposed' = disposed
        /\ orphans' = orphans /\ unsaved' = unsaved /\ deleted' = deleted
        /\ requests' = requests /\ failures' = failures
    BY DEF Output, pty, history
  <1>2. p # 0 /\ h \in Nat /\ h \in 0..MaxOutputs
    BY <1>1, TerminalAssumption DEF ManagerInv, RuntimeInv, TypeOK
  <1>3. s \in DOMAIN objects /\ objects \in Seq(Objects) /\ objects[s].process = p
    BY <1>1 DEF ManagerInv, RuntimeInv, TypeOK, OwnersAgree
  <1>4. objects[s] \in Objects /\ t \in Terminals
    BY <1>3, ObjectTypes DEF ManagerInv, RuntimeInv
  <1>5. persist[t] \in Persistence /\ Full(persist[t].detached)
    BY <1>4 DEF ManagerInv, RuntimeInv, TypeOK, DetachedInv
  <1> HIDE DEF h
  <1>6. /\ o \in Objects /\ o.terminal = t /\ o.status = objects[s].status
        /\ o.process = objects[s].process /\ o.history = h
    BY <1>2, <1>4 DEF Objects
  <1>7. /\ n \in Persistence /\ n.pending = h /\ n.detached = persist[t].detached
        /\ n.chain = persist[t].chain /\ n.waiting = persist[t].waiting
    BY <1>2, <1>5, QueuePersistFields
  <1> HIDE DEF o, n
  <1>8. /\ objects' \in Seq(Objects) /\ Len(objects') = Len(objects)
        /\ DOMAIN objects' = DOMAIN objects /\ objects'[s] = o
        /\ \A r \in DOMAIN objects : r # s => objects'[r] = objects[r]
    BY <1>1, <1>3, <1>6, ObjectReplaced
  <1> HIDE DEF s, t
  <1>9. \A r \in DOMAIN objects :
          /\ objects'[r].terminal = objects[r].terminal /\ objects'[r].process = objects[r].process
          /\ objects'[r].status = objects[r].status
    BY <1>6, <1>8 DEF t
  <1>10. /\ persist' \in [Terminals -> Persistence] /\ persist'[t] = n
         /\ \A u \in Terminals : u # t => persist'[u] = persist[u]
    BY <1>1, <1>4, <1>7 DEF ManagerInv, RuntimeInv, TypeOK
  <1>11. TypeOK'
    BY <1>1, <1>2, <1>8, <1>10 DEF ManagerInv, RuntimeInv, TypeOK
  <1>12. OwnersAgree' /\ TimersInv' /\ DetachedInv'
    BY <1>1, <1>5, <1>7, <1>8, <1>9, <1>10
    DEF ManagerInv, RuntimeInv, OwnersAgree, TimersInv, DetachedInv, TypeOK
  <1>13. MapInv' /\ OrphansInv' /\ WaitInv'
    BY <1>1, <1>7, <1>9, <1>10 DEF ManagerInv, RuntimeInv, MapInv, OrphansInv, WaitInv, TypeOK
  <1>14. OperationsInv'
    BY <1>1, <1>9, OperationsUntouched
  <1>15. Inactive(sessions', objects') = Inactive(sessions, objects)
    BY <1>1, <1>9 DEF Inactive, ManagerInv, RuntimeInv, TypeOK
  <1>16. OrderInv' /\ InactiveSessionsAreFew'
    BY <1>1, <1>15 DEF ManagerInv, RuntimeInv, OrderInv, InactiveSessionsAreFew
  <1>17. LocatedInv'
    BY <1>1, <1>8, <1>9 DEF ManagerInv, RuntimeInv, LocatedInv, Launched, Disposed
  <1>18. HistoryInv'
    <2> SUFFICES ASSUME NEW u \in Terminals \ unsaved
                 PROVE  HistoryOf(u)'
      BY <1>1 DEF HistoryInv
    <2>1. HistoryOf(u) /\ (Reading(u)' <=> Reading(u))
      BY <1>1 DEF ManagerInv, HistoryInv, Reading
    <2>2. sessions[u] # 0 => sessions[u] \in DOMAIN objects /\ objects[sessions[u]].terminal = u
      BY DEF ManagerInv, RuntimeInv, TypeOK, MapInv
    <2>3. CASE u # t
      <3>1. sessions[u] # 0 => objects'[sessions[u]].history = objects[sessions[u]].history
        BY <1>8, <2>2, <2>3 DEF t
      <3> QED
        BY <1>1, <1>10, <2>1, <2>3, <3>1, HistoryKept
    <2>4. CASE u = t
      <3>1. t \in unsaved \/ sessions[t] = s \/ Disposed(s)
        BY <1>2, <1>3 DEF ManagerInv, RuntimeInv, LocatedInv, OrphansInv, t
      <3>2. CASE sessions[t] = s
        <4>1. /\ s # 0 /\ persist[t].detached = <<>> /\ (t \in deleted => disposed)
              /\ ~disposed => AwaitedOnce(persist[t])
          BY <1>3, <2>1, <2>4, <3>2 DEF HistoryOf
        <4>2. AwaitedOnce(persist[t]) => AwaitedOnce(n)
          BY <1>7 DEF AwaitedOnce
        <4>3. Latest(n, file[t]) = h
          BY <1>2, <1>7, AbsentIsNoHistory DEF Latest
        <4> QED
          BY <1>1, <1>6, <1>7, <1>8, <1>10, <2>4, <3>2, <4>1, <4>2, <4>3 DEF HistoryOf
      <3>3. CASE Disposed(s)
        BY <1>1, <2>1, <2>4, <3>3 DEF HistoryOf, Disposed, Reading, t
      <3> QED
        BY <2>4, <3>1, <3>2, <3>3
    <2> QED
      BY <2>3, <2>4
  <1> QED
    BY <1>11, <1>12, <1>13, <1>14, <1>16, <1>17, <1>18 DEF ManagerInv, RuntimeInv

(* The sessions S are stopped with their processes.                        *)
LEMMA StopPreserves ==
    ASSUME ManagerInv, NEW S \in SUBSET DOMAIN objects, \E R : processes' = Terminated(S, R),
           killTimers' \subseteq killTimers \cup ProcessesOf(S), DOMAIN objects' = DOMAIN objects,
           \A s \in DOMAIN objects :
                /\ objects'[s].status = Stopped(S)[s].status
                /\ objects'[s].process = Stopped(S)[s].process
    PROVE  /\ OwnersAgree' /\ TimersInv' /\ processes' \in Seq(Processes)
           /\ \A p \in DOMAIN processes' : processes'[p].session \in DOMAIN objects'
           /\ killTimers' \subseteq DOMAIN processes'
           /\ \A s \in DOMAIN objects :
                /\ objects'[s].process # 0 => objects[s].process # 0 /\ s \notin S
                /\ s \notin S => /\ objects'[s].process = objects[s].process
                                 /\ objects'[s].status = objects[s].status
                /\ objects'[s].status = "running" => objects[s].status = "running"
                /\ objects[s].process = 0 => objects'[s].status = objects[s].status
PROOF
  <1>1. objects \in Seq(Objects) /\ processes \in Seq(Processes) /\ OwnersAgree
        /\ (\A p \in DOMAIN processes : processes[p].session \in DOMAIN objects)
        /\ killTimers \subseteq DOMAIN processes /\ TimersInv
    BY DEF ManagerInv, RuntimeInv, TypeOK
  <1>2. \A s \in DOMAIN objects :
          /\ s \in S /\ objects[s].process # 0 => objects'[s].status = "exited"
          /\ s \in S => objects'[s].process = 0
          /\ s \notin S \/ objects[s].process = 0 =>
                objects'[s].status = objects[s].status /\ objects'[s].process = objects[s].process
    BY <1>1, StoppedObjects
  <1>3. /\ processes' \in Seq(Processes) /\ DOMAIN processes' = DOMAIN processes
        /\ \A p \in DOMAIN processes :
             /\ processes'[p].session = processes[p].session
             /\ p \in ProcessesOf(S) => processes'[p].status # "running" /\ ~processes'[p].subscribed
             /\ p \notin ProcessesOf(S) => processes'[p] = processes[p]
    BY <1>1, TerminatedProcesses
  <1>4. \A s \in S : objects[s].process # 0 => objects[s].process \in ProcessesOf(S)
    BY DEF ProcessesOf
  <1>5. ProcessesOf(S) \subseteq DOMAIN processes
    BY <1>1 DEF ProcessesOf, OwnersAgree
  <1>6. 0 \notin DOMAIN processes
    BY <1>1
  <1>7. \A s \in DOMAIN objects' :
          /\ objects'[s].status = "running" <=> objects'[s].process # 0
          /\ objects'[s].process # 0 =>
               /\ objects'[s].process \in DOMAIN processes'
               /\ processes'[objects'[s].process].session = s
    <2> SUFFICES ASSUME NEW s \in DOMAIN objects
                 PROVE  /\ objects'[s].status = "running" <=> objects'[s].process # 0
                        /\ objects'[s].process # 0 =>
                             /\ objects'[s].process \in DOMAIN processes'
                             /\ processes'[objects'[s].process].session = s
      OBVIOUS
    <2>1. /\ objects[s].status = "running" <=> objects[s].process # 0
          /\ objects[s].process # 0 =>
               /\ objects[s].process \in DOMAIN processes
               /\ processes[objects[s].process].session = s
      BY <1>1 DEF OwnersAgree
    <2>2. CASE s \in S /\ objects[s].process # 0
      <3>1. objects'[s].status = "exited" /\ objects'[s].process = 0
        BY <1>2, <2>2
      <3> QED
        BY <3>1
    <2>3. CASE s \notin S \/ objects[s].process = 0
      <3>1. objects'[s].status = objects[s].status /\ objects'[s].process = objects[s].process
        BY <1>2, <2>3
      <3> QED
        BY <1>3, <2>1, <3>1
    <2> QED
      BY <2>2, <2>3
  <1>8. \A p \in DOMAIN processes' :
          /\ processes'[p].subscribed <=> processes'[p].status = "running"
          /\ processes'[p].subscribed => objects'[processes'[p].session].process = p
    <2> SUFFICES ASSUME NEW p \in DOMAIN processes
                 PROVE  /\ processes'[p].subscribed <=> processes'[p].status = "running"
                        /\ processes'[p].subscribed => objects'[processes'[p].session].process = p
      BY <1>3
    <2>1. CASE p \in ProcessesOf(S)
      BY <1>3, <2>1
    <2>2. CASE p \notin ProcessesOf(S)
      <3>1. processes'[p] = processes[p]
        BY <1>3, <2>2
      <3>2. processes[p].subscribed => objects[processes[p].session].process = p /\ p # 0
        BY <1>1, <1>6 DEF OwnersAgree
      <3>3. processes[p].subscribed => processes[p].session \notin S
        BY <1>4, <2>2, <3>2
      <3> QED
        BY <1>1, <1>2, <3>1, <3>2, <3>3 DEF OwnersAgree
    <2> QED
      BY <2>1, <2>2
  <1>9. OwnersAgree'
    BY <1>7, <1>8 DEF OwnersAgree
  <1>10. TimersInv'
    BY <1>1, <1>3, <1>5 DEF TimersInv
  <1> QED
    BY <1>1, <1>2, <1>3, <1>5, <1>9, <1>10

LEMMA ResetPreserves ==
    ASSUME ManagerInv, NEW t \in Terminals, Reset(t)
    PROVE  ManagerInv'
PROOF
  <1> DEFINE th == ThreadOf[t]
             s == sessions[t]
             new == Operation("start", {t}, s, {})
             order == IF objects[s].process # 0 THEN Touched(t) ELSE older
             E == Evictees(sessions, objects', order)
             I == Inactive(sessions, objects)
             n == PersistHistory(Kept(sessions, order)[t], 0)
  <1>1. /\ s # 0 /\ Called(th, new)
        /\ \E R : processes' = Terminated({s}, R)
        /\ killTimers' \subseteq killTimers \cup ProcessesOf({s})
        /\ objects' = [Stopped({s}) EXCEPT ![s].history = 0]
        /\ Evict(sessions, order)
        /\ persist' = [Kept(sessions, order) EXCEPT ![t] = n]
        /\ deleted' = deleted
    BY DEF Reset, Kill
  <1>2. /\ s \in DOMAIN objects /\ s \in Nat /\ objects[s] \in Objects /\ objects[s].terminal = t
        /\ objects \in Seq(Objects)
    BY <1>1, ObjectTypes DEF ManagerInv, RuntimeInv, TypeOK, MapInv
  <1>3. /\ new \in Operations /\ new.kind = "start" /\ new.terminals = {t} /\ new.deletes = {}
        /\ new.object = s /\ th \in Threads
    BY <1>2, OperationFields, TerminalAssumption
  <1> HIDE DEF new
  <1>4. /\ op' \in [Threads -> Operations] /\ op'[th] = new
        /\ \A k \in Threads : k # th => op'[k] = op[k]
        /\ op[th] = Idle /\ ~disposed /\ requests' \in 0..MaxRequests
        /\ file' = file /\ disposed' = disposed /\ outputs' = outputs /\ failures' = failures
    BY <1>1, <1>3, CalledMoves DEF ManagerInv, RuntimeInv
  <1>5. /\ objects' \in Seq(Objects) /\ Len(objects') = Len(objects)
        /\ DOMAIN objects' = DOMAIN objects /\ objects'[s].history = 0
        /\ \A r \in DOMAIN objects :
             /\ objects'[r].terminal = objects[r].terminal
             /\ objects'[r].status = Stopped({s})[r].status
             /\ objects'[r].process = Stopped({s})[r].process
             /\ r # s => objects'[r] = objects[r]
    <2> DEFINE q == Stopped({s})
               o == [q[s] EXCEPT !.history = 0]
    <2>1. /\ q \in Seq(Objects) /\ Len(q) = Len(objects) /\ DOMAIN q = DOMAIN objects
          /\ \A r \in DOMAIN objects :
               /\ q[r].terminal = objects[r].terminal /\ (r # s => q[r] = objects[r])
      BY <1>2, StoppedObjects
    <2>2. objects' = [q EXCEPT ![s] = o]
      BY <1>1
    <2> HIDE DEF q
    <2>3. q[s] \in Objects
      BY <1>2, <2>1
    <2>4. /\ o \in Objects /\ o.history = 0 /\ o.terminal = q[s].terminal
          /\ o.status = q[s].status /\ o.process = q[s].process
      BY <2>3 DEF Objects
    <2> HIDE DEF o
    <2>5. /\ objects' \in Seq(Objects) /\ Len(objects') = Len(q) /\ DOMAIN objects' = DOMAIN q
          /\ objects'[s] = o /\ \A r \in DOMAIN q : r # s => objects'[r] = q[r]
      BY <1>2, <2>1, <2>2, <2>4, ObjectReplaced
    <2> QED
      BY <1>2, <2>1, <2>4, <2>5 DEF q
  <1> HIDE DEF s
  <1>6. /\ OwnersAgree' /\ TimersInv' /\ processes' \in Seq(Processes)
        /\ \A p \in DOMAIN processes' : processes'[p].session \in DOMAIN objects'
        /\ killTimers' \subseteq DOMAIN processes'
        /\ \A r \in DOMAIN objects :
             /\ objects'[r].process # 0 => objects[r].process # 0 /\ r # s
             /\ objects'[r].status = "running" => objects[r].status = "running"
             /\ objects[r].process = 0 => objects'[r].status = objects[r].status
    <2> DEFINE S == {s}
    <2>1. S \subseteq DOMAIN objects /\ \A r : r \notin S <=> r # s
      BY <1>2
    <2>2. /\ \E R : processes' = Terminated(S, R)
          /\ killTimers' \subseteq killTimers \cup ProcessesOf(S)
          /\ \A r \in DOMAIN objects :
               /\ objects'[r].status = Stopped(S)[r].status
               /\ objects'[r].process = Stopped(S)[r].process
      BY <1>1, <1>5 DEF s
    <2> HIDE DEF S
    <2>3. /\ OwnersAgree' /\ TimersInv' /\ processes' \in Seq(Processes)
          /\ \A p \in DOMAIN processes' : processes'[p].session \in DOMAIN objects'
          /\ killTimers' \subseteq DOMAIN processes'
          /\ \A r \in DOMAIN objects :
               /\ objects'[r].process # 0 => objects[r].process # 0 /\ r \notin S
               /\ objects'[r].status = "running" => objects[r].status = "running"
               /\ objects[r].process = 0 => objects'[r].status = objects[r].status
      BY <1>5, <2>1, <2>2, StopPreserves
    <2> QED
      BY <2>1, <2>3
  <1>7. /\ sessions \in [Terminals -> 0..Len(objects')] /\ persist \in [Terminals -> Persistence]
        /\ \A u \in Terminals : sessions[u] # 0 =>
             sessions[u] \in DOMAIN objects /\ objects[sessions[u]].terminal = u
        /\ \A u \in Terminals : sessions[u] # 0 => objects'[sessions[u]].terminal = u
        /\ DOMAIN objects \subseteq DOMAIN objects'
        /\ older \subseteq Terminals \X Terminals /\ Linear(older, I)
    <2>1. /\ sessions \in [Terminals -> 0..Len(objects)] /\ persist \in [Terminals -> Persistence]
          /\ \A u \in Terminals : sessions[u] # 0 => objects[sessions[u]].terminal = u
          /\ older \subseteq Terminals \X Terminals /\ Linear(older, I)
      BY DEF ManagerInv, RuntimeInv, TypeOK, MapInv, OrderInv
    <2>2. \A u \in Terminals : sessions[u] # 0 => sessions[u] \in DOMAIN objects
      BY <1>2, <2>1
    <2> QED
      BY <1>5, <2>1, <2>2
  <1>8. /\ Inactive(sessions, objects') \subseteq Terminals
        /\ Inactive(sessions, objects') \subseteq I \cup {t}
        /\ objects[s].process = 0 => Inactive(sessions, objects') = I
    <2>1. \A u \in Terminals : u # t /\ sessions[u] # 0 => objects'[sessions[u]] = objects[sessions[u]]
      BY <1>2, <1>5, <1>7
    <2>2. objects[s].process = 0 =>
             \A u \in Terminals : sessions[u] # 0 =>
                objects'[sessions[u]].status = objects[sessions[u]].status
      BY <1>2, <1>6, <2>1 DEF s
    <2> QED
      BY <2>1, <2>2 DEF Inactive
  <1> HIDE DEF I
  <1>9. order \subseteq Terminals \X Terminals /\ Linear(order, Inactive(sessions, objects'))
        /\ t \notin E
    <2>1. CASE objects[s].process # 0
      <3>1. order = Touched(t)
        BY <2>1
      <3> QED
        BY <3>1, <1>7, <1>8, TouchedTypes, TouchedIsLinear, TouchedIsKept
    <2>2. CASE objects[s].process = 0
      <3>1. order = older
        BY <2>2
      <3>2. IsFiniteSet(I) /\ Cardinality(I) <= MaxRetained
        BY <1>5, <1>7, <1>8, <2>2, InactiveIsFinite
        DEF ManagerInv, RuntimeInv, InactiveSessionsAreFew, I
      <3>3. E = {}
        BY <1>7, <1>8, <2>2, <3>1, <3>2, FewEvictees
      <3> QED
        BY <1>7, <1>8, <2>2, <3>1, <3>3
    <2> QED
      BY <2>1, <2>2
  <1> HIDE DEF order
  <1>10. /\ sessions' \in [Terminals -> 0..Len(objects')]
         /\ older' \subseteq Terminals \X Terminals
         /\ MapInv' /\ OrderInv' /\ InactiveSessionsAreFew'
    BY <1>1, <1>5, <1>7, <1>9, EvictTypes
  <1>11. /\ orphans' \subseteq DOMAIN objects' /\ orphans \subseteq orphans'
         /\ unsaved' \subseteq Terminals /\ unsaved \subseteq unsaved' /\ OrphansInv'
    BY <1>1, <1>5, <1>7, EvictOrphans
  <1>12. \A u \in Terminals :
           /\ u \in E => sessions'[u] = 0 /\ sessions[u] # 0
           /\ u \notin E => sessions'[u] = sessions[u]
    BY <1>1, EvictChanges
  <1>13. /\ Kept(sessions, order) \in [Terminals -> Persistence]
         /\ \A u \in Terminals :
              /\ Kept(sessions, order)[u].waiting = persist[u].waiting
              /\ u \notin E => Kept(sessions, order)[u] = persist[u]
              /\ u \in E => Kept(sessions, order)[u] = Forgotten(persist[u])
    BY <1>7, KeptPersistence
  <1> HIDE DEF E
  <1>14. n = PersistHistory(persist[t], 0)
    BY <1>9, <1>13
  <1>15. /\ persist[t] \in Persistence /\ Full(persist[t].detached)
         /\ persist[t].waiting = "no"
    BY <1>4, IdleTerminals
  <1>16. n \in Persistence /\ n.detached = persist[t].detached
    BY <1>14, <1>15, PersistHistoryFields
  <1> HIDE DEF n
  <1>17. /\ persist' \in [Terminals -> Persistence] /\ persist'[t] = n
         /\ \A u \in Terminals : u # t =>
              /\ persist'[u].waiting = persist[u].waiting
              /\ u \notin E => persist'[u] = persist[u]
              /\ u \in E => persist'[u] = Forgotten(persist[u])
    BY <1>1, <1>13, <1>16
  <1>18. TypeOK'
    <2>1. \A k \in Threads : op'[k].kind \in {"start", "spawn"} => op'[k].object \in DOMAIN objects'
      BY <1>2, <1>3, <1>4, <1>5 DEF ManagerInv, RuntimeInv, TypeOK
    <2> QED
      BY <1>1, <1>4, <1>5, <1>6, <1>10, <1>11, <1>17, <2>1 DEF ManagerInv, RuntimeInv, TypeOK
  <1>19. DetachedInv'
    <2> SUFFICES ASSUME NEW u \in Terminals
                 PROVE  Full(persist'[u].detached)
      BY DEF DetachedInv
    <2>1. Full(persist[u].detached)
      BY DEF ManagerInv, RuntimeInv, DetachedInv
    <2> QED
      BY <2>1, <1>7, <1>15, <1>16, <1>17, ForgottenKeepsFull
  <1>20. OperationsInv'
    <2>1. OperationOf(th)'
      BY <1>2, <1>3, <1>4, <1>5, <1>6 DEF OperationOf, Launching
    <2>2. \A r \in DOMAIN objects :
            /\ objects'[r].terminal = objects[r].terminal
            /\ objects[r].process = 0 => objects'[r].process = 0
      BY <1>5, <1>6
    <2> QED
      BY <1>3, <1>4, <1>12, <2>1, <2>2, OperationsKept
  <1>21. WaitInv'
    <2>1. \A u \in Terminals : ThreadOf[u] = th /\ u # t => persist'[u].waiting = "no"
      BY <1>4, <1>17, IdleTerminals
    <2>2. \A u \in Terminals : ThreadOf[u] # th => persist'[u].waiting = persist[u].waiting
      BY <1>17
    <2> QED
      BY <1>3, <1>4, <2>1, <2>2, WaitKept
  <1>22. LocatedInv'
    <2> SUFFICES ASSUME NEW r \in DOMAIN objects, objects'[r].process # 0 \/ Launched(r)'
                 PROVE  sessions'[objects[r].terminal] = r \/ r \in orphans'
      BY <1>5 DEF LocatedInv
    <2>1. CASE r = s
      BY <1>2, <1>9, <1>12, <2>1 DEF s
    <2>2. CASE r # s
      <3>1. Launched(r)' => Launched(r) /\ Starting(r)
        BY <1>3, <1>4, <1>5, <2>2, LaunchedKept
      <3>2. objects'[r].process # 0 => objects[r].process # 0
        BY <1>6
      <3>3. objects[r].terminal \in Terminals
        BY ObjectTypes DEF ManagerInv, RuntimeInv
      <3>4. CASE sessions[objects[r].terminal] = r
        <4>1. r \in DOMAIN objects' /\ OwnersAgree' /\ Evict(sessions, order)
          BY <1>1, <1>5, <1>6
        <4> QED
          BY <3>1, <3>3, <3>4, <4>1, EvictLocates
      <3> QED
        BY <1>4, <1>11, <3>1, <3>2, <3>4 DEF ManagerInv, RuntimeInv, LocatedInv, Disposed
    <2> QED
      BY <2>1, <2>2
  <1>23. HistoryInv'
    <2> SUFFICES ASSUME NEW u \in Terminals \ unsaved'
                 PROVE  HistoryOf(u)'
      BY DEF HistoryInv
    <2>1. HistoryOf(u) /\ (Reading(u)' => Reading(u))
      BY <1>3, <1>4, <1>11, ReadingKept DEF ManagerInv, RuntimeInv, HistoryInv
    <2>2. CASE u \in E
      <3>1. u # t
        BY <1>9, <2>2
      <3> QED
        BY <1>1, <1>4, <1>11, <1>17, <2>2, <3>1, EvictedHistory DEF E
    <2>3. CASE u \notin E /\ u # t
      <3>1. sessions[u] # 0 => objects'[sessions[u]].history = objects[sessions[u]].history
        BY <1>2, <1>5, <1>7, <2>3
      <3> QED
        BY <1>1, <1>4, <1>12, <1>17, <2>1, <2>3, <3>1, HistoryKept
    <2>4. CASE u = t
      <3>1. persist[t].detached = <<>> /\ AwaitedOnce(persist[t]) /\ t \notin deleted
        BY <1>1, <1>4, <2>1, <2>4 DEF HistoryOf, s
      <3>2. AwaitedOnce(n) /\ \A content : Latest(n, content) = 0
        BY <1>14, <1>15, <3>1, UnawaitedWhileIdle, PersistHistoryKeeps
      <3>3. sessions'[t] # 0 /\ objects'[sessions'[t]].history = 0
        BY <1>1, <1>5, <1>9, <1>12 DEF s
      <3> QED
        BY <1>1, <1>16, <1>17, <2>4, <3>1, <3>2, <3>3 DEF HistoryOf
    <2> QED
      BY <2>2, <2>3, <2>4
  <1> QED
    BY <1>6, <1>10, <1>11, <1>18, <1>19, <1>20, <1>21, <1>22, <1>23 DEF ManagerInv, RuntimeInv

(* A session of t is created with history h, the number s and in the map.  *)
Creates(t, h, s, map) ==
    /\ sessions[t] = 0 /\ Create(t, h)
    /\ s = Len(objects) + 1 /\ map = [sessions EXCEPT ![t] = s]
    /\ Evict(map, Touched(t)) /\ processes' = processes /\ killTimers' = killTimers

(* It is the last in the order and stays in the map.                       *)
Created(t, h, s, map) ==
    /\ objects' \in Seq(Objects) /\ DOMAIN objects' = DOMAIN objects \cup {s}
    /\ s \notin DOMAIN objects /\ s # 0 /\ s \in Nat
    /\ objects'[s].terminal = t /\ objects'[s].process = 0 /\ objects'[s].history = h
    /\ \A r \in DOMAIN objects : objects'[r] = objects[r]
    /\ map[t] = s /\ \A u \in Terminals : u # t => map[u] = sessions[u]
    /\ t \notin Evictees(map, objects', Touched(t)) /\ sessions'[t] = s
    /\ \A u \in Terminals : u # t =>
         /\ u \in Evictees(map, objects', Touched(t)) => sessions'[u] = 0 /\ sessions[u] # 0
         /\ u \notin Evictees(map, objects', Touched(t)) => sessions'[u] = sessions[u]
    /\ sessions' \in [Terminals -> 0..Len(objects')]
    /\ older' \subseteq Terminals \X Terminals
    /\ orphans' \subseteq DOMAIN objects' /\ orphans \subseteq orphans'
    /\ unsaved' \subseteq Terminals /\ unsaved \subseteq unsaved'
    /\ \A p \in DOMAIN processes' : processes'[p].session \in DOMAIN objects'
    /\ OwnersAgree' /\ TimersInv'
    /\ MapInv' /\ OrphansInv' /\ OrderInv' /\ InactiveSessionsAreFew'

LEMMA CreatePreserves ==
    ASSUME ManagerInv, NEW t \in Terminals, NEW h \in Nat, NEW s, NEW map, Creates(t, h, s, map)
    PROVE  Created(t, h, s, map)
PROOF
  <1> DEFINE I == Inactive(sessions, objects)
             J == Inactive(map, objects')
  <1>1. /\ sessions[t] = 0 /\ Create(t, h)
        /\ s = Len(objects) + 1 /\ map = [sessions EXCEPT ![t] = s]
        /\ Evict(map, Touched(t)) /\ processes' = processes /\ killTimers' = killTimers
    BY DEF Creates
  <1>2. /\ objects \in Seq(Objects) /\ sessions \in [Terminals -> 0..Len(objects)]
        /\ \A u \in Terminals : sessions[u] # 0 => objects[sessions[u]].terminal = u
        /\ older \subseteq Terminals \X Terminals /\ Linear(older, I)
        /\ \A p \in DOMAIN processes : processes[p].session \in DOMAIN objects
        /\ OwnersAgree /\ TimersInv
    BY DEF ManagerInv, RuntimeInv, TypeOK, MapInv, OrderInv
  <1>3. /\ objects' \in Seq(Objects) /\ Len(objects') = s /\ DOMAIN objects' = DOMAIN objects \cup {s}
        /\ s \notin DOMAIN objects /\ s # 0 /\ s \in Nat
        /\ objects'[s].terminal = t /\ objects'[s].status = "starting"
        /\ objects'[s].process = 0 /\ objects'[s].history = h
        /\ \A r \in DOMAIN objects : objects'[r] = objects[r]
    <2>1. objects' = Append(objects, Object(t, "starting", h))
      BY <1>1 DEF Create
    <2> QED
      BY <1>1, <1>2, <2>1, ObjectCreated
  <1>4. \A u \in Terminals : sessions[u] # 0 => sessions[u] \in DOMAIN objects
    BY <1>2
  <1>5. map[t] = s /\ \A u \in Terminals : u # t => map[u] = sessions[u]
    BY <1>1, <1>2
  <1>6. map \in [Terminals -> 0..Len(objects')]
    BY <1>1, <1>2, <1>3
  <1>7. \A u \in Terminals : map[u] # 0 => objects'[map[u]].terminal = u
    BY <1>2, <1>3, <1>4, <1>5
  <1>8. J \subseteq Terminals /\ J \subseteq I \cup {t}
    BY <1>1, <1>3, <1>4, <1>5 DEF Inactive
  <1> HIDE DEF I, J
  <1>9. Linear(Touched(t), J) /\ Touched(t) \subseteq Terminals \X Terminals
    BY <1>2, <1>8, TouchedIsLinear, TouchedTypes
  <1>10. /\ sessions' \in [Terminals -> 0..Len(objects')]
        /\ older' \subseteq Terminals \X Terminals
        /\ MapInv' /\ OrderInv' /\ InactiveSessionsAreFew'
    BY <1>1, <1>3, <1>6, <1>7, <1>9, EvictTypes DEF J
  <1>11. /\ orphans' \subseteq DOMAIN objects' /\ orphans \subseteq orphans'
         /\ unsaved' \subseteq Terminals /\ unsaved \subseteq unsaved' /\ OrphansInv'
    <2>1. DOMAIN objects \subseteq DOMAIN objects'
          /\ \A r \in DOMAIN objects : objects'[r].terminal = objects[r].terminal
      BY <1>3
    <2> QED
      BY <1>1, <1>3, <1>6, <1>7, <2>1, EvictOrphans
  <1>12. t \notin Evictees(map, objects', Touched(t))
    BY TouchedIsKept
  <1>13. \A u \in Terminals :
           /\ u \in Evictees(map, objects', Touched(t)) => sessions'[u] = 0 /\ map[u] # 0
           /\ u \notin Evictees(map, objects', Touched(t)) => sessions'[u] = map[u]
    BY <1>1, EvictChanges
  <1>14. OwnersAgree' /\ TimersInv'
    BY <1>1, <1>2, <1>3 DEF OwnersAgree, TimersInv
  <1>15. \A p \in DOMAIN processes' : processes'[p].session \in DOMAIN objects'
    BY <1>1, <1>2, <1>3
  <1> QED
    BY <1>3, <1>5, <1>10, <1>11, <1>12, <1>13, <1>14, <1>15 DEF Created

LEMMA RestartUnknownPreserves ==
    ASSUME ManagerInv, NEW t \in Terminals, RestartUnknown(t)
    PROVE  ManagerInv'
PROOF
  <1> DEFINE th == ThreadOf[t]
  <1>1. PICK s, map, new :
          /\ s = Len(objects) + 1 /\ map = [sessions EXCEPT ![t] = s]
          /\ new = Operation("start", {t}, s, {})
          /\ sessions[t] = 0 /\ Called(th, new)
          /\ Create(t, 0) /\ Evict(map, Touched(t))
          /\ persist' = [Kept(map, Touched(t)) EXCEPT ![t] = PersistHistory(@, 0)]
          /\ deleted' = deleted \ {t}
          /\ processes' = processes /\ killTimers' = killTimers
    BY DEF RestartUnknown, pty
  <1> DEFINE E == Evictees(map, objects', Touched(t))
             n == PersistHistory(Kept(map, Touched(t))[t], 0)
  <1>2. /\ objects' \in Seq(Objects) /\ DOMAIN objects' = DOMAIN objects \cup {s}
        /\ s \notin DOMAIN objects /\ s # 0 /\ s \in Nat
        /\ objects'[s].terminal = t /\ objects'[s].process = 0 /\ objects'[s].history = 0
        /\ \A r \in DOMAIN objects : objects'[r] = objects[r]
        /\ map[t] = s /\ \A u \in Terminals : u # t => map[u] = sessions[u]
        /\ t \notin E /\ sessions'[t] = s
        /\ \A u \in Terminals : u # t =>
             /\ u \in E => sessions'[u] = 0 /\ sessions[u] # 0
             /\ u \notin E => sessions'[u] = sessions[u]
        /\ sessions' \in [Terminals -> 0..Len(objects')]
        /\ older' \subseteq Terminals \X Terminals
        /\ orphans' \subseteq DOMAIN objects' /\ orphans \subseteq orphans'
        /\ unsaved' \subseteq Terminals /\ unsaved \subseteq unsaved'
        /\ \A p \in DOMAIN processes' : processes'[p].session \in DOMAIN objects'
        /\ OwnersAgree' /\ TimersInv'
        /\ MapInv' /\ OrphansInv' /\ OrderInv' /\ InactiveSessionsAreFew'
    <2>1. Creates(t, 0, s, map)
      BY <1>1 DEF Creates
    <2>2. Created(t, 0, s, map)
      BY <2>1, CreatePreserves
    <2> QED
      BY <2>2 DEF Created
  <1>3. /\ new \in Operations /\ new.kind = "start" /\ new.terminals = {t} /\ new.deletes = {}
        /\ new.object = s /\ th \in Threads
    <2>1. th \in Threads /\ s \in Nat
      BY <1>2, TerminalAssumption
    <2> QED
      BY <1>1, <2>1, OperationFields
  <1>4. /\ op' \in [Threads -> Operations] /\ op'[th] = new
        /\ \A k \in Threads : k # th => op'[k] = op[k]
        /\ op[th] = Idle /\ ~disposed /\ requests' \in 0..MaxRequests
        /\ file' = file /\ disposed' = disposed /\ outputs' = outputs /\ failures' = failures
    BY <1>1, <1>3, CalledMoves DEF ManagerInv, RuntimeInv
  <1>5. persist \in [Terminals -> Persistence] /\ objects \in Seq(Objects)
        /\ \A u \in Terminals : sessions[u] # 0 => sessions[u] \in DOMAIN objects
    BY DEF ManagerInv, RuntimeInv, TypeOK
  <1>6. /\ Kept(map, Touched(t)) \in [Terminals -> Persistence]
        /\ \A u \in Terminals :
             /\ Kept(map, Touched(t))[u].waiting = persist[u].waiting
             /\ u \notin E => Kept(map, Touched(t))[u] = persist[u]
             /\ u \in E => Kept(map, Touched(t))[u] = Forgotten(persist[u])
    BY <1>5, KeptPersistence
  <1> HIDE DEF E
  <1>7. n = PersistHistory(persist[t], 0)
    BY <1>2, <1>6
  <1>8. /\ persist[t] \in Persistence /\ Full(persist[t].detached)
         /\ persist[t].waiting = "no"
    BY <1>4, IdleTerminals
  <1>9. n \in Persistence /\ n.detached = persist[t].detached
    BY <1>7, <1>8, PersistHistoryFields
  <1> HIDE DEF n
  <1>10. /\ persist' \in [Terminals -> Persistence] /\ persist'[t] = n
         /\ \A u \in Terminals : u # t =>
              /\ persist'[u].waiting = persist[u].waiting
              /\ u \notin E => persist'[u] = persist[u]
              /\ u \in E => persist'[u] = Forgotten(persist[u])
    <2>1. persist' = [Kept(map, Touched(t)) EXCEPT ![t] = n]
      BY <1>1 DEF n
    <2> QED
      BY <1>6, <1>9, <2>1
  <1>11. TypeOK'
    <2>1. \A k \in Threads : op'[k].kind \in {"start", "spawn"} => op'[k].object \in DOMAIN objects'
      BY <1>2, <1>3, <1>4 DEF ManagerInv, RuntimeInv, TypeOK
    <2>2. deleted' \subseteq Terminals
      BY <1>1 DEF ManagerInv, RuntimeInv, TypeOK
    <2> QED
      BY <1>1, <1>2, <1>4, <1>10, <2>1, <2>2 DEF ManagerInv, RuntimeInv, TypeOK
  <1>12. DetachedInv'
    <2> SUFFICES ASSUME NEW u \in Terminals
                 PROVE  Full(persist'[u].detached)
      BY DEF DetachedInv
    <2>1. Full(persist[u].detached)
      BY DEF ManagerInv, RuntimeInv, DetachedInv
    <2> QED
      BY <2>1, <1>5, <1>8, <1>9, <1>10, ForgottenKeepsFull
  <1>13. OperationsInv'
    <2>1. OperationOf(th)'
      BY <1>2, <1>3, <1>4 DEF OperationOf, Launching
    <2>2. \A r \in DOMAIN objects :
            /\ objects'[r].terminal = objects[r].terminal
            /\ objects[r].process = 0 => objects'[r].process = 0
      BY <1>2
    <2>3. \A u \in Terminals : ThreadOf[u] # th /\ sessions[u] = 0 => sessions'[u] = 0
      BY <1>2
    <2> QED
      BY <1>3, <1>4, <2>1, <2>2, <2>3, OperationsKept
  <1>14. WaitInv'
    <2>1. \A u \in Terminals : ThreadOf[u] = th /\ u # t => persist'[u].waiting = "no"
      BY <1>4, <1>10, IdleTerminals
    <2>2. \A u \in Terminals : ThreadOf[u] # th => persist'[u].waiting = persist[u].waiting
      BY <1>10
    <2> QED
      BY <1>3, <1>4, <2>1, <2>2, WaitKept
  <1>15. LocatedInv'
    <2> SUFFICES ASSUME NEW r \in DOMAIN objects, objects[r].process # 0 \/ Launched(r)'
                 PROVE  sessions'[objects[r].terminal] = r \/ r \in orphans'
      BY <1>2 DEF LocatedInv
    <2>1. Launched(r)' => Launched(r) /\ Starting(r)
      <3>1. objects'[r].terminal = objects[r].terminal /\ r # s
        BY <1>2
      <3> QED
        BY <1>3, <1>4, <3>1, LaunchedKept
    <2>2. objects[r].terminal \in Terminals
      BY ObjectTypes DEF ManagerInv, RuntimeInv
    <2>3. CASE sessions[objects[r].terminal] = r
      <3>1. r # 0
        BY <1>5
      <3>2. objects[r].terminal # t /\ map[objects[r].terminal] = r
        BY <1>1, <1>2, <2>2, <2>3, <3>1
      <3>3. r \in DOMAIN objects' /\ OwnersAgree' /\ Evict(map, Touched(t))
            /\ (objects'[r].process # 0 \/ Starting(r))
        BY <1>1, <1>2, <2>1
      <3> QED
        BY <2>2, <3>2, <3>3, EvictLocates
    <2> QED
      BY <1>2, <1>4, <2>1, <2>3 DEF ManagerInv, RuntimeInv, LocatedInv, Disposed
  <1>16. HistoryInv'
    <2> SUFFICES ASSUME NEW u \in Terminals \ unsaved'
                 PROVE  HistoryOf(u)'
      BY DEF HistoryInv
    <2>1. HistoryOf(u) /\ (Reading(u)' => Reading(u))
      BY <1>2, <1>3, <1>4, ReadingKept DEF ManagerInv, RuntimeInv, HistoryInv
    <2>2. CASE u \in E
      <3>1. u # t /\ map[u] = sessions[u]
        BY <1>2, <2>2
      <3> QED
        BY <1>1, <1>2, <1>4, <1>10, <2>2, <3>1, EvictedHistory DEF E
    <2>3. CASE u \notin E /\ u # t
      <3>1. sessions[u] # 0 => objects'[sessions[u]].history = objects[sessions[u]].history
        BY <1>2, <1>5
      <3>2. /\ persist'[u] = persist[u] /\ sessions'[u] = sessions[u]
            /\ u \in deleted' => u \in deleted
        BY <1>1, <1>2, <1>10, <2>3
      <3> QED
        BY <1>4, <2>1, <3>1, <3>2, HistoryKept
    <2>4. CASE u = t
      <3>1. persist[t].detached = <<>> /\ AwaitedOnce(persist[t])
        BY <1>4, <2>1, <2>4 DEF HistoryOf
      <3>2. AwaitedOnce(n) /\ \A content : Latest(n, content) = 0
        BY <1>7, <1>8, <3>1, UnawaitedWhileIdle, PersistHistoryKeeps
      <3>3. sessions'[t] # 0 /\ objects'[sessions'[t]].history = 0 /\ t \notin deleted'
        BY <1>1, <1>2
      <3> QED
        BY <1>9, <1>10, <2>4, <3>1, <3>2, <3>3 DEF HistoryOf
    <2> QED
      BY <2>2, <2>3, <2>4
  <1> QED
    BY <1>2, <1>11, <1>12, <1>13, <1>14, <1>15, <1>16 DEF ManagerInv, RuntimeInv

LEMMA ReadHistoryPreserves ==
    ASSUME ManagerInv, NEW th \in Threads, ReadHistory(th)
    PROVE  ManagerInv'
PROOF
  <1>1. PICK t, s, image, new :
          /\ t \in op[th].terminals
          /\ s = Len(objects) + 1 /\ image = [sessions EXCEPT ![t] = s]
          /\ new = Operation("spawn", {}, s, {})
          /\ Continue(th, "read", new) /\ Create(t, StoredHistory(t))
          /\ Evict(image, Touched(t)) /\ persist' = Kept(image, Touched(t))
          /\ deleted' = deleted \ {t}
          /\ processes' = processes /\ killTimers' = killTimers /\ file' = file /\ failures' = failures
    BY DEF ReadHistory, pty
  <1>2. op[th].kind = "read" /\ op[th] \in Operations /\ OperationOf(th)
    BY <1>1 DEF Continue, ManagerInv, RuntimeInv, TypeOK, OperationsInv
  <1>3. t \in Terminals /\ sessions[t] = 0 /\ ThreadOf[t] = th /\ Reading(t)
    BY <1>1, <1>2 DEF Operations, OperationOf, Reading
  <1>4. StoredHistory(t) \in Nat
    BY <1>3 DEF StoredHistory, ManagerInv, RuntimeInv, TypeOK
  <1> DEFINE E == Evictees(image, objects', Touched(t))
  <1>5. /\ objects' \in Seq(Objects) /\ DOMAIN objects' = DOMAIN objects \cup {s}
        /\ s \notin DOMAIN objects /\ s # 0 /\ s \in Nat
        /\ objects'[s].terminal = t /\ objects'[s].process = 0
        /\ objects'[s].history = StoredHistory(t)
        /\ \A r \in DOMAIN objects : objects'[r] = objects[r]
        /\ image[t] = s /\ \A u \in Terminals : u # t => image[u] = sessions[u]
        /\ t \notin E /\ sessions'[t] = s
        /\ \A u \in Terminals : u # t =>
             /\ u \in E => sessions'[u] = 0 /\ sessions[u] # 0
             /\ u \notin E => sessions'[u] = sessions[u]
        /\ sessions' \in [Terminals -> 0..Len(objects')]
        /\ older' \subseteq Terminals \X Terminals
        /\ orphans' \subseteq DOMAIN objects' /\ orphans \subseteq orphans'
        /\ unsaved' \subseteq Terminals /\ unsaved \subseteq unsaved'
        /\ \A p \in DOMAIN processes' : processes'[p].session \in DOMAIN objects'
        /\ OwnersAgree' /\ TimersInv'
        /\ MapInv' /\ OrphansInv' /\ OrderInv' /\ InactiveSessionsAreFew'
    <2>1. Creates(t, StoredHistory(t), s, image)
      BY <1>1, <1>3 DEF Creates
    <2>2. Created(t, StoredHistory(t), s, image)
      BY <1>3, <1>4, <2>1, CreatePreserves
    <2> QED
      BY <2>2 DEF Created
  <1>6. /\ new \in Operations /\ new.kind = "spawn" /\ new.terminals = {} /\ new.deletes = {}
        /\ new.object = s
    BY <1>1, <1>5, OperationFields
  <1>7. persist \in [Terminals -> Persistence] /\ objects \in Seq(Objects)
        /\ \A u \in Terminals : sessions[u] # 0 => sessions[u] \in DOMAIN objects
    BY DEF ManagerInv, RuntimeInv, TypeOK
  <1>8. Evict(image, Touched(t)) /\ persist' = Kept(image, Touched(t))
    BY <1>1
  <1>9. /\ op' \in [Threads -> Operations] /\ op'[th] = new
        /\ \A k \in Threads : k # th => op'[k] = op[k]
        /\ \A u \in op[th].terminals : persist[u].waiting = "no"
        /\ disposed' = disposed /\ outputs' = outputs /\ requests' = requests
    BY <1>1, <1>6, ContinueMoves DEF ManagerInv, RuntimeInv
  <1>10. /\ persist' \in [Terminals -> Persistence]
         /\ \A u \in Terminals :
              /\ persist'[u].waiting = persist[u].waiting
              /\ u \notin E => persist'[u] = persist[u]
              /\ u \in E => persist'[u] = Forgotten(persist[u])
    <2>1. /\ Kept(image, Touched(t)) \in [Terminals -> Persistence]
          /\ \A u \in Terminals :
               /\ Kept(image, Touched(t))[u].waiting = persist[u].waiting
               /\ u \notin E => Kept(image, Touched(t))[u] = persist[u]
               /\ u \in E => Kept(image, Touched(t))[u] = Forgotten(persist[u])
      BY <1>7, KeptPersistence
    <2> QED
      BY <1>8, <2>1
  <1> HIDE DEF E
  <1>11. TypeOK'
    <2>1. \A k \in Threads : op'[k].kind \in {"start", "spawn"} => op'[k].object \in DOMAIN objects'
      BY <1>5, <1>6, <1>9 DEF ManagerInv, RuntimeInv, TypeOK
    <2>2. deleted' \subseteq Terminals
      BY <1>1 DEF ManagerInv, RuntimeInv, TypeOK
    <2> QED
      BY <1>1, <1>5, <1>9, <1>10, <2>1, <2>2 DEF ManagerInv, RuntimeInv, TypeOK
  <1>12. DetachedInv'
    BY <1>7, <1>10, ForgottenKeepsFull DEF ManagerInv, RuntimeInv, DetachedInv
  <1>13. OperationsInv'
    <2>1. OperationOf(th)'
      BY <1>3, <1>5, <1>6, <1>9 DEF OperationOf, Launching
    <2>2. \A r \in DOMAIN objects :
            /\ objects'[r].terminal = objects[r].terminal
            /\ objects[r].process = 0 => objects'[r].process = 0
      BY <1>5
    <2>3. \A u \in Terminals : ThreadOf[u] # th /\ sessions[u] = 0 => sessions'[u] = 0
      BY <1>3, <1>5
    <2> QED
      BY <1>9, <2>1, <2>2, <2>3, OperationsKept
  <1>14. WaitInv'
    <2>1. \A u \in Terminals : ThreadOf[u] = th => persist[u].waiting = "no"
      BY <1>9 DEF ManagerInv, RuntimeInv, WaitInv
    <2> QED
      BY <1>9, <1>10, <2>1, WaitKept
  <1>15. LocatedInv'
    <2> SUFFICES ASSUME NEW r \in DOMAIN objects, objects[r].process # 0 \/ Launched(r)'
                 PROVE  \/ sessions'[objects[r].terminal] = r \/ r \in orphans'
                        \/ Disposed(r)'
      BY <1>5 DEF LocatedInv
    <2>1. Launched(r)' => Launched(r) /\ Starting(r)
      <3>1. objects'[r].terminal = objects[r].terminal /\ r # s
        BY <1>5
      <3> QED
        BY <1>6, <1>9, <3>1, LaunchedKept
    <2>2. objects[r].terminal \in Terminals
      BY ObjectTypes DEF ManagerInv, RuntimeInv
    <2>3. CASE sessions[objects[r].terminal] = r
      <3>1. r # 0
        BY <1>7
      <3>2. objects[r].terminal # t /\ image[objects[r].terminal] = r
        BY <1>3, <1>5, <2>2, <2>3, <3>1
      <3>3. r \in DOMAIN objects' /\ OwnersAgree' /\ (objects'[r].process # 0 \/ Starting(r))
        BY <1>5, <2>1
      <3> QED
        BY <1>8, <2>2, <3>2, <3>3, EvictLocates
    <2>4. CASE Disposed(r)
      <3>1. objects[r].terminal # t
        BY <1>2, <1>3, <2>4 DEF Disposed
      <3>2. sessions'[objects[r].terminal] = 0
        BY <1>5, <2>2, <2>4, <3>1 DEF Disposed
      <3>3. objects'[r].terminal = objects[r].terminal
        BY <1>5
      <3> QED
        BY <1>6, <1>9, <2>4, <3>2, <3>3, DisposedKept
    <2> QED
      BY <1>5, <2>1, <2>3, <2>4 DEF ManagerInv, RuntimeInv, LocatedInv
  <1>16. HistoryInv'
    <2> SUFFICES ASSUME NEW u \in Terminals \ unsaved'
                 PROVE  HistoryOf(u)'
      BY DEF HistoryInv
    <2>1. HistoryOf(u) /\ (Reading(u)' => Reading(u))
      BY <1>5, <1>6, <1>9, ReadingKept DEF ManagerInv, RuntimeInv, HistoryInv
    <2>2. CASE u \in E
      <3>1. u # t /\ image[u] = sessions[u] /\ (u \in deleted' => u \in deleted)
        BY <1>1, <1>5, <2>2
      <3> QED
        BY <1>5, <1>8, <1>9, <1>10, <2>2, <3>1, EvictedHistory DEF E
    <2>3. CASE u \notin E /\ u # t
      <3>1. sessions[u] # 0 => objects'[sessions[u]].history = objects[sessions[u]].history
        BY <1>5, <1>7
      <3>2. /\ persist'[u] = persist[u] /\ sessions'[u] = sessions[u]
            /\ u \in deleted' => u \in deleted
        BY <1>1, <1>5, <1>10, <2>3
      <3> QED
        BY <1>1, <1>9, <2>1, <3>1, <3>2, HistoryKept
    <2>4. CASE u = t
      <3>1. persist'[t] = persist[t] /\ persist[t] \in Persistence /\ persist[t].waiting = "no"
        BY <1>1, <1>3, <1>5, <1>7, <1>9, <1>10
      <3>2. Finished(persist[t]) /\ (~disposed => AwaitedOnce(persist[t]))
        BY <1>3, <2>1, <2>4, <3>1, SettledIsFinished DEF HistoryOf
      <3>3. persist[t].detached = <<>> /\ Latest(persist[t], file[t]) = StoredHistory(t)
        BY <3>2 DEF Finished, Latest, Stored, StoredHistory
      <3>4. sessions'[t] # 0 /\ objects'[sessions'[t]].history = StoredHistory(t) /\ t \notin deleted'
        BY <1>1, <1>5
      <3> QED
        BY <1>1, <1>9, <2>4, <3>1, <3>2, <3>3, <3>4 DEF HistoryOf
    <2> QED
      BY <2>2, <2>3, <2>4
  <1> QED
    BY <1>5, <1>11, <1>12, <1>13, <1>14, <1>15, <1>16 DEF ManagerInv, RuntimeInv

(* Of the terminals T, sessions are stopped and removed, and what is       *)
(* pending is flushed.                                                     *)
LEMMA ClosePreserves ==
    ASSUME ManagerInv, NEW th \in Threads, NEW T \in SUBSET Terminals, NEW deletes \in SUBSET Terminals,
           \A t \in T \cup deletes : ThreadOf[t] = th,
           \A t \in deletes \ T : sessions[t] = 0, Close(th, T, deletes)
    PROVE  ManagerInv'
PROOF
  <1> DEFINE S == {sessions[t] : t \in T} \ {0}
             running == {s \in S : objects[s].process # 0}
             first == {s \in running : \A r \in running : s <= r}
             map == [t \in Terminals |->
                  IF t \in T /\ \A s \in first : sessions[t] < s THEN 0 ELSE sessions[t]]
             evicted == UNION {Evictees(map, Stopped(first), Touched(objects[s].terminal)) : s \in first}
             new == Operation("close", T, 0, deletes)
  <1>1. /\ Called(th, new) /\ objects' = Stopped(S) /\ Drop(evicted, T, sessions, older)
        /\ \E R : processes' = Terminated(S, R)
        /\ killTimers' \subseteq killTimers \cup ProcessesOf(S)
        /\ persist' = [t \in Terminals |->
              LET r == IF t \in evicted THEN Forgotten(persist[t]) ELSE persist[t]
              IN  IF t \in T THEN FlushPersistQueue(r) ELSE r]
        /\ deleted' = deleted
    BY DEF Close, Kill
  <1>2. first \subseteq S /\ \A u \in Terminals : map[u] # 0 => map[u] = sessions[u]
    OBVIOUS
  <1>3. \A u \in evicted : \E order : u \in Evictees(map, Stopped(first), order)
    OBVIOUS
  <1> HIDE DEF running, first, map, evicted, new
  <1>4. /\ objects \in Seq(Objects) /\ sessions \in [Terminals -> 0..Len(objects)]
        /\ persist \in [Terminals -> Persistence] /\ older \subseteq Terminals \X Terminals
        /\ \A u \in Terminals : sessions[u] # 0 =>
                sessions[u] \in DOMAIN objects /\ objects[sessions[u]].terminal = u
    BY DEF ManagerInv, RuntimeInv, TypeOK, MapInv
  <1>5. S \in SUBSET DOMAIN objects
    BY <1>1, <1>4
  <1>6. \A u \in Terminals : sessions[u] # 0 => (sessions[u] \in S <=> u \in T)
    BY <1>1, <1>4
  <1>7. /\ objects' \in Seq(Objects) /\ Len(objects') = Len(objects) /\ DOMAIN objects' = DOMAIN objects
        /\ \A s \in DOMAIN objects :
             /\ objects'[s].terminal = objects[s].terminal /\ objects'[s].history = objects[s].history
             /\ s \in S => objects'[s].process = 0
             /\ s \notin S => objects'[s] = objects[s]
    BY <1>1, <1>4, StoppedObjects
  <1>8. /\ OwnersAgree' /\ TimersInv' /\ processes' \in Seq(Processes)
        /\ \A p \in DOMAIN processes' : processes'[p].session \in DOMAIN objects'
        /\ killTimers' \subseteq DOMAIN processes'
        /\ \A s \in DOMAIN objects :
             objects'[s].process # 0 => objects[s].process # 0 /\ s \notin S
    <2>1. \A s \in DOMAIN objects :
            /\ objects'[s].status = Stopped(S)[s].status
            /\ objects'[s].process = Stopped(S)[s].process
      BY <1>1
    <2>2. killTimers' \subseteq killTimers \cup ProcessesOf(S)
      BY <1>1
    <2> QED
      BY <1>1, <1>5, <1>7, <2>1, <2>2, StopPreserves
  <1>9. \A u \in evicted : u \in Terminals /\ sessions[u] # 0 /\ objects'[sessions[u]].process = 0
    <2> SUFFICES ASSUME NEW u \in evicted
                 PROVE  u \in Terminals /\ sessions[u] # 0 /\ objects'[sessions[u]].process = 0
      OBVIOUS
    <2>1. PICK order : u \in Evictees(map, Stopped(first), order)
      BY <1>3
    <2>2. u \in Terminals /\ sessions[u] # 0 /\ Stopped(first)[sessions[u]].status # "running"
      BY <1>2, <2>1 DEF Evictees, Inactive
    <2>3. CASE sessions[u] \in S
      BY <1>5, <1>7, <2>2, <2>3
    <2>4. CASE sessions[u] \notin S
      <3>1. objects[sessions[u]].status # "running"
        BY <1>2, <1>4, <2>2, <2>4, StoppedObjects
      <3>2. objects[sessions[u]].process = 0
        BY <1>4, <2>2, <3>1 DEF ManagerInv, RuntimeInv, OwnersAgree
      <3> QED
        BY <1>4, <1>7, <2>2, <2>4, <3>2
    <2> QED
      BY <2>3, <2>4
  <1>10. /\ \A u \in Terminals : sessions'[u] = IF u \in evicted \cup T THEN 0 ELSE sessions[u]
        /\ sessions' \in [Terminals -> 0..Len(objects')]
    <2>1. sessions' = [u \in Terminals |-> IF u \in evicted \cup T THEN 0 ELSE sessions[u]]
      BY <1>1, DropLeaves
    <2> QED
      BY <1>4, <1>7, <2>1
  <1>11. MapInv'
    BY <1>4, <1>7, <1>10 DEF MapInv
  <1>12. /\ OrderInv' /\ InactiveSessionsAreFew' /\ older' \subseteq Terminals \X Terminals
    <2> DEFINE I == Inactive(sessions, objects)
               J == Inactive(sessions, objects') \ (evicted \cup T)
    <2>1. Inactive(sessions', objects') = J
      BY <1>1, DropLeaves
    <2>2. J \subseteq I
      BY <1>4, <1>6, <1>7 DEF Inactive
    <2>3. IsFiniteSet(I) /\ Linear(older, I) /\ Cardinality(I) <= MaxRetained
      <3>1. Linear(older, I) /\ Cardinality(I) <= MaxRetained
        BY DEF ManagerInv, RuntimeInv, OrderInv, InactiveSessionsAreFew
      <3> QED
        BY <1>4, <3>1, InactiveIsFinite DEF ManagerInv, RuntimeInv, MapInv
    <2> HIDE DEF I
    <2>4. Linear(older, J)
      BY <2>2, <2>3, LinearOnFewer
    <2>5. older' \subseteq older /\ OrderInv'
      BY <1>1, <2>4, DropOrders
    <2>6. IsFiniteSet(J) /\ Cardinality(J) <= Cardinality(I) /\ Cardinality(J) \in Nat
          /\ Cardinality(I) \in Nat
      BY <2>2, <2>3, FS_Subset, FS_CardinalityType
    <2> HIDE DEF J
    <2>7. Cardinality(J) <= MaxRetained
      BY <2>3, <2>6, TerminalAssumption
    <2> QED
      BY <1>4, <2>1, <2>5, <2>7 DEF InactiveSessionsAreFew
  <1>13. /\ orphans' = orphans \cup {sessions[u] : u \in {v \in evicted : Starting(sessions[v])}}
         /\ unsaved' = unsaved \cup {u \in evicted : Unfinished(persist[u]) \/ Starting(sessions[u])}
    BY <1>1, DropLoses
  <1>14. /\ orphans' \subseteq DOMAIN objects' /\ orphans \subseteq orphans'
         /\ unsaved' \subseteq Terminals /\ unsaved \subseteq unsaved' /\ OrphansInv'
    <2>1. /\ orphans \subseteq DOMAIN objects /\ unsaved \subseteq Terminals
          /\ \A s \in orphans : objects[s].terminal \in unsaved
      BY DEF ManagerInv, RuntimeInv, TypeOK, OrphansInv
    <2>2. \A s \in orphans' \ orphans : s \in DOMAIN objects /\ objects[s].terminal \in unsaved'
      BY <1>4, <1>9, <1>13
    <2>3. orphans \subseteq orphans' /\ unsaved \subseteq unsaved' /\ unsaved' \subseteq Terminals
      BY <1>9, <1>13, <2>1
    <2>4. \A s \in orphans' : s \in DOMAIN objects' /\ objects'[s].terminal \in unsaved'
      BY <1>7, <2>1, <2>2, <2>3
    <2> QED
      BY <2>3, <2>4 DEF OrphansInv
  <1>15. /\ new \in Operations /\ new.kind = "close" /\ new.terminals = T /\ new.deletes = deletes
    BY OperationFields DEF new
  <1>16. /\ op' \in [Threads -> Operations] /\ op'[th] = new
         /\ \A k \in Threads : k # th => op'[k] = op[k]
         /\ op[th] = Idle /\ ~disposed /\ requests' \in 0..MaxRequests
         /\ file' = file /\ disposed' = disposed /\ outputs' = outputs /\ failures' = failures
    BY <1>1, <1>15, CalledMoves DEF ManagerInv, RuntimeInv
  <1>17. /\ \A u \in Terminals \ T :
              /\ u \notin evicted => persist'[u] = persist[u]
              /\ u \in evicted => persist'[u] = Forgotten(persist[u])
         /\ \A u \in T :
              /\ u \notin evicted => persist'[u] = FlushPersistQueue(persist[u])
              /\ u \in evicted => persist'[u] = FlushPersistQueue(Forgotten(persist[u]))
         /\ DOMAIN persist' = Terminals
    BY <1>1
  <1>18. \A u \in Terminals :
           /\ persist[u] \in Persistence /\ Forgotten(persist[u]) \in Persistence
           /\ Forgotten(persist[u]).waiting = persist[u].waiting
           /\ Full(persist[u].detached) /\ Full(Forgotten(persist[u]).detached)
    BY <1>4, ForgottenFields, ForgottenKeepsFull DEF ManagerInv, RuntimeInv, DetachedInv
  <1>19. \A u \in Terminals : persist'[u] \in Persistence /\ Full(persist'[u].detached)
    <2>1. \A r \in Persistence : Full(r.detached) =>
            FlushPersistQueue(r) \in Persistence /\ Full(FlushPersistQueue(r).detached)
      BY FlushPersistQueueFlushes DEF Flushed
    <2> QED
      BY <1>17, <1>18, <2>1
  <1>20. persist' \in [Terminals -> Persistence]
    <2>1. persist' = [u \in Terminals |-> persist'[u]]
      BY <1>1
    <2> QED
      BY <1>19, <2>1
  <1>21. TypeOK'
    <2>1. \A k \in Threads : op'[k].kind \in {"start", "spawn"} => op'[k].object \in DOMAIN objects'
      BY <1>7, <1>15, <1>16 DEF ManagerInv, RuntimeInv, TypeOK
    <2> QED
      BY <1>1, <1>7, <1>8, <1>10, <1>12, <1>14, <1>16, <1>20, <2>1 DEF ManagerInv, RuntimeInv,
        TypeOK
  <1>22. DetachedInv'
    BY <1>19 DEF DetachedInv
  <1>23. OperationsInv'
    <2>1. \A u \in deletes : sessions'[u] = 0
      BY <1>10
    <2>2. OperationOf(th)'
      BY <1>15, <1>16, <2>1 DEF OperationOf, Launching
    <2>3. \A r \in DOMAIN objects :
            /\ objects'[r].terminal = objects[r].terminal
            /\ objects[r].process = 0 => objects'[r].process = 0
      BY <1>7
    <2> QED
      BY <1>10, <1>16, <2>2, <2>3, OperationsKept
  <1>24. WaitInv'
    <2>1. \A u \in Terminals \ T : persist'[u].waiting = persist[u].waiting
      BY <1>17, <1>18
    <2>2. \A u \in Terminals : ThreadOf[u] = th => persist[u].waiting = "no"
      BY <1>16, IdleTerminals
    <2> QED
      BY <1>15, <1>16, <2>1, <2>2, WaitKept
  <1>25. LocatedInv'
    <2> SUFFICES ASSUME NEW r \in DOMAIN objects, objects'[r].process # 0 \/ Launched(r)'
                 PROVE  sessions'[objects[r].terminal] = r \/ r \in orphans'
      BY <1>7 DEF LocatedInv
    <2> DEFINE u == objects[r].terminal
    <2>1. Launched(r)' => Launched(r) /\ Starting(r)
      BY <1>7, <1>15, <1>16, LaunchedKept DEF Launching
    <2>2. u \in Terminals /\ r # 0
      BY <1>4, ObjectTypes DEF ManagerInv, RuntimeInv
    <2>3. sessions[u] = r \/ r \in orphans
      BY <1>8, <1>16, <2>1 DEF ManagerInv, RuntimeInv, LocatedInv, Disposed
    <2>4. ASSUME sessions[u] = r, u \in T
          PROVE  FALSE
      <3>1. objects'[r].process = 0
        BY <1>6, <1>7, <2>2, <2>4
      <3>2. Launched(r) /\ ThreadOf[u] = th
        BY <2>1, <2>4, <3>1
      <3> QED
        BY <1>16, <3>2, IdleFields DEF Launched, Launching
    <2>5. ASSUME sessions[u] = r, u \in evicted
          PROVE  r \in orphans'
      <3>1. objects'[r].process = 0
        BY <1>9, <2>5
      <3> QED
        BY <1>13, <2>1, <2>5, <3>1
    <2> QED
      BY <1>10, <1>14, <2>2, <2>3, <2>4, <2>5
  <1>26. HistoryInv'
    <2> SUFFICES ASSUME NEW u \in Terminals \ unsaved'
                 PROVE  HistoryOf(u)'
      BY DEF HistoryInv
    <2>1. u \in Terminals \ unsaved /\ HistoryOf(u) /\ (Reading(u)' => Reading(u))
      BY <1>14, <1>15, <1>16, ReadingKept DEF ManagerInv, RuntimeInv, HistoryInv
    <2>2. u \in evicted => sessions[u] # 0 /\ ~Unfinished(persist[u])
      BY <1>9, <1>13
    <2>3. CASE u \in evicted \ T
      BY <1>1, <1>10, <1>16, <1>17, <2>1, <2>2, <2>3, LostHistory
    <2>4. CASE u \notin evicted \cup T
      <3>1. sessions[u] # 0 => objects'[sessions[u]].history = objects[sessions[u]].history
        BY <1>4, <1>7
      <3>2. persist'[u] = persist[u] /\ sessions'[u] = sessions[u]
        BY <1>10, <1>17, <2>4
      <3> QED
        BY <1>1, <1>16, <2>1, <3>1, <3>2, HistoryKept
    <2>5. CASE u \in T
      <3>1. persist[u].detached = <<>> /\ Unawaited(persist[u].chain)
        <4>1. persist[u].waiting = "no"
          BY <1>16, <2>5, IdleTerminals
        <4> QED
          BY <1>16, <2>1, <4>1, UnawaitedWhileIdle DEF HistoryOf
      <3>2. PICK r \in Persistence :
              /\ persist'[u] = FlushPersistQueue(r) /\ r.detached = <<>> /\ Unawaited(r.chain)
              /\ u \notin evicted => r = persist[u]
        <4>1. CASE u \notin evicted
          BY <1>17, <1>18, <2>5, <3>1, <4>1
        <4>2. CASE u \in evicted
          <5>1. Forgotten(persist[u]).detached = <<>> /\ Forgotten(persist[u]).chain = <<>>
            BY <1>18, <2>1, <2>2, <4>2, ForgottenFields DEF Unfinished
          <5>2. Unawaited(Forgotten(persist[u]).chain)
            BY <5>1 DEF Unawaited
          <5> QED
            BY <1>17, <1>18, <2>5, <4>2, <5>1, <5>2
        <4> QED
          BY <4>1, <4>2
      <3>3. /\ persist'[u].detached = <<>> /\ AwaitedOnce(persist'[u]) /\ Settling(persist'[u])
            /\ r.pending = Absent /\ r.chain = <<>> =>
                    persist'[u].pending = Absent /\ persist'[u].chain = <<>>
        BY <3>2, FlushPersistQueueFlushes DEF Flushed
      <3>4. sessions'[u] = 0
        BY <1>10, <2>5
      <3>5. u \in deleted' => file'[u] = Absent /\ ~Unfinished(persist'[u])
        <4> SUFFICES ASSUME u \in deleted'
                     PROVE  file'[u] = Absent /\ ~Unfinished(persist'[u])
          OBVIOUS
        <4>1. sessions[u] = 0 /\ file[u] = Absent /\ ~Unfinished(persist[u])
          BY <1>1, <1>16, <2>1 DEF HistoryOf
        <4>2. r = persist[u]
          BY <2>2, <3>2, <4>1
        <4> QED
          BY <1>16, <3>3, <4>1, <4>2 DEF Unfinished
      <3> QED
        BY <3>3, <3>4, <3>5 DEF HistoryOf
    <2> QED
      BY <2>3, <2>4, <2>5
  <1> QED
    BY <1>8, <1>11, <1>12, <1>14, <1>21, <1>22, <1>23, <1>24, <1>25, <1>26 DEF ManagerInv,
      RuntimeInv

LEMMA CloseTerminalPreserves ==
    ASSUME ManagerInv, NEW t \in Terminals, CloseTerminal(t)
    PROVE  ManagerInv'
PROOF
  <1>1. PICK deletes \in {{}, {t}} : Close(ThreadOf[t], {t}, deletes)
    BY DEF CloseTerminal
  <1> DEFINE T == {t}
             th == ThreadOf[t]
  <1>2. /\ th \in Threads /\ T \in SUBSET Terminals /\ deletes \in SUBSET Terminals
        /\ \A u \in T \cup deletes : ThreadOf[u] = th
        /\ \A u \in deletes \ T : sessions[u] = 0
        /\ Close(th, T, deletes)
    BY <1>1, TerminalAssumption
  <1> HIDE DEF T, th
  <1> QED
    BY <1>2, ClosePreserves

LEMMA CloseThreadPreserves ==
    ASSUME ManagerInv, NEW th \in Threads, CloseThread(th)
    PROVE  ManagerInv'
PROOF
  <1> DEFINE ofThread == {t \in Terminals : ThreadOf[t] = th}
             T == {t \in ofThread : sessions[t] # 0}
  <1>1. PICK deletes \in {{}, ofThread} : Close(th, T, deletes)
    BY DEF CloseThread
  <1>2. /\ T \in SUBSET Terminals /\ deletes \in SUBSET Terminals
        /\ \A u \in T \cup deletes : ThreadOf[u] = th
        /\ \A u \in deletes \ T : sessions[u] = 0
    BY <1>1
  <1> HIDE DEF T
  <1> QED
    BY <1>1, <1>2, ClosePreserves

(* The writes of a history that an operation is about to read go on.       *)
LEMMA ForgottenSettles ==
    ASSUME NEW r \in Persistence, r.detached = <<>>, Settling(r)
    PROVE  Settling(Forgotten(r))
PROOF
  <1> DEFINE n == Forgotten(r)
  <1>1. /\ n.pending = Absent /\ n.chain = <<>> /\ n.waiting = r.waiting
        /\ n.detached = IF r.chain = <<>> THEN <<>> ELSE Append(<<>>, r.chain)
    BY ForgottenFields
  <1>2. r.chain \in Seq(Writes) /\ LastAwaited(r.chain) /\ (r.chain # <<>> => r.waiting # "no")
    BY PersistenceFields DEF Settling
  <1>3. Append(<<>>, r.chain) = <<r.chain>>
    OBVIOUS
  <1> HIDE DEF n
  <1>4. r.chain = <<>> => Settling(n)
    BY <1>1 DEF Settling, LastAwaited
  <1>5. ASSUME r.chain # <<>>
        PROVE  Settling(n)
    <2>1. n.detached = <<r.chain>> /\ Len(n.detached) = 1 /\ n.detached[1] = r.chain
      BY <1>1, <1>2, <1>3, <1>5
    <2> QED
      BY <1>1, <1>2, <1>5, <2>1 DEF Settling
  <1> QED
    BY <1>4, <1>5 DEF n

(* The server shuts down.                                                  *)
LEMMA DisposePreserves ==
    ASSUME ManagerInv, Dispose
    PROVE  ManagerInv'
PROOF
  <1> DEFINE S == {sessions[t] : t \in Terminals} \ {0}
  <1>1. /\ ~disposed /\ disposed' = TRUE /\ sessions' = [t \in Terminals |-> 0]
        /\ objects' = Stopped(S) /\ older' = {} /\ (\E R : processes' = Terminated(S, R))
        /\ killTimers' = {}
        /\ persist' = [t \in Terminals |-> Forgotten(persist[t])]
        /\ file' = file /\ op' = op /\ orphans' = orphans /\ unsaved' = unsaved /\ deleted' = deleted
        /\ outputs' = outputs /\ requests' = requests /\ failures' = failures
    BY DEF Dispose, history, bounds
  <1>2. /\ objects \in Seq(Objects) /\ sessions \in [Terminals -> 0..Len(objects)]
        /\ persist \in [Terminals -> Persistence]
    BY DEF ManagerInv, RuntimeInv, TypeOK
  <1>3. S \in SUBSET DOMAIN objects
    BY <1>2
  <1>4. \A t \in Terminals : sessions[t] # 0 => sessions[t] \in S
    OBVIOUS
  <1> HIDE DEF S
  <1>5. /\ objects' \in Seq(Objects) /\ Len(objects') = Len(objects) /\ DOMAIN objects' = DOMAIN objects
        /\ \A s \in DOMAIN objects :
             /\ objects'[s].terminal = objects[s].terminal
             /\ s \in S => objects'[s].process = 0
             /\ s \notin S => objects'[s] = objects[s]
    BY <1>1, <1>2, StoppedObjects
  <1>6. /\ OwnersAgree' /\ TimersInv' /\ processes' \in Seq(Processes)
        /\ \A p \in DOMAIN processes' : processes'[p].session \in DOMAIN objects'
        /\ \A s \in DOMAIN objects :
             objects'[s].process # 0 => objects[s].process # 0 /\ s \notin S
    <2>1. \A s \in DOMAIN objects :
            /\ objects'[s].status = Stopped(S)[s].status
            /\ objects'[s].process = Stopped(S)[s].process
      BY <1>1
    <2>2. killTimers' \subseteq killTimers \cup ProcessesOf(S)
      BY <1>1
    <2> QED
      BY <1>1, <1>3, <1>5, <2>1, <2>2, StopPreserves
  <1>7. \A t \in Terminals :
          /\ persist[t] \in Persistence /\ persist'[t] = Forgotten(persist[t])
          /\ persist'[t] \in Persistence /\ persist'[t].waiting = persist[t].waiting
          /\ Full(persist'[t].detached) /\ sessions'[t] = 0
    BY <1>1, <1>2, ForgottenFields, ForgottenKeepsFull DEF ManagerInv, RuntimeInv, DetachedInv
  <1>8. TypeOK'
    <2>1. /\ sessions' \in [Terminals -> 0..Len(objects')]
          /\ persist' \in [Terminals -> Persistence]
      BY <1>1, <1>2, <1>5, <1>7
    <2>2. \A k \in Threads : op'[k].kind \in {"start", "spawn"} => op'[k].object \in DOMAIN objects'
      BY <1>1, <1>5 DEF ManagerInv, RuntimeInv, TypeOK
    <2> QED
      BY <1>1, <1>5, <1>6, <2>1, <2>2 DEF ManagerInv, RuntimeInv, TypeOK
  <1>9. MapInv' /\ OrderInv' /\ InactiveSessionsAreFew'
    <2>1. Inactive(sessions', objects') = {}
      BY <1>7 DEF Inactive
    <2>2. Cardinality({}) <= MaxRetained
      BY FS_EmptySet, TerminalAssumption
    <2> QED
      BY <1>7, <2>1, <2>2 DEF MapInv, OrderInv, Linear, InactiveSessionsAreFew
  <1>10. OrphansInv' /\ WaitInv' /\ DetachedInv'
    BY <1>1, <1>5, <1>7
    DEF ManagerInv, RuntimeInv, OrphansInv, WaitInv, DetachedInv, TypeOK
  <1>11. OperationsInv'
    <2> SUFFICES ASSUME NEW th \in Threads
                 PROVE  OperationOf(th)'
      BY DEF OperationsInv
    <2>1. OperationOf(th) /\ op[th] \in Operations
          /\ (op[th].kind \in Launching => op[th].object \in DOMAIN objects)
      BY DEF ManagerInv, RuntimeInv, OperationsInv, TypeOK, Launching
    <2>2. op[th].terminals \subseteq Terminals /\ op[th].deletes \subseteq Terminals
      BY <2>1 DEF Operations
    <2>3. \A s \in DOMAIN objects : objects[s].process = 0 => objects'[s].process = 0
      BY <1>5
    <2> QED
      BY <1>1, <1>5, <1>7, <2>1, <2>2, <2>3 DEF OperationOf
  <1>12. LocatedInv'
    <2> SUFFICES ASSUME NEW s \in DOMAIN objects, objects'[s].process # 0 \/ Launched(s)'
                 PROVE  s \in orphans' \/ Disposed(s)'
      BY <1>5 DEF LocatedInv
    <2>1. Launched(s)' <=> Launched(s)
      BY <1>1, <1>5 DEF Launched
    <2>2. objects[s].terminal \in Terminals /\ s # 0
      BY <1>2, ObjectTypes DEF ManagerInv, RuntimeInv
    <2>3. sessions[objects[s].terminal] = s \/ s \in orphans
      BY <1>1, <1>6, <2>1 DEF ManagerInv, RuntimeInv, LocatedInv, Disposed
    <2>4. CASE s \in orphans
      BY <1>1, <2>4
    <2>5. CASE sessions[objects[s].terminal] = s
      <3>1. Launched(s)
        BY <1>4, <1>6, <2>1, <2>2, <2>5
      <3>2. op[ThreadOf[objects[s].terminal]].kind # "read"
        BY <3>1 DEF Launched, Launching
      <3> QED
        BY <1>1, <1>5, <1>7, <2>2, <3>2 DEF Disposed
    <2> QED
      BY <2>3, <2>4, <2>5
  <1>13. HistoryInv'
    <2> SUFFICES ASSUME NEW t \in Terminals \ unsaved, Reading(t)
                 PROVE  Settling(persist'[t])
      BY <1>1, <1>7 DEF HistoryInv, HistoryOf, Reading
    <2>1. HistoryOf(t)
      BY DEF ManagerInv, HistoryInv
    <2>2. sessions[t] = 0
      BY TerminalAssumption DEF Reading, ManagerInv, RuntimeInv, OperationsInv, OperationOf
    <2> QED
      BY <1>1, <1>7, <2>1, <2>2, ForgottenSettles DEF HistoryOf
  <1> QED
    BY <1>6, <1>8, <1>9, <1>10, <1>11, <1>12, <1>13 DEF ManagerInv, RuntimeInv
-----------------------------------------------------------------------------
(* The theorems.                                                           *)

LEMMA ManagerStarts == Init => ManagerInv
PROOF
  <1> SUFFICES ASSUME Init
               PROVE  ManagerInv
    OBVIOUS
  <1> DEFINE none == NoPersistence
  <1>1. /\ objects = <<>> /\ processes = <<>> /\ killTimers = {} /\ older = {} /\ ~disposed
        /\ orphans = {} /\ unsaved = {} /\ deleted = {} /\ disposed = FALSE
        /\ \A t \in Terminals : sessions[t] = 0 /\ persist[t] = none /\ file[t] = Absent
        /\ \A th \in Threads : op[th] = Idle
        /\ DOMAIN objects = {} /\ DOMAIN processes = {}
    BY DEF Init
  <1>2. /\ none \in Persistence /\ none.pending = Absent /\ none.chain = <<>>
        /\ none.detached = <<>> /\ none.waiting = "no" /\ none.timer = FALSE
    BY DEF NoPersistence, Persistence
  <1>3. TypeOK
    <2>1. /\ sessions \in [Terminals -> 0..Len(objects)] /\ persist \in [Terminals -> Persistence]
          /\ file \in [Terminals -> Nat \cup {Absent}] /\ op \in [Threads -> Operations]
      BY <1>2, IdleFields DEF Init
    <2>2. objects \in Seq(Objects) /\ processes \in Seq(Processes)
      BY <1>1
    <2>3. outputs \in 0..MaxOutputs /\ requests \in 0..MaxRequests /\ failures \in 0..MaxFailures
      BY TerminalAssumption DEF Init
    <2> QED
      BY <1>1, <2>1, <2>2, <2>3, IdleFields DEF TypeOK
  <1> HIDE DEF none
  <1>4. OwnersAgree /\ MapInv /\ LocatedInv /\ OrphansInv /\ TimersInv
    BY <1>1 DEF OwnersAgree, MapInv, LocatedInv, OrphansInv, TimersInv
  <1>5. OperationsInv
    BY <1>1, IdleFields DEF OperationsInv, OperationOf, Launching
  <1>6. WaitInv /\ DetachedInv
    BY <1>1, <1>2 DEF WaitInv, DetachedInv, Full
  <1>7. OrderInv /\ InactiveSessionsAreFew
    <2>1. Inactive(sessions, objects) = {}
      BY <1>1 DEF Inactive
    <2>2. Cardinality({}) <= MaxRetained
      BY FS_EmptySet, TerminalAssumption
    <2> QED
      BY <1>1, <2>1, <2>2 DEF OrderInv, Linear, InactiveSessionsAreFew
  <1>8. HistoryInv
    <2>1. AwaitedOnce(none) /\ Settling(none)
      BY <1>2 DEF AwaitedOnce, Settling, LastAwaited
    <2> QED
      BY <1>1, <1>2, <2>1 DEF HistoryInv, HistoryOf
  <1> QED
    BY <1>3, <1>4, <1>5, <1>6, <1>7, <1>8 DEF ManagerInv, RuntimeInv

LEMMA ManagerStutters == ManagerInv /\ UNCHANGED vars => ManagerInv'
PROOF
  <1> SUFFICES ASSUME ManagerInv, UNCHANGED vars
               PROVE  ManagerInv'
    OBVIOUS
  <1>1. /\ UNCHANGED <<table, persist, file, op, disposed, history>> /\ UNCHANGED <<pty, bounds>>
    BY DEF vars
  <1>2. /\ MapInv' /\ OperationsInv' /\ WaitInv' /\ LocatedInv' /\ OrphansInv' /\ DetachedInv'
        /\ OrderInv' /\ InactiveSessionsAreFew' /\ HistoryInv'
    BY <1>1, RestKept
  <1>3. TypeOK' /\ OwnersAgree' /\ TimersInv'
    BY <1>1 DEF ManagerInv, RuntimeInv, TypeOK, OwnersAgree, TimersInv, table, pty, history, bounds
  <1> QED
    BY <1>2, <1>3 DEF ManagerInv, RuntimeInv

LEMMA ManagerMoves == ManagerInv /\ [Next]_vars => ManagerInv'
PROOF
  <1> SUFFICES ASSUME ManagerInv, [Next]_vars
               PROVE  ManagerInv'
    OBVIOUS
  <1>1. CASE UNCHANGED vars
    BY <1>1, ManagerStutters
  <1>2. CASE Call
    <2>1. ASSUME NEW t \in Terminals,
                 OpenUnknown(t) \/ OpenStopped(t) \/ Reset(t) \/ RestartUnknown(t) \/ Clear(t)
                    \/ CloseTerminal(t)
          PROVE  ManagerInv'
      BY <2>1, OpenUnknownPreserves, OpenStoppedPreserves, ResetPreserves,
         RestartUnknownPreserves, ClearPreserves, CloseTerminalPreserves
    <2>2. ASSUME NEW th \in Threads, CloseThread(th)
          PROVE  ManagerInv'
      BY <2>2, CloseThreadPreserves
    <2> QED
      BY <1>2, <2>1, <2>2 DEF Call
  <1>3. CASE Dispose
    BY <1>3, DisposePreserves
  <1>4. ASSUME NEW th \in Threads, Proceed(th)
        PROVE  ManagerInv'
    BY <1>4, ReadHistoryPreserves, ReadFailsPreserves, StartSessionPreserves,
       SpawnSucceedsPreserves, SpawnFailsPreserves, ClearDonePreserves, CloseDonePreserves,
       DeletionFailsPreserves DEF Proceed
  <1>5. ASSUME NEW t \in Terminals, Persist(t)
        PROVE  ManagerInv'
    BY <1>5, PersistTimerFiresPreserves, WriteHistoryPreserves, WriteFailsPreserves DEF Persist
  <1>6. ASSUME NEW p \in DOMAIN processes,
               Output(p) \/ Exit(p) \/ ExitUnnoticed(p) \/ KillTimerFires(p)
        PROVE  ManagerInv'
    BY <1>6, OutputPreserves, ExitPreserves, ExitUnnoticedPreserves, KillTimerFiresPreserves
  <1> QED
    BY <1>1, <1>2, <1>3, <1>4, <1>5, <1>6 DEF Next

LEMMA ManagerInvariant == Spec => []ManagerInv
BY ManagerStarts, ManagerMoves, PTL DEF Spec

(* The state of the terminals has the declared shape, and the map and the  *)
(* operations refer to sessions that exist.                                *)
THEOREM ManagerTypeCorrect == Spec => []TypeOK
PROOF
  <1>1. ManagerInv => TypeOK
    BY DEF ManagerInv, RuntimeInv
  <1> QED
    BY <1>1, ManagerInvariant, PTL

(* A process is heard by the one session that owns it, and a session has a *)
(* process exactly while it runs (stopProcess, startSession).              *)
THEOREM OwnersAlwaysAgree == Spec => []OwnersAgree
PROOF
  <1>1. ManagerInv => OwnersAgree
    BY DEF ManagerInv, RuntimeInv
  <1> QED
    BY <1>1, ManagerInvariant, PTL

(* Through every eviction, close, restart and failure, a process that has  *)
(* neither ended nor been told to is found through the map, but for those  *)
(* of sessions evicted while they were being started and those a signal to *)
(* which threw (evictInactiveSessionsIfNeeded, killProcessWithEscalation). *)
THEOREM NoProcessIsEverLost == Spec => []NoProcessIsLost
PROOF
  <1>1. ASSUME ManagerInv
        PROVE  NoProcessIsLost
    <2> SUFFICES ASSUME NEW p \in DOMAIN processes, ~disposed, processes[p].session \notin orphans,
                        processes[p].status \notin {"terminating", "dead", "refused"}
                 PROVE  /\ objects[processes[p].session].process = p
                        /\ sessions[objects[processes[p].session].terminal] = processes[p].session
      BY DEF NoProcessIsLost
    <2>1. /\ processes \in Seq(Processes) /\ processes[p].session \in DOMAIN objects
          /\ objects[processes[p].session].process = p
      <3>1. processes \in Seq(Processes)
        BY <1>1 DEF ManagerInv, RuntimeInv, TypeOK
      <3>2. processes[p] \in Processes
        BY <3>1
      <3>3. processes[p].status = "running"
        BY <3>2 DEF Processes
      <3> QED
        BY <1>1, <3>1, <3>3 DEF ManagerInv, RuntimeInv, TypeOK, OwnersAgree
    <2>2. p # 0
      BY <2>1
    <2> QED
      BY <1>1, <2>1, <2>2 DEF ManagerInv, RuntimeInv, LocatedInv, Disposed
  <1> QED
    BY <1>1, ManagerInvariant, PTL

(* Not more inactive sessions are retained than maxRetainedInactiveSessions*)
(* on whichever path a session becomes inactive.                           *)
THEOREM InactiveSessionsAreAlwaysFew == Spec => []InactiveSessionsAreFew
PROOF
  <1>1. ManagerInv => InactiveSessionsAreFew
    BY DEF ManagerInv, RuntimeInv
  <1> QED
    BY <1>1, ManagerInvariant, PTL

(* When nothing is left to be written, the file holds the history of the   *)
(* session, and a history that was removed does not come back by a late    *)
(* write (persistHistory, flushPersistQueue, close).                       *)
THEOREM HistoryIsAlwaysSaved == Spec => []HistoryIsSaved
PROOF
  <1>1. ASSUME ManagerInv
        PROVE  HistoryIsSaved
    <2>1. ASSUME NEW t \in Terminals, AtRest(t), sessions[t] # 0, t \notin unsaved
          PROVE  IF file[t] = Absent THEN objects[sessions[t]].history = 0
                 ELSE file[t] = objects[sessions[t]].history
      <3>1. Latest(persist[t], file[t]) = objects[sessions[t]].history
        BY <1>1, <2>1 DEF ManagerInv, HistoryInv, HistoryOf
      <3>2. persist[t].pending = Absent /\ persist[t].chain = <<>>
        BY <2>1 DEF AtRest, Unfinished
      <3> QED
        BY <3>1, <3>2 DEF Latest, Stored
    <2>2. ASSUME NEW t \in deleted \ unsaved, ~disposed
          PROVE  file[t] = Absent
      BY <1>1, <2>2 DEF ManagerInv, RuntimeInv, TypeOK, HistoryInv, HistoryOf
    <2> QED
      BY <2>1, <2>2 DEF HistoryIsSaved
  <1> QED
    BY <1>1, ManagerInvariant, PTL
=============================================================================
