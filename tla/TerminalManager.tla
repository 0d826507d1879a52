--------------------------- MODULE TerminalManager ---------------------------
(***************************************************************************)
(* The terminals of the server: TerminalManagerRuntime of                  *)
(* apps/server/src/terminal/Layers/Manager.ts.                             *)
(*                                                                         *)
(* Operations on the terminals of one thread exclude each other            *)
(* (runWithThreadLock); those of other threads, the processes' output and  *)
(* exit, timers and file writes come between their awaits.  A session may  *)
(* be evicted from the map at any of them.                                 *)
(*                                                                         *)
(* A history is named by the number of the last output appended to it, 0   *)
(* being the empty one.  Writing to and resizing a terminal, and the       *)
(* polling for subprocesses, do not touch this state; the retries of       *)
(* trySpawn are part of one spawn.                                         *)
(***************************************************************************)
EXTENDS Integers, Sequences, FiniteSets

CONSTANTS
    Terminals,
    Threads,
    ThreadOf,        \* the thread of each terminal
    MaxRetained,     \* maxRetainedInactiveSessions
    MaxRequests,     \* bound on the operations called
    MaxOutputs,      \* bound on the chunks all processes print
    MaxFailures      \* bound on failing spawns, reads, writes and removals

ASSUME TerminalAssumption ==
    /\ ThreadOf \in [Terminals -> Threads]
    /\ MaxRetained \in Nat \ {0}
    /\ MaxRequests \in Nat /\ MaxOutputs \in Nat /\ MaxFailures \in Nat

VARIABLES
    objects,     \* the TerminalSessionState objects ever created
    sessions,    \* the map: the object of each terminal, or 0
    older,       \* <<t, u>>: the inactive sessions t and u, t updated before u
    processes,   \* the processes ever spawned; "refused": one a signal to which threw
    killTimers,  \* those with an entry in killEscalationTimers
    persist,     \* per terminal: pendingPersistHistory, persistTimers, persistQueues
    file,        \* per terminal: the history file, or Absent
    op,          \* the operation that holds each thread's lock
    disposed,
    orphans,     \* history: objects evicted while an operation was starting them
    unsaved,     \* history: terminals that lost a write or were evicted with one
    deleted,     \* history: terminals whose file was removed and not opened since
    outputs, requests, failures

table == <<objects, sessions, older>>
pty == <<processes, killTimers>>
history == <<orphans, unsaved, deleted>>
bounds == <<outputs, requests, failures>>
vars == <<table, pty, persist, file, op, disposed, history, bounds>>

Absent == -1
-----------------------------------------------------------------------------
(* Persistence of one terminal's history.  chain is the promise chain in   *)
(* persistQueues, detached those an eviction removed from it; a write is   *)
(* awaited if the operation in progress waits for it, and waiting says     *)
(* where that operation is.                                                *)

NoPersistence ==
    [pending |-> Absent, timer |-> FALSE, chain |-> <<>>, detached |-> <<>>, waiting |-> "no"]

Enqueued(r, h, awaited) ==
    [r EXCEPT !.chain = Append(r.chain, [history |-> h, awaited |-> awaited])]

QueuePersist(r, h) == [r EXCEPT !.pending = h, !.timer = TRUE]

(* Mutant: the pending history is not superseded.                          *)
PersistHistoryKeepingPending(r, h) == [Enqueued(r, h, TRUE) EXCEPT !.waiting = "persist"]

PersistHistory(r, h) ==
    [Enqueued(r, h, TRUE) EXCEPT !.pending = Absent, !.timer = FALSE, !.waiting = "persist"]

(* flushPersistQueue: first what is pending, then the tail of the chain.   *)
FlushTail(r) ==
    IF r.chain = <<>>
    THEN [r EXCEPT !.waiting = "no"]
    ELSE [r EXCEPT !.chain[Len(r.chain)].awaited = TRUE, !.waiting = "tail"]

FlushLoop(r) ==
    IF r.pending = Absent
    THEN FlushTail(r)
    ELSE [Enqueued(r, r.pending, TRUE) EXCEPT !.pending = Absent, !.waiting = "write"]

FlushPersistQueue(r) == FlushLoop([r EXCEPT !.timer = FALSE])

(* The operation continues after the write it awaited.                     *)
Resumed(r) ==
    CASE r.waiting = "write" -> FlushTail(r)
      [] r.waiting = "tail" -> FlushLoop(r)
      [] OTHER -> [r EXCEPT !.waiting = "no"]

(* Timer, pending history and queue are forgotten; the chain goes on.      *)
Forgotten(r) ==
    [r EXCEPT !.pending = Absent, !.timer = FALSE, !.chain = <<>>,
              !.detached = IF r.chain = <<>> THEN r.detached ELSE Append(r.detached, r.chain)]

Unfinished(r) == r.pending # Absent \/ r.chain # <<>> \/ r.detached # <<>>
-----------------------------------------------------------------------------
(* Sessions and processes.                                                 *)

Object(t, status, h) == [terminal |-> t, status |-> status, process |-> 0, history |-> h]

Inactive(map, objs) == {t \in Terminals : map[t] # 0 /\ objs[map[t]].status # "running"}

(* The order of updatedAt once the session of t, or s if it is the one in  *)
(* the map, is the latest.                                                 *)
Touched(t) == {pair \in older : pair[1] # t} \cup {<<u, t>> : u \in Terminals \ {t}}
TouchedBy(s) ==
    IF sessions[objects[s].terminal] = s THEN Touched(objects[s].terminal) ELSE older

(* The map stays as it is.                                                 *)
Reorder(order) ==
    LET inactive == Inactive(sessions, objects')
    IN  /\ older' = {pair \in order : pair[1] \in inactive /\ pair[2] \in inactive}
        /\ UNCHANGED sessions

(* evictInactiveSessionsIfNeeded: the oldest inactive sessions, so that    *)
(* MaxRetained are left.                                                   *)
Evictees(map, objs, order) ==
    LET inactive == Inactive(map, objs)
    IN  {t \in inactive : Cardinality({u \in inactive : <<t, u>> \in order}) >= MaxRetained}

(* An operation will spawn a process for the session.                      *)
Starting(s) == \E th \in Threads : op[th].kind \in {"start", "spawn"} /\ op[th].object = s

(* The map after the sessions of the evicted and of the closed terminals   *)
(* are removed from it.                                                    *)
Drop(evicted, closed, map, order) ==
    LET left == [t \in Terminals |-> IF t \in evicted \cup closed THEN 0 ELSE map[t]]
        inactive == Inactive(left, objects')
    IN  /\ sessions' = left
        /\ older' = {pair \in order : pair[1] \in inactive /\ pair[2] \in inactive}
        /\ orphans' = orphans \cup {map[t] : t \in {u \in evicted : Starting(map[u])}}
        /\ unsaved' = unsaved \cup {t \in evicted : Unfinished(persist[t]) \/ Starting(map[t])}

Evict(map, order) == Drop(Evictees(map, objects', order), {}, map, order)

(* What is left of the persistence after Evict(map, order).                *)
Kept(map, order) ==
    [t \in Terminals |-> IF t \in Evictees(map, objects', order)
                         THEN Forgotten(persist[t]) ELSE persist[t]]

ProcessesOf(S) == {objects[s].process : s \in S} \ {0}

Stopped(S) ==
    [s \in DOMAIN objects |->
        IF s \in S /\ objects[s].process # 0
        THEN [objects[s] EXCEPT !.status = "exited", !.process = 0] ELSE objects[s]]

(* What SIGTERM makes of a process, R being those for which it throws.     *)
Signalled(p, R) == IF p \in R THEN "refused" ELSE "terminating"

(* Mutant: the handlers stay subscribed.                                   *)
TerminatedSubscribed(S, R) ==
    [p \in DOMAIN processes |->
        IF p \in ProcessesOf(S) THEN [processes[p] EXCEPT !.status = Signalled(p, R)]
        ELSE processes[p]]

(* cleanupProcessHandles and SIGTERM for the processes of the sessions S.  *)
Terminated(S, R) ==
    [p \in DOMAIN processes |->
        IF p \in ProcessesOf(S)
        THEN [processes[p] EXCEPT !.status = Signalled(p, R), !.subscribed = FALSE]
        ELSE processes[p]]

(* Mutant: SIGTERM is not followed by SIGKILL.                             *)
KillWithoutEscalation(S) ==
    \E R \in SUBSET ProcessesOf(S) :
        /\ processes' = Terminated(S, R)
        /\ killTimers' = killTimers \ ProcessesOf(S)

(* killProcessWithEscalation.  A SIGTERM that throws is logged and nothing *)
(* follows it: the process goes on, and nobody listens to it any more.     *)
Kill(S) ==
    \E R \in SUBSET ProcessesOf(S) :
        /\ processes' = Terminated(S, R)
        /\ killTimers' = (killTimers \cup ProcessesOf(S)) \ R
-----------------------------------------------------------------------------
(* Operations.  An operation holds its thread's lock from its call to its  *)
(* end, and the check of the working directory before it changes nothing.  *)

Idle == [kind |-> "idle", terminals |-> {}, object |-> 0, deletes |-> {}]
Operation(kind, T, s, deletes) ==
    [kind |-> kind, terminals |-> T, object |-> s, deletes |-> deletes]

(* The terminals whose writes the operation awaits.                        *)
Ready(th) == \A t \in op[th].terminals : persist[t].waiting = "no"

Called(th, operation) ==
    /\ op[th] = Idle
    /\ ~disposed
    /\ requests < MaxRequests
    /\ requests' = requests + 1
    /\ op' = [op EXCEPT ![th] = operation]
    /\ UNCHANGED <<file, disposed, outputs, failures>>

Continue(th, kind, operation) ==
    /\ op[th].kind = kind
    /\ Ready(th)
    /\ op' = [op EXCEPT ![th] = operation]
    /\ UNCHANGED <<disposed, outputs, requests>>

Create(t, h) == objects' = Append(objects, Object(t, "starting", h))

(* open of a terminal without a session: what is being written of its      *)
(* history has to be in the file before it is read.                        *)
OpenUnknown(t) ==
    /\ sessions[t] = 0
    /\ Called(ThreadOf[t], Operation("read", {t}, 0, {}))
    /\ persist' = [persist EXCEPT ![t] = FlushPersistQueue(@)]
    /\ UNCHANGED <<table, pty, history>>

(* Mutant: a file that is not there is read.                               *)
HistoryInFile(t) == file[t]

(* readHistory: what the file holds, or nothing.                           *)
StoredHistory(t) == IF file[t] = Absent THEN 0 ELSE file[t]

(* open after readHistory: creation of the session, startSession up to the *)
(* spawn.                                                                  *)
ReadHistory(th) ==
    \E t \in op[th].terminals :
        LET map == [sessions EXCEPT ![t] = Len(objects) + 1]
        IN  /\ Continue(th, "read", Operation("spawn", {}, Len(objects) + 1, {}))
            /\ Create(t, StoredHistory(t))
            /\ Evict(map, Touched(t))
            /\ persist' = Kept(map, Touched(t))
            /\ deleted' = deleted \ {t}
            /\ UNCHANGED <<pty, file, failures>>

ReadFails(th) ==
    /\ failures < MaxFailures
    /\ failures' = failures + 1
    /\ Continue(th, "read", Idle)
    /\ UNCHANGED <<table, pty, persist, file, history>>

(* open of a session whose process exited or never started.                *)
OpenStopped(t) ==
    LET s == sessions[t]
    IN  /\ s # 0
        /\ objects[s].process = 0
        /\ Called(ThreadOf[t], Operation("spawn", {}, s, {}))
        /\ objects' = [objects EXCEPT ![s].status = "starting"]
        /\ Reorder(Touched(t))
        /\ UNCHANGED <<pty, persist, history>>

(* Mutant: the process is forgotten before it is stopped.                  *)
ResetWithoutKill(t) ==
    LET s == sessions[t]
    IN  /\ s # 0
        /\ Called(ThreadOf[t], Operation("start", {t}, s, {}))
        /\ objects' = [Stopped({s}) EXCEPT ![s].history = 0]
        /\ Evict(sessions, IF objects[s].process # 0 THEN Touched(t) ELSE older)
        /\ persist' = [Kept(sessions, IF objects[s].process # 0 THEN Touched(t) ELSE older)
                            EXCEPT ![t] = PersistHistory(@, 0)]
        /\ UNCHANGED <<pty, deleted>>

(* restart of a session, and open with another directory or environment:   *)
(* the process is stopped and the history emptied.                         *)
Reset(t) ==
    LET s == sessions[t]
        order == IF objects[s].process # 0 THEN Touched(t) ELSE older
    IN  /\ s # 0
        /\ Called(ThreadOf[t], Operation("start", {t}, s, {}))
        /\ Kill({s})
        /\ objects' = [Stopped({s}) EXCEPT ![s].history = 0]
        /\ Evict(sessions, order)
        /\ persist' = [Kept(sessions, order) EXCEPT ![t] = PersistHistory(@, 0)]
        /\ UNCHANGED deleted

RestartUnknown(t) ==
    LET s == Len(objects) + 1
        map == [sessions EXCEPT ![t] = s]
    IN  /\ sessions[t] = 0
        /\ Called(ThreadOf[t], Operation("start", {t}, s, {}))
        /\ Create(t, 0)
        /\ Evict(map, Touched(t))
        /\ persist' = [Kept(map, Touched(t)) EXCEPT ![t] = PersistHistory(@, 0)]
        /\ deleted' = deleted \ {t}
        /\ UNCHANGED pty

(* startSession up to the spawn.  The session has no process: it was       *)
(* stopped and the lock kept others from starting one.                     *)
StartSession(th) ==
    LET s == op[th].object
    IN  /\ Continue(th, "start", Operation("spawn", {}, s, {}))
        /\ objects' = [objects EXCEPT ![s].status = "starting"]
        /\ Reorder(TouchedBy(s))
        /\ UNCHANGED <<pty, persist, file, history, failures>>

SpawnSucceeds(th) ==
    LET s == op[th].object
    IN  /\ Continue(th, "spawn", Idle)
        /\ processes' = Append(processes,
                [session |-> s, status |-> "running", subscribed |-> TRUE])
        /\ objects' = [objects EXCEPT ![s].status = "running", ![s].process = Len(processes) + 1]
        /\ Reorder(older)
        /\ UNCHANGED <<killTimers, persist, file, history, failures>>

SpawnFails(th) ==
    LET s == op[th].object
    IN  /\ failures < MaxFailures
        /\ failures' = failures + 1
        /\ Continue(th, "spawn", Idle)
        /\ objects' = [objects EXCEPT ![s].status = "error"]
        /\ Evict(sessions, TouchedBy(s))
        /\ persist' = Kept(sessions, TouchedBy(s))
        /\ UNCHANGED <<pty, file, deleted>>

Clear(t) ==
    LET s == sessions[t]
    IN  /\ s # 0
        /\ Called(ThreadOf[t], Operation("clear", {t}, s, {}))
        /\ objects' = [objects EXCEPT ![s].history = 0]
        /\ Reorder(Touched(t))
        /\ persist' = [persist EXCEPT ![t] = PersistHistory(@, 0)]
        /\ UNCHANGED <<pty, history>>

ClearDone(th) ==
    /\ Continue(th, "clear", Idle)
    /\ UNCHANGED <<table, pty, persist, file, history, failures>>

(* close: sessions are stopped and removed one after the other, in the     *)
(* order of their creation.  Only the first stop can evict: its session    *)
(* leaves room for the next.                                               *)
Close(th, T, deletes) ==
    LET S == {sessions[t] : t \in T} \ {0}
        running == {s \in S : objects[s].process # 0}
        first == {s \in running : \A r \in running : s <= r}
        map == [t \in Terminals |->
                    IF t \in T /\ \A s \in first : sessions[t] < s THEN 0 ELSE sessions[t]]
        evicted == UNION {Evictees(map, Stopped(first), Touched(objects[s].terminal)) : s \in first}
    IN  /\ Called(th, Operation("close", T, 0, deletes))
        /\ Kill(S)
        /\ objects' = Stopped(S)
        /\ Drop(evicted, T, sessions, older)
        /\ persist' = [t \in Terminals |->
                LET r == IF t \in evicted THEN Forgotten(persist[t]) ELSE persist[t]
                IN  IF t \in T THEN FlushPersistQueue(r) ELSE r]
        /\ UNCHANGED deleted

CloseTerminal(t) == \E deletes \in {{}, {t}} : Close(ThreadOf[t], {t}, deletes)

CloseThread(th) ==
    LET ofThread == {t \in Terminals : ThreadOf[t] = th}
    IN  \E deletes \in {{}, ofThread} :
            Close(th, {t \in ofThread : sessions[t] # 0}, deletes)

(* After the flush; deleteHistory and deleteAllHistoryForThread only log   *)
(* what they could not remove.                                             *)
CloseDone(th) ==
    /\ Continue(th, "close", Idle)
    /\ file' = [t \in Terminals |-> IF t \in op[th].deletes THEN Absent ELSE file[t]]
    /\ deleted' = deleted \cup op[th].deletes
    /\ UNCHANGED <<table, pty, persist, orphans, unsaved, failures>>

DeletionFails(th) ==
    /\ failures < MaxFailures
    /\ failures' = failures + 1
    /\ op[th].deletes # {}
    /\ Continue(th, "close", Idle)
    /\ UNCHANGED <<table, pty, persist, file, history>>

(* The server shuts down: every timer is cleared, promises go on.          *)
Dispose ==
    LET S == {sessions[t] : t \in Terminals} \ {0}
    IN  /\ ~disposed
        /\ disposed' = TRUE
        /\ sessions' = [t \in Terminals |-> 0]
        /\ objects' = Stopped(S)
        /\ older' = {}
        /\ \E R \in SUBSET ProcessesOf(S) : processes' = Terminated(S, R)
        /\ killTimers' = {}
        /\ persist' = [t \in Terminals |-> Forgotten(persist[t])]
        /\ UNCHANGED <<file, op, history, bounds>>
-----------------------------------------------------------------------------
(* Events of processes and timers.                                         *)

(* onProcessData: the history is queued under the session's key, whether   *)
(* or not the session is still the one in the map.                         *)
Output(p) ==
    LET s == processes[p].session
        t == objects[s].terminal
    IN  /\ processes[p].subscribed
        /\ outputs < MaxOutputs
        /\ outputs' = outputs + 1
        /\ objects' = [objects EXCEPT ![s].history = outputs']
        /\ persist' = [persist EXCEPT ![t] = QueuePersist(@, outputs')]
        /\ UNCHANGED <<sessions, older, pty, file, op, disposed, history, requests, failures>>

(* Mutant: nothing is evicted.                                             *)
ExitWithoutEviction(p) ==
    LET s == processes[p].session
    IN  /\ processes[p].subscribed
        /\ processes' = [processes EXCEPT ![p].status = "dead", ![p].subscribed = FALSE]
        /\ killTimers' = killTimers \ {p}
        /\ objects' = [objects EXCEPT ![s].status = "exited", ![s].process = 0]
        /\ Reorder(TouchedBy(s))
        /\ UNCHANGED <<persist, file, op, disposed, history, bounds>>

(* onProcessExit.                                                          *)
Exit(p) ==
    LET s == processes[p].session
    IN  /\ processes[p].subscribed
        /\ processes' = [processes EXCEPT ![p].status = "dead", ![p].subscribed = FALSE]
        /\ killTimers' = killTimers \ {p}
        /\ objects' = [objects EXCEPT ![s].status = "exited", ![s].process = 0]
        /\ Evict(sessions, TouchedBy(s))
        /\ persist' = Kept(sessions, TouchedBy(s))
        /\ UNCHANGED <<file, op, disposed, deleted, bounds>>

(* A process that was stopped exits; nobody listens any more.              *)
ExitUnnoticed(p) ==
    /\ processes[p].status \in {"terminating", "refused"}
    /\ processes' = [processes EXCEPT ![p].status = "dead"]
    /\ UNCHANGED <<table, killTimers, persist, file, op, disposed, history, bounds>>

(* SIGKILL after processKillGraceMs.  It may throw, which is only logged.  *)
KillTimerFires(p) ==
    /\ p \in killTimers
    /\ killTimers' = killTimers \ {p}
    /\ \E left \in {"dead", "refused"} :
          /\ processes[p].status = "dead" => left = "dead"
          /\ processes' = [processes EXCEPT ![p].status = left]
    /\ UNCHANGED <<table, persist, file, op, disposed, history, bounds>>

(* A flush may have taken the pending history before the timer.            *)
TimerExpired(r) ==
    IF r.pending = Absent
    THEN [r EXCEPT !.timer = FALSE]
    ELSE [Enqueued(r, r.pending, FALSE) EXCEPT !.timer = FALSE, !.pending = Absent]

PersistTimerFires(t) ==
    /\ persist[t].timer
    /\ persist' = [persist EXCEPT ![t] = TimerExpired(@)]
    /\ UNCHANGED <<table, pty, file, op, disposed, history, bounds>>

(* The write at the head of the chain of t is done.                        *)
Dequeued(r) ==
    LET rest == [r EXCEPT !.chain = Tail(r.chain)]
    IN  IF Head(r.chain).awaited THEN Resumed(rest) ELSE rest

(* The same for the first of the chains an eviction detached.              *)
DequeuedDetached(r) ==
    LET chain == Head(r.detached)
        rest == [r EXCEPT !.detached = (IF Len(chain) = 1 THEN <<>> ELSE <<Tail(chain)>>)
                                            \o Tail(r.detached)]
    IN  IF Head(chain).awaited THEN Resumed(rest) ELSE rest

WriteHistory(t) ==
    /\ \/ /\ persist[t].chain # <<>>
          /\ file' = [file EXCEPT ![t] = Head(persist[t].chain).history]
          /\ persist' = [persist EXCEPT ![t] = Dequeued(@)]
       \/ /\ persist[t].detached # <<>>
          /\ file' = [file EXCEPT ![t] = Head(Head(persist[t].detached)).history]
          /\ persist' = [persist EXCEPT ![t] = DequeuedDetached(@)]
    /\ UNCHANGED <<table, pty, op, disposed, history, bounds>>

(* Mutant: a failed write breaks the chain.                                *)
WriteBreaksChain(t) ==
    /\ failures < MaxFailures
    /\ failures' = failures + 1
    /\ persist[t].chain # <<>>
    /\ persist' = [persist EXCEPT ![t].chain = Tail(@)]
    /\ unsaved' = unsaved \cup {t}
    /\ UNCHANGED <<table, pty, file, op, disposed, orphans, deleted, outputs, requests>>

(* A failed write is logged, and whoever awaits it continues.              *)
WriteFails(t) ==
    /\ failures < MaxFailures
    /\ failures' = failures + 1
    /\ persist[t].chain # <<>>
    /\ persist' = [persist EXCEPT ![t] = Dequeued(@)]
    /\ unsaved' = unsaved \cup {t}
    /\ UNCHANGED <<table, pty, file, op, disposed, orphans, deleted, outputs, requests>>
-----------------------------------------------------------------------------
Init ==
    /\ objects = <<>> /\ sessions = [t \in Terminals |-> 0] /\ older = {}
    /\ processes = <<>> /\ killTimers = {}
    /\ persist = [t \in Terminals |-> NoPersistence]
    /\ file = [t \in Terminals |-> Absent]
    /\ op = [th \in Threads |-> Idle] /\ disposed = FALSE
    /\ orphans = {} /\ unsaved = {} /\ deleted = {}
    /\ outputs = 0 /\ requests = 0 /\ failures = 0

Call ==
    \/ \E t \in Terminals :
          OpenUnknown(t) \/ OpenStopped(t) \/ Reset(t) \/ RestartUnknown(t) \/ Clear(t)
             \/ CloseTerminal(t)
    \/ \E th \in Threads : CloseThread(th)

(* What the runtime still does for an operation that was called.           *)
Proceed(th) ==
    \/ ReadHistory(th) \/ ReadFails(th) \/ StartSession(th)
    \/ SpawnSucceeds(th) \/ SpawnFails(th)
    \/ ClearDone(th) \/ CloseDone(th) \/ DeletionFails(th)

Persist(t) == PersistTimerFires(t) \/ WriteHistory(t) \/ WriteFails(t)

Next ==
    \/ Call \/ Dispose
    \/ \E th \in Threads : Proceed(th)
    \/ \E t \in Terminals : Persist(t)
    \/ \E p \in DOMAIN processes : Output(p) \/ Exit(p) \/ ExitUnnoticed(p) \/ KillTimerFires(p)

(* The event loop keeps running timers and settling promises of the file   *)
(* system and the pty adapter; no process has to exit or to print.         *)
Spec ==
    /\ Init /\ [][Next]_vars
    /\ \A th \in Threads : WF_vars(Proceed(th))
    /\ \A t \in Terminals : WF_vars(Persist(t))
    /\ WF_vars(\E p \in DOMAIN processes : KillTimerFires(p))
=============================================================================
