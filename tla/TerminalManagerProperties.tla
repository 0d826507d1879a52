---------------------- MODULE TerminalManagerProperties ----------------------
(***************************************************************************)
(* What must be true of the server's terminals.                            *)
(***************************************************************************)
EXTENDS TerminalManager

Writes == [history : Nat, awaited : BOOLEAN]

Persistence ==
    [pending : Nat \cup {Absent}, timer : BOOLEAN, chain : Seq(Writes),
     detached : Seq(Seq(Writes)), waiting : {"no", "write", "tail", "persist"}]

Objects ==
    [terminal : Terminals, status : {"starting", "running", "exited", "error"},
     process : Nat, history : Nat]

Processes ==
    [session : Nat, status : {"running", "terminating", "refused", "dead"},
     subscribed : BOOLEAN]

Operations ==
    [kind : {"idle", "read", "start", "spawn", "clear", "close"}, terminals : SUBSET Terminals,
     object : Nat, deletes : SUBSET Terminals]

(* The state has the declared shape; the map and the operations refer to   *)
(* objects that exist.                                                     *)
TypeOK ==
    /\ objects \in Seq(Objects)
    /\ sessions \in [Terminals -> 0..Len(objects)]
    /\ older \subseteq Terminals \X Terminals
    /\ processes \in Seq(Processes)
    /\ \A p \in DOMAIN processes : processes[p].session \in DOMAIN objects
    /\ killTimers \subseteq DOMAIN processes
    /\ persist \in [Terminals -> Persistence]
    /\ file \in [Terminals -> Nat \cup {Absent}]
    /\ op \in [Threads -> Operations]
    /\ \A th \in Threads : op[th].kind \in {"start", "spawn"} => op[th].object \in DOMAIN objects
    /\ disposed \in BOOLEAN
    /\ orphans \subseteq DOMAIN objects
    /\ unsaved \subseteq Terminals /\ deleted \subseteq Terminals
    /\ outputs \in 0..MaxOutputs /\ requests \in 0..MaxRequests /\ failures \in 0..MaxFailures

(* A process is heard by the one session that owns it, and a session has a *)
(* process exactly while it is running: output or exit of a process that   *)
(* was replaced never reaches the session (stopProcess, startSession).     *)
OwnersAgree ==
    /\ \A s \in DOMAIN objects :
          /\ objects[s].status = "running" <=> objects[s].process # 0
          /\ objects[s].process # 0 =>
                /\ objects[s].process \in DOMAIN processes
                /\ processes[objects[s].process].session = s
    /\ \A p \in DOMAIN processes :
          /\ processes[p].subscribed <=> processes[p].status = "running"
          /\ processes[p].subscribed => objects[processes[p].session].process = p

(* A process that has neither ended nor been told to can be found through  *)
(* the map, so that close, restart and dispose reach it.  Two kinds are    *)
(* lost: those of sessions that were evicted while an operation was        *)
(* starting them (evictInactiveSessionsIfNeeded: all but "running" ones    *)
(* are inactive), and those a signal to which threw, as every signal does  *)
(* where the platform has none (killProcessWithEscalation).                *)
NoProcessIsLost ==
    \A p \in DOMAIN processes :
        LET s == processes[p].session
        IN  \/ processes[p].status \in {"terminating", "dead"}
            \/ objects[s].process = p /\ sessions[objects[s].terminal] = s
            \/ disposed \/ s \in orphans \/ processes[p].status = "refused"

(* Not more inactive sessions are retained than allowed, on whichever path *)
(* a session becomes inactive (evictInactiveSessionsIfNeeded).             *)
InactiveSessionsAreFew == Cardinality(Inactive(sessions, objects)) <= MaxRetained

AtRest(t) == ~Unfinished(persist[t]) /\ op[ThreadOf[t]] = Idle

(* When nothing is left to be written, the file holds the history of the   *)
(* session, through restarts, clears and reopening: no older history is    *)
(* written over it or read in its place, and one that close removed does   *)
(* not come back by a late write (persistHistory, flushPersistQueue,       *)
(* close).  A failed write loses history, and so does an eviction that     *)
(* comes before it is written.                                             *)
HistoryIsSaved ==
    /\ \A t \in Terminals :
          AtRest(t) /\ sessions[t] # 0 /\ t \notin unsaved =>
              IF file[t] = Absent THEN objects[sessions[t]].history = 0
              ELSE file[t] = objects[sessions[t]].history
    /\ \A t \in deleted \ unsaved : ~disposed => file[t] = Absent

(* Once nothing more is called, every operation ends and releases the lock *)
(* of its thread, also when writes fail and sessions are evicted meanwhile *)
(* (runWithThreadLock).                                                    *)
OperationsFinish == <>[](\A th \in Threads : op[th] = Idle)

(* Then every process that was told to end does, though it may ignore      *)
(* SIGTERM, unless the server shuts down meanwhile or a signal to the      *)
(* process throws: then nothing more is tried (killProcessWithEscalation). *)
StoppedProcessesDie ==
    <>[](disposed \/ \A p \in DOMAIN processes :
                        processes[p].status \in {"running", "dead", "refused"})
=============================================================================
