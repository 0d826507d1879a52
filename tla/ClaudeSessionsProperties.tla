----------------------- MODULE ClaudeSessionsProperties -----------------------
(***************************************************************************)
(* What must be true of the Claude sessions of a thread.                   *)
(***************************************************************************)
EXTENDS ClaudeSessions

(* What turn.started announces, turn.completed ends once: by its result,   *)
(* the next turn, a stop or the end of the stream.  A turn is open only    *)
(* while its context shows it, and no session exits with one; but a turn   *)
(* that a background agent began while another was sent is forgotten, and  *)
(* one may start when its session has just been stopped (completeTurn,     *)
(* sendTurn, handleStreamExit).                                            *)
TurnsEndOnce ==
    \A t \in DOMAIN turns \ replaced :
        LET context == contexts[turns[t].context]
        IN  /\ turns[t].ends = IF context.turn = t THEN 0 ELSE 1
            /\ context.exited /\ ~turns[t].late => turns[t].ends = 1

(* A request is resolved once, or by the stop as well as by its callback.  *)
(* While it is pending its session is the one that answers reach, unless   *)
(* another session was started over it; and no approval outlives its       *)
(* session, unless it was asked for while that was being stopped           *)
(* (canUseTool, respondToRequest, stopSessionInternal).                    *)
RequestsAreSettled ==
    \A r \in DOMAIN requests :
        LET request == requests[r]
            context == contexts[request.context]
        IN  /\ request.resolved <= IF request.cancelled THEN 2 ELSE 1
            /\ request.state = "pending" /\ ~context.stopped /\ ~overlapped =>
                  entry = request.context
            /\ request.kind = "approval" /\ context.exited /\ ~request.late =>
                  request.state # "pending"

Open(t) ==
    /\ t \notin replaced \cup undelivered
    /\ turns[t].kind = "user" /\ turns[t].ends = 0

Answered == \A r \in DOMAIN requests : requests[r].state # "pending"

(* Turns whose message was taken do not stay open, whatever becomes of the *)
(* process, of earlier turns and of background agents, if no request waits *)
(* for the user for ever (runSdkStream, handleStreamExit).                 *)
TurnsEnd == []<>Answered => []<>(\A t \in DOMAIN turns : ~Open(t))
=============================================================================
