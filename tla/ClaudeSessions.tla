---------------------------- MODULE ClaudeSessions ----------------------------
(***************************************************************************)
(* The Claude sessions of one thread: ClaudeAdapter's contexts, turns and  *)
(* requests to the user, over the stream of messages of the Claude SDK.    *)
(*                                                                         *)
(* The callers' operations come one at a time, from the reactor's worker,  *)
(* and wait for the SDK in some places.  Meanwhile the stream's fiber      *)
(* handles messages and canUseTool callbacks wait for decisions.  What     *)
(* lies between two awaits is one step.                                    *)
(*                                                                         *)
(* Contexts, requests and turns are numbered as they come into being.      *)
(* What a turn says, its tools and its usage are left out; so are the      *)
(* resume cursor and requests that are decided without the user.           *)
(***************************************************************************)
EXTENDS Integers, Sequences

CONSTANTS
    MaxSessions,    \* bound on the sessions started
    MaxSends,       \* bound on the turns sent
    MaxAsides,      \* bound on what background agents say
    MaxRequests,    \* bound on the approvals and questions the SDK asks for
    MaxFailures     \* bound on refused calls, unreadable attachments and dying processes

ASSUME ClaudeAssumption ==
    /\ MaxSessions \in Nat /\ MaxSends \in Nat /\ MaxAsides \in Nat
    /\ MaxRequests \in Nat /\ MaxFailures \in Nat

VARIABLES
    contexts,       \* every ClaudeSessionContext there ever was
    entry,          \* the one in the sessions map, or 0
    op,             \* the operation that waits
    sdk,            \* the SDK's side of each context
    requests,       \* every approval and question asked for
    turns,          \* every turn announced with turn.started
    \* history
    replaced,       \* turns another one took the place of while it was sent
    undelivered,    \* turns whose message never reached the SDK
    overlapped,     \* a session was started over a live one
    sends, asides, failures

history == <<replaced, undelivered, overlapped>>
bounds == <<sends, asides, failures>>
vars == <<contexts, entry, op, sdk, requests, turns, history, bounds>>

Idle == [at |-> "idle", context |-> 0, turn |-> 0]

Init ==
    /\ contexts = <<>> /\ entry = 0 /\ op = Idle /\ sdk = <<>>
    /\ requests = <<>> /\ turns = <<>>
    /\ replaced = {} /\ undelivered = {} /\ overlapped = FALSE
    /\ sends = 0 /\ asides = 0 /\ failures = 0

Live(c) == c \in DOMAIN contexts /\ ~contexts[c].stopped
Fails == failures < MaxFailures /\ failures' = failures + 1 /\ UNCHANGED <<sends, asides>>
-----------------------------------------------------------------------------
(* Turns: a context has at most one, which completeTurn ends.              *)

Turn(c, kind) == [context |-> c, kind |-> kind, ends |-> 0, late |-> contexts[c].stopped]

EndTurn(c) ==
    turns' = IF contexts[c].turn = 0 THEN turns
             ELSE [turns EXCEPT ![contexts[c].turn].ends = @ + 1]

(* Mutant: the context keeps its turn.                                     *)
CompleteTurnAndKeepIt(c) == EndTurn(c) /\ UNCHANGED contexts

CompleteTurn(c) == EndTurn(c) /\ contexts' = [contexts EXCEPT ![c].turn = 0]

Announce(c, kind) ==
    /\ turns' = Append(turns, Turn(c, kind))
    /\ contexts' = [contexts EXCEPT ![c].turn = Len(turns')]
-----------------------------------------------------------------------------
(* Requests: canUseTool publishes the request, waits for its decision and  *)
(* publishes that it is resolved.                                          *)

Pending(c) == {r \in DOMAIN requests : requests[r].context = c /\ requests[r].state = "pending"}

Decided(R) ==
    [r \in DOMAIN requests |->
        IF r \in R THEN [requests[r] EXCEPT !.state = "decided"] ELSE requests[r]]

(* The SDK's signal: all pending callbacks of the context are aborted.     *)
Abort(c) == requests' = Decided(Pending(c))

Approvals(c) == {r \in Pending(c) : requests[r].kind = "approval"}

(* Mutant: the callbacks are left to the SDK.                              *)
CancelNothing(c) == UNCHANGED requests

(* A stop decides the approvals, and publishes that they are resolved as   *)
(* their callbacks will; questions are left to the SDK.                    *)
CancelApprovals(c) ==
    requests' = [r \in DOMAIN requests |->
        IF r \in Approvals(c)
        THEN [requests[r] EXCEPT !.state = "decided", !.cancelled = TRUE, !.resolved = @ + 1]
        ELSE requests[r]]

CanUseTool(c) ==
    /\ ~sdk[c].ended /\ sdk[c].answering
    /\ Len(requests) < MaxRequests
    /\ \E kind \in {"approval", "question"} :
        requests' = Append(requests,
            [context |-> c, kind |-> kind, state |-> "pending", resolved |-> 0,
             cancelled |-> FALSE, late |-> contexts[c].stopped])
    /\ UNCHANGED <<contexts, entry, op, sdk, turns, history, bounds>>

Resume(r) ==
    /\ requests[r].state = "decided"
    /\ requests' = [requests EXCEPT ![r].state = "settled", ![r].resolved = @ + 1]
    /\ UNCHANGED <<contexts, entry, op, sdk, turns, history, bounds>>
-----------------------------------------------------------------------------
(* The SDK and its process.  It answers one prompt at a time, with what it *)
(* says and a result; a prompt that comes meanwhile is answered next or    *)
(* taken into the answer.                                                  *)

Unasked == [prompts |-> 0, answering |-> FALSE, said |-> FALSE, out |-> <<>>, ended |-> FALSE]

Sdk(c, next) ==
    /\ sdk' = [sdk EXCEPT ![c] = next]
    /\ UNCHANGED <<contexts, entry, op, requests, turns, history>>

TakePrompt(c) ==
    /\ ~sdk[c].ended /\ sdk[c].prompts > 0
    /\ \/ ~sdk[c].answering /\ Sdk(c, [sdk[c] EXCEPT !.prompts = @ - 1, !.answering = TRUE,
                                                     !.said = FALSE])
       \/ sdk[c].answering /\ Sdk(c, [sdk[c] EXCEPT !.prompts = @ - 1])
    /\ UNCHANGED bounds

Say(c) ==
    /\ ~sdk[c].ended /\ sdk[c].answering /\ ~sdk[c].said
    /\ Sdk(c, [sdk[c] EXCEPT !.said = TRUE, !.out = Append(@, "assistant")])
    /\ UNCHANGED bounds

Answer(c) ==
    /\ ~sdk[c].ended /\ sdk[c].answering
    /\ \A r \in DOMAIN requests : requests[r].context = c => requests[r].state = "settled"
    /\ Sdk(c, [sdk[c] EXCEPT !.answering = FALSE, !.out = Append(@, "result")])
    /\ UNCHANGED bounds

(* A background agent speaks, with or without a result.                    *)
SayAside(c) ==
    /\ ~sdk[c].ended /\ ~sdk[c].answering /\ asides < MaxAsides
    /\ \E said \in {<<"assistant">>, <<"assistant", "result">>} :
        Sdk(c, [sdk[c] EXCEPT !.out = @ \o said])
    /\ asides' = asides + 1 /\ UNCHANGED <<sends, failures>>

(* The process dies; the callbacks it waits for may be aborted.            *)
ProcessDies(c) ==
    /\ ~sdk[c].ended /\ Fails
    /\ sdk' = [sdk EXCEPT ![c].ended = TRUE]
    /\ Abort(c) \/ UNCHANGED requests
    /\ UNCHANGED <<contexts, entry, op, turns, history>>
-----------------------------------------------------------------------------
(* The fiber of the stream.                                                *)

Receive(c, message) ==
    /\ Live(c) /\ sdk[c].out # <<>> /\ Head(sdk[c].out) = message
    /\ sdk' = [sdk EXCEPT ![c].out = Tail(@)]
    /\ UNCHANGED <<entry, op, requests, history, bounds>>

HandleAssistantMessage(c) ==
    /\ Receive(c, "assistant")
    /\ IF contexts[c].turn = 0 THEN Announce(c, "synthetic") ELSE UNCHANGED <<contexts, turns>>

HandleResultMessage(c) == Receive(c, "result") /\ CompleteTurn(c)

(* Mutant: the turn of a session whose stream ended is left open.          *)
HandleStreamExitOnly(c) ==
    /\ Live(c) /\ sdk[c].ended /\ sdk[c].out = <<>>
    /\ contexts' = [contexts EXCEPT ![c].stopped = TRUE, ![c].exited = TRUE]
    /\ CancelApprovals(c)
    /\ entry' = 0
    /\ UNCHANGED <<op, sdk, turns, history, bounds>>

(* stopSessionInternal follows without an await; it deletes the thread's   *)
(* entry, whichever context that is.                                       *)
HandleStreamExit(c) ==
    /\ Live(c) /\ sdk[c].ended /\ sdk[c].out = <<>>
    /\ EndTurn(c)
    /\ contexts' = [contexts EXCEPT ![c] = [turn |-> 0, stopped |-> TRUE, exited |-> TRUE]]
    /\ CancelApprovals(c)
    /\ entry' = 0
    /\ UNCHANGED <<op, sdk, history, bounds>>
-----------------------------------------------------------------------------
(* The operations.  requireSession: the entry's context is not stopped.    *)

Called == op = Idle /\ entry # 0 /\ Live(entry)
Wait(at, c, t) == op' = [at |-> at, context |-> c, turn |-> t]

(* A session that lives is neither stopped nor waited for.                 *)
StartSession ==
    /\ op = Idle /\ Len(contexts) < MaxSessions
    /\ contexts' = Append(contexts, [turn |-> 0, stopped |-> FALSE, exited |-> FALSE])
    /\ sdk' = Append(sdk, Unasked)
    /\ entry' = Len(contexts')
    /\ overlapped' = (overlapped \/ Live(entry))
    /\ UNCHANGED <<op, requests, turns, replaced, undelivered, bounds>>

(* The turn in progress, a user's or a synthetic one, is ended first; then *)
(* the SDK's model and permission mode are set.                            *)
SendTurn ==
    /\ Called /\ sends < MaxSends
    /\ sends' = sends + 1
    /\ CompleteTurn(entry)
    /\ Wait("model", entry, 0)
    /\ UNCHANGED <<entry, sdk, requests, history, asides, failures>>

BeginTurn ==
    /\ op.at = "model"
    /\ Announce(op.context, "user")
    /\ replaced' = replaced \cup ({contexts[op.context].turn} \ {0})
    /\ Wait("message", op.context, Len(turns'))
    /\ UNCHANGED <<entry, sdk, requests, undelivered, overlapped, bounds>>

SetModelFails ==
    /\ op.at = "model" /\ Fails /\ op' = Idle
    /\ UNCHANGED <<contexts, entry, sdk, requests, turns, history>>

(* The attachments are read and the message is offered; the queue of a     *)
(* stopped session takes nothing.                                          *)
OfferMessage ==
    /\ op.at = "message" /\ op' = Idle
    /\ IF Live(op.context)
       THEN sdk' = [sdk EXCEPT ![op.context].prompts = @ + 1] /\ UNCHANGED undelivered
       ELSE undelivered' = undelivered \cup {op.turn} /\ UNCHANGED sdk
    /\ UNCHANGED <<contexts, entry, requests, turns, replaced, overlapped, bounds>>

ReadAttachmentFails ==
    /\ op.at = "message" /\ Fails /\ op' = Idle
    /\ undelivered' = undelivered \cup {op.turn}
    /\ UNCHANGED <<contexts, entry, sdk, requests, turns, replaced, overlapped>>

(* The SDK aborts its callbacks and gives a result for what it was doing.  *)
InterruptTurn ==
    /\ Called /\ ~sdk[entry].ended /\ sdk[entry].answering
    /\ Abort(entry)
    /\ sdk' = [sdk EXCEPT ![entry].answering = FALSE, ![entry].out = Append(@, "result")]
    /\ UNCHANGED <<contexts, entry, op, turns, history, bounds>>

(* respondToRequest and respondToUserInput.                                *)
Respond ==
    /\ Called
    /\ \E r \in Pending(entry) : requests' = Decided({r})
    /\ UNCHANGED <<contexts, entry, op, sdk, turns, history, bounds>>

StopSession ==
    /\ Called
    /\ EndTurn(entry)
    /\ contexts' = [contexts EXCEPT ![entry].turn = 0, ![entry].stopped = TRUE]
    /\ CancelApprovals(entry)
    /\ Wait("close", entry, 0)
    /\ UNCHANGED <<entry, sdk, history, bounds>>

(* The fiber was interrupted; the query is closed.                         *)
Close ==
    /\ op.at = "close" /\ op' = Idle
    /\ sdk' = [sdk EXCEPT ![op.context].ended = TRUE]
    /\ Abort(op.context) \/ UNCHANGED requests
    /\ contexts' = [contexts EXCEPT ![op.context].exited = TRUE]
    /\ entry' = 0
    /\ UNCHANGED <<turns, history, bounds>>
-----------------------------------------------------------------------------
Operations ==
    \/ StartSession \/ SendTurn \/ SetModelFails \/ ReadAttachmentFails
    \/ InterruptTurn \/ Respond \/ StopSession

Proceed == BeginTurn \/ OfferMessage \/ Close

StreamFiber(c) == HandleAssistantMessage(c) \/ HandleResultMessage(c) \/ HandleStreamExit(c)

Work(c) == TakePrompt(c) \/ Answer(c)

Next ==
    \/ Operations \/ Proceed
    \/ \E c \in DOMAIN contexts :
        \/ StreamFiber(c) \/ Work(c)
        \/ CanUseTool(c) \/ Say(c) \/ SayAside(c) \/ ProcessDies(c)
    \/ \E r \in DOMAIN requests : Resume(r)

Spec ==
    /\ Init /\ [][Next]_vars
    /\ WF_vars(Proceed)
    /\ \A c \in 1..MaxSessions :
        /\ WF_vars(c \in DOMAIN contexts /\ StreamFiber(c))
        /\ WF_vars(c \in DOMAIN contexts /\ Work(c))
    /\ \A r \in 1..MaxRequests : WF_vars(r \in DOMAIN requests /\ Resume(r))
=============================================================================
