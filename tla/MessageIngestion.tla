--------------------------- MODULE MessageIngestion ---------------------------
(***************************************************************************)
(* The text of assistant messages on its way from the provider's events to *)
(* the read model: the part of ProviderRuntimeIngestion that remembers,    *)
(* buffers and finalizes messages, and the DrainableWorker it runs in.     *)
(*                                                                         *)
(* The worker handles one input at a time.  The caches are only used by    *)
(* the worker, so its steps are the commands it dispatches, each of which  *)
(* may fail and end the handling of its event.  What the provider says is  *)
(* numbered by chunks; the buffer's limit counts chunks, not characters.   *)
(* The delivery mode is one for the whole server, set by the last turn     *)
(* start of any thread.  The two hours after which caches forget are left  *)
(* out.                                                                    *)
(***************************************************************************)
EXTENDS Integers, Sequences, SequencesExt, FiniteSets

CONSTANTS
    Messages,       \* the assistant messages
    Turns,          \* the turns, each of a thread of its own
    TurnOf,         \* the turn of each message
    MaxBuffered,    \* MAX_BUFFERED_ASSISTANT_CHARS, in chunks
    MaxChunks,      \* bound on the chunks of a message
    MaxInputs,      \* bound on the inputs waiting for the worker
    MaxStarts,      \* bound on the turn starts of other threads
    MaxFailures     \* bound on the dispatches that fail

ASSUME MessageAssumption ==
    /\ TurnOf \in [Messages -> Turns]
    /\ MaxBuffered \in Nat /\ MaxChunks \in Nat \ {0} /\ MaxInputs \in Nat
    /\ MaxStarts \in Nat /\ MaxFailures \in Nat

VARIABLES
    \* the provider
    said,           \* the chunks of each message sent as deltas
    whole,          \* the messages whose completion carried a text of its own
    ended,          \* how each turn ended
    \* the worker
    queue,          \* the inputs of the worker
    outstanding,    \* its counter of unfinished inputs
    task,           \* the input being handled
    \* ingestion
    delivery,       \* assistantDeliveryModeRef
    remembered,     \* turnMessageIdsByTurnKey
    buffer,         \* bufferedAssistantTextByMessageId
    message,        \* thread.messages in the read model
    \* history
    lost,           \* messages a failed dispatch or an exit took text from
    unfinished,     \* messages a failed dispatch left unfinished at their turn's end
    overtaken,      \* messages with text delivered before buffered text
    starts, failures

provider == <<said, whole, ended>>
worker == <<queue, outstanding, task>>
history == <<lost, unfinished, overtaken>>
vars == <<provider, worker, delivery, remembered, buffer, message, history, starts, failures>>

NoMessage == [text |-> <<>>, state |-> "absent"]
Input(type, m, turn, text) == [type |-> type, message |-> m, turn |-> turn, text |-> text]
Delta(m, text) == [do |-> "delta", message |-> m, text |-> text]
Complete(m) == [do |-> "complete", message |-> m, text |-> <<>>]

(* What is left to do of an input: messages to finalize with the text to   *)
(* fall back on, commands to dispatch.                                     *)
Handling(input, messages, fallback, commands) ==
    [input |-> input, rest |-> messages, fallback |-> fallback, commands |-> commands]
Idle == Handling([type |-> "none"], {}, <<>>, <<>>)

MessagesOf(t) == {m \in Messages : TurnOf[m] = t}

Init ==
    /\ said = [m \in Messages |-> 0] /\ whole = {}
    /\ ended = [t \in Turns |-> "no"]
    /\ queue = <<>> /\ outstanding = 0 /\ task = Idle
    /\ delivery = "buffered"
    /\ remembered = [t \in Turns |-> {}]
    /\ buffer = [m \in Messages |-> <<>>]
    /\ message = [m \in Messages |-> NoMessage]
    /\ lost = {} /\ unfinished = {} /\ overtaken = {}
    /\ starts = 0 /\ failures = 0

-----------------------------------------------------------------------------
(* What reaches the worker.                                                *)

(* enqueue: offered and counted in one transaction.                        *)
Enqueue(input) ==
    /\ Len(queue) < MaxInputs
    /\ queue' = Append(queue, input)
    /\ outstanding' = outstanding + 1
    /\ UNCHANGED <<task, delivery, remembered, buffer, message, history, failures>>

(* The adapter sends a piece of a message.                                 *)
Say(m) ==
    /\ ended[TurnOf[m]] = "no" /\ m \notin whole /\ said[m] < MaxChunks
    /\ said' = [said EXCEPT ![m] = @ + 1]
    /\ Enqueue(Input("delta", m, TurnOf[m], <<said[m] + 1>>))
    /\ UNCHANGED <<whole, ended, starts>>

FullText(m) == [i \in 1..(IF said[m] = 0 THEN 1 ELSE said[m]) |-> i]

(* The adapter completes a message, with its text or without.  A message   *)
(* may come in its completion only.                                        *)
Finish(m, text) ==
    /\ ended[TurnOf[m]] = "no" /\ m \notin whole
    /\ whole' = whole \cup {m}
    /\ said' = [said EXCEPT ![m] = IF text = <<>> THEN @ ELSE Len(text)]
    /\ Enqueue(Input("item", m, TurnOf[m], text))
    /\ UNCHANGED <<ended, starts>>

(* The turn is over, whether or not its messages were completed.           *)
EndTurn(t, how) ==
    /\ ended[t] = "no"
    /\ ended' = [ended EXCEPT ![t] = how]
    /\ Enqueue(Input(how, NoMessage, t, <<>>))
    /\ UNCHANGED <<said, whole, starts>>

(* thread.turn-start-requested, of any thread.                             *)
StartTurn(m) ==
    /\ starts < MaxStarts /\ starts' = starts + 1
    /\ Enqueue([type |-> "mode", mode |-> m])
    /\ UNCHANGED provider

-----------------------------------------------------------------------------
(* The worker.                                                             *)

Remember(m) == remembered' = [remembered EXCEPT ![TurnOf[m]] = @ \cup {m}]

(* Mutant: the input no longer counts once the worker has taken it.        *)
BeginAndCount(input, messages, fallback, commands) ==
    /\ task' = Handling(input, messages, fallback, commands)
    /\ queue' = Tail(queue)
    /\ outstanding' = outstanding - 1
    /\ UNCHANGED <<provider, message, starts, failures>>

Begin(input, messages, fallback, commands) ==
    /\ task' = Handling(input, messages, fallback, commands)
    /\ queue' = Tail(queue)
    /\ UNCHANGED <<provider, outstanding, message, starts, failures>>

(* Mutant: the buffer is delivered and kept.                               *)
TakeDeltaKeepingBuffer(m, text) ==
    /\ Remember(m)
    /\ LET next == buffer[m] \o text
           keep == delivery = "buffered" /\ Len(next) <= MaxBuffered
       IN  /\ buffer' = [buffer EXCEPT ![m] = IF delivery = "buffered" THEN next ELSE @]
           /\ Begin(Head(queue), {}, <<>>, IF keep THEN <<>> ELSE <<Delta(m, next)>>)
    /\ UNCHANGED <<delivery, history>>

(* A delta is buffered, and the whole buffer delivered when it would grow  *)
(* past its limit; or it is delivered at once.                             *)
TakeDelta(m, text) ==
    /\ Remember(m)
    /\ LET next == buffer[m] \o text
           keep == delivery = "buffered" /\ Len(next) <= MaxBuffered
           out == IF keep THEN <<>> ELSE IF delivery = "buffered" THEN next ELSE text
       IN  /\ buffer' = [buffer EXCEPT ![m] =
                            IF keep THEN next ELSE IF delivery = "buffered" THEN <<>> ELSE @]
           /\ overtaken' = IF delivery = "streaming" /\ buffer[m] # <<>>
                           THEN overtaken \cup {m} ELSE overtaken
           /\ Begin(Head(queue), {}, <<>>, IF keep THEN <<>> ELSE <<Delta(m, out)>>)
    /\ UNCHANGED <<delivery, lost, unfinished>>

(* The completion's text is for a message the read model has no text of.   *)
TakeCompletion(m, text) ==
    /\ Remember(m)
    /\ Begin(Head(queue), {m}, IF message[m].text = <<>> THEN text ELSE <<>>, <<>>)
    /\ UNCHANGED <<delivery, buffer, history>>

(* Mutant: a completed turn finalizes only messages with buffered text.    *)
TakeTurnCompletedIfBuffered(t) ==
    /\ Begin(Head(queue), {m \in remembered[t] : buffer[m] # <<>>}, <<>>, <<>>)
    /\ UNCHANGED <<delivery, remembered, buffer, history>>

TakeTurnCompleted(t) ==
    /\ Begin(Head(queue), remembered[t], <<>>, <<>>)
    /\ UNCHANGED <<delivery, remembered, buffer, history>>

(* session.exited: what is buffered of the thread's turns is dropped.      *)
TakeExit(t) ==
    /\ Begin(Head(queue), {}, <<>>, <<>>)
    /\ remembered' = [remembered EXCEPT ![t] = {}]
    /\ buffer' = [m \in Messages |-> IF m \in remembered[t] THEN <<>> ELSE buffer[m]]
    /\ lost' = lost \cup {m \in remembered[t] : buffer[m] # <<>>}
    /\ UNCHANGED <<delivery, unfinished, overtaken>>

TakeMode(m) ==
    /\ Begin(Head(queue), {}, <<>>, <<>>)
    /\ delivery' = m
    /\ UNCHANGED <<remembered, buffer, history>>

Take ==
    /\ task = Idle /\ queue # <<>>
    /\ LET input == Head(queue) IN
        \/ input.type = "delta" /\ TakeDelta(input.message, input.text)
        \/ input.type = "item" /\ TakeCompletion(input.message, input.text)
        \/ input.type = "completed" /\ TakeTurnCompleted(input.turn)
        \/ input.type = "exited" /\ TakeExit(input.turn)
        \/ input.type = "mode" /\ TakeMode(input.mode)

(* The session's new status, dispatched before anything else, is refused:  *)
(* the rest of the event is not handled.                                   *)
LifecycleFails ==
    /\ task = Idle /\ queue # <<>> /\ Head(queue).type \in {"completed", "exited"}
    /\ failures < MaxFailures /\ failures' = failures + 1
    /\ unfinished' = IF Head(queue).type = "completed"
                     THEN unfinished \cup remembered[Head(queue).turn] ELSE unfinished
    /\ queue' = Tail(queue) /\ outstanding' = outstanding - 1
    /\ UNCHANGED <<provider, task, delivery, remembered, buffer, message, lost, overtaken, starts>>

(* finalizeAssistantMessage: the buffered text, or else the fallback, and  *)
(* the completion.                                                         *)
Finalize(m) ==
    /\ m \in task.rest /\ task.commands = <<>>
    /\ LET text == IF buffer[m] # <<>> THEN buffer[m] ELSE task.fallback
       IN  task' = [task EXCEPT !.rest = @ \ {m},
                        !.commands = IF text = <<>> THEN <<Complete(m)>>
                                     ELSE <<Delta(m, text), Complete(m)>>]
    /\ buffer' = [buffer EXCEPT ![m] = <<>>]
    /\ UNCHANGED <<provider, queue, outstanding, delivery, remembered, message, history,
                   starts, failures>>

(* The engine accepts the command and the projector applies its event: a   *)
(* delta extends the text, a completion leaves it.                         *)
Dispatch ==
    /\ task.commands # <<>>
    /\ LET command == Head(task.commands) IN
        message' = [message EXCEPT ![command.message] =
            [text |-> @.text \o command.text,
             state |-> IF command.do = "delta" THEN "streaming" ELSE "done"]]
    /\ task' = [task EXCEPT !.commands = Tail(@)]
    /\ UNCHANGED <<provider, queue, outstanding, delivery, remembered, buffer, history,
                   starts, failures>>

(* The engine refuses the command; processInputSafely ends the handling.   *)
DispatchFails ==
    /\ task.commands # <<>> /\ failures < MaxFailures /\ failures' = failures + 1
    /\ LET deltas == {i \in DOMAIN task.commands : task.commands[i].do = "delta"}
           left == task.rest \cup {task.commands[i].message : i \in DOMAIN task.commands}
       IN  /\ lost' = lost \cup {task.commands[i].message : i \in deltas}
           /\ unfinished' = IF task.input.type = "completed" THEN unfinished \cup left
                            ELSE unfinished
    /\ task' = Idle /\ outstanding' = outstanding - 1
    /\ UNCHANGED <<provider, queue, delivery, remembered, buffer, message, overtaken, starts>>

(* The event is handled: a completed message is forgotten, and with a      *)
(* completed turn all of its messages.                                     *)
Done ==
    /\ task # Idle /\ task.rest = {} /\ task.commands = <<>>
    /\ remembered' =
        CASE task.input.type = "item" ->
                [remembered EXCEPT ![task.input.turn] = @ \ {task.input.message}]
          [] task.input.type = "completed" -> [remembered EXCEPT ![task.input.turn] = {}]
          [] OTHER -> remembered
    /\ task' = Idle /\ outstanding' = outstanding - 1
    /\ UNCHANGED <<provider, queue, delivery, buffer, message, history, starts, failures>>

-----------------------------------------------------------------------------
Provider ==
    \/ \E m \in Messages : Say(m) \/ Finish(m, <<>>) \/ Finish(m, FullText(m))
    \/ \E t \in Turns : EndTurn(t, "completed") \/ EndTurn(t, "exited")
    \/ \E m \in {"buffered", "streaming"} : StartTurn(m)

Worker ==
    \/ Take \/ LifecycleFails
    \/ \E m \in Messages : Finalize(m)
    \/ Dispatch
    \/ DispatchFails
    \/ Done

Next == Provider \/ Worker

Spec == Init /\ [][Next]_vars
=============================================================================
