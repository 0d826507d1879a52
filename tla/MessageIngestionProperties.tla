----------------------- MODULE MessageIngestionProperties -----------------------
(***************************************************************************)
(* What must be true of assistant messages.                                *)
(***************************************************************************)
EXTENDS MessageIngestion

Chunks == Seq(1..MaxChunks)
Commands == [do : {"delta", "complete"}, message : Messages, text : Chunks]

(* The state has the declared shape, and the counter counts the inputs     *)
(* that wait and the one in hand.                                          *)
TypeOK ==
    /\ said \in [Messages -> 0..MaxChunks] /\ whole \subseteq Messages
    /\ ended \in [Turns -> {"no", "completed", "exited"}]
    /\ outstanding = Len(queue) + IF task = Idle THEN 0 ELSE 1
    /\ task.rest \subseteq Messages /\ task.fallback \in Chunks /\ task.commands \in Seq(Commands)
    /\ \A i \in DOMAIN task.commands : i > 1 => task.commands[i].text = <<>>
    /\ delivery \in {"buffered", "streaming"}
    /\ remembered \in [Turns -> SUBSET Messages]
    /\ \A t \in Turns : remembered[t] \subseteq MessagesOf(t)
    /\ buffer \in [Messages -> Chunks]
    /\ \A m \in Messages : Len(buffer[m]) <= MaxBuffered
    /\ message \in [Messages -> [text : Chunks, state : {"absent", "streaming", "done"}]]
    /\ lost \subseteq Messages /\ unfinished \subseteq Messages /\ overtaken \subseteq Messages
    /\ starts \in 0..MaxStarts /\ failures \in 0..MaxFailures

(* The text in the commands in hand: only a first one has any.             *)
InHand(m) ==
    IF task.commands # <<>> /\ Head(task.commands).message = m
    THEN Head(task.commands).text ELSE <<>>

(* What the server has of a message, delivered, in hand and buffered.      *)
Kept(m) == message[m].text \o InHand(m) \o buffer[m]

Waiting(m) ==
    (UNION {Range(queue[i].text) :
        i \in {j \in DOMAIN queue : queue[j].type \in {"delta", "item"} /\ queue[j].message = m}})
    \cup IF m \in task.rest THEN Range(task.fallback) ELSE {}

(* What the provider says reaches the reader once, and in order: through   *)
(* the buffer, its spills, the change of the delivery mode by another      *)
(* thread and the completion that repeats the text (appendBuffered-        *)
(* AssistantText, finalizeAssistantMessage).  Nothing is missing unless a  *)
(* dispatch failed or the session exited with text in the buffer; order is *)
(* kept unless the mode changed from buffered to streaming in mid-message. *)
TextIsConserved ==
    \A m \in Messages :
        /\ IsInjective(Kept(m))
        /\ m \notin lost => 1..said[m] \subseteq Range(Kept(m)) \cup Waiting(m)
        /\ m \notin overtaken =>
            \A i, j \in DOMAIN Kept(m) : i < j => Kept(m)[i] < Kept(m)[j]

(* When the worker is drained, the messages of a completed turn are        *)
(* finished, whether the provider completed them or not, and nothing of    *)
(* them is left in the caches (turn.completed, the drain of                *)
(* DrainableWorker); unless a dispatch failed while the turn was ended.    *)
DrainedTurnsAreFinished ==
    outstanding = 0 => \A t \in Turns : ended[t] = "completed" =>
        \A m \in MessagesOf(t) \ unfinished :
            /\ message[m].state # "streaming" /\ buffer[m] = <<>>
            /\ said[m] > 0 => message[m].state = "done"
=============================================================================
