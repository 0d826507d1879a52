----------------------------- MODULE CommandLog -----------------------------
(***************************************************************************)
(* What the orchestration engine promises its callers: commands are        *)
(* decided one at a time against everything decided before, an accepted    *)
(* command adds all of its events to the history at once, no command is    *)
(* decided twice, and success is only reported for accepted commands       *)
(* ("Dispatch is serialized through an internal queue and deduplicated via *)
(* command receipts", Services/OrchestrationEngine.ts:48-49).              *)
(***************************************************************************)
EXTENDS OrchestrationDecider

VARIABLES
    history,       \* the events of the accepted commands, in order
    verdict,       \* per command: undecided, accepted or rejected
    acknowledged   \* the commands whose callers were told they succeeded

logVars == <<history, verdict, acknowledged>>

(* The events command c adds when n events precede it.                     *)
EventsOf(c, n) ==
    [i \in 1..Len(EventTypesOf(c)) |->
        [sequence |-> n + i, type |-> EventTypesOf(c)[i], command |-> c]]

Undecided(c) == verdict[c] = "undecided"

LogInit ==
    /\ history = <<>>
    /\ verdict = [c \in Commands |-> "undecided"]
    /\ acknowledged = {}

Accept(c) ==
    /\ Undecided(c)
    /\ Accepts(history, c)
    /\ history' = history \o EventsOf(c, Len(history))
    /\ verdict' = [verdict EXCEPT ![c] = "accepted"]
    /\ UNCHANGED acknowledged

Reject(c) ==
    /\ Undecided(c)
    /\ ~Accepts(history, c)
    /\ verdict' = [verdict EXCEPT ![c] = "rejected"]
    /\ UNCHANGED <<history, acknowledged>>

(* Callers learn of accepted commands, and forget answers when they issue  *)
(* a new command or the process dies.                                      *)
Acknowledge ==
    /\ acknowledged' \in SUBSET {c \in Commands : verdict[c] = "accepted"}
    /\ UNCHANGED <<history, verdict>>

LogNext ==
    \/ \E c \in Commands : Accept(c) \/ Reject(c)
    \/ Acknowledge

LogSpec == LogInit /\ [][LogNext]_logVars
=============================================================================
