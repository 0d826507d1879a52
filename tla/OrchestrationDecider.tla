------------------------ MODULE OrchestrationDecider ------------------------
(***************************************************************************)
(* The decision half of the orchestration core: which commands a read      *)
(* model accepts and which events an accepted command produces             *)
(* (decider.ts, commandInvariants.ts).                                     *)
(*                                                                         *)
(* A read model is represented by the sequence of the events folded into   *)
(* it.  projectEvent is a function of (model, event), so this sequence     *)
(* determines the read model and nothing the decider looks at is lost.     *)
(***************************************************************************)
EXTENDS Naturals, Sequences, SequencesExt

CONSTANTS
    Projects,
    Threads,
    NoThread,     \* the absent sourceProposedPlan of a thread.turn.start
    Commands      \* the commands clients and reactors may dispatch

(* Commands that need the thread only, and the one event each produces.    *)
ThreadCommandEvent ==
    [type \in {"thread.delete", "thread.meta.update", "thread.runtime-mode.set",
               "thread.interaction-mode.set", "thread.turn.interrupt",
               "thread.approval.respond", "thread.user-input.respond",
               "thread.checkpoint.revert", "thread.session.stop",
               "thread.session.set", "thread.message.assistant.delta",
               "thread.message.assistant.complete", "thread.proposed-plan.upsert",
               "thread.turn.diff.complete", "thread.revert.complete",
               "thread.activity.append"} |->
        CASE type = "thread.delete"                     -> "thread.deleted"
          [] type = "thread.meta.update"                -> "thread.meta-updated"
          [] type = "thread.runtime-mode.set"           -> "thread.runtime-mode-set"
          [] type = "thread.interaction-mode.set"       -> "thread.interaction-mode-set"
          [] type = "thread.turn.interrupt"             -> "thread.turn-interrupt-requested"
          [] type = "thread.approval.respond"           -> "thread.approval-response-requested"
          [] type = "thread.user-input.respond"         -> "thread.user-input-response-requested"
          [] type = "thread.checkpoint.revert"          -> "thread.checkpoint-revert-requested"
          [] type = "thread.session.stop"               -> "thread.session-stop-requested"
          [] type = "thread.session.set"                -> "thread.session-set"
          [] type = "thread.message.assistant.delta"    -> "thread.message-sent"
          [] type = "thread.message.assistant.complete" -> "thread.message-sent"
          [] type = "thread.proposed-plan.upsert"       -> "thread.proposed-plan-upserted"
          [] type = "thread.turn.diff.complete"         -> "thread.turn-diff-completed"
          [] type = "thread.revert.complete"            -> "thread.reverted"
          [] type = "thread.activity.append"            -> "thread.activity-appended"]

ProjectCommandEvent ==
    [type \in {"project.meta.update", "project.delete"} |->
        IF type = "project.delete" THEN "project.deleted" ELSE "project.meta-updated"]

CommandTypes ==
    {"project.create", "thread.create", "thread.turn.start"}
        \cup DOMAIN ThreadCommandEvent \cup DOMAIN ProjectCommandEvent

EventTypes ==
    {"project.created", "thread.created", "thread.message-sent", "thread.turn-start-requested"}
        \cup Range(ThreadCommandEvent) \cup Range(ProjectCommandEvent)

(* The threads that carry a command's sourceProposedPlan.                  *)
SourceThreads == Threads \cup {NoThread}

CommandRecords ==
    [commandId: STRING, type: CommandTypes,
     projectId: Projects, threadId: Threads, source: SourceThreads]

(* Command ids are the keys of the receipts, so no two commands share one. *)
ASSUME CommandsAssumption ==
    /\ Commands \subseteq CommandRecords
    /\ \A c, d \in Commands : c.commandId = d.commandId => c = d

-----------------------------------------------------------------------------

(* The events of a command in the order decide returns them.  A turn start *)
(* is the only command with two.                                           *)
EventTypesOf(c) ==
    CASE c.type = "project.create"    -> <<"project.created">>
      [] c.type = "thread.create"     -> <<"thread.created">>
      [] c.type = "thread.turn.start" -> <<"thread.message-sent", "thread.turn-start-requested">>
      [] c.type \in DOMAIN ThreadCommandEvent  -> <<ThreadCommandEvent[c.type]>>
      [] OTHER                                 -> <<ProjectCommandEvent[c.type]>>

(* Deleting sets deletedAt and keeps the entry: findProjectById and        *)
(* findThreadById still find it, so "exists" means "was ever created".     *)
ProjectExists(model, p) ==
    \E i \in DOMAIN model : model[i].type = "project.created" /\ model[i].command.projectId = p

ThreadExists(model, t) ==
    \E i \in DOMAIN model : model[i].type = "thread.created" /\ model[i].command.threadId = t

ThreadInProject(model, t, p) ==
    \E i \in DOMAIN model :
        /\ model[i].type = "thread.created"
        /\ model[i].command.threadId = t
        /\ model[i].command.projectId = p

(* One proposed plan per source thread; plans pruned by a revert are not   *)
(* distinguished.                                                          *)
PlanExists(model, t) ==
    \E i \in DOMAIN model :
        model[i].type = "thread.proposed-plan-upserted" /\ model[i].command.threadId = t

SourcePlanUsable(model, c) ==
    c.source # NoThread =>
        /\ ThreadExists(model, c.source)
        /\ PlanExists(model, c.source)
        /\ \E p \in Projects : ThreadInProject(model, c.source, p)
                                 /\ ThreadInProject(model, c.threadId, p)

Accepts(model, c) ==
    CASE c.type = "project.create"    -> ~ProjectExists(model, c.projectId)
      [] c.type = "thread.create"     -> /\ ProjectExists(model, c.projectId)
                                         /\ ~ThreadExists(model, c.threadId)
      [] c.type = "thread.turn.start" -> /\ ThreadExists(model, c.threadId)
                                         /\ SourcePlanUsable(model, c)
      [] c.type \in DOMAIN ThreadCommandEvent -> ThreadExists(model, c.threadId)
      [] OTHER                                -> ProjectExists(model, c.projectId)
=============================================================================
