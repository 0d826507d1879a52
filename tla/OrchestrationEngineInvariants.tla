-------------------- MODULE OrchestrationEngineInvariants --------------------
(***************************************************************************)
(* The inductive invariants behind the engine's properties.  ControlOK     *)
(* holds for both kinds of event store, OpenInv describes one outside the  *)
(* SQL transaction, the other parts one that takes part in it.             *)
(***************************************************************************)
EXTENDS OrchestrationEngineProperties

InTransaction == {"append", "project", "commit"}

(* What processEnvelope's local variables hold at each of its steps.       *)
ControlOK ==
    /\ pc = "bootstrap" => step \in DOMAIN ProjectorOrder /\ batch = <<>>
    /\ pc \in WorkerSteps \ {"idle"} => envelope \in [command : Commands, caller : Callers]
    /\ pc \in {"idle", "lookup"} => step = 0 /\ batch = <<>>
    /\ pc = "append" => Len(batch) < Len(EventTypesOf(envelope.command)) /\ step = 0
    /\ pc = "project" => step \in DOMAIN ProjectorOrder /\ batch # <<>>
                           /\ Len(batch) <= Len(EventTypesOf(envelope.command))
    /\ pc \in {"commit", "install"} =>
          step = 0 /\ Len(batch) = Len(EventTypesOf(envelope.command))
    /\ pc = "publish" => step \in 0..Len(batch) /\ Len(batch) = Len(EventTypesOf(envelope.command))
    /\ pc = "reconcile" => step = 0 /\ batch = <<>>
    /\ pc = "republish" => step \in 0..Len(batch)
    /\ pc \in {"reconcile", "republish"} => failure \in {"storage", "invariant"}

TypeInv == TypeOK /\ ControlOK

(* How many events of the batch are in the database and not yet in the     *)
(* feed.                                                                   *)
Unpublished ==
    CASE pc = "install" -> Len(batch)
      [] pc \in {"publish", "republish"} -> Len(batch) - step
      [] OTHER -> 0

(* The batch is the command's events; the first follows the end of the log *)
(* and, once committed, they are the end of the log.                       *)
BatchOK ==
    /\ pc \in InTransaction =>
          \A i \in DOMAIN batch :
              batch[i] = [sequence |-> Len(log) + i,
                          type |-> EventTypesOf(envelope.command)[i],
                          command |-> envelope.command]
    /\ pc \in {"install", "publish"} =>
          /\ Len(batch) <= Len(log)
          /\ \A i \in DOMAIN batch : batch[i] = log[Len(log) - Len(batch) + i]
    /\ pc = "republish" => batch = <<>>

(* The read model is the log, except between the commit and its            *)
(* installation.                                                           *)
ModelOK ==
    /\ pc \in WorkerSteps \ {"install"} => readModel = log
    /\ pc = "install" => log = readModel \o batch

(* The feed is the part of the log written since the worker was forked,    *)
(* less what is still to be published.                                     *)
FeedOK ==
    /\ pc \in StartUpSteps => bootSequence = 0 /\ published = <<>>
    /\ pc \in WorkerSteps => bootSequence + Len(published) + Unpublished = Len(log)
    /\ \A i \in DOMAIN published : published[i] = log[bootSequence + i]

(* A command that is being processed has no receipt, one whose receipt was *)
(* written has this very batch in the log.                                 *)
ReceiptOK ==
    /\ ReceiptsAgreeWithLog
    /\ pc \in InTransaction => receipts[envelope.command].status = "none"
    /\ pc \in {"reconcile", "republish"} /\ failure = "invariant" =>
          receipts[envelope.command].status = "none"
    /\ pc \in {"install", "publish"} =>
          receipts[envelope.command] = [status |-> "accepted", resultSequence |-> Len(log)]
    /\ pc \in {"reconcile", "republish"} /\ failure = "invariant" =>
          ~Accepts(log, envelope.command)
    /\ pc \in InTransaction => Accepts(log, envelope.command)

(* Callers that were told of a success, and the sequence they were told.   *)
AnswersOK ==
    /\ pc \in StartUpSteps => \A k \in Callers : callers[k].status = "idle"
    /\ \A k \in Callers : callers[k].status = "ok" =>
          /\ callers[k].command \in Commands
          /\ receipts[callers[k].command] =
                [status |-> "accepted", resultSequence |-> callers[k].sequence]
          /\ callers[k].sequence <= bootSequence + Len(published)

(* A caller has at most one envelope, waiting in the queue or with the     *)
(* worker, and waits for exactly that one.                                 *)
WaitersOK ==
    /\ pc \in StartUpSteps => commandQueue = <<>>
    /\ \A i \in DOMAIN commandQueue :
          callers[commandQueue[i].caller].status = "waiting"
    /\ \A i, j \in DOMAIN commandQueue :
          commandQueue[i].caller = commandQueue[j].caller => i = j
    /\ pc \in WorkerSteps \ {"idle"} =>
          /\ callers[envelope.caller].status = "waiting"
          /\ \A i \in DOMAIN commandQueue : commandQueue[i].caller # envelope.caller

EngineInv == BatchOK /\ ModelOK /\ FeedOK /\ ReceiptOK /\ AnswersOK

-----------------------------------------------------------------------------
(* The projections.                                                        *)

(* A table that holds the first n of these events, and says so.            *)
Follows(table, events, n) ==
    /\ table.lastAppliedSequence = n /\ n <= Len(events)
    /\ Len(table.rows) = n /\ \A i \in 1..n : table.rows[i] = events[i]

(* Of the events of the batch, those that the i-th projector has seen.     *)
Seen(i) == IF pc = "project" /\ step <= i THEN Len(batch) - 1 ELSE Len(batch)

Cursor(p) == tables[p].lastAppliedSequence

(* Each table holds the log up to its cursor.                              *)
PrefixOK == \A p \in Projectors : Follows(tables[p], log, Cursor(p))

(* During the bootstrap the projectors before the present one are up to    *)
(* date, and the present one's read reaches the end of the log.            *)
BootstrapOK ==
    pc = "bootstrap" =>
        \A i \in DOMAIN ProjectorOrder : ProjectorOrder[i] \in installed =>
            /\ i < step => Cursor(ProjectorOrder[i]) = Len(log)
            /\ i = step => Len(log) <= Cursor(ProjectorOrder[i]) + remaining

CurrentOK == pc # "bootstrap" => \A p \in installed : Cursor(p) = Len(log)

(* In a transaction the installed projectors have seen what was appended,  *)
(* but for the last event the ones whose turn is still to come.            *)
WorkingOK ==
    pc \in InTransaction =>
        \A i \in DOMAIN ProjectorOrder :
            LET p == ProjectorOrder[i]
            IN  IF p \in installed
                THEN Follows(working[p], log \o batch, Len(log) + Seen(i))
                ELSE working[p] = tables[p]

TablesOK == PrefixOK /\ BootstrapOK /\ CurrentOK /\ WorkingOK

(* No start-up meets a log beyond the read limit.                          *)
BootstrapInReach == pc = "bootstrap" => Len(log) <= ReadLimit

-----------------------------------------------------------------------------
(* A store outside the transaction, as long as no reconciliation failed.   *)

(* The read model is the log less the events of the batch, until these are *)
(* installed; after a failure it lacks two events at most.                 *)
OpenModelOK ==
    /\ pc \in WorkerSteps =>
          Len(readModel) <= Len(log) /\ \A i \in DOMAIN readModel : readModel[i] = log[i]
    /\ pc \in {"idle", "lookup", "publish", "republish"} => Len(readModel) = Len(log)
    /\ pc \in InTransaction \cup {"install"} => Len(log) = Len(readModel) + Len(batch)
    /\ pc = "reconcile" => Len(log) <= Len(readModel) + 2

(* The batch is the end of the log from the moment it is written.          *)
OpenBatchOK ==
    pc \in WorkerSteps \ {"idle", "lookup", "reconcile"} =>
        /\ Len(batch) <= Len(log)
        /\ \A i \in DOMAIN batch : batch[i] = log[Len(log) - Len(batch) + i]

(* The feed has got as far as the read model, but for the events that are  *)
(* just being published.                                                   *)
OpenFeedOK ==
    /\ pc \in StartUpSteps => bootSequence = 0 /\ published = <<>>
    /\ pc \in WorkerSteps \ {"publish", "republish"} =>
          bootSequence + Len(published) = Len(readModel)
    /\ pc \in {"publish", "republish"} =>
          bootSequence + Len(published) + Len(batch) = Len(readModel) + step
    /\ \A i \in DOMAIN published : published[i] = log[bootSequence + i]

OpenInv ==
    /\ \A i \in DOMAIN log : log[i].sequence = i
    /\ ~reconcileFailed => OpenModelOK /\ OpenBatchOK /\ OpenFeedOK
=============================================================================
