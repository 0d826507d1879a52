------------------------ MODULE CheckpointsProperties ------------------------
(***************************************************************************)
(* What must be true of a thread's checkpoints.                            *)
(***************************************************************************)
EXTENDS Checkpoints

Statuses == {"none", "ready", "missing"}

Events ==
    [type : {"none", "turnStart", "revert", "placeholder", "started", "diff", "completed",
             "baseline"},
     turn : 0..MaxTurns, count : Nat, status : Statuses]

Jobs ==
    [event : Events,
     at : {"idle", "capture", "dispatch", "restore", "rollback", "delete", "complete"},
     stale : SUBSET Nat, drop : Nat, basis : {Absent} \cup Nat]

(* The state has the declared shape; a turn has one checkpoint, and there  *)
(* are not more than allowed.                                              *)
TypeOK ==
    /\ requested \in 0..MaxTurns /\ started \in 0..requested
    /\ conversation \in Seq(1..MaxTurns)
    /\ current \in 0..started
    /\ ingestion \in Seq(Events) /\ runtime \in Seq(Events) /\ domain \in Seq(Events)
    /\ ingest \in Events
    /\ job \in Jobs
    /\ refs \subseteq Nat
    /\ active \in 0..started
    /\ checkpoints \subseteq [turn : Turns, count : Nat \ {0}, status : Statuses,
                              captured : BOOLEAN]
    /\ \A c, d \in checkpoints : c.turn = d.turn => c = d
    /\ Cardinality(checkpoints) <= MaxCheckpoints
    /\ rows \in [Turns -> [count : Nat \cup {Absent}, status : Statuses]]
    /\ failed \subseteq Turns /\ overtaken \subseteq Turns
    /\ diverged \subseteq Turns /\ dropped \subseteq Turns
    /\ aborted \in BOOLEAN /\ misaligned \in BOOLEAN
    /\ reverts \in 0..MaxReverts /\ failures \in 0..MaxFailures

(* Between jobs a captured checkpoint can be restored: no revert, repeated *)
(* capture or shared count took its ref away (captureAndDispatchCheckpoint,*)
(* handleRevertRequested).  A handler that fails between its effects may.  *)
RefsMatchCheckpoints ==
    job = Resting /\ ~aborted =>
        \A c \in checkpoints : c.captured => c.count \in refs

AtRest ==
    ingestion = <<>> /\ ingest = NoJob /\ runtime = <<>> /\ domain = <<>> /\ job = Resting

(* When the workers have nothing left to do, every turn was captured and no*)
(* placeholder is left, though placeholder and completion each leave the   *)
(* capture to the other in some orders; unless the capture failed, or the  *)
(* completion was skipped as the next turn was active.  The read model has *)
(* given up the oldest captures beyond its limit.  A revert that overlaps a*)
(* turn may take the wrong turns from the provider                         *)
(* (captureCheckpointFromPlaceholder, ...FromTurnCompletion).              *)
TurnsAreCaptured ==
    AtRest =>
        /\ \A c \in checkpoints : c.status = "missing" => c.turn \in failed
        /\ ~misaligned => \A i \in DOMAIN conversation :
            LET t == conversation[i]
            IN  t \notin failed \cup overtaken \cup dropped \cup {current} =>
                    \E c \in checkpoints : c.turn = t /\ c.captured

Remembered == {conversation[i] : i \in DOMAIN conversation}

(* A revert takes from the provider just the turns whose checkpoints it    *)
(* removes, when each turn had the checkpoint of its position and no turn  *)
(* began meanwhile; and the refs of those do not outlive it: a later turn  *)
(* would take one for its baseline (handleRevertRequested).  A turn whose  *)
(* checkpoint the limit took needs none, and a late diff may give it       *)
(* another.                                                                *)
RevertsAreComplete ==
    [][CompleteRevert =>
            /\ \A c \in checkpoints \ checkpoints' : c.captured => c.count \notin refs
            /\ job.basis = started =>
                /\ TurnsOf(checkpoints') \subseteq Remembered
                /\ TurnsOf(checkpoints \ checkpoints') \cap Remembered \subseteq dropped]_vars

(* The table that snapshots are read from has the checkpoints of the read  *)
(* model, and no others than those the limit of the read model took from   *)
(* it; but for turns whose placeholder came after their capture or whose   *)
(* count another turn was given (orchestrationProjector,                   *)
(* applyThreadTurnsProjection).                                            *)
TableFollowsReadModel ==
    \A t \in Turns \ diverged :
        /\ \A c \in Of(t) : rows[t] = [count |-> c.count, status |-> c.status]
        /\ Of(t) = {} /\ rows[t] # NoRow => t \in dropped
=============================================================================
