------------------------------ MODULE Replica ------------------------------
(***************************************************************************)
(* What a browser promises its user about the server's event log: the copy *)
(* it shows is at every moment the state after some prefix of the log, and *)
(* it never shows an earlier state again ("snapshot/replay handoff has no  *)
(* gap", .plans/spec-contract-matrix.md:399).                              *)
(***************************************************************************)
EXTENDS Naturals, Sequences

VARIABLES
    source,   \* the events of the log
    copy      \* the events the copy contains, in the order they were applied

replicaVars == <<source, copy>>

ReplicaInit == source = <<>> /\ copy = <<>>

Grow ==
    /\ Len(source') > Len(source)
    /\ SubSeq(source', 1, Len(source)) = source
    /\ UNCHANGED copy

Follow ==
    /\ \E n \in Len(copy)..Len(source) : copy' = SubSeq(source, 1, n)
    /\ UNCHANGED source

ReplicaNext == Grow \/ Follow

ReplicaSpec == ReplicaInit /\ [][ReplicaNext]_replicaVars
=============================================================================
