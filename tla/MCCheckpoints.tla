---------------------------- MODULE MCCheckpoints ----------------------------
(***************************************************************************)
(* The checkpoints of a thread for TLC.                                    *)
(***************************************************************************)
EXTENDS CheckpointsProperties

(* Two turns overlap; the third, which brings the read model to its limit, *)
(* is requested when they are done, and nothing fails in a run with it.    *)
ThirdTurnLater ==
    requested' = 3 =>
        /\ failures' = 0
        /\ requested = 2 => AtRest /\ started = 2 /\ current = 0
=============================================================================
