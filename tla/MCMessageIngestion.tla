-------------------------- MODULE MCMessageIngestion --------------------------
(***************************************************************************)
(* The instance of MessageIngestion for TLC: two messages of one turn.     *)
(* Messages of other turns would share the worker and the delivery mode    *)
(* only, and the mode changes by itself.                                   *)
(***************************************************************************)
EXTENDS MessageIngestionProperties

CONSTANTS m1, m2, t1

MessageTurns == [m \in {m1, m2} |-> t1]
=============================================================================
