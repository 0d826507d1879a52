-------------------------- MODULE MCTerminalManager --------------------------
(***************************************************************************)
(* Terminals of two threads for TLC.                                       *)
(***************************************************************************)
EXTENDS TerminalManagerProperties

CONSTANTS a, b, c, th1, th2

MCThreadOf == [t \in Terminals |-> IF t = c THEN th2 ELSE th1]
=============================================================================
