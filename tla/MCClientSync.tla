---------------------------- MODULE MCClientSync ----------------------------
(***************************************************************************)
(* The instances of ClientSync for TLC only need numbers.                  *)
(***************************************************************************)
EXTENDS ClientSyncProperties
=============================================================================
