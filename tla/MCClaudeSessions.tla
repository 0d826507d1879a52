-------------------------- MODULE MCClaudeSessions ---------------------------
(***************************************************************************)
(* An instance of the Claude sessions for TLC.                             *)
(***************************************************************************)
EXTENDS ClaudeSessionsProperties
=============================================================================
