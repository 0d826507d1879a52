-------------------------- MODULE MCProviderSessions --------------------------
(***************************************************************************)
(* The instance of ProviderSessions for TLC: of the stop, the failure and  *)
(* the crash any two happen.                                               *)
(***************************************************************************)
EXTENDS ProviderSessionsProperties

TwoDisturbances == stops + failures + crashes <= 2
=============================================================================
