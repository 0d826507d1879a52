---------------------------- MODULE MCDesktopShell ----------------------------
(***************************************************************************)
(* An instance of the desktop application's main process for TLC.          *)
(***************************************************************************)
EXTENDS DesktopShellProperties
=============================================================================
