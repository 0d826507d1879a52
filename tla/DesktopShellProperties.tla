------------------------ MODULE DesktopShellProperties ------------------------
(***************************************************************************)
(* What must be true of the desktop application's main process.            *)
(***************************************************************************)
EXTENDS DesktopShell

(* A backend that was not told to end is the one in backendProcess, so     *)
(* never are two of them running; and none is left when the application is *)
(* gone (startBackend, stopBackend, stopBackendAndWaitForExit), unless an  *)
(* installation that failed took the quit back in the middle.              *)
BackendsAreOwned ==
    ~reopened =>
        \A c \in DOMAIN children : children[c].alive /\ children[c].told = "no" =>
            c = backend /\ app = "running"

(* Unless the application quits, a backend that ended is replaced: after a *)
(* crash, a failed spawn, and a failed installation if the old backend was *)
(* still ending then (scheduleBackendRestart, installDownloadedUpdate).    *)
BackendComesBack ==
    app = "running" /\ backend = 0 ~> backend # 0 \/ quitting \/ stranded \/ app = "gone"

(* The action of the update button (resolveDesktopUpdateButtonAction).     *)
Offered ==
    CASE update.status = "available" -> "download"
      [] update.status = "downloaded" -> "install"
      [] update.status = "error" /\ update.context = "install" /\ update.downloaded -> "install"
      [] update.status = "error" /\ update.context = "download" /\ update.available -> "download"
      [] OTHER -> "none"

(* What the button offers the main process accepts, also after failures,   *)
(* and a check and a download never run together: a check that ended late  *)
(* would take a downloaded update for one that is not.  An error outside   *)
(* of both leaves an offer that is refused until the next check            *)
(* (downloadAvailableUpdate, installDownloadedUpdate, checkForUpdates).    *)
OffersAreAccepted ==
    /\ ~(checking /\ downloading)
    /\ ~quitting /\ ~outside =>
        /\ Offered = "download" => CanDownload
        /\ Offered = "install" => CanInstall
=============================================================================
