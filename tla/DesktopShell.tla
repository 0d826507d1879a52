----------------------------- MODULE DesktopShell -----------------------------
(***************************************************************************)
(* The main process of the desktop application: the life of the backend    *)
(* server it runs as a child, and the updater that stops it to install.    *)
(*                                                                         *)
(* Everything runs on one event loop.  A child's end and the event that    *)
(* tells of it are one step, and so are an event of electron-updater and   *)
(* the end of the promise it comes with.  That a spawn fails is an end of  *)
(* its child.  Versions, progress and windows are left out.                *)
(***************************************************************************)
EXTENDS Integers, Sequences

CONSTANTS
    MaxChecks,      \* bound on the checks for updates
    MaxFailures     \* bound on what fails, and on the crashes of the backend

ASSUME DesktopAssumption == MaxChecks \in Nat /\ MaxFailures \in Nat

VARIABLES
    app,            \* "booting", "running" or "gone"
    closing,        \* before-quit was received
    quitting,       \* isQuitting
    \* the backend
    children,       \* every child ever spawned
    backend,        \* backendProcess, or 0
    restartTimer,   \* restartTimer is set
    killTimers,     \* the children that a timer will kill
    \* the updater
    update,         \* updateState
    checking,       \* updateCheckInFlight
    downloading,    \* updateDownloadInFlight
    install,        \* where installDownloadedUpdate is
    waited,         \* the child it waits for, or 0
    \* history
    stranded,       \* an install failed when the backend had ended
    reopened,       \* it took back the quit of the application
    outside,        \* the updater's error came outside of check and download
    checks, failures

server == <<children, backend, restartTimer, killTimers>>
updater == <<update, checking, downloading>>
installer == <<install, waited>>
history == <<stranded, reopened, outside>>
vars == <<app, closing, quitting, server, updater, installer, history, checks, failures>>

Init ==
    /\ app = "booting" /\ closing = FALSE /\ quitting = FALSE
    /\ children = <<>> /\ backend = 0 /\ restartTimer = FALSE /\ killTimers = {}
    /\ update = [status |-> "idle", available |-> FALSE, downloaded |-> FALSE, context |-> "none"]
    /\ checking = FALSE /\ downloading = FALSE /\ install = "no" /\ waited = 0
    /\ stranded = FALSE /\ reopened = FALSE /\ outside = FALSE
    /\ checks = 0 /\ failures = 0

Fails == failures < MaxFailures /\ failures' = failures + 1
Alive(c) == c # 0 /\ children[c].alive
-----------------------------------------------------------------------------
(* The backend.                                                            *)

(* Mutant: the restart is not scheduled when a child was told to end.      *)
ScheduleUnlessStopped(c) ==
    restartTimer' = (restartTimer \/ (~quitting /\ children[c].told = "no"))

ScheduleBackendRestart(c) == restartTimer' = (restartTimer \/ ~quitting)

Child(told) == [alive |-> TRUE, told |-> told, heard |-> told = "no"]

(* Also without the server's file, or without a pipe to the child, which   *)
(* is told to end and not listened to.                                     *)
StartBackend ==
    IF quitting \/ backend # 0
    THEN restartTimer' = FALSE /\ UNCHANGED <<children, backend, failures>>
    ELSE \/ /\ children' = Append(children, Child("no"))
            /\ backend' = Len(children')
            /\ restartTimer' = FALSE
            /\ UNCHANGED failures
         \/ /\ Fails
            /\ children' \in {children, Append(children, Child("term"))}
            /\ restartTimer' = TRUE
            /\ UNCHANGED backend

Bootstrap ==
    /\ app = "booting" /\ app' = "running"
    /\ StartBackend
    /\ UNCHANGED <<closing, quitting, killTimers, updater, installer, history, checks>>

RestartTimerFires ==
    /\ app = "running" /\ restartTimer
    /\ StartBackend
    /\ UNCHANGED <<app, closing, quitting, killTimers, updater, installer, history, checks>>

(* A child may end or, unless it was killed, not; its listeners are those  *)
(* of startBackend, also after it was stopped.                             *)
ChildEnds(c) ==
    /\ children[c].alive
    /\ children' = [children EXCEPT ![c].alive = FALSE]
    /\ IF children[c].told = "no" THEN Fails ELSE UNCHANGED failures
    /\ IF app = "running" /\ children[c].heard
       THEN backend' = (IF backend = c THEN 0 ELSE backend) /\ ScheduleBackendRestart(c)
       ELSE UNCHANGED <<backend, restartTimer>>
    /\ UNCHANGED <<app, closing, quitting, killTimers, updater, installer, history, checks>>

(* Mutant: the child is forgotten, not told to end.                        *)
ForgetBackend ==
    /\ restartTimer' = FALSE /\ backend' = 0
    /\ UNCHANGED <<children, killTimers>>

(* The child that runs is told to end, and killed if it has not after two  *)
(* seconds.                                                                *)
StopBackend ==
    /\ restartTimer' = FALSE /\ backend' = 0
    /\ IF Alive(backend)
       THEN /\ children' = [children EXCEPT ![backend].told = "term"]
            /\ killTimers' = killTimers \cup {backend}
       ELSE UNCHANGED <<children, killTimers>>

KillTimerFires(c) ==
    /\ app # "gone" /\ c \in killTimers
    /\ killTimers' = killTimers \ {c}
    /\ children' = IF Alive(c) THEN [children EXCEPT ![c].told = "kill"] ELSE children
    /\ UNCHANGED <<app, closing, quitting, backend, restartTimer, updater, installer, history,
                   checks, failures>>

(* before-quit, SIGINT, SIGTERM and a fatal error of the bootstrap.        *)
Quit ==
    /\ app # "gone" /\ ~closing
    /\ closing' = TRUE /\ quitting' = TRUE
    /\ StopBackend
    /\ UNCHANGED <<app, updater, installer, history, checks, failures>>

(* The process ends, and with it its timers; children go on.               *)
AppEnds ==
    /\ app # "gone" /\ closing
    /\ app' = "gone" /\ restartTimer' = FALSE /\ killTimers' = {}
    /\ UNCHANGED <<closing, quitting, children, backend, updater, installer, history, checks,
                   failures>>
-----------------------------------------------------------------------------
(* The updater.                                                            *)

Up(status, context) == [update EXCEPT !.status = status, !.context = context]
Event == app # "gone" /\ UNCHANGED <<app, closing, quitting, server, installer, stranded, reopened>>

CheckForUpdates ==
    /\ Event /\ ~quitting /\ ~checking /\ update.status \notin {"downloading", "downloaded"}
    /\ checks < MaxChecks /\ checks' = checks + 1
    /\ checking' = TRUE /\ update' = Up("checking", "none") /\ outside' = FALSE
    /\ UNCHANGED <<downloading, failures>>

UpdateFound ==
    /\ Event /\ checking /\ checking' = FALSE
    /\ \E available \in BOOLEAN :
        update' = [status |-> IF available THEN "available" ELSE "up-to-date",
                   available |-> available, downloaded |-> FALSE, context |-> "none"]
    /\ UNCHANGED <<downloading, outside, checks, failures>>

CheckFails ==
    /\ Event /\ checking /\ Fails /\ checking' = FALSE /\ update' = Up("error", "check")
    /\ UNCHANGED <<downloading, outside, checks>>

CanDownload == ~downloading /\ update.status = "available"

DownloadUpdate ==
    /\ Event /\ CanDownload
    /\ downloading' = TRUE /\ update' = Up("downloading", "none")
    /\ UNCHANGED <<checking, outside, checks, failures>>

UpdateDownloaded ==
    /\ Event /\ downloading /\ downloading' = FALSE
    /\ update' = [Up("downloaded", "none") EXCEPT !.available = TRUE, !.downloaded = TRUE]
    /\ UNCHANGED <<checking, outside, checks, failures>>

(* Mutant: the download that failed stays in flight.                       *)
DownloadFailsInFlight ==
    /\ Event /\ downloading /\ Fails
    /\ update' = Up(IF update.available THEN "available" ELSE "error", "download")
    /\ UNCHANGED <<checking, downloading, outside, checks>>

DownloadFails ==
    /\ Event /\ downloading /\ Fails /\ downloading' = FALSE
    /\ update' = Up(IF update.available THEN "available" ELSE "error", "download")
    /\ UNCHANGED <<checking, outside, checks>>

(* An error that is not of a check or a download, as of the installation.  *)
UpdaterError ==
    /\ Event /\ Fails
    /\ IF checking \/ downloading THEN UNCHANGED <<update, outside>>
       ELSE update' = Up("error", update.context) /\ outside' = TRUE
    /\ UNCHANGED <<checking, downloading, checks>>
-----------------------------------------------------------------------------
(* The installation.                                                       *)

CanInstall == ~quitting /\ update.status = "downloaded"

InstallUpdate ==
    /\ app # "gone" /\ CanInstall
    /\ quitting' = TRUE /\ install' = "stopping"
    /\ waited' = IF Alive(backend) THEN backend ELSE 0
    /\ StopBackend
    /\ UNCHANGED <<app, closing, updater, history, checks, failures>>

(* The child has ended, or was killed three seconds ago.                   *)
BackendStopped ==
    app # "gone" /\ install = "stopping" /\ (Alive(waited) => children[waited].told = "kill")

(* The system is asked to quit the application and to install: it does, or *)
(* its error comes later.                                                  *)
QuitAndInstall ==
    /\ BackendStopped
    /\ install' = "asked" /\ waited' = 0 /\ killTimers' = killTimers \ {waited}
    /\ UNCHANGED <<app, closing, quitting, children, backend, restartTimer, updater, history,
                   checks, failures>>

QuitAndInstallThrows ==
    /\ BackendStopped /\ Fails
    /\ install' = "no" /\ waited' = 0 /\ killTimers' = killTimers \ {waited}
    /\ quitting' = FALSE /\ update' = Up("downloaded", "install")
    /\ stranded' = (stranded \/ ~Alive(waited)) /\ reopened' = (reopened \/ closing)
    /\ UNCHANGED <<app, closing, children, backend, restartTimer, checking, downloading, outside,
                   checks>>
-----------------------------------------------------------------------------
Backend ==
    \/ Bootstrap \/ RestartTimerFires \/ Quit \/ AppEnds
    \/ \E c \in DOMAIN children : ChildEnds(c) \/ KillTimerFires(c)

Updates ==
    \/ CheckForUpdates \/ UpdateFound \/ CheckFails
    \/ DownloadUpdate \/ UpdateDownloaded \/ DownloadFails \/ UpdaterError
    \/ InstallUpdate \/ QuitAndInstall \/ QuitAndInstallThrows

Next == Backend \/ Updates

(* Timers fire, and a child that was killed ends.                          *)
Spec ==
    /\ Init /\ [][Next]_vars
    /\ WF_vars(Bootstrap) /\ WF_vars(RestartTimerFires)
    /\ WF_vars(\E c \in DOMAIN children : KillTimerFires(c))
    /\ WF_vars(\E c \in DOMAIN children : children[c].told = "kill" /\ ChildEnds(c))
=============================================================================
