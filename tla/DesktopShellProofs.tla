-------------------------- MODULE DesktopShellProofs --------------------------
(***************************************************************************)
(* Proofs about the desktop application's main process: its backends are   *)
(* owned, and what its update button offers is accepted, for any number of *)
(* checks, failures and crashes.                                           *)
(***************************************************************************)
EXTENDS DesktopShellProperties, TLAPS

ChildStates == [alive : BOOLEAN, told : {"no", "term", "kill"}, heard : BOOLEAN]
Children == Seq(ChildStates)

(* The backend: what is needed besides BackendsAreOwned is that a quit that *)
(* was not taken back left none behind and lets none start.                *)
BackendInv ==
    /\ children \in Children /\ backend \in 0..Len(children)
    /\ app \in {"booting", "running", "gone"}
    /\ \A c \in DOMAIN children : children[c].alive /\ children[c].told = "no" => c = backend
    /\ app = "booting" => children = <<>>
    /\ app = "gone" => closing
    /\ closing /\ ~reopened => quitting /\ backend = 0

LEMMA BackendStart == Init => BackendInv
BY DEF Init, BackendInv, Children

(* What a start and a stop make of the children and of backendProcess.      *)
LEMMA StartKeeps ==
    ASSUME BackendInv, StartBackend
    PROVE  /\ children' \in Children /\ backend' \in 0..Len(children')
           /\ \A c \in DOMAIN children' :
                 children'[c].alive /\ children'[c].told = "no" => c = backend'
           /\ quitting => backend' = backend
PROOF
  <1>1. CASE quitting \/ backend # 0
    BY <1>1 DEF BackendInv, StartBackend
  <1>2. CASE ~quitting /\ backend = 0
    <2>1. \A told \in {"no", "term"} :
             LET appended == Append(children, Child(told))
             IN  /\ appended \in Children
                 /\ Len(appended) = Len(children) + 1
                 /\ appended[Len(children) + 1].told = told
                 /\ \A c \in 1..Len(children) : appended[c] = children[c]
      BY DEF Child, BackendInv, Children, ChildStates
    <2>2. Len(children) \in Nat /\ DOMAIN children = 1..Len(children)
      BY DEF BackendInv, Children
    <2>3. \A c \in 1..Len(children) : ~(children[c].alive /\ children[c].told = "no")
      BY <1>2, <2>2 DEF BackendInv
    <2>4. \/ children' = children /\ backend' = 0
          \/ children' = Append(children, Child("term")) /\ backend' = 0
          \/ children' = Append(children, Child("no")) /\ backend' = Len(children')
      BY <1>2 DEF StartBackend
    <2>5. CASE children' = children /\ backend' = 0
      BY <1>2, <2>2, <2>3, <2>5 DEF BackendInv
    <2>6. CASE children' = Append(children, Child("term")) /\ backend' = 0
      <3>1. children' \in Children /\ Len(children') = Len(children) + 1
        BY <2>1, <2>6
      <3>2. \A c \in 1..Len(children') : ~(children'[c].alive /\ children'[c].told = "no")
        BY <2>1, <2>2, <2>3, <2>6, <3>1
      <3> QED
        BY <1>2, <2>6, <3>1, <3>2 DEF Children
    <2>7. CASE children' = Append(children, Child("no")) /\ backend' = Len(children')
      <3>1. children' \in Children /\ Len(children') = Len(children) + 1
        BY <2>1, <2>7
      <3>2. \A c \in 1..Len(children) : ~(children'[c].alive /\ children'[c].told = "no")
        BY <2>1, <2>3, <2>7
      <3> QED
        BY <1>2, <2>2, <2>7, <3>1, <3>2 DEF Children
    <2> QED
      BY <2>4, <2>5, <2>6, <2>7
  <1> QED
    BY <1>1, <1>2

LEMMA StopKeeps ==
    ASSUME BackendInv, StopBackend
    PROVE  /\ children' \in Children /\ backend' = 0 /\ Len(children') = Len(children)
           /\ \A c \in DOMAIN children' : ~(children'[c].alive /\ children'[c].told = "no")
PROOF
  <1>1. backend' = 0
    BY DEF StopBackend
  <1>2. Len(children) \in Nat /\ DOMAIN children = 1..Len(children)
    BY DEF BackendInv, Children
  <1>3. CASE Alive(backend)
    <2>1. children' = [children EXCEPT ![backend].told = "term"] /\ backend \in 1..Len(children)
      BY <1>2, <1>3 DEF StopBackend, Alive, BackendInv
    <2>2. children' \in Children /\ Len(children') = Len(children)
      <3>1. children \in Children
        BY DEF BackendInv
      <3>2. \A x \in ChildStates : [x EXCEPT !.told = "term"] \in ChildStates
        BY DEF ChildStates
      <3>3. children' = [children EXCEPT ![backend] = [children[backend] EXCEPT !.told = "term"]]
        BY <2>1
      <3> QED
        BY <1>2, <2>1, <3>1, <3>2, <3>3 DEF Children
    <2>3. \A c \in DOMAIN children :
             IF c = backend THEN children'[c].told = "term" ELSE children'[c] = children[c]
      BY <1>2, <2>1 DEF BackendInv, Children
    <2> QED
      BY <1>1, <1>2, <2>2, <2>3 DEF BackendInv, Children
  <1>4. CASE ~Alive(backend)
    BY <1>1, <1>2, <1>4 DEF StopBackend, Alive, BackendInv
  <1> QED
    BY <1>3, <1>4

LEMMA EndKeeps ==
    ASSUME BackendInv, NEW c \in DOMAIN children, ChildEnds(c)
    PROVE  BackendInv'
PROOF
  <1>1. Len(children) \in Nat /\ DOMAIN children = 1..Len(children)
    BY DEF BackendInv, Children
  <1>2. \A x \in ChildStates : [x EXCEPT !.alive = FALSE] \in ChildStates
    BY DEF ChildStates
  <1>3. children' = [children EXCEPT ![c] = [children[c] EXCEPT !.alive = FALSE]]
    BY DEF ChildEnds
  <1>4. children' \in Children /\ Len(children') = Len(children)
    BY <1>1, <1>2, <1>3 DEF BackendInv, Children
  <1>5. \A d \in DOMAIN children' :
           IF d = c THEN ~children'[d].alive ELSE children'[d] = children[d]
    BY <1>1, <1>3, <1>4 DEF BackendInv, Children, ChildStates
  <1>6. backend' \in {backend, IF backend = c THEN 0 ELSE backend}
    BY DEF ChildEnds
  <1>7. UNCHANGED <<app, closing, quitting, reopened>>
    BY DEF ChildEnds, history
  <1>8. app # "booting"
    BY <1>1 DEF BackendInv
  <1>9. DOMAIN children' = DOMAIN children
    BY <1>1, <1>4 DEF Children
  <1> QED
    BY <1>1, <1>4, <1>5, <1>6, <1>7, <1>8, <1>9 DEF BackendInv

LEMMA KillKeeps ==
    ASSUME BackendInv, NEW c \in DOMAIN children, KillTimerFires(c)
    PROVE  BackendInv'
PROOF
  <1>1. Len(children) \in Nat /\ DOMAIN children = 1..Len(children)
    BY DEF BackendInv, Children
  <1>2. UNCHANGED <<app, closing, quitting, reopened, backend>>
    BY DEF KillTimerFires, history
  <1>3. CASE Alive(c)
    <2>1. \A x \in ChildStates : [x EXCEPT !.told = "kill"] \in ChildStates
      BY DEF ChildStates
    <2>2. children' = [children EXCEPT ![c] = [children[c] EXCEPT !.told = "kill"]]
      BY <1>3 DEF KillTimerFires
    <2>3. children' \in Children /\ Len(children') = Len(children)
      BY <1>1, <2>1, <2>2 DEF BackendInv, Children
    <2>4. \A d \in 1..Len(children) :
             IF d = c THEN children'[d].told = "kill" ELSE children'[d] = children[d]
      BY <1>1, <2>2 DEF BackendInv, Children, ChildStates
    <2>5. DOMAIN children' = 1..Len(children) /\ app # "booting"
      BY <1>1, <2>3 DEF Children, BackendInv
    <2> QED
      BY <1>1, <1>2, <2>3, <2>4, <2>5 DEF BackendInv
  <1>4. CASE ~Alive(c)
    BY <1>2, <1>4 DEF KillTimerFires, BackendInv
  <1> QED
    BY <1>3, <1>4

LEMMA BackendStep == BackendInv /\ [Next]_vars => BackendInv'
PROOF
  <1> SUFFICES ASSUME BackendInv, [Next]_vars PROVE BackendInv'
    OBVIOUS
  <1>0. Len(children) \in Nat /\ DOMAIN children = 1..Len(children)
    BY DEF BackendInv, Children
  <1>1. CASE Bootstrap \/ RestartTimerFires
    <2>1. StartBackend /\ UNCHANGED <<closing, quitting, reopened>> /\ app' = "running"
      BY <1>1 DEF Bootstrap, RestartTimerFires, history
    <2>2. app # "gone"
      BY <1>1 DEF Bootstrap, RestartTimerFires
    <2> QED
      BY <2>1, <2>2, StartKeeps DEF BackendInv
  <1>2. CASE Quit \/ InstallUpdate
    <2>1. StopBackend /\ quitting' = TRUE /\ UNCHANGED <<app, reopened>> /\ app # "gone"
      BY <1>2 DEF Quit, InstallUpdate, history
    <2>2. app = "booting" => children' = <<>>
      BY <2>1, <1>0 DEF BackendInv, StopBackend, Alive
    <2> QED
      BY <2>1, <2>2, StopKeeps DEF BackendInv
  <1>3. CASE AppEnds
    BY <1>3 DEF AppEnds, BackendInv, history
  <1>4. CASE QuitAndInstallThrows
    BY <1>4 DEF QuitAndInstallThrows, BackendInv, history
  <1>5. CASE QuitAndInstall
    BY <1>5 DEF QuitAndInstall, BackendInv, history
  <1>6. CASE \E c \in DOMAIN children : ChildEnds(c) \/ KillTimerFires(c)
    BY <1>6, EndKeeps, KillKeeps
  <1>7. CASE UNCHANGED <<app, closing, quitting, server, reopened>>
    BY <1>7 DEF BackendInv, server
  <1>8. UpdateFound \/ CheckFails \/ CheckForUpdates \/ DownloadUpdate \/ UpdateDownloaded
          \/ DownloadFails \/ UpdaterError \/ UNCHANGED vars
            => UNCHANGED <<app, closing, quitting, server, reopened>>
    BY DEF UpdateFound, CheckFails, CheckForUpdates, DownloadUpdate, UpdateDownloaded,
           DownloadFails, UpdaterError, Event, vars, history
  <1> QED
    BY <1>1, <1>2, <1>3, <1>4, <1>5, <1>6, <1>7, <1>8 DEF Next, Backend, Updates

(* However often backends crash, fail to start and are stopped to install: *)
(* no child runs that the application has lost, none after it is gone.     *)
THEOREM BackendsOwned == Spec => []BackendsAreOwned
PROOF
  <1>1. BackendInv => BackendsAreOwned
    BY DEF BackendInv, BackendsAreOwned, Children
  <1> QED
    BY <1>1, BackendStart, BackendStep, PTL DEF Spec
-----------------------------------------------------------------------------
(* The updater: an error state without an error outside of check and       *)
(* download is of a check, or of a download of nothing.                    *)
UpdateStates ==
    [status : {"idle", "checking", "available", "up-to-date", "downloading", "downloaded", "error"},
     available : BOOLEAN, downloaded : BOOLEAN, context : {"none", "check", "download", "install"}]

UpdateInv ==
    /\ update \in UpdateStates
    /\ checking => update.status = "checking"
    /\ downloading => update.status = "downloading"
    /\ update.status = "error" /\ ~outside =>
          \/ update.context = "check"
          \/ update.context = "download" /\ ~update.available
    /\ install = "stopping" =>
          quitting /\ ~checking /\ ~downloading /\ update.status # "available"

LEMMA UpdateStep == UpdateInv /\ [Next]_vars => UpdateInv'
PROOF
  <1> SUFFICES ASSUME UpdateInv, [Next]_vars PROVE UpdateInv'
    OBVIOUS
  <1>1. CASE CheckForUpdates
    BY <1>1 DEF UpdateInv, UpdateStates, Up, Event, CheckForUpdates, installer
  <1>2. CASE UpdateFound
    BY <1>2 DEF UpdateInv, UpdateStates, Up, Event, UpdateFound, installer
  <1>3. CASE CheckFails
    BY <1>3 DEF UpdateInv, UpdateStates, Up, Event, CheckFails, installer
  <1>4. CASE DownloadUpdate
    BY <1>4 DEF UpdateInv, UpdateStates, Up, Event, DownloadUpdate, CanDownload, installer
  <1>5. CASE UpdateDownloaded
    BY <1>5 DEF UpdateInv, UpdateStates, Up, Event, UpdateDownloaded, installer
  <1>6. CASE DownloadFails
    BY <1>6 DEF UpdateInv, UpdateStates, Up, Event, DownloadFails, installer
  <1>7. CASE UpdaterError
    BY <1>7 DEF UpdateInv, UpdateStates, Up, Event, UpdaterError, installer
  <1>8. CASE InstallUpdate
    BY <1>8 DEF UpdateInv, UpdateStates, Up, Event, InstallUpdate, CanInstall, updater, history
  <1>9. CASE QuitAndInstall
    BY <1>9 DEF UpdateInv, UpdateStates, Up, Event, QuitAndInstall, updater, history
  <1>10. CASE QuitAndInstallThrows
    BY <1>10 DEF UpdateInv, UpdateStates, Up, Event, QuitAndInstallThrows, BackendStopped
  <1>11. CASE UNCHANGED <<updater, installer, outside>> /\ (quitting => quitting')
    BY <1>11 DEF UpdateInv, UpdateStates, Up, Event, updater, installer
  <1>12. Backend \/ UNCHANGED vars
            => UNCHANGED <<updater, installer, outside>> /\ (quitting => quitting')
    BY DEF Backend, Bootstrap, RestartTimerFires, Quit, AppEnds, ChildEnds, KillTimerFires,
           vars, history
  <1> QED
    BY <1>1, <1>2, <1>3, <1>4, <1>5, <1>6, <1>7, <1>8, <1>9, <1>10, <1>11, <1>12
    DEF Next, Updates

(* Whatever fails in checks, downloads and installations: the main process *)
(* accepts what the button offers, and checks and downloads exclude each   *)
(* other, unless an error came outside of both.                            *)
THEOREM OffersAccepted == Spec => []OffersAreAccepted
PROOF
  <1>1. Init => UpdateInv
    BY DEF Init, UpdateInv, UpdateStates
  <1>2. UpdateInv => OffersAreAccepted
    BY DEF UpdateInv, OffersAreAccepted, Offered, CanDownload, CanInstall
  <1> QED
    BY <1>1, <1>2, UpdateStep, PTL DEF Spec
=============================================================================
