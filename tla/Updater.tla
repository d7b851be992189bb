-------------------------------- MODULE Updater --------------------------------
(***************************************************************************)
(* Updating Rivulet: the state machine of the Settings view with its       *)
(* background threads (UpdateUi in rivulet-gui/src/app.rs), download,      *)
(* verification and start of the installer (rivulet-updater/src/lib.rs),   *)
(* and the watchdog that runs it on Windows once the GUI is gone           *)
(* (rivulet-updater/src/bin/rivulet-updater.rs).                           *)
(*                                                                         *)
(* The installer has the same name in every release, so all downloads go   *)
(* to one file.  Releases are numbered; the one that runs is 0.  Progress, *)
(* the copy the watchdog makes of itself, and what a Rivulet started again *)
(* meanwhile would do, are left out.                                       *)
(***************************************************************************)
EXTENDS Naturals, FiniteSets

CONSTANTS UpdaterPlatforms,  \* a subset of {"windows", "linux", "macos"}
          MaxReleases,       \* bound: releases published
          MaxUpdaterClicks   \* bound: buttons pressed

ASSUME UpdaterAssumption ==
  /\ UpdaterPlatforms \subseteq {"windows", "linux", "macos"}
  /\ MaxReleases \in Nat /\ MaxUpdaterClicks \in Nat

UpdaterThreads == 1..2

VARIABLES
  updaterPlatform,
  updaterUi,        \* update_ui
  updaterThread,    \* the background threads
  updaterClicks,    \* update_check_clicked, update_download_clicked, update_install_clicked
  updaterAuto,      \* update_auto_checked
  updaterSettings,  \* whether the Settings view is shown
  updaterGui,       \* whether the GUI's process runs
  updaterFile,      \* the downloaded file; release 0: none
  updaterDog,       \* the watchdog's process, or msiexec without it
  updaterLatest,    \* the newest release
  updaterPressed    \* how much of the bound is used

updaterGuiVars == <<updaterUi, updaterThread, updaterClicks, updaterAuto, updaterSettings, updaterGui, updaterPressed>>
updaterVars == <<updaterPlatform, updaterGuiVars, updaterFile, updaterDog, updaterLatest>>

NoThread == [task |-> "none", release |-> 0]
NoFile   == [release |-> 0, state |-> "none"]
NoDog    == [phase |-> "none", release |-> 0]
Ui(state, release) == [state |-> state, release |-> release]

UpdaterInit ==
  /\ updaterPlatform \in UpdaterPlatforms
  /\ updaterUi = Ui("idle", 0)
  /\ updaterThread = [t \in UpdaterThreads |-> NoThread]
  /\ updaterClicks = {} /\ updaterAuto = FALSE /\ updaterSettings = FALSE /\ updaterGui = TRUE
  /\ updaterFile = NoFile /\ updaterDog = NoDog
  /\ updaterLatest = 0 /\ updaterPressed = 0

UpdaterPublish ==
  /\ updaterLatest < MaxReleases /\ updaterLatest' = updaterLatest + 1
  /\ UNCHANGED <<updaterPlatform, updaterGuiVars, updaterFile, updaterDog>>

-----------------------------------------------------------------------------
(* The GUI's thread.                                                       *)

UpdaterView ==
  /\ updaterGui /\ updaterSettings' = ~updaterSettings
  /\ UNCHANGED <<updaterPlatform, updaterUi, updaterThread, updaterClicks, updaterAuto, updaterGui,
                 updaterPressed, updaterFile, updaterDog, updaterLatest>>

\* The process ends, and its threads with it.
UpdaterQuit ==
  /\ updaterGui /\ updaterGui' = FALSE
  /\ updaterThread' = [t \in UpdaterThreads |-> NoThread]
  /\ UNCHANGED <<updaterPlatform, updaterUi, updaterClicks, updaterAuto, updaterSettings,
                 updaterPressed, updaterFile, updaterDog, updaterLatest>>

\* The buttons that draw_update_status and the view show.
Buttons ==
  {"check"} \cup (IF updaterUi.state = "available" THEN {"download"} ELSE {})
            \cup (IF updaterUi.state = "downloaded" THEN {"install"} ELSE {})

\* Mutant: a check does not count as being busy.
BusyWritingOnly == updaterUi.state \in {"downloading", "installing"}

UpdaterBusy == updaterUi.state \in {"checking", "downloading", "installing"}

\* spawn_update_check, spawn_update_download or spawn_update_install.
Spawn(state, task, release) ==
  /\ updaterUi' = Ui(state, release)
  /\ \E t \in UpdaterThreads :
       /\ updaterThread[t] = NoThread
       /\ updaterThread' = [updaterThread EXCEPT ![t] = [task |-> task, release |-> release]]

\* handle_update_actions, for the flags that are set: a check that is started
\* makes the others come to nothing.
HandleUpdateActions(flags) ==
  IF UpdaterBusy
  THEN updaterClicks' = flags /\ UNCHANGED <<updaterUi, updaterThread, updaterAuto>>
  ELSE /\ updaterClicks' = {} /\ updaterAuto' = TRUE
       /\ IF ~updaterAuto \/ "check" \in flags THEN Spawn("checking", "check", 0)
          ELSE IF "download" \in flags /\ updaterUi.state = "available"
          THEN Spawn("downloading", "download", updaterUi.release)
          ELSE IF "install" \in flags /\ updaterUi.state = "downloaded"
          THEN Spawn("installing", "install", updaterUi.release)
          ELSE UNCHANGED <<updaterUi, updaterThread>>

\* A frame of the Settings view.  A button reacts once a frame has shown it, so
\* not in the frame that starts the first check.  Once the installer has been
\* started, drawing closes the window instead, on every platform.
UpdaterFrame(pressed) ==
  /\ updaterGui /\ updaterSettings /\ updaterUi.state # "installed"
  /\ pressed \subseteq Buttons /\ (~updaterAuto => pressed = {})
  /\ updaterPressed + Cardinality(pressed) <= MaxUpdaterClicks
  /\ updaterPressed' = updaterPressed + Cardinality(pressed)
  /\ HandleUpdateActions(updaterClicks \cup pressed)
  /\ UNCHANGED <<updaterPlatform, updaterSettings, updaterGui, updaterFile, updaterDog, updaterLatest>>

UpdaterClose == updaterSettings /\ updaterUi.state = "installed" /\ UpdaterQuit

-----------------------------------------------------------------------------
(* The background threads; each ends by setting the state.                 *)

Running(t, task) ==
  /\ updaterThread[t].task = task
  /\ UNCHANGED <<updaterPlatform, updaterClicks, updaterAuto, updaterSettings, updaterGui,
                 updaterPressed, updaterLatest>>

Becomes(t, task) == updaterThread' = [updaterThread EXCEPT ![t].task = task] /\ UNCHANGED updaterUi
Ends(t, state, release) == updaterThread' = [updaterThread EXCEPT ![t] = NoThread] /\ updaterUi' = Ui(state, release)

\* check_for_update; a release may lack an installer for the platform.
UpdaterChecked(t) ==
  /\ Running(t, "check") /\ UNCHANGED <<updaterFile, updaterDog>>
  /\ \/ Ends(t, "error", 0)
     \/ Ends(t, IF updaterLatest = 0 THEN "uptodate" ELSE "available", updaterLatest)
     \/ updaterLatest # 0 /\ Ends(t, "noasset", updaterLatest)

\* download_asset_with_progress: the file is truncated, then filled.
UpdaterDownload(t) ==
  LET r == updaterThread[t].release
  IN /\ Running(t, "download") /\ UNCHANGED updaterDog
     /\ \/ Ends(t, "error", 0) /\ UNCHANGED updaterFile
        \/ updaterFile' = [release |-> r, state |-> "partial"] /\ Becomes(t, "fill")

UpdaterFill(t) ==
  LET r == updaterThread[t].release
  IN /\ Running(t, "fill") /\ UNCHANGED updaterDog
     /\ \/ Ends(t, "error", 0) /\ UNCHANGED updaterFile
        \/ \E s \in {"good", "bad"} : updaterFile' = [release |-> r, state |-> s] /\ Becomes(t, "verify")

\* verify_downloaded_asset: by the manifest of the release's own tag, which may
\* not be had.
UpdaterVerify(t) ==
  LET r == updaterThread[t].release
  IN /\ Running(t, "verify") /\ UNCHANGED <<updaterFile, updaterDog>>
     /\ \/ Ends(t, "error", 0)
        \/ updaterFile = [release |-> r, state |-> "good"] /\ Ends(t, "downloaded", r)

\* install_asset_with_watch: the watchdog, or msiexec where there is none, or
\* the platform's own way; a failure to start any of them is an error.
UpdaterInstall(t) ==
  LET r == updaterThread[t].release
  IN /\ Running(t, "install")
     /\ \/ Ends(t, "error", 0) /\ UNCHANGED <<updaterFile, updaterDog>>
        \/ /\ updaterPlatform = "windows" /\ Ends(t, "installed", r) /\ UNCHANGED updaterFile
           /\ \E p \in {"wait", "msi"} : updaterDog' = [phase |-> p, release |-> r]
        \/ /\ updaterPlatform = "linux" /\ Becomes(t, "child") /\ UNCHANGED <<updaterFile, updaterDog>>
        \/ /\ updaterPlatform = "macos" /\ Ends(t, "installed", r)
           /\ updaterFile' = NoFile /\ UNCHANGED updaterDog

\* The AppImage that was started has exited.
UpdaterChild(t) ==
  LET r == updaterThread[t].release
  IN /\ Running(t, "child") /\ UNCHANGED <<updaterFile, updaterDog>>
     /\ Ends(t, "error", 0) \/ Ends(t, "installed", r)

-----------------------------------------------------------------------------
(* The watchdog.                                                           *)

Dog(from, dog) ==
  /\ updaterDog.phase = from /\ updaterDog' = dog
  /\ UNCHANGED <<updaterPlatform, updaterGuiVars, updaterFile, updaterLatest>>

\* wait_for_exit: the GUI's process ends, or a minute passes and the
\* installation begins all the same.
UpdaterDogWaits == Dog("wait", [updaterDog EXCEPT !.phase = "grace"])

\* After EXIT_GRACE, run_msi to its end.
UpdaterDogRuns ==
  \/ Dog("grace", [updaterDog EXCEPT !.phase = "msi"])
  \/ Dog("msi", NoDog)

UpdaterThreadStep(t) ==
  \/ UpdaterChecked(t) \/ UpdaterDownload(t) \/ UpdaterFill(t) \/ UpdaterVerify(t)
  \/ UpdaterInstall(t) \/ UpdaterChild(t)

UpdaterNext ==
  \/ UpdaterPublish \/ UpdaterView \/ UpdaterQuit \/ UpdaterClose
  \/ \E pressed \in SUBSET Buttons : UpdaterFrame(pressed)
  \/ \E t \in UpdaterThreads : UpdaterThreadStep(t)
  \/ UpdaterDogWaits \/ UpdaterDogRuns

UpdaterSpec == UpdaterInit /\ [][UpdaterNext]_updaterVars
-----------------------------------------------------------------------------
\* The releases whose installer runs or is about to.
Installing ==
  {updaterThread[t].release : t \in {u \in UpdaterThreads : updaterThread[u].task \in {"install", "child"}}}
    \cup (IF updaterDog.phase = "none" THEN {} ELSE {updaterDog.release})

UpdaterTypeOK ==
  /\ updaterUi \in [state : {"idle", "checking", "uptodate", "available", "noasset", "downloading",
                              "downloaded", "installing", "installed", "error"}, release : 0..MaxReleases]
  /\ updaterThread \in [UpdaterThreads -> [task : {"none", "check", "download", "fill", "verify", "install", "child"},
                                           release : 0..MaxReleases]]
  /\ updaterClicks \subseteq {"check", "download", "install"}
  /\ updaterFile \in [release : 0..MaxReleases, state : {"none", "partial", "good", "bad"}]
  /\ updaterDog \in [phase : {"none", "wait", "grace", "msi"}, release : 0..MaxReleases]

\* "A failed verification surfaces as an error and the installer is never
\* started": from the click to the end of the installation the file is the
\* complete, verified one of the release shown, newer than the running one,
\* whatever was checked, clicked or downloaded before, after or meanwhile.
InstallsVerified ==
  \A r \in Installing : r > 0 /\ updaterFile = [release |-> r, state |-> "good"]
=============================================================================
