------------------------------ MODULE CrashRecords ------------------------------
(***************************************************************************)
(* The crash records: write_record and rotate run by the panic hook before *)
(* the process aborts, read_latest at the next launch, clear once the user *)
(* asked for a report (rivulet-core/src/crash_record.rs and the crash      *)
(* report of rivulet-gui/src/app.rs).                                      *)
(*                                                                         *)
(* A record is its file: the second in its name, and whether it was        *)
(* written completely.  A panic in the same second overwrites the file.  A *)
(* disk that is full leaves a torn file, and the early return then skips   *)
(* the rotation.  The user may set the clock back.                         *)
(***************************************************************************)
EXTENDS Naturals, FiniteSets

CONSTANTS MaxCrashRecords,  \* MAX_CRASH_RECORDS
          MaxCrashTime,     \* bound: seconds
          MaxCrashes        \* bound: panics

ASSUME CrashAssumption ==
  MaxCrashRecords \in Nat \ {0} /\ MaxCrashTime \in Nat \ {0} /\ MaxCrashes \in Nat

NoCrash == 0

VARIABLES
  crashFiles,      \* the records on disk: [at, intact]
  crashClock,      \* the system's clock, in seconds
  crashRunning,    \* the app is up
  crashPending,    \* crash_record_pending: the second of the crash it offers
  crashRequested,  \* crash_report_pending
  crashDue,        \* history: the newest crash on disk nobody has dealt with
  crashReported,   \* history: this run has handed a crash over
  crashClockBack,  \* history: the clock was set back
  crashes

crashVars == <<crashFiles, crashClock, crashRunning, crashPending, crashRequested,
               crashDue, crashReported, crashClockBack, crashes>>

CrashInit ==
  /\ crashFiles = {} /\ crashClock = 1
  /\ crashRunning = FALSE /\ crashPending = NoCrash /\ crashRequested = FALSE
  /\ crashDue = NoCrash /\ crashReported = FALSE /\ crashClockBack = FALSE
  /\ crashes = 0

-----------------------------------------------------------------------------
Newer(files, f) == {g \in files : g.at > f.at}

(* rotate: names sort by time; the newest MAX_CRASH_RECORDS files stay.    *)
RotatedFromTheEnd(files) ==
  {f \in files : Cardinality(files) - Cardinality(Newer(files, f)) <= MaxCrashRecords}
Rotated(files) == {f \in files : Cardinality(Newer(files, f)) < MaxCrashRecords}

(* read_latest: the newest record that parses.                             *)
LatestRecord(files) ==
  LET intact == {f \in files : f.intact}
  IN IF intact = {} THEN NoCrash
     ELSE (CHOOSE f \in intact : \A g \in intact : g.at <= f.at).at

CrashWritten(files, intact) ==
  {f \in files : f.at # crashClock} \cup {[at |-> crashClock, intact |-> intact]}

CrashTick ==
  /\ crashClock < MaxCrashTime /\ crashClock' = crashClock + 1
  /\ UNCHANGED <<crashFiles, crashRunning, crashPending, crashRequested, crashDue,
                 crashReported, crashClockBack, crashes>>

CrashClockSetBack ==
  /\ crashClock > 1 /\ crashClock' = crashClock - 1
  /\ crashClockBack' = TRUE
  /\ UNCHANGED <<crashFiles, crashRunning, crashPending, crashRequested, crashDue,
                 crashReported, crashes>>

CrashLaunch ==
  /\ ~crashRunning
  /\ crashRunning' = TRUE /\ crashReported' = FALSE /\ crashRequested' = FALSE
  /\ crashPending' = LatestRecord(crashFiles)
  /\ UNCHANGED <<crashFiles, crashClock, crashDue, crashClockBack, crashes>>

(* The user quits, or the system ends the process without a panic.         *)
CrashQuit ==
  /\ crashRunning /\ crashRunning' = FALSE
  /\ UNCHANGED <<crashFiles, crashClock, crashPending, crashRequested, crashDue,
                 crashReported, crashClockBack, crashes>>

(* A panic: the hook writes a record and the process aborts.               *)
CrashPanic ==
  /\ crashRunning /\ crashRunning' = FALSE
  /\ crashes < MaxCrashes /\ crashes' = crashes + 1
  /\ \/ /\ crashFiles' = Rotated(CrashWritten(crashFiles, TRUE))
        /\ crashDue' = crashClock
     \/ /\ crashFiles' = CrashWritten(crashFiles, FALSE)
        /\ crashDue' = LatestRecord(crashFiles')
     \/ UNCHANGED <<crashFiles, crashDue>>
  /\ UNCHANGED <<crashClock, crashPending, crashRequested, crashReported, crashClockBack>>

(* request_crash_report: the menu's entry or the button of the settings.   *)
RequestCrashReport ==
  /\ crashRunning /\ crashRequested' = TRUE
  /\ UNCHANGED <<crashFiles, crashClock, crashRunning, crashPending, crashDue,
                 crashReported, crashClockBack, crashes>>

(* reconcile_crash_report: a crash that was offered is handed over, and    *)
(* every record is deleted; a file that cannot be deleted stays.           *)
ReconcileCrashReport ==
  /\ crashRunning /\ crashRequested /\ crashRequested' = FALSE
  /\ IF crashPending = NoCrash
     THEN UNCHANGED <<crashFiles, crashPending, crashDue, crashReported>>
     ELSE /\ crashPending' = NoCrash /\ crashReported' = TRUE
          /\ \E stuck \in SUBSET crashFiles : crashFiles' = stuck
          /\ crashDue' = LatestRecord(crashFiles')
  /\ UNCHANGED <<crashClock, crashRunning, crashClockBack, crashes>>

CrashNext ==
  \/ CrashTick \/ CrashClockSetBack
  \/ CrashLaunch \/ CrashQuit \/ CrashPanic
  \/ RequestCrashReport \/ ReconcileCrashReport

CrashSpec == CrashInit /\ [][CrashNext]_crashVars

-----------------------------------------------------------------------------
(* Properties.                                                             *)

CrashTypeOK ==
  /\ crashFiles \subseteq [at : 1..MaxCrashTime, intact : BOOLEAN]
  /\ crashClock \in 1..MaxCrashTime
  /\ crashPending \in 0..MaxCrashTime /\ crashDue \in 0..MaxCrashTime
  /\ {crashRunning, crashRequested, crashReported, crashClockBack} \subseteq BOOLEAN
  /\ crashes \in 0..MaxCrashes

(* Unless the clock was set back, a running app offers the newest crash    *)
(* whose record reached the disk, until it is handed over: neither the     *)
(* rotation nor a torn record hides it, over any number of launches.       *)
CrashOffered ==
  crashRunning /\ ~crashReported /\ ~crashClockBack => crashPending = crashDue
=============================================================================
