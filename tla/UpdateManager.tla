----------------------------- MODULE UpdateManager -----------------------------
(***************************************************************************)
(* The update lifecycle of a release build (internal/update/manager.go,    *)
(* with the download and apply steps it drives).                           *)
(*                                                                         *)
(* The manager has one mutex and a busy flag; network and installer work   *)
(* runs outside the mutex.  A call, or the goroutine a check starts, is a  *)
(* thread here, and a critical section of the mutex is one action.  Checks *)
(* and downloads take busy; installs do not.                               *)
(*                                                                         *)
(* Versions are numbers, which is how CompareStable orders them.  A check  *)
(* may answer with any version (mirrors lag behind each other).  The       *)
(* policy is a setting read at each use and may change between two uses,   *)
(* so it is a choice at each of them.  Notes, progress, the mirror in use, *)
(* the failed step's name and the check time are left out.                 *)
(***************************************************************************)
EXTENDS Integers, FiniteSets

CONSTANTS Threads,    \* bound: the calls in flight at once
          MaxVersion  \* bound: the newest version a mirror may name

ASSUME UpdateAssumption == MaxVersion \in Nat \ {0}

VARIABLES version,     \* the build that is running
          installed,   \* the build the next launch runs
          installable, \* location.CanInstall()
          phase,       \* state.Phase
          latest,      \* state.LatestVersion, 0 for none
          pending,     \* the phase as last published to the window
          memory,      \* m.memory: the release that is ready, the one skipped
          persisted,   \* update.json
          disk,        \* versions whose verified package is in the directory
          busy,        \* m.busy
          threads,     \* the calls in flight
          raced        \* an install dropped its package under a running download

vars == <<version, installed, installable, phase, latest, pending, memory, persisted,
          disk, busy, threads, raced>>

Versions == 1..MaxVersion
Phases == {"idle", "checking", "available", "downloading", "ready", "installing", "error"}
Memory == [ready : Versions \cup {0}, skipped : Versions \cup {0}]
NoMemory == [ready |-> 0, skipped |-> 0]

CheckSteps == {"check"}
FetchSteps == {"fetch", "copy", "fetched", "failed", "cancelled"}
ApplySteps == {"apply", "applying", "applied"}
Steps == {"none", "resolve", "start", "unwind"} \cup CheckSteps \cup FetchSteps \cup ApplySteps
Thread == [at : Steps, v : Versions \cup {0}, manual : BOOLEAN, stop : BOOLEAN, quit : BOOLEAN]
NoThread == [at |-> "none", v |-> 0, manual |-> FALSE, stop |-> FALSE, quit |-> FALSE]

TypeOK ==
    /\ version \in 0..MaxVersion /\ installed \in 0..MaxVersion
    /\ latest \in 0..MaxVersion
    /\ phase \in Phases /\ pending \in Phases
    /\ memory \in Memory /\ persisted \in Memory
    /\ disk \subseteq Versions
    /\ {installable, busy, raced} \subseteq BOOLEAN
    /\ threads \in [Threads -> Thread]

--------------------------------------------------------------------------------
(* Helpers. *)

Spawn(t, step, v) == threads' = [threads EXCEPT ![t] = [NoThread EXCEPT !.at = step, !.v = v]]
Goto(t, step) == threads' = [threads EXCEPT ![t].at = step]
End(t) == threads' = [threads EXCEPT ![t] = NoThread]
Running(steps) == {t \in Threads : threads[t].at \in steps}

(* Set the phase and publish the state. *)
Publish(p) == phase' = p /\ pending' = p

(* writeMemory: a failure is ignored, and one halfway through leaves a file
   readMemory reads as nothing remembered. *)
WriteMemory == persisted' \in {memory', persisted, NoMemory}

Remembered == UNCHANGED <<memory, persisted>>
Build == <<version, installed, installable>>

--------------------------------------------------------------------------------
(* Check, from a button or from the schedule. *)
Check(t, manual) ==
    /\ threads[t] = NoThread
    /\ ~busy
    /\ busy' = TRUE
    /\ Publish("checking")
    /\ threads' = [threads EXCEPT ![t] = [NoThread EXCEPT !.at = "check", !.manual = manual]]
    /\ Remembered
    /\ UNCHANGED <<Build, latest, disk, raced>>

CheckFailed(t) ==
    /\ threads[t].at = "check"
    /\ busy' = FALSE
    /\ UNCHANGED memory /\ WriteMemory
    /\ Publish("error")
    /\ End(t)
    /\ UNCHANGED <<Build, latest, disk, raced>>

CheckNothingNewer(t) ==
    /\ threads[t].at = "check"
    /\ busy' = FALSE
    /\ UNCHANGED memory /\ WriteMemory
    /\ Publish("idle")
    /\ latest' = 0
    /\ End(t)
    /\ UNCHANGED <<Build, disk, raced>>

(* downloads: whether the policy fetches without being asked. *)
CheckFound(t, v, downloads) ==
    /\ threads[t].at = "check"
    /\ v > version
    /\ busy' = FALSE
    /\ latest' = v
    /\ memory' = [memory EXCEPT !.skipped = IF threads[t].manual /\ @ = v THEN 0 ELSE @]
    /\ WriteMemory
    /\ LET kept == phase = "ready" /\ memory.ready = v
       IN /\ Publish(IF kept THEN "ready" ELSE "available")
          /\ IF ~kept /\ downloads /\ installable /\ v # memory'.skipped
             THEN Spawn(t, "start", v)
             ELSE End(t)
    /\ UNCHANGED <<Build, disk, raced>>

--------------------------------------------------------------------------------
(* Download with the zero Result: the button, which looks the release up first. *)
DownloadButton(t) ==
    /\ threads[t] = NoThread
    /\ Spawn(t, "resolve", 0)
    /\ Remembered
    /\ UNCHANGED <<Build, phase, latest, pending, disk, busy, raced>>

ResolveFailed(t) ==
    /\ threads[t].at = "resolve"
    /\ Publish("error")
    /\ End(t)
    /\ Remembered
    /\ UNCHANGED <<Build, latest, disk, busy, raced>>

(* rememberMirror writes the memory; a release that is not newer ends the call. *)
Resolved(t, v) ==
    /\ threads[t].at = "resolve"
    /\ UNCHANGED memory /\ WriteMemory
    /\ IF v > version THEN Spawn(t, "start", v) ELSE End(t)
    /\ UNCHANGED <<Build, phase, latest, pending, disk, busy, raced>>

(* Download from its lock on. *)
DownloadBusy(t) ==
    /\ threads[t].at = "start"
    /\ busy
    /\ End(t)
    /\ Remembered
    /\ UNCHANGED <<Build, phase, latest, pending, disk, busy, raced>>

DownloadRefused(t) ==
    /\ threads[t].at = "start"
    /\ ~busy /\ ~installable
    /\ Publish("error")
    /\ End(t)
    /\ Remembered
    /\ UNCHANGED <<Build, latest, disk, busy, raced>>

(* Mutants: the release of the last check stays on show; busy is not looked at. *)
StartDownloadUnnamed(t) ==
    /\ threads[t].at = "start"
    /\ ~busy /\ installable
    /\ busy' = TRUE
    /\ Publish("downloading")
    /\ Goto(t, "fetch")
    /\ Remembered
    /\ UNCHANGED <<Build, latest, disk, raced>>

StartDownloadAnyway(t) ==
    /\ threads[t].at = "start"
    /\ installable
    /\ busy' = TRUE
    /\ Publish("downloading")
    /\ latest' = threads[t].v
    /\ Goto(t, "fetch")
    /\ Remembered
    /\ UNCHANGED <<Build, disk, raced>>

StartDownload(t) ==
    /\ threads[t].at = "start"
    /\ ~busy /\ installable
    /\ busy' = TRUE
    /\ Publish("downloading")
    /\ latest' = threads[t].v
    /\ Goto(t, "fetch")
    /\ Remembered
    /\ UNCHANGED <<Build, disk, raced>>

(* fetch: no package for this platform, or sweep the others and copy. *)
FetchUnlisted(t) ==
    /\ threads[t].at = "fetch"
    /\ Goto(t, "failed")
    /\ Remembered
    /\ UNCHANGED <<Build, phase, latest, pending, disk, busy, raced>>

Sweep(t) ==
    /\ threads[t].at = "fetch"
    /\ disk' = disk \cap {threads[t].v}
    /\ Goto(t, "copy")
    /\ Remembered
    /\ UNCHANGED <<Build, phase, latest, pending, busy, raced>>

(* The digest matched and the partial file was renamed into place. *)
CopyDone(t) ==
    /\ threads[t].at = "copy"
    /\ disk' = disk \cup {threads[t].v}
    /\ Goto(t, "fetched")
    /\ Remembered
    /\ UNCHANGED <<Build, phase, latest, pending, busy, raced>>

(* Every mirror failed; the last may have got as far as removing the old file. *)
CopyFailed(t) ==
    /\ threads[t].at = "copy"
    /\ disk' \in {disk, disk \ {threads[t].v}}
    /\ Goto(t, "failed")
    /\ Remembered
    /\ UNCHANGED <<Build, phase, latest, pending, busy, raced>>

CopyCancelled(t) ==
    /\ threads[t].at = "copy"
    /\ threads[t].stop
    /\ Goto(t, "cancelled")
    /\ Remembered
    /\ UNCHANGED <<Build, phase, latest, pending, disk, busy, raced>>

(* Mutant: a cancel returns without touching the phase. *)
FinishDownloadQuietly(t) ==
    /\ \/ /\ threads[t].at = "fetched"
          /\ memory' = [memory EXCEPT !.ready = threads[t].v]
          /\ WriteMemory
          /\ Publish("ready")
       \/ threads[t].at = "failed" /\ Publish("error") /\ Remembered
       \/ threads[t].at = "cancelled" /\ UNCHANGED <<phase, pending>> /\ Remembered
    /\ Goto(t, "unwind")
    /\ UNCHANGED <<Build, latest, disk, busy, raced>>

(* The rest of Download; busy is only released by the deferred section. *)
FinishDownload(t) ==
    /\ \/ /\ threads[t].at = "fetched"
          /\ memory' = [memory EXCEPT !.ready = threads[t].v]
          /\ WriteMemory
          /\ Publish("ready")
       \/ /\ threads[t].at = "failed"
          /\ Publish("error")
          /\ Remembered
       \/ /\ threads[t].at = "cancelled"
          /\ Publish("available")
          /\ Remembered
    /\ Goto(t, "unwind")
    /\ UNCHANGED <<Build, latest, disk, busy, raced>>

Unwind(t) ==
    /\ threads[t].at = "unwind"
    /\ busy' = FALSE
    /\ End(t)
    /\ Remembered
    /\ UNCHANGED <<Build, phase, latest, pending, disk, raced>>

Cancel(t) ==
    /\ threads[t].at \in FetchSteps
    /\ threads' = [threads EXCEPT ![t].stop = TRUE]
    /\ Remembered
    /\ UNCHANGED <<Build, phase, latest, pending, disk, busy, raced>>

--------------------------------------------------------------------------------
(* Install, and InstallOnQuit under the auto policy: the phase stays ready. *)
Install(t) ==
    /\ threads[t] = NoThread
    /\ phase = "ready" /\ memory.ready # 0
    /\ Publish("installing")
    /\ Spawn(t, "apply", memory.ready)
    /\ Remembered
    /\ UNCHANGED <<Build, latest, disk, busy, raced>>

InstallOnQuit(t) ==
    /\ threads[t] = NoThread
    /\ phase = "ready" /\ memory.ready # 0
    /\ threads' = [threads EXCEPT ![t] = [NoThread EXCEPT !.at = "apply", !.v = memory.ready,
                                                          !.quit = TRUE]]
    /\ Remembered
    /\ UNCHANGED <<Build, phase, latest, pending, disk, busy, raced>>

(* Apply: the package is there, and is opened. *)
ApplyOpened(t) ==
    /\ threads[t].at = "apply"
    /\ threads[t].v \in disk
    /\ Goto(t, "applying")
    /\ Remembered
    /\ UNCHANGED <<Build, phase, latest, pending, disk, busy, raced>>

(* Mutant: a failed install sets the phase and does not publish it. *)
ApplyFailedUntold(t) ==
    /\ threads[t].at \in {"apply", "applying"}
    /\ phase' = IF threads[t].quit THEN phase ELSE "error"
    /\ End(t)
    /\ Remembered
    /\ UNCHANGED <<Build, latest, pending, disk, busy, raced>>

ApplyFailed(t) ==
    /\ threads[t].at \in {"apply", "applying"}
    /\ IF threads[t].quit THEN UNCHANGED <<phase, pending>> ELSE Publish("error")
    /\ End(t)
    /\ Remembered
    /\ UNCHANGED <<Build, latest, disk, busy, raced>>

ApplyDone(t) ==
    /\ threads[t].at = "applying"
    /\ installed' = threads[t].v
    /\ Goto(t, "applied")
    /\ Remembered
    /\ UNCHANGED <<version, installable, phase, latest, pending, disk, busy, raced>>

(* forgetReady, which drops whatever is ready by now and publishes nothing. *)
ForgetReady(t) ==
    /\ threads[t].at = "applied"
    /\ disk' = disk \ {memory.ready}
    /\ memory' = [memory EXCEPT !.ready = 0]
    /\ WriteMemory
    /\ phase' = "idle"
    /\ raced' = (raced \/ Running({"copy", "fetched"}) # {})
    /\ End(t)
    /\ UNCHANGED <<Build, latest, pending, busy>>

Skip(v) ==
    /\ memory' = [memory EXCEPT !.skipped = v]
    /\ WriteMemory
    /\ Publish(phase)
    /\ UNCHANGED <<Build, latest, disk, busy, threads, raced>>

(* Mutant: the package of the running build is still an update. *)
RestartOffersCurrent ==
    /\ version' = installed
    /\ LET ready == persisted.ready
           good == ready \in disk /\ ready >= installed
       IN /\ phase' = IF good THEN "ready" ELSE "idle"
          /\ latest' = IF good THEN ready ELSE 0
          /\ memory' = IF good THEN persisted ELSE [persisted EXCEPT !.ready = 0]
          /\ IF ready = 0 \/ good
             THEN UNCHANGED <<disk, persisted>>
             ELSE disk' = disk \ {ready} /\ WriteMemory
    /\ pending' = phase'
    /\ busy' = FALSE
    /\ threads' = [t \in Threads |-> NoThread]
    /\ raced' = FALSE
    /\ UNCHANGED <<installed, installable>>

(* The process ends at any point; New and restoreReady of the next launch. *)
Restart ==
    /\ version' = installed
    /\ LET ready == persisted.ready
           good == ready \in disk /\ ready > installed
       IN /\ phase' = IF good THEN "ready" ELSE "idle"
          /\ latest' = IF good THEN ready ELSE 0
          /\ memory' = IF good THEN persisted ELSE [persisted EXCEPT !.ready = 0]
          /\ IF ready = 0 \/ good
             THEN UNCHANGED <<disk, persisted>>
             ELSE disk' = disk \ {ready} /\ WriteMemory
    /\ pending' = phase'
    /\ busy' = FALSE
    /\ threads' = [t \in Threads |-> NoThread]
    /\ raced' = FALSE
    /\ UNCHANGED <<installed, installable>>

--------------------------------------------------------------------------------
Init ==
    /\ version = 0 /\ installed = 0
    /\ installable \in BOOLEAN
    /\ phase = "idle" /\ pending = "idle"
    /\ latest = 0
    /\ memory = NoMemory /\ persisted = NoMemory
    /\ disk = {}
    /\ busy = FALSE
    /\ threads = [t \in Threads |-> NoThread]
    /\ raced = FALSE

(* A call in flight goes on. *)
ThreadStep(t) ==
    \/ CheckFailed(t) \/ CheckNothingNewer(t)
    \/ \E v \in Versions, downloads \in BOOLEAN : CheckFound(t, v, downloads)
    \/ ResolveFailed(t) \/ \E v \in Versions : Resolved(t, v)
    \/ DownloadBusy(t) \/ DownloadRefused(t) \/ StartDownload(t)
    \/ FetchUnlisted(t) \/ Sweep(t)
    \/ CopyDone(t) \/ CopyFailed(t) \/ CopyCancelled(t)
    \/ FinishDownload(t) \/ Unwind(t)
    \/ ApplyOpened(t) \/ ApplyFailed(t) \/ ApplyDone(t) \/ ForgetReady(t)

(* The schedule, the window and the shutdown hook. *)
NewCall(t) ==
    \/ \E manual \in BOOLEAN : Check(t, manual)
    \/ DownloadButton(t) \/ Install(t) \/ InstallOnQuit(t)

Next ==
    \/ \E t \in Threads : ThreadStep(t) \/ NewCall(t) \/ Cancel(t)
    \/ \E v \in Versions : Skip(v)
    \/ Restart

Spec == Init /\ [][Next]_vars

(* Every network call and every installer call ends: a check has RaceTimeout,
   an install installTimeout, and a download ends with its body. *)
LiveSpec == Spec /\ \A t \in Threads : WF_vars(ThreadStep(t))

--------------------------------------------------------------------------------
(* Properties. *)

(* Ready means a verified package is waiting: whatever was swept, failed,
   cancelled, restarted or not written, it is still on disk, and it is newer
   than the build that runs.  The exception is an install that ended under a
   running download. *)
ReadyIsInstallable ==
    phase = "ready" =>
        /\ memory.ready > version
        /\ memory.ready \in disk \/ raced

(* The same without the exception, as the comment on PhaseReady has it. *)
ReadyHasPackage == phase = "ready" => memory.ready \in disk

(* The release the window offers to install is the one that would be. *)
OfferedIsReady == phase = "ready" => latest = memory.ready

(* Checks and downloads never overlap, so one download never sweeps what
   another is writing, and busy is neither stuck nor released early. *)
OneAtATime ==
    Cardinality(Running(CheckSteps \cup FetchSteps \cup {"unwind"})) = IF busy THEN 1 ELSE 0

(* A phase that shows work in progress has that work behind it, although
   installs run beside checks and downloads and each sets the phase. *)
PhaseHasWork ==
    /\ phase = "checking" => Running(CheckSteps) # {}
    /\ phase = "downloading" => Running(FetchSteps) # {}
    /\ phase = "installing" => Running(ApplySteps) # {}

(* The window was told of the phase, but for a package that has been applied. *)
WindowIsTold == pending = phase \/ phase = "idle"

(* Whatever the manager is doing, it comes to an end. *)
Settles == phase \in {"checking", "downloading", "installing"} ~>
               phase \notin {"checking", "downloading", "installing"}
================================================================================
