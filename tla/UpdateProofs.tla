------------------------------ MODULE UpdateProofs ------------------------------
(* For any number of calls in flight and releases: the update manager's work never
   overlaps, a phase that shows work has a call that does it, and what the window offers
   to install is what is ready, newer than the build that runs, and on disk.

   None of these is inductive alone.  That the phase is ready only with a package rests
   on what each download has in hand (Downloads), on no two of them running at once
   (Exclusive), and on the phase not being ready while one runs. *)
EXTENDS MCUpdates, Sequences, FiniteSetTheorems, TLAPS

(* The steps a call holds busy in. *)
Working == CheckSteps \cup FetchSteps \cup {"unwind"}

(* busy has one call behind it. *)
Exclusive ==
    /\ \A t \in Threads : threads[t].at \in Working => busy
    /\ \A t, u \in Threads : threads[t].at \in Working /\ threads[u].at \in Working => t = u
    /\ busy => \E t \in Threads : threads[t].at \in Working

(* An install that shows is not the one made on quitting, which is silent. *)
PhaseHasDoer ==
    /\ phase = "checking" => \E t \in Threads : threads[t].at \in CheckSteps
    /\ phase = "downloading" => \E t \in Threads : threads[t].at \in FetchSteps
    /\ phase = "installing" =>
          \E t \in Threads : threads[t].at \in ApplySteps /\ ~threads[t].quit

(* What a check or a download in flight has in hand. *)
Downloads ==
    \A t \in Threads :
        /\ threads[t].at \in CheckSteps \cup FetchSteps => phase # "ready"
        /\ threads[t].at \in FetchSteps => latest = threads[t].v
        /\ threads[t].at \in FetchSteps \cup {"start"} => threads[t].v > version
        /\ threads[t].at = "fetched" => threads[t].v \in disk \/ raced

Safe ==
    /\ Exclusive /\ PhaseHasDoer /\ Downloads
    /\ ReadyIsInstallable /\ OfferedIsReady /\ WindowIsTold

USE DEF CheckSteps, FetchSteps, ApplySteps, Working

--------------------------------------------------------------------------------
(* Types. *)

(* A failed or interrupted write leaves a memory file that can be read. *)
LEMMA WriteMemoryType ==
    ASSUME persisted \in Memory, memory' \in Memory, WriteMemory
    PROVE  persisted' \in Memory
BY UpdateAssumption DEF WriteMemory, NoMemory, Memory, Versions

(* A thread at rest, and what a call makes of one, is a thread. *)
LEMMA NoThreadType == NoThread \in Thread
BY DEF Thread, NoThread, Steps

LEMMA ThreadType ==
    ASSUME threads \in [Threads -> Thread], NEW t \in Threads,
           NEW step \in Steps, NEW v \in Versions \cup {0}, NEW on \in BOOLEAN
    PROVE  /\ Spawn(t, step, v) \/ Goto(t, step) \/ End(t) => threads' \in [Threads -> Thread]
           /\ threads' = [threads EXCEPT ![t] = [NoThread EXCEPT !.at = step, !.manual = on]] =>
                 threads' \in [Threads -> Thread]
           /\ threads' = [threads EXCEPT ![t] = [NoThread EXCEPT !.at = step, !.v = v, !.quit
                 = on]] =>
                 threads' \in [Threads -> Thread]
           /\ threads' = [threads EXCEPT ![t].stop = on] => threads' \in [Threads -> Thread]
<1>1. /\ NoThread \in Thread
      /\ [NoThread EXCEPT !.at = step, !.v = v] \in Thread
      /\ [NoThread EXCEPT !.at = step, !.manual = on] \in Thread
      /\ [NoThread EXCEPT !.at = step, !.v = v, !.quit = on] \in Thread
  BY DEF Thread, NoThread, Steps
<1>2. threads[t] \in Thread
  OBVIOUS
<1>3. [threads[t] EXCEPT !.at = step] \in Thread /\ [threads[t] EXCEPT !.stop = on] \in Thread
  BY <1>2 DEF Thread
<1> QED BY <1>1, <1>3 DEF Spawn, Goto, End

(* Every step keeps the types.  That a package swept or written is a release's rests on
   what the download has in hand. *)
LEMMA TypeStep == TypeOK /\ Downloads /\ [Next]_vars => TypeOK'
<1> SUFFICES ASSUME TypeOK, Downloads, [Next]_vars PROVE TypeOK'
  OBVIOUS
<1> USE UpdateAssumption DEF TypeOK, Build, Publish, Phases, Versions
<1>1. ASSUME NEW t \in Threads, CheckFailed(t) PROVE TypeOK'
  BY <1>1, ThreadType, WriteMemoryType DEF CheckFailed, Steps
<1>2. ASSUME NEW t \in Threads, CheckNothingNewer(t) PROVE TypeOK'
  <2>1. memory' \in Memory /\ 0 \in 0..MaxVersion /\ WriteMemory
    BY <1>2 DEF CheckNothingNewer
  <2>2. persisted' \in Memory
    BY <2>1, WriteMemoryType
  <2>3. threads' \in [Threads -> Thread]
    BY <1>2, ThreadType DEF CheckNothingNewer, Steps
  <2> QED BY <1>2, <2>1, <2>2, <2>3 DEF CheckNothingNewer
<1>3. ASSUME NEW t \in Threads, NEW v \in Versions, NEW d \in BOOLEAN, CheckFound(t, v, d)
      PROVE TypeOK'
  <2>1. memory' \in Memory /\ v \in 0..MaxVersion /\ WriteMemory
    BY <1>3 DEF CheckFound, Memory
  <2>2. persisted' \in Memory
    BY <2>1, WriteMemoryType
  <2>3. Spawn(t, "start", v) \/ End(t)
    BY <1>3 DEF CheckFound
  <2>4. threads' \in [Threads -> Thread]
    BY <2>3, ThreadType DEF Steps
  <2>5. phase' \in Phases /\ pending' \in Phases
    BY <1>3 DEF CheckFound
  <2> QED BY <1>3, <2>1, <2>2, <2>4, <2>5 DEF CheckFound
<1>4. ASSUME NEW t \in Threads, ResolveFailed(t) PROVE TypeOK'
  BY <1>4, ThreadType DEF ResolveFailed, Remembered, Steps
<1>5. ASSUME NEW t \in Threads, NEW v \in Versions, Resolved(t, v) PROVE TypeOK'
  BY <1>5, ThreadType, WriteMemoryType DEF Resolved, Steps
<1>6. ASSUME NEW t \in Threads, DownloadBusy(t) PROVE TypeOK'
  BY <1>6, ThreadType DEF DownloadBusy, Remembered, Steps
<1>7. ASSUME NEW t \in Threads, DownloadRefused(t) PROVE TypeOK'
  BY <1>7, ThreadType DEF DownloadRefused, Remembered, Steps
<1>8. ASSUME NEW t \in Threads, StartDownload(t) PROVE TypeOK'
  <2>1. threads[t] \in Thread /\ threads[t].v \in 0..MaxVersion
    BY DEF Thread
  <2>2. threads' \in [Threads -> Thread]
    BY <1>8, ThreadType DEF StartDownload, Steps
  <2> QED BY <1>8, <2>1, <2>2 DEF StartDownload, Remembered
<1>9. ASSUME NEW t \in Threads, FetchUnlisted(t) PROVE TypeOK'
  BY <1>9, ThreadType DEF FetchUnlisted, Remembered, Steps
<1>10. ASSUME NEW t \in Threads, Sweep(t) PROVE TypeOK'
  BY <1>10, ThreadType DEF Sweep, Remembered, Steps, Thread
<1>11. ASSUME NEW t \in Threads, CopyDone(t) PROVE TypeOK'
  <2>1. threads[t].at = "copy" /\ threads[t].v \in Versions \cup {0}
    BY <1>11 DEF CopyDone, Thread
  <2>2. threads[t].v \in Versions
    BY <2>1 DEF Downloads
  <2>3. threads' \in [Threads -> Thread]
    BY <1>11, ThreadType DEF CopyDone, Steps
  <2> QED BY <1>11, <2>2, <2>3 DEF CopyDone, Remembered
<1>12. ASSUME NEW t \in Threads, CopyFailed(t) PROVE TypeOK'
  <2>1. threads' \in [Threads -> Thread]
    BY <1>12, ThreadType DEF CopyFailed, Steps
  <2> QED BY <1>12, <2>1 DEF CopyFailed, Remembered
<1>13. ASSUME NEW t \in Threads, CopyCancelled(t) PROVE TypeOK'
  BY <1>13, ThreadType DEF CopyCancelled, Remembered, Steps
<1>14. ASSUME NEW t \in Threads, FinishDownload(t) PROVE TypeOK'
  BY <1>14, ThreadType, WriteMemoryType DEF FinishDownload, Remembered, Steps, Memory, Thread
<1>15. ASSUME NEW t \in Threads, Unwind(t) PROVE TypeOK'
  BY <1>15, ThreadType DEF Unwind, Remembered, Steps
<1>16. ASSUME NEW t \in Threads, ApplyOpened(t) PROVE TypeOK'
  BY <1>16, ThreadType DEF ApplyOpened, Remembered, Steps, Thread
<1>17. ASSUME NEW t \in Threads, ApplyFailed(t) PROVE TypeOK'
  BY <1>17, ThreadType DEF ApplyFailed, Remembered, Steps
<1>18. ASSUME NEW t \in Threads, ApplyDone(t) PROVE TypeOK'
  <2>1. threads[t] \in Thread /\ threads[t].v \in 0..MaxVersion
    BY DEF Thread
  <2>2. threads' \in [Threads -> Thread]
    BY <1>18, ThreadType DEF ApplyDone, Steps
  <2> QED BY <1>18, <2>1, <2>2 DEF ApplyDone, Remembered
<1>19. ASSUME NEW t \in Threads, ForgetReady(t) PROVE TypeOK'
  BY <1>19, ThreadType, WriteMemoryType DEF ForgetReady, Steps, Memory
<1>20. ASSUME NEW t \in Threads, NEW m \in BOOLEAN, Check(t, m) PROVE TypeOK'
  BY <1>20, ThreadType DEF Check, Remembered, Steps
<1>21. ASSUME NEW t \in Threads, DownloadButton(t) PROVE TypeOK'
  BY <1>21, ThreadType DEF DownloadButton, Remembered, Steps
<1>22. ASSUME NEW t \in Threads, Install(t) PROVE TypeOK'
  BY <1>22, ThreadType DEF Install, Remembered, Steps, Memory
<1>23. ASSUME NEW t \in Threads, InstallOnQuit(t) PROVE TypeOK'
  BY <1>23, ThreadType DEF InstallOnQuit, Remembered, Steps, Memory
<1>24. ASSUME NEW t \in Threads, Cancel(t) PROVE TypeOK'
  BY <1>24, ThreadType DEF Cancel, Remembered, Steps
<1>25. ASSUME NEW v \in Versions, Skip(v) PROVE TypeOK'
  BY <1>25, WriteMemoryType DEF Skip, Memory
<1>26. ASSUME Restart PROVE TypeOK'
  <2>1. memory' \in Memory /\ persisted.ready \in 0..MaxVersion
    BY <1>26 DEF Restart, Memory
  <2>2. persisted' \in Memory
    BY <1>26, <2>1, WriteMemoryType DEF Restart
  <2>3. threads' \in [Threads -> Thread]
    BY <1>26, NoThreadType DEF Restart
  <2>4. phase' \in Phases /\ pending' \in Phases /\ latest' \in 0..MaxVersion /\ disk'
        \subseteq Versions
    BY <1>26, <2>1 DEF Restart
  <2> QED BY <1>26, <2>1, <2>2, <2>3, <2>4 DEF Restart
<1>27. CASE UNCHANGED vars
  BY <1>27 DEF vars
<1> QED BY <1>1, <1>2, <1>3, <1>4, <1>5, <1>6, <1>7, <1>8, <1>9, <1>10, <1>11, <1>12, <1>13,
      <1>14, <1>15, <1>16, <1>17, <1>18, <1>19, <1>20, <1>21, <1>22, <1>23, <1>24, <1>25,
      <1>26, <1>27 DEF Next, ThreadStep, NewCall

--------------------------------------------------------------------------------
(* Safety.  Every step keeps it. *)
LEMMA SafeStep == TypeOK /\ Safe /\ [Next]_vars => Safe'
<1> SUFFICES ASSUME TypeOK, Safe, [Next]_vars PROVE Safe'
  OBVIOUS
<1> USE UpdateAssumption DEF TypeOK, Safe, Build, Publish, Thread, NoThread, Versions, Memory
<1>1. ASSUME NEW t \in Threads, CheckFailed(t) PROVE Safe'
  BY <1>1 DEF CheckFailed, End, Exclusive, PhaseHasDoer, Downloads, ReadyIsInstallable,
        OfferedIsReady, WindowIsTold
<1>2. ASSUME NEW t \in Threads, CheckNothingNewer(t) PROVE Safe'
  BY <1>2 DEF CheckNothingNewer, End, Exclusive, PhaseHasDoer, Downloads, ReadyIsInstallable,
        OfferedIsReady, WindowIsTold
<1>3. ASSUME NEW t \in Threads, NEW v \in Versions, NEW d \in BOOLEAN, CheckFound(t, v, d)
      PROVE Safe'
  <2>1. /\ \A u \in Threads \ {t} : threads'[u] = threads[u]
        /\ threads'[t].at \in {"none", "start"}
        /\ threads'[t].at = "start" => threads'[t].v = v /\ v > version
    <3>1. Spawn(t, "start", v) \/ End(t)
      BY <1>3 DEF CheckFound
    <3>2. CASE End(t)
      BY <3>2 DEF End
    <3>3. CASE Spawn(t, "start", v)
      <4>1. v > version
        BY <1>3, <3>3 DEF CheckFound, Spawn, End
      <4> QED BY <3>3, <4>1 DEF Spawn
    <3> QED BY <3>1, <3>2, <3>3
  <2>2. Exclusive'
    BY <1>3, <2>1 DEF CheckFound, Exclusive
  <2>3. PhaseHasDoer'
    BY <1>3, <2>1 DEF CheckFound, PhaseHasDoer, Exclusive
  <2>4. Downloads'
    BY <1>3, <2>1 DEF CheckFound, Downloads, Exclusive
  <2>5. ReadyIsInstallable' /\ OfferedIsReady' /\ WindowIsTold'
    BY <1>3 DEF CheckFound, ReadyIsInstallable, OfferedIsReady, WindowIsTold
  <2> QED BY <2>2, <2>3, <2>4, <2>5
<1>4. ASSUME NEW t \in Threads, ResolveFailed(t) PROVE Safe'
  BY <1>4 DEF ResolveFailed, End, Remembered, Exclusive, PhaseHasDoer, Downloads,
        ReadyIsInstallable, OfferedIsReady, WindowIsTold
<1>5. ASSUME NEW t \in Threads, NEW v \in Versions, Resolved(t, v) PROVE Safe'
  <2>1. /\ \A u \in Threads \ {t} : threads'[u] = threads[u]
        /\ threads'[t].at \in {"none", "start"}
        /\ threads'[t].at = "start" => threads'[t].v = v /\ v > version
    <3>1. Spawn(t, "start", v) \/ End(t)
      BY <1>5 DEF Resolved
    <3>2. CASE End(t)
      BY <3>2 DEF End
    <3>3. CASE Spawn(t, "start", v)
      <4>1. v > version
        BY <1>5, <3>3 DEF Resolved, Spawn, End
      <4> QED BY <3>3, <4>1 DEF Spawn
    <3> QED BY <3>1, <3>2, <3>3
  <2>2. Exclusive'
    BY <1>5, <2>1 DEF Resolved, Exclusive
  <2>3. PhaseHasDoer'
    BY <1>5, <2>1 DEF Resolved, PhaseHasDoer, Exclusive
  <2>4. Downloads'
    BY <1>5, <2>1 DEF Resolved, Downloads, Exclusive
  <2>5. ReadyIsInstallable' /\ OfferedIsReady' /\ WindowIsTold'
    BY <1>5 DEF Resolved, ReadyIsInstallable, OfferedIsReady, WindowIsTold
  <2> QED BY <2>2, <2>3, <2>4, <2>5
<1>6. ASSUME NEW t \in Threads, DownloadBusy(t) PROVE Safe'
  BY <1>6 DEF DownloadBusy, End, Remembered, Exclusive, PhaseHasDoer, Downloads,
        ReadyIsInstallable, OfferedIsReady, WindowIsTold
<1>7. ASSUME NEW t \in Threads, DownloadRefused(t) PROVE Safe'
  BY <1>7 DEF DownloadRefused, End, Remembered, Exclusive, PhaseHasDoer, Downloads,
        ReadyIsInstallable, OfferedIsReady, WindowIsTold
<1>8. ASSUME NEW t \in Threads, StartDownload(t) PROVE Safe'
  BY <1>8 DEF StartDownload, Goto, Remembered, Exclusive, PhaseHasDoer, Downloads,
        ReadyIsInstallable, OfferedIsReady, WindowIsTold
<1>9. ASSUME NEW t \in Threads, FetchUnlisted(t) PROVE Safe'
  BY <1>9 DEF FetchUnlisted, Goto, Remembered, Exclusive, PhaseHasDoer, Downloads,
        ReadyIsInstallable, OfferedIsReady, WindowIsTold
<1>10. ASSUME NEW t \in Threads, Sweep(t) PROVE Safe'
  BY <1>10 DEF Sweep, Goto, Remembered, Exclusive, PhaseHasDoer, Downloads,
        ReadyIsInstallable, OfferedIsReady, WindowIsTold
<1>11. ASSUME NEW t \in Threads, CopyDone(t) PROVE Safe'
  BY <1>11 DEF CopyDone, Goto, Remembered, Exclusive, PhaseHasDoer, Downloads,
        ReadyIsInstallable, OfferedIsReady, WindowIsTold
<1>12. ASSUME NEW t \in Threads, CopyFailed(t) PROVE Safe'
  BY <1>12 DEF CopyFailed, Goto, Remembered, Exclusive, PhaseHasDoer, Downloads,
        ReadyIsInstallable, OfferedIsReady, WindowIsTold
<1>13. ASSUME NEW t \in Threads, CopyCancelled(t) PROVE Safe'
  BY <1>13 DEF CopyCancelled, Goto, Remembered, Exclusive, PhaseHasDoer, Downloads,
        ReadyIsInstallable, OfferedIsReady, WindowIsTold
<1>14. ASSUME NEW t \in Threads, FinishDownload(t) PROVE Safe'
  BY <1>14 DEF FinishDownload, Goto, Remembered, Exclusive, PhaseHasDoer, Downloads,
        ReadyIsInstallable, OfferedIsReady, WindowIsTold
<1>15. ASSUME NEW t \in Threads, Unwind(t) PROVE Safe'
  BY <1>15 DEF Unwind, End, Remembered, Exclusive, PhaseHasDoer, Downloads,
        ReadyIsInstallable, OfferedIsReady, WindowIsTold
<1>16. ASSUME NEW t \in Threads, ApplyOpened(t) PROVE Safe'
  BY <1>16 DEF ApplyOpened, Goto, Remembered, Exclusive, PhaseHasDoer, Downloads,
        ReadyIsInstallable, OfferedIsReady, WindowIsTold
<1>17. ASSUME NEW t \in Threads, ApplyFailed(t) PROVE Safe'
  BY <1>17 DEF ApplyFailed, End, Remembered, Exclusive, PhaseHasDoer, Downloads,
        ReadyIsInstallable, OfferedIsReady, WindowIsTold
<1>18. ASSUME NEW t \in Threads, ApplyDone(t) PROVE Safe'
  BY <1>18 DEF ApplyDone, Goto, Remembered, Exclusive, PhaseHasDoer, Downloads,
        ReadyIsInstallable, OfferedIsReady, WindowIsTold
<1>19. ASSUME NEW t \in Threads, ForgetReady(t) PROVE Safe'
  BY <1>19 DEF ForgetReady, End, Running, Exclusive, PhaseHasDoer, Downloads,
        ReadyIsInstallable, OfferedIsReady, WindowIsTold
<1>20. ASSUME NEW t \in Threads, NEW m \in BOOLEAN, Check(t, m) PROVE Safe'
  BY <1>20 DEF Check, Remembered, Exclusive, PhaseHasDoer, Downloads, ReadyIsInstallable,
        OfferedIsReady, WindowIsTold
<1>21. ASSUME NEW t \in Threads, DownloadButton(t) PROVE Safe'
  BY <1>21 DEF DownloadButton, Spawn, Remembered, Exclusive, PhaseHasDoer, Downloads,
        ReadyIsInstallable, OfferedIsReady, WindowIsTold
<1>22. ASSUME NEW t \in Threads, Install(t) PROVE Safe'
  BY <1>22 DEF Install, Spawn, Remembered, Exclusive, PhaseHasDoer, Downloads,
        ReadyIsInstallable, OfferedIsReady, WindowIsTold
<1>23. ASSUME NEW t \in Threads, InstallOnQuit(t) PROVE Safe'
  BY <1>23 DEF InstallOnQuit, Remembered, Exclusive, PhaseHasDoer, Downloads,
        ReadyIsInstallable, OfferedIsReady, WindowIsTold
<1>24. ASSUME NEW t \in Threads, Cancel(t) PROVE Safe'
  BY <1>24 DEF Cancel, Remembered, Exclusive, PhaseHasDoer, Downloads, ReadyIsInstallable,
        OfferedIsReady, WindowIsTold
<1>25. ASSUME NEW v \in Versions, Skip(v) PROVE Safe'
  BY <1>25 DEF Skip, Exclusive, PhaseHasDoer, Downloads, ReadyIsInstallable, OfferedIsReady,
        WindowIsTold
<1>26. ASSUME Restart PROVE Safe'
  BY <1>26 DEF Restart, Exclusive, PhaseHasDoer, Downloads, ReadyIsInstallable,
        OfferedIsReady, WindowIsTold
<1>27. CASE UNCHANGED vars
  BY <1>27 DEF vars, Exclusive, PhaseHasDoer, Downloads, ReadyIsInstallable, OfferedIsReady,
        WindowIsTold
<1> QED BY <1>1, <1>2, <1>3, <1>4, <1>5, <1>6, <1>7, <1>8, <1>9, <1>10, <1>11, <1>12, <1>13,
      <1>14, <1>15, <1>16, <1>17, <1>18, <1>19, <1>20, <1>21, <1>22, <1>23, <1>24, <1>25,
      <1>26, <1>27 DEF Next, ThreadStep, NewCall

LEMMA InitSafe == Init => TypeOK /\ Safe
<1> SUFFICES ASSUME Init PROVE TypeOK /\ Safe
  OBVIOUS
<1>1. 0 \in 0..MaxVersion /\ NoMemory \in Memory
  BY UpdateAssumption DEF NoMemory, Memory, Versions
<1>2. threads \in [Threads -> Thread]
  BY NoThreadType DEF Init
<1>3. TypeOK
  BY <1>1, <1>2 DEF Init, TypeOK, Phases
<1>4. \A t \in Threads : threads[t].at = "none"
  BY DEF Init, NoThread
<1>5. Safe
  BY <1>4 DEF Init, Safe, Exclusive, PhaseHasDoer, Downloads, ReadyIsInstallable,
              OfferedIsReady, WindowIsTold
<1> QED BY <1>3, <1>5

THEOREM Invariance == Spec => [](TypeOK /\ Safe)
<1>1. TypeOK /\ Safe /\ [Next]_vars => (TypeOK /\ Safe)'
  BY TypeStep, SafeStep DEF Safe
<1> QED BY <1>1, InitSafe, PTL DEF Spec

(* The type of every variable of the manager, its memory file and its threads. *)
THEOREM TypeCorrect == Spec => []TypeOK
BY Invariance, PTL

(* Checks and downloads never overlap, and busy is released with the one that holds it. *)
THEOREM NeverTwo == Spec => []OneAtATime
<1>1. TypeOK /\ Exclusive => OneAtATime
  <2> SUFFICES ASSUME TypeOK, Exclusive
               PROVE  Cardinality(Running(Working)) = IF busy THEN 1 ELSE 0
    BY DEF OneAtATime
  <2>1. CASE busy
    <3>1. PICK t \in Threads : threads[t].at \in Working
      BY <2>1 DEF Exclusive
    <3>2. Running(Working) = {t}
      BY <3>1 DEF Exclusive, Running
    <3> QED BY <2>1, <3>2, FS_Singleton
  <2>2. CASE ~busy
    <3>1. Running(Working) = {}
      BY <2>2 DEF Exclusive, Running
    <3> QED BY <2>2, <3>1, FS_EmptySet
  <2> QED BY <2>1, <2>2
<1> QED BY <1>1, Invariance, PTL DEF Safe

(* A phase that shows work in progress has that work behind it. *)
THEOREM WorkIsBehindPhase == Spec => []PhaseHasWork
<1>1. PhaseHasDoer => PhaseHasWork
  BY DEF PhaseHasDoer, PhaseHasWork, Running
<1> QED BY <1>1, Invariance, PTL DEF Safe

(* What is ready can be installed: newer, and on disk unless an install ended under a
   running download. *)
THEOREM ReadyCanBeInstalled == Spec => []ReadyIsInstallable
BY Invariance, PTL DEF Safe

(* The release on offer is the one that would be installed. *)
THEOREM OfferIsWhatIsReady == Spec => []OfferedIsReady
BY Invariance, PTL DEF Safe

(* The window was told of the phase, but for the one an install leaves behind. *)
THEOREM WindowKnows == Spec => []WindowIsTold
BY Invariance, PTL DEF Safe
--------------------------------------------------------------------------------
(* The window's half. *)

(* Nothing Go handed out is newer than its state, and nothing as new is another.  What
   was published and not yet emitted is that state. *)
Numbered ==
    LET Old(s) == s.no <= manager.no /\ (s.no = manager.no => s = manager) IN
    /\ published \in {{}, {manager}}
    /\ \A i \in 1..Len(wire) : Old(wire[i])
    /\ \A c \in calls : c.at = "answered" /\ c.kind # "skip" => Old(c.answer)
    /\ state.no <= manager.no

(* The newest state is on show, on its way, or will be made. *)
NewestComes ==
    ~astray /\ published = {} =>
        \/ wire # <<>> /\ wire[Len(wire)] = manager
        \/ wire = <<>> /\ state = manager
        \/ wire = <<>> /\ \E c \in calls :
                \/ c.kind = "read" /\ (c.at = "sent" \/ (c.at = "answered" /\ c.answer = manager))
                \/ c.kind = "skip" /\ c.at = "sent"

WindowCall ==
    [no : 1..MaxCalls, kind : {"read", "check", "skip"}, v : 0..MaxVersion,
     at : {"sent", "running", "answered", "failed"}, answer : Window!State]

WindowInv ==
    /\ Window!TypeOK /\ Window!StandingIsOffered /\ Window!OfferWasAnnounced
    /\ Window!CheckingHasCall
    /\ wire \in Seq(Window!State)
    /\ Numbered /\ NewestComes

(* It says what the run checks. *)
LEMMA WindowInvImplies == WindowInv => WindowFollows
BY DEF WindowInv, NewestComes, WindowFollows, Window!StateIsGos

LEMMA WindowInitInv == UpdatesInit => WindowInv
<1> SUFFICES ASSUME UpdatesInit PROVE WindowInv
  OBVIOUS
<1> USE DEF UpdatesInit, Window!Init
<1>1. Window!Unknown \in Window!State /\ ~Window!hasUpdate(Window!Unknown)
  BY UpdateAssumption, WindowAssumption
     DEF Window!State, Window!Unknown, Window!hasUpdate, Window!Phases
<1>2. Window!TypeOK
  <2>1. Len(wire) = 0 /\ {} \subseteq Window!State
    BY DEF Window!State
  <2>2. calls \subseteq WindowCall
    BY <1>1, UpdateAssumption, WindowAssumption DEF WindowCall
  <2>3. 0 \in 0..MaxVersion
    BY UpdateAssumption
  <2>4. /\ manager \in Window!State /\ state \in Window!State /\ published \subseteq Window!State
        /\ {checking, astray} \subseteq BOOLEAN
        /\ announced \in 0..MaxVersion /\ standing \in 0..MaxVersion
        /\ replaced \subseteq 1..MaxVersion
    BY <1>1, <2>1, <2>3
  <2>5. \A i \in 1..Len(wire) : wire[i] \in Window!State
    BY <2>1
  <2> QED BY <2>2, <2>4, <2>5 DEF Window!TypeOK, WindowCall
<1>3. Window!StandingIsOffered /\ Window!OfferWasAnnounced /\ Window!CheckingHasCall
  BY <1>1 DEF Window!StandingIsOffered, Window!OfferWasAnnounced, Window!CheckingHasCall
<1>4. wire \in Seq(Window!State) /\ Numbered
  BY DEF Numbered, Window!Unknown
<1>5. NewestComes
  BY DEF NewestComes
<1> QED BY <1>2, <1>3, <1>4, <1>5 DEF WindowInv

(* A state that is shown is announced as the window should. *)
LEMMA Showing ==
    ASSUME WindowInv, NEW next \in Window!State, Window!Show(next),
           \/ Window!Announce(next)
           \/ /\ Window!hasUpdate(next)
              /\ Window!openDialog /\ announced' = next.latest
    PROVE  /\ state' = next /\ astray' = (astray \/ next.no < state.no)
           /\ astray' \in BOOLEAN
           /\ announced' \in 0..MaxVersion /\ standing' \in 0..MaxVersion
           /\ replaced' \subseteq 1..MaxVersion
           /\ Window!StandingIsOffered' /\ Window!OfferWasAnnounced'
<1>1. next.latest \in 0..MaxVersion /\ 0 \in 0..MaxVersion
  BY UpdateAssumption DEF Window!State
<1>2. state' = next
  BY DEF Window!Show
<1>3. standing \in 0..MaxVersion /\ replaced \subseteq 1..MaxVersion
  BY DEF WindowInv, Window!TypeOK
<1>4. replaced' \subseteq replaced \cup ({standing} \ {0})
  BY DEF Window!Announce, Window!openDialog
<1>5. {standing} \ {0} \subseteq 1..MaxVersion
  BY <1>3, UpdateAssumption
<1>6. replaced' \subseteq 1..MaxVersion
  BY <1>3, <1>4, <1>5, Zenon
<1>7. /\ astray' = (astray \/ next.no < state.no) /\ astray' \in BOOLEAN
      /\ announced' \in 0..MaxVersion /\ standing' \in 0..MaxVersion
  BY <1>1, <1>3 DEF WindowInv, Window!TypeOK, Window!Show, Window!Announce, Window!openDialog
<1>8. Window!StandingIsOffered' /\ Window!OfferWasAnnounced'
  BY <1>1, <1>2 DEF WindowInv, Window!Announce, Window!openDialog,
     Window!hasUpdate, Window!StandingIsOffered, Window!OfferWasAnnounced
<1> QED BY <1>2, <1>6, <1>7, <1>8

(* A published state is newer than all that is under way. *)
LEMMA Publishing ==
    ASSUME WindowInv, NEW phase_ \in Window!Phases, NEW latest_ \in 0..MaxVersion,
           NEW skipped_ \in 0..MaxVersion, Window!Publish(phase_, latest_, skipped_)
    PROVE  /\ manager' \in Window!State /\ manager'.no = manager.no + 1 /\ manager.no \in Nat
           /\ published' = {manager'} /\ wire' = wire
<1>1. manager \in Window!State
  BY DEF WindowInv, Window!TypeOK
<1>2. manager.no \in 0..MaxStates /\ manager.no + 1 \in 0..MaxStates
  BY <1>1, WindowAssumption DEF Window!State, Window!Publish
<1> QED BY <1>2 DEF Window!State, Window!Publish

(* What a call becomes when it is made, served and answered. *)
LEMMA Calling ==
    ASSUME WindowInv, NEW kind_ \in {"check", "skip"}, NEW v_ \in 0..MaxVersion,
           Window!Call(kind_, v_)
    PROVE  /\ calls' \subseteq WindowCall /\ calls \subseteq calls'
           /\ \E d \in calls' : d.kind = kind_ /\ d.at = "sent"
           /\ \A d \in calls' : d \in calls \/ d.at = "sent"
<1>1. Window!Unknown \in Window!State
  BY UpdateAssumption, WindowAssumption DEF Window!State, Window!Unknown, Window!Phases
<1>2. calls \subseteq WindowCall
  BY DEF WindowInv, Window!TypeOK, WindowCall
<1>3. PICK no \in 1..MaxCalls :
         calls' = calls \cup {[no |-> no, kind |-> kind_, v |-> v_, at |-> "sent", answer |-> Window!Unknown]}
  BY DEF Window!Call
<1> DEFINE new == [no |-> no, kind |-> kind_, v |-> v_, at |-> "sent", answer |-> Window!Unknown]
<1>4. new \in WindowCall
  BY <1>1 DEF WindowCall
<1>5. new.kind = kind_ /\ new.at = "sent"
  OBVIOUS
<1>6. calls' = calls \cup {new}
  BY <1>3
<1> HIDE DEF new
<1> QED BY <1>2, <1>4, <1>5, <1>6

LEMMA Stepping ==
    ASSUME WindowInv, NEW c \in calls, NEW step_ \in {"running", "answered", "failed"},
           Window!Step(c, step_)
    PROVE  \E d \in WindowCall : calls' = (calls \ {c}) \cup {d} /\ d.kind = c.kind /\ d.at = step_
<1>1. c \in WindowCall
  BY DEF WindowInv, Window!TypeOK, WindowCall
<1> DEFINE d == [c EXCEPT !.at = step_]
<1>2. d \in WindowCall /\ d.kind = c.kind /\ d.at = step_
  BY <1>1 DEF WindowCall
<1> QED BY <1>2 DEF Window!Step

LEMMA Answering ==
    ASSUME WindowInv, NEW c \in calls, manager' \in Window!State, Window!Answered(c)
    PROVE  \E d \in WindowCall : /\ calls' = (calls \ {c}) \cup {d} /\ d.kind = c.kind
                                 /\ d.at = "answered" /\ d.answer = manager'
<1>1. c \in WindowCall
  BY DEF WindowInv, Window!TypeOK, WindowCall
<1> DEFINE d == [c EXCEPT !.at = "answered", !.answer = manager']
<1>2. d \in WindowCall /\ d.kind = c.kind /\ d.at = "answered" /\ d.answer = manager'
  BY <1>1 DEF WindowCall
<1> QED BY <1>2 DEF Window!Answered

(* A publication is the newest state, and is still to be emitted. *)
LEMMA PublishingKeeps ==
    ASSUME WindowInv, NEW phase_ \in Window!Phases, NEW latest_ \in 0..MaxVersion,
           NEW skipped_ \in 0..MaxVersion, Window!Publish(phase_, latest_, skipped_),
           UNCHANGED state,
           \A d \in calls' : d.at = "answered" /\ d.kind # "skip" => d \in calls \/ d.answer = manager'
    PROVE  Numbered' /\ NewestComes'
<1>1. /\ manager' \in Window!State /\ manager'.no = manager.no + 1 /\ manager.no \in Nat
      /\ published' = {manager'} /\ wire' = wire
  BY Publishing
<1>2. NewestComes'
  BY <1>1 DEF NewestComes
<1>n. \A s \in Window!State : s.no \in Nat
  BY DEF Window!State
<1>3. \A i \in 1..Len(wire) : wire[i].no \in Nat /\ wire[i].no <= manager.no
  BY <1>n DEF WindowInv, Numbered, Window!TypeOK
<1>4. \A c \in calls : c.at = "answered" /\ c.kind # "skip" => c.answer.no \in Nat /\ c.answer.no <= manager.no
  <2>1. \A c \in calls : c.answer \in Window!State
    BY DEF WindowInv, Window!TypeOK
  <2> QED BY <1>n, <2>1 DEF WindowInv, Numbered
<1>5. state.no \in Nat /\ state.no <= manager.no
  BY <1>n DEF WindowInv, Numbered, Window!TypeOK
<1>6. \A i \in 1..Len(wire) : wire[i].no <= manager'.no /\ wire[i].no # manager'.no
  BY <1>1, <1>3
<1>7. \A c \in calls' : c.at = "answered" /\ c.kind # "skip" =>
          c.answer.no <= manager'.no /\ (c.answer.no = manager'.no => c.answer = manager')
  <2> SUFFICES ASSUME NEW c \in calls', c.at = "answered", c.kind # "skip"
               PROVE  c.answer.no <= manager'.no /\ (c.answer.no = manager'.no => c.answer = manager')
    OBVIOUS
  <2>1. CASE c \in calls
    BY <1>1, <1>4, <2>1
  <2>2. CASE c.answer = manager'
    <3>1. manager'.no \in Nat
      BY <1>1
    <3> QED BY <2>2, <3>1
  <2> QED BY <2>1, <2>2
<1>8. state'.no <= manager'.no
  BY <1>1, <1>5
<1> QED BY <1>1, <1>2, <1>6, <1>7, <1>8 DEF Numbered

LEMMA ServeKeeps == ASSUME WindowInv, NEW c \in calls, Window!Serve(c) PROVE WindowInv'
<1>0. /\ manager \in Window!State /\ c \in WindowCall /\ calls \subseteq WindowCall
      /\ "rest" \in Window!Phases /\ "busy" \in Window!Phases /\ 0 \in 0..MaxVersion
      /\ manager.latest \in 0..MaxVersion /\ manager.skipped \in 0..MaxVersion
      /\ manager.phase \in Window!Phases /\ c.v \in 0..MaxVersion
  BY UpdateAssumption DEF WindowInv, Window!TypeOK, WindowCall, Window!State, Window!Phases
<1>a. UNCHANGED <<state, checking, announced, standing, replaced>>
  BY DEF Window!Serve, Window!notices
<1>k. ASSUME NEW d \in WindowCall, calls' = (calls \ {c}) \cup {d}, d.kind = c.kind
      PROVE  calls' \subseteq WindowCall /\ Window!CheckingHasCall'
  BY <1>0, <1>a, <1>k DEF WindowInv, Window!CheckingHasCall
<1>b. ASSUME NEW d \in WindowCall, calls' = (calls \ {c}) \cup {d}, d.kind = c.kind,
             manager' \in Window!State, published' \subseteq Window!State,
             wire' = wire, astray' \in BOOLEAN, Numbered', NewestComes'
      PROVE  WindowInv'
  BY <1>a, <1>b, <1>k DEF WindowInv, Window!TypeOK, Window!StandingIsOffered, WindowCall,
        Window!OfferWasAnnounced
<1>p. ASSUME NEW phase_ \in Window!Phases, NEW latest_ \in 0..MaxVersion,
             NEW skipped_ \in 0..MaxVersion, Window!Publish(phase_, latest_, skipped_),
             UNCHANGED astray,
             Window!Answered(c) \/ Window!Step(c, "running") \/ Window!Step(c, "failed")
             \/ (Window!Step(c, "answered") /\ c.kind = "skip")
      PROVE  WindowInv'
  <2>1. manager' \in Window!State /\ published' = {manager'} /\ wire' = wire
    BY <1>p, Publishing
  <2>2. PICK d \in WindowCall : /\ calls' = (calls \ {c}) \cup {d} /\ d.kind = c.kind
                                /\ d.at = "answered" /\ d.kind # "skip" => d.answer = manager'
    <3>1. CASE Window!Answered(c)
      BY <2>1, <3>1, Answering
    <3>2. CASE Window!Step(c, "running")
      BY <3>2, Stepping
    <3>3. CASE Window!Step(c, "failed")
      BY <3>3, Stepping
    <3>4. CASE Window!Step(c, "answered") /\ c.kind = "skip"
      <4>1. PICK d \in WindowCall : calls' = (calls \ {c}) \cup {d} /\ d.kind = c.kind /\ d.at = "answered"
        BY <3>4, Stepping
      <4> QED BY <3>4, <4>1
    <3> QED BY <1>p, <3>1, <3>2, <3>3, <3>4
  <2>3. Numbered' /\ NewestComes'
    BY <1>a, <1>p, <2>2, PublishingKeeps
  <2>4. astray' \in BOOLEAN
    BY <1>p DEF WindowInv, Window!TypeOK
  <2> QED BY <1>b, <2>1, <2>2, <2>3, <2>4
<1>1. CASE c.at = "sent" /\ c.kind \in {"read", "check"} /\ UNCHANGED <<Window!go, astray>> /\ Window!Answered(c)
  <2>0. UNCHANGED <<manager, published, wire, astray>>
    BY <1>1 DEF Window!go
  <2>1. PICK d \in WindowCall : /\ calls' = (calls \ {c}) \cup {d} /\ d.kind = c.kind
                                /\ d.at = "answered" /\ d.answer = manager'
    BY <1>0, <1>1, <2>0, Answering
  <2>2. Numbered'
    BY <1>0, <1>a, <2>0, <2>1 DEF WindowInv, Numbered, Window!State
  <2>3. NewestComes'
    BY <1>1, <1>a, <2>0, <2>1 DEF WindowInv, NewestComes
  <2> QED BY <1>b, <2>0, <2>1, <2>2, <2>3 DEF WindowInv, Window!TypeOK
<1>2. CASE Window!Publish("busy", manager.latest, manager.skipped) /\ Window!Step(c, "running") /\ UNCHANGED astray
  BY <1>0, <1>2, <1>p
<1>3. CASE /\ \E latest_ \in 0..MaxVersion, phase_ \in Window!Phases :
                 Window!Publish(phase_, latest_, IF latest_ = manager.skipped THEN 0 ELSE manager.skipped)
           /\ Window!Answered(c) /\ UNCHANGED astray
  BY <1>0, <1>3, <1>p
<1>4. CASE Window!Publish("rest", manager.latest, manager.skipped) /\ Window!Step(c, "failed") /\ UNCHANGED astray
  BY <1>0, <1>4, <1>p
<1>5. CASE c.kind = "skip" /\ Window!Publish(manager.phase, manager.latest, c.v) /\ Window!Step(c, "answered") /\ UNCHANGED astray
  BY <1>0, <1>5, <1>p
<1>6. CASE UNCHANGED Window!go /\ Window!Step(c, "failed") /\ astray' = TRUE
  <2>0. UNCHANGED <<manager, published, wire>>
    BY <1>6 DEF Window!go
  <2>1. PICK d \in WindowCall : /\ calls' = (calls \ {c}) \cup {d} /\ d.kind = c.kind
                                /\ d.at = "failed"
    BY <1>6, Stepping
  <2>2. Numbered' /\ NewestComes'
    BY <1>6, <1>a, <2>0, <2>1 DEF WindowInv, Numbered, NewestComes
  <2> QED BY <1>6, <1>b, <2>0, <2>1, <2>2 DEF WindowInv, Window!TypeOK
<1> QED BY <1>1, <1>2, <1>3, <1>4, <1>5, <1>6 DEF Window!Serve

(* A state that takes the place of another one. *)
LEMMA ShowingKeeps ==
    ASSUME WindowInv, NEW next \in Window!State, Window!Show(next),
           \/ Window!Announce(next)
           \/ /\ Window!hasUpdate(next)
              /\ Window!openDialog /\ announced' = next.latest,
           next.no <= manager.no, UNCHANGED <<manager, published>>, calls' \subseteq calls,
           wire' \in Seq(Window!State), checking' \in BOOLEAN, Window!CheckingHasCall',
           \A i \in 1..Len(wire') : wire'[i].no <= manager.no /\ (wire'[i].no = manager.no => wire'[i] = manager),
           NewestComes'
    PROVE  WindowInv'
<1>1. /\ state' = next /\ astray' \in BOOLEAN
      /\ announced' \in 0..MaxVersion /\ standing' \in 0..MaxVersion
      /\ replaced' \subseteq 1..MaxVersion
      /\ Window!StandingIsOffered' /\ Window!OfferWasAnnounced'
  BY Showing
<1>2. Numbered'
  BY <1>1 DEF WindowInv, Numbered
<1>3. \A i \in 1..Len(wire') : wire'[i] \in Window!State
  OBVIOUS
<1>4. Window!TypeOK'
  BY <1>1, <1>3 DEF WindowInv, Window!TypeOK
<1> QED BY <1>1, <1>2, <1>4 DEF WindowInv

LEMMA MovesKeeps ==
    ASSUME WindowInv, NEW phase_ \in Window!Phases, NEW latest_ \in 0..MaxVersion,
           Window!Moves(phase_, latest_)
    PROVE  WindowInv'
<1>0. UNCHANGED <<state, checking, announced, standing, replaced, calls, astray>>
  BY DEF Window!Moves, Window!notices
<1>1. manager.skipped \in 0..MaxVersion
  BY DEF WindowInv, Window!TypeOK, Window!State
<1>2. Window!Publish(phase_, latest_, manager.skipped)
  BY DEF Window!Moves
<1>3. manager' \in Window!State /\ published' = {manager'} /\ wire' = wire
  BY <1>1, <1>2, Publishing
<1>4. Numbered' /\ NewestComes'
  BY <1>0, <1>1, <1>2, PublishingKeeps
<1> QED BY <1>0, <1>3, <1>4 DEF WindowInv, Window!TypeOK, Window!StandingIsOffered,
        Window!OfferWasAnnounced, Window!CheckingHasCall

LEMMA PumpKeeps == ASSUME WindowInv, Window!Pump PROVE WindowInv'
<1>0. UNCHANGED <<manager, state, checking, announced, standing, replaced, calls, astray>> /\ published' = {}
  BY DEF Window!Pump, Window!notices
<1>1. manager \in Window!State /\ wire \in Seq(Window!State) /\ wire' = Append(wire, manager)
  BY DEF WindowInv, Window!TypeOK, Numbered, Window!Pump
<1>2. /\ wire' \in Seq(Window!State) /\ Len(wire') = Len(wire) + 1 /\ wire'[Len(wire')] = manager
      /\ wire' # <<>> /\ Len(wire) \in Nat
      /\ \A i \in 1..Len(wire') : (i \in 1..Len(wire) /\ wire'[i] = wire[i]) \/ wire'[i] = manager
  BY <1>1
<1>3. Numbered'
  <2>1. manager.no <= manager.no
    BY <1>1, WindowAssumption DEF Window!State
  <2> QED BY <1>0, <1>2, <2>1 DEF WindowInv, Numbered
<1>4. NewestComes'
  BY <1>0, <1>2 DEF NewestComes
<1>5. \A i \in 1..Len(wire') : wire'[i] \in Window!State
  BY <1>2
<1> QED BY <1>0, <1>2, <1>3, <1>4, <1>5 DEF WindowInv, Window!TypeOK, Window!StandingIsOffered,
        Window!OfferWasAnnounced, Window!CheckingHasCall

LEMMA ArriveKeeps == ASSUME WindowInv, Window!Arrive PROVE WindowInv'
<1>0. /\ wire # <<>> /\ wire' = Tail(wire) /\ Window!Show(Head(wire)) /\ Window!Announce(Head(wire))
      /\ UNCHANGED <<manager, published, checking, calls>>
  BY DEF Window!Arrive
<1>1. wire \in Seq(Window!State)
  BY DEF WindowInv
<1>2. /\ Len(wire) \in Nat \ {0} /\ Head(wire) = wire[1] /\ Head(wire) \in Window!State
      /\ wire' \in Seq(Window!State) /\ Len(wire') = Len(wire) - 1
      /\ \A i \in 1..Len(wire') : i + 1 \in 1..Len(wire) /\ wire'[i] = wire[i + 1]
  BY <1>0, <1>1
<1>3. state' = Head(wire) /\ (~astray' => ~astray)
  BY <1>0 DEF Window!Show
<1>4. NewestComes'
  <2> SUFFICES ASSUME ~astray', published = {}
               PROVE  (wire' # <<>> /\ wire'[Len(wire')] = manager) \/ (wire' = <<>> /\ state' = manager)
    BY <1>0 DEF NewestComes
  <2>1. wire[Len(wire)] = manager
    BY <1>0, <1>3 DEF WindowInv, NewestComes
  <2>2. CASE Len(wire) = 1
    <3>1. wire' = <<>>
      BY <1>2, <2>2
    <3> QED BY <1>2, <1>3, <2>1, <2>2, <3>1
  <2>3. CASE Len(wire) # 1
    <3>1. Len(wire') \in 1..Len(wire') /\ Len(wire') + 1 = Len(wire)
      BY <1>2, <2>3
    <3>2. wire' # <<>>
      BY <1>2, <3>1
    <3> QED BY <1>2, <2>1, <3>1, <3>2
  <2> QED BY <2>2, <2>3
<1>5. Head(wire).no <= manager.no
  BY <1>2 DEF WindowInv, Numbered
<1>6. \A i \in 1..Len(wire') : wire'[i].no <= manager.no /\ (wire'[i].no = manager.no => wire'[i] = manager)
  BY <1>2 DEF WindowInv, Numbered
<1>7. checking' \in BOOLEAN /\ Window!CheckingHasCall'
  BY <1>0 DEF WindowInv, Window!TypeOK, Window!CheckingHasCall
<1> QED BY <1>0, <1>2, <1>4, <1>5, <1>6, <1>7, ShowingKeeps

(* The answer of a read or a check is shown. *)
LEMMA AnswerKeeps ==
    ASSUME WindowInv, NEW c \in calls, c.at = "answered", c.kind \in {"read", "check"},
           calls' = calls \ {c}, Window!Show(c.answer), UNCHANGED <<manager, published, wire>>,
           \/ Window!Announce(c.answer)
           \/ /\ Window!hasUpdate(c.answer)
              /\ Window!openDialog /\ announced' = c.answer.latest,
           checking' \in BOOLEAN, Window!CheckingHasCall'
    PROVE  WindowInv'
<1>1. /\ c.answer \in Window!State
      /\ c.answer.no <= manager.no /\ (c.answer.no = manager.no => c.answer = manager)
  BY DEF WindowInv, Window!TypeOK, Numbered
<1>2. NewestComes'
  <2> SUFFICES ASSUME ~astray', published = {}, wire = <<>>
               PROVE  \/ state' = manager
                      \/ \E d \in calls' :
                            \/ d.kind = "read" /\ (d.at = "sent" \/ (d.at = "answered" /\ d.answer = manager))
                            \/ d.kind = "skip" /\ d.at = "sent"
    <3>1. \A n : wire' = wire /\ wire[n] = wire'[n]
      OBVIOUS
    <3>2. ~astray' => ~astray
      BY DEF Window!Show
    <3>3. UNCHANGED <<manager, published, wire>>
      OBVIOUS
    <3> QED BY <3>2, <3>3 DEF WindowInv, NewestComes
  <2>1. ~astray /\ ~(c.answer.no < state.no) /\ state' = c.answer
    BY DEF Window!Show
  <2>2. CASE state = manager
    <3>1. c.answer.no \in Nat /\ manager.no \in Nat
      BY <1>1 DEF WindowInv, Window!TypeOK, Window!State
    <3> QED BY <1>1, <2>1, <2>2, <3>1
  <2>3. CASE state # manager
    BY <2>1, <2>3 DEF WindowInv, NewestComes
  <2> QED BY <2>2, <2>3
<1>3. \A i \in 1..Len(wire') : wire'[i].no <= manager.no /\ (wire'[i].no = manager.no => wire'[i] = manager)
  BY DEF WindowInv, Numbered
<1>4. wire' \in Seq(Window!State) /\ calls' \subseteq calls
  BY DEF WindowInv
<1> QED BY <1>1, <1>2, <1>3, <1>4, ShowingKeeps

(* A call ends, or is made, that has no part in what is on show. *)
LEMMA CallsKeep ==
    ASSUME WindowInv, UNCHANGED <<manager, published, wire, state, announced, astray>>,
           standing' \in {standing, 0}, replaced' \subseteq replaced, checking' \in BOOLEAN, Window!CheckingHasCall',
           calls' \subseteq WindowCall, \A d \in calls' : d \in calls \/ d.at = "sent",
           \A d \in calls \ calls' : ~ \/ d.kind = "read" /\ d.at \in {"sent", "answered"}
                                       \/ d.kind = "skip" /\ d.at = "sent"
    PROVE  WindowInv'
<1>1. Numbered'
  BY DEF WindowInv, Numbered
<1>2. NewestComes'
  BY DEF WindowInv, NewestComes
<1>3. standing' \in 0..MaxVersion
  BY UpdateAssumption DEF WindowInv, Window!TypeOK
<1>4. Window!TypeOK'
  BY <1>3 DEF WindowInv, Window!TypeOK, WindowCall
<1>5. Window!StandingIsOffered' /\ Window!OfferWasAnnounced'
  BY DEF WindowInv, Window!StandingIsOffered, Window!OfferWasAnnounced
<1> QED BY <1>1, <1>2, <1>4, <1>5 DEF WindowInv

LEMMA RepliesKeep ==
    ASSUME WindowInv, NEW c \in calls,
           Window!ReadReply(c) \/ Window!CheckReply(c) \/ Window!CheckFailed(c) \/ Window!SkipReply(c)
    PROVE  WindowInv'
<1>0. calls' = calls \ {c} /\ UNCHANGED <<manager, published, wire>> /\ calls \subseteq WindowCall
  BY DEF WindowInv, Window!TypeOK, WindowCall, Window!go,
         Window!ReadReply, Window!CheckReply, Window!CheckFailed, Window!SkipReply
<1>1. CASE Window!ReadReply(c)
  <2>1. checking' = checking /\ c.kind = "read"
    BY <1>1 DEF Window!ReadReply
  <2>2. checking' \in BOOLEAN /\ Window!CheckingHasCall'
    BY <1>0, <2>1 DEF WindowInv, Window!TypeOK, Window!CheckingHasCall
  <2>3. CASE c.at = "answered"
    BY <1>0, <1>1, <2>1, <2>2, <2>3, AnswerKeeps DEF Window!ReadReply
  <2>4. CASE c.at # "answered"
    <3>1. c.at = "failed" /\ UNCHANGED <<state, astray, announced, standing, replaced>>
      BY <1>1, <2>4 DEF Window!ReadReply, Window!notices
    <3> QED BY <1>0, <2>2, <3>1, CallsKeep
  <2> QED BY <2>3, <2>4
<1>2. CASE Window!CheckReply(c)
  <2>1. checking' \in BOOLEAN /\ Window!CheckingHasCall' /\ c.kind = "check" /\ c.at = "answered"
    BY <1>2 DEF Window!CheckReply, Window!CheckingHasCall
  <2> QED BY <1>0, <1>2, <2>1, AnswerKeeps DEF Window!CheckReply
<1>3. CASE Window!CheckFailed(c)
  <2>1. checking' \in BOOLEAN /\ Window!CheckingHasCall' /\ c.kind = "check"
        /\ UNCHANGED <<state, astray, announced, standing, replaced>>
    BY <1>3 DEF Window!CheckFailed, Window!CheckingHasCall, Window!notices
  <2> QED BY <1>0, <2>1, CallsKeep
<1>4. CASE Window!SkipReply(c)
  <2>1. c.kind = "skip" /\ c.at # "sent" /\ UNCHANGED <<state, checking, astray, announced, standing, replaced>>
    BY <1>4 DEF Window!SkipReply, Window!notices
  <2>2. checking' \in BOOLEAN /\ Window!CheckingHasCall'
    BY <1>0, <2>1 DEF WindowInv, Window!TypeOK, Window!CheckingHasCall
  <2> QED BY <1>0, <2>1, <2>2, CallsKeep
<1> QED BY <1>1, <1>2, <1>3, <1>4

LEMMA PressKeeps ==
    ASSUME WindowInv, Window!PressCheck \/ Window!PressUpdate \/ Window!CloseReplaced
    PROVE  WindowInv'
<1>0. calls \subseteq WindowCall
  BY DEF WindowInv, Window!TypeOK, WindowCall
<1>1. CASE Window!PressCheck
  <2>1. Window!Call("check", 0) /\ 0 \in 0..MaxVersion /\ checking' = TRUE
        /\ UNCHANGED <<manager, published, wire, state, announced, standing, replaced, astray>>
    BY <1>1, UpdateAssumption DEF Window!PressCheck, Window!go, Window!notices
  <2>2. /\ calls' \subseteq WindowCall /\ calls \subseteq calls'
        /\ \E d \in calls' : d.kind = "check" /\ d.at = "sent"
        /\ \A d \in calls' : d \in calls \/ d.at = "sent"
    BY <2>1, Calling
  <2>3. Window!CheckingHasCall'
    BY <2>2 DEF Window!CheckingHasCall
  <2> QED BY <2>1, <2>2, <2>3, CallsKeep
<1>2. CASE Window!PressUpdate
  <2>1. /\ standing' = 0 /\ replaced' = replaced
        /\ UNCHANGED <<manager, published, wire, state, checking, announced, calls, astray>>
    BY <1>2 DEF Window!PressUpdate, Window!openDialog, Window!go
  <2>2. checking' \in BOOLEAN /\ Window!CheckingHasCall'
    BY <2>1 DEF WindowInv, Window!TypeOK, Window!CheckingHasCall
  <2> QED BY <1>0, <2>1, <2>2, CallsKeep
<1>3. CASE Window!CloseReplaced
  <2>1. /\ standing' \in {standing, 0} /\ replaced' \subseteq replaced
        /\ UNCHANGED <<manager, published, wire, state, checking, announced, calls, astray>>
    BY <1>3 DEF Window!CloseReplaced, Window!go
  <2>2. checking' \in BOOLEAN /\ Window!CheckingHasCall'
    BY <2>1 DEF WindowInv, Window!TypeOK, Window!CheckingHasCall
  <2> QED BY <1>0, <2>1, <2>2, CallsKeep
<1> QED BY <1>1, <1>2, <1>3

LEMMA SkipKeeps == ASSUME WindowInv, Window!Skip PROVE WindowInv'
<1> DEFINE next == [state EXCEPT !.skipped = state.latest]
<1>1. state \in Window!State
  BY DEF WindowInv, Window!TypeOK
<1>2. state' = next /\ next \in Window!State /\ next.no = state.no
      /\ state.latest \in 0..MaxVersion /\ next.latest = state.latest
  BY <1>1 DEF Window!Skip, Window!State
<1>3. Window!Call("skip", state.latest) /\ UNCHANGED <<manager, published, wire, checking, astray>>
  BY DEF Window!Skip, Window!go
<1>4. /\ calls' \subseteq WindowCall /\ calls \subseteq calls'
      /\ \E d \in calls' : d.kind = "skip" /\ d.at = "sent"
      /\ \A d \in calls' : d \in calls \/ d.at = "sent"
  BY <1>2, <1>3, Calling
<1>5. ~Window!hasUpdate(next)
  BY <1>1 DEF Window!hasUpdate, Window!State
<1>6. standing' = 0 /\ UNCHANGED <<announced, replaced>>
  <2>1. Window!Announce(next)
    BY <1>2 DEF Window!Skip
  <2> HIDE DEF next
  <2> QED BY <1>5, <2>1 DEF Window!Announce
<1>7. Window!TypeOK'
  <2>1. 0 \in 0..MaxVersion
    BY UpdateAssumption
  <2> HIDE DEF next
  <2> QED BY <1>2, <1>3, <1>4, <1>6, <2>1 DEF WindowInv, Window!TypeOK, WindowCall
<1>8. Numbered'
  <2> HIDE DEF next
  <2> QED BY <1>2, <1>3, <1>4 DEF WindowInv, Numbered
<1>9. NewestComes'
  <2> HIDE DEF next
  <2> QED BY <1>2, <1>3, <1>4 DEF WindowInv, NewestComes
<1>10. Window!CheckingHasCall'
  BY <1>3, <1>4 DEF WindowInv, Window!CheckingHasCall
<1>11. Window!StandingIsOffered' /\ Window!OfferWasAnnounced'
  <2> HIDE DEF next
  <2>1. ~Window!hasUpdate(state')
    BY <1>2, <1>5
  <2> QED BY <1>6, <2>1 DEF Window!StandingIsOffered, Window!OfferWasAnnounced, Window!hasUpdate
<1> QED BY <1>3, <1>7, <1>8, <1>9, <1>10, <1>11 DEF WindowInv

LEMMA WindowStep == ASSUME WindowInv, [UpdatesNext]_<<part, vars, windowVars>> PROVE WindowInv'
<1>1. CASE UNCHANGED windowVars
  BY <1>1 DEF windowVars, WindowInv, Window!TypeOK, Window!StandingIsOffered,
     Window!OfferWasAnnounced, Window!CheckingHasCall, Numbered, NewestComes, Window!hasUpdate
<1>2. CASE Window!Next
  <2>1. CASE \E phase_ \in Window!Phases, latest_ \in 0..MaxVersion : Window!Moves(phase_, latest_)
    BY <2>1, MovesKeeps
  <2>2. CASE Window!Pump \/ Window!Arrive
    BY <2>2, PumpKeeps, ArriveKeeps
  <2>3. CASE \E c \in calls : Window!Serve(c)
    BY <2>3, ServeKeeps
  <2>4. CASE \E c \in calls : \/ Window!ReadReply(c) \/ Window!CheckReply(c)
                              \/ Window!CheckFailed(c) \/ Window!SkipReply(c)
    BY <2>4, RepliesKeep
  <2>5. CASE \/ Window!PressCheck \/ Window!TitleBar \/ Window!UpdateCard
             \/ Window!CloseReplaced
    BY <2>5, PressKeeps, SkipKeeps DEF Window!TitleBar, Window!UpdateCard
  <2> QED BY <1>2, <2>1, <2>2, <2>3, <2>4, <2>5 DEF Window!Next
<1> QED BY <1>1, <1>2 DEF UpdatesNext, windowVars

(* The window shows what the manager last published once every event and answer is in,
   has announced what is on offer, keeps track of no announcement of anything else, and
   its spinner has a check that takes it away.  Of an announcement whose place another
   has taken it says nothing: that one may stay on the screen. *)
THEOREM WindowIsTrue == UpdatesSpec => []WindowFollows
<1>1. UpdatesInit => WindowInv
  BY WindowInitInv
<1>2. WindowInv /\ [UpdatesNext]_<<part, vars, windowVars>> => WindowInv'
  BY WindowStep
<1>3. WindowInv => WindowFollows
  BY WindowInvImplies
<1> QED BY <1>1, <1>2, <1>3, PTL DEF UpdatesSpec
================================================================================
