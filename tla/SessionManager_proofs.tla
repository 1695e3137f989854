------------------------ MODULE SessionManager_proofs ------------------------
(***************************************************************************)
(* Proofs about the profile lock alone, for any sessions, processes and    *)
(* crashes, and about launch() and close() over it, for any close requests *)
(* too, in both browser modes, with and without failing files, crashes,    *)
(* signals and overlapping closes.                                         *)
(***************************************************************************)
EXTENDS SessionManager, TLAPS

-----------------------------------------------------------------------------
(* The lock protocol.                                                      *)


(* Every variable keeps its type in every reachable state of the lock protocol
   of lock.ts. *)
THEOREM LockTyping == LockSpec => []LockTypeOK
<1> USE LockAssumption DEF LockAssumption, LockTypeOK, LockStates, CreateStates, NoFile, EmptyFile
<1>1. LockInit => LockTypeOK
  <2> SUFFICES ASSUME LockInit PROVE LockTypeOK
    OBVIOUS
  <2>1. file \in [owner : Sessions \cup {None}, text : {"none", "empty", "json"}]
    BY DEF LockInit
  <2>2. file.owner = None <=> file.text = "none"
    BY DEF LockInit
  <2>3. stray \in BOOLEAN
    BY DEF LockInit
  <2>4. QED BY <2>1, <2>2, <2>3 DEF LockInit
<1>2. LockTypeOK /\ [LockNext]_lockVars => LockTypeOK'
  <2> SUFFICES ASSUME LockTypeOK, [LockNext]_lockVars
               PROVE  LockTypeOK'
    OBVIOUS
  <2>1. ASSUME NEW s \in Sessions, OpenFirst(s)
        PROVE  LockTypeOK'
    BY <2>1 DEF OpenFirst, GoTo
  <2>2. ASSUME NEW s \in Sessions, ReadOwner(s)
        PROVE  LockTypeOK'
    <3>1. CASE file.text = "json"
      BY <2>2, <3>1 DEF ReadOwner, GoTo
    <3>2. CASE file.text # "json"
      BY <2>2, <3>2 DEF ReadOwner, GoTo
    <3>3. QED BY <3>1, <3>2
  <2>3. ASSUME NEW s \in Sessions, ProbeOwner(s)
        PROVE  LockTypeOK'
    BY <2>3 DEF ProbeOwner, GoTo
  <2>4. ASSUME NEW s \in Sessions, UnlinkStale(s)
        PROVE  LockTypeOK'
    <3>1. stray' \in BOOLEAN
      BY <2>4 DEF UnlinkStale
    <3>2. file' \in [owner : Sessions \cup {None}, text : {"none", "empty", "json"}]
          /\ (file'.owner = None <=> file'.text = "none")
      BY <2>4 DEF UnlinkStale
    <3>3. QED BY <2>4, <3>1, <3>2 DEF UnlinkStale, GoTo
  <2>5. ASSUME NEW s \in Sessions, OpenAgain(s)
        PROVE  LockTypeOK'
    BY <2>5 DEF OpenAgain, GoTo
  <2>6. ASSUME NEW s \in Sessions, WriteOwner(s)
        PROVE  LockTypeOK'
    BY <2>6 DEF WriteOwner, GoTo
  <2>7. ASSUME NEW s \in Sessions, WriteFails(s)
        PROVE  LockTypeOK'
    BY <2>7 DEF WriteFails, GoTo
  <2>8. ASSUME NEW s \in Sessions, Release(s)
        PROVE  LockTypeOK'
    BY <2>8 DEF Release, GoTo
  <2>9. ASSUME NEW p \in Procs, Crash(p) \/ ReusePid(p)
        PROVE  LockTypeOK'
    BY <2>9 DEF Crash, ReusePid
  <2>10. CASE UNCHANGED lockVars
    BY <2>10 DEF lockVars
  <2>11. QED
    BY <2>1, <2>2, <2>3, <2>4, <2>5, <2>6, <2>7, <2>8, <2>9, <2>10
       DEF LockNext, CreateStep
<1>3. QED BY <1>1, <1>2, PTL DEF LockSpec

-----------------------------------------------------------------------------
(* The strengthening that makes exclusion inductive.  A take-over is aimed at
   a process that is gone for good, and as long as no unlink hit another file
   the file on disk is the file of the live owner. *)
TakeoverAimsAtTheDead ==
    \A s \in Sessions : lpc[s] = "stale" => ~Running(seen[s])

OwnerHasFile ==
    ~stray => \A s \in Sessions : Owns(s) => file.owner = s

LockInv == LockTypeOK /\ TakeoverAimsAtTheDead /\ OwnerHasFile

(* The invariant implies exclusion: the one lock file has one owner. *)
LEMMA LockInvExcludes == LockInv => ExclusionUntilStrayUnlink
BY DEF LockInv, OwnerHasFile, ExclusionUntilStrayUnlink, MutualExclusion

(* Every step of the protocol preserves the invariant. *)
LEMMA LockInvStep ==
    ASSUME LockInv, LockTypeOK', [LockNext]_lockVars
    PROVE  LockInv'
<1> USE LockAssumption DEF LockAssumption, LockInv, LockTypeOK, TakeoverAimsAtTheDead, OwnerHasFile,
        Owns, Running, NoFile, EmptyFile
<1>1. ASSUME NEW s \in Sessions, OpenFirst(s)
      PROVE  LockInv'
  BY <1>1 DEF OpenFirst, GoTo
<1>2. ASSUME NEW s \in Sessions, ReadOwner(s)
      PROVE  LockInv'
  <2>1. CASE file.text = "json"
    BY <1>2, <2>1 DEF ReadOwner, GoTo
  <2>2. CASE file.text # "json"
    BY <1>2, <2>2 DEF ReadOwner, GoTo
  <2>3. QED BY <2>1, <2>2
<1>3. ASSUME NEW s \in Sessions, ProbeOwner(s)
      PROVE  LockInv'
  <2>1. lpc[s] = "probing" /\ seen[s] \in Sessions
    BY <1>3 DEF ProbeOwner
  <2>2. QED BY <1>3, <2>1 DEF ProbeOwner, GoTo
<1>4. ASSUME NEW s \in Sessions, UnlinkStale(s)
      PROVE  LockInv'
  <2>1. CASE file = NoFile
    BY <1>4, <2>1 DEF UnlinkStale, GoTo
  <2>2. CASE file # NoFile
    <3>1. ~stray' => \A t \in Sessions : ~Owns(t)
      BY <1>4, <2>2 DEF UnlinkStale
    <3>2. QED BY <1>4, <2>2, <3>1 DEF UnlinkStale, GoTo
  <2>3. QED BY <2>1, <2>2
<1>5. ASSUME NEW s \in Sessions, OpenAgain(s)
      PROVE  LockInv'
  BY <1>5 DEF OpenAgain, GoTo
<1>6. ASSUME NEW s \in Sessions, WriteOwner(s)
      PROVE  LockInv'
  BY <1>6 DEF WriteOwner, GoTo
<1>7. ASSUME NEW s \in Sessions, WriteFails(s)
      PROVE  LockInv'
  BY <1>7 DEF WriteFails, GoTo
<1>8. ASSUME NEW s \in Sessions, Release(s)
      PROVE  LockInv'
  BY <1>8 DEF Release, GoTo
<1>9. ASSUME NEW p \in Procs, Crash(p) \/ ReusePid(p)
      PROVE  LockInv'
  BY <1>9 DEF Crash, ReusePid
<1>10. CASE UNCHANGED lockVars
  BY <1>10 DEF lockVars
<1>11. QED
  BY <1>1, <1>2, <1>3, <1>4, <1>5, <1>6, <1>7, <1>8, <1>9, <1>10
     DEF LockNext, CreateStep

LEMMA LockInvariant == LockSpec => []LockInv
<1>1. LockInit /\ LockTypeOK => LockInv
  BY DEF LockInit, LockInv, TakeoverAimsAtTheDead, OwnerHasFile, Owns
<1>2. LockInv /\ LockTypeOK' /\ [LockNext]_lockVars => LockInv'
  BY LockInvStep
<1>3. QED BY <1>1, <1>2, LockTyping, PTL DEF LockSpec

(* However many sessions, processes, crashes and overlapping closes there are,
   two live sessions hold the profile lock of lock.ts together only after some
   unlink removed a file its caller had neither read nor created. *)
THEOREM Exclusion == LockSpec => []ExclusionUntilStrayUnlink
BY LockInvariant, LockInvExcludes, PTL

-----------------------------------------------------------------------------
(* Until a stray unlink the lock implements the abstract mutex: the owners are
   taken from nobody and one at a time, and given up by their own release or
   the death of their process.  A process that dies takes its only owner with
   it, since there is at most one. *)
LEMMA MutexStep ==
    ASSUME LockInv, LockInv', [LockNext]_lockVars, ~stray'
    PROVE  [Mutex!MutexNext]_OwnersNow
<1> USE LockAssumption DEF LockAssumption, LockInv, LockTypeOK, OwnerHasFile,
        OwnersNow, Owns, Running, NoFile, EmptyFile
<1>1. ~stray
  BY DEF LockNext, CreateStep, OpenFirst, ReadOwner, ProbeOwner, UnlinkStale, OpenAgain,
         WriteOwner, WriteFails, Release, Crash, ReusePid, lockVars
<1>2. ASSUME NEW s \in Sessions, OpenFirst(s) \/ OpenAgain(s)
      PROVE  Mutex!Acquire(s) \/ UNCHANGED OwnersNow
  <2>1. CASE file = NoFile /\ lpc' = [lpc EXCEPT ![s] = "opened"]
    <3>1. OwnersNow = {}
      BY <1>1, <2>1
    <3>2. OwnersNow' = {s}
      BY <1>1, <1>2, <2>1 DEF OpenFirst, OpenAgain
    <3>3. QED BY <3>1, <3>2 DEF Mutex!Acquire
  <2>2. CASE ~(file = NoFile /\ lpc' = [lpc EXCEPT ![s] = "opened"])
    BY <1>2, <2>2 DEF OpenFirst, OpenAgain, GoTo
  <2>3. QED BY <2>1, <2>2
<1>3. ASSUME NEW s \in Sessions,
             ReadOwner(s) \/ ProbeOwner(s) \/ UnlinkStale(s) \/ WriteOwner(s)
      PROVE  UNCHANGED OwnersNow
  BY <1>3 DEF ReadOwner, ProbeOwner, UnlinkStale, WriteOwner, GoTo
<1>4. ASSUME NEW s \in Sessions, WriteFails(s) \/ Release(s)
      PROVE  Mutex!Drop(s) \/ UNCHANGED OwnersNow
  <2>1. OwnersNow' = OwnersNow \ {s}
    BY <1>4 DEF WriteFails, Release, GoTo
  <2>2. QED BY <2>1 DEF Mutex!Drop
<1>5. ASSUME NEW p \in Procs, Crash(p)
      PROVE  (\E s \in Sessions : Mutex!Drop(s)) \/ UNCHANGED OwnersNow
  <2>1. OwnersNow' = {s \in OwnersNow : ProcOf[s] # p}
    BY <1>5 DEF Crash
  <2>2. CASE \E s \in OwnersNow : ProcOf[s] = p
    <3>1. PICK s \in OwnersNow : ProcOf[s] = p
      BY <2>2
    <3>2. OwnersNow = {s}
      BY <1>1, <3>1
    <3>3. OwnersNow' = OwnersNow \ {s}
      BY <2>1, <3>1, <3>2
    <3>4. QED BY <3>1, <3>3 DEF Mutex!Drop
  <2>3. CASE ~\E s \in OwnersNow : ProcOf[s] = p
    BY <2>1, <2>3
  <2>4. QED BY <2>2, <2>3
<1>6. ASSUME NEW p \in Procs, ReusePid(p)
      PROVE  UNCHANGED OwnersNow
  BY <1>6 DEF ReusePid
<1>7. CASE UNCHANGED lockVars
  BY <1>7 DEF lockVars
<1>8. QED
  BY <1>2, <1>3, <1>4, <1>5, <1>6, <1>7 DEF LockNext, CreateStep, Mutex!MutexNext

(* The lock protocol implements the mutex that docs/architecture.md promises,
   up to the first unlink of another session's lock file. *)
THEOREM LockImplementsMutex == LockSpec => ImplementsMutexUntilStray
<1>1. LockInit => Mutex!MutexInit
  BY DEF LockInit, Mutex!MutexInit, OwnersNow, Owns
<1>2. LockInv /\ LockInv' /\ [LockNext]_lockVars => (~stray' => [Mutex!MutexNext]_OwnersNow)
  BY MutexStep
<1>3. QED BY <1>1, <1>2, LockInvariant, PTL DEF LockSpec, ImplementsMutexUntilStray

-----------------------------------------------------------------------------
(* With no crash and no second release nothing is ever stray: every probe finds
   a live process, so no take-over starts, and a holder that releases its lock
   still has it. *)
NoTakeover ==
    /\ ~stray
    /\ \A p \in Procs : pid[p] = "running"
    /\ \A s \in Sessions : lpc[s] # "stale"

LEMMA NoTakeoverStep ==
    ASSUME Crashable = {}, ReleaseAgain = FALSE, LockInv, NoTakeover, [LockNext]_lockVars
    PROVE  NoTakeover'
<1> USE LockAssumption DEF LockAssumption, LockInv, LockTypeOK, OwnerHasFile, Owns, Running,
        NoTakeover, GoTo
<1>1. ASSUME NEW s \in Sessions, CreateStep(s)
      PROVE  NoTakeover'
  BY <1>1 DEF CreateStep, OpenFirst, ReadOwner, ProbeOwner, UnlinkStale, OpenAgain,
              WriteOwner, WriteFails
<1>2. ASSUME NEW s \in Sessions, Release(s)
      PROVE  NoTakeover'
  BY <1>2 DEF Release
<1>3. ASSUME NEW p \in Procs, Crash(p) \/ ReusePid(p)
      PROVE  NoTakeover'
  BY <1>3 DEF Crash, ReusePid
<1>4. CASE UNCHANGED lockVars
  BY <1>4 DEF lockVars
<1>5. QED BY <1>1, <1>2, <1>3, <1>4 DEF LockNext

(* Mutual exclusion holds outright where no process dies inside the protocol
   and no session's lock is released twice. *)
THEOREM CleanExclusion ==
    ASSUME Crashable = {}, ReleaseAgain = FALSE
    PROVE  LockSpec => []MutualExclusion
<1>1. LockInit => NoTakeover
  BY DEF LockInit, NoTakeover
<1>2. LockInv /\ NoTakeover /\ [LockNext]_lockVars => NoTakeover'
  BY NoTakeoverStep
<1>3. NoTakeover /\ ExclusionUntilStrayUnlink => MutualExclusion
  BY DEF NoTakeover, ExclusionUntilStrayUnlink
<1>4. QED BY <1>1, <1>2, <1>3, LockInvariant, Exclusion, PTL DEF LockSpec


-----------------------------------------------------------------------------
(* The session manager implements the lock protocol.                       *)

\* The steps of launch() and close() that do not touch the lock.
LaunchQuiet(s) ==
    \/ LaunchBegin(s) \/ MakeDirs(s) \/ EnsureMetadata(s) \/ LogRequested(s) \/ LaunchManaged(s)
    \/ SpawnChild(s) \/ Connected(s) \/ ConnectFails(s) \/ Checked(s) \/ TraceStarts(s)
    \/ LogCompleted(s) \/ BrowserExits(s)
CloseQuiet(c, s) ==
    \/ LogCloseRequested(c, s) \/ Finalize(c, s) \/ ContextCloses(c, s) \/ ContextCloseFails(c, s)
    \/ LogCloseCompleted(c, s) \/ ReapProfile(c, s) \/ Unregister(c, s)
ProcessStep(p) == Exit(p) \/ ProcessDies(p) \/ ReuseOfPid(p)

LEMMA NextByActor ==
    ASSUME Next
    PROVE  \/ \E s \in Sessions : LaunchQuiet(s) \/ TakeLock(s)
           \/ \E c \in Requests, s \in Sessions : CloseBegin(c, s)
           \/ \E c \in Closers, s \in Sessions : CloseQuiet(c, s) \/ ReleaseLock(c, s)
           \/ \E p \in Procs : ShutDown(p) \/ ProcessStep(p)
BY DEF Next, LaunchStep, CloseStep, LaunchQuiet, CloseQuiet, ProcessStep

LEMMA QuietLock ==
    /\ \A s \in Sessions : LaunchQuiet(s) => UNCHANGED lockVars
    /\ \A c \in Closers, s \in Sessions : CloseBegin(c, s) \/ CloseQuiet(c, s) => UNCHANGED lockVars
    /\ \A p \in Procs : ShutDown(p) => UNCHANGED lockVars
<1>1. ASSUME NEW s \in Sessions, LaunchQuiet(s) PROVE UNCHANGED lockVars
  BY <1>1 DEF LaunchQuiet, LaunchBegin, MakeDirs, EnsureMetadata, LogRequested, LaunchManaged,
              SpawnChild, Connected, ConnectFails, Checked, TraceStarts, Attach, LogCompleted, BrowserExits
<1>2. ASSUME NEW c \in Closers, NEW s \in Sessions, CloseBegin(c, s) \/ CloseQuiet(c, s)
      PROVE  UNCHANGED lockVars
  BY <1>2 DEF CloseBegin, CloseQuiet, LogCloseRequested, Finalize, ContextCloses, ContextCloseFails,
              LogCloseCompleted, ReapProfile, Unregister
<1>3. ASSUME NEW p \in Procs, ShutDown(p) PROVE UNCHANGED lockVars
  BY <1>3 DEF ShutDown
<1>. QED BY <1>1, <1>2, <1>3

LEMMA LockStep == [Next]_vars => [LockNext]_lockVars
<1> SUFFICES ASSUME [Next]_vars PROVE [LockNext]_lockVars
    OBVIOUS
<1>1. ASSUME NEW s \in Sessions, TakeLock(s) PROVE LockNext
  BY <1>1 DEF TakeLock, LockNext
<1>2. ASSUME NEW c \in Closers, NEW s \in Sessions, ReleaseLock(c, s) PROVE [LockNext]_lockVars
  BY <1>2 DEF ReleaseLock, LockNext
<1>3. ASSUME NEW p \in Procs, ProcessStep(p) PROVE LockNext
  BY <1>3 DEF ProcessStep, Exit, ProcessDies, ReuseOfPid, ProcessEnds, LockNext
<1>4. Requests \subseteq Closers BY DEF Closers
<1>5. CASE UNCHANGED vars BY <1>5 DEF vars
<1>. QED BY <1>1, <1>2, <1>3, <1>4, <1>5, QuietLock, NextByActor

LEMMA ImplementsLock == Spec => LockSpec
<1>1. SessionInit => LockInit BY DEF SessionInit
<1>. QED BY <1>1, LockStep, PTL DEF Spec, LockSpec

-----------------------------------------------------------------------------
(* The invariant.  Each part but the last speaks of one session. *)

\* A close() that is under way, and one that has ever been called.
Active(c, s) == closing[c][s] \notin {"idle", "done", "threw"}
Called(s) == \E c \in Closers : closing[c][s] # "idle"

\* Where launch() is and where the session is in the lock protocol.  Sessions of
\* disposable profiles never touch the lock, the others have gone through
\* create() once they get past "locking".
LockFollowsLaunch(s) ==
    /\ launch[s] \in {"none", "dirs"} => lpc[s] = "idle"
    /\ launch[s] = "locking" => Persistent(s) /\ lpc[s] \in CreateStates \cup {"idle"}
    /\ launch[s] \in {"metadata", "requested", "spawning", "connecting", "checking", "tracing"} /\ Persistent(s)
          => lpc[s] = "held"
    /\ launch[s] = "metadata" => Persistent(s)
    /\ launch[s] \notin {"none", "dirs"} /\ ~Persistent(s) => lpc[s] = "idle"
    /\ launch[s] \in {"announcing", "up"} /\ Persistent(s) => lpc[s] \in {"held", "released"}

\* Only attached sessions are registered or closed, and the lock outlives neither.
LockFollowsClose(s) ==
    /\ s \in registered \/ Called(s) => launch[s] \in {"announcing", "up", "threw"}
    /\ s \in registered \/ Called(s) => (Persistent(s) => lpc[s] \in {"held", "released"})
    /\ launch[s] \in {"announcing", "up"} /\ s \notin registered => lpc[s] \in {"idle", "released"}
    /\ \A c \in Closers :
          /\ closing[c][s] = "releasing" => Persistent(s)
          /\ closing[c][s] = "reaping" => ~Persistent(s)
          /\ closing[c][s] \in {"unregistering", "done"} => lpc[s] \in {"idle", "released"}
          /\ closing[c][s] = "done" => s \notin registered

\* A running session has not been closed, and has its lock.
RunningIsUnclosed(s) ==
    state[s] = "running" =>
        /\ launch[s] \in {"checking", "tracing", "announcing", "up", "threw"}
        /\ ~Called(s)
        /\ Persistent(s) => lpc[s] = "held"

SessionOK(s) == LockFollowsLaunch(s) /\ LockFollowsClose(s) /\ RunningIsUnclosed(s)

\* The lock file is that of a session which wrote it, or failed to, and holds it.
FileIsOf(s) ==
    file.owner = s => /\ lpc[s] \in {"opened", "held", "errored"}
                      /\ lpc[s] = "held" => file.text = "json"

\* A signal's closes are forced and throw only when files fail; the process is
\* gone only when they have settled.
ShutdownCloses(s) ==
    /\ exiting[ProcOf[s]] = "no" => closing[Shutdown][s] = "idle"
    /\ closing[Shutdown][s] # "idle" => s \in forced[Shutdown]
    /\ closing[Shutdown][s] = "threw" => IOFaults
    /\ exiting[ProcOf[s]] = "exited" =>
          ~Running(s) /\ closing[Shutdown][s] \in {"idle", "done", "threw"}

\* A session has one close at a time, while it is in the registry: the lock is
\* given back by the close that unregisters it next, and a failed close is over.
OneClose(s) ==
    /\ \A c, d \in Closers : Active(c, s) /\ Active(d, s) => c = d
    /\ \A c \in Closers : Active(c, s) => s \in registered
    /\ lpc[s] = "released" => s \notin registered \/ \E c \in Closers : closing[c][s] = "unregistering"
    /\ state[s] = "failed" => s \in registered /\ \A c \in Closers : ~Active(c, s)

SessionsOK == \A s \in Sessions : SessionOK(s)
FilesOK == \A s \in Sessions : FileIsOf(s)
ShutdownsOK == \A s \in Sessions : ShutdownCloses(s)
ClosesOK == \A s \in Sessions : OneClose(s)

-----------------------------------------------------------------------------
(* Types *)

SessionTypes ==
    /\ launch \in [Sessions -> LaunchStates]
    /\ profile \in [Sessions -> Profiles]
    /\ state \in [Sessions -> {"launching", "running", "closing", "closed", "failed"}]
    /\ registered \subseteq Sessions
    /\ browser \in [Sessions -> {"none", "running", "dying", "gone"}]
    /\ dir \in [Sessions -> {"absent", "present", "quarantined", "deleted"}]
    /\ closing \in [Closers -> [Sessions -> CloseStates]]
    /\ forced \in [Closers -> SUBSET Sessions]
    /\ exiting \in [Procs -> {"no", "closing", "exited"}]

LEMMA LaunchGoesTyped ==
    ASSUME SessionTypes, NEW s \in Sessions, NEW where \in LaunchStates, LaunchGoes(s, where)
    PROVE  /\ launch' \in [Sessions -> LaunchStates]
           /\ launch'[s] = where
           /\ \A q \in Sessions \ {s} : launch'[q] = launch[q]
BY DEF SessionTypes, LaunchGoes

LEMMA ClosingGoesTyped ==
    ASSUME SessionTypes, NEW c \in Closers, NEW s \in Sessions, NEW where \in CloseStates,
           ClosingGoes(c, s, where)
    PROVE  /\ closing' \in [Closers -> [Sessions -> CloseStates]]
           /\ closing'[c][s] = where
           /\ \A d \in Closers, q \in Sessions : d # c \/ q # s => closing'[d][q] = closing[d][q]
BY DEF SessionTypes, ClosingGoes

\* What a step of launch() does to where it is.
LEMMA LaunchQuietMoves ==
    ASSUME SessionTypes, NEW s \in Sessions, LaunchQuiet(s)
    PROVE  /\ launch' \in [Sessions -> LaunchStates]
           /\ \A q \in Sessions \ {s} : launch'[q] = launch[q]
           /\ UNCHANGED <<closing, forced, exiting>>
<1> USE DEF NextOrThrow, LaunchStates
<1>1. CASE LaunchBegin(s) BY <1>1, LaunchGoesTyped DEF LaunchBegin
<1>2. CASE MakeDirs(s) BY <1>2, LaunchGoesTyped DEF MakeDirs
<1>3. CASE EnsureMetadata(s) BY <1>3, LaunchGoesTyped DEF EnsureMetadata
<1>4. CASE LogRequested(s) BY <1>4, LaunchGoesTyped DEF LogRequested
<1>5. CASE LaunchManaged(s) BY <1>5, LaunchGoesTyped DEF LaunchManaged, Attach
<1>6. CASE SpawnChild(s) BY <1>6, LaunchGoesTyped DEF SpawnChild
<1>7. CASE Connected(s) BY <1>7, LaunchGoesTyped DEF Connected, Attach
<1>8. CASE ConnectFails(s) BY <1>8, LaunchGoesTyped DEF ConnectFails
<1>9. CASE Checked(s) BY <1>9, LaunchGoesTyped DEF Checked, Attach
<1>12. CASE TraceStarts(s) BY <1>12, LaunchGoesTyped DEF TraceStarts
<1>10. CASE LogCompleted(s) BY <1>10, LaunchGoesTyped DEF LogCompleted
<1>11. CASE BrowserExits(s) BY <1>11 DEF BrowserExits, SessionTypes
<1>. QED BY <1>1, <1>2, <1>3, <1>4, <1>5, <1>6, <1>7, <1>8, <1>9, <1>10, <1>11, <1>12
       DEF LaunchQuiet

LEMMA CloseQuietMoves ==
    ASSUME SessionTypes, NEW c \in Closers, NEW s \in Sessions, CloseQuiet(c, s)
    PROVE  /\ closing' \in [Closers -> [Sessions -> CloseStates]]
           /\ \A d \in Closers, q \in Sessions : d # c \/ q # s => closing'[d][q] = closing[d][q]
           /\ UNCHANGED <<launch, profile, forced, exiting>>
<1> USE DEF CloseStates
<1>1. CASE LogCloseRequested(c, s) BY <1>1, ClosingGoesTyped DEF LogCloseRequested
<1>2. CASE ContextCloses(c, s) BY <1>2, ClosingGoesTyped DEF ContextCloses
<1>3. CASE ContextCloseFails(c, s) BY <1>3, ClosingGoesTyped DEF ContextCloseFails
<1>4. CASE LogCloseCompleted(c, s) BY <1>4, ClosingGoesTyped DEF LogCloseCompleted
<1>5. CASE ReapProfile(c, s) BY <1>5, ClosingGoesTyped DEF ReapProfile
<1>6. CASE Unregister(c, s) BY <1>6, ClosingGoesTyped DEF Unregister
<1>7. CASE Finalize(c, s) BY <1>7, ClosingGoesTyped DEF Finalize
<1>. QED BY <1>1, <1>2, <1>3, <1>4, <1>5, <1>6, <1>7 DEF CloseQuiet

LEMMA LaunchQuietTypes ==
    ASSUME SessionTypes, NEW s \in Sessions, LaunchQuiet(s)
    PROVE  SessionTypes'
<1>0. launch' \in [Sessions -> LaunchStates] /\ UNCHANGED <<closing, forced, exiting>>
  BY LaunchQuietMoves
<1> USE DEF SessionTypes
<1>1. CASE LaunchBegin(s)
  <2>1. profile' \in [Sessions -> Profiles] BY <1>1, SessionAssumption DEF LaunchBegin, Profiles
  <2>. QED BY <1>0, <1>1, <2>1 DEF LaunchBegin
<1>2. CASE MakeDirs(s) BY <1>0, <1>2 DEF MakeDirs
<1>3. CASE EnsureMetadata(s) BY <1>0, <1>3 DEF EnsureMetadata
<1>4. CASE LogRequested(s) BY <1>0, <1>4 DEF LogRequested
<1>5. CASE LaunchManaged(s) BY <1>0, <1>5 DEF LaunchManaged, Attach
<1>6. CASE SpawnChild(s) BY <1>0, <1>6 DEF SpawnChild
<1>7. CASE Connected(s) BY <1>0, <1>7 DEF Connected, Attach
<1>8. CASE ConnectFails(s) BY <1>0, <1>8 DEF ConnectFails, Killed
<1>9. CASE Checked(s) BY <1>0, <1>9 DEF Checked, Attach
<1>12. CASE TraceStarts(s) BY <1>0, <1>12 DEF TraceStarts
<1>10. CASE LogCompleted(s) BY <1>0, <1>10 DEF LogCompleted
<1>11. CASE BrowserExits(s) BY <1>0, <1>11 DEF BrowserExits
<1>. QED BY <1>1, <1>2, <1>3, <1>4, <1>5, <1>6, <1>7, <1>8, <1>9, <1>10, <1>11, <1>12
       DEF LaunchQuiet

LEMMA CloseQuietTypes ==
    ASSUME SessionTypes, NEW c \in Closers, NEW s \in Sessions, CloseQuiet(c, s)
    PROVE  SessionTypes'
<1>0. /\ closing' \in [Closers -> [Sessions -> CloseStates]]
      /\ UNCHANGED <<launch, profile, forced, exiting>>
  BY CloseQuietMoves
<1> USE DEF SessionTypes
<1>1. CASE LogCloseRequested(c, s) BY <1>0, <1>1 DEF LogCloseRequested
<1>2. CASE ContextCloses(c, s) BY <1>0, <1>2 DEF ContextCloses, Killed
<1>3. CASE ContextCloseFails(c, s) BY <1>0, <1>3 DEF ContextCloseFails, Killed
<1>4. CASE LogCloseCompleted(c, s) BY <1>0, <1>4 DEF LogCloseCompleted
<1>5. CASE ReapProfile(c, s) BY <1>0, <1>5 DEF ReapProfile
<1>6. CASE Unregister(c, s) BY <1>0, <1>6 DEF Unregister
<1>7. CASE Finalize(c, s) BY <1>0, <1>7 DEF Finalize, Killed
<1>. QED BY <1>1, <1>2, <1>3, <1>4, <1>5, <1>6, <1>7 DEF CloseQuiet

\* The steps on the lock: create() as launch() goes through it, and release().
LEMMA TakeLockMoves ==
    ASSUME SessionTypes, NEW s \in Sessions, TakeLock(s)
    PROVE  /\ launch[s] = "locking" /\ CreateStep(s)
           /\ launch' \in [Sessions -> LaunchStates]
           /\ \A q \in Sessions \ {s} : launch'[q] = launch[q]
           /\ \/ lpc'[s] = "held" /\ launch'[s] = "metadata"
              \/ lpc'[s] \in {"refused", "errored"} /\ launch'[s] = "threw"
              \/ lpc'[s] \notin {"held", "refused", "errored"} /\ launch'[s] = "locking"
           /\ UNCHANGED <<profile, state, registered, browser, dir, closing, forced, exiting>>
<1>1. PICK where \in {"metadata", "threw", "locking"} :
        /\ launch' = [launch EXCEPT ![s] = where]
        /\ \/ lpc'[s] = "held" /\ where = "metadata"
           \/ lpc'[s] \in {"refused", "errored"} /\ where = "threw"
           \/ lpc'[s] \notin {"held", "refused", "errored"} /\ where = "locking"
  BY DEF TakeLock
<1>2. where \in LaunchStates BY DEF LaunchStates
<1>. QED BY <1>1, <1>2 DEF TakeLock, LaunchAt, SessionTypes

LEMMA ReleaseLockMoves ==
    ASSUME SessionTypes, NEW c \in Closers, NEW s \in Sessions, ReleaseLock(c, s)
    PROVE  /\ closing[c][s] = "releasing"
           /\ closing' \in [Closers -> [Sessions -> CloseStates]]
           /\ \A d \in Closers, q \in Sessions : d # c \/ q # s => closing'[d][q] = closing[d][q]
           /\ \/ Release(s) /\ closing'[c][s] = "unregistering"
              \/ IOFaults /\ UNCHANGED lockVars /\ closing'[c][s] = "threw"
           /\ UNCHANGED <<launch, profile, state, registered, browser, dir, forced, exiting>>
BY ClosingGoesTyped DEF ReleaseLock, ClosingAt, CloseStates

LEMMA TypesStep == SessionTypes /\ [Next]_vars => SessionTypes'
<1> SUFFICES ASSUME SessionTypes, [Next]_vars PROVE SessionTypes'
    OBVIOUS
<1>1. ASSUME NEW s \in Sessions, TakeLock(s) PROVE SessionTypes'
  BY <1>1, TakeLockMoves DEF SessionTypes
<1>2. ASSUME NEW c \in Requests, NEW s \in Sessions, CloseBegin(c, s) PROVE SessionTypes'
  <2>1. c \in Closers BY DEF Closers
  <2>2. closing' \in [Closers -> [Sessions -> CloseStates]]
    BY <1>2, <2>1, ClosingGoesTyped DEF CloseBegin, CloseStates
  <2>3. forced' \in [Closers -> SUBSET Sessions] BY <1>2, <2>1 DEF CloseBegin, SessionTypes
  <2>. QED BY <1>2, <2>2, <2>3 DEF CloseBegin, SessionTypes
<1>3. ASSUME NEW c \in Closers, NEW s \in Sessions, ReleaseLock(c, s) PROVE SessionTypes'
  BY <1>3, ReleaseLockMoves DEF SessionTypes
<1>4. ASSUME NEW p \in Procs, ShutDown(p) PROVE SessionTypes'
  <2>0. Shutdown \in Closers BY DEF Closers
  <2>1. closing' \in [Closers -> [Sessions -> CloseStates]]
    BY <1>4, <2>0 DEF ShutDown, SessionTypes, CloseStates
  <2>2. forced' \in [Closers -> SUBSET Sessions]
    BY <1>4, <2>0 DEF ShutDown, SessionTypes, LiveIn
  <2>. QED BY <1>4, <2>1, <2>2 DEF ShutDown, SessionTypes
<1>5. ASSUME NEW p \in Procs, ProcessStep(p) PROVE SessionTypes'
  BY <1>5 DEF ProcessStep, Exit, ProcessDies, ReuseOfPid, ProcessEnds, sessionVars, SessionTypes
<1>6. CASE UNCHANGED vars BY <1>6 DEF vars, sessionVars, SessionTypes
<1>. QED BY <1>1, <1>2, <1>3, <1>4, <1>5, <1>6, LaunchQuietTypes, CloseQuietTypes, NextByActor

\* Every variable of launch(), close() and the lock keeps its type, in every
\* reachable state (manager.ts, lock.ts).
THEOREM SessionTyping == Spec => []TypeOK
<1>1. SessionInit => SessionTypes
  BY DEF SessionInit, SessionTypes, LaunchStates, Profiles, CloseStates
<1>2. LockTypeOK /\ SessionTypes => TypeOK BY DEF TypeOK, SessionTypes
<1>3. Spec => []LockTypeOK BY ImplementsLock, LockTyping, PTL
<1>. QED BY <1>1, <1>2, <1>3, TypesStep, PTL DEF Spec

-----------------------------------------------------------------------------
(* Each step preserves the invariant. *)

LEMMA CreateMoves ==
    ASSUME LockTypeOK, NEW s \in Sessions, CreateStep(s)
    PROVE  /\ lpc[s] \in CreateStates \cup {"idle"}
           /\ lpc'[s] \in CreateStates \cup {"held", "refused", "errored"}
           /\ \A q \in Sessions \ {s} : lpc'[q] = lpc[q]
           /\ pid' = pid
BY DEF CreateStep, OpenFirst, ReadOwner, ProbeOwner, UnlinkStale, OpenAgain, WriteOwner, WriteFails,
       GoTo, LockTypeOK, CreateStates

LEMMA ReleaseMoves ==
    ASSUME LockTypeOK, NEW s \in Sessions, Release(s)
    PROVE  /\ lpc[s] \in {"held", "released"} /\ lpc'[s] = "released"
           /\ \A q \in Sessions \ {s} : lpc'[q] = lpc[q]
           /\ pid' = pid /\ file' = NoFile
BY DEF Release, GoTo, LockTypeOK

\* No step of the lock protocol gives a session the lock file of another.
LEMMA FilesStep == LockTypeOK /\ FilesOK /\ [LockNext]_lockVars => FilesOK'
<1> SUFFICES ASSUME LockTypeOK, FilesOK, [LockNext]_lockVars PROVE FilesOK'
    OBVIOUS
<1> USE LockAssumption DEF LockAssumption, FilesOK, FileIsOf, LockTypeOK, NoFile, EmptyFile, GoTo
<1>1. ASSUME NEW s \in Sessions, OpenFirst(s) PROVE FilesOK' BY <1>1 DEF OpenFirst
<1>2. ASSUME NEW s \in Sessions, ReadOwner(s) PROVE FilesOK'
  <2>1. lpc[s] = "reading" /\ file' = file /\ lpc' = [lpc EXCEPT ![s] = lpc'[s]]
    BY <1>2 DEF ReadOwner
  <2>. QED BY <2>1
<1>3. ASSUME NEW s \in Sessions, ProbeOwner(s) PROVE FilesOK'
  <2>1. lpc[s] = "probing" /\ file' = file /\ lpc' = [lpc EXCEPT ![s] = lpc'[s]]
    BY <1>3 DEF ProbeOwner
  <2>. QED BY <2>1
<1>4. ASSUME NEW s \in Sessions, UnlinkStale(s) PROVE FilesOK' BY <1>4 DEF UnlinkStale
<1>5. ASSUME NEW s \in Sessions, OpenAgain(s) PROVE FilesOK' BY <1>5 DEF OpenAgain
<1>6. ASSUME NEW s \in Sessions, WriteOwner(s) PROVE FilesOK' BY <1>6 DEF WriteOwner
<1>7. ASSUME NEW s \in Sessions, WriteFails(s) PROVE FilesOK' BY <1>7 DEF WriteFails
<1>8. ASSUME NEW s \in Sessions, Release(s) PROVE FilesOK' BY <1>8 DEF Release
<1>9. ASSUME NEW p \in Procs, Crash(p) \/ ReusePid(p) PROVE FilesOK' BY <1>9 DEF Crash, ReusePid
<1>10. CASE UNCHANGED lockVars BY <1>10 DEF lockVars
<1>. QED BY <1>1, <1>2, <1>3, <1>4, <1>5, <1>6, <1>7, <1>8, <1>9, <1>10 DEF LockNext, CreateStep

Typed == LockTypeOK /\ SessionTypes

\* A step that leaves a session alone.
LEMMA SameSession ==
    ASSUME NEW s \in Sessions, SessionOK(s),
           launch'[s] = launch[s], profile'[s] = profile[s], state'[s] = state[s], lpc'[s] = lpc[s],
           s \in registered' <=> s \in registered,
           \A c \in Closers : closing'[c][s] = closing[c][s]
    PROVE  SessionOK(s)'
BY DEF SessionOK, LockFollowsLaunch, LockFollowsClose, RunningIsUnclosed, Persistent, Called

LEMMA LaunchQuietOK ==
    ASSUME Typed, SessionsOK, NEW s \in Sessions, LaunchQuiet(s)
    PROVE  SessionsOK'
<1>0. /\ lpc' = lpc /\ UNCHANGED closing
      /\ \A q \in Sessions \ {s} : launch'[q] = launch[q]
  BY LaunchQuietMoves, QuietLock DEF lockVars, Typed
<1>1. \A q \in Sessions \ {s} :
        /\ profile'[q] = profile[q] /\ state'[q] = state[q]
        /\ q \in registered' <=> q \in registered
  BY DEF LaunchQuiet, LaunchBegin, MakeDirs, EnsureMetadata, LogRequested, LaunchManaged,
         SpawnChild, Connected, ConnectFails, Checked, TraceStarts, Attach, LogCompleted, BrowserExits, Typed, SessionTypes
<1>2. \A q \in Sessions \ {s} : SessionOK(q)' BY <1>0, <1>1, SameSession DEF SessionsOK
<1>3. SUFFICES SessionOK(s)' BY <1>2 DEF SessionsOK
<1> USE DEF SessionOK, LockFollowsLaunch, LockFollowsClose, RunningIsUnclosed, Persistent, Called,
            Typed, SessionTypes, NextOrThrow, LaunchGoes, LaunchAt
<1>4. SessionOK(s) BY DEF SessionsOK
<1>5. CASE LaunchBegin(s)
  <2>1. launch[s] = "none" /\ launch'[s] = "dirs" /\ UNCHANGED <<state, registered>>
    BY <1>5 DEF LaunchBegin
  <2>2. lpc'[s] = "idle" /\ s \notin registered' /\ ~Called(s)' /\ state'[s] # "running"
    BY <2>1, <1>0, <1>4
  <2>. QED BY <2>1, <2>2
<1>6. CASE MakeDirs(s) BY <1>0, <1>4, <1>6 DEF MakeDirs
<1>7. CASE EnsureMetadata(s) BY <1>0, <1>4, <1>7 DEF EnsureMetadata
<1>8. CASE LogRequested(s) BY <1>0, <1>4, <1>8 DEF LogRequested
<1>9. CASE LaunchManaged(s) BY <1>0, <1>4, <1>9 DEF LaunchManaged, Attach
<1>10. CASE SpawnChild(s) BY <1>0, <1>4, <1>10 DEF SpawnChild
<1>11. CASE Connected(s) BY <1>0, <1>4, <1>11 DEF Connected, Attach
<1>12. CASE ConnectFails(s) BY <1>0, <1>4, <1>12 DEF ConnectFails
<1>13. CASE Checked(s) BY <1>0, <1>4, <1>13 DEF Checked, Attach
<1>16. CASE TraceStarts(s) BY <1>0, <1>4, <1>16 DEF TraceStarts
<1>14. CASE LogCompleted(s) BY <1>0, <1>4, <1>14 DEF LogCompleted
<1>15. CASE BrowserExits(s) BY <1>0, <1>4, <1>15 DEF BrowserExits
<1>. QED BY <1>5, <1>6, <1>7, <1>8, <1>9, <1>10, <1>11, <1>12, <1>13, <1>14, <1>15, <1>16
       DEF LaunchQuiet

LEMMA CloseQuietOK ==
    ASSUME Typed, SessionsOK, NEW c \in Closers, NEW s \in Sessions, CloseQuiet(c, s)
    PROVE  SessionsOK'
<1>0. /\ lpc' = lpc /\ UNCHANGED <<launch, profile>>
      /\ closing' \in [Closers -> [Sessions -> CloseStates]]
      /\ \A d \in Closers, q \in Sessions : d # c \/ q # s => closing'[d][q] = closing[d][q]
  BY CloseQuietMoves, QuietLock DEF lockVars, Typed
<1>1. \A q \in Sessions \ {s} : state'[q] = state[q] /\ (q \in registered' <=> q \in registered)
  BY DEF CloseQuiet, LogCloseRequested, Finalize, ContextCloses, ContextCloseFails, LogCloseCompleted,
         ReapProfile, Unregister, Typed, SessionTypes
<1>2. \A q \in Sessions \ {s} : SessionOK(q)' BY <1>0, <1>1, SameSession DEF SessionsOK
<1>3. SUFFICES SessionOK(s)' BY <1>2 DEF SessionsOK
<1>4. SessionOK(s) BY DEF SessionsOK
<1>5. closing[c][s] # "idle" BY DEF CloseQuiet, LogCloseRequested, Finalize, ContextCloses, ContextCloseFails,
         LogCloseCompleted, ReapProfile, Unregister, ClosingAt
<1>6. state'[s] # "running"
  <2>1. state[s] # "running" BY <1>4, <1>5 DEF SessionOK, RunningIsUnclosed, Called
  <2>. QED BY <2>1 DEF CloseQuiet, LogCloseRequested, Finalize, ContextCloses, ContextCloseFails,
         LogCloseCompleted, ReapProfile, Unregister, Typed, SessionTypes
<1>7. LockFollowsLaunch(s)' BY <1>0, <1>4 DEF SessionOK, LockFollowsLaunch, Persistent
<1>8. Called(s) BY <1>5 DEF Called
<1>9. closing'[c][s] \in {"unregistering", "done"} => lpc[s] \in {"idle", "released"}
  <2>1. CASE ReapProfile(c, s)
    <3>1. ~Persistent(s) BY <2>1, <1>4 DEF ReapProfile, ClosingAt, SessionOK, LockFollowsClose
    <3>. QED BY <3>1, <1>4, <1>8 DEF SessionOK, LockFollowsLaunch, LockFollowsClose
  <2>2. CASE Unregister(c, s)
    BY <2>2, <1>4 DEF Unregister, ClosingAt, SessionOK, LockFollowsClose
  <2>3. CASE LogCloseRequested(c, s) \/ Finalize(c, s) \/ ContextCloses(c, s) \/ ContextCloseFails(c, s)
                \/ LogCloseCompleted(c, s)
    BY <2>3 DEF LogCloseRequested, Finalize, ContextCloses, ContextCloseFails, LogCloseCompleted,
            ClosingGoes, Typed, SessionTypes
  <2>. QED BY <2>1, <2>2, <2>3 DEF CloseQuiet
<1>10. /\ closing'[c][s] = "releasing" => Persistent(s)
       /\ closing'[c][s] = "reaping" => ~Persistent(s)
       /\ closing'[c][s] = "done" => s \notin registered'
       /\ s \in registered' => s \in registered
       /\ s \in registered /\ s \notin registered' => closing[c][s] = "unregistering"
  BY <1>4 DEF CloseQuiet, LogCloseRequested, Finalize, ContextCloses, ContextCloseFails, LogCloseCompleted,
         ReapProfile, Unregister, ClosingGoes, ClosingAt, Typed, SessionTypes, SessionOK, LockFollowsClose
<1>11. LockFollowsClose(s)'
  BY <1>0, <1>4, <1>8, <1>9, <1>10 DEF SessionOK, LockFollowsClose, Persistent, Called
<1>. QED BY <1>6, <1>7, <1>11 DEF SessionOK, RunningIsUnclosed

LEMMA TakeLockOK ==
    ASSUME Typed, SessionsOK, NEW s \in Sessions, TakeLock(s)
    PROVE  SessionsOK'
<1>1. /\ launch[s] = "locking"
      /\ \A q \in Sessions \ {s} : launch'[q] = launch[q]
      /\ \/ lpc'[s] = "held" /\ launch'[s] = "metadata"
         \/ lpc'[s] \in {"refused", "errored"} /\ launch'[s] = "threw"
         \/ lpc'[s] \notin {"held", "refused", "errored"} /\ launch'[s] = "locking"
      /\ UNCHANGED <<profile, state, registered, closing>>
  BY TakeLockMoves DEF Typed
<1>2. /\ lpc'[s] \in CreateStates \cup {"held", "refused", "errored"}
      /\ \A q \in Sessions \ {s} : lpc'[q] = lpc[q]
  BY TakeLockMoves, CreateMoves DEF Typed
<1>3. \A q \in Sessions \ {s} : SessionOK(q)' BY <1>1, <1>2, SameSession DEF SessionsOK
<1>4. SessionOK(s) BY DEF SessionsOK
<1>5. SessionOK(s)'
  <2>1. Persistent(s) /\ Persistent(s)' BY <1>1, <1>4 DEF SessionOK, LockFollowsLaunch, Persistent
  <2>2. s \notin registered' /\ ~Called(s)' /\ state'[s] # "running" /\ ~Called(s)
    BY <1>1, <1>4 DEF SessionOK, LockFollowsClose, RunningIsUnclosed, Called
  <2>3. LockFollowsLaunch(s)' BY <1>1, <1>2, <2>1 DEF LockFollowsLaunch
  <2>4. LockFollowsClose(s)' BY <1>1, <2>2 DEF LockFollowsClose, Called
  <2>. QED BY <2>2, <2>3, <2>4 DEF SessionOK, RunningIsUnclosed
<1>. QED BY <1>3, <1>5 DEF SessionsOK

LEMMA ReleaseLockOK ==
    ASSUME Typed, SessionsOK, NEW c \in Closers, NEW s \in Sessions, ReleaseLock(c, s)
    PROVE  SessionsOK'
<1>1. /\ closing[c][s] = "releasing"
      /\ \A d \in Closers, q \in Sessions : d # c \/ q # s => closing'[d][q] = closing[d][q]
      /\ \/ Release(s) /\ closing'[c][s] = "unregistering"
         \/ IOFaults /\ UNCHANGED lockVars /\ closing'[c][s] = "threw"
      /\ UNCHANGED <<launch, profile, state, registered>>
  BY ReleaseLockMoves DEF Typed
<1>2. /\ lpc'[s] = lpc[s] \/ lpc'[s] = "released"
      /\ closing'[c][s] = "unregistering" => lpc'[s] = "released"
      /\ \A q \in Sessions \ {s} : lpc'[q] = lpc[q]
  BY <1>1, ReleaseMoves DEF Typed, lockVars
<1>3. \A q \in Sessions \ {s} : SessionOK(q)' BY <1>1, <1>2, SameSession DEF SessionsOK
<1>4. SessionOK(s) /\ Called(s) /\ Called(s)' BY <1>1 DEF SessionsOK, Called
<1>5. /\ launch'[s] = launch[s] /\ launch[s] \in {"announcing", "up", "threw"}
      /\ Persistent(s) /\ Persistent(s)' /\ lpc[s] \in {"held", "released"}
      /\ state'[s] # "running"
  BY <1>1, <1>4 DEF SessionOK, LockFollowsClose, RunningIsUnclosed, Persistent
<1>6. LockFollowsLaunch(s)' BY <1>2, <1>5 DEF LockFollowsLaunch
<1>7. LockFollowsClose(s)'
  <2>1. launch[s] \in {"announcing", "up"} /\ s \notin registered => lpc[s] = "released"
    BY <1>4, <1>5 DEF SessionOK, LockFollowsClose
  <2>2. ASSUME NEW d \in Closers
        PROVE  /\ closing'[d][s] = "reaping" => ~Persistent(s)'
               /\ closing'[d][s] \in {"unregistering", "done"} => lpc'[s] \in {"idle", "released"}
               /\ closing'[d][s] = "done" => s \notin registered'
    BY <1>1, <1>2, <1>4, <1>5 DEF SessionOK, LockFollowsClose
  <2>. QED BY <1>1, <1>2, <1>5, <2>1, <2>2 DEF LockFollowsClose
<1>. QED BY <1>3, <1>5, <1>6, <1>7 DEF SessionsOK, SessionOK, RunningIsUnclosed

LEMMA CloseBeginOK ==
    ASSUME Typed, SessionsOK, NEW c \in Closers, NEW s \in Sessions, CloseBegin(c, s)
    PROVE  SessionsOK'
<1>1. /\ closing'[c][s] = "logging"
      /\ \A d \in Closers, q \in Sessions : d # c \/ q # s => closing'[d][q] = closing[d][q]
      /\ UNCHANGED <<launch, profile, registered, lpc>> /\ s \in registered
      /\ state'[s] = "closing" /\ \A q \in Sessions \ {s} : state'[q] = state[q]
  BY ClosingGoesTyped DEF CloseBegin, Typed, SessionTypes, CloseStates, lockVars
<1>2. \A q \in Sessions \ {s} : SessionOK(q)' BY <1>1, SameSession DEF SessionsOK
<1>3. SessionOK(s) BY DEF SessionsOK
<1>4. SessionOK(s)'
  BY <1>1, <1>3 DEF SessionOK, LockFollowsLaunch, LockFollowsClose, RunningIsUnclosed, Called, Persistent
<1>. QED BY <1>2, <1>4 DEF SessionsOK

LEMMA ShutDownMoves ==
    ASSUME Typed, NEW p \in Procs, ShutDown(p)
    PROVE  /\ exiting[p] = "no" /\ exiting' = [exiting EXCEPT ![p] = "closing"] /\ p \in MayShutDown
           /\ UNCHANGED <<launch, profile, registered, lpc, pid>>
           /\ \A s \in Sessions :
                 IF s \in LiveIn(p)
                 THEN state'[s] = "closing" /\ closing'[Shutdown][s] = "logging" /\ s \in forced'[Shutdown]
                 ELSE state'[s] = state[s] /\ closing'[Shutdown][s] = closing[Shutdown][s]
           /\ \A c \in Requests, s \in Sessions : closing'[c][s] = closing[c][s]
           /\ \A s \in Sessions : s \in forced[Shutdown] => s \in forced'[Shutdown]
BY SessionAssumption DEF ShutDown, Typed, SessionTypes, Closers, lockVars, LiveIn

LEMMA ShutDownOK ==
    ASSUME Typed, SessionsOK, NEW p \in Procs, ShutDown(p)
    PROVE  SessionsOK'
<1>0. Closers = Requests \cup {Shutdown} BY DEF Closers
<1>1. SUFFICES ASSUME NEW s \in Sessions PROVE SessionOK(s)'
    BY DEF SessionsOK
<1>2. SessionOK(s) BY DEF SessionsOK
<1>3. CASE s \in LiveIn(p)
  <2>1. /\ s \in registered /\ state'[s] = "closing" /\ closing'[Shutdown][s] = "logging"
        /\ \A c \in Closers \ {Shutdown} : closing'[c][s] = closing[c][s]
        /\ UNCHANGED <<launch, profile, registered, lpc>>
    BY <1>0, <1>3, ShutDownMoves DEF LiveIn
  <2>. QED BY <2>1, <1>2
           DEF SessionOK, LockFollowsLaunch, LockFollowsClose, RunningIsUnclosed, Called, Persistent
<1>4. CASE s \notin LiveIn(p)
  <2>1. /\ state'[s] = state[s] /\ UNCHANGED <<launch, profile, registered, lpc>>
        /\ \A c \in Closers : closing'[c][s] = closing[c][s]
    BY <1>0, <1>4, ShutDownMoves
  <2>. QED BY <2>1, <1>2, SameSession
<1>. QED BY <1>3, <1>4

LEMMA ProcessStepMoves ==
    ASSUME Typed, NEW p \in Procs, ProcessStep(p)
    PROVE  /\ UNCHANGED <<launch, profile, state, registered, closing, forced, lpc>>
           /\ \A q \in Procs : pid[q] # "running" => pid'[q] # "running"
           /\ \/ exiting' = exiting
              \/ /\ exiting' = [exiting EXCEPT ![p] = "exited"] /\ pid'[p] # "running"
                 /\ \A s \in Sessions : ProcOf[s] = p => closing[Shutdown][s] \in {"idle", "done", "threw"}
BY DEF ProcessStep, Exit, ProcessDies, ReuseOfPid, ProcessEnds, Crash, ReusePid, sessionVars,
       Typed, LockTypeOK

LEMMA SessionsInit == SessionInit => SessionsOK
<1> SUFFICES ASSUME SessionInit, NEW s \in Sessions PROVE SessionOK(s)
    BY DEF SessionsOK
<1>1. /\ launch[s] = "none" /\ lpc[s] = "idle" /\ state[s] = "launching" /\ s \notin registered
      /\ \A c \in Closers : closing[c][s] = "idle"
  BY DEF SessionInit, LockInit
<1>2. ~Called(s) BY <1>1 DEF Called
<1>. QED BY <1>1, <1>2 DEF SessionOK, LockFollowsLaunch, LockFollowsClose, RunningIsUnclosed

LEMMA SessionsStep == Typed /\ SessionsOK /\ [Next]_vars => SessionsOK'
<1> SUFFICES ASSUME Typed, SessionsOK, [Next]_vars PROVE SessionsOK'
    OBVIOUS
<1>1. ASSUME NEW p \in Procs, ProcessStep(p) PROVE SessionsOK'
  <2>1. UNCHANGED <<launch, profile, state, registered, closing, lpc>>
    BY <1>1, ProcessStepMoves
  <2>2. \A s \in Sessions : SessionOK(s)' BY <2>1, SameSession DEF SessionsOK
  <2>. QED BY <2>2 DEF SessionsOK
<1>2. CASE UNCHANGED vars
  <2>1. UNCHANGED <<launch, profile, state, registered, closing, lpc>>
    BY <1>2 DEF vars, lockVars, sessionVars
  <2>2. \A s \in Sessions : SessionOK(s)' BY <2>1, SameSession DEF SessionsOK
  <2>. QED BY <2>2 DEF SessionsOK
<1>3. Requests \subseteq Closers BY DEF Closers
<1>4. ASSUME NEW s \in Sessions, LaunchQuiet(s) \/ TakeLock(s) PROVE SessionsOK'
  BY <1>4, LaunchQuietOK, TakeLockOK
<1>5. ASSUME NEW c \in Requests, NEW s \in Sessions, CloseBegin(c, s) PROVE SessionsOK'
  BY <1>3, <1>5, CloseBeginOK
<1>6. ASSUME NEW c \in Closers, NEW s \in Sessions, CloseQuiet(c, s) \/ ReleaseLock(c, s)
      PROVE  SessionsOK'
  BY <1>6, CloseQuietOK, ReleaseLockOK
<1>7. ASSUME NEW p \in Procs, ShutDown(p) PROVE SessionsOK'
  BY <1>7, ShutDownOK
<1>. QED BY <1>1, <1>2, <1>4, <1>5, <1>6, <1>7, NextByActor

-----------------------------------------------------------------------------
(* The shutdown handler's closes. *)

LEMMA SameShutdown ==
    ASSUME NEW s \in Sessions, ShutdownCloses(s),
           closing'[Shutdown][s] = closing[Shutdown][s], forced'[Shutdown] = forced[Shutdown],
           exiting' = exiting, pid'[ProcOf[s]] = "running" => pid[ProcOf[s]] = "running"
    PROVE  ShutdownCloses(s)'
BY DEF ShutdownCloses, Running

\* What a step of a close does with the state in which the handler waits for it.
LEMMA CloseQuietThrows ==
    ASSUME Typed, NEW c \in Closers, NEW s \in Sessions, CloseQuiet(c, s)
    PROVE  /\ Running(s) /\ Active(c, s)
           /\ closing'[c][s] # "idle"
           /\ closing'[c][s] = "threw" => IOFaults \/ s \notin forced[c]
BY DEF CloseQuiet, LogCloseRequested, Finalize, ContextCloses, ContextCloseFails, LogCloseCompleted,
       ReapProfile, Unregister, ClosingAt, ClosingGoes, Active, Typed, SessionTypes

LEMMA ShutdownsStep == Typed /\ ShutdownsOK /\ [Next]_vars => ShutdownsOK'
<1> SUFFICES ASSUME Typed, ShutdownsOK, [Next]_vars, NEW q \in Sessions PROVE ShutdownCloses(q)'
    BY DEF ShutdownsOK
<1>0. ShutdownCloses(q) /\ Shutdown \in Closers /\ Requests \subseteq Closers /\ Shutdown \notin Requests
  BY SessionAssumption DEF ShutdownsOK, Closers
<1>1. ASSUME NEW s \in Sessions, LaunchQuiet(s) PROVE ShutdownCloses(q)'
  <2>1. UNCHANGED <<closing, forced, exiting, pid>>
    BY <1>1, LaunchQuietMoves, QuietLock DEF Typed, lockVars
  <2>. QED BY <1>0, <2>1, SameShutdown
<1>2. ASSUME NEW s \in Sessions, TakeLock(s) PROVE ShutdownCloses(q)'
  <2>1. UNCHANGED <<closing, forced, exiting, pid>>
    BY <1>2, TakeLockMoves, CreateMoves DEF Typed
  <2>. QED BY <1>0, <2>1, SameShutdown
<1>3. ASSUME NEW c \in Requests, NEW s \in Sessions, CloseBegin(c, s) PROVE ShutdownCloses(q)'
  <2>1. c \in Closers /\ c # Shutdown BY <1>0
  <2>2. closing'[Shutdown][q] = closing[Shutdown][q]
    BY <1>0, <1>3, <2>1, ClosingGoesTyped DEF CloseBegin, Typed, CloseStates
  <2>3. forced'[Shutdown] = forced[Shutdown]
    BY <1>0, <1>3, <2>1 DEF CloseBegin, Typed, SessionTypes
  <2>4. UNCHANGED <<exiting, pid>> BY <1>3 DEF CloseBegin, lockVars
  <2>. QED BY <1>0, <2>2, <2>3, <2>4, SameShutdown
<1>4. ASSUME NEW c \in Closers, NEW s \in Sessions, CloseQuiet(c, s) PROVE ShutdownCloses(q)'
  <2>1. UNCHANGED <<forced, exiting, pid>>
    BY <1>4, CloseQuietMoves, QuietLock DEF Typed, lockVars
  <2>2. CASE c = Shutdown /\ s = q
    BY <1>0, <1>4, <2>1, <2>2, CloseQuietThrows DEF ShutdownCloses, Running, Active
  <2>3. CASE c # Shutdown \/ s # q
    <3>1. closing'[Shutdown][q] = closing[Shutdown][q]
      BY <1>0, <1>4, <2>3, CloseQuietMoves DEF Typed
    <3>. QED BY <1>0, <2>1, <3>1, SameShutdown
  <2>. QED BY <2>2, <2>3
<1>5. ASSUME NEW c \in Closers, NEW s \in Sessions, ReleaseLock(c, s) PROVE ShutdownCloses(q)'
  <2>1. UNCHANGED <<forced, exiting, pid>> /\ Running(s)
    BY <1>5 DEF ReleaseLock, Release, lockVars, ClosingAt
  <2>2. /\ closing[c][s] = "releasing"
        /\ \A d \in Closers, r \in Sessions : d # c \/ r # s => closing'[d][r] = closing[d][r]
        /\ closing'[c][s] = "unregistering" \/ (IOFaults /\ closing'[c][s] = "threw")
    BY <1>5, ReleaseLockMoves DEF Typed
  <2>3. CASE c = Shutdown /\ s = q BY <1>0, <2>1, <2>2, <2>3 DEF ShutdownCloses, Running
  <2>4. CASE c # Shutdown \/ s # q
    <3>1. closing'[Shutdown][q] = closing[Shutdown][q] BY <1>0, <2>2, <2>4
    <3>. QED BY <1>0, <2>1, <3>1, SameShutdown
  <2>. QED BY <2>3, <2>4
<1>6. ASSUME NEW p \in Procs, ShutDown(p) PROVE ShutdownCloses(q)'
  <2>1. /\ exiting[p] = "no" /\ exiting' = [exiting EXCEPT ![p] = "closing"] /\ pid' = pid
        /\ IF q \in LiveIn(p)
           THEN closing'[Shutdown][q] = "logging" /\ q \in forced'[Shutdown]
           ELSE closing'[Shutdown][q] = closing[Shutdown][q]
        /\ q \in forced[Shutdown] => q \in forced'[Shutdown]
    BY <1>6, ShutDownMoves
  <2>2. ProcOf[q] \in Procs /\ exiting \in [Procs -> {"no", "closing", "exited"}]
    BY LockAssumption DEF Typed, SessionTypes
  <2>3. CASE ProcOf[q] = p BY <1>0, <2>1, <2>2, <2>3 DEF ShutdownCloses, Running
  <2>4. CASE ProcOf[q] # p
    <3>1. q \notin LiveIn(p) BY <2>4 DEF LiveIn
    <3>2. exiting'[ProcOf[q]] = exiting[ProcOf[q]] BY <2>1, <2>2, <2>4
    <3>. QED BY <1>0, <2>1, <3>1, <3>2 DEF ShutdownCloses, Running
  <2>. QED BY <2>3, <2>4
<1>7. ASSUME NEW p \in Procs, ProcessStep(p) PROVE ShutdownCloses(q)'
  <2>1. /\ UNCHANGED <<closing, forced>>
        /\ \A r \in Procs : pid[r] # "running" => pid'[r] # "running"
        /\ \/ exiting' = exiting
           \/ /\ exiting' = [exiting EXCEPT ![p] = "exited"] /\ pid'[p] # "running"
              /\ ProcOf[q] = p => closing[Shutdown][q] \in {"idle", "done", "threw"}
    BY <1>7, ProcessStepMoves
  <2>2. ProcOf[q] \in Procs /\ exiting \in [Procs -> {"no", "closing", "exited"}]
    BY LockAssumption DEF Typed, SessionTypes
  <2>3. CASE exiting' = exiting BY <1>0, <2>1, <2>2, <2>3, SameShutdown
  <2>4. CASE exiting' # exiting BY <1>0, <2>1, <2>2, <2>4 DEF ShutdownCloses, Running
  <2>. QED BY <2>3, <2>4
<1>8. CASE UNCHANGED vars
  <2>1. UNCHANGED <<closing, forced, exiting, pid>> BY <1>8 DEF vars, lockVars, sessionVars
  <2>. QED BY <1>0, <2>1, SameShutdown
<1>. QED BY <1>1, <1>2, <1>3, <1>4, <1>5, <1>6, <1>7, <1>8, NextByActor

-----------------------------------------------------------------------------
(* Closes that do not overlap. *)

LEMMA SameClose ==
    ASSUME NEW s \in Sessions, OneClose(s),
           state'[s] = state[s], lpc'[s] = lpc[s], s \in registered' <=> s \in registered,
           \A c \in Closers : closing'[c][s] = closing[c][s]
    PROVE  OneClose(s)'
BY DEF OneClose, Active

\* One close is under way, and it takes a step.
LEMMA CloseAlone ==
    ASSUME NEW c \in Closers, NEW s \in Sessions, OneClose(s), Active(c, s),
           closing[c][s] # "unregistering",
           \A d \in Closers \ {c} : closing'[d][s] = closing[d][s],
           lpc'[s] = lpc[s] \/ closing'[c][s] = "unregistering",
           registered' = registered,
           state'[s] # "failed" \/ ~Active(c, s)'
    PROVE  OneClose(s)'
<1>1. \A d \in Closers \ {c} : ~Active(d, s) /\ ~Active(d, s)' BY DEF OneClose, Active
<1>2. s \in registered' /\ lpc[s] # "released" BY <1>1 DEF OneClose, Active
<1>. QED BY <1>1, <1>2 DEF OneClose

LEMMA LaunchQuietAlone ==
    ASSUME Typed, SessionsOK, NEW s \in Sessions, OneClose(s), LaunchQuiet(s)
    PROVE  OneClose(s)'
<1>1. UNCHANGED <<lpc, closing>> BY LaunchQuietMoves, QuietLock DEF lockVars, Typed
<1>2. /\ state'[s] \in {state[s], "running"}
      /\ s \in registered => s \in registered'
      /\ s \in registered' /\ s \notin registered => launch[s] \in {"spawning", "connecting", "checking", "tracing"}
  BY DEF LaunchQuiet, LaunchBegin, MakeDirs, EnsureMetadata, LogRequested, LaunchManaged,
         SpawnChild, Connected, ConnectFails, Checked, TraceStarts, Attach, LogCompleted, BrowserExits, LaunchAt, Typed, SessionTypes
<1>3. launch[s] \in {"spawning", "connecting", "checking", "tracing"} => lpc[s] # "released"
  BY DEF SessionsOK, SessionOK, LockFollowsLaunch
<1>. QED BY <1>1, <1>2, <1>3 DEF OneClose, Active

LEMMA CloseQuietAlone ==
    ASSUME Typed, NEW c \in Closers, NEW s \in Sessions, OneClose(s), CloseQuiet(c, s)
    PROVE  OneClose(s)'
<1>1. /\ UNCHANGED lpc /\ Active(c, s)
      /\ \A d \in Closers, q \in Sessions : d # c \/ q # s => closing'[d][q] = closing[d][q]
  BY CloseQuietMoves, CloseQuietThrows, QuietLock DEF lockVars, Typed
<1>2. CASE Unregister(c, s)
  <2>1. s \notin registered' /\ UNCHANGED state /\ closing'[c][s] = "done"
    BY <1>2 DEF Unregister, ClosingGoes, Typed, SessionTypes
  <2>2. state[s] # "failed" BY <1>1 DEF OneClose
  <2>. QED BY <1>1, <2>1, <2>2 DEF OneClose, Active
<1>3. CASE ~Unregister(c, s)
  <2>1. registered' = registered /\ closing[c][s] # "unregistering"
    BY <1>3 DEF CloseQuiet, LogCloseRequested, Finalize, ContextCloses, ContextCloseFails, LogCloseCompleted,
         ReapProfile, ClosingAt
  <2>2. state[s] # "failed" BY <1>1 DEF OneClose
  <2>3. state'[s] # "failed" \/ closing'[c][s] = "threw"
    BY <1>3, <2>2 DEF CloseQuiet, LogCloseRequested, Finalize, ContextCloses, ContextCloseFails, LogCloseCompleted,
         ReapProfile, ClosingGoes, Typed, SessionTypes
  <2>4. state'[s] # "failed" \/ ~Active(c, s)' BY <2>3 DEF Active
  <2>. QED BY <1>1, <2>1, <2>4, CloseAlone
<1>. QED BY <1>2, <1>3

LEMMA ClosesStep ==
    ASSUME OverlappingCloses = FALSE, MayShutDown = {},
           Typed, SessionsOK, ClosesOK, [Next]_vars
    PROVE  ClosesOK'
<1> SUFFICES ASSUME NEW q \in Sessions PROVE OneClose(q)'
    BY DEF ClosesOK
<1>0. OneClose(q) /\ Requests \subseteq Closers BY DEF ClosesOK, Closers
<1>1. ASSUME NEW s \in Sessions, LaunchQuiet(s) PROVE OneClose(q)'
  <2>1. CASE s # q
    <3>1. /\ UNCHANGED <<lpc, closing>>
      BY <1>1, LaunchQuietMoves, QuietLock DEF lockVars, Typed
    <3>2. state'[q] = state[q] /\ (q \in registered' <=> q \in registered)
      BY <1>1, <2>1 DEF LaunchQuiet, LaunchBegin, MakeDirs, EnsureMetadata, LogRequested, LaunchManaged,
         SpawnChild, Connected, ConnectFails, Checked, TraceStarts, Attach, LogCompleted, BrowserExits, Typed, SessionTypes
    <3>. QED BY <1>0, <3>1, <3>2, SameClose
  <2>. QED BY <1>0, <1>1, <2>1, LaunchQuietAlone
<1>2. ASSUME NEW s \in Sessions, TakeLock(s) PROVE OneClose(q)'
  <2>1. UNCHANGED <<state, registered, closing>> BY <1>2, TakeLockMoves DEF Typed
  <2>2. lpc'[q] = lpc[q] \/ lpc'[q] # "released"
    BY <1>2, TakeLockMoves, CreateMoves DEF Typed, CreateStates
  <2>. QED BY <1>0, <2>1, <2>2 DEF OneClose, Active
<1>3. ASSUME NEW c \in Requests, NEW s \in Sessions, CloseBegin(c, s) PROVE OneClose(q)'
  <2>1. /\ UNCHANGED <<lpc, registered>> /\ ~BeingClosed(s) /\ s \in registered
        /\ state'[s] = "closing" /\ \A r \in Sessions \ {s} : state'[r] = state[r]
    BY <1>3 DEF CloseBegin, lockVars, Typed, SessionTypes
  <2>2. /\ closing'[c][s] = "logging"
        /\ \A d \in Closers, r \in Sessions : d # c \/ r # s => closing'[d][r] = closing[d][r]
    BY <1>0, <1>3, ClosingGoesTyped DEF CloseBegin, Typed, CloseStates
  <2>3. CASE s # q BY <1>0, <2>1, <2>2, <2>3, SameClose
  <2>4. CASE s = q
    <3>1. \A d \in Closers : ~Active(d, q) BY <2>1, <2>4 DEF BeingClosed, Active
    <3>2. lpc[q] # "released" BY <1>0, <2>1, <2>4, <3>1 DEF OneClose, Active
    <3>. QED BY <2>1, <2>2, <2>4, <3>1, <3>2 DEF OneClose, Active
  <2>. QED BY <2>3, <2>4
<1>4. ASSUME NEW c \in Closers, NEW s \in Sessions, CloseQuiet(c, s) PROVE OneClose(q)'
  <2>1. CASE s # q
    <3>1. /\ UNCHANGED lpc /\ \A d \in Closers : closing'[d][q] = closing[d][q]
      BY <1>4, <2>1, CloseQuietMoves, QuietLock DEF lockVars, Typed
    <3>2. state'[q] = state[q] /\ (q \in registered' <=> q \in registered)
      BY <1>4, <2>1 DEF CloseQuiet, LogCloseRequested, Finalize, ContextCloses, ContextCloseFails, LogCloseCompleted,
         ReapProfile, Unregister, Typed, SessionTypes
    <3>. QED BY <1>0, <3>1, <3>2, SameClose
  <2>. QED BY <1>0, <1>4, <2>1, CloseQuietAlone
<1>5. ASSUME NEW c \in Closers, NEW s \in Sessions, ReleaseLock(c, s) PROVE OneClose(q)'
  <2>1. /\ closing[c][s] = "releasing" /\ UNCHANGED <<state, registered>>
        /\ \A d \in Closers, r \in Sessions : d # c \/ r # s => closing'[d][r] = closing[d][r]
        /\ \/ Release(s) /\ closing'[c][s] = "unregistering"
           \/ UNCHANGED lockVars /\ closing'[c][s] = "threw"
    BY <1>5, ReleaseLockMoves DEF Typed
  <2>2. /\ \A r \in Sessions \ {s} : lpc'[r] = lpc[r]
        /\ lpc'[s] = lpc[s] \/ closing'[c][s] = "unregistering"
    BY <2>1, ReleaseMoves DEF Typed, lockVars
  <2>3. CASE s # q BY <1>0, <2>1, <2>2, <2>3, SameClose
  <2>4. CASE s = q
    <3>1. Active(c, q) /\ state'[q] # "failed" BY <1>0, <2>1, <2>4 DEF OneClose, Active
    <3>. QED BY <1>0, <2>1, <2>2, <2>4, <3>1, CloseAlone
  <2>. QED BY <2>3, <2>4
<1>6. ASSUME NEW p \in Procs, ShutDown(p) PROVE FALSE
  BY <1>6, ShutDownMoves
<1>7. ASSUME NEW p \in Procs, ProcessStep(p) PROVE OneClose(q)'
  <2>1. UNCHANGED <<state, registered, closing, lpc>> BY <1>7, ProcessStepMoves
  <2>. QED BY <1>0, <2>1, SameClose
<1>8. CASE UNCHANGED vars
  <2>1. UNCHANGED <<state, registered, closing, lpc>> BY <1>8 DEF vars, lockVars, sessionVars
  <2>. QED BY <1>0, <2>1, SameClose
<1>. QED BY <1>1, <1>2, <1>3, <1>4, <1>5, <1>6, <1>7, <1>8, NextByActor

-----------------------------------------------------------------------------
(* The invariant holds, and what follows from it. *)

LEMMA SessionInvariant == Spec => [](Typed /\ SessionsOK /\ FilesOK /\ LockInv)
<1>1. SessionInit => FilesOK
  BY LockAssumption DEF SessionInit, LockInit, NoFile, FilesOK, FileIsOf
<1>2. TypeOK => Typed BY DEF TypeOK, Typed, SessionTypes
<1>3. Typed => LockTypeOK BY DEF Typed
<1>4. Spec => []Typed BY <1>2, SessionTyping, PTL
<1>5. Spec => []SessionsOK BY <1>4, SessionsInit, SessionsStep, PTL DEF Spec
<1>6. Spec => []FilesOK BY <1>1, <1>3, <1>4, LockStep, FilesStep, PTL DEF Spec
<1>7. Spec => []LockInv BY ImplementsLock, LockInvariant, PTL
<1>. QED BY <1>4, <1>5, <1>6, <1>7, PTL

LEMMA ShutdownsInvariant == Spec => []ShutdownsOK
<1>1. SessionInit => ShutdownsOK
  <2> SUFFICES ASSUME SessionInit, NEW s \in Sessions PROVE ShutdownCloses(s)
      BY DEF ShutdownsOK
  <2>1. exiting[ProcOf[s]] = "no" /\ closing[Shutdown][s] = "idle"
    BY LockAssumption DEF SessionInit, Closers
  <2>. QED BY <2>1 DEF ShutdownCloses
<1>. QED BY <1>1, SessionInvariant, ShutdownsStep, PTL DEF Spec

LEMMA ClosesInvariant ==
    ASSUME OverlappingCloses = FALSE, MayShutDown = {}
    PROVE  Spec => []ClosesOK
<1>1. SessionInit => ClosesOK
  <2> SUFFICES ASSUME SessionInit, NEW s \in Sessions PROVE OneClose(s)
      BY DEF ClosesOK
  <2>1. /\ lpc[s] = "idle" /\ state[s] = "launching" /\ \A c \in Closers : closing[c][s] = "idle"
    BY DEF SessionInit, LockInit
  <2>. QED BY <2>1 DEF OneClose, Active
<1>2. Typed /\ SessionsOK /\ ClosesOK /\ [Next]_vars => ClosesOK' BY ClosesStep
<1>. QED BY <1>1, <1>2, SessionInvariant, PTL DEF Spec

LEMMA ReleasesFollow ==
    ASSUME SessionsOK, ReleaseAgain \/ ClosesOK
    PROVE  ReleasesAreAllowed
<1> SUFFICES ASSUME NEW c \in Closers, NEW s \in Sessions, closing[c][s] = "releasing",
                    lpc[s] # "held"
             PROVE  ReleaseAgain /\ lpc[s] = "released"
    BY DEF ReleasesAreAllowed
<1>1. lpc[s] = "released"
  BY DEF SessionsOK, SessionOK, LockFollowsClose, Called
<1>2. ASSUME ClosesOK PROVE FALSE
  <2>1. OneClose(s) /\ Active(c, s) BY <1>2 DEF ClosesOK, Active
  <2>2. PICK d \in Closers : closing[d][s] = "unregistering" BY <1>1, <2>1 DEF OneClose
  <2>3. Active(d, s) /\ d # c BY <2>2 DEF Active
  <2>. QED BY <2>1, <2>3 DEF OneClose
<1>. QED BY <1>1, <1>2

(* Whatever launch() and close() do, in whatever order the calls of clients, a
   signal and failing files bring about, they go through the lock as lock.ts
   expects of its callers: each step is a step of the lock protocol or leaves it
   alone, and only a session that has the lock releases it, once, unless closes
   overlap (manager.ts). *)
THEOREM SessionsUseLockProtocol == Spec => UsesLockProtocol
<1>1. Spec => [][LockNext]_lockVars BY LockStep, PTL DEF Spec
<1>2. Spec => []ReleasesAreAllowed
  <2>1. CASE ReleaseAgain
    <3>1. SessionsOK => ReleasesAreAllowed BY <2>1, ReleasesFollow
    <3>. QED BY <3>1, SessionInvariant, PTL
  <2>2. CASE ~ReleaseAgain
    <3>1. OverlappingCloses = FALSE /\ MayShutDown = {} BY <2>2, SessionAssumption
    <3>2. Spec => []ClosesOK BY <3>1, ClosesInvariant
    <3>3. SessionsOK /\ ClosesOK => ReleasesAreAllowed BY ReleasesFollow
    <3>. QED BY <3>2, <3>3, SessionInvariant, PTL
  <2>. QED BY <2>1, <2>2
<1>. QED BY <1>1, <1>2, PTL DEF UsesLockProtocol

(* The sessions implement the abstract mutex over their profile, up to the first
   unlink of a lock file its caller neither read nor created: the profile lock's
   refinement carries over to launch() and close(). *)
THEOREM SessionsImplementMutex == Spec => ImplementsMutexUntilStray
BY ImplementsLock, LockImplementsMutex, PTL

(* A session whose Chromium was started on a persistent profile and that nobody
   closes owns that profile's lock, with its pid in the file, until some unlink
   hits another session's file (manager.ts; "a running session owns exactly one
   profile lock", adr-0002). *)
THEOREM RunningSessionsOwnTheirLocks == Spec => []RunningOwnsLockUntilStray
<1>1. ASSUME Typed, SessionsOK, FilesOK, LockInv PROVE RunningOwnsLockUntilStray
  <2> SUFFICES ASSUME NEW s \in Sessions, ~stray, Running(s), Persistent(s),
                      state[s] = "running" \/ launch[s] \in {"spawning", "connecting"}
               PROVE  file = [owner |-> s, text |-> "json"]
      BY DEF RunningOwnsLockUntilStray, RunningOwnsLock
  <2>1. lpc[s] = "held" BY <1>1 DEF SessionsOK, SessionOK, RunningIsUnclosed, LockFollowsLaunch
  <2>2. file.owner = s BY <1>1, <2>1 DEF LockInv, OwnerHasFile, Owns
  <2>3. file.text = "json" BY <1>1, <2>1, <2>2 DEF FilesOK, FileIsOf
  <2>. QED BY <1>1, <2>2, <2>3 DEF Typed, LockTypeOK
<1>. QED BY <1>1, SessionInvariant, PTL

LEMMA AccountsFollow == SessionsOK /\ FilesOK => LockIsAccountedFor
<1> SUFFICES ASSUME SessionsOK, FilesOK, NEW s \in Sessions, file.owner = s, launch[s] = "up"
             PROVE  s \in registered
    BY DEF LockIsAccountedFor
<1>1. lpc[s] \notin {"idle", "released"} BY DEF FilesOK, FileIsOf
<1>. QED BY <1>1 DEF SessionsOK, SessionOK, LockFollowsClose

(* No live process keeps a lock silently, even where closes overlap and signals,
   crashes and failing files interfere: the lock file's session is still
   launching, its launch() threw, or it is in the registry where close() finds
   it (manager.ts). *)
THEOREM LocksAreAccountedFor == Spec => []LockIsAccountedFor
BY SessionInvariant, AccountsFollow, PTL

(* Where closes do not overlap and no process dies, the lock and the registry
   agree: no lock is kept silently, and a session whose close failed stays in the
   registry with its profile locked, however often files fail (manager.ts). *)
THEOREM LocksStayKept ==
    ASSUME Crashable = {}, ReleaseAgain = FALSE
    PROVE  Spec => []LocksAreKept
<1>1. OverlappingCloses = FALSE /\ MayShutDown = {} BY SessionAssumption
<1>2. Spec => []ClosesOK BY <1>1, ClosesInvariant
<1>3. Spec => []NoTakeover
  <2>1. LockInit => NoTakeover BY DEF LockInit, NoTakeover
  <2>2. LockInv /\ NoTakeover /\ [LockNext]_lockVars => NoTakeover' BY NoTakeoverStep
  <2>3. LockSpec => []NoTakeover BY <2>1, <2>2, LockInvariant, PTL DEF LockSpec
  <2>. QED BY <2>3, ImplementsLock, PTL
<1>4. ASSUME SessionsOK, ClosesOK, LockInv, NoTakeover PROVE FailedCloseKeepsLock
  <2> SUFFICES ASSUME NEW s \in Sessions, Running(s), state[s] = "failed"
               PROVE  s \in registered /\ (Persistent(s) => file.owner = s)
      BY DEF FailedCloseKeepsLock
  <2>1. s \in registered /\ lpc[s] # "released"
    BY <1>4 DEF ClosesOK, OneClose, Active
  <2>2. Persistent(s) => lpc[s] = "held"
    BY <1>4, <2>1 DEF SessionsOK, SessionOK, LockFollowsClose
  <2>3. Persistent(s) => file.owner = s
    BY <1>4, <2>2 DEF LockInv, OwnerHasFile, NoTakeover, Owns
  <2>. QED BY <2>1, <2>3
<1>5. SessionsOK /\ FilesOK /\ ClosesOK /\ LockInv /\ NoTakeover => LocksAreKept
  BY <1>4, AccountsFollow DEF LocksAreKept
<1>. QED BY <1>2, <1>3, <1>5, SessionInvariant, PTL

(* Where files work, a process that exits after SIGTERM or SIGINT has taken every
   session its handler closed out of the registry and off the disk, whatever
   other closes and launches were under way (index.ts, manager.ts). *)
THEOREM ShutdownFreesItsLocks ==
    ASSUME IOFaults = FALSE
    PROVE  Spec => []ShutdownFreesLocks
<1>1. ASSUME SessionsOK, FilesOK, ShutdownsOK PROVE ShutdownFreesLocks
  <2> SUFFICES ASSUME NEW s \in Sessions, exiting[ProcOf[s]] = "exited",
                      closing[Shutdown][s] # "idle"
               PROVE  file.owner # s /\ s \notin registered
      BY DEF ShutdownFreesLocks
  <2>1. closing[Shutdown][s] = "done" BY <1>1 DEF ShutdownsOK, ShutdownCloses
  <2>2. lpc[s] \in {"idle", "released"} /\ s \notin registered
    BY <1>1, <2>1 DEF SessionsOK, SessionOK, LockFollowsClose, Closers
  <2>. QED BY <1>1, <2>2 DEF FilesOK, FileIsOf
<1>. QED BY <1>1, SessionInvariant, ShutdownsInvariant, PTL
=============================================================================
