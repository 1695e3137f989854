--------------------------- MODULE SessionManager ---------------------------
(***************************************************************************)
(* The life of a session: SessionManager.launch and SessionManager.close   *)
(* (src/src/sessions/manager.ts) over the profile lock, with the shutdown  *)
(* handler of src/src/index.ts.                                            *)
(*                                                                         *)
(* launch() and close() are chains of awaits and neither is serialised:    *)
(* any number of them interleave in one process, and close() may be called *)
(* again while an earlier close() of the same session is still awaiting.   *)
(* An action is the code between two awaits, with the effect of the call   *)
(* it was waiting for.  All persistent sessions here share one workspace.  *)
(***************************************************************************)
EXTENDS ProfileLock

CONSTANTS Requests,          \* DELETE requests that may reach one session
          Kinds,             \* profile kinds a launch may ask for
          Modes,             \* browser modes: "managed" (Playwright owns the
                             \* process) and "cdp" (a spawned child process)
          Captures,          \* debug captures: "off", "files" (listeners only,
                             \* written at the close) and "trace" (also a
                             \* Playwright trace of the context)
          OverlappingCloses, \* may a session be closed again while it is closing
          MayCrash,          \* processes that may be killed
          MayShutDown        \* processes that may get SIGTERM or SIGINT

Shutdown == "shutdown"       \* the close() the signal handler makes
Closers == Requests \cup {Shutdown}

ASSUME SessionAssumption ==
    /\ Kinds \subseteq {"persistent", "disposable"}
    /\ Modes \subseteq {"managed", "cdp"}
    /\ Captures \subseteq {"off", "files", "trace"}
    /\ OverlappingCloses \in BOOLEAN
    /\ MayCrash \cup MayShutDown \subseteq Crashable
    /\ Shutdown \notin Requests
    \* Closes overlap if clients or the signal handler make them overlap, and
    \* then the lock is released once by each.
    /\ OverlappingCloses \/ MayShutDown # {} => ReleaseAgain

VARIABLES launch,      \* where launch() is
          profile,     \* the kind, mode and capture the session was launched with
          state,       \* FeatherSession.state
          registered,  \* the sessions in the registry of their process
          browser,     \* the session's Chromium process
          dir,         \* a disposable session's profile directory
          closing,     \* where each close() of the session is
          forced,      \* the close() calls made with force
          exiting      \* where the process is in its shutdown handler

sessionVars == <<launch, profile, state, registered, browser, dir, closing, forced, exiting>>
vars == <<lockVars, sessionVars>>

SessionInit ==
    /\ LockInit
    /\ launch = [s \in Sessions |-> "none"]
    /\ profile = [s \in Sessions |-> [kind |-> "none", mode |-> "none", capture |-> "off"]]
    /\ state = [s \in Sessions |-> "launching"]
    /\ registered = {}
    /\ browser = [s \in Sessions |-> "none"]
    /\ dir = [s \in Sessions |-> "absent"]
    /\ closing = [c \in Closers |-> [s \in Sessions |-> "idle"]]
    /\ forced = [c \in Closers |-> {}]
    /\ exiting = [p \in Procs |-> "no"]

Persistent(s) == profile[s].kind = "persistent"
Traced(s) == profile[s].capture = "trace"

(***************************************************************************)
(* launch().  There is no try around it: whatever throws leaves everything *)
(* done so far as it is.                                                   *)
(***************************************************************************)
LaunchAt(s, here) == Running(s) /\ launch[s] = here
LaunchGoes(s, where) == launch' = [launch EXCEPT ![s] = where]

\* The next step of launch(), or, if the file system fails, a throw.
NextOrThrow(s, where) ==
    \/ LaunchGoes(s, where)
    \/ IOFaults /\ LaunchGoes(s, "threw")

LaunchBegin(s) ==
    /\ LaunchAt(s, "none")
    /\ \E kind \in Kinds, mode \in Modes, capture \in Captures :
          profile' = [profile EXCEPT ![s] = [kind |-> kind, mode |-> mode, capture |-> capture]]
    /\ LaunchGoes(s, "dirs")
    /\ UNCHANGED <<lockVars, state, registered, browser, dir, closing, forced, exiting>>

MakeDirs(s) ==
    /\ LaunchAt(s, "dirs")
    /\ dir' = [dir EXCEPT ![s] = "present"]
    /\ NextOrThrow(s, IF Persistent(s) THEN "locking" ELSE "requested")
    /\ UNCHANGED <<lockVars, profile, state, registered, browser, closing, forced, exiting>>

\* Defective variant: launch() goes on when the profile is locked.
TakeLockUnchecked(s) ==
    /\ LaunchAt(s, "locking")
    /\ CreateStep(s)
    /\ launch' = [launch EXCEPT ![s] =
           CASE lpc'[s] \in {"held", "refused"} -> "metadata"
             [] lpc'[s] = "errored"             -> "threw"
             [] OTHER                           -> "locking"]
    /\ UNCHANGED <<profile, state, registered, browser, dir, closing, forced, exiting>>

\* Defective variant: a failing launch() releases the lock it did not get.
TakeLockFinally(s) ==
    /\ LaunchAt(s, "locking")
    /\ \/ /\ CreateStep(s)
          /\ LaunchGoes(s, IF lpc'[s] = "held" THEN "metadata" ELSE "locking")
       \/ /\ lpc[s] \in {"refused", "errored"}
          /\ file' = NoFile
          /\ LaunchGoes(s, "threw")
          /\ UNCHANGED <<pid, lpc, seen, stray>>
    /\ UNCHANGED <<profile, state, registered, browser, dir, closing, forced, exiting>>

\* await lock.create(...)
TakeLock(s) ==
    /\ LaunchAt(s, "locking")
    /\ CreateStep(s)
    /\ launch' = [launch EXCEPT ![s] =
           CASE lpc'[s] = "held"                    -> "metadata"
             [] lpc'[s] \in {"refused", "errored"}  -> "threw"
             [] OTHER                               -> "locking"]
    /\ UNCHANGED <<profile, state, registered, browser, dir, closing, forced, exiting>>

\* workspace.ensureExists, then the session.launch.requested log line.
EnsureMetadata(s) ==
    /\ LaunchAt(s, "metadata")
    /\ NextOrThrow(s, "requested")
    /\ UNCHANGED <<lockVars, profile, state, registered, browser, dir, closing, forced, exiting>>

LogRequested(s) ==
    /\ LaunchAt(s, "requested")
    /\ NextOrThrow(s, "spawning")
    /\ UNCHANGED <<lockVars, profile, state, registered, browser, dir, closing, forced, exiting>>

\* After the checks: a trace is started first if one is wanted; otherwise the page
\* listeners are attached and the session enters the registry.
Attach(s) ==
    \/ /\ Traced(s)
       /\ LaunchGoes(s, "tracing")
       /\ UNCHANGED registered
    \/ /\ ~Traced(s)
       /\ registered' = registered \cup {s}
       /\ LaunchGoes(s, "announcing")

\* launchPersistentContext: Playwright starts Chromium and hands over a context,
\* or fails and cleans up after itself.
LaunchManaged(s) ==
    /\ LaunchAt(s, "spawning")
    /\ profile[s].mode = "managed"
    /\ \/ /\ browser' = [browser EXCEPT ![s] = "running"]
          /\ state' = [state EXCEPT ![s] = "running"]
          /\ Attach(s)
       \/ /\ LaunchGoes(s, "threw")
          /\ UNCHANGED <<browser, state, registered>>
    /\ UNCHANGED <<lockVars, profile, dir, closing, forced, exiting>>

\* spawnAndConnect: the child process starts, and only when it has printed its
\* endpoint and accepted the connection does the session get the context.  The
\* stealth checks are made on its first page, if it has one.
SpawnChild(s) ==
    /\ LaunchAt(s, "spawning")
    /\ profile[s].mode = "cdp"
    /\ browser' = [browser EXCEPT ![s] = "running"]
    /\ LaunchGoes(s, "connecting")
    /\ UNCHANGED <<lockVars, profile, state, registered, dir, closing, forced, exiting>>

Connected(s) ==
    /\ LaunchAt(s, "connecting")
    /\ browser[s] = "running"
    /\ state' = [state EXCEPT ![s] = "running"]
    /\ \/ LaunchGoes(s, "checking") /\ UNCHANGED registered
       \/ Attach(s)
    /\ UNCHANGED <<lockVars, profile, browser, dir, closing, forced, exiting>>

\* kill() sends a signal; the process is gone some time later.
Killed(s) == IF browser[s] = "running" THEN "dying" ELSE browser[s]

\* No endpoint within 10 s, the child exits, or connectOverCDP fails.
ConnectFails(s) ==
    /\ LaunchAt(s, "connecting")
    /\ browser' = [browser EXCEPT ![s] = Killed(s)]
    /\ LaunchGoes(s, "threw")
    /\ UNCHANGED <<lockVars, profile, state, registered, dir, closing, forced, exiting>>

\* page.evaluate of the stealth checks settles, whose errors are swallowed.
\* Nothing limits how long that takes.
Checked(s) ==
    /\ LaunchAt(s, "checking")
    /\ Attach(s)
    /\ UNCHANGED <<lockVars, profile, state, browser, dir, closing, forced, exiting>>

\* DebugCapture.start: tracing.start settles, if ever, and may throw.
TraceStarts(s) ==
    /\ LaunchAt(s, "tracing")
    /\ \/ registered' = registered \cup {s} /\ LaunchGoes(s, "announcing")
       \/ LaunchGoes(s, "threw") /\ UNCHANGED registered
    /\ UNCHANGED <<lockVars, profile, state, browser, dir, closing, forced, exiting>>

LogCompleted(s) ==
    /\ LaunchAt(s, "announcing")
    /\ NextOrThrow(s, "up")
    /\ UNCHANGED <<lockVars, profile, state, registered, browser, dir, closing, forced, exiting>>

\* The steps of launch() that the file system, a timer or Playwright's default
\* timeouts bring about.
LaunchStep(s) ==
    \/ MakeDirs(s) \/ TakeLock(s) \/ EnsureMetadata(s) \/ LogRequested(s)
    \/ LaunchManaged(s) \/ SpawnChild(s) \/ Connected(s) \/ ConnectFails(s)
    \/ LogCompleted(s)

(***************************************************************************)
(* close(sessionId, {force}).                                              *)
(***************************************************************************)
ClosingAt(c, s, here) == Running(s) /\ closing[c][s] = here
ClosingGoes(c, s, where) == closing' = [closing EXCEPT ![c][s] = where]
BeingClosed(s) == \E c \in Closers : closing[c][s] \notin {"idle", "done", "threw"}

\* get(), setState("closing"): only the registry is consulted, not the state.
CloseBegin(c, s) ==
    /\ ClosingAt(c, s, "idle")
    /\ s \in registered
    /\ OverlappingCloses \/ ~BeingClosed(s)
    /\ state' = [state EXCEPT ![s] = "closing"]
    /\ ClosingGoes(c, s, "logging")
    /\ forced' = [forced EXCEPT ![c] = @ \cup {s}] \/ UNCHANGED forced
    /\ UNCHANGED <<lockVars, launch, profile, registered, browser, dir, exiting>>

LogCloseRequested(c, s) ==
    /\ ClosingAt(c, s, "logging")
    /\ \/ ClosingGoes(c, s, IF profile[s].capture = "off" THEN "context" ELSE "finalizing")
       \/ IOFaults /\ ClosingGoes(c, s, "threw")
    /\ UNCHANGED <<lockVars, launch, profile, state, registered, browser, dir, forced, exiting>>

\* capture.finalize() writes its files and, of a traced session, awaits
\* tracing.stop, with or without force.  Its failure is logged and swallowed; if
\* that cannot be logged either, the close fails, forced or not.
Finalize(c, s) ==
    /\ ClosingAt(c, s, "finalizing")
    /\ \/ ClosingGoes(c, s, "context") /\ UNCHANGED <<state, browser>>
       \/ /\ IOFaults
          /\ state' = [state EXCEPT ![s] = "failed"]
          /\ browser' = [browser EXCEPT ![s] = IF profile[s].mode = "cdp" THEN Killed(s) ELSE @]
          /\ ClosingGoes(c, s, "threw")
    /\ UNCHANGED <<lockVars, launch, profile, registered, dir, forced, exiting>>

\* context.close() resolves: Playwright's own browser is gone, a spawned child is
\* sent a signal.
ContextCloses(c, s) ==
    /\ ClosingAt(c, s, "context")
    /\ state' = [state EXCEPT ![s] = "closed"]
    /\ browser' = [browser EXCEPT ![s] =
                     IF profile[s].mode = "managed" THEN "gone" ELSE Killed(s)]
    /\ ClosingGoes(c, s, "closed")
    /\ UNCHANGED <<lockVars, launch, profile, registered, dir, forced, exiting>>

\* Defective variant: force is not looked at.
ContextCloseFailsUnforced(c, s) ==
    /\ ClosingAt(c, s, "context")
    /\ browser' = [browser EXCEPT ![s] = IF profile[s].mode = "cdp" THEN Killed(s) ELSE @]
    /\ state' = [state EXCEPT ![s] = "failed"]
    /\ ClosingGoes(c, s, "threw")
    /\ UNCHANGED <<lockVars, launch, profile, registered, dir, forced, exiting>>

\* Defective variant: no timer, only the browser's end makes the close fail.
ContextCloseFailsUntimed(c, s) ==
    /\ ClosingAt(c, s, "context")
    /\ browser[s] = "gone"
    /\ IF s \in forced[c]
       THEN state' = [state EXCEPT ![s] = "closed"] /\ ClosingGoes(c, s, "closed")
       ELSE state' = [state EXCEPT ![s] = "failed"] /\ ClosingGoes(c, s, "threw")
    /\ UNCHANGED <<lockVars, launch, profile, registered, browser, dir, forced, exiting>>

\* context.close() rejects, or 10 s pass.  A forced close goes on as if it had
\* closed; another one throws, and the session stays registered and locked.  Either
\* way a spawned child is killed.
ContextCloseFails(c, s) ==
    /\ ClosingAt(c, s, "context")
    /\ browser' = [browser EXCEPT ![s] = IF profile[s].mode = "cdp" THEN Killed(s) ELSE @]
    /\ IF s \in forced[c]
       THEN state' = [state EXCEPT ![s] = "closed"] /\ ClosingGoes(c, s, "closed")
       ELSE state' = [state EXCEPT ![s] = "failed"] /\ ClosingGoes(c, s, "threw")
    /\ UNCHANGED <<lockVars, launch, profile, registered, dir, forced, exiting>>

LogCloseCompleted(c, s) ==
    /\ ClosingAt(c, s, "closed")
    /\ \/ ClosingGoes(c, s, IF Persistent(s) THEN "releasing" ELSE "reaping")
       \/ IOFaults /\ ClosingGoes(c, s, "threw")
    /\ UNCHANGED <<lockVars, launch, profile, state, registered, browser, dir, forced, exiting>>

\* Defective variant: every error of the release is swallowed.
ReleaseLockSwallowing(c, s) ==
    /\ ClosingAt(c, s, "releasing")
    /\ Release(s) \/ (IOFaults /\ UNCHANGED lockVars)
    /\ ClosingGoes(c, s, "unregistering")
    /\ UNCHANGED <<launch, profile, state, registered, browser, dir, forced, exiting>>

\* lock.release(workspaceId); only an error other than ENOENT is thrown.
ReleaseLock(c, s) ==
    /\ ClosingAt(c, s, "releasing")
    /\ \/ Release(s) /\ ClosingGoes(c, s, "unregistering")
       \/ IOFaults /\ ClosingGoes(c, s, "threw") /\ UNCHANGED lockVars
    /\ UNCHANGED <<launch, profile, state, registered, browser, dir, forced, exiting>>

\* A disposable profile is moved to quarantine or deleted once the child has
\* exited or 3 s have passed; a failure is logged and swallowed.
ReapProfile(c, s) ==
    /\ ClosingAt(c, s, "reaping")
    /\ \/ /\ dir[s] = "present"
          /\ \E fate \in {"quarantined", "deleted"} : dir' = [dir EXCEPT ![s] = fate]
          /\ ClosingGoes(c, s, "unregistering")
       \/ /\ IOFaults \/ dir[s] # "present"
          /\ ClosingGoes(c, s, "unregistering")
          /\ UNCHANGED dir
       \/ /\ IOFaults
          /\ ClosingGoes(c, s, "threw")
          /\ UNCHANGED dir
    /\ UNCHANGED <<lockVars, launch, profile, state, registered, browser, forced, exiting>>

\* registry.delete(sessionId)
Unregister(c, s) ==
    /\ ClosingAt(c, s, "unregistering")
    /\ registered' = registered \ {s}
    /\ ClosingGoes(c, s, "done")
    /\ UNCHANGED <<lockVars, launch, profile, state, browser, dir, forced, exiting>>

\* The steps of close() that the file system or a timer brings about.
CloseStep(c, s) ==
    \/ LogCloseRequested(c, s) \/ ContextCloseFails(c, s) \/ LogCloseCompleted(c, s)
    \/ ReleaseLock(c, s) \/ ReapProfile(c, s) \/ Unregister(c, s)

(***************************************************************************)
(* The end of a process.  The signal handler force-closes the sessions     *)
(* that are registered at that moment and exits when those closes have     *)
(* settled; until then the server goes on serving.                         *)
(***************************************************************************)
LiveIn(p) == {s \in registered : ProcOf[s] = p}

ShutDown(p) ==
    /\ p \in MayShutDown
    /\ pid[p] = "running"
    /\ exiting[p] = "no"
    /\ exiting' = [exiting EXCEPT ![p] = "closing"]
    /\ state' = [s \in Sessions |-> IF s \in LiveIn(p) THEN "closing" ELSE state[s]]
    /\ closing' = [closing EXCEPT ![Shutdown] =
                     [s \in Sessions |-> IF s \in LiveIn(p) THEN "logging" ELSE @[s]]]
    /\ forced' = [forced EXCEPT ![Shutdown] = @ \cup LiveIn(p)]
    /\ UNCHANGED <<lockVars, launch, profile, registered, browser, dir>>

\* Playwright's browsers end with the process that drives them; a child it
\* spawned itself outlives it.
ProcessEnds(p) ==
    /\ Crash(p)
    /\ browser' = [s \in Sessions |->
           IF ProcOf[s] = p /\ profile[s].mode = "managed" /\ browser[s] = "running"
           THEN "gone" ELSE browser[s]]
    /\ UNCHANGED <<launch, profile, state, registered, dir, closing, forced>>

\* Defective variant: the handler exits without awaiting the closes.
ExitAtOnce(p) ==
    /\ exiting[p] = "closing"
    /\ ProcessEnds(p)
    /\ exiting' = [exiting EXCEPT ![p] = "exited"]

Exit(p) ==
    /\ exiting[p] = "closing"
    /\ \A s \in Sessions : ProcOf[s] = p => closing[Shutdown][s] \in {"idle", "done", "threw"}
    /\ ProcessEnds(p)
    /\ exiting' = [exiting EXCEPT ![p] = "exited"]

ProcessDies(p) ==
    /\ p \in MayCrash
    /\ ProcessEnds(p)
    /\ UNCHANGED exiting

ReuseOfPid(p) == ReusePid(p) /\ UNCHANGED sessionVars

\* Chromium exits: after a signal, or because it crashed or its window was closed.
BrowserExits(s) ==
    /\ browser[s] \in {"running", "dying"}
    /\ browser' = [browser EXCEPT ![s] = "gone"]
    /\ UNCHANGED <<lockVars, launch, profile, state, registered, dir, closing, forced, exiting>>

Next ==
    \/ \E s \in Sessions : LaunchBegin(s) \/ LaunchStep(s)
    \/ \E s \in Sessions : Checked(s) \/ TraceStarts(s) \/ BrowserExits(s)
    \/ \E c \in Requests, s \in Sessions : CloseBegin(c, s)
    \/ \E c \in Closers, s \in Sessions : Finalize(c, s) \/ ContextCloses(c, s) \/ CloseStep(c, s)
    \/ \E p \in Procs : ShutDown(p) \/ Exit(p) \/ ProcessDies(p) \/ ReuseOfPid(p)

Spec == SessionInit /\ [][Next]_vars

(***************************************************************************)
(* Fairness: a started launch or close keeps going while its process       *)
(* lives, as far as what it awaits is a file operation, a timer (10 s for  *)
(* context.close() and for the child's endpoint, 3 s for its end) or a     *)
(* Playwright call with a default timeout (launching, connecting).  Three  *)
(* awaits have no limit, and nothing obliges them to settle: page.evaluate *)
(* of the checks, tracing.start, and tracing.stop.  context.close() need   *)
(* not resolve either, but the timer fires.  Nothing obliges a client.     *)
(***************************************************************************)
FairSpec ==
    /\ Spec
    /\ \A s \in Sessions : WF_vars(LaunchStep(s))
    /\ \A c \in Closers, s \in Sessions :
          /\ WF_vars(CloseStep(c, s))
          /\ WF_vars(~Traced(s) /\ Finalize(c, s))
    /\ \A p \in Procs : WF_vars(Exit(p))

(***************************************************************************)
(* Properties.                                                             *)
(***************************************************************************)
LaunchStates == {"none", "dirs", "locking", "metadata", "requested", "spawning",
                 "connecting", "checking", "tracing", "announcing", "up", "threw"}
CloseStates == {"idle", "logging", "finalizing", "context", "closed", "releasing", "reaping",
                "unregistering", "done", "threw"}
Profiles == [kind : {"none", "persistent", "disposable"}, mode : {"none", "managed", "cdp"},
             capture : {"off", "files", "trace"}]

\* Every variable keeps its type, the lock's included.
TypeOK ==
    /\ LockTypeOK
    /\ launch \in [Sessions -> LaunchStates]
    /\ profile \in [Sessions -> Profiles]
    /\ state \in [Sessions -> {"launching", "running", "closing", "closed", "failed"}]
    /\ registered \subseteq Sessions
    /\ browser \in [Sessions -> {"none", "running", "dying", "gone"}]
    /\ dir \in [Sessions -> {"absent", "present", "quarantined", "deleted"}]
    /\ closing \in [Closers -> [Sessions -> CloseStates]]
    /\ forced \in [Closers -> SUBSET Sessions]
    /\ exiting \in [Procs -> {"no", "closing", "exited"}]

\* A close that has come to the release has a lock to release: its session's, or,
\* where closes overlap, one that was already given back.
ReleasesAreAllowed ==
    \A c \in Closers, s \in Sessions :
        closing[c][s] = "releasing" => lpc[s] = "held" \/ (ReleaseAgain /\ lpc[s] = "released")

\* The session manager uses the lock as lock.ts expects: it implements the lock
\* protocol, and when closes do not overlap it never releases a lock twice.
UsesLockProtocol == [][LockNext]_lockVars /\ []ReleasesAreAllowed

\* A session whose context is attached owns the lock of its persistent profile
\* (docs/specs/adr-0002-headless-core-foundation.md: a running session owns
\* exactly one profile lock), and Chromium was not started before it did.
RunningOwnsLock ==
    \A s \in Sessions :
        /\ Running(s)
        /\ Persistent(s)
        /\ state[s] = "running" \/ launch[s] \in {"spawning", "connecting"}
        => file = [owner |-> s, text |-> "json"]

RunningOwnsLockUntilStray == ~stray => RunningOwnsLock

\* No process keeps a lock silently: if the lock file belongs to a live process,
\* its session is launching, its launch() has thrown, or it is in the registry
\* where a close can reach it.
LockIsAccountedFor ==
    \A s \in Sessions :
        Running(s) /\ file.owner = s
            => launch[s] # "up" \/ s \in registered

\* A close that failed leaves the session in the registry and its profile
\* locked, so that it can be closed again and nobody launches in between.
FailedCloseKeepsLock ==
    \A s \in Sessions :
        Running(s) /\ state[s] = "failed"
            => s \in registered /\ (Persistent(s) => file.owner = s)

\* A graceful shutdown that reached a session frees its lock before it exits.
ShutdownFreesLocks ==
    \A s \in Sessions :
        exiting[ProcOf[s]] = "exited" /\ closing[Shutdown][s] # "idle"
            => file.owner # s /\ s \notin registered

\* The awaits nothing limits, if they never settle: the stealth checks of a child's
\* page and the start of a trace, and the end of a trace.
LaunchHangs(s) ==
    <>[](\/ launch[s] = "checking" /\ profile[s].mode = "cdp"
         \/ launch[s] = "tracing" /\ Traced(s))
CloseHangs(c, s) == <>[](closing[c][s] = "finalizing" /\ Traced(s))

\* Where the file system works, a forced close ends with the session gone from the
\* registry and its lock gone from the disk, whatever its context does, unless the
\* session is traced and its trace never stops.  (docs/architecture.md:65 has it
\* without the exception: "Force-close swallows context-close errors to ensure
\* cleanup always completes".)
ForcedCloseCompletes ==
    \A c \in Closers, s \in Sessions :
        \/ CloseHangs(c, s)
        \/ closing[c][s] = "logging" /\ s \in forced[c]
              ~> (s \notin registered /\ file.owner # s) \/ ~Running(s)

\* Every launch and every close comes to an end while its process lives, unless it
\* waits for ever for a check or a trace.
LaunchSettles ==
    \A s \in Sessions :
        \/ LaunchHangs(s)
        \/ launch[s] = "dirs" ~> launch[s] \in {"up", "threw"} \/ ~Running(s)
CloseSettles ==
    \A c \in Closers, s \in Sessions :
        \/ CloseHangs(c, s)
        \/ closing[c][s] = "logging" ~> closing[c][s] \in {"done", "threw"} \/ ~Running(s)

\* The lock and the registry agree about who has the profile: no process keeps
\* a lock silently, and no failed close gives it up.
LocksAreKept == LockIsAccountedFor /\ FailedCloseKeepsLock

\* Every promise launch() and close() hand out settles while its process lives, but
\* for those that hang at one of the three awaits without a limit.
CallsSettle == LaunchSettles /\ CloseSettles
=============================================================================
