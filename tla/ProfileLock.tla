---------------------------- MODULE ProfileLock ----------------------------
(***************************************************************************)
(* The lock file of one persistent workspace (src/src/profiles/lock.ts).   *)
(*                                                                         *)
(* The lock is a JSON file shared by every process that uses the data      *)
(* directory: the service and the warm-session tool, or two services.      *)
(* Several launches of one process may also be inside create() at once.    *)
(* create() is a chain of awaited file-system calls, so each call is one   *)
(* action here; the JavaScript between two awaits runs inside the action   *)
(* of the call whose result it handles.                                    *)
(*                                                                         *)
(* A workspace has one lock file and the files of two workspaces never     *)
(* meet, so one workspace is modelled.  A session id is minted once, so a  *)
(* session calls create() at most once.                                    *)
(***************************************************************************)
EXTENDS Naturals

CONSTANTS Sessions,    \* the sessions that try to lock the workspace
          Procs,       \* operating-system processes, named by their pid
          ProcOf,      \* the process a session lives in
          None,        \* no session
          Crashable,   \* the processes that may die without cleaning up
          IOFaults,    \* may a file-system call fail for a reason of its own
          ReleaseAgain \* may a lock be released twice on behalf of one session
                       \* (two closes of it overlap), or do callers avoid that

ASSUME LockAssumption ==
    /\ None \notin Sessions
    /\ ProcOf \in [Sessions -> Procs]
    /\ Crashable \subseteq Procs
    /\ IOFaults \in BOOLEAN
    /\ ReleaseAgain \in BOOLEAN

VARIABLES pid,      \* what kill(pid, 0) finds: the process, nothing, or a stranger
          file,     \* the lock file: who created it, and whether its JSON is there
          lpc,      \* where each session is in create() / release()
          seen,     \* the owner a session parsed out of an existing lock file
          stray     \* history: an unlink removed a lock file other than the one
                    \* its caller had read or had created

lockVars == <<pid, file, lpc, seen, stray>>

NoFile == [owner |-> None, text |-> "none"]
EmptyFile(s) == [owner |-> s, text |-> "empty"]

Running(s) == pid[ProcOf[s]] = "running"

(***************************************************************************)
(* The calls of create().                                                  *)
(***************************************************************************)
LockInit ==
    /\ pid = [p \in Procs |-> "running"]
    /\ file = NoFile
    /\ lpc = [s \in Sessions |-> "idle"]
    /\ seen = [s \in Sessions |-> None]
    /\ stray = FALSE

GoTo(s, where) == lpc' = [lpc EXCEPT ![s] = where]

\* Defective variant: the flag is "w", which truncates a file that is there.
OpenFirstTruncating(s) ==
    /\ Running(s)
    /\ lpc[s] = "idle"
    /\ file' = EmptyFile(s)
    /\ GoTo(s, "opened")
    /\ UNCHANGED <<pid, seen, stray>>

\* open(lockPath, "wx"): creates an empty file, or fails because there is one,
\* or fails for another reason, which create() throws.
OpenFirst(s) ==
    /\ Running(s)
    /\ lpc[s] = "idle"
    /\ \/ /\ file = NoFile
          /\ file' = EmptyFile(s)
          /\ GoTo(s, "opened")
       \/ /\ file # NoFile
          /\ GoTo(s, "reading")
          /\ UNCHANGED file
       \/ /\ IOFaults
          /\ GoTo(s, "errored")
          /\ UNCHANGED file
    /\ UNCHANGED <<pid, seen, stray>>

\* readFile and JSON.parse: the file may have been removed meanwhile, or be
\* empty because its creator has not written it (or died before it could).
ReadOwner(s) ==
    /\ Running(s)
    /\ lpc[s] = "reading"
    /\ IF file.text = "json"
       THEN /\ seen' = [seen EXCEPT ![s] = file.owner]
            /\ GoTo(s, "probing")
       ELSE /\ GoTo(s, "errored")
            /\ UNCHANGED seen
    /\ UNCHANGED <<pid, file, stray>>

\* Defective variant: a live owner is taken for a dead one.
ProbeOwnerIgnored(s) ==
    /\ Running(s)
    /\ lpc[s] = "probing"
    /\ GoTo(s, "stale")
    /\ UNCHANGED <<pid, file, seen, stray>>

\* Defective variant: EPERM starts over instead of being thrown.
ProbeOwnerRetrying(s) ==
    /\ Running(s)
    /\ lpc[s] = "probing"
    /\ LET owner == pid[ProcOf[seen[s]]]
       IN  \/ owner = "running" /\ GoTo(s, "refused")
           \/ owner = "dead"    /\ GoTo(s, "stale")
           \/ owner = "reused"  /\ GoTo(s, "reading")
    /\ UNCHANGED <<pid, file, seen, stray>>

\* process.kill(existing.pid, 0): alive means PROFILE_LOCKED, ESRCH a stale
\* lock.  A pid that now names a stranger's process answers EPERM, which is
\* thrown, or looks alive.
ProbeOwner(s) ==
    /\ Running(s)
    /\ lpc[s] = "probing"
    /\ LET owner == pid[ProcOf[seen[s]]]
       IN  \/ owner \in {"running", "reused"} /\ GoTo(s, "refused")
           \/ owner = "dead"   /\ GoTo(s, "stale")
           \/ owner = "reused" /\ GoTo(s, "errored")
    /\ UNCHANGED <<pid, file, seen, stray>>

\* unlink(lockPath): removes whatever file has that name by now.
UnlinkStale(s) ==
    /\ Running(s)
    /\ lpc[s] = "stale"
    /\ IF file = NoFile
       THEN GoTo(s, "errored") /\ UNCHANGED <<file, stray>>
       ELSE /\ GoTo(s, "reopening")
            /\ file' = NoFile
            /\ stray' = (stray \/ file.owner # seen[s])
    /\ UNCHANGED <<pid, seen>>

\* The second open(lockPath, "wx"); a file that appeared meanwhile is an error.
OpenAgain(s) ==
    /\ Running(s)
    /\ lpc[s] = "reopening"
    /\ \/ /\ file = NoFile
          /\ file' = EmptyFile(s)
          /\ GoTo(s, "opened")
       \/ /\ file # NoFile \/ IOFaults
          /\ GoTo(s, "errored")
          /\ UNCHANGED file
    /\ UNCHANGED <<pid, seen, stray>>

\* writeFile goes to the file this session opened, which need no longer be the
\* one that has the lock's name.
WriteOwner(s) ==
    /\ Running(s)
    /\ lpc[s] = "opened"
    /\ file' = IF file.owner = s THEN [file EXCEPT !.text = "json"] ELSE file
    /\ GoTo(s, "held")
    /\ UNCHANGED <<pid, seen, stray>>

\* The write or the close of the handle fails: create() throws and leaves the
\* file it created behind.
WriteFails(s) ==
    /\ IOFaults
    /\ Running(s)
    /\ lpc[s] = "opened"
    /\ GoTo(s, "errored")
    /\ UNCHANGED <<pid, file, seen, stray>>

CreateStep(s) ==
    \/ OpenFirst(s) \/ ReadOwner(s) \/ ProbeOwner(s) \/ UnlinkStale(s)
    \/ OpenAgain(s) \/ WriteOwner(s) \/ WriteFails(s)

(***************************************************************************)
(* release(workspaceId) takes no session: it unlinks the workspace's lock  *)
(* file whoever owns it and tolerates that there is none.                  *)
(***************************************************************************)
Release(s) ==
    /\ Running(s)
    /\ lpc[s] = "held" \/ (ReleaseAgain /\ lpc[s] = "released")
    /\ file' = NoFile
    /\ stray' = (stray \/ (file # NoFile /\ file.owner # s))
    /\ GoTo(s, "released")
    /\ UNCHANGED <<pid, seen>>

(***************************************************************************)
(* The environment.                                                        *)
(***************************************************************************)
Crash(p) ==
    /\ p \in Crashable
    /\ pid[p] = "running"
    /\ pid' = [pid EXCEPT ![p] = "dead"]
    /\ UNCHANGED <<file, lpc, seen, stray>>

\* The operating system gives a dead process's pid to a stranger.
ReusePid(p) ==
    /\ pid[p] = "dead"
    /\ pid' = [pid EXCEPT ![p] = "reused"]
    /\ UNCHANGED <<file, lpc, seen, stray>>

LockNext ==
    \/ \E s \in Sessions : CreateStep(s) \/ Release(s)
    \/ \E p \in Procs : Crash(p) \/ ReusePid(p)

LockSpec == LockInit /\ [][LockNext]_lockVars

\* The promises of create() settle as long as the process lives.
LockFairSpec == LockSpec /\ \A s \in Sessions : WF_lockVars(CreateStep(s))

(***************************************************************************)
(* Properties.                                                             *)
(***************************************************************************)
CreateStates == {"reading", "probing", "stale", "reopening", "opened"}
LockStates == CreateStates \cup {"idle", "held", "released", "refused", "errored"}

\* Every variable keeps its type, and the lock file has an owner whenever it
\* exists.
LockTypeOK ==
    /\ pid \in [Procs -> {"running", "dead", "reused"}]
    /\ file \in [owner : Sessions \cup {None}, text : {"none", "empty", "json"}]
    /\ file.owner = None <=> file.text = "none"
    /\ lpc \in [Sessions -> LockStates]
    /\ seen \in [Sessions -> Sessions \cup {None}]
    /\ \A s \in Sessions : lpc[s] \in {"probing", "stale"} => seen[s] # None
    /\ stray \in BOOLEAN

\* A live session that has the lock, or has created the file and is writing it.
Owns(s) == Running(s) /\ lpc[s] \in {"opened", "held"}

\* lock.ts promises mutual exclusion over the profile: two sessions of live
\* processes never both believe they hold the lock.
MutualExclusion ==
    \A s, t \in Sessions : Owns(s) /\ Owns(t) => s = t

\* create()/release() lose exclusion in one way only: some unlink removed a
\* lock file that was not the one its caller had read (a take-over that lost a
\* race) or created (a release of a lock already lost or given back).
ExclusionUntilStrayUnlink == ~stray => MutualExclusion

\* The abstract mutex this lock implements.
OwnersNow == {s \in Sessions : Owns(s)}
Mutex == INSTANCE ProfileMutex WITH owners <- OwnersNow

\* Until a stray unlink every step of the lock protocol is a step of the mutex:
\* nobody takes the profile from, or together with, a live owner.
ImplementsMutexUntilStray ==
    /\ Mutex!MutexInit
    /\ [][~stray' => [Mutex!MutexNext]_OwnersNow]_lockVars

\* Every create() comes to an end while its process lives.
CreateSettles ==
    \A s \in Sessions :
        lpc[s] \in CreateStates ~> (lpc[s] \notin CreateStates \/ ~Running(s))
=============================================================================
