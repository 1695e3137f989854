----------------------------- MODULE Identities -----------------------------
(***************************************************************************)
(* The record of one identity and the profile it owns                      *)
(* (src/src/identity, src/src/browser/profile-policy.ts).                  *)
(*                                                                         *)
(* A record is one file, replaced by writing `<file>.tmp` and renaming it. *)
(* The temporary name is shared by all saves, so what a name stands for    *)
(* and what a save has open are kept apart: a file made by open() is named *)
(* after the request that made it.  Only mark-warm runs under the lock of  *)
(* the identity.  The profile's preferences are read, changed and written  *)
(* by create, and by Chromium, which reads them when it starts and writes  *)
(* them back when it exits.                                                *)
(***************************************************************************)
EXTENDS Sequences, FiniteSets, TLC

CONSTANTS Creates, Marks, Deletes, Warms, \* the requests of each kind
          Profiles, \* a workspace and its profile directory
          None

\* Every request is of one kind, and None is nobody and nowhere.
ASSUME IdentitiesAssumption ==
    /\ Creates \cap Marks = {}
    /\ (Creates \cup Marks) \cap (Deletes \cup Warms) = {}
    /\ Deletes \cap Warms = {}
    /\ None \notin Creates \cup Marks \cup Profiles

VARIABLES at,       \* where each request is
          names,    \* what the record's file and its ".tmp" stand for
          text,     \* what is in the file that a request made
          fd,       \* the file that a save has open
          hand,     \* the record that a request holds
          chain,    \* locks: the mark-warm requests that wait or run, in order
          place,    \* the workspace and the profile of a create's input
          prefs,    \* Default/Preferences of each profile
          seen,     \* what a create read of them
          memory,   \* what the Chromium of a profile holds of them
          running,  \* the profiles Chromium runs on
          jar,      \* the profile that a warm request launches
          rivals,   \* history: files open in a save while a create saved too
          stale,    \* history: requests that read before the record was replaced
          shared,   \* history: profiles two writers are, or just were, at work on
          kept      \* history: what the preferences of a profile have to keep

files == <<names, text, fd>>
profileVars == <<prefs, seen, memory, running>>
history == <<rivals, stale, shared, kept>>
vars == <<at, files, hand, chain, place, profileVars, jar, history>>

Savers == Creates \cup Marks
Requests == Savers \cup Deletes \cup Warms
Answered == {"done", "refused", "failed"}  \* 200, a coded error, 500 or no answer
Pending(r) == at[r] \notin Answered \cup {"idle", "queued"}

\* A record: who created it, and the mark-warm calls it has seen.  Its version
\* is one more than their number and it is warm if there is one.
Empty == [by |-> None, marks |-> {}]
Garbled == [by |-> None, marks |-> Marks]
NoPrefs == [off |-> FALSE, rest |-> FALSE] \* no file, or one that does not parse

Init ==
    /\ at = [r \in Requests |-> "idle"]
    /\ names = [n \in {"file", "tmp"} |-> None]
    /\ text = [r \in Savers |-> Empty]
    /\ fd = [r \in Savers |-> None]
    /\ hand = [r \in Savers |-> Empty]
    /\ chain = <<>>
    /\ place = [c \in Creates |-> [workspace |-> None, profile |-> None]]
    /\ prefs = [p \in Profiles |-> NoPrefs]
    /\ seen = [c \in Creates |-> NoPrefs]
    /\ memory = [p \in Profiles |-> NoPrefs]
    /\ running = {}
    /\ jar = [v \in Warms |-> None]
    /\ rivals = {} /\ stale = {} /\ shared = {}
    /\ kept = [p \in Profiles |-> NoPrefs]

Go(r, step) == at' = [at EXCEPT ![r] = step]
Exists == names["file"] # None
Loaded == IF Exists THEN text[names["file"]] ELSE Empty
Readable == Loaded.by # None

(***************************************************************************)
(* IdentityStore.save, of a create or of a mark-warm.                      *)
(***************************************************************************)
\* Defective variant: the record is written in place.
OpenRecord(r) ==
    /\ at[r] = "ready"
    /\ LET f == IF Exists THEN names["file"] ELSE r
       IN /\ names' = [names EXCEPT !["file"] = f]
          /\ text' = [text EXCEPT ![f] = Empty]
          /\ fd' = [fd EXCEPT ![r] = f]
    /\ Go(r, "open")
    /\ UNCHANGED <<hand, chain, place, profileVars, jar>>

\* writeFile opens the temporary file: the one that is there is truncated.
OpenTmp(r) ==
    /\ at[r] = "ready"
    /\ LET f == IF names["tmp"] = None THEN r ELSE names["tmp"]
       IN /\ names' = [names EXCEPT !["tmp"] = f]
          /\ text' = [text EXCEPT ![f] = Empty]
          /\ fd' = [fd EXCEPT ![r] = f]
    /\ seen' = [c \in Creates |-> IF c = r THEN NoPrefs ELSE seen[c]]
    /\ Go(r, "open")
    /\ UNCHANGED <<hand, chain, place, prefs, memory, running, jar>>

\* Two saves that have one file open both write from its start: the shorter
\* text leaves the end of the longer one behind it.
WriteTmp(r) ==
    /\ at[r] = "open"
    /\ \E t \in {hand[r]} \cup (IF text[fd[r]] = Empty THEN {} ELSE {Garbled}) :
          text' = [text EXCEPT ![fd[r]] = t]
    /\ fd' = [fd EXCEPT ![r] = None]
    /\ hand' = [hand EXCEPT ![r] = Empty]
    /\ Go(r, "written")
    /\ UNCHANGED <<names, chain, place, profileVars, jar>>

\* A file without a name is gone, or soon will be.
Unlink(n) ==
    text' = IF names[n] = None THEN text ELSE [text EXCEPT ![names[n]] = Empty]

\* Whatever the temporary name stands for by now becomes the record.
Rename(r) ==
    /\ at[r] = "written"
    /\ IF names["tmp"] = None
       THEN Go(r, "unsaved") /\ UNCHANGED <<names, text>>
       ELSE /\ names' = [file |-> names["tmp"], tmp |-> None]
            /\ Unlink("file")
            /\ Go(r, "saved")
    /\ UNCHANGED <<fd, hand, chain, place, profileVars, jar>>

\* The log line comes last and may fail too.  The next mark-warm starts.
Reply(r) ==
    /\ at[r] \in {"saved", "unsaved", "missing", "unreadable"}
    /\ \E answer \in CASE at[r] = "saved" -> {"done", "failed"}
                       [] at[r] = "missing" -> {"refused"}
                       [] OTHER -> {"failed"} : Go(r, answer)
    /\ chain' = IF r \in Marks THEN Tail(chain) ELSE chain
    /\ UNCHANGED <<files, hand, place, profileVars, jar>>

(***************************************************************************)
(* create                                                                  *)
(***************************************************************************)
Refuse(c) ==
    /\ at[c] = "idle"
    /\ Go(c, "refused")
    /\ UNCHANGED <<files, hand, chain, place, profileVars, jar>>

\* Defective variant: the identity may exist already.
CheckNothing(c) ==
    /\ at[c] = "idle"
    /\ \E w, p \in Profiles : place' = [place EXCEPT ![c] = [workspace |-> w, profile |-> p]]
    /\ hand' = [hand EXCEPT ![c] = [by |-> c, marks |-> {}]]
    /\ Go(c, "checked")
    /\ UNCHANGED <<files, chain, profileVars, jar>>

CheckAbsent(c) ==
    /\ at[c] = "idle"
    /\ IF Exists
       THEN Go(c, "refused") /\ UNCHANGED <<place, hand>>
       ELSE /\ \E w, p \in Profiles :
                  place' = [place EXCEPT ![c] = [workspace |-> w, profile |-> p]]
            /\ hand' = [hand EXCEPT ![c] = [by |-> c, marks |-> {}]]
            /\ Go(c, "checked")
    /\ UNCHANGED <<files, chain, profileVars, jar>>

\* disablePasswordManager: what cannot be read counts as no preferences.
ReadPrefs(c) ==
    /\ at[c] = "checked"
    /\ seen' = [seen EXCEPT ![c] = prefs[place[c].profile]]
    /\ Go(c, "prefsRead")
    /\ UNCHANGED <<files, hand, chain, place, prefs, memory, running, jar>>

TruncatePrefs(c) ==
    /\ at[c] = "prefsRead"
    /\ prefs' = [prefs EXCEPT ![place[c].profile] = NoPrefs]
    /\ Go(c, "truncated")
    /\ UNCHANGED <<files, hand, chain, place, seen, memory, running, jar>>

\* Defective variant: the preferences are started afresh.
WriteFreshPrefs(c) ==
    /\ at[c] = "truncated"
    /\ prefs' = [prefs EXCEPT ![place[c].profile] = [off |-> TRUE, rest |-> FALSE]]
    /\ Go(c, "ready")
    /\ UNCHANGED <<files, hand, chain, place, seen, memory, running, jar>>

WritePrefs(c) ==
    /\ at[c] = "truncated"
    /\ prefs' = [prefs EXCEPT ![place[c].profile] = [off |-> TRUE, rest |-> seen[c].rest]]
    /\ Go(c, "ready")
    /\ UNCHANGED <<files, hand, chain, place, seen, memory, running, jar>>

(***************************************************************************)
(* mark-warm, delete, warm                                                 *)
(***************************************************************************)
Queue(m) ==
    /\ at[m] = "idle"
    /\ chain' = Append(chain, m)
    /\ Go(m, "queued")
    /\ UNCHANGED <<files, hand, place, profileVars, jar>>

\* Defective variant: no lock.
AnyTurn(m) == \E i \in DOMAIN chain : chain[i] = m

\* Whose turn it is: withLock runs the calls one after the other.
Turn(m) == chain # <<>> /\ Head(chain) = m

LoadToMark(m) ==
    /\ at[m] = "queued"
    /\ Turn(m)
    /\ IF Readable
       THEN /\ hand' = [hand EXCEPT ![m] = [Loaded EXCEPT !.marks = @ \cup {m}]]
            /\ Go(m, "ready")
       ELSE /\ Go(m, IF Exists THEN "unreadable" ELSE "missing")
            /\ UNCHANGED hand
    /\ UNCHANGED <<files, chain, place, profileVars, jar>>

Delete(d) ==
    /\ at[d] = "idle"
    /\ Go(d, IF Exists THEN "done" ELSE "refused")
    /\ names' = [names EXCEPT !["file"] = None]
    /\ Unlink("file")
    /\ UNCHANGED <<fd, hand, chain, place, profileVars, jar>>

\* The session is launched on the profile of the identity's workspace.
LoadToWarm(v) ==
    /\ at[v] = "idle"
    /\ IF Readable
       THEN /\ jar' = [jar EXCEPT ![v] = place[Loaded.by].workspace]
            /\ Go(v, "loaded")
       ELSE Go(v, IF Exists THEN "failed" ELSE "refused") /\ UNCHANGED jar
    /\ UNCHANGED <<files, hand, chain, place, profileVars>>

\* POST /v1/sessions launches on a workspace too, whether or not it is that of
\* an identity.
AskForWorkspace(v) ==
    /\ at[v] = "idle"
    /\ \E p \in Profiles : jar' = [jar EXCEPT ![v] = p]
    /\ Go(v, "asked")
    /\ UNCHANGED <<files, hand, chain, place, profileVars>>

ChromiumStarts(p) ==
    /\ p \notin running
    /\ running' = running \cup {p}
    /\ memory' = [memory EXCEPT ![p] = prefs[p]]
    /\ UNCHANGED <<prefs, seen>>

Launch(v) ==
    /\ at[v] \in {"loaded", "asked"}
    /\ ChromiumStarts(jar[v])
    /\ jar' = [jar EXCEPT ![v] = None]
    /\ Go(v, "done")
    /\ UNCHANGED <<files, hand, chain, place>>

ProfileIsLocked(v) ==
    /\ at[v] \in {"loaded", "asked"}
    /\ jar[v] \in running
    /\ jar' = [jar EXCEPT ![v] = None]
    /\ Go(v, "refused")
    /\ UNCHANGED <<files, hand, chain, place, profileVars>>

ChromiumExits(p) ==
    /\ p \in running
    /\ running' = running \ {p}
    /\ prefs' = [prefs EXCEPT ![p] = [memory[p] EXCEPT !.rest = TRUE]]
    /\ memory' = [memory EXCEPT ![p] = NoPrefs]
    /\ UNCHANGED <<at, files, hand, chain, place, seen, jar>>

\* The process ends: nobody is answered, and the files stay as they are.
Crash ==
    /\ at' = [r \in Requests |-> IF at[r] \in Answered \cup {"idle"} THEN at[r] ELSE "failed"]
    /\ at' # at
    /\ chain' = <<>>
    /\ fd' = [r \in Savers |-> None]
    /\ hand' = [r \in Savers |-> Empty]
    /\ seen' = [c \in Creates |-> NoPrefs]
    /\ jar' = [v \in Warms |-> None]
    /\ UNCHANGED <<names, text, place, prefs, memory, running>>

(***************************************************************************)
(* Specification                                                           *)
(***************************************************************************)
WritingPrefs(c, p) == place'[c].profile = p /\ at'[c] \in {"prefsRead", "truncated"}

\* Between the read and the write of a create, another create or Chromium is
\* at work on the same preferences.
TwoAtWork(p) ==
    \E c \in Creates :
       /\ WritingPrefs(c, p)
       /\ p \in running' \/ \E d \in Creates \ {c} : WritingPrefs(d, p)

AtWork(p) == p \in running' \/ \E c \in Creates : WritingPrefs(c, p)

\* A create turns the password manager off.
TurnsOff(p) ==
    \E c \in Creates : place[c].profile = p /\ at[c] # "ready" /\ at'[c] = "ready"

\* The process ends when a create has emptied the file and not yet filled it.
CutShort(p) ==
    \E c \in Creates : place[c].profile = p /\ at[c] = "truncated" /\ at'[c] = "failed"

Rivals(r, s) ==
    /\ r # s /\ {r, s} \cap Creates # {}
    /\ at'[r] = "open" /\ at'[s] \in {"open", "written"}

\* What the properties tell apart is kept along with every step.
Remember ==
    /\ rivals' = rivals \cup {fd'[r] : r \in {q \in Savers : \E s \in Savers : Rivals(q, s)}}
    /\ stale' = IF Readable' /\ Loaded'.by # Loaded.by
                THEN stale \cup {r \in Savers : Pending(r)} ELSE stale
    /\ shared' = {p \in Profiles : TwoAtWork(p) \/ (p \in shared /\ AtWork(p))}
    /\ kept' = [p \in Profiles |->
                   IF p \in shared \cup shared' \/ CutShort(p) THEN NoPrefs
                   ELSE [off |-> kept[p].off \/ TurnsOff(p),
                         rest |-> kept[p].rest \/ prefs'[p].rest]]

Save(r) ==
    /\ OpenTmp(r) \/ WriteTmp(r) \/ Rename(r) \/ Reply(r)
    /\ Remember

Create(c) ==
    /\ Refuse(c) \/ CheckAbsent(c) \/ ReadPrefs(c) \/ TruncatePrefs(c) \/ WritePrefs(c)
    /\ Remember

Mark(m) == (Queue(m) \/ LoadToMark(m)) /\ Remember

Warm(v) ==
    /\ LoadToWarm(v) \/ AskForWorkspace(v) \/ Launch(v) \/ ProfileIsLocked(v)
    /\ Remember

Next ==
    \/ \E r \in Savers : Save(r)
    \/ \E c \in Creates : Create(c)
    \/ \E m \in Marks : Mark(m)
    \/ \E d \in Deletes : Delete(d) /\ Remember
    \/ \E v \in Warms : Warm(v)
    \/ \E p \in Profiles : ChromiumExits(p) /\ Remember
    \/ Crash /\ Remember

Spec == Init /\ [][Next]_vars

(***************************************************************************)
(* Properties                                                              *)
(***************************************************************************)
\* The record cannot be read ("so a reader never sees a half-written record",
\* store.ts:7) only if a save wrote its file while a create was saving too.
TornOnlyByRival ==
    Exists /\ ~Readable => names["file"] \in rivals

\* Two updates of a record do not clobber each other (manager.ts:22): what
\* one mark-warm wrote is still there after the next.
MarksAddUp ==
    [][Readable /\ Readable' /\ Loaded'.by = Loaded.by
       => Loaded.marks \subseteq Loaded'.marks]_vars

\* A record gives way to that of another create only at a save whose request
\* had read the directory before the record got there, or whose file another
\* save had open.
ReplacedOnlyByStale ==
    [][Readable /\ Readable' /\ Loaded'.by # Loaded.by
       => names'["file"] \in rivals \/ \E r \in stale : at[r] # at'[r]]_vars

\* Once a create has turned the password manager off it stays off, and what
\* else the preferences hold is never lost (profile-policy.ts:7, 8), whatever
\* creates, sessions and crashes follow; but for two things, after which this
\* starts anew: a create that was between its read and its write while another
\* create or Chromium was at work on the profile (from then until nobody is),
\* and a process that ended between the truncation and the write of a create,
\* which does destroy the preferences.
PrefsMerged ==
    \A p \in Profiles :
       (\A c \in Creates : place[c].profile = p => at[c] # "truncated")
       => /\ kept[p].off => prefs[p].off
          /\ kept[p].rest => prefs[p].rest
=============================================================================
