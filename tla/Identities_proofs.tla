------------------------- MODULE Identities_proofs -------------------------
(***************************************************************************)
(* Proofs about the record of an identity and its profile, for any number  *)
(* of requests of each kind and any profiles, through crashes.             *)
(***************************************************************************)
EXTENDS Identities, TLAPS

Stages == {"idle", "queued", "checked", "prefsRead", "truncated", "ready", "open", "written",
           "saved", "unsaved", "missing", "unreadable", "loaded", "asked", "done", "refused", "failed"}
Records == [by : Creates \cup {None}, marks : SUBSET Marks]
Preferences == [off : BOOLEAN, rest : BOOLEAN]
Spots == [workspace : Profiles, profile : Profiles]
Placed(c) == place[c] \in Spots

(* A request that is still to save. *)
Early(r) == at[r] \in {"idle", "queued", "checked", "prefsRead", "truncated", "ready"}

(* A create that has been admitted, and holds its own new record. *)
Admitted(c) == at[c] \in {"checked", "prefsRead", "truncated", "ready", "open"}

TypeOK ==
    /\ at \in [Requests -> Stages]
    /\ names \in [{"file", "tmp"} -> Savers \cup {None}]
    /\ text \in [Savers -> Records]
    /\ fd \in [Savers -> Savers \cup {None}]
    /\ hand \in [Savers -> Records]
    /\ chain \in Seq(Marks)
    /\ place \in [Creates -> [workspace : Profiles \cup {None}, profile : Profiles \cup {None}]]
    /\ prefs \in [Profiles -> Preferences]
    /\ seen \in [Creates -> Preferences]
    /\ memory \in [Profiles -> Preferences]
    /\ running \in SUBSET Profiles
    /\ jar \in [Warms -> Profiles \cup {None}]

(* What a request holds while it runs. *)
HoldsOK ==
    /\ \A r \in Savers : at[r] = "open" => fd[r] \in Savers
    /\ \A c \in Creates : Admitted(c) => hand[c] = [by |-> c, marks |-> {}]
    /\ \A c \in Creates : hand[c].by \in {None, c} /\ at[c] \notin {"queued", "missing", "unreadable"}
    /\ \A m \in Marks : at[m] \in {"ready", "open"} => hand[m].by # None /\ m \in hand[m].marks

WarmsOK == \A v \in Warms : at[v] \in {"loaded", "asked"} => jar[v] \in Profiles

(* Every record in a file or in a request's hand is of a create with a place. *)
PlacesOK ==
    /\ \A c \in Creates : Admitted(c) \/ at[c] \in {"written", "saved", "unsaved", "done"} => Placed(c)
    /\ \A r \in Savers : /\ text[r].by # None => Placed(text[r].by)
                         /\ hand[r].by # None => Placed(hand[r].by)

(* The lock: the mark-warm that runs is the first of the chain. *)
MarkRuns(m) == at[m] \in {"ready", "open", "written", "saved", "unsaved", "missing", "unreadable"}
ChainOK == \A m \in Marks : MarkRuns(m) => chain # <<>> /\ Head(chain) = m

(* Two saves under way at once are known as rivals. *)
RivalsOK == \A r, s \in Savers : r # s /\ at[r] = "open" /\ at[s] \in {"open", "written"} => fd[r] \in rivals

(***************************************************************************)
(* The files.  The record and the temporary file are not one file, and a   *)
(* file is named after a request that has opened it.  What a save has open *)
(* is empty, and the temporary file is what it has open, but for rivals;   *)
(* so what a written save renames can be read.                             *)
(***************************************************************************)
Tmp == names["tmp"]
File == names["file"]
Written == \E r \in Savers : at[r] = "written"
UnderWay == \E r \in Savers : at[r] \in {"open", "written"}

FilesOK ==
    /\ Tmp # None => Tmp # File
    /\ \A r \in Savers : Early(r) => r # File /\ r # Tmp /\ \A s \in Savers : fd[s] # r
    /\ \A r \in Savers : at[r] = "open" =>
          /\ text[fd[r]] # Empty => fd[r] \in rivals
          /\ Tmp \notin {None, fd[r]} => Tmp \in rivals
    /\ Written /\ Tmp # None => text[Tmp].by # None \/ Tmp \in rivals
    /\ File # None => text[File].by # None \/ File \in rivals

(***************************************************************************)
(* The marks.  A create's record exists nowhere before it is written, and  *)
(* in one file until it becomes the record.  Only the mark that has been   *)
(* written is in the temporary file of a save under way.  What a mark      *)
(* holds, and what is to be renamed, has all that the record has.          *)
(***************************************************************************)
MarksOK ==
    /\ \A c \in Creates : Early(c) \/ at[c] = "open" =>
          /\ \A f \in Savers : text[f].by # c
          /\ \A m \in Marks : hand[m].by # c
    /\ Tmp # None /\ text[Tmp].by # None /\ text[Tmp].marks = {} =>
          /\ File # None => text[File].by # text[Tmp].by
          /\ \A m \in Marks : hand[m].by # text[Tmp].by
    /\ UnderWay /\ Tmp # None /\ text[Tmp].by # None /\ text[Tmp].marks # {} =>
          \E m \in Marks : at[m] = "written"
    /\ \A m \in Marks : at[m] \in {"ready", "open"} /\ Loaded.by = hand[m].by =>
          Loaded.marks \subseteq hand[m].marks
    /\ UnderWay /\ Tmp # None /\ text[Tmp].by # None /\ Loaded.by = text[Tmp].by =>
          Loaded.marks \subseteq text[Tmp].marks

(***************************************************************************)
(* Who is stale.  A create that is not has found no record, and there is   *)
(* none that can be read; a mark-warm that is not holds, or has written,   *)
(* the record of the create whose record is there.                         *)
(***************************************************************************)
StaleOK ==
    /\ \A c \in Creates : Pending(c) /\ c \notin stale => Loaded.by = None
    /\ \A m \in Marks : at[m] \in {"ready", "open"} /\ m \notin stale => Loaded.by \in {None, hand[m].by}
    /\ \A m \in Marks : at[m] = "written" /\ m \notin stale /\ Tmp # None /\ Tmp \notin rivals =>
          Loaded.by \in {None, text[Tmp].by}

(***************************************************************************)
(* The preferences of a profile.  What has to be kept is in the file, or   *)
(* in the hands of the one create that is between its read and its write,  *)
(* or, that the password manager is off, in the memory of Chromium.        *)
(***************************************************************************)
Writes(c, p) == place[c].profile = p /\ at[c] \in {"prefsRead", "truncated"}
Clear(p) == \A d \in Creates : place[d].profile = p => at[d] # "truncated"

Merged(p) ==
    /\ Clear(p) => (kept[p].off => prefs[p].off) /\ (kept[p].rest => prefs[p].rest)
    /\ p \in running /\ kept[p].off => memory[p].off
    /\ p \notin shared =>
          \A d \in Creates : Writes(d, p) => (kept[p].rest \/ prefs[p].rest => seen[d].rest)

PrefsOK ==
    /\ \A p \in Profiles, c \in Creates : Writes(c, p) /\ p \notin shared =>
          p \notin running /\ \A d \in Creates \ {c} : ~Writes(d, p)
    /\ \A p \in Profiles : Merged(p)

-----------------------------------------------------------------------------
(***************************************************************************)
(* What each step does.                                                    *)
(***************************************************************************)
LEMMA Kinds ==
    /\ Savers \subseteq Requests /\ Deletes \subseteq Requests /\ Warms \subseteq Requests
    /\ Creates \subseteq Savers /\ Marks \subseteq Savers
    /\ Creates \cap Marks = {} /\ Savers \cap Deletes = {} /\ Savers \cap Warms = {}
    /\ None \notin Savers /\ None \notin Profiles
BY IdentitiesAssumption DEF IdentitiesAssumption, Savers, Requests

(* One request goes on, and the others stand. *)
OnlyAt(r) == at' \in [Requests -> Stages] /\ \A q \in Requests \ {r} : at'[q] = at[q]

LEMMA Goes ==
    ASSUME TypeOK, NEW r \in Requests, NEW step \in Stages, Go(r, step)
    PROVE  OnlyAt(r) /\ at'[r] = step
BY DEF TypeOK, Go, OnlyAt

LEMMA RecordTypes ==
    /\ Empty \in Records /\ Garbled \in Records /\ NoPrefs \in Preferences
    /\ Empty.by = None /\ Garbled.by = None /\ Empty.marks = {}
    /\ ~NoPrefs.off /\ ~NoPrefs.rest
BY DEF Empty, Garbled, NoPrefs, Records, Preferences

LEMMA OpenTurn ==
    ASSUME TypeOK, NEW r \in Savers, OpenTmp(r)
    PROVE  /\ OnlyAt(r) /\ at[r] = "ready" /\ at'[r] = "open"
           /\ fd'[r] = (IF Tmp = None THEN r ELSE Tmp) /\ fd'[r] \in Savers
           /\ fd' \in [Savers -> Savers \cup {None}] /\ \A q \in Savers \ {r} : fd'[q] = fd[q]
           /\ names' \in [{"file", "tmp"} -> Savers \cup {None}] /\ Tmp' = fd'[r] /\ File' = File
           /\ text' \in [Savers -> Records] /\ text'[fd'[r]] = Empty
           /\ \A f \in Savers \ {fd'[r]} : text'[f] = text[f]
           /\ seen' \in [Creates -> Preferences] /\ (r \in Creates => seen'[r] = NoPrefs)
           /\ \A c \in Creates \ {r} : seen'[c] = seen[c]
           /\ UNCHANGED <<hand, chain, place, prefs, memory, running, jar>>
<1> DEFINE f == IF names["tmp"] = None THEN r ELSE names["tmp"]
<1>1. r \in Requests /\ f \in Savers /\ "open" \in Stages
  BY Kinds DEF TypeOK, Stages
<1>2. /\ names' = [names EXCEPT !["tmp"] = f] /\ text' = [text EXCEPT ![f] = Empty]
      /\ fd' = [fd EXCEPT ![r] = f]
  BY DEF OpenTmp
<1> HIDE DEF f
<1>3. /\ fd'[r] = f /\ fd' \in [Savers -> Savers \cup {None}] /\ \A q \in Savers \ {r} : fd'[q] = fd[q]
  BY <1>1, <1>2 DEF TypeOK
<1>4. names' \in [{"file", "tmp"} -> Savers \cup {None}] /\ Tmp' = f /\ File' = File
  BY <1>1, <1>2 DEF TypeOK, Tmp, File
<1>5. /\ text' \in [Savers -> Records] /\ text'[f] = Empty /\ \A g \in Savers \ {f} : text'[g] = text[g]
  BY <1>1, <1>2, RecordTypes DEF TypeOK
<1>6. /\ seen' \in [Creates -> Preferences] /\ (r \in Creates => seen'[r] = NoPrefs)
      /\ \A c \in Creates \ {r} : seen'[c] = seen[c]
  BY RecordTypes DEF OpenTmp, TypeOK
<1>7. OnlyAt(r) /\ at[r] = "ready" /\ at'[r] = "open"
  BY <1>1, Goes DEF OpenTmp
<1>8. UNCHANGED <<hand, chain, place, prefs, memory, running, jar>>
  BY DEF OpenTmp
<1>9. QED BY <1>1, <1>3, <1>4, <1>5, <1>6, <1>7, <1>8 DEF f, Tmp

LEMMA WriteTurn ==
    ASSUME TypeOK, HoldsOK, NEW r \in Savers, WriteTmp(r)
    PROVE  /\ OnlyAt(r) /\ at[r] = "open" /\ at'[r] = "written" /\ fd[r] \in Savers
           /\ text' \in [Savers -> Records]
           /\ text'[fd[r]] = hand[r] \/ (text'[fd[r]] = Garbled /\ text[fd[r]] # Empty)
           /\ \A f \in Savers \ {fd[r]} : text'[f] = text[f]
           /\ fd' \in [Savers -> Savers \cup {None}] /\ fd'[r] = None
           /\ \A q \in Savers \ {r} : fd'[q] = fd[q]
           /\ hand' \in [Savers -> Records] /\ hand'[r] = Empty
           /\ \A q \in Savers \ {r} : hand'[q] = hand[q]
           /\ UNCHANGED <<names, chain, place, profileVars, jar>>
<1>1. r \in Requests /\ "written" \in Stages
  BY Kinds DEF Stages
<1>2. OnlyAt(r) /\ at[r] = "open" /\ at'[r] = "written"
  BY <1>1, Goes DEF WriteTmp
<1>3. fd[r] \in Savers
  BY <1>2 DEF HoldsOK
<1>4. PICK t \in {hand[r]} \cup (IF text[fd[r]] = Empty THEN {} ELSE {Garbled}) :
         text' = [text EXCEPT ![fd[r]] = t]
  BY DEF WriteTmp
<1>5. t = hand[r] \/ (t = Garbled /\ text[fd[r]] # Empty)
  OBVIOUS
<1>6. t \in Records
  BY <1>5, RecordTypes DEF TypeOK
<1>7. /\ text' \in [Savers -> Records] /\ text'[fd[r]] = t
      /\ \A f \in Savers \ {fd[r]} : text'[f] = text[f]
  BY <1>3, <1>4, <1>6 DEF TypeOK
<1>8. /\ fd' \in [Savers -> Savers \cup {None}] /\ fd'[r] = None
      /\ \A q \in Savers \ {r} : fd'[q] = fd[q]
      /\ hand' \in [Savers -> Records] /\ hand'[r] = Empty
      /\ \A q \in Savers \ {r} : hand'[q] = hand[q]
      /\ UNCHANGED <<names, chain, place, profileVars, jar>>
  BY RecordTypes DEF WriteTmp, TypeOK
<1>9. QED BY <1>2, <1>3, <1>5, <1>7, <1>8

(* The file that loses its name is gone. *)
LEMMA UnlinkFile ==
    ASSUME TypeOK, Unlink("file")
    PROVE  /\ text' \in [Savers -> Records]
           /\ \A f \in Savers : text'[f] = IF f = File THEN Empty ELSE text[f]
BY Kinds, RecordTypes DEF TypeOK, Unlink, File

LEMMA RenameTurn ==
    ASSUME TypeOK, NEW r \in Savers, Rename(r)
    PROVE  /\ OnlyAt(r) /\ at[r] = "written" /\ at'[r] \in {"saved", "unsaved"}
           /\ names' \in [{"file", "tmp"} -> Savers \cup {None}] /\ text' \in [Savers -> Records]
           /\ \/ Tmp = None /\ names' = names /\ text' = text
              \/ /\ Tmp # None /\ File' = Tmp /\ Tmp' = None
                 /\ \A f \in Savers : text'[f] = IF f = File THEN Empty ELSE text[f]
           /\ UNCHANGED <<fd, hand, chain, place, profileVars, jar>>
<1>1. r \in Requests /\ {"saved", "unsaved"} \subseteq Stages
  BY Kinds DEF Stages
<1>2. at[r] = "written" /\ UNCHANGED <<fd, hand, chain, place, profileVars, jar>>
  BY DEF Rename
<1>3. CASE Tmp = None
  <2>1. Go(r, "unsaved") /\ UNCHANGED <<names, text>>
    BY <1>3 DEF Rename, Tmp
  <2>2. QED BY <1>1, <1>2, <1>3, <2>1, Goes DEF TypeOK
<1>4. CASE Tmp # None
  <2>1. names' = [file |-> names["tmp"], tmp |-> None] /\ Unlink("file") /\ Go(r, "saved")
    BY <1>4 DEF Rename, Tmp
  <2>2. names' \in [{"file", "tmp"} -> Savers \cup {None}] /\ File' = Tmp /\ Tmp' = None
    BY <2>1 DEF TypeOK, File, Tmp
  <2>3. QED BY <1>1, <1>2, <1>4, <2>1, <2>2, Goes, UnlinkFile
<1>5. QED BY <1>3, <1>4

LEMMA DeleteTurn ==
    ASSUME TypeOK, NEW d \in Deletes, Delete(d)
    PROVE  /\ OnlyAt(d) /\ at'[d] \in {"done", "refused"}
           /\ names' \in [{"file", "tmp"} -> Savers \cup {None}] /\ text' \in [Savers -> Records]
           /\ File' = None /\ Tmp' = Tmp
           /\ \A f \in Savers : text'[f] = IF f = File THEN Empty ELSE text[f]
           /\ UNCHANGED <<fd, hand, chain, place, profileVars, jar>>
<1>1. d \in Requests /\ {"done", "refused"} \subseteq Stages
  BY Kinds DEF Stages
<1>2. OnlyAt(d) /\ at'[d] \in {"done", "refused"}
  BY <1>1, Goes DEF Delete
<1>3. names' = [names EXCEPT !["file"] = None] /\ Unlink("file")
  BY DEF Delete
<1>4. names' \in [{"file", "tmp"} -> Savers \cup {None}] /\ File' = None /\ Tmp' = Tmp
  BY <1>3 DEF TypeOK, File, Tmp
<1>5. UNCHANGED <<fd, hand, chain, place, profileVars, jar>>
  BY DEF Delete
<1>6. QED BY <1>2, <1>3, <1>4, <1>5, UnlinkFile

LEMMA CrashTurn ==
    ASSUME TypeOK, Crash
    PROVE  /\ at' \in [Requests -> Stages]
           /\ \A r \in Requests : at'[r] = IF at[r] \in Answered \cup {"idle"} THEN at[r] ELSE "failed"
           /\ chain' = <<>>
           /\ fd' = [r \in Savers |-> None] /\ hand' = [r \in Savers |-> Empty]
           /\ seen' = [c \in Creates |-> NoPrefs] /\ jar' = [v \in Warms |-> None]
           /\ UNCHANGED <<names, text, place, prefs, memory, running>>
<1>1. "failed" \in Stages
  BY DEF Stages
<1>2. QED BY <1>1 DEF Crash, TypeOK

(* Every other step: a request goes on without touching a file. *)
Aside ==
    \/ \E r \in Savers : Reply(r)
    \/ \E c \in Creates : Refuse(c) \/ CheckAbsent(c) \/ ReadPrefs(c) \/ TruncatePrefs(c) \/ WritePrefs(c)
    \/ \E m \in Marks : Queue(m) \/ LoadToMark(m)
    \/ \E v \in Warms : LoadToWarm(v) \/ AskForWorkspace(v) \/ Launch(v) \/ ProfileIsLocked(v)
    \/ \E p \in Profiles : ChromiumExits(p)

LEMMA Steps ==
    Next => /\ Remember
            /\ \/ \E r \in Savers : OpenTmp(r) \/ WriteTmp(r) \/ Rename(r)
               \/ \E d \in Deletes : Delete(d)
               \/ Crash
               \/ Aside
BY DEF Next, Save, Create, Mark, Warm, Aside

Unmoved(r) == at'[r] = at[r] /\ hand'[r] = hand[r]
Admits(c) == /\ c \in Creates /\ at[c] = "idle" /\ at'[c] = "checked"
             /\ ~Exists /\ hand'[c] = [by |-> c, marks |-> {}]
             /\ place'[c] \in Spots
Prepares(c) == /\ c \in Creates /\ at[c] \in {"checked", "prefsRead", "truncated"}
               /\ at'[c] \in {"prefsRead", "truncated", "ready"} /\ hand'[c] = hand[c]
Refuses(c) == c \in Creates /\ at[c] = "idle" /\ at'[c] = "refused" /\ hand'[c] = hand[c]
Queues(m) == /\ m \in Marks /\ at[m] = "idle" /\ at'[m] = "queued" /\ hand'[m] = hand[m]
             /\ chain' = Append(chain, m)
Loads(m) == /\ m \in Marks /\ at[m] = "queued" /\ at'[m] = "ready"
            /\ Turn(m) /\ Readable
            /\ hand'[m].by = Loaded.by /\ hand'[m].marks = Loaded.marks \cup {m}
LoadsNone(m) == /\ m \in Marks /\ at[m] = "queued" /\ at'[m] \in {"missing", "unreadable"}
                /\ Turn(m) /\ hand'[m] = hand[m]
Replies(r) == /\ at[r] \in {"saved", "unsaved", "missing", "unreadable"} /\ at'[r] \in Answered
              /\ hand'[r] = hand[r]
              /\ chain' = IF r \in Marks THEN Tail(chain) ELSE chain

Moves(r) ==
    \/ Admits(r) \/ Prepares(r) \/ Refuses(r) \/ Queues(r) \/ Loads(r) \/ LoadsNone(r) \/ Replies(r)

(* At most one save moves, as one of these; only then do the chain and a place change. *)
Bystands ==
    /\ UNCHANGED files
    /\ \/ (\A r \in Savers : Unmoved(r)) /\ UNCHANGED <<chain, place>>
       \/ \E r \in Savers :
             /\ Moves(r)
             /\ \A q \in Savers \ {r} : Unmoved(q)
             /\ Queues(r) \/ Replies(r) \/ chain' = chain
             /\ \A c \in Creates : (c = r /\ Admits(r)) \/ place'[c] = place[c]

LEMMA LoadedType == TypeOK => Loaded \in Records /\ (Readable => Exists)
BY Kinds, RecordTypes DEF TypeOK, Loaded, Exists, Readable

LEMMA AsideSavers ==
    ASSUME TypeOK, Aside
    PROVE  Bystands
<1>1. /\ \A r \in Savers : r \in Requests /\ r \notin Warms
      /\ \A c \in Creates : c \in Savers
      /\ \A m \in Marks : m \in Savers
  BY Kinds
<1>2. {"done", "refused", "failed", "checked", "prefsRead", "truncated", "ready", "queued", "missing",
       "unreadable", "loaded", "asked"} \subseteq Stages
  BY DEF Stages
<1>3. ASSUME NEW r \in Savers, Moves(r), OnlyAt(r), UNCHANGED files,
             \A q \in Savers \ {r} : hand'[q] = hand[q],
             Queues(r) \/ Replies(r) \/ chain' = chain,
             \A c \in Creates : (c = r /\ Admits(r)) \/ place'[c] = place[c]
      PROVE  Bystands
  BY <1>1, <1>3 DEF Bystands, Unmoved, OnlyAt
<1>4. ASSUME NEW r \in Savers, Reply(r) PROVE Bystands
  <2>1. PICK answer \in Answered : Go(r, answer)
    BY <1>4 DEF Reply, Answered
  <2>2. OnlyAt(r) /\ at'[r] \in Answered
    BY <1>1, <1>2, <2>1, Goes DEF Answered
  <2>3. Replies(r) /\ UNCHANGED <<files, hand, place>>
    BY <1>4, <2>2 DEF Reply, Replies
  <2>4. QED BY <1>3, <2>2, <2>3 DEF Moves
<1>5. ASSUME NEW c \in Creates, Refuse(c) PROVE Bystands
  <2>1. OnlyAt(c) /\ at'[c] = "refused" /\ UNCHANGED <<files, hand, chain, place>>
    BY <1>1, <1>2, <1>5, Goes DEF Refuse
  <2>2. Refuses(c)
    BY <1>5, <2>1 DEF Refuse, Refuses
  <2>3. QED BY <1>1, <1>3, <2>1, <2>2 DEF Moves
<1>6. ASSUME NEW c \in Creates, CheckAbsent(c) PROVE Bystands
  <2>1. UNCHANGED <<files, chain>> /\ at[c] = "idle"
    BY <1>6 DEF CheckAbsent
  <2>2. CASE Exists
    <3>1. OnlyAt(c) /\ at'[c] = "refused" /\ UNCHANGED <<hand, place>>
      BY <1>1, <1>2, <1>6, <2>2, Goes DEF CheckAbsent
    <3>2. Refuses(c)
      BY <2>1, <3>1 DEF Refuses
    <3>3. QED BY <1>1, <1>3, <2>1, <3>1, <3>2 DEF Moves
  <2>3. CASE ~Exists
    <3>1. OnlyAt(c) /\ at'[c] = "checked"
      BY <1>1, <1>2, <1>6, <2>3, Goes DEF CheckAbsent
    <3>2. PICK w \in Profiles, p \in Profiles :
             place' = [place EXCEPT ![c] = [workspace |-> w, profile |-> p]]
      BY <1>6, <2>3 DEF CheckAbsent
    <3>3. place'[c] \in Spots /\ \A d \in Creates \ {c} : place'[d] = place[d]
      BY <3>2 DEF TypeOK, Spots
    <3>4. hand' = [hand EXCEPT ![c] = [by |-> c, marks |-> {}]]
      BY <1>6, <2>3 DEF CheckAbsent
    <3>5. hand'[c] = [by |-> c, marks |-> {}] /\ \A q \in Savers \ {c} : hand'[q] = hand[q]
      BY <1>1, <3>4 DEF TypeOK
    <3>6. Admits(c)
      BY <2>1, <2>3, <3>1, <3>3, <3>5 DEF Admits
    <3>7. QED BY <1>1, <1>3, <2>1, <3>1, <3>3, <3>5, <3>6 DEF Moves
  <2>4. QED BY <2>2, <2>3
<1>7. ASSUME NEW c \in Creates, ReadPrefs(c) \/ TruncatePrefs(c) \/ WritePrefs(c) PROVE Bystands
  <2>1. /\ OnlyAt(c) /\ at[c] \in {"checked", "prefsRead", "truncated"}
        /\ at'[c] \in {"prefsRead", "truncated", "ready"} /\ UNCHANGED <<files, hand, chain, place>>
    BY <1>1, <1>2, <1>7, Goes DEF ReadPrefs, TruncatePrefs, WritePrefs
  <2>2. Prepares(c)
    BY <2>1 DEF Prepares
  <2>3. QED BY <1>1, <1>3, <2>1, <2>2 DEF Moves
<1>8. ASSUME NEW m \in Marks, Queue(m) PROVE Bystands
  <2>1. /\ OnlyAt(m) /\ at[m] = "idle" /\ at'[m] = "queued" /\ chain' = Append(chain, m)
        /\ UNCHANGED <<files, hand, place>>
    BY <1>1, <1>2, <1>8, Goes DEF Queue
  <2>2. Queues(m)
    BY <2>1 DEF Queues
  <2>3. QED BY <1>1, <1>3, <2>1, <2>2 DEF Moves
<1>9. ASSUME NEW m \in Marks, LoadToMark(m) PROVE Bystands
  <2>1. UNCHANGED <<files, chain, place>> /\ at[m] = "queued" /\ Turn(m)
    BY <1>9 DEF LoadToMark
  <2>2. CASE Readable
    <3>1. OnlyAt(m) /\ at'[m] = "ready" /\ hand' = [hand EXCEPT ![m] = [Loaded EXCEPT !.marks = @ \cup {m}]]
      BY <1>1, <1>2, <1>9, <2>2, Goes DEF LoadToMark
    <3>2. hand'[m] = [Loaded EXCEPT !.marks = @ \cup {m}] /\ \A q \in Savers \ {m} : hand'[q] = hand[q]
      BY <1>1, <3>1 DEF TypeOK
    <3>3. hand'[m].by = Loaded.by /\ hand'[m].marks = Loaded.marks \cup {m}
      BY <3>2, LoadedType DEF Records
    <3>4. Loads(m)
      BY <2>1, <2>2, <3>1, <3>3 DEF Loads
    <3>5. QED BY <1>1, <1>3, <2>1, <3>1, <3>2, <3>4 DEF Moves
  <2>3. CASE ~Readable
    <3>1. Go(m, IF Exists THEN "unreadable" ELSE "missing") /\ hand' = hand
      BY <1>9, <2>3 DEF LoadToMark
    <3>2. OnlyAt(m) /\ at'[m] \in {"missing", "unreadable"}
      BY <1>1, <1>2, <3>1, Goes
    <3>3. LoadsNone(m)
      BY <2>1, <3>1, <3>2 DEF LoadsNone
    <3>4. QED BY <1>1, <1>3, <2>1, <3>1, <3>2, <3>3 DEF Moves
  <2>4. QED BY <2>2, <2>3
<1>10. ASSUME UNCHANGED <<files, hand, chain, place>>, \A q \in Savers : at'[q] = at[q] PROVE Bystands
  BY <1>10 DEF Bystands, Unmoved
<1>11. ASSUME NEW v \in Warms, LoadToWarm(v) \/ AskForWorkspace(v) \/ Launch(v) \/ ProfileIsLocked(v)
       PROVE  Bystands
  <2>1. UNCHANGED <<files, hand, chain, place>> /\ \E step \in Stages : Go(v, step)
    BY <1>2, <1>11 DEF LoadToWarm, AskForWorkspace, Launch, ProfileIsLocked
  <2>2. OnlyAt(v)
    BY <2>1, Goes, Kinds
  <2>3. QED BY <1>1, <1>10, <2>1, <2>2 DEF OnlyAt
<1>12. ASSUME NEW p \in Profiles, ChromiumExits(p) PROVE Bystands
  BY <1>10, <1>12 DEF ChromiumExits
<1>13. QED BY <1>4, <1>5, <1>6, <1>7, <1>8, <1>9, <1>11, <1>12 DEF Aside
LEMMA Remembered ==
    ASSUME Remember
    PROVE  /\ rivals \subseteq rivals' /\ stale \subseteq stale'
           /\ \A r, s \in Savers : Rivals(r, s) => fd'[r] \in rivals'
           /\ \A r \in Savers : Pending(r) /\ r \notin stale' => ~Readable' \/ Loaded'.by = Loaded.by
<1>1. rivals \subseteq rivals' /\ \A r, s \in Savers : Rivals(r, s) => fd'[r] \in rivals'
  BY DEF Remember
<1>2. stale \subseteq stale' /\ \A r \in Savers : Pending(r) /\ r \notin stale' => ~Readable' \/ Loaded'.by = Loaded.by
  BY DEF Remember
<1>3. QED BY <1>1, <1>2

-----------------------------------------------------------------------------
(***************************************************************************)
(* Types, and the lock.                                                    *)
(***************************************************************************)
LEMMA MovesType ==
    ASSUME TypeOK, PlacesOK, WarmsOK, ChainOK, Aside
    PROVE  TypeOK' /\ WarmsOK'
<1>1. /\ \A r \in Savers : r \in Requests /\ r \notin Warms
      /\ \A c \in Creates : c \in Savers
      /\ \A m \in Marks : m \in Savers
      /\ \A v \in Warms : v \in Requests
  BY Kinds
<1>2. {"done", "refused", "failed", "checked", "prefsRead", "truncated", "ready", "queued", "missing",
       "unreadable", "loaded", "asked"} \subseteq Stages
  BY DEF Stages
<1>3. ASSUME NEW r \in Savers, OnlyAt(r), UNCHANGED jar PROVE WarmsOK'
  BY <1>1, <1>3 DEF WarmsOK, OnlyAt
<1>4. ASSUME NEW r \in Savers, Reply(r) PROVE TypeOK' /\ WarmsOK'
  <2>1. PICK answer \in Answered : Go(r, answer)
    BY <1>4 DEF Reply, Answered
  <2>2. OnlyAt(r)
    BY <1>1, <1>2, <2>1, Goes DEF Answered
  <2>3. chain' \in Seq(Marks)
    BY <1>4 DEF Reply, ChainOK, MarkRuns, TypeOK
  <2>4. QED BY <1>3, <1>4, <2>2, <2>3 DEF Reply, TypeOK, OnlyAt, files, profileVars
<1>5. ASSUME NEW c \in Creates, Refuse(c) PROVE TypeOK' /\ WarmsOK'
  <2>1. OnlyAt(c)
    BY <1>1, <1>2, <1>5, Goes DEF Refuse
  <2>2. QED BY <1>1, <1>3, <1>5, <2>1 DEF Refuse, TypeOK, OnlyAt, files, profileVars
<1>6. ASSUME NEW c \in Creates, CheckAbsent(c) PROVE TypeOK' /\ WarmsOK'
  <2>1. OnlyAt(c)
    BY <1>1, <1>2, <1>6, Goes DEF CheckAbsent
  <2>2. place' \in [Creates -> [workspace : Profiles \cup {None}, profile : Profiles \cup {None}]]
    <3>1. CASE Exists
      BY <1>6, <3>1 DEF CheckAbsent, TypeOK
    <3>2. CASE ~Exists
      <4>1. PICK w \in Profiles, p \in Profiles :
               place' = [place EXCEPT ![c] = [workspace |-> w, profile |-> p]]
        BY <1>6, <3>2 DEF CheckAbsent
      <4>2. QED BY <4>1 DEF TypeOK
    <3>3. QED BY <3>1, <3>2
  <2>3. hand' \in [Savers -> Records]
    <3>1. [by |-> c, marks |-> {}] \in Records
      BY DEF Records
    <3>2. hand' = hand \/ hand' = [hand EXCEPT ![c] = [by |-> c, marks |-> {}]]
      BY <1>6 DEF CheckAbsent
    <3>3. QED BY <3>1, <3>2 DEF TypeOK
  <2>4. QED BY <1>1, <1>3, <1>6, <2>1, <2>2, <2>3 DEF CheckAbsent, TypeOK, OnlyAt, files, profileVars
<1>7. ASSUME NEW c \in Creates, ReadPrefs(c) PROVE TypeOK' /\ WarmsOK'
  <2>1. OnlyAt(c) /\ at[c] = "checked"
    BY <1>1, <1>2, <1>7, Goes DEF ReadPrefs
  <2>2. place[c].profile \in Profiles
    BY <2>1 DEF PlacesOK, Admitted, Placed, Spots
  <2>3. seen' \in [Creates -> Preferences]
    BY <1>7, <2>2 DEF ReadPrefs, TypeOK
  <2>4. QED BY <1>1, <1>3, <1>7, <2>1, <2>3 DEF ReadPrefs, TypeOK, OnlyAt, files
<1>8. ASSUME NEW c \in Creates, TruncatePrefs(c) PROVE TypeOK' /\ WarmsOK'
  <2>1. OnlyAt(c)
    BY <1>1, <1>2, <1>8, Goes DEF TruncatePrefs
  <2>2. prefs' \in [Profiles -> Preferences]
    BY <1>8, RecordTypes DEF TruncatePrefs, TypeOK
  <2>3. QED BY <1>1, <1>3, <1>8, <2>1, <2>2 DEF TruncatePrefs, TypeOK, OnlyAt, files
<1>9. ASSUME NEW c \in Creates, WritePrefs(c) PROVE TypeOK' /\ WarmsOK'
  <2>1. OnlyAt(c)
    BY <1>1, <1>2, <1>9, Goes DEF WritePrefs
  <2>2. [off |-> TRUE, rest |-> seen[c].rest] \in Preferences
    BY DEF TypeOK, Preferences
  <2>3. prefs' \in [Profiles -> Preferences]
    BY <1>9, <2>2 DEF WritePrefs, TypeOK
  <2>4. QED BY <1>1, <1>3, <1>9, <2>1, <2>3 DEF WritePrefs, TypeOK, OnlyAt, files
<1>10. ASSUME NEW m \in Marks, Queue(m) PROVE TypeOK' /\ WarmsOK'
  <2>1. OnlyAt(m)
    BY <1>1, <1>2, <1>10, Goes DEF Queue
  <2>2. QED BY <1>1, <1>3, <1>10, <2>1 DEF Queue, TypeOK, OnlyAt, files, profileVars
<1>11. ASSUME NEW m \in Marks, LoadToMark(m) PROVE TypeOK' /\ WarmsOK'
  <2>1. OnlyAt(m)
    <3>1. \E step \in Stages : Go(m, step)
      BY <1>2, <1>11 DEF LoadToMark
    <3>2. QED BY <1>1, <3>1, Goes
  <2>2. hand' \in [Savers -> Records]
    <3>1. [Loaded EXCEPT !.marks = @ \cup {m}] \in Records
      BY LoadedType DEF Records
    <3>2. hand' = hand \/ hand' = [hand EXCEPT ![m] = [Loaded EXCEPT !.marks = @ \cup {m}]]
      BY <1>11 DEF LoadToMark
    <3>3. QED BY <3>1, <3>2 DEF TypeOK
  <2>3. QED BY <1>1, <1>3, <1>11, <2>1, <2>2 DEF LoadToMark, TypeOK, OnlyAt, files, profileVars
<1>12. ASSUME NEW v \in Warms, LoadToWarm(v) PROVE TypeOK' /\ WarmsOK'
  <2>1. CASE Readable
    <3>1. jar' = [jar EXCEPT ![v] = place[Loaded.by].workspace] /\ Go(v, "loaded")
      BY <1>12, <2>1 DEF LoadToWarm
    <3>2. place[Loaded.by].workspace \in Profiles
      BY <2>1, LoadedType DEF Spots, TypeOK, PlacesOK, Loaded, Readable, Exists, Placed
    <3>3. OnlyAt(v)
      BY <1>1, <1>2, <3>1, Goes
    <3>4. jar' \in [Warms -> Profiles \cup {None}] /\ jar'[v] \in Profiles /\ \A u \in Warms \ {v} : jar'[u] = jar[u]
      BY <3>1, <3>2 DEF TypeOK
    <3>5. QED BY <1>1, <1>12, <3>3, <3>4 DEF LoadToWarm, TypeOK, OnlyAt, files, profileVars, WarmsOK
  <2>2. CASE ~Readable
    <3>1. Go(v, IF Exists THEN "failed" ELSE "refused") /\ jar' = jar
      BY <1>12, <2>2 DEF LoadToWarm
    <3>2. OnlyAt(v) /\ at'[v] \in {"failed", "refused"}
      BY <1>1, <1>2, <3>1, Goes
    <3>3. QED BY <1>1, <1>12, <3>1, <3>2 DEF LoadToWarm, TypeOK, OnlyAt, files, profileVars, WarmsOK
  <2>3. QED BY <2>1, <2>2
<1>13. ASSUME NEW v \in Warms, AskForWorkspace(v) PROVE TypeOK' /\ WarmsOK'
  <2>1. OnlyAt(v)
    BY <1>1, <1>2, <1>13, Goes DEF AskForWorkspace
  <2>2. PICK p \in Profiles : jar' = [jar EXCEPT ![v] = p]
    BY <1>13 DEF AskForWorkspace
  <2>3. jar' \in [Warms -> Profiles \cup {None}] /\ jar'[v] \in Profiles /\ \A u \in Warms \ {v} : jar'[u] = jar[u]
    BY <2>2 DEF TypeOK
  <2>4. QED BY <1>1, <1>13, <2>1, <2>3 DEF AskForWorkspace, TypeOK, OnlyAt, files, profileVars, WarmsOK
<1>14. ASSUME NEW v \in Warms, Launch(v) \/ ProfileIsLocked(v) PROVE TypeOK' /\ WarmsOK'
  <2>1. PICK step \in {"done", "refused"} : Go(v, step)
    BY <1>14 DEF Launch, ProfileIsLocked
  <2>2. OnlyAt(v) /\ at'[v] \in {"done", "refused"}
    BY <1>1, <1>2, <2>1, Goes
  <2>3. jar' = [jar EXCEPT ![v] = None] /\ UNCHANGED <<files, hand, chain, place, prefs, seen>>
    BY <1>14 DEF Launch, ProfileIsLocked, ChromiumStarts, profileVars
  <2>4. jar' \in [Warms -> Profiles \cup {None}] /\ \A u \in Warms \ {v} : jar'[u] = jar[u]
    BY <2>3 DEF TypeOK
  <2>5. WarmsOK'
    BY <1>1, <2>2, <2>4 DEF WarmsOK, OnlyAt
  <2>6. memory' \in [Profiles -> Preferences] /\ running' \in SUBSET Profiles
    <3>1. CASE ProfileIsLocked(v)
      BY <3>1 DEF ProfileIsLocked, profileVars, TypeOK
    <3>2. CASE Launch(v)
      <4>1. jar[v] \in Profiles /\ running' = running \cup {jar[v]}
            /\ memory' = [memory EXCEPT ![jar[v]] = prefs[jar[v]]]
        BY <3>2 DEF Launch, ChromiumStarts, WarmsOK
      <4>2. QED BY <4>1 DEF TypeOK
    <3>3. QED BY <1>14, <3>1, <3>2
  <2>7. QED BY <1>1, <2>2, <2>3, <2>4, <2>5, <2>6 DEF TypeOK, OnlyAt, files
<1>15. ASSUME NEW p \in Profiles, ChromiumExits(p) PROVE TypeOK' /\ WarmsOK'
  <2>1. [memory[p] EXCEPT !.rest = TRUE] \in Preferences
    BY DEF TypeOK, Preferences
  <2>2. prefs' \in [Profiles -> Preferences] /\ memory' \in [Profiles -> Preferences] /\ running' \in SUBSET Profiles
    BY <1>15, <2>1, RecordTypes DEF ChromiumExits, TypeOK
  <2>3. QED BY <1>15, <2>2 DEF ChromiumExits, TypeOK, files, WarmsOK
<1>16. QED BY <1>4, <1>5, <1>6, <1>7, <1>8, <1>9, <1>10, <1>11, <1>12, <1>13, <1>14, <1>15 DEF Aside
(* The places of creates only get filled in. *)
LEMMA PlacesStay ==
    ASSUME Bystands, NEW c \in Creates, Placed(c)
    PROVE  Placed(c)'
<1>1. CASE place' = place
  BY <1>1 DEF Placed
<1>2. ASSUME NEW r \in Savers, (c = r /\ Admits(r)) \/ place'[c] = place[c] PROVE Placed(c)'
  BY <1>2 DEF Placed, Admits
<1>3. QED BY <1>1, <1>2 DEF Bystands, files

LEMMA HoldsStep ==
    ASSUME TypeOK, HoldsOK, Next
    PROVE  HoldsOK'
<1>1. /\ \A c \in Creates : c \in Savers /\ c \in Requests
      /\ \A m \in Marks : m \in Savers /\ m \in Requests
      /\ Creates \cap Marks = {}
      /\ \A r \in Savers : r \in Requests /\ r \notin Deletes /\ (r \in Creates \/ r \in Marks)
      /\ \A d \in Deletes : d \in Requests
      /\ None \notin Savers
  BY Kinds DEF Savers
<1>2. ASSUME NEW r \in Savers, OpenTmp(r) PROVE HoldsOK'
  <2>1. hand' = hand /\ at[r] = "ready" /\ OnlyAt(r) /\ fd'[r] \in Savers /\ \A q \in Savers \ {r} : fd'[q] = fd[q]
    BY <1>2, OpenTurn
  <2>2. \A q \in Savers \ {r} : at'[q] = at[q]
    BY <1>1, <2>1 DEF OnlyAt
  <2>3. at'[r] = "open"
    BY <1>2, OpenTurn
  <2>4. QED BY <1>1, <2>1, <2>2, <2>3 DEF HoldsOK, Admitted
<1>3. ASSUME NEW r \in Savers, WriteTmp(r) PROVE HoldsOK'
  <2>1. /\ OnlyAt(r) /\ at'[r] = "written" /\ \A q \in Savers \ {r} : fd'[q] = fd[q]
        /\ hand'[r] = Empty /\ \A q \in Savers \ {r} : hand'[q] = hand[q]
    BY <1>3, WriteTurn
  <2>2. QED BY <1>1, <2>1, RecordTypes DEF HoldsOK, Admitted, OnlyAt
<1>4. ASSUME NEW r \in Savers, Rename(r) PROVE HoldsOK'
  <2>1. OnlyAt(r) /\ at'[r] \in {"saved", "unsaved"} /\ UNCHANGED <<fd, hand>>
    BY <1>4, RenameTurn
  <2>2. QED BY <1>1, <2>1 DEF HoldsOK, Admitted, OnlyAt
<1>5. ASSUME NEW d \in Deletes, Delete(d) PROVE HoldsOK'
  <2>1. OnlyAt(d) /\ UNCHANGED <<fd, hand>>
    BY <1>5, DeleteTurn
  <2>2. QED BY <1>1, <2>1 DEF HoldsOK, Admitted, OnlyAt
<1>6. ASSUME Crash PROVE HoldsOK'
  <2>1. /\ \A r \in Requests : at'[r] \in Answered \cup {"idle"}
        /\ \A r \in Savers : hand'[r] = Empty
    BY <1>6, CrashTurn DEF Answered
  <2>2. QED BY <1>1, <2>1, RecordTypes DEF HoldsOK, Admitted, Answered
<1>7. ASSUME Aside PROVE HoldsOK'
  <2>1. Bystands /\ fd' = fd
    BY <1>7, AsideSavers DEF Bystands, files
  <2>2. CASE \A r \in Savers : Unmoved(r)
    BY <1>1, <2>1, <2>2 DEF HoldsOK, Admitted, Unmoved
  <2>3. ASSUME NEW r \in Savers, Moves(r), \A q \in Savers \ {r} : Unmoved(q) PROVE HoldsOK'
    <3>1. CASE Admits(r)
      <4>1. /\ r \in Creates /\ at'[r] = "checked" /\ hand'[r] = [by |-> r, marks |-> {}] /\ hand'[r].by = r
            /\ \A q \in Savers \ {r} : at'[q] = at[q] /\ hand'[q] = hand[q]
        BY <2>3, <3>1 DEF Admits, Unmoved
      <4>2. QED BY <1>1, <2>1, <4>1 DEF HoldsOK, Admitted
    <3>2. CASE Prepares(r)
      BY <1>1, <2>1, <2>3, <3>2 DEF HoldsOK, Admitted, Unmoved, Prepares
    <3>3. CASE Loads(r)
      BY <1>1, <2>1, <2>3, <3>3 DEF HoldsOK, Admitted, Unmoved, Loads, Readable
    <3>4. CASE Refuses(r) \/ Queues(r) \/ LoadsNone(r) \/ Replies(r)
      <4>1. /\ at'[r] \in {"refused", "queued", "missing", "unreadable", "done", "failed"} /\ hand'[r] = hand[r]
            /\ (r \in Creates => at'[r] \in {"refused", "done", "failed"})
            /\ \A q \in Savers \ {r} : at'[q] = at[q] /\ hand'[q] = hand[q]
        BY <1>1, <2>3, <3>4 DEF Refuses, Queues, LoadsNone, Replies, Answered, Unmoved
      <4>2. QED BY <1>1, <2>1, <4>1 DEF HoldsOK, Admitted
    <3>5. QED BY <2>3, <3>1, <3>2, <3>3, <3>4 DEF Moves
  <2>4. QED BY <2>1, <2>2, <2>3 DEF Bystands, files
<1>8. QED BY <1>2, <1>3, <1>4, <1>5, <1>6, <1>7, Steps

LEMMA PlacesStep ==
    ASSUME TypeOK, HoldsOK, PlacesOK, Next
    PROVE  PlacesOK'
<1>1. /\ \A c \in Creates : c \in Savers /\ c \in Requests
      /\ \A r \in Savers : r \in Requests /\ r \notin Deletes
      /\ \A d \in Deletes : d \in Requests
      /\ Creates \cap Marks = {} /\ None \notin Savers
      /\ \A r \in Savers : text[r] \in Records /\ hand[r] \in Records
      /\ \A t \in Records : t.by \in Creates \cup {None}
  BY Kinds DEF TypeOK, Records
<1>3. ASSUME NEW r \in Savers, OpenTmp(r) PROVE PlacesOK'
  <2>1. /\ hand' = hand /\ place' = place /\ at[r] = "ready" /\ OnlyAt(r)
        /\ \A f \in Savers : text'[f] = Empty \/ text'[f] = text[f]
    BY <1>3, OpenTurn
  <2>2. QED BY <1>1, <2>1, RecordTypes DEF PlacesOK, Placed, Admitted, OnlyAt
<1>4. ASSUME NEW r \in Savers, WriteTmp(r) PROVE PlacesOK'
  <2>1. /\ OnlyAt(r) /\ at[r] = "open" /\ place' = place
        /\ \A f \in Savers : text'[f] = text[f] \/ text'[f] = hand[r] \/ text'[f] = Garbled
        /\ \A f \in Savers : hand'[f] = Empty \/ hand'[f] = hand[f]
    BY <1>4, WriteTurn
  <2>2. QED BY <1>1, <2>1, RecordTypes DEF PlacesOK, Placed, Admitted, OnlyAt
<1>5. ASSUME NEW r \in Savers, Rename(r) PROVE PlacesOK'
  <2>1. /\ OnlyAt(r) /\ at[r] = "written" /\ place' = place /\ hand' = hand
        /\ \A f \in Savers : text'[f] = Empty \/ text'[f] = text[f]
    BY <1>5, RenameTurn
  <2>2. QED BY <1>1, <2>1, RecordTypes DEF PlacesOK, Placed, Admitted, OnlyAt
<1>6. ASSUME NEW d \in Deletes, Delete(d) PROVE PlacesOK'
  <2>1. /\ OnlyAt(d) /\ place' = place /\ hand' = hand
        /\ \A f \in Savers : text'[f] = Empty \/ text'[f] = text[f]
    BY <1>6, DeleteTurn
  <2>2. QED BY <1>1, <2>1, RecordTypes DEF PlacesOK, Placed, Admitted, OnlyAt
<1>7. ASSUME Crash PROVE PlacesOK'
  <2>1. /\ \A r \in Requests : at'[r] \in {"failed", "refused", "idle"} \/ at'[r] = at[r]
        /\ \A r \in Savers : hand'[r] = Empty
        /\ UNCHANGED <<text, place>>
    BY <1>7, CrashTurn DEF Answered
  <2>2. QED BY <1>1, <2>1, RecordTypes DEF PlacesOK, Placed, Admitted
<1>8. ASSUME Aside PROVE PlacesOK'
  <2>1. Bystands /\ text' = text
    BY <1>8, AsideSavers DEF Bystands, files
  <2>2. \A c \in Creates : place[c] \in Spots => place'[c] \in Spots
    BY <2>1, PlacesStay DEF Placed
  <2>3. \A f \in Savers : text'[f].by # None => place'[text'[f].by] \in Spots
    BY <1>1, <2>1, <2>2 DEF PlacesOK, Placed
  <2>4. ASSUME NEW r \in Savers, Unmoved(r)
        PROVE  /\ hand'[r].by # None => place'[hand'[r].by] \in Spots
               /\ r \in Creates /\ (Admitted(r)' \/ at'[r] \in {"written", "saved", "unsaved", "done"}) => place'[r] \in Spots
    BY <1>1, <2>2, <2>4 DEF PlacesOK, Placed, Unmoved, Admitted
  <2>5. ASSUME NEW r \in Savers, Moves(r)
        PROVE  /\ hand'[r].by # None => place'[hand'[r].by] \in Spots
               /\ r \in Creates /\ (Admitted(r)' \/ at'[r] \in {"written", "saved", "unsaved", "done"}) => place'[r] \in Spots
    <3>1. CASE Admits(r)
      BY <3>1 DEF Admits, Placed
    <3>2. CASE Loads(r)
      <4>1. Loaded.by # None /\ Loaded.by \in Creates /\ place[Loaded.by] \in Spots
        BY <1>1, <3>2, LoadedType DEF Loads, Readable, Exists, Loaded, PlacesOK, Placed, TypeOK
      <4>2. QED BY <1>1, <2>2, <3>2, <4>1 DEF Loads
    <3>3. CASE Prepares(r) \/ Refuses(r) \/ Queues(r) \/ LoadsNone(r) \/ Replies(r)
      <4>1. hand'[r] = hand[r]
        BY <3>3 DEF Prepares, Refuses, Queues, LoadsNone, Replies
      <4>2. hand'[r].by # None => place'[hand'[r].by] \in Spots
        BY <1>1, <2>2, <4>1 DEF PlacesOK, Placed
      <4>3. \/ Admitted(r) \/ at[r] \in {"saved", "unsaved", "missing", "unreadable"}
            \/ at'[r] \in {"refused", "queued", "missing", "unreadable"}
        BY <3>3 DEF Prepares, Refuses, Queues, LoadsNone, Replies, Admitted
      <4>4. at[r] \in {"missing", "unreadable"} => Replies(r)
        BY <3>3 DEF Prepares, Refuses, Queues, LoadsNone
      <4>5. QED BY <1>1, <2>2, <2>5, <4>2, <4>3, <4>4 DEF PlacesOK, Placed, Admitted, HoldsOK
    <3>4. QED BY <2>5, <3>1, <3>2, <3>3 DEF Moves
  <2>6. \A r \in Savers : Unmoved(r) \/ Moves(r)
    BY <2>1 DEF Bystands, files
  <2>7. QED BY <1>1, <2>3, <2>4, <2>5, <2>6 DEF PlacesOK, Placed
<1>9. QED BY <1>3, <1>4, <1>5, <1>6, <1>7, <1>8, Steps
LEMMA ChainStep ==
    ASSUME TypeOK, ChainOK, Next
    PROVE  ChainOK'
<1>1. /\ \A m \in Marks : m \in Savers /\ m \in Requests /\ m \notin Deletes
      /\ \A r \in Savers : r \in Requests /\ r \notin Deletes
      /\ \A d \in Deletes : d \in Requests
  BY Kinds
<1>2. ASSUME NEW r \in Savers, OpenTmp(r) \/ WriteTmp(r) \/ Rename(r) PROVE ChainOK'
  <2>1. OnlyAt(r) /\ chain' = chain /\ at[r] \in {"ready", "open", "written"}
    <3>1. CASE OpenTmp(r)
      BY <3>1, OpenTurn
    <3>2. CASE WriteTmp(r)
      <4>1. OnlyAt(r)
        BY <1>1, <3>2, Goes DEF WriteTmp, Stages
      <4>2. QED BY <3>2, <4>1 DEF WriteTmp
    <3>3. CASE Rename(r)
      BY <3>3, RenameTurn
    <3>4. QED BY <1>2, <3>1, <3>2, <3>3
  <2>2. QED BY <1>1, <2>1 DEF ChainOK, MarkRuns, OnlyAt
<1>3. ASSUME NEW d \in Deletes, Delete(d) PROVE ChainOK'
  <2>1. OnlyAt(d) /\ chain' = chain
    BY <1>3, DeleteTurn
  <2>2. QED BY <1>1, <2>1 DEF ChainOK, MarkRuns, OnlyAt
<1>4. ASSUME Crash PROVE ChainOK'
  <2>1. \A r \in Requests : at'[r] \in {"done", "refused", "failed", "idle"}
    BY <1>4, CrashTurn DEF Answered
  <2>2. QED BY <1>1, <2>1 DEF ChainOK, MarkRuns
<1>5. ASSUME Aside PROVE ChainOK'
  <2>1. Bystands
    BY <1>5, AsideSavers
  <2>2. CASE (\A r \in Savers : Unmoved(r)) /\ chain' = chain
    BY <1>1, <2>2 DEF ChainOK, MarkRuns, Unmoved
  <2>3. ASSUME NEW r \in Savers, Moves(r), \A q \in Savers \ {r} : at'[q] = at[q],
               Queues(r) \/ Replies(r) \/ chain' = chain
        PROVE  ChainOK'
    <3>1. CASE Queues(r)
      <4>1. chain \in Seq(Marks) /\ r \in Marks /\ chain' = Append(chain, r) /\ at'[r] = "queued"
        BY <3>1 DEF TypeOK, Queues
      <4>2. chain # <<>> => chain' # <<>> /\ Head(chain') = Head(chain)
        BY <4>1
      <4>3. QED BY <1>1, <2>3, <4>1, <4>2 DEF ChainOK, MarkRuns
    <3>2. CASE Replies(r) /\ r \in Marks
      <4>1. MarkRuns(r) /\ ~MarkRuns(r)'
        BY <3>2 DEF Replies, MarkRuns, Answered
      <4>2. QED BY <1>1, <2>3, <3>2, <4>1 DEF ChainOK, MarkRuns
    <3>3. CASE Replies(r) /\ r \notin Marks
      BY <1>1, <2>3, <3>3 DEF ChainOK, MarkRuns, Replies
    <3>4. CASE Loads(r) \/ LoadsNone(r)
      <4>1. r \in Marks /\ Turn(r) /\ at[r] = "queued"
        BY <3>4 DEF Loads, LoadsNone
      <4>2. chain' = chain
        BY <2>3, <4>1 DEF Queues, Replies
      <4>3. QED BY <1>1, <2>3, <4>1, <4>2 DEF ChainOK, MarkRuns, Turn
    <3>5. CASE Admits(r) \/ Prepares(r) \/ Refuses(r)
      <4>1. r \notin Marks
        BY <3>5, Kinds DEF Admits, Prepares, Refuses
      <4>2. chain' = chain
        BY <2>3, <3>3, <4>1, <3>5 DEF Admits, Prepares, Refuses, Queues, Replies
      <4>3. QED BY <1>1, <2>3, <4>1, <4>2 DEF ChainOK, MarkRuns
    <3>6. QED BY <2>3, <3>1, <3>2, <3>3, <3>4, <3>5 DEF Moves
  <2>4. QED BY <2>1, <2>2, <2>3 DEF Bystands, Unmoved
<1>6. QED BY <1>2, <1>3, <1>4, <1>5, Steps

(* Two saves under way are never two mark-warm calls. *)
LEMMA RivalsStep ==
    ASSUME ChainOK', Remember
    PROVE  RivalsOK'
<1>1. \A r, s \in Savers : r # s /\ at'[r] = "open" /\ at'[s] \in {"open", "written"} => {r, s} \cap Creates # {}
  BY DEF ChainOK, MarkRuns, Savers
<1>2. QED BY <1>1, Remembered DEF RivalsOK, Rivals

-----------------------------------------------------------------------------
Base == TypeOK /\ HoldsOK /\ WarmsOK /\ PlacesOK /\ ChainOK /\ RivalsOK

LEMMA BaseInit == Init => Base
<1> SUFFICES ASSUME Init PROVE Base
  OBVIOUS
<1>1. TypeOK
  BY Kinds, RecordTypes DEF Init, TypeOK, Stages
<1>2. \A r \in Requests : at[r] = "idle"
  BY DEF Init
<1>3. \A r \in Savers : text[r] = Empty /\ hand[r] = Empty
  BY DEF Init
<1>4. HoldsOK /\ WarmsOK /\ PlacesOK /\ ChainOK /\ RivalsOK
  BY <1>2, <1>3, Kinds, RecordTypes
     DEF HoldsOK, WarmsOK, PlacesOK, ChainOK, RivalsOK, Admitted, MarkRuns
<1>5. QED BY <1>1, <1>4 DEF Base

LEMMA BaseStep == Base /\ [Next]_vars => Base'
<1> SUFFICES ASSUME Base, [Next]_vars PROVE Base'
  OBVIOUS
<1>1. CASE UNCHANGED vars
  BY <1>1 DEF vars, files, profileVars, history, Base, TypeOK, HoldsOK, WarmsOK, PlacesOK, Placed, ChainOK,
     RivalsOK, Admitted, MarkRuns
<1>2. CASE Next
  <2>1. HoldsOK' /\ PlacesOK' /\ ChainOK'
    BY <1>2, HoldsStep, PlacesStep, ChainStep DEF Base
  <2>2. RivalsOK'
    BY <1>2, <2>1, Steps, RivalsStep
  <2>3. TypeOK' /\ WarmsOK'
    <3>1. /\ \A r \in Savers : r \in Requests /\ r \notin Warms
          /\ \A d \in Deletes : d \in Requests /\ d \notin Warms
          /\ \A v \in Warms : v \in Requests
      BY Kinds, IdentitiesAssumption DEF IdentitiesAssumption
    <3>2. ASSUME NEW r \in Requests \ Warms, OnlyAt(r), jar' = jar PROVE WarmsOK'
      BY <3>1, <3>2 DEF Base, WarmsOK, OnlyAt
    <3>3. ASSUME NEW r \in Savers, OpenTmp(r) PROVE TypeOK' /\ WarmsOK'
      <4>1. /\ OnlyAt(r) /\ fd' \in [Savers -> Savers \cup {None}]
            /\ names' \in [{"file", "tmp"} -> Savers \cup {None}] /\ text' \in [Savers -> Records]
            /\ seen' \in [Creates -> Preferences]
            /\ UNCHANGED <<hand, chain, place, prefs, memory, running, jar>>
        BY <3>3, OpenTurn DEF Base
      <4>2. QED BY <3>1, <3>2, <4>1 DEF Base, TypeOK, OnlyAt
    <3>4. ASSUME NEW r \in Savers, WriteTmp(r) PROVE TypeOK' /\ WarmsOK'
      <4>1. /\ OnlyAt(r) /\ fd' \in [Savers -> Savers \cup {None}] /\ text' \in [Savers -> Records]
            /\ hand' \in [Savers -> Records] /\ UNCHANGED <<names, chain, place, profileVars, jar>>
        BY <3>4, WriteTurn DEF Base
      <4>2. QED BY <3>1, <3>2, <4>1 DEF Base, TypeOK, OnlyAt, profileVars
    <3>5. ASSUME NEW r \in Savers, Rename(r) PROVE TypeOK' /\ WarmsOK'
      <4>1. /\ OnlyAt(r) /\ names' \in [{"file", "tmp"} -> Savers \cup {None}]
            /\ text' \in [Savers -> Records] /\ UNCHANGED <<fd, hand, chain, place, profileVars, jar>>
        BY <3>5, RenameTurn DEF Base
      <4>2. QED BY <3>1, <3>2, <4>1 DEF Base, TypeOK, OnlyAt, profileVars
    <3>6. ASSUME NEW d \in Deletes, Delete(d) PROVE TypeOK' /\ WarmsOK'
      <4>1. /\ OnlyAt(d) /\ names' \in [{"file", "tmp"} -> Savers \cup {None}]
            /\ text' \in [Savers -> Records] /\ UNCHANGED <<fd, hand, chain, place, profileVars, jar>>
        BY <3>6, DeleteTurn DEF Base
      <4>2. QED BY <3>1, <3>2, <4>1 DEF Base, TypeOK, OnlyAt, profileVars
    <3>7. ASSUME Crash PROVE TypeOK' /\ WarmsOK'
      <4>1. /\ at' \in [Requests -> Stages] /\ chain' = <<>>
            /\ \A r \in Requests : at'[r] \in {"done", "refused", "failed", "idle"}
            /\ fd' = [r \in Savers |-> None] /\ hand' = [r \in Savers |-> Empty]
            /\ seen' = [c \in Creates |-> NoPrefs] /\ jar' = [v \in Warms |-> None]
            /\ UNCHANGED <<names, text, place, prefs, memory, running>>
        BY <3>7, CrashTurn DEF Base, Answered
      <4>2. TypeOK'
        BY <4>1, RecordTypes DEF Base, TypeOK
      <4>3. QED BY <3>1, <4>1, <4>2 DEF WarmsOK
    <3>8. QED BY <1>2, <3>3, <3>4, <3>5, <3>6, <3>7, Steps, MovesType DEF Base
  <2>4. QED BY <2>1, <2>2, <2>3 DEF Base
<1>3. QED BY <1>1, <1>2
-----------------------------------------------------------------------------
(***************************************************************************)
(* The files.                                                              *)
(***************************************************************************)
LEMMA BystandsAt ==
    ASSUME Bystands, NEW r \in Savers
    PROVE  /\ Early(r)' => Early(r)
           /\ at[r] \in {"open", "written"} \/ at'[r] \in {"open", "written"} => Unmoved(r)
<1>1. Moves(r) => at[r] \notin {"open", "written"} /\ at'[r] \notin {"open", "written"} /\ (Early(r)' => Early(r))
  BY DEF Moves, Admits, Prepares, Refuses, Queues, Loads, LoadsNone, Replies, Early, Answered
<1>2. Unmoved(r) => (Early(r)' => Early(r))
  BY DEF Unmoved, Early
<1>3. QED BY <1>1, <1>2 DEF Bystands

LEMMA NamesType == TypeOK => File \in Savers \cup {None} /\ Tmp \in Savers \cup {None}
BY DEF TypeOK, File, Tmp

LEMMA FilesStep ==
    ASSUME Base, Base', FilesOK, Next
    PROVE  FilesOK'
<1>1. /\ \A r \in Savers : r \in Requests /\ r \notin Deletes /\ (r \in Creates \/ r \in Marks)
      /\ \A d \in Deletes : d \in Requests
      /\ None \notin Savers
  BY Kinds DEF Savers
<1>2. File \in Savers \cup {None} /\ Tmp \in Savers \cup {None} /\ rivals \subseteq rivals'
  BY NamesType, Steps, Remembered DEF Base
<1>3. \A r, s \in Savers : r # s /\ at'[r] = "open" /\ at'[s] \in {"open", "written"} => fd'[r] \in rivals'
  BY DEF Base, RivalsOK
<1>4. ASSUME NEW r \in Savers, OpenTmp(r) PROVE FilesOK'
  <2> DEFINE f == fd'[r]
  <2>1. /\ at[r] = "ready" /\ at'[r] = "open" /\ \A q \in Savers \ {r} : at'[q] = at[q] /\ fd'[q] = fd[q]
        /\ f = (IF Tmp = None THEN r ELSE Tmp) /\ f \in Savers /\ Tmp' = f /\ File' = File
        /\ text'[f] = Empty /\ \A g \in Savers \ {f} : text'[g] = text[g]
    BY <1>1, <1>4, OpenTurn DEF Base, OnlyAt
  <2>2. r # File /\ r # Tmp /\ \A s \in Savers : fd[s] # r
    BY <2>1 DEF FilesOK, Early
  <2> HIDE DEF f
  <2>3. f # File
    BY <2>1, <2>2 DEF FilesOK
  <2>4. \A q \in Savers : Early(q)' => q # File' /\ q # Tmp' /\ \A s \in Savers : fd'[s] # q
    <3>1. ASSUME NEW q \in Savers, Early(q)' PROVE q # r /\ Early(q)
      BY <2>1, <3>1 DEF Early
    <3>2. QED BY <2>1, <3>1 DEF FilesOK, f
  <2>5. \A q \in Savers : at'[q] = "open" =>
           (text'[fd'[q]] # Empty => fd'[q] \in rivals') /\ (Tmp' \notin {None, fd'[q]} => Tmp' \in rivals')
    <3>1. ASSUME NEW q \in Savers \ {r}, at[q] = "open"
          PROVE  (text'[fd[q]] # Empty => fd[q] \in rivals') /\ f \in rivals'
      <4>1. fd[q] \in Savers
        BY <3>1 DEF Base, HoldsOK
      <4>2. f \in rivals'
        BY <1>3, <2>1, <3>1 DEF f
      <4>3. QED BY <1>2, <2>1, <3>1, <4>1, <4>2 DEF FilesOK
    <3>2. QED BY <2>1, <3>1 DEF f
  <2>6. Written' => Tmp' \in rivals'
    BY <1>3, <2>1 DEF Written, f
  <2>7. File' # None => text'[File'].by # None \/ File' \in rivals'
    BY <1>2, <2>1, <2>3 DEF FilesOK
  <2>8. QED BY <2>1, <2>3, <2>4, <2>5, <2>6, <2>7 DEF FilesOK
<1>5. ASSUME NEW r \in Savers, WriteTmp(r) PROVE FilesOK'
  <2> DEFINE g == fd[r]
  <2>1. /\ at[r] = "open" /\ at'[r] = "written" /\ fd'[r] = None
        /\ \A q \in Savers \ {r} : at'[q] = at[q] /\ fd'[q] = fd[q]
        /\ g \in Savers
        /\ text'[g] = hand[r] \/ (text'[g] = Garbled /\ text[g] # Empty)
        /\ \A f \in Savers \ {g} : text'[f] = text[f]
        /\ Tmp' = Tmp /\ File' = File
    BY <1>1, <1>5, WriteTurn DEF Base, OnlyAt, Tmp, File
  <2>2. /\ text[g] # Empty => g \in rivals
        /\ Tmp \notin {None, g} => Tmp \in rivals
    BY <2>1 DEF FilesOK
  <2>3. hand[r].by # None
    <3>1. CASE r \in Creates
      <4>1. hand[r] = [by |-> r, marks |-> {}]
        BY <2>1, <3>1 DEF Base, HoldsOK, Admitted
      <4>2. QED BY <1>1, <4>1
    <3>2. CASE r \in Marks
      BY <2>1, <3>2 DEF Base, HoldsOK
    <3>3. QED BY <1>1, <3>1, <3>2
  <2> HIDE DEF g
  <2>4. \A f \in Savers : text'[f].by # None \/ f \in rivals' \/ (f # g /\ text'[f] = text[f])
    BY <1>2, <2>1, <2>2, <2>3
  <2>5. \A q \in Savers : Early(q)' => Early(q)
    BY <2>1 DEF Early
  <2>6. \A q \in Savers : Early(q)' => q # File' /\ q # Tmp' /\ \A s \in Savers : fd'[s] # q
    BY <1>1, <2>1, <2>5 DEF FilesOK
  <2>7. ASSUME NEW q \in Savers, at'[q] = "open"
        PROVE  (text'[fd'[q]] # Empty => fd'[q] \in rivals') /\ (Tmp' \notin {None, fd'[q]} => Tmp' \in rivals')
    <3>1. q # r /\ at[q] = "open" /\ fd'[q] = fd[q]
      BY <2>1, <2>7
    <3>2. fd[q] \in rivals
      BY <2>1, <3>1 DEF Base, RivalsOK
    <3>3. QED BY <1>2, <2>1, <3>1, <3>2 DEF FilesOK
  <2>8. Tmp' # None => text'[Tmp'].by # None \/ Tmp' \in rivals'
    BY <1>2, <2>1, <2>2, <2>4
  <2>9. File' # None => text'[File'].by # None \/ File' \in rivals'
    BY <1>2, <2>1, <2>4 DEF FilesOK
  <2>10. Tmp' # None => Tmp' # File'
    BY <2>1 DEF FilesOK
  <2>11. QED BY <2>6, <2>7, <2>8, <2>9, <2>10 DEF FilesOK
<1>6. ASSUME NEW r \in Savers, Rename(r) PROVE FilesOK'
  <2>1. /\ at[r] = "written" /\ at'[r] \in {"saved", "unsaved"} /\ fd' = fd
        /\ \A q \in Savers \ {r} : at'[q] = at[q]
        /\ \/ Tmp = None /\ names' = names /\ text' = text
           \/ /\ Tmp # None /\ File' = Tmp /\ Tmp' = None
              /\ \A f \in Savers : text'[f] = IF f = File THEN Empty ELSE text[f]
    BY <1>1, <1>6, RenameTurn DEF Base, OnlyAt
  <2>2. \A q \in Savers : (Early(q)' => Early(q)) /\ (at'[q] = "open" => at[q] = "open" /\ fd[q] \in Savers)
    BY <2>1 DEF Early, Base, HoldsOK
  <2>3. CASE Tmp = None
    <3>1. Tmp' = Tmp /\ File' = File /\ text' = text
      BY <2>1, <2>3 DEF Tmp, File
    <3>2. QED BY <1>2, <2>1, <2>2, <2>3, <3>1 DEF FilesOK
  <2>4. CASE Tmp # None
    <3>1. /\ File' = Tmp /\ Tmp' = None /\ text'[Tmp] = text[Tmp]
          /\ \A f \in Savers : text'[f] = Empty \/ text'[f] = text[f]
      BY <1>2, <2>1, <2>4 DEF FilesOK
    <3>2. text[Tmp].by # None \/ Tmp \in rivals
      BY <2>1, <2>4 DEF FilesOK, Written
    <3>3. \A q \in Savers : Early(q)' => q # File' /\ q # Tmp' /\ \A s \in Savers : fd'[s] # q
      BY <1>1, <2>1, <2>2, <3>1 DEF FilesOK
    <3>4. QED BY <1>2, <2>1, <2>2, <3>1, <3>2, <3>3 DEF FilesOK
  <2>5. QED BY <2>3, <2>4
<1>7. ASSUME NEW d \in Deletes, Delete(d) PROVE FilesOK'
  <2>1. /\ fd' = fd /\ \A q \in Savers : at'[q] = at[q]
        /\ File' = None /\ Tmp' = Tmp
        /\ \A f \in Savers : text'[f] = IF f = File THEN Empty ELSE text[f]
    BY <1>1, <1>7, DeleteTurn DEF Base, OnlyAt
  <2>2. \A q \in Savers : (Early(q)' => Early(q)) /\ (at'[q] = "open" => at[q] = "open" /\ fd[q] \in Savers)
    BY <2>1 DEF Early, Base, HoldsOK
  <2>3. Written' => Written
    BY <2>1 DEF Written
  <2>4. Tmp # None => text'[Tmp] = text[Tmp]
    BY <1>2, <2>1 DEF FilesOK
  <2>5. \A q \in Savers : Early(q)' => q # File' /\ q # Tmp' /\ \A s \in Savers : fd'[s] # q
    BY <1>1, <2>1, <2>2 DEF FilesOK
  <2>6. QED BY <1>2, <2>1, <2>2, <2>3, <2>4, <2>5 DEF FilesOK
<1>8. ASSUME Crash PROVE FilesOK'
  <2>1. /\ \A q \in Savers : at'[q] \in {"done", "refused", "failed"} \/ (at'[q] = "idle" /\ at[q] = "idle")
        /\ \A q \in Savers : fd'[q] = None
        /\ Tmp' = Tmp /\ File' = File /\ text' = text
    BY <1>1, <1>8, CrashTurn DEF Base, Answered, Tmp, File
  <2>2. QED BY <1>1, <1>2, <2>1 DEF FilesOK, Early, Written
<1>9. ASSUME Aside PROVE FilesOK'
  <2>1. Tmp' = Tmp /\ File' = File /\ text' = text /\ fd' = fd /\ Bystands
    BY <1>9, AsideSavers DEF Bystands, Base, files, Tmp, File
  <2>2. \A q \in Savers : (Early(q)' => Early(q)) /\ (at'[q] \in {"open", "written"} => at[q] = at'[q])
    BY <2>1, BystandsAt DEF Unmoved
  <2>3. QED BY <1>2, <2>1, <2>2 DEF FilesOK, Written
<1>10. QED BY <1>4, <1>5, <1>6, <1>7, <1>8, <1>9, Steps
-----------------------------------------------------------------------------
(***************************************************************************)
(* The marks.                                                              *)
(***************************************************************************)
LEMMA LoadedIs ==
    /\ File # None => Loaded = text[File]
    /\ File = None => Loaded = Empty /\ Loaded.by = None /\ Loaded.marks = {}
BY RecordTypes DEF Loaded, Exists, File

(* The lock lets one mark-warm run at a time. *)
LEMMA OneMark ==
    ASSUME Base, NEW m \in Marks, NEW n \in Marks, MarkRuns(m), MarkRuns(n)
    PROVE  m = n
BY DEF Base, ChainOK

(* What a save is about to write. *)
LEMMA HandIs ==
    ASSUME Base, NEW r \in Savers, at[r] = "open"
    PROVE  /\ hand[r].by # None
           /\ r \in Creates => hand[r].by = r /\ hand[r].marks = {}
           /\ r \in Marks => r \in hand[r].marks
<1>1. CASE r \in Creates
  <2>1. hand[r] = [by |-> r, marks |-> {}]
    BY <1>1 DEF Base, HoldsOK, Admitted
  <2>2. r # None /\ r \notin Marks
    BY <1>1, Kinds
  <2>3. QED BY <2>1, <2>2
<1>2. CASE r \in Marks
  <2>1. hand[r].by # None /\ r \in hand[r].marks
    BY <1>2 DEF Base, HoldsOK
  <2>2. r \notin Creates
    BY <1>2, Kinds
  <2>3. QED BY <2>1, <2>2
<1>3. QED BY <1>1, <1>2 DEF Savers

LEMMA MarksStep ==
    ASSUME Base, Base', FilesOK, MarksOK, Next
    PROVE  MarksOK'
<1>1. /\ \A r \in Savers : r \in Requests /\ r \notin Deletes /\ (r \in Creates \/ r \in Marks)
      /\ \A c \in Creates : c \in Savers /\ c \notin Marks
      /\ \A m \in Marks : m \in Savers
      /\ \A d \in Deletes : d \in Requests
      /\ None \notin Savers
  BY Kinds DEF Savers
<1>2. File \in Savers \cup {None} /\ Tmp \in Savers \cup {None}
  BY NamesType DEF Base
<1>3. \A m, n \in Marks : MarkRuns(m) /\ MarkRuns(n) => m = n
  BY OneMark
<1>4. Tmp # None => Tmp # File
  BY DEF FilesOK
<1>5. /\ \A m \in Marks : at[m] \in {"ready", "open"} => hand[m].by # None
      /\ \A c \in Creates : c # None
  BY <1>1 DEF Base, HoldsOK
<1>6. ASSUME NEW r \in Savers, OpenTmp(r) PROVE MarksOK'
  <2> DEFINE f == fd'[r]
  <2>1. /\ at[r] = "ready" /\ at'[r] = "open" /\ hand' = hand
        /\ \A q \in Savers \ {r} : at'[q] = at[q]
        /\ f = (IF Tmp = None THEN r ELSE Tmp) /\ f \in Savers /\ Tmp' = f /\ File' = File
        /\ text'[f] = Empty /\ \A g \in Savers \ {f} : text'[g] = text[g]
    BY <1>1, <1>6, OpenTurn DEF Base, OnlyAt
  <2> HIDE DEF f
  <2>2. f # File
    BY <1>4, <2>1 DEF FilesOK, Early
  <2>3. Loaded' = Loaded
    BY <1>2, <2>1, <2>2, LoadedIs DEF Loaded, Exists, File
  <2>4. /\ text'[f].by = None
        /\ \A g \in Savers : text'[g].by \in {None, text[g].by}
    BY <2>1, RecordTypes
  <2>5. \A q \in Savers : /\ Early(q)' \/ at'[q] = "open" => Early(q) \/ at[q] = "open"
                          /\ at'[q] \in {"ready", "open"} => at[q] \in {"ready", "open"}
    BY <2>1 DEF Early
  <2>6. QED BY <1>1, <1>5, <2>1, <2>3, <2>4, <2>5 DEF MarksOK
<1>7. ASSUME NEW r \in Savers, WriteTmp(r) PROVE MarksOK'
  <2> DEFINE g == fd[r]
  <2>1. /\ at[r] = "open" /\ at'[r] = "written"
        /\ \A q \in Savers \ {r} : at'[q] = at[q]
        /\ g \in Savers
        /\ text'[g] = hand[r] \/ text'[g] = Garbled
        /\ \A f \in Savers \ {g} : text'[f] = text[f]
        /\ hand'[r] = Empty /\ \A q \in Savers \ {r} : hand'[q] = hand[q]
        /\ Tmp' = Tmp /\ File' = File
    BY <1>1, <1>7, WriteTurn DEF Base, OnlyAt, Tmp, File
  <2> HIDE DEF g
  <2>2. /\ hand[r].by # None
        /\ r \in Creates => hand[r].by = r /\ hand[r].marks = {}
        /\ r \in Marks => r \in hand[r].marks
    BY <2>1, HandIs
  <2>3. /\ \A f \in Savers : text'[f] = text[f] \/ (f = g /\ text'[f] = hand[r]) \/ (f = g /\ text'[f].by = None)
        /\ \A m \in Marks : hand'[m].by \in {None, hand[m].by}
    BY <1>1, <2>1, RecordTypes
  <2>4. File # None => Loaded' = text'[File]
    BY <2>1, LoadedIs DEF Loaded, Exists, File
  <2>5. File # None /\ File # g => Loaded' = Loaded
    BY <1>2, <2>1, <2>4, LoadedIs
  <2>6. File = None => Loaded' = Loaded /\ Loaded.by = None
    BY <2>1, LoadedIs DEF Loaded, Exists, File
  <2>7. \A c \in Creates : Early(c)' \/ at'[c] = "open" => c # r /\ (Early(c) \/ at[c] = "open")
    BY <1>1, <2>1 DEF Early
  <2>8. \A c \in Creates : Early(c)' \/ at'[c] = "open" =>
          /\ \A f \in Savers : text'[f].by # c
          /\ \A m \in Marks : hand'[m].by # c
    BY <1>1, <1>5, <2>2, <2>3, <2>7 DEF MarksOK
  <2>9. r \in Creates => /\ \A f \in Savers : text[f].by # r
                         /\ \A m \in Marks : hand[m].by # r
    BY <2>1 DEF MarksOK
  <2>10. ASSUME Tmp # None, text'[Tmp].by # None, text'[Tmp].marks = {}
         PROVE  /\ File # None => text'[File].by # text'[Tmp].by
                /\ \A m \in Marks : hand'[m].by # text'[Tmp].by
    <3>1. CASE Tmp = g
      <4>1. text'[Tmp] = hand[r] /\ r \in Creates /\ File # g
        BY <1>1, <1>4, <2>1, <2>2, <2>3, <2>10, <3>1, RecordTypes
      <4>2. QED BY <1>1, <1>2, <2>2, <2>3, <2>9, <4>1
    <3>2. CASE Tmp # g
      <4>1. text'[Tmp] = text[Tmp]
        BY <1>2, <2>1, <2>10, <3>2
      <4>2. hand[r].by # text[Tmp].by
        BY <1>1, <1>2, <2>2, <2>9, <2>10, <4>1 DEF MarksOK
      <4>3. /\ File # None => text[File].by # text[Tmp].by
            /\ \A m \in Marks : hand[m].by # text[Tmp].by
        BY <2>10, <4>1 DEF MarksOK
      <4>4. QED BY <1>2, <2>3, <2>10, <4>1, <4>2, <4>3
    <3>3. QED BY <3>1, <3>2
  <2>11. ASSUME Tmp # None, text'[Tmp].by # None, text'[Tmp].marks # {}
         PROVE  \E m \in Marks : at'[m] = "written"
    <3>1. CASE r \in Marks
      BY <2>1, <3>1
    <3>2. CASE r \in Creates
      <4>1. Tmp # g
        BY <2>1, <2>2, <2>11, <3>2, RecordTypes
      <4>2. text'[Tmp] = text[Tmp]
        BY <1>2, <2>1, <2>11, <4>1
      <4>3. UnderWay
        BY <2>1 DEF UnderWay
      <4>4. PICK m \in Marks : at[m] = "written"
        BY <2>11, <4>2, <4>3 DEF MarksOK
      <4>5. QED BY <1>1, <2>1, <4>4
    <3>3. QED BY <1>1, <3>1, <3>2
  <2>12. ASSUME NEW m \in Marks, at'[m] \in {"ready", "open"}, Loaded'.by = hand'[m].by
         PROVE  Loaded'.marks \subseteq hand'[m].marks
    <3>1. m # r /\ at[m] \in {"ready", "open"} /\ hand'[m] = hand[m] /\ hand[m].by # None
      BY <1>1, <1>5, <2>1, <2>12
    <3>2. CASE File = g
      <4>1. r \in Creates
        BY <1>1, <1>3, <2>1, <3>1 DEF MarkRuns
      <4>2. Loaded'.by = None \/ Loaded'.by = r
        BY <1>1, <2>1, <2>2, <2>4, <3>2, <4>1, RecordTypes
      <4>3. QED BY <2>9, <2>12, <3>1, <4>1, <4>2
    <3>3. CASE File # g
      BY <2>5, <2>6, <2>12, <3>1, <3>3 DEF MarksOK
    <3>4. QED BY <3>2, <3>3
  <2>13. ASSUME Tmp # None, text'[Tmp].by # None, Loaded'.by = text'[Tmp].by
         PROVE  Loaded'.marks \subseteq text'[Tmp].marks
    <3>1. UnderWay
      BY <2>1 DEF UnderWay
    <3>2. CASE Tmp = g
      <4>1. text'[Tmp] = hand[r] /\ Loaded' = Loaded
        BY <1>2, <1>4, <2>1, <2>5, <2>6, <2>13, <3>2, RecordTypes
      <4>2. CASE r \in Marks
        BY <2>1, <2>13, <4>1, <4>2 DEF MarksOK
      <4>3. CASE r \in Creates
        BY <1>2, <2>2, <2>9, <2>13, <4>1, <4>3, LoadedIs
      <4>4. QED BY <1>1, <4>2, <4>3
    <3>3. CASE Tmp # g /\ File = g
      <4>1. text'[Tmp] = text[Tmp]
        BY <1>2, <2>1, <2>13, <3>3
      <4>2. Loaded' = hand[r]
        BY <1>1, <2>1, <2>4, <2>13, <3>3, <4>1, RecordTypes
      <4>3. r \in Marks
        BY <1>1, <1>2, <2>2, <2>9, <2>13, <4>1, <4>2
      <4>4. text[Tmp].marks # {}
        BY <2>13, <4>1, <4>2, <4>3 DEF MarksOK
      <4>5. PICK m \in Marks : at[m] = "written"
        BY <2>13, <3>1, <4>1, <4>4 DEF MarksOK
      <4>6. m = r
        BY <1>3, <2>1, <4>3, <4>5 DEF MarkRuns
      <4>7. QED BY <2>1, <4>5, <4>6
    <3>4. CASE Tmp # g /\ File # g
      <4>1. text'[Tmp] = text[Tmp] /\ Loaded' = Loaded
        BY <1>2, <2>1, <2>5, <2>6, <2>13, <3>4
      <4>2. QED BY <2>13, <3>1, <4>1 DEF MarksOK
    <3>5. QED BY <3>2, <3>3, <3>4
  <2>14. QED BY <2>1, <2>8, <2>10, <2>11, <2>12, <2>13 DEF MarksOK
<1>8. ASSUME NEW r \in Savers, Rename(r) PROVE MarksOK'
  <2>1. /\ at[r] = "written" /\ at'[r] \in {"saved", "unsaved"} /\ hand' = hand
        /\ \A q \in Savers \ {r} : at'[q] = at[q]
        /\ \/ Tmp = None /\ names' = names /\ text' = text
           \/ /\ Tmp # None /\ File' = Tmp /\ Tmp' = None
              /\ \A f \in Savers : text'[f] = IF f = File THEN Empty ELSE text[f]
    BY <1>1, <1>8, RenameTurn DEF Base, OnlyAt
  <2>2. \A q \in Savers : /\ Early(q)' \/ at'[q] = "open" => Early(q) \/ at[q] = "open"
                          /\ at'[q] \in {"ready", "open"} => at[q] \in {"ready", "open"}
    BY <2>1 DEF Early
  <2>3. CASE Tmp = None
    <3>1. Tmp' = Tmp /\ File' = File /\ text' = text /\ Loaded' = Loaded
      BY <2>1, <2>3 DEF Tmp, File, Loaded, Exists
    <3>2. QED BY <1>1, <2>1, <2>2, <2>3, <3>1 DEF MarksOK
  <2>4. CASE Tmp # None
    <3>1. /\ File' = Tmp /\ Tmp' = None /\ text'[Tmp] = text[Tmp]
          /\ \A f \in Savers : text'[f].by \in {None, text[f].by}
      BY <1>2, <1>4, <2>1, <2>4, RecordTypes
    <3>2. Loaded' = text[Tmp]
      BY <2>4, <3>1 DEF Loaded, Exists, File
    <3>3. ASSUME NEW m \in Marks, at'[m] \in {"ready", "open"}, Loaded'.by = hand'[m].by
          PROVE  Loaded'.marks \subseteq hand'[m].marks
      <4>1. text[Tmp].by # None /\ at[m] \in {"ready", "open"} /\ UnderWay
        BY <1>1, <1>5, <2>1, <2>2, <3>2, <3>3 DEF UnderWay
      <4>2. text[Tmp].marks # {} => \E n \in Marks : at[n] = "written"
        BY <2>4, <4>1 DEF MarksOK
      <4>3. \A n \in Marks : at[n] = "written" => n = m
        BY <1>3, <4>1 DEF MarkRuns
      <4>4. text[Tmp].marks = {}
        BY <4>1, <4>2, <4>3
      <4>5. QED BY <3>2, <4>4
    <3>4. \A c \in Creates : Early(c)' \/ at'[c] = "open" =>
            /\ \A f \in Savers : text'[f].by # c
            /\ \A m \in Marks : hand'[m].by # c
      BY <1>1, <1>5, <2>1, <2>2, <3>1 DEF MarksOK
    <3>5. QED BY <3>1, <3>3, <3>4 DEF MarksOK
  <2>5. QED BY <2>3, <2>4
<1>9. ASSUME NEW d \in Deletes, Delete(d) PROVE MarksOK'
  <2>1. /\ hand' = hand /\ \A q \in Savers : at'[q] = at[q]
        /\ File' = None /\ Tmp' = Tmp
        /\ \A f \in Savers : text'[f] = IF f = File THEN Empty ELSE text[f]
    BY <1>1, <1>9, DeleteTurn DEF Base, OnlyAt
  <2>2. /\ Tmp # None => text'[Tmp] = text[Tmp]
        /\ \A f \in Savers : text'[f].by \in {None, text[f].by}
    BY <1>2, <1>4, <2>1, RecordTypes
  <2>3. Loaded'.by = None /\ Loaded'.marks = {}
    BY <2>1, RecordTypes DEF Loaded, Exists, File
  <2>4. /\ UnderWay' => UnderWay
        /\ \A q \in Savers : Early(q)' \/ at'[q] = "open" => Early(q) \/ at[q] = "open"
    BY <2>1 DEF UnderWay, Early
  <2>5. \A c \in Creates : Early(c)' \/ at'[c] = "open" =>
          /\ \A f \in Savers : text'[f].by # c
          /\ \A m \in Marks : hand'[m].by # c
    BY <1>1, <1>5, <2>1, <2>2, <2>4 DEF MarksOK
  <2>6. Tmp' # None /\ text'[Tmp'].by # None /\ text'[Tmp'].marks = {} =>
          \A m \in Marks : hand'[m].by # text'[Tmp'].by
    BY <2>1, <2>2 DEF MarksOK
  <2>7. UnderWay' /\ Tmp' # None /\ text'[Tmp'].by # None /\ text'[Tmp'].marks # {} =>
          \E m \in Marks : at'[m] = "written"
    BY <1>1, <2>1, <2>2, <2>4 DEF MarksOK
  <2>8. QED BY <2>1, <2>3, <2>5, <2>6, <2>7 DEF MarksOK
<1>10. ASSUME Crash PROVE MarksOK'
  <2>1. /\ \A q \in Savers : at'[q] \in {"done", "refused", "failed"} \/ (at'[q] = "idle" /\ at[q] = "idle")
        /\ \A q \in Savers : hand'[q].by = None
        /\ Tmp' = Tmp /\ text' = text
    BY <1>1, <1>10, CrashTurn, RecordTypes DEF Base, Answered, Tmp
  <2>2. \A c \in Creates : Early(c)' \/ at'[c] = "open" => Early(c)
    BY <1>1, <2>1 DEF Early
  <2>3. ~UnderWay' /\ \A m \in Marks : at'[m] \notin {"ready", "open"}
    BY <1>1, <2>1 DEF UnderWay
  <2>4. File' = File
    BY <1>10, CrashTurn DEF Base, File
  <2>5. QED BY <1>1, <1>5, <2>1, <2>2, <2>3, <2>4 DEF MarksOK
<1>11. ASSUME Aside PROVE MarksOK'
  <2>1. Tmp' = Tmp /\ File' = File /\ text' = text /\ Loaded' = Loaded /\ Bystands
    BY <1>11, AsideSavers DEF Bystands, Base, files, Tmp, File, Loaded, Exists
  <2>2. \A q \in Savers : /\ Early(q)' => Early(q)
                          /\ at[q] \in {"open", "written"} \/ at'[q] \in {"open", "written"} => at'[q] = at[q]
    BY <2>1, BystandsAt DEF Unmoved
  <2>3. UnderWay' => UnderWay
    BY <2>2 DEF UnderWay
  <2>4. \A m \in Marks : \/ hand'[m] = hand[m] /\ (at'[m] \in {"ready", "open"} => at'[m] = at[m])
                         \/ /\ Readable /\ hand'[m].by = Loaded.by
                            /\ Loaded.marks \subseteq hand'[m].marks
    <3>1. ASSUME NEW m \in Marks, Moves(m)
          PROVE  \/ hand'[m] = hand[m] /\ at'[m] \notin {"ready", "open"}
                 \/ Readable /\ hand'[m].by = Loaded.by /\ Loaded.marks \subseteq hand'[m].marks
      BY <1>1, <3>1 DEF Moves, Admits, Prepares, Refuses, Queues, Loads, LoadsNone, Replies, Answered
    <3>2. \A m \in Marks : Unmoved(m) \/ Moves(m)
      BY <1>1, <2>1 DEF Bystands, files
    <3>3. QED BY <3>1, <3>2 DEF Unmoved
  <2>5. Readable => File # None /\ Loaded = text[File]
    BY LoadedIs DEF Readable
  <2>6. \A c \in Creates : Early(c)' \/ at'[c] = "open" =>
          /\ \A f \in Savers : text'[f].by # c
          /\ \A m \in Marks : hand'[m].by # c
    BY <1>1, <1>2, <2>1, <2>2, <2>4, <2>5 DEF MarksOK
  <2>7. Tmp' # None /\ text'[Tmp'].by # None /\ text'[Tmp'].marks = {} =>
          /\ File' # None => text'[File'].by # text'[Tmp'].by
          /\ \A m \in Marks : hand'[m].by # text'[Tmp'].by
    BY <2>1, <2>4, <2>5 DEF MarksOK
  <2>8. UnderWay' /\ Tmp' # None /\ text'[Tmp'].by # None /\ text'[Tmp'].marks # {} =>
          \E m \in Marks : at'[m] = "written"
    BY <1>1, <2>1, <2>2, <2>3 DEF MarksOK
  <2>9. ASSUME NEW m \in Marks, at'[m] \in {"ready", "open"}, Loaded'.by = hand'[m].by
        PROVE  Loaded'.marks \subseteq hand'[m].marks
    BY <2>1, <2>4, <2>9 DEF MarksOK
  <2>10. UnderWay' /\ Tmp' # None /\ text'[Tmp'].by # None /\ Loaded'.by = text'[Tmp'].by =>
           Loaded'.marks \subseteq text'[Tmp'].marks
    BY <2>1, <2>3 DEF MarksOK
  <2>11. QED BY <2>6, <2>7, <2>8, <2>9, <2>10 DEF MarksOK
<1>12. QED BY <1>6, <1>7, <1>8, <1>9, <1>10, <1>11, Steps
-----------------------------------------------------------------------------
(***************************************************************************)
(* How the record changes: it is replaced by a rename, or written in place *)
(* by a save whose file was renamed too early; else it stays or cannot be  *)
(* read.                                                                   *)
(***************************************************************************)
WritesInPlace(r) == WriteTmp(r) /\ File = fd[r] /\ Loaded' = hand[r] /\ at[r] = "open" /\ at'[r] = "written"
Replaces(r) == /\ Rename(r) /\ Tmp # None /\ File' = Tmp /\ Loaded' = text[Tmp]
               /\ at[r] = "written" /\ at'[r] \in {"saved", "unsaved"}

LEMMA LoadedStep ==
    ASSUME Base, FilesOK, Next
    PROVE  \/ Loaded' = Loaded
           \/ Loaded'.by = None
           \/ \E r \in Savers : WritesInPlace(r) \/ Replaces(r)
<1>1. File \in Savers \cup {None} /\ Tmp \in Savers \cup {None} /\ None \notin Savers
  BY NamesType, Kinds DEF Base
<1>2. Tmp # None => Tmp # File
  BY DEF FilesOK
<1>3. /\ File' # None => Loaded' = text'[File']
      /\ File' = None => Loaded' = Empty
  BY DEF Loaded, Exists, File
<1>4. ASSUME NEW r \in Savers, OpenTmp(r) PROVE Loaded' = Loaded
  <2> DEFINE f == fd'[r]
  <2>1. /\ at[r] = "ready" /\ f = (IF Tmp = None THEN r ELSE Tmp) /\ f \in Savers /\ File' = File
        /\ \A g \in Savers \ {f} : text'[g] = text[g]
    BY <1>4, OpenTurn DEF Base
  <2> HIDE DEF f
  <2>2. f # File
    BY <1>2, <2>1 DEF FilesOK, Early
  <2>3. QED BY <1>1, <1>3, <2>1, <2>2, LoadedIs
<1>5. ASSUME NEW r \in Savers, WriteTmp(r) PROVE Loaded' = Loaded \/ Loaded'.by = None \/ WritesInPlace(r)
  <2> DEFINE g == fd[r]
  <2>1. /\ at[r] = "open" /\ at'[r] = "written"
        /\ g \in Savers
        /\ text'[g] = hand[r] \/ text'[g] = Garbled
        /\ \A f \in Savers \ {g} : text'[f] = text[f]
        /\ File' = File
    BY <1>5, WriteTurn DEF Base, File
  <2> HIDE DEF g
  <2>2. CASE File = g
    <3>1. Loaded' = hand[r] \/ Loaded'.by = None
      BY <1>1, <1>3, <2>1, <2>2, RecordTypes
    <3>2. QED BY <1>5, <2>1, <2>2, <3>1 DEF WritesInPlace, g
  <2>3. CASE File # g
    BY <1>1, <1>3, <2>1, <2>3, LoadedIs
  <2>4. QED BY <2>2, <2>3
<1>6. ASSUME NEW r \in Savers, Rename(r) PROVE Loaded' = Loaded \/ Replaces(r)
  <2>1. /\ at[r] = "written" /\ at'[r] \in {"saved", "unsaved"}
        /\ \/ Tmp = None /\ names' = names /\ text' = text
           \/ /\ Tmp # None /\ File' = Tmp /\ Tmp' = None
              /\ \A f \in Savers : text'[f] = IF f = File THEN Empty ELSE text[f]
    BY <1>6, RenameTurn DEF Base
  <2>2. CASE Tmp = None
    BY <2>1, <2>2 DEF Loaded, Exists
  <2>3. CASE Tmp # None
    BY <1>1, <1>2, <1>3, <1>6, <2>1, <2>3 DEF Replaces
  <2>4. QED BY <2>2, <2>3
<1>7. ASSUME NEW d \in Deletes, Delete(d) PROVE Loaded'.by = None
  <2>1. File' = None
    BY <1>7, DeleteTurn DEF Base
  <2>2. QED BY <1>3, <2>1, RecordTypes
<1>8. ASSUME Crash PROVE Loaded' = Loaded
  BY <1>8, CrashTurn DEF Base, Loaded, Exists
<1>9. ASSUME Aside PROVE Loaded' = Loaded
  BY <1>9, AsideSavers DEF Base, Bystands, files, Loaded, Exists
<1>10. QED BY <1>4, <1>5, <1>6, <1>7, <1>8, <1>9, Steps

(* A record is never replaced by one that has seen fewer marks. *)
LEMMA MarksStand ==
    ASSUME Base, FilesOK, MarksOK, Next, Readable, Readable', Loaded'.by = Loaded.by
    PROVE  Loaded.marks \subseteq Loaded'.marks
<1>1. File # None /\ File \in Savers /\ Loaded = text[File] /\ Loaded.by # None /\ Loaded'.by # None
  BY NamesType, LoadedIs DEF Base, Readable
<1>2. ASSUME NEW r \in Savers, WritesInPlace(r) PROVE Loaded.marks \subseteq Loaded'.marks
  <2>1. CASE r \in Marks
    BY <1>2, <2>1 DEF WritesInPlace, MarksOK
  <2>2. CASE r \in Creates
    BY <1>1, <1>2, <2>2, HandIs DEF WritesInPlace, MarksOK
  <2>3. QED BY <2>1, <2>2 DEF Savers
<1>3. ASSUME NEW r \in Savers, Replaces(r) PROVE Loaded.marks \subseteq Loaded'.marks
  BY <1>1, <1>3 DEF Replaces, UnderWay, MarksOK
<1>4. QED BY <1>1, <1>2, <1>3, LoadedStep

(* A record gives way to that of another create only at a stale save. *)
LEMMA StaleStand ==
    ASSUME Base, FilesOK, StaleOK, Next, Readable, Readable', Loaded'.by # Loaded.by
    PROVE  names'["file"] \in rivals \/ \E r \in stale : at[r] # at'[r]
<1>1. Loaded.by # None /\ Loaded'.by # None
  BY DEF Readable
<1>2. ASSUME NEW r \in Savers, WritesInPlace(r) PROVE r \in stale
  <2>1. CASE r \in Marks
    BY <1>1, <1>2, <2>1 DEF WritesInPlace, StaleOK
  <2>2. CASE r \in Creates
    BY <1>1, <1>2, <2>2 DEF WritesInPlace, StaleOK, Pending, Answered
  <2>3. QED BY <2>1, <2>2 DEF Savers
<1>3. ASSUME NEW r \in Savers, Replaces(r) PROVE r \in stale \/ File' \in rivals
  <2>1. CASE r \in Marks
    BY <1>1, <1>3, <2>1 DEF Replaces, StaleOK
  <2>2. CASE r \in Creates
    BY <1>1, <1>3, <2>2 DEF Replaces, StaleOK, Pending, Answered
  <2>3. QED BY <2>1, <2>2 DEF Savers
<1>4. \A r \in Savers : WritesInPlace(r) \/ Replaces(r) => at[r] # at'[r]
  BY DEF WritesInPlace, Replaces
<1>5. QED BY <1>1, <1>2, <1>3, <1>4, LoadedStep DEF File

(* How a save gets to where its record matters. *)
Arrivals ==
    /\ \A c \in Creates : Pending(c)' => Pending(c) \/ Loaded'.by = None
    /\ \A m \in Marks : at'[m] \in {"ready", "open"} =>
          \/ at[m] \in {"ready", "open"} /\ hand'[m] = hand[m]
          \/ Loaded' = Loaded /\ hand'[m].by = Loaded.by

LEMMA StaleStep ==
    ASSUME Base, Base', FilesOK, StaleOK, Next
    PROVE  StaleOK'
<1>1. /\ \A r \in Savers : r \in Requests /\ r \notin Deletes /\ (r \in Creates \/ r \in Marks)
      /\ \A c \in Creates : c \in Savers /\ c \notin Marks
      /\ \A m \in Marks : m \in Savers
      /\ \A d \in Deletes : d \in Requests
      /\ None \notin Savers
  BY Kinds DEF Savers
<1>2. /\ rivals \subseteq rivals' /\ stale \subseteq stale'
      /\ \A r \in Savers : Pending(r) /\ r \notin stale' => Loaded'.by \in {None, Loaded.by}
  BY Steps, Remembered DEF Readable
<1>3. /\ \A m \in Marks : at[m] \in {"ready", "open", "written"} => Pending(m)
      /\ \A r \in Savers : at[r] # "idle" => Pending(r) \/ at[r] \in Answered \cup {"queued"}
  BY DEF Pending, Answered
<1>4. Bystands => Loaded' = Loaded /\ Tmp' = Tmp /\ text' = text
  BY DEF Bystands, files, Loaded, Exists, Tmp
<1>5. Arrivals
  <2>1. ASSUME NEW r \in Savers, OpenTmp(r) \/ WriteTmp(r) \/ Rename(r) PROVE Arrivals
    <3>1. /\ \A q \in Savers \ {r} : at'[q] = at[q] /\ hand'[q] = hand[q]
          /\ at[r] \in {"ready", "open", "written"}
          /\ at'[r] \in {"ready", "open"} => at[r] \in {"ready", "open"} /\ hand'[r] = hand[r]
      <4>1. CASE OpenTmp(r)
        BY <1>1, <4>1, OpenTurn DEF Base, OnlyAt
      <4>2. CASE WriteTmp(r)
        BY <1>1, <4>2, WriteTurn DEF Base, OnlyAt
      <4>3. CASE Rename(r)
        BY <1>1, <4>3, RenameTurn DEF Base, OnlyAt
      <4>4. QED BY <2>1, <4>1, <4>2, <4>3
    <3>2. QED BY <1>1, <3>1 DEF Arrivals, Pending, Answered
  <2>2. ASSUME NEW d \in Deletes, Delete(d) PROVE Arrivals
    <3>1. \A q \in Savers : at'[q] = at[q] /\ hand'[q] = hand[q]
      BY <1>1, <2>2, DeleteTurn DEF Base, OnlyAt
    <3>2. QED BY <1>1, <3>1 DEF Arrivals, Pending
  <2>3. ASSUME Crash PROVE Arrivals
    <3>1. \A q \in Savers : at'[q] \in {"done", "refused", "failed", "idle"}
      BY <1>1, <2>3, CrashTurn DEF Base, Answered
    <3>2. QED BY <1>1, <3>1 DEF Arrivals, Pending, Answered
  <2>4. ASSUME Aside PROVE Arrivals
    <3>1. Bystands
      BY <2>4, AsideSavers DEF Base
    <3>2. \A r \in Savers : Unmoved(r) \/ Moves(r)
      BY <3>1 DEF Bystands, files
    <3>3. ASSUME NEW c \in Creates, Moves(c), Pending(c)' PROVE Pending(c) \/ Loaded'.by = None
      <4>1. CASE Admits(c)
        BY <1>4, <3>1, <4>1, LoadedIs DEF Admits, Exists, File
      <4>2. CASE ~Admits(c)
        BY <1>1, <3>3, <4>2
           DEF Moves, Prepares, Refuses, Queues, Loads, LoadsNone, Replies, Pending, Answered
      <4>3. QED BY <4>1, <4>2
    <3>4. ASSUME NEW m \in Marks, Moves(m), at'[m] \in {"ready", "open"} PROVE hand'[m].by = Loaded.by
      BY <1>1, <3>4 DEF Moves, Admits, Prepares, Refuses, Queues, Loads, LoadsNone, Replies, Answered
    <3>5. QED BY <1>1, <1>4, <3>1, <3>2, <3>3, <3>4 DEF Arrivals, Unmoved, Pending
  <2>5. QED BY <2>1, <2>2, <2>3, <2>4, Steps
<1>6. \A c \in Creates : Pending(c)' /\ c \notin stale' => Loaded'.by = None
  BY <1>1, <1>2, <1>5 DEF Arrivals, StaleOK
<1>7. \A m \in Marks : at'[m] \in {"ready", "open"} /\ m \notin stale' => Loaded'.by \in {None, hand'[m].by}
  BY <1>1, <1>2, <1>3, <1>5 DEF Arrivals, StaleOK
<1>8. ASSUME NEW m \in Marks, at'[m] = "written", m \notin stale', Tmp' # None, Tmp' \notin rivals'
      PROVE  Loaded'.by \in {None, text'[Tmp'].by}
  <2>1. ASSUME NEW r \in Savers, OpenTmp(r) PROVE FALSE
    <3>1. at'[r] = "open" /\ Tmp' = fd'[r]
      BY <2>1, OpenTurn DEF Base
    <3>2. QED BY <1>1, <1>8, <3>1 DEF Base, RivalsOK
  <2>2. ASSUME NEW r \in Savers, WriteTmp(r) PROVE Loaded'.by \in {None, text'[Tmp'].by}
    <3>1. /\ at[r] = "open" /\ Tmp' = Tmp /\ \A q \in Savers \ {r} : at'[q] = at[q]
          /\ text'[fd[r]] = hand[r] \/ text[fd[r]] # Empty
      BY <1>1, <2>2, WriteTurn DEF Base, OnlyAt, Tmp
    <3>2. Tmp = fd[r] /\ text[fd[r]] = Empty
      BY <1>2, <1>8, <3>1 DEF FilesOK
    <3>3. r = m
      BY <1>1, <1>2, <1>8, <3>1, <3>2 DEF Base, RivalsOK
    <3>4. Loaded.by \in {None, hand[r].by}
      BY <1>2, <1>8, <3>1, <3>3 DEF StaleOK
    <3>5. Loaded'.by \in {None, Loaded.by}
      BY <1>2, <1>3, <1>8, <3>1, <3>3
    <3>6. QED BY <3>1, <3>2, <3>4, <3>5
  <2>3. ASSUME NEW r \in Savers, Rename(r) PROVE FALSE
    BY <1>8, <2>3, RenameTurn DEF Base, Tmp
  <2>4. ASSUME NEW d \in Deletes, Delete(d) PROVE Loaded'.by = None
    <3>1. File' = None
      BY <2>4, DeleteTurn DEF Base
    <3>2. QED BY <3>1, RecordTypes DEF Loaded, Exists, File
  <2>5. ASSUME Crash PROVE FALSE
    BY <1>1, <1>8, <2>5, CrashTurn DEF Base, Answered
  <2>6. ASSUME Aside PROVE Loaded'.by \in {None, text'[Tmp'].by}
    <3>1. Bystands
      BY <2>6, AsideSavers DEF Base
    <3>2. at[m] = "written"
      BY <1>1, <1>8, <3>1, BystandsAt DEF Unmoved
    <3>3. QED BY <1>2, <1>4, <1>8, <3>1, <3>2 DEF StaleOK
  <2>7. QED BY <2>1, <2>2, <2>3, <2>4, <2>5, <2>6, Steps
<1>9. QED BY <1>6, <1>7, <1>8 DEF StaleOK
-----------------------------------------------------------------------------
(***************************************************************************)
(* The preferences.                                                        *)
(***************************************************************************)
LEMMA PrefsParts ==
    ASSUME PrefsOK
    PROVE  /\ \A p \in Profiles, c \in Creates : Writes(c, p) /\ p \notin shared =>
                 p \notin running /\ \A d \in Creates \ {c} : ~Writes(d, p)
           /\ \A p \in Profiles : Merged(p)
BY DEF PrefsOK

(* Two creates, or a create and Chromium, are not at work on p, nor were; and no write is cut. *)
Calm(p) == p \notin shared /\ p \notin shared' /\ ~CutShort(p)

LEMMA KeptSo ==
    ASSUME Remember, NEW p \in Profiles
    PROVE  /\ Calm(p) => /\ kept'[p].off <=> kept[p].off \/ TurnsOff(p)
                         /\ kept'[p].rest <=> kept[p].rest \/ prefs'[p].rest
           /\ ~Calm(p) => ~kept'[p].off /\ ~kept'[p].rest
<1>1. kept'[p] = IF p \in shared \cup shared' \/ CutShort(p) THEN NoPrefs
                 ELSE [off |-> kept[p].off \/ TurnsOff(p), rest |-> kept[p].rest \/ prefs'[p].rest]
  BY DEF Remember
<1>2. CASE Calm(p)
  <2>1. kept'[p] = [off |-> kept[p].off \/ TurnsOff(p), rest |-> kept[p].rest \/ prefs'[p].rest]
    BY <1>1, <1>2 DEF Calm
  <2>2. /\ kept'[p].off = (kept[p].off \/ TurnsOff(p))
        /\ kept'[p].rest = (kept[p].rest \/ prefs'[p].rest)
    BY <2>1
  <2>3. QED BY <1>2, <2>2, Zenon
<1>3. CASE ~Calm(p)
  <2>1. kept'[p] = NoPrefs
    BY <1>1, <1>3 DEF Calm
  <2>2. QED BY <1>3, <2>1, RecordTypes
<1>4. QED BY <1>2, <1>3

LEMMA SharedSo ==
    ASSUME Remember, NEW p \in Profiles, p \notin shared'
    PROVE  /\ \A c \in Creates : Writes(c, p)' =>
                 p \notin running' /\ \A d \in Creates \ {c} : ~Writes(d, p)'
           /\ p \in shared => p \notin running' /\ \A c \in Creates : ~Writes(c, p)'
<1>1. ~TwoAtWork(p) /\ (p \in shared => ~AtWork(p))
  BY DEF Remember
<1>2. QED BY <1>1 DEF TwoAtWork, AtWork, WritingPrefs, Writes

(* It is enough to look at the profiles where nothing is at stake but the step itself. *)
LEMMA PrefsCalm ==
    ASSUME Remember, \A c \in Creates : at[c] = "truncated" /\ at'[c] = "failed" =>
                        \A d \in Creates : at'[d] \notin {"prefsRead", "truncated"},
           \A p \in Profiles : Calm(p) => Merged(p)'
    PROVE  PrefsOK'
<1>1. \A p \in Profiles, c \in Creates : Writes(c, p)' /\ p \notin shared' =>
         p \notin running' /\ \A d \in Creates \ {c} : ~Writes(d, p)'
  BY SharedSo
<1>2. ASSUME NEW p \in Profiles, ~Calm(p) PROVE Merged(p)'
  <2>1. ~kept'[p].off /\ ~kept'[p].rest
    BY <1>2, KeptSo
  <2>2. p \notin shared' => \A c \in Creates : ~Writes(c, p)'
    <3>1. CASE p \in shared
      BY <3>1, SharedSo
    <3>2. CASE CutShort(p)
      BY <3>2 DEF CutShort, Writes
    <3>3. QED BY <1>2, <3>1, <3>2 DEF Calm
  <2>3. QED BY <2>1, <2>2 DEF Merged
<1>3. QED BY <1>1, <1>2 DEF PrefsOK

(* A step that leaves the preferences of p alone. *)
Still(p) ==
    /\ prefs'[p] = prefs[p]
    /\ memory'[p] = memory[p]
    /\ p \in running' => p \in running
    /\ Clear(p)' => Clear(p)
    /\ \A d \in Creates : Writes(d, p)' => Writes(d, p) /\ seen'[d].rest = seen[d].rest
    /\ ~TurnsOff(p)

LEMMA PrefsStill ==
    ASSUME PrefsOK, Remember, NEW p \in Profiles, Calm(p), Still(p)
    PROVE  Merged(p)'
<1>1. Merged(p) /\ p \notin shared
  BY PrefsParts DEF Calm
<1>2. (kept'[p].off <=> kept[p].off) /\ (kept'[p].rest <=> kept[p].rest \/ prefs[p].rest)
  BY KeptSo DEF Still
<1>3. QED BY <1>1, <1>2 DEF Merged, Still

LEMMA PrefsKept ==
    ASSUME PrefsOK, Remember, UNCHANGED <<prefs, memory, running>>,
           \A c \in Creates :
              /\ place'[c] = place[c] \/ (at[c] = "idle" /\ at'[c] = "checked")
              /\ at'[c] = "truncated" <=> at[c] = "truncated"
              /\ at'[c] = "prefsRead" => at[c] = "prefsRead"
              /\ at'[c] \in {"prefsRead", "truncated"} => seen'[c] = seen[c]
              /\ at'[c] = "ready" => at[c] = "ready"
    PROVE  PrefsOK'
<1>1. ASSUME NEW p \in Profiles, Calm(p) PROVE Merged(p)'
  <2>1. Clear(p)' => Clear(p)
    BY DEF Clear
  <2>2. \A d \in Creates : Writes(d, p)' => Writes(d, p) /\ seen'[d] = seen[d]
    BY DEF Writes
  <2>3. ~TurnsOff(p)
    BY DEF TurnsOff
  <2>4. QED BY <1>1, <2>1, <2>2, <2>3, PrefsStill DEF Still
<1>2. QED BY <1>1, PrefsCalm

LEMMA PrefsStep ==
    ASSUME Base, PrefsOK, Next
    PROVE  PrefsOK'
<1>1. /\ \A r \in Savers : r \in Requests /\ r \notin Deletes /\ r \notin Warms
      /\ \A c \in Creates : c \in Savers /\ c \in Requests /\ c \notin Marks /\ c \notin Deletes /\ c \notin Warms
      /\ \A m \in Marks : m \in Savers
      /\ \A d \in Deletes : d \in Requests
  BY Kinds
<1>2. Remember
  BY Steps
<1>3. ~NoPrefs.rest /\ ~NoPrefs.off
  BY RecordTypes
<1>4. {"done", "refused", "failed", "checked", "prefsRead", "truncated", "ready", "queued", "missing",
       "unreadable", "loaded", "asked", "written", "saved", "unsaved"} \subseteq Stages
  BY DEF Stages
<1>5. \A c \in Creates : at[c] \notin {"queued", "missing", "unreadable"}
  BY DEF Base, HoldsOK
(* A request that is not a create, or whose step touches no preferences. *)
<1>6. ASSUME NEW r \in Requests, OnlyAt(r), UNCHANGED <<place, prefs, seen, memory, running>>,
             r \in Creates => {at[r], at'[r]} \cap {"prefsRead", "truncated"} = {} /\ at'[r] # "ready"
      PROVE  PrefsOK'
  <2>1. \A c \in Creates \ {r} : at'[c] = at[c]
    BY <1>1, <1>6 DEF OnlyAt
  <2>2. \A c \in Creates : /\ at'[c] = "truncated" <=> at[c] = "truncated"
                           /\ at'[c] = "prefsRead" => at[c] = "prefsRead"
                           /\ at'[c] = "ready" => at[c] = "ready"
    BY <1>6, <2>1
  <2>3. QED BY <1>2, <1>6, <2>2, PrefsKept
<1>7. ASSUME NEW r \in Savers, OpenTmp(r) PROVE PrefsOK'
  <2>1. /\ at[r] = "ready" /\ at'[r] = "open" /\ \A c \in Creates \ {r} : at'[c] = at[c] /\ seen'[c] = seen[c]
        /\ UNCHANGED <<place, prefs, memory, running>>
    BY <1>1, <1>7, OpenTurn DEF Base, OnlyAt
  <2>2. \A c \in Creates :
          /\ at'[c] = "truncated" <=> at[c] = "truncated"
          /\ at'[c] = "prefsRead" => at[c] = "prefsRead"
          /\ at'[c] \in {"prefsRead", "truncated"} => seen'[c] = seen[c]
          /\ at'[c] = "ready" => at[c] = "ready"
    BY <2>1
  <2>3. QED BY <1>2, <2>1, <2>2, PrefsKept
<1>8. ASSUME NEW r \in Savers, WriteTmp(r) PROVE PrefsOK'
  <2>1. OnlyAt(r) /\ at[r] = "open" /\ at'[r] = "written" /\ UNCHANGED <<place, prefs, seen, memory, running>>
    BY <1>8, WriteTurn DEF Base, profileVars
  <2>2. QED BY <1>1, <1>6, <2>1
<1>9. ASSUME NEW r \in Savers, Rename(r) PROVE PrefsOK'
  <2>1. OnlyAt(r) /\ at[r] = "written" /\ at'[r] \in {"saved", "unsaved"}
        /\ UNCHANGED <<place, prefs, seen, memory, running>>
    BY <1>9, RenameTurn DEF Base, profileVars
  <2>2. QED BY <1>1, <1>6, <2>1
<1>10. ASSUME NEW d \in Deletes, Delete(d) PROVE PrefsOK'
  <2>1. OnlyAt(d) /\ UNCHANGED <<place, prefs, seen, memory, running>>
    BY <1>10, DeleteTurn DEF Base, profileVars
  <2>2. QED BY <1>1, <1>6, <2>1
<1>11. ASSUME Crash PROVE PrefsOK'
  <2>1. /\ \A c \in Creates : \/ at'[c] = at[c] /\ at[c] \in {"done", "refused", "failed", "idle"}
                              \/ at'[c] = "failed"
        /\ UNCHANGED <<place, prefs, memory, running>>
    BY <1>1, <1>11, CrashTurn DEF Base, Answered
  <2>2. ASSUME NEW p \in Profiles, Calm(p) PROVE Merged(p)'
    <3>1. Clear(p)
      BY <2>1, <2>2 DEF Calm, CutShort, Clear
    <3>2. (\A d \in Creates : ~Writes(d, p)') /\ ~TurnsOff(p)
      BY <2>1 DEF Writes, TurnsOff
    <3>3. QED BY <1>2, <2>1, <2>2, <3>1, <3>2, PrefsStill DEF Still
  <2>3. \A d \in Creates : at'[d] \notin {"prefsRead", "truncated"}
    BY <2>1
  <2>4. QED BY <1>2, <2>2, <2>3, PrefsCalm
<1>12. ASSUME NEW r \in Savers, Reply(r) PROVE PrefsOK'
  <2>1. PICK answer \in Answered : Go(r, answer)
    BY <1>12 DEF Reply, Answered
  <2>2. OnlyAt(r) /\ at'[r] \in Answered
    BY <1>1, <1>4, <2>1, Goes DEF Base, Answered
  <2>3. at[r] \in {"saved", "unsaved", "missing", "unreadable"} /\ UNCHANGED <<place, prefs, seen, memory, running>>
    BY <1>12 DEF Reply, profileVars
  <2>4. QED BY <1>1, <1>5, <1>6, <2>2, <2>3 DEF Answered
<1>13. ASSUME NEW c \in Creates, Refuse(c) PROVE PrefsOK'
  <2>1. /\ OnlyAt(c) /\ at[c] = "idle" /\ at'[c] = "refused" /\ UNCHANGED <<place, prefs, seen, memory, running>>
    BY <1>1, <1>4, <1>13, Goes DEF Refuse, profileVars, Base
  <2>2. QED BY <1>1, <1>6, <2>1
<1>14. ASSUME NEW c \in Creates, CheckAbsent(c) PROVE PrefsOK'
  <2>1. at[c] = "idle" /\ UNCHANGED <<prefs, seen, memory, running>>
    BY <1>14 DEF CheckAbsent, profileVars
  <2>2. at'[c] \in {"checked", "refused"} /\ \A d \in Creates \ {c} : at'[d] = at[d]
    <3>1. Go(c, "checked") \/ Go(c, "refused")
      BY <1>14 DEF CheckAbsent
    <3>2. QED BY <1>1, <1>4, <3>1, Goes DEF Base, OnlyAt
  <2>3. \A d \in Creates : place'[d] = place[d] \/ (at[d] = "idle" /\ at'[d] = "checked")
    <3>1. Aside
      BY <1>14 DEF Aside
    <3>2. CASE Exists
      BY <1>14, <3>2 DEF CheckAbsent
    <3>3. CASE ~Exists
      <4>1. at'[c] = "checked"
        BY <1>1, <1>4, <1>14, <3>3, Goes DEF CheckAbsent, Base
      <4>2. PICK w \in Profiles, p \in Profiles :
               place' = [place EXCEPT ![c] = [workspace |-> w, profile |-> p]]
        BY <1>14, <3>3 DEF CheckAbsent
      <4>3. \A d \in Creates \ {c} : place'[d] = place[d]
        BY <4>2 DEF Base, TypeOK
      <4>4. QED BY <2>1, <4>1, <4>3
    <3>4. QED BY <3>2, <3>3
  <2>4. \A d \in Creates :
          /\ at'[d] = "truncated" <=> at[d] = "truncated"
          /\ at'[d] = "prefsRead" => at[d] = "prefsRead"
          /\ at'[d] = "ready" => at[d] = "ready"
    BY <2>1, <2>2
  <2>5. QED BY <1>2, <2>1, <2>3, <2>4, PrefsKept
<1>15. ASSUME NEW b \in Creates, ReadPrefs(b) PROVE PrefsOK'
  <2>1. /\ at[b] = "checked" /\ at'[b] = "prefsRead" /\ \A d \in Creates \ {b} : at'[d] = at[d]
        /\ UNCHANGED <<place, prefs, memory, running>>
    BY <1>1, <1>4, <1>15, Goes DEF ReadPrefs, Base, OnlyAt
  <2>2. seen'[b] = prefs[place[b].profile] /\ \A d \in Creates \ {b} : seen'[d] = seen[d]
    BY <1>15 DEF ReadPrefs, Base, TypeOK
  <2>3. \A p : (Clear(p)' => Clear(p)) /\ ~TurnsOff(p)
    BY <2>1 DEF Clear, TurnsOff
  <2>4. \A p : \A d \in Creates : d # b /\ Writes(d, p)' => Writes(d, p)
    BY <2>1 DEF Writes
  <2>5. ASSUME NEW p \in Profiles, Calm(p) PROVE Merged(p)'
    <3>1. CASE p = place[b].profile
      <4>1. Writes(b, p)'
        BY <2>1, <3>1 DEF Writes
      <4>2. \A d \in Creates \ {b} : ~Writes(d, p)'
        BY <1>2, <2>5, <4>1, SharedSo DEF Calm
      <4>3. p \notin running'
        BY <1>2, <2>5, <4>1, SharedSo DEF Calm
      <4>4. Clear(p)
        BY <2>1, <4>2 DEF Clear, Writes
      <4>5. Merged(p)
        BY <2>5, PrefsParts
      <4>6. (kept'[p].off <=> kept[p].off) /\ (kept'[p].rest <=> kept[p].rest \/ prefs[p].rest)
        BY <1>2, <2>1, <2>3, <2>5, KeptSo
      <4>7. QED BY <2>1, <2>2, <3>1, <4>2, <4>3, <4>4, <4>5, <4>6 DEF Merged
    <3>2. CASE p # place[b].profile
      <4>1. ~Writes(b, p)'
        BY <2>1, <3>2 DEF Writes
      <4>2. QED BY <1>2, <2>1, <2>2, <2>3, <2>4, <2>5, <4>1, PrefsStill DEF Still
    <3>3. QED BY <3>1, <3>2
  <2>6. QED BY <1>2, <2>1, <2>5, PrefsCalm
<1>16. ASSUME NEW b \in Creates, TruncatePrefs(b) PROVE PrefsOK'
  <2>1. /\ at[b] = "prefsRead" /\ at'[b] = "truncated" /\ \A d \in Creates \ {b} : at'[d] = at[d]
        /\ UNCHANGED <<place, seen, memory, running>>
    BY <1>1, <1>4, <1>16, Goes DEF TruncatePrefs, Base, OnlyAt
  <2>2. \A p \in Profiles : prefs'[p] = IF p = place[b].profile THEN NoPrefs ELSE prefs[p]
    BY <1>16 DEF TruncatePrefs, Base, TypeOK
  <2>3. \A p : ~TurnsOff(p) /\ \A d \in Creates : Writes(d, p)' => Writes(d, p)
    BY <2>1 DEF Writes, TurnsOff
  <2>4. ASSUME NEW p \in Profiles, Calm(p) PROVE Merged(p)'
    <3>1. CASE p = place[b].profile
      <4>1. ~Clear(p)'
        BY <2>1, <3>1 DEF Clear
      <4>2. Writes(b, p) /\ p \notin running
        BY <2>1, <2>4, <3>1, PrefsParts DEF Writes, Calm
      <4>3. Merged(p) /\ p \notin shared
        BY <2>4, PrefsParts DEF Calm
      <4>4. (kept'[p].off <=> kept[p].off) /\ (kept'[p].rest <=> kept[p].rest) /\ ~prefs'[p].rest
        BY <1>2, <1>3, <2>2, <2>3, <2>4, <3>1, KeptSo
      <4>5. QED BY <2>1, <2>3, <4>1, <4>2, <4>3, <4>4 DEF Merged
    <3>2. CASE p # place[b].profile
      <4>1. Clear(p)' => Clear(p)
        BY <2>1, <3>2 DEF Clear
      <4>2. QED BY <1>2, <2>1, <2>2, <2>3, <2>4, <3>2, <4>1, PrefsStill DEF Still
    <3>3. QED BY <3>1, <3>2
  <2>5. QED BY <1>2, <2>1, <2>4, PrefsCalm
<1>17. ASSUME NEW b \in Creates, WritePrefs(b) PROVE PrefsOK'
  <2>1. /\ at[b] = "truncated" /\ at'[b] = "ready" /\ \A d \in Creates \ {b} : at'[d] = at[d]
        /\ UNCHANGED <<place, seen, memory, running>>
    BY <1>1, <1>4, <1>17, Goes DEF WritePrefs, Base, OnlyAt
  <2>2. \A p \in Profiles : prefs'[p] = IF p = place[b].profile THEN [off |-> TRUE, rest |-> seen[b].rest] ELSE prefs[p]
    BY <1>17 DEF WritePrefs, Base, TypeOK
  <2>3. \A p : \A d \in Creates : Writes(d, p)' => Writes(d, p) /\ d # b
    BY <2>1 DEF Writes
  <2>4. ASSUME NEW p \in Profiles, Calm(p) PROVE Merged(p)'
    <3>1. CASE p = place[b].profile
      <4>1. Writes(b, p)
        BY <2>1, <3>1 DEF Writes
      <4>2. p \notin running /\ \A d \in Creates \ {b} : ~Writes(d, p)
        BY <2>4, <4>1, PrefsParts DEF Calm
      <4>3. \A d \in Creates : ~Writes(d, p)'
        BY <2>3, <4>2
      <4>4. kept[p].rest => seen[b].rest
        BY <2>4, <4>1, PrefsParts DEF Calm, Merged
      <4>5. prefs'[p].off /\ prefs'[p].rest = seen[b].rest
        BY <2>2, <3>1
      <4>6. kept'[p].rest <=> kept[p].rest \/ prefs'[p].rest
        BY <1>2, <2>4, KeptSo
      <4>7. QED BY <2>1, <4>2, <4>3, <4>4, <4>5, <4>6 DEF Merged
    <3>2. CASE p # place[b].profile
      <4>1. (Clear(p)' => Clear(p)) /\ ~TurnsOff(p)
        BY <2>1, <3>2 DEF Clear, TurnsOff
      <4>2. QED BY <1>2, <2>1, <2>2, <2>3, <2>4, <3>2, <4>1, PrefsStill DEF Still
    <3>3. QED BY <3>1, <3>2
  <2>5. QED BY <1>2, <2>1, <2>4, PrefsCalm
<1>18. ASSUME NEW m \in Marks, Queue(m) \/ LoadToMark(m) PROVE PrefsOK'
  <2>1. (\E step \in Stages : Go(m, step)) /\ UNCHANGED <<place, prefs, seen, memory, running>>
    BY <1>4, <1>18 DEF Queue, LoadToMark, profileVars
  <2>2. OnlyAt(m)
    BY <1>1, <2>1, Goes DEF Base
  <2>3. QED BY <1>1, <1>6, <2>1, <2>2
<1>19. ASSUME NEW v \in Warms, LoadToWarm(v) \/ AskForWorkspace(v) \/ ProfileIsLocked(v) PROVE PrefsOK'
  <2>1. (\E step \in Stages : Go(v, step)) /\ UNCHANGED <<place, prefs, seen, memory, running>>
    BY <1>4, <1>19 DEF LoadToWarm, AskForWorkspace, ProfileIsLocked, profileVars
  <2>2. OnlyAt(v)
    BY <1>1, <2>1, Goes, Kinds DEF Base
  <2>3. QED BY <1>1, <1>6, <2>1, <2>2, Kinds
<1>20. ASSUME NEW v \in Warms, Launch(v) PROVE PrefsOK'
  <2> DEFINE q == jar[v]
  <2>1. /\ at[v] \in {"loaded", "asked"} /\ Go(v, "done")
        /\ running' = running \cup {q} /\ memory' = [memory EXCEPT ![q] = prefs[q]]
        /\ UNCHANGED <<place, prefs, seen>>
    BY <1>20 DEF Launch, ChromiumStarts
  <2>2. \A d \in Creates : at'[d] = at[d]
    BY <1>1, <1>4, <2>1, Goes, Kinds DEF Base, OnlyAt
  <2>3. \A p \in Profiles : memory'[p] = IF p = q THEN prefs[p] ELSE memory[p]
    BY <2>1 DEF Base, TypeOK
  <2> HIDE DEF q
  <2>4. \A p : /\ Clear(p)' <=> Clear(p)
               /\ ~TurnsOff(p)
               /\ \A d \in Creates : Writes(d, p)' <=> Writes(d, p)
    BY <2>1, <2>2 DEF Clear, TurnsOff, Writes
  <2>5. ASSUME NEW p \in Profiles, Calm(p) PROVE Merged(p)'
    <3>1. CASE p = q
      <4>1. p \in running' /\ \A d \in Creates : ~Writes(d, p)'
        BY <1>2, <2>1, <2>5, <3>1, SharedSo DEF Calm
      <4>2. Clear(p)
        BY <2>4, <4>1 DEF Clear, Writes
      <4>3. Merged(p)
        BY <2>5, PrefsParts
      <4>4. (kept'[p].off <=> kept[p].off) /\ (kept'[p].rest <=> kept[p].rest \/ prefs[p].rest)
        BY <1>2, <2>1, <2>4, <2>5, KeptSo
      <4>5. QED BY <2>1, <2>3, <3>1, <4>1, <4>2, <4>3, <4>4 DEF Merged
    <3>2. CASE p # q
      BY <1>2, <2>1, <2>3, <2>4, <2>5, <3>2, PrefsStill DEF Still
    <3>3. QED BY <3>1, <3>2
  <2>6. QED BY <1>2, <2>2, <2>5, PrefsCalm
<1>21. ASSUME NEW q \in Profiles, ChromiumExits(q) PROVE PrefsOK'
  <2>1. /\ q \in running /\ running' = running \ {q}
        /\ prefs' = [prefs EXCEPT ![q] = [memory[q] EXCEPT !.rest = TRUE]]
        /\ memory' = [memory EXCEPT ![q] = NoPrefs]
        /\ UNCHANGED <<at, place, seen>>
    BY <1>21 DEF ChromiumExits
  <2>2. prefs'[q].off = memory[q].off /\ prefs'[q].rest
    BY <2>1 DEF Base, TypeOK, Preferences
  <2>3. \A p \in Profiles : p # q => prefs'[p] = prefs[p] /\ memory'[p] = memory[p]
    BY <2>1 DEF Base, TypeOK
  <2>4. \A p : /\ Clear(p)' <=> Clear(p)
               /\ ~TurnsOff(p)
               /\ \A d \in Creates : Writes(d, p)' <=> Writes(d, p)
    BY <2>1 DEF Clear, TurnsOff, Writes
  <2>5. ASSUME NEW p \in Profiles, Calm(p) PROVE Merged(p)'
    <3>1. CASE p = q
      <4>1. \A d \in Creates : ~Writes(d, p)'
        BY <2>1, <2>4, <2>5, <3>1, PrefsParts DEF Calm
      <4>2. Merged(p)
        BY <2>5, PrefsParts
      <4>3. kept'[p].off <=> kept[p].off
        BY <1>2, <2>4, <2>5, KeptSo
      <4>4. QED BY <2>1, <2>2, <3>1, <4>1, <4>2, <4>3 DEF Merged
    <3>2. CASE p # q
      BY <1>2, <2>1, <2>3, <2>4, <2>5, <3>2, PrefsStill DEF Still
    <3>3. QED BY <3>1, <3>2
  <2>6. QED BY <1>2, <2>1, <2>5, PrefsCalm
<1>22. QED BY <1>7, <1>8, <1>9, <1>10, <1>11, <1>12, <1>13, <1>14, <1>15, <1>16, <1>17, <1>18, <1>19, <1>20,
              <1>21, Steps DEF Aside
-----------------------------------------------------------------------------
(***************************************************************************)
(* The invariant, and what follows from it.                                *)
(***************************************************************************)
IdentityInv == Base /\ FilesOK /\ MarksOK /\ StaleOK /\ PrefsOK

LEMMA IdentityInvInit == Init => IdentityInv
<1> SUFFICES ASSUME Init PROVE IdentityInv
  OBVIOUS
<1>1. Base
  BY BaseInit
<1>2. /\ File = None /\ Tmp = None /\ Loaded = Empty
      /\ \A r \in Savers : at[r] = "idle" /\ text[r] = Empty /\ hand[r] = Empty /\ fd[r] = None
  BY Kinds DEF Init, File, Tmp, Loaded, Exists
<1>3. FilesOK /\ MarksOK /\ StaleOK
  BY <1>2, Kinds, RecordTypes
     DEF FilesOK, MarksOK, StaleOK, Early, Written, UnderWay, Pending
<1>4. \A p \in Profiles : kept[p] = NoPrefs /\ prefs[p] = NoPrefs
  BY DEF Init
<1>5. PrefsOK
  BY <1>2, <1>4, Kinds, RecordTypes DEF PrefsOK, Merged, Writes
<1>6. QED BY <1>1, <1>3, <1>5 DEF IdentityInv

LEMMA IdentityInvStep == IdentityInv /\ [Next]_vars => IdentityInv'
<1> SUFFICES ASSUME IdentityInv, [Next]_vars PROVE IdentityInv'
  OBVIOUS
<1>1. Base'
  BY BaseStep DEF IdentityInv
<1>2. CASE Next
  BY <1>1, <1>2, FilesStep, MarksStep, StaleStep, PrefsStep DEF IdentityInv
<1>3. CASE UNCHANGED vars
  <2>1. FilesOK' /\ MarksOK' /\ StaleOK'
    BY <1>3 DEF IdentityInv, vars, files, history, FilesOK, MarksOK, StaleOK, Early, Written, UnderWay,
       Pending, File, Tmp, Loaded, Exists
  <2>2. PrefsOK'
    BY <1>3 DEF IdentityInv, vars, profileVars, history, PrefsOK, Merged, Clear, Writes
  <2>3. QED BY <1>1, <2>1, <2>2 DEF IdentityInv
<1>4. QED BY <1>2, <1>3

LEMMA IdentityInvAlways == Spec => []IdentityInv
<1>1. QED BY IdentityInvInit, IdentityInvStep, PTL DEF Spec

(* The types, of the files and the locks, of what each request holds. *)
THEOREM IdentitiesTyping == Spec => []TypeOK
<1>1. IdentityInv => TypeOK
  BY DEF IdentityInv, Base
<1>2. QED BY <1>1, IdentityInvAlways, PTL

(***************************************************************************)
(* A reader of the record never sees it half written, in any interleaving  *)
(* of any number of saves and through crashes, unless a create saved at    *)
(* the same time as another save of the identity (store.ts, save).         *)
(***************************************************************************)
THEOREM RecordsAreWhole == Spec => []TornOnlyByRival
<1>1. IdentityInv => TornOnlyByRival
  BY LoadedIs DEF IdentityInv, FilesOK, TornOnlyByRival, Readable, Exists, File
<1>2. QED BY <1>1, IdentityInvAlways, PTL

(***************************************************************************)
(* While the record stays that of one create, no mark-warm loses what      *)
(* another has written: the lock, and the shared temporary name, together  *)
(* (manager.ts, markWarm; store.ts, save).                                 *)
(***************************************************************************)
THEOREM MarksAreKept == Spec => MarksAddUp
<1>1. IdentityInv /\ [Next]_vars
      => [Readable /\ Readable' /\ Loaded'.by = Loaded.by => Loaded.marks \subseteq Loaded'.marks]_vars
  BY MarksStand DEF IdentityInv
<1>2. QED BY <1>1, IdentityInvAlways, PTL DEF Spec, MarksAddUp

(***************************************************************************)
(* A record is replaced by that of another create only by a save that had  *)
(* read before it was there, or whose file another save had open           *)
(* (manager.ts, create; store.ts, save).                                   *)
(***************************************************************************)
THEOREM RecordsGiveWayToStale == Spec => ReplacedOnlyByStale
<1>1. IdentityInv /\ [Next]_vars
      => [Readable /\ Readable' /\ Loaded'.by # Loaded.by
          => names'["file"] \in rivals \/ \E r \in stale : at[r] # at'[r]]_vars
  BY StaleStand DEF IdentityInv
<1>2. QED BY <1>1, IdentityInvAlways, PTL DEF Spec, ReplacedOnlyByStale

(***************************************************************************)
(* What a create or Chromium has put into the preferences of a profile     *)
(* stays there, through any number of creates, sessions and crashes: but   *)
(* not when two are at work on them at once, or a crash cuts a create      *)
(* between truncation and write (profile-policy.ts, disablePasswordManager)*)
(***************************************************************************)
THEOREM PreferencesAreMerged == Spec => []PrefsMerged
<1>1. IdentityInv => PrefsMerged
  BY PrefsParts DEF IdentityInv, PrefsMerged, Merged, Clear
<1>2. QED BY <1>1, IdentityInvAlways, PTL
=============================================================================
