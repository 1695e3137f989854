------------------------------- MODULE Actions -------------------------------
(***************************************************************************)
(* What an agent does on one page (src/src/commands): observe, click,      *)
(* type, press, select, move, navigate, dismiss, wait until stable, and    *)
(* screenshot, while the page changes under it and a human pauses the      *)
(* agent.                                                                  *)
(*                                                                         *)
(* A call runs over awaits.  It checks the pause and looks its ref up once,*)
(* and acts later, on whatever the page has become.  An element is a place *)
(* in the page; each time it is rendered there is another node, a new      *)
(* version of it, with another text.                                       *)
(***************************************************************************)
EXTENDS Integers, Sequences, FiniteSets

CONSTANTS Elems,      \* elements of the page
          Walls,      \* the buttons that sit in an overlay, one overlay each
          KindName,   \* the kind and name of each wall's overlay, which others may share
          Under,      \* the elements that an overlay covers
          Labelled,   \* the elements whose name dismiss takes for a consent
          Slots,      \* concurrent callers
          Mixes,      \* which commands are used together, on which elements, and in how many calls
          None, Home, \* no element; where the pointer is to begin with
          MaxChanges, MaxDocs, MaxPauses, MaxTime, \* bounds
          Quiet, ReadTime, \* quietMs; the longest read of a locator's text
          Keep, Names \* screenshots kept; names of screenshots, in sort order

ASSUME ActionsAssumption ==
    /\ Walls \cup Under \cup Labelled \subseteq Elems
    /\ Walls \cap Under = {}
    /\ IsFiniteSet(Elems)
    /\ None \notin Elems /\ Home \notin Elems
    /\ \A m \in Mixes : m.elems \subseteq Elems
    /\ Names \subseteq Nat
    /\ {MaxChanges, MaxDocs, MaxPauses, MaxTime, Quiet, ReadTime, Keep} \subseteq Nat

VARIABLES mix,          \* the commands of this behaviour
          ver, shown,   \* the last version of each element, those in the page
          changes, doc, \* changes of the page, documents loaded
          since,        \* when the element last changed
          begun, pending, \* pauses created, pauses not resumed
          cache,        \* _observeCache of the page
          given,        \* history: the refs that each observe handed out
          calls, call,  \* calls made, the call of each slot
          now,          \* the clock, while somebody waits
          pointer, lastPos, \* where the pointer is, where move.ts believes it to be
          strayed,      \* history: has anything but a whole move moved it
          shots         \* files in the screenshots directory

page == <<ver, shown, changes, doc, since>>
human == <<begun, pending>>
eyes == <<cache, given>>
hand == <<pointer, lastPos, strayed>>
vars == <<mix, page, human, eyes, calls, call, now, hand, shots>>

NoRefs == [e \in Elems |-> 0]
NoCache == [by |-> 0, refs |-> NoRefs]
NoCall == [at |-> "idle", cmd |-> "none", elem |-> None, obs |-> 0, node |-> 0, doc |-> 0,
           epoch |-> 0, refs |-> NoRefs, old |-> {}, truth |-> {}, result |-> "none",
           read |-> 0, began |-> 0, changed |-> 0, stood |-> 0, start |-> Home, files |-> {}]

Init ==
    /\ mix \in Mixes
    /\ ver = [e \in Elems |-> 1]
    /\ shown = mix.elems
    /\ changes = 0 /\ doc = 1 /\ now = 0
    /\ since = [e \in Elems |-> 0]
    /\ begun = 0 /\ pending = {}
    /\ cache = NoCache /\ given = <<>>
    /\ calls = 0 /\ call = [s \in Slots |-> NoCall]
    /\ pointer = Home /\ lastPos = Home /\ strayed = FALSE
    /\ shots = {}

Acts == {"click", "type", "move", "goto", "relay"} \* click stands for press and select too

(***************************************************************************)
(* The page and the human.                                                 *)
(***************************************************************************)
Changed(S) ==
    /\ changes < MaxChanges
    /\ changes' = changes + 1
    /\ since' = [e \in Elems |-> IF e \in S /\ "wait" \in mix.cmds THEN now ELSE since[e]]

Vanishes(e) ==
    /\ e \in shown
    /\ shown' = shown \ {e}
    /\ Changed({e})
    /\ UNCHANGED <<ver, doc>>

Renders(e) ==
    /\ ver' = [ver EXCEPT ![e] = @ + 1]
    /\ shown' = shown \cup {e}
    /\ Changed({e})
    /\ UNCHANGED doc

\* Another document has some of the elements, every one of them a new node;
\* the page's listener drops the observation of the old one.
Loads ==
    /\ doc < MaxDocs
    /\ doc' = doc + 1
    /\ shown' \in SUBSET mix.elems
    /\ ver' = [e \in Elems |-> IF e \in shown' THEN ver[e] + 1 ELSE ver[e]]
    /\ Changed(Elems)
    /\ cache' = NoCache
    /\ UNCHANGED given

PageChanges ==
    /\ \/ \E e \in mix.elems : (Vanishes(e) \/ Renders(e)) /\ UNCHANGED eyes
       \/ Loads
    /\ UNCHANGED <<mix, human, calls, call, now, hand, shots>>

\* An await-human call or an MFA challenge on this page ...
Pause ==
    /\ mix.cmds \cap (Acts \cup {"dismiss"}) # {}
    /\ begun < MaxPauses
    /\ begun' = begun + 1
    /\ pending' = pending \cup {begun + 1}
    /\ UNCHANGED <<mix, page, eyes, calls, call, now, hand, shots>>

\* ... ends, whichever way.
Resume(p) ==
    /\ p \in pending
    /\ pending' = pending \ {p}
    /\ UNCHANGED <<mix, begun, page, eyes, calls, call, now, hand, shots>>

(***************************************************************************)
(* The calls.                                                              *)
(***************************************************************************)
Begins(s, c) ==
    /\ call[s].at \in {"idle", "answered"}
    /\ calls < mix.calls
    /\ c.cmd \in mix.cmds
    /\ calls' = calls + 1
    /\ call' = [call EXCEPT ![s] = c]
    /\ UNCHANGED <<mix, page, human, eyes, now, hand, shots>>

Goes(s, c) == call' = [call EXCEPT ![s] = c]
Answered(r) == [NoCall EXCEPT !.at = "answered", !.result = r]
Answers(s, r) == Goes(s, Answered(r))

\* Defective variant: the pause is not looked at.
NotChecked(cmd) == TRUE

\* assertPageNotPaused.  The relayed code of a challenge is let through.
NotPaused(cmd) == pending = {} \/ cmd = "relay"

\* Defective variant: a ref is looked up by its index alone.
RefByIndex(n, e) == cache.by # 0 /\ cache.refs[e] # 0

\* refLookup: a ref is found if the observation cached now is the one it is from.
RefFound(n, e) == cache.by = n /\ cache.refs[e] # 0

\* An act names its target by a locator (0) or by a ref of an observe.
Act(s, cmd, e, n) ==
    /\ cmd \in Acts
    /\ n # 0 => given[n][e] # 0
    /\ cmd = "relay" => pending # {}
    /\ cmd = "goto" => n = 0
    /\ LET c == [NoCall EXCEPT !.cmd = cmd, !.elem = e, !.obs = n] IN
       Begins(s, IF NotPaused(cmd) /\ (n # 0 => RefFound(n, e))
                 THEN [c EXCEPT !.at = "acting", !.doc = doc, !.epoch = begun,
                                !.node = IF n = 0 THEN 0 ELSE cache.refs[e]]
                 ELSE Answered("refused"))

Attached(c) == c.elem \in shown /\ (c.obs # 0 => c.node = ver[c.elem])
Covered(e) == e \in Under /\ shown \cap Walls # {}

\* Where a call goes when its act is over: dismiss is not told how it ended.
After(c, r) ==
    IF c.cmd = "dismiss" THEN [c EXCEPT !.at = "walking", !.cmd = "verify", !.obs = 0, !.node = 0, !.doc = doc]
    ELSE Answered(r)

\* The act reaches the element; an overlay may close on it.
Fires(s) ==
    LET c == call[s] IN
    /\ c.at = "acting" /\ c.cmd \in {"click", "type", "relay", "dismiss"}
    /\ Attached(c) /\ ~Covered(c.elem)
    /\ \/ UNCHANGED page
       \/ c.elem \in Walls /\ Vanishes(c.elem)
    /\ Goes(s, [c EXCEPT !.at = "fired"])
    /\ pointer' = IF c.cmd \in {"click", "dismiss"} THEN c.elem ELSE pointer
    /\ strayed' = (strayed \/ pointer' # pointer)
    /\ UNCHANGED <<mix, human, eyes, calls, now, lastPos, shots>>

\* The action's promise resolves.
Fired(s) ==
    /\ call[s].at = "fired"
    /\ Goes(s, After(call[s], "done"))
    /\ UNCHANGED <<mix, page, human, eyes, calls, now, hand, shots>>

Lands(s) ==
    /\ call[s].at = "acting" /\ call[s].cmd = "goto"
    /\ Loads
    /\ Answers(s, "done")
    /\ UNCHANGED <<mix, human, calls, now, hand, shots>>

\* The action's promise rejects.  Playwright says that the page has moved on,
\* which all but type take for success, or times out, and a probe tells
\* missing from covered, or the handle is disposed of.
Fails(s) ==
    LET c == call[s] IN
    /\ c.at \in {"acting", "fired"}
    /\ \E r \in {"navigated", "notFound", "notActionable", "failed"} :
          /\ r = "navigated" => /\ c.cmd \notin {"type", "relay", "goto"}
                                /\ c.doc # doc \/ ~Attached(c)
          /\ r = "notFound" => c.at = "acting" /\ c.cmd # "goto" /\ ~Attached(c)
          /\ r = "notActionable" => c.at = "acting" /\ c.cmd # "goto" /\ Attached(c)
          /\ Goes(s, After(c, r))
    /\ UNCHANGED <<mix, page, human, eyes, calls, now, hand, shots>>

(***************************************************************************)
(* observe, and dismiss, which observes, clicks and observes again.        *)
(***************************************************************************)
Looks(s, cmd) ==
    /\ cmd \in {"observe", "dismiss"}
    /\ Begins(s, [NoCall EXCEPT !.at = "walking", !.cmd = cmd, !.doc = doc])

WallsIn(refs) == {e \in Walls : refs[e] # 0}

\* walkAllFrames.  A frame that navigates under the walk is skipped.
Walks(s) ==
    LET c == call[s]
        full == [e \in Elems |-> IF e \in shown THEN ver[e] ELSE 0] IN
    /\ c.at = "walking"
    /\ \E refs \in {full} \cup (IF c.doc # doc THEN {NoRefs} ELSE {}) :
          Goes(s, [c EXCEPT !.at = "walked", !.refs = refs,
                             !.truth = IF c.cmd = "verify" THEN shown \cap Walls ELSE {}])
    /\ UNCHANGED <<mix, page, human, eyes, calls, now, hand, shots>>

\* The overlays of the kind and name of a pick's own, or all if it has none.
Namesakes(S, e) == {w \in S : e \in Walls => KindName[w] = KindName[e]}

\* Defective variant: fewer overlays than before will do.
FewerOverlays(before, after, e) == Cardinality(after) < Cardinality(before)

\* overlayGone: the page's overlays are told apart by kind and name only.
OverlayGone(before, after, e) ==
    Cardinality(Namesakes(after, e)) < Cardinality(Namesakes(before, e))

\* setObserveCache, and what the caller makes of the observation.
Caches(s) ==
    LET c == call[s]
        n == Len(given) + 1 IN
    /\ c.at = "walked"
    /\ cache' = [by |-> n, refs |-> c.refs]
    /\ given' = Append(given, c.refs)
    /\ Goes(s, CASE c.cmd = "observe" -> Answered("done")
                 [] c.cmd = "dismiss" -> [c EXCEPT !.at = "picking", !.obs = n, !.old = WallsIn(c.refs)]
                 [] c.cmd = "verify" -> IF OverlayGone(c.old, WallsIn(c.refs), c.elem)
                                        THEN [c EXCEPT !.at = "answered", !.result = "dismissed"]
                                        ELSE Answered("kept"))
    /\ UNCHANGED <<mix, page, human, calls, now, hand, shots>>

\* pickDismissTargets sorts the actionable before the covered ones.
Picks(c) ==
    LET linked == Labelled \cap c.old
        pinned == {e \in Labelled \cap Under : c.refs[e] # 0} IN
    IF c.old = {} THEN {} ELSE IF linked # {} THEN linked ELSE pinned

\* The nested click has checks of its own; their errors are swallowed.
Picked(s) ==
    LET c == call[s] IN
    /\ c.at = "picking"
    /\ IF Picks(c) = {} THEN Answers(s, "kept")
       ELSE \E e \in Picks(c) :
               LET d == [c EXCEPT !.elem = e, !.refs = NoRefs] IN
               Goes(s, IF NotPaused("dismiss") /\ RefFound(c.obs, e)
                       THEN [d EXCEPT !.at = "acting", !.node = cache.refs[e], !.doc = doc, !.epoch = begun]
                       ELSE After(d, "refused"))
    /\ UNCHANGED <<mix, page, human, eyes, calls, now, hand, shots>>

(***************************************************************************)
(* move.                                                                   *)
(***************************************************************************)
OtherMoves(s) == \E t \in Slots \ {s} : call[t].at \in {"aimed", "moving", "arrived"}

\* The target's box is read; the path starts where lastPos says.
Aims(s) ==
    LET c == call[s] IN
    /\ c.at = "acting" /\ c.cmd = "move" /\ Attached(c)
    /\ Goes(s, [c EXCEPT !.at = "aimed", !.start = lastPos])
    /\ strayed' = (strayed \/ OtherMoves(s))
    /\ UNCHANGED <<mix, page, human, eyes, calls, now, pointer, lastPos, shots>>

\* The first waypoint, then the rest.
MoveTo(s, from, to, where) ==
    /\ call[s].at = from
    /\ Goes(s, [call[s] EXCEPT !.at = to])
    /\ pointer' = where
    /\ strayed' = (strayed \/ OtherMoves(s))
    /\ UNCHANGED <<mix, page, human, eyes, calls, now, lastPos, shots>>

MoveStarts(s) == MoveTo(s, "aimed", "moving", call[s].start)
MoveArrives(s) == MoveTo(s, "moving", "arrived", call[s].elem)

\* Defective variant: the position is not remembered.
MoveForgets(s) ==
    /\ call[s].at = "arrived"
    /\ Answers(s, "done")
    /\ UNCHANGED <<mix, page, human, eyes, calls, now, hand, shots>>

MoveEnds(s) ==
    /\ call[s].at = "arrived"
    /\ Answers(s, "done")
    /\ lastPos' = call[s].elem
    /\ UNCHANGED <<mix, page, human, eyes, calls, now, pointer, strayed, shots>>

\* A teardown on the way counts as arrival, any other error as nothing.
MoveBreaks(s) ==
    /\ call[s].at \in {"aimed", "moving"}
    /\ \/ call[s].doc # doc /\ lastPos' = call[s].elem /\ Answers(s, "navigated")
       \/ lastPos' = lastPos /\ Answers(s, "failed")
    /\ strayed' = TRUE
    /\ UNCHANGED <<mix, page, human, eyes, calls, now, pointer, shots>>

(***************************************************************************)
(* wait until stable, by locator.                                          *)
(***************************************************************************)
WaitBegins(s, e) ==
    Begins(s, [NoCall EXCEPT !.at = "polling", !.cmd = "wait", !.elem = e,
                             !.began = now, !.changed = now])

\* pollUntilStable: the time is taken before the text is read.
Polls(s) ==
    /\ call[s].at = "polling"
    /\ Goes(s, [call[s] EXCEPT !.at = "reading", !.began = now])
    /\ UNCHANGED <<mix, page, human, eyes, calls, now, hand, shots>>

\* Defective variant: a change does not restart the quiet time.
SeesAtOnce(c, text) == [c EXCEPT !.read = text]

\* The text read last and since when, 0 being the empty text.
Sees(c, text) ==
    IF text = c.read THEN c ELSE [c EXCEPT !.read = text, !.changed = c.began]

\* A read that fails counts as no change.
Reads(s) ==
    LET c == call[s] IN
    /\ c.at = "reading"
    /\ \E ok \in {c.elem \in shown, FALSE} :
          LET d == Sees(c, IF ok THEN ver[c.elem] ELSE c.read)
              settled == d.read # 0 /\ d.began - d.changed >= Quiet IN
          Goes(s, IF settled
                  THEN [d EXCEPT !.at = "answered", !.stood = since[c.elem],
                                !.result = IF ok THEN "settled" ELSE "settledUnread"]
                  ELSE [d EXCEPT !.at = "polling"])
    /\ UNCHANGED <<mix, page, human, eyes, calls, now, hand, shots>>

\* A poll that finds its time over gives up.
WaitTimesOut(s) ==
    /\ call[s].at = "polling" /\ now = MaxTime
    /\ Answers(s, "timeout")
    /\ UNCHANGED <<mix, page, human, eyes, calls, now, hand, shots>>

\* A read of a locator's text has a timeout of its own.
Tick ==
    /\ \E s \in Slots : call[s].at \in {"polling", "reading"}
    /\ \A s \in Slots : call[s].at = "reading" => now - call[s].began < ReadTime
    /\ now < MaxTime
    /\ now' = now + 1
    /\ UNCHANGED <<mix, page, human, eyes, calls, call, hand, shots>>

(***************************************************************************)
(* screenshot.                                                             *)
(***************************************************************************)
ShotBegins(s) == Begins(s, [NoCall EXCEPT !.at = "shooting", !.cmd = "shot"])

\* The name begins with the page's random id, so it sorts anywhere.
Shot(s) ==
    /\ call[s].at = "shooting"
    /\ \E f \in Names \ shots : shots' = shots \cup {f}
    /\ Goes(s, [call[s] EXCEPT !.at = "listing"])
    /\ UNCHANGED <<mix, page, human, eyes, calls, now, hand>>

ShotFails(s) ==
    /\ call[s].at = "shooting"
    /\ Answers(s, "failed")
    /\ UNCHANGED <<mix, page, human, eyes, calls, now, hand, shots>>

\* Defective variant: one too many is kept.
StaleButOne(S) == {f \in S : Cardinality({g \in S : g > f}) > Keep}

\* All but the Keep last names.
Stale(S) == {f \in S : Cardinality({g \in S : g > f}) >= Keep}

\* pruneScreenshots: the directory is read ...
Lists(s) ==
    /\ call[s].at = "listing"
    /\ Goes(s, [call[s] EXCEPT !.at = "pruning", !.files = Stale(shots)])
    /\ UNCHANGED <<mix, page, human, eyes, calls, now, hand, shots>>

\* ... and the files to go are unlinked, in any order, missing ones included.
Prunes(s) ==
    /\ call[s].at = "pruning"
    /\ IF call[s].files = {} THEN Answers(s, "done") /\ UNCHANGED shots
       ELSE \E f \in call[s].files :
               /\ shots' = shots \ {f}
               /\ Goes(s, [call[s] EXCEPT !.files = @ \ {f}])
    /\ UNCHANGED <<mix, page, human, eyes, calls, now, hand>>

-----------------------------------------------------------------------------
Next ==
    \/ PageChanges \/ Pause \/ Tick
    \/ \E p \in pending : Resume(p)
    \/ \E s \in Slots :
          \/ \E cmd \in Acts, e \in mix.elems, n \in 0..Len(given) : Act(s, cmd, e, n)
          \/ \E cmd \in {"observe", "dismiss"} : Looks(s, cmd)
          \/ \E e \in mix.elems : WaitBegins(s, e)
          \/ ShotBegins(s)
          \/ Fires(s) \/ Fired(s) \/ Lands(s) \/ Fails(s)
          \/ Walks(s) \/ Caches(s) \/ Picked(s)
          \/ Aims(s) \/ MoveStarts(s) \/ MoveArrives(s) \/ MoveEnds(s) \/ MoveBreaks(s)
          \/ Polls(s) \/ Reads(s) \/ WaitTimesOut(s)
          \/ Shot(s) \/ ShotFails(s) \/ Lists(s) \/ Prunes(s)

Spec == Init /\ [][Next]_vars

-----------------------------------------------------------------------------
(***************************************************************************)
(* Properties.                                                             *)
(***************************************************************************)
\* While a human has control, only those acts can still reach the page that
\* were admitted before the pause began, the click of a dismiss counted from
\* its own check, and the relayed code (pause-registry.ts:48).
HeldOffByPause ==
    \A s \in Slots : call[s].at \in {"acting", "aimed", "moving"} /\ call[s].cmd # "relay" =>
        \A p \in pending : p > call[s].epoch

\* A ref, the one dismiss has picked included, reaches the very node that was
\* observed under it, whatever has been observed or rendered since
\* (observe.ts:42, locators.ts:53).
RefLandsOnSeen ==
    \A s \in Slots : call[s].at \in {"acting", "fired"} /\ call[s].obs # 0 =>
        /\ call[s].node # 0
        /\ call[s].node = given[call[s].obs][call[s].elem]

\* If dismiss says that it has cleared a wall then one of that kind and name
\* (any wall, if the pick was only covered by one) that it saw at its first
\* look was no longer there at the second, whatever else came and went: the
\* very wall if no other shares its kind and name, else perhaps a namesake of
\* the one it clicked.  Or else the page was navigating and the second look
\* found nothing (dismiss.ts:24).
DismissedIsGone ==
    \A s \in Slots : call[s].result = "dismissed" =>
        \/ Namesakes(call[s].old \ call[s].truth, call[s].elem) # {}
        \/ call[s].doc # doc /\ call[s].refs = NoRefs

\* If wait says that an element's text has settled, and its last read did not
\* fail, then the element had not changed for the quiet time less the time of
\* one read, because a change is dated before the read that sees it
\* (wait.ts:105-119).
SettledWasQuiet ==
    \A s \in Slots : call[s].at = "answered" /\ call[s].result = "settled" =>
        call[s].began - call[s].stood >= Quiet - ReadTime

\* As long as nothing but whole moves, one at a time, has moved the pointer,
\* a move starts where the pointer is (move.ts:17).
MovesJoinUp ==
    \A s \in Slots : call[s].at = "aimed" /\ ~strayed => call[s].start = pointer

\* However screenshots overlap, no more than Keep are left when the last of
\* them has been answered (screenshot.ts:8).
ShotsAreBounded ==
    (\A s \in Slots : call[s].at \in {"idle", "answered"}) => Cardinality(shots) <= Keep
=============================================================================
