--------------------------- MODULE Actions_proofs ---------------------------
(***************************************************************************)
(* Proofs about the calls on a page, for any elements, callers, pauses,    *)
(* changes of the page and names of screenshots.                           *)
(***************************************************************************)
EXTENDS Actions, FiniteSetTheorems, WellFoundedInduction, TLAPS

Stages == {"idle", "acting", "fired", "aimed", "moving", "arrived", "walking", "walked", "picking",
           "polling", "reading", "shooting", "listing", "pruning", "answered"}
Cmds == {"none", "click", "type", "move", "goto", "relay", "observe", "dismiss", "verify", "wait", "shot"}
Results == {"none", "refused", "done", "navigated", "notFound", "notActionable", "failed",
            "dismissed", "kept", "settled", "settledUnread", "timeout"}
Calls == [at : Stages, cmd : Cmds, elem : Elems \cup {None}, obs : Nat, node : Nat, doc : Nat,
          epoch : Nat, refs : [Elems -> Nat], old : SUBSET Elems, truth : SUBSET Elems,
          result : Results, read : Nat, began : Nat, changed : Nat, stood : Nat,
          start : Elems \cup {Home}, files : SUBSET Names]

(* The calls that have an element to act on, or to wait for. *)
Targets(c) == c.at \in {"acting", "fired", "aimed", "moving", "arrived", "polling", "reading"} =>
                  c.elem \in Elems

(* The walks are made by observe, by dismiss, and by its second look. *)
Watches(c) == c.at \in {"walking", "walked"} => c.cmd \in {"observe", "dismiss", "verify"}

PageOK ==
    /\ ver \in [Elems -> Nat \ {0}]
    /\ shown \in SUBSET Elems
    /\ doc \in Nat
    /\ now \in Nat
    /\ since \in [Elems -> Nat]

HumanOK ==
    /\ begun \in Nat
    /\ pending \in SUBSET (1..begun)

EyesOK ==
    /\ cache \in [by : Nat, refs : [Elems -> Nat]]
    /\ given \in Seq([Elems -> Nat])

CallsOK ==
    /\ call \in [Slots -> Calls]
    /\ \A s \in Slots : Targets(call[s]) /\ Watches(call[s])

HandOK ==
    /\ pointer \in Elems \cup {Home}
    /\ lastPos \in Elems \cup {Home}
    /\ strayed \in BOOLEAN

ShotsOK ==
    /\ shots \in SUBSET Names
    /\ IsFiniteSet(shots)

TypeOK ==
    /\ mix \in Mixes
    /\ PageOK /\ HumanOK /\ EyesOK /\ CallsOK /\ HandOK /\ ShotsOK

-----------------------------------------------------------------------------
(***************************************************************************)
(* The records of calls.                                                   *)
(***************************************************************************)
LEMMA NoCallType == NoRefs \in [Elems -> Nat] /\ NoCall \in Calls
<1>1. NoRefs \in [Elems -> Nat]
  BY DEF NoRefs
<1>2. "idle" \in Stages /\ "none" \in Results /\ "none" \in Cmds
  BY DEF Stages, Results, Cmds
<1>3. QED BY <1>1, <1>2 DEF NoCall, Calls

LEMMA AnsweredType ==
    ASSUME NEW r \in Results
    PROVE  /\ Answered(r) \in Calls
           /\ Answered(r).at = "answered" /\ Answered(r).result = r
           /\ Answered(r).epoch = 0 /\ Answered(r).obs = 0 /\ Answered(r).doc = 0
<1>1. "answered" \in Stages
  BY DEF Stages
<1>2. QED BY <1>1, NoCallType DEF Answered, NoCall, Calls

(* One call changes, and the others stand. *)
OnlyCall(s) ==
    /\ call' \in [Slots -> Calls]
    /\ \A t \in Slots \ {s} : call'[t] = call[t]

(* Nothing but a call and the number of calls changes. *)
Still == UNCHANGED <<mix, page, human, eyes, now, hand, shots>>

LEMMA GoesTo ==
    ASSUME CallsOK, NEW s \in Slots, NEW c \in Calls, Goes(s, c)
    PROVE  OnlyCall(s) /\ call'[s] = c
BY DEF CallsOK, Goes, OnlyCall

LEMMA Elements == \A m \in Mixes : m.elems \subseteq Elems
BY ActionsAssumption DEF ActionsAssumption

-----------------------------------------------------------------------------
(***************************************************************************)
(* What each operation makes of its call.                                  *)
(***************************************************************************)
Rests(c) == c.at \in {"idle", "answered"}

(* A call that is over, with no claim to have dismissed or settled anything. *)
Over(c) == /\ c.at = "answered"
           /\ c.result \in Results \ {"dismissed", "settled"}
           /\ c.epoch = 0 /\ c.obs = 0 /\ c.doc = 0

LEMMA AnsweredIsOver ==
    ASSUME NEW r \in Results \ {"dismissed", "settled"}
    PROVE  Answered(r) \in Calls /\ Over(Answered(r))
BY AnsweredType DEF Over

(* An act is admitted, or refused. *)
LEMMA ActTurn ==
    ASSUME TypeOK, NEW s \in Slots, NEW cmd \in Acts, NEW e \in mix.elems,
           NEW n \in 0..Len(given), Act(s, cmd, e, n)
    PROVE  /\ OnlyCall(s) /\ Still /\ Rests(call[s])
           /\ \/ Over(call'[s])
              \/ /\ call'[s].at = "acting" /\ call'[s].result = "none"
                 /\ call'[s].cmd = cmd /\ cmd # "dismiss"
                 /\ call'[s].elem = e /\ e \in Elems
                 /\ call'[s].obs = n /\ n \in Nat
                 /\ call'[s].doc = doc /\ call'[s].epoch = begun
                 /\ NotPaused(cmd)
                 /\ n # 0 => RefFound(n, e) /\ call'[s].node = cache.refs[e]
<1> DEFINE c == [NoCall EXCEPT !.cmd = cmd, !.elem = e, !.obs = n]
           d == [c EXCEPT !.at = "acting", !.doc = doc, !.epoch = begun,
                          !.node = IF n = 0 THEN 0 ELSE cache.refs[e]]
           ok == NotPaused(cmd) /\ (n # 0 => RefFound(n, e))
<1>1. e \in Elems /\ n \in Nat /\ cmd \in Cmds /\ cmd # "dismiss" /\ "acting" \in Stages
  BY Elements DEF TypeOK, Acts, Cmds, Stages, EyesOK
<1>2. c \in Calls /\ c.result = "none" /\ c.elem = e /\ c.obs = n /\ c.cmd = cmd
  BY <1>1, NoCallType DEF NoCall, Calls
<1>3. doc \in Nat /\ begun \in Nat /\ (IF n = 0 THEN 0 ELSE cache.refs[e]) \in Nat
  BY <1>1 DEF TypeOK, PageOK, HumanOK, EyesOK
<1> HIDE DEF c
<1>4. /\ d \in Calls /\ d.at = "acting" /\ d.result = "none" /\ d.elem = e /\ d.obs = n
      /\ d.cmd = cmd /\ d.doc = doc /\ d.epoch = begun
      /\ d.node = IF n = 0 THEN 0 ELSE cache.refs[e]
  BY <1>1, <1>2, <1>3 DEF Calls
<1>5. Answered("refused") \in Calls /\ Over(Answered("refused"))
  BY AnsweredIsOver DEF Results
<1>6. Begins(s, IF ok THEN d ELSE Answered("refused"))
  BY DEF Act, c
<1> HIDE DEF d, ok
<1>7. /\ Rests(call[s]) /\ Still
      /\ Goes(s, IF ok THEN d ELSE Answered("refused"))
  BY <1>6 DEF Begins, Goes, Rests, Still
<1>8. CASE ok
  <2>1. OnlyCall(s) /\ call'[s] = d
    BY <1>4, <1>7, <1>8, GoesTo DEF TypeOK
  <2>2. NotPaused(cmd) /\ (n # 0 => RefFound(n, e))
    BY <1>8 DEF ok
  <2>3. QED BY <1>1, <1>4, <1>7, <2>1, <2>2
<1>9. CASE ~ok
  BY <1>5, <1>7, <1>9, GoesTo DEF TypeOK
<1>10. QED BY <1>8, <1>9

(* An observe, a dismiss, a wait or a screenshot begins. *)
LEMMA OtherBeginnings ==
    ASSUME TypeOK, NEW s \in Slots
    PROVE  /\ \A cmd \in {"observe", "dismiss"} : Looks(s, cmd) =>
                /\ OnlyCall(s) /\ Still /\ Rests(call[s])
                /\ call'[s].at = "walking" /\ call'[s].result = "none" /\ call'[s].cmd = cmd
                /\ call'[s].doc = doc /\ call'[s].obs = 0 /\ call'[s].epoch = 0
           /\ \A e \in mix.elems : WaitBegins(s, e) =>
                /\ OnlyCall(s) /\ Still /\ Rests(call[s])
                /\ call'[s].at = "polling" /\ call'[s].result = "none" /\ call'[s].cmd = "wait"
                /\ call'[s].elem = e /\ e \in Elems /\ call'[s].read = 0
                /\ call'[s].began = now /\ call'[s].changed = now /\ "wait" \in mix.cmds
                /\ call'[s].doc = 0 /\ call'[s].obs = 0 /\ call'[s].epoch = 0
           /\ ShotBegins(s) =>
                /\ OnlyCall(s) /\ Still /\ Rests(call[s])
                /\ call'[s].at = "shooting" /\ call'[s].result = "none" /\ call'[s].cmd = "shot"
                /\ call'[s].doc = 0 /\ call'[s].obs = 0 /\ call'[s].epoch = 0
<1>1. /\ doc \in Nat /\ now \in Nat /\ CallsOK
      /\ \A e \in mix.elems : e \in Elems
  BY Elements DEF TypeOK, PageOK
<1>2. ASSUME NEW cmd \in {"observe", "dismiss"}, Looks(s, cmd)
      PROVE  /\ OnlyCall(s) /\ Still /\ Rests(call[s])
             /\ call'[s].at = "walking" /\ call'[s].result = "none" /\ call'[s].cmd = cmd
             /\ call'[s].doc = doc /\ call'[s].obs = 0 /\ call'[s].epoch = 0
  <2> DEFINE c == [NoCall EXCEPT !.at = "walking", !.cmd = cmd, !.doc = doc]
  <2>1. "walking" \in Stages /\ cmd \in Cmds
    BY DEF Stages, Cmds
  <2>2. /\ c \in Calls /\ c.at = "walking" /\ c.result = "none" /\ c.cmd = cmd
        /\ c.doc = doc /\ c.obs = 0 /\ c.epoch = 0
    BY <1>1, <2>1, NoCallType DEF NoCall, Calls
  <2>3. Goes(s, c) /\ Still /\ Rests(call[s])
    BY <1>2 DEF Looks, Begins, Goes, Rests, Still
  <2> HIDE DEF c
  <2>4. QED BY <1>1, <2>2, <2>3, GoesTo
<1>3. ASSUME NEW e \in mix.elems, WaitBegins(s, e)
      PROVE  /\ OnlyCall(s) /\ Still /\ Rests(call[s])
             /\ call'[s].at = "polling" /\ call'[s].result = "none" /\ call'[s].cmd = "wait"
             /\ call'[s].elem = e /\ e \in Elems /\ call'[s].read = 0
             /\ call'[s].began = now /\ call'[s].changed = now /\ "wait" \in mix.cmds
             /\ call'[s].doc = 0 /\ call'[s].obs = 0 /\ call'[s].epoch = 0
  <2> DEFINE c == [NoCall EXCEPT !.at = "polling", !.cmd = "wait", !.elem = e,
                                 !.began = now, !.changed = now]
  <2>1. "polling" \in Stages /\ "wait" \in Cmds
    BY DEF Stages, Cmds
  <2>2. /\ c \in Calls /\ c.at = "polling" /\ c.result = "none" /\ c.cmd = "wait"
        /\ c.elem = e /\ c.read = 0 /\ c.began = now /\ c.changed = now
        /\ c.doc = 0 /\ c.obs = 0 /\ c.epoch = 0
    <3>1. e \in Elems /\ now \in Nat
      BY <1>1
    <3>2. QED BY <2>1, <3>1, NoCallType DEF NoCall, Calls
  <2>3. Goes(s, c) /\ Still /\ Rests(call[s]) /\ c.cmd \in mix.cmds
    BY <1>3 DEF WaitBegins, Begins, Goes, Rests, Still
  <2> HIDE DEF c
  <2>4. QED BY <1>1, <2>2, <2>3, GoesTo
<1>4. ASSUME ShotBegins(s)
      PROVE  /\ OnlyCall(s) /\ Still /\ Rests(call[s])
             /\ call'[s].at = "shooting" /\ call'[s].result = "none" /\ call'[s].cmd = "shot"
             /\ call'[s].doc = 0 /\ call'[s].obs = 0 /\ call'[s].epoch = 0
  <2> DEFINE c == [NoCall EXCEPT !.at = "shooting", !.cmd = "shot"]
  <2>1. "shooting" \in Stages /\ "shot" \in Cmds
    BY DEF Stages, Cmds
  <2>2. /\ c \in Calls /\ c.at = "shooting" /\ c.result = "none" /\ c.cmd = "shot"
        /\ c.doc = 0 /\ c.obs = 0 /\ c.epoch = 0
    BY <1>1, <2>1, NoCallType DEF NoCall, Calls
  <2>3. Goes(s, c) /\ Still /\ Rests(call[s])
    BY <1>4 DEF ShotBegins, Begins, Goes, Rests, Still
  <2> HIDE DEF c
  <2>4. QED BY <1>1, <2>2, <2>3, GoesTo
<1>5. QED BY <1>2, <1>3, <1>4

(* All of a call but its stage. *)
Alike(c, d) ==
    /\ d.cmd = c.cmd /\ d.elem = c.elem /\ d.obs = c.obs /\ d.node = c.node /\ d.doc = c.doc
    /\ d.epoch = c.epoch /\ d.refs = c.refs /\ d.old = c.old /\ d.truth = c.truth
    /\ d.result = c.result /\ d.read = c.read /\ d.changed = c.changed /\ d.stood = c.stood

LEMMA NextStage ==
    ASSUME NEW c \in Calls, NEW a \in Stages
    PROVE  LET d == [c EXCEPT !.at = a] IN
           d \in Calls /\ d.at = a /\ Alike(c, d) /\ d.start = c.start /\ d.began = c.began
BY DEF Calls, Alike

(* A call whose act is over has its answer, or looks whether the wall is gone. *)
LEMMA AfterAct ==
    ASSUME TypeOK, NEW c \in Calls, NEW r \in Results \ {"dismissed", "settled"}
    PROVE  /\ After(c, r) \in Calls
           /\ \/ Over(After(c, r))
              \/ /\ After(c, r).at = "walking" /\ After(c, r).cmd = "verify"
                 /\ After(c, r).doc = doc /\ After(c, r).obs = 0
                 /\ After(c, r).epoch = c.epoch /\ After(c, r).result = c.result
<1> DEFINE d == [c EXCEPT !.at = "walking", !.cmd = "verify", !.obs = 0, !.node = 0, !.doc = doc]
<1>1. "walking" \in Stages /\ "verify" \in Cmds /\ doc \in Nat
  BY DEF Stages, Cmds, TypeOK, PageOK
<1>2. /\ d \in Calls /\ d.at = "walking" /\ d.cmd = "verify" /\ d.doc = doc /\ d.obs = 0
      /\ d.epoch = c.epoch /\ d.result = c.result
  BY <1>1 DEF Calls
<1>3. After(c, r) = IF c.cmd = "dismiss" THEN d ELSE Answered(r)
  BY DEF After
<1> HIDE DEF d
<1>4. QED BY <1>2, <1>3, AnsweredIsOver

(* Every way for an act, a move, a wait or a screenshot to be over. *)
Ends(s) ==
    \/ Fired(s) \/ Lands(s) \/ Fails(s) \/ MoveEnds(s) \/ MoveBreaks(s)
    \/ WaitTimesOut(s) \/ ShotFails(s)

Ended(s) ==
    /\ call[s].at \in {"acting", "fired", "aimed", "moving", "arrived", "polling", "shooting"}
    /\ \/ Over(call'[s])
       \/ /\ call'[s].at = "walking" /\ call'[s].cmd = "verify"
          /\ call'[s].doc = doc /\ call'[s].obs = 0
          /\ call'[s].epoch = call[s].epoch /\ call'[s].result = call[s].result

LEMMA EndTurn ==
    ASSUME TypeOK, NEW s \in Slots, Ends(s)
    PROVE  OnlyCall(s) /\ Ended(s)
<1>1. CallsOK /\ call[s] \in Calls
  BY DEF TypeOK, CallsOK
<1>2. {"done", "navigated", "notFound", "notActionable", "failed", "timeout"}
         \subseteq Results \ {"dismissed", "settled"}
  BY DEF Results
<1>3. ASSUME NEW r \in {"done", "navigated", "notFound", "notActionable", "failed", "timeout"},
             Answers(s, r)
      PROVE  OnlyCall(s) /\ Over(call'[s])
  BY <1>1, <1>2, <1>3, AnsweredIsOver, GoesTo DEF Answers
<1>4. ASSUME NEW r \in {"done", "navigated", "notFound", "notActionable", "failed"},
             Goes(s, After(call[s], r)), call[s].at \in {"acting", "fired"}
      PROVE  OnlyCall(s) /\ Ended(s)
  <2>1. OnlyCall(s) /\ call'[s] = After(call[s], r)
    BY <1>1, <1>2, <1>4, AfterAct, GoesTo
  <2>2. r \in Results \ {"dismissed", "settled"}
    BY <1>2
  <2>3. /\ After(call[s], r) \in Calls
        /\ \/ Over(After(call[s], r))
           \/ /\ After(call[s], r).at = "walking" /\ After(call[s], r).cmd = "verify"
              /\ After(call[s], r).doc = doc /\ After(call[s], r).obs = 0
              /\ After(call[s], r).epoch = call[s].epoch
              /\ After(call[s], r).result = call[s].result
    BY <1>1, <2>2, AfterAct
  <2>4. QED BY <1>4, <2>1, <2>3 DEF Ended
<1>5. CASE Fired(s)
  BY <1>4, <1>5 DEF Fired
<1>6. CASE Fails(s)
  <2>1. PICK r \in {"navigated", "notFound", "notActionable", "failed"} :
           Goes(s, After(call[s], r))
    BY <1>6 DEF Fails
  <2>2. call[s].at \in {"acting", "fired"}
    BY <1>6 DEF Fails
  <2>3. QED BY <1>4, <2>1, <2>2
<1>7. CASE Lands(s)
  BY <1>3, <1>7 DEF Lands, Ended
<1>8. CASE MoveEnds(s)
  BY <1>3, <1>8 DEF MoveEnds, Ended
<1>9. CASE MoveBreaks(s)
  BY <1>3, <1>9 DEF MoveBreaks, Ended
<1>10. CASE WaitTimesOut(s)
  BY <1>3, <1>10 DEF WaitTimesOut, Ended
<1>11. CASE ShotFails(s)
  BY <1>3, <1>11 DEF ShotFails, Ended
<1>12. QED BY <1>5, <1>6, <1>7, <1>8, <1>9, <1>10, <1>11 DEF Ends

(* The act reaches its element. *)
LEMMA FireTurn ==
    ASSUME TypeOK, NEW s \in Slots, Fires(s)
    PROVE  /\ OnlyCall(s)
           /\ call[s].at = "acting" /\ call'[s].at = "fired" /\ Alike(call[s], call'[s])
           /\ UNCHANGED <<mix, human, eyes, now, lastPos, shots>>
           /\ pointer' \in Elems \cup {Home}
           /\ strayed' = (strayed \/ pointer' # pointer)
<1>1. CallsOK /\ call[s] \in Calls /\ "fired" \in Stages
  BY DEF TypeOK, CallsOK, Stages
<1>2. Goes(s, [call[s] EXCEPT !.at = "fired"]) /\ call[s].at = "acting"
  BY DEF Fires
<1>3. call'[s] = [call[s] EXCEPT !.at = "fired"] /\ OnlyCall(s)
  BY <1>1, <1>2, GoesTo, NextStage
<1>4. pointer' = (IF call[s].cmd \in {"click", "dismiss"} THEN call[s].elem ELSE pointer)
  BY DEF Fires
<1>5. pointer' \in Elems \cup {Home}
  BY <1>2, <1>4 DEF TypeOK, CallsOK, Targets, HandOK
<1>6. UNCHANGED <<mix, human, eyes, now, lastPos, shots>>
  BY DEF Fires
<1>7. strayed' = (strayed \/ pointer' # pointer)
  BY DEF Fires
<1>8. QED BY <1>1, <1>2, <1>3, <1>5, <1>6, <1>7, NextStage

(* The page is walked, or a walk of a page that navigates finds nothing. *)
LEMMA WalkTurn ==
    ASSUME TypeOK, NEW s \in Slots, Walks(s)
    PROVE  LET c == call[s]
               d == call'[s] IN
           /\ OnlyCall(s) /\ Still
           /\ c.at = "walking" /\ d.at = "walked"
           /\ d.cmd = c.cmd /\ d.doc = c.doc /\ d.old = c.old /\ d.elem = c.elem
           /\ d.obs = c.obs /\ d.epoch = c.epoch /\ d.result = c.result
           /\ c.cmd = "verify" => d.truth = shown \cap Walls
           /\ \/ d.refs = [e \in Elems |-> IF e \in shown THEN ver[e] ELSE 0]
              \/ c.doc # doc /\ d.refs = NoRefs
<1> DEFINE full == [e \in Elems |-> IF e \in shown THEN ver[e] ELSE 0]
           truth == IF call[s].cmd = "verify" THEN shown \cap Walls ELSE {}
<1>1. CallsOK /\ call[s] \in Calls /\ "walked" \in Stages
  BY DEF TypeOK, CallsOK, Stages
<1>2. full \in [Elems -> Nat] /\ NoRefs \in [Elems -> Nat] /\ truth \in SUBSET Elems
  BY NoCallType DEF TypeOK, PageOK
<1>3. call[s].at = "walking" /\ Still
  BY DEF Walks, Still
<1>4. PICK refs \in {full} \cup (IF call[s].doc # doc THEN {NoRefs} ELSE {}) :
         Goes(s, [call[s] EXCEPT !.at = "walked", !.refs = refs, !.truth = truth])
  BY DEF Walks
<1> HIDE DEF full, truth
<1>5. refs \in [Elems -> Nat] /\ (refs = full \/ (call[s].doc # doc /\ refs = NoRefs))
  <2>1. refs = full \/ refs \in (IF call[s].doc # doc THEN {NoRefs} ELSE {})
    BY <1>4
  <2>2. CASE refs = full
    BY <1>2, <2>2
  <2>3. CASE refs \in (IF call[s].doc # doc THEN {NoRefs} ELSE {})
    <3>1. call[s].doc # doc /\ refs = NoRefs
      BY <2>3, Zenon
    <3>2. QED BY <1>2, <3>1
  <2>4. QED BY <2>1, <2>2, <2>3
<1> DEFINE d == [call[s] EXCEPT !.at = "walked", !.refs = refs, !.truth = truth]
<1>6. /\ d \in Calls /\ d.at = "walked" /\ d.refs = refs /\ d.truth = truth
      /\ d.cmd = call[s].cmd /\ d.doc = call[s].doc /\ d.old = call[s].old /\ d.elem = call[s].elem
      /\ d.obs = call[s].obs /\ d.epoch = call[s].epoch /\ d.result = call[s].result
  BY <1>1, <1>2, <1>5 DEF Calls
<1> HIDE DEF d
<1>7. OnlyCall(s) /\ call'[s] = d
  BY <1>1, <1>4, <1>6, GoesTo DEF d
<1>8. QED BY <1>3, <1>5, <1>6, <1>7 DEF full, truth

(* An observation is cached and handed out, and answered or gone on from. *)
LEMMA CacheTurn ==
    ASSUME TypeOK, NEW s \in Slots, Caches(s)
    PROVE  LET c == call[s]
               d == call'[s] IN
           /\ OnlyCall(s) /\ UNCHANGED <<mix, page, human, now, hand, shots>>
           /\ c.at = "walked"
           /\ cache' = [by |-> Len(given) + 1, refs |-> c.refs]
           /\ given' = Append(given, c.refs)
           /\ \/ Over(d)
              \/ /\ d.at = "picking" /\ d.result = c.result
                 /\ d.doc = c.doc /\ d.epoch = c.epoch
              \/ /\ d.at = "answered" /\ d.result = "dismissed"
                 /\ c.cmd = "verify"
                 /\ OverlayGone(c.old, WallsIn(c.refs), c.elem)
                 /\ d.elem = c.elem /\ d.doc = c.doc /\ d.refs = c.refs
                 /\ d.old = c.old /\ d.truth = c.truth /\ d.epoch = c.epoch
<1> DEFINE c == call[s]
           n == Len(given) + 1
           p == [c EXCEPT !.at = "picking", !.obs = n, !.old = WallsIn(c.refs)]
           g == [c EXCEPT !.at = "answered", !.result = "dismissed"]
           d == CASE c.cmd = "observe" -> Answered("done")
                  [] c.cmd = "dismiss" -> p
                  [] c.cmd = "verify" -> IF OverlayGone(c.old, WallsIn(c.refs), c.elem)
                                         THEN g ELSE Answered("kept")
<1>1. /\ CallsOK /\ c \in Calls /\ n \in Nat /\ WallsIn(c.refs) \in SUBSET Elems
      /\ {"picking", "answered"} \subseteq Stages /\ "dismissed" \in Results
      /\ Watches(c) /\ c.at = "walked"
  <2>1. CallsOK /\ c \in Calls /\ n \in Nat
    BY DEF TypeOK, CallsOK, EyesOK
  <2>2. WallsIn(c.refs) \in SUBSET Elems
    BY ActionsAssumption DEF ActionsAssumption, WallsIn
  <2>3. Watches(c) /\ c.at = "walked"
    BY DEF TypeOK, CallsOK, Caches
  <2>4. QED BY <2>1, <2>2, <2>3 DEF Stages, Results
<1>2. p \in Calls /\ p.at = "picking" /\ p.result = c.result /\ p.doc = c.doc /\ p.epoch = c.epoch
  BY <1>1 DEF Calls
<1>3. /\ g \in Calls /\ g.at = "answered" /\ g.result = "dismissed" /\ g.elem = c.elem
      /\ g.doc = c.doc /\ g.refs = c.refs /\ g.old = c.old /\ g.truth = c.truth
      /\ g.epoch = c.epoch
  BY <1>1 DEF Calls
<1>4. /\ {Answered("done"), Answered("kept")} \subseteq Calls
      /\ Over(Answered("done")) /\ Over(Answered("kept"))
  BY AnsweredIsOver DEF Results
<1>5. /\ Goes(s, d) /\ c.at = "walked"
      /\ UNCHANGED <<mix, page, human, now, hand, shots>>
      /\ cache' = [by |-> Len(given) + 1, refs |-> c.refs]
      /\ given' = Append(given, c.refs)
  BY DEF Caches
<1> HIDE DEF p, g
<1>6. \/ c.cmd = "observe" /\ d = Answered("done")
      \/ c.cmd = "dismiss" /\ d = p
      \/ c.cmd = "verify" /\ OverlayGone(c.old, WallsIn(c.refs), c.elem) /\ d = g
      \/ d = Answered("kept")
  BY <1>1 DEF Watches
<1> HIDE DEF d
<1>7. d \in Calls
  BY <1>2, <1>3, <1>4, <1>6
<1>8. OnlyCall(s) /\ call'[s] = d
  BY <1>1, <1>5, <1>7, GoesTo
<1>9. QED BY <1>2, <1>3, <1>4, <1>5, <1>6, <1>8

(* Dismiss has nothing to click, clicks, or is refused and looks again. *)
LEMMA PickTurn ==
    ASSUME TypeOK, NEW s \in Slots, Picked(s)
    PROVE  LET c == call[s]
               d == call'[s] IN
           /\ OnlyCall(s) /\ Still
           /\ c.at = "picking"
           /\ \/ Over(d)
              \/ /\ d.at = "acting" /\ d.result = c.result /\ d.elem \in Elems
                 /\ d.obs = c.obs /\ d.doc = doc /\ d.epoch = begun
                 /\ NotPaused("dismiss")
                 /\ RefFound(c.obs, d.elem) /\ d.node = cache.refs[d.elem]
              \/ /\ d.at = "walking" /\ d.cmd = "verify" /\ d.doc = doc /\ d.obs = 0
                 /\ d.epoch = c.epoch /\ d.result = c.result
<1> DEFINE c == call[s]
<1>1. CallsOK /\ c \in Calls /\ "acting" \in Stages /\ c.at = "picking" /\ Still
  BY DEF TypeOK, CallsOK, Stages, Picked, Still
<1>2. CASE Picks(c) = {}
  <2>1. Goes(s, Answered("kept"))
    BY <1>2 DEF Picked, Answers
  <2>2. "kept" \in Results \ {"dismissed", "settled"}
    BY DEF Results
  <2>3. QED BY <1>1, <2>1, <2>2, AnsweredIsOver, GoesTo
<1>3. CASE Picks(c) # {}
  <2> DEFINE d(e) == [c EXCEPT !.elem = e, !.refs = NoRefs]
             a(e) == [d(e) EXCEPT !.at = "acting", !.node = cache.refs[e], !.doc = doc, !.epoch = begun]
             ok(e) == NotPaused("dismiss") /\ RefFound(c.obs, e)
  <2>1. PICK e \in Picks(c) : Goes(s, IF ok(e) THEN a(e) ELSE After(d(e), "refused"))
    BY <1>3 DEF Picked
  <2>2. e \in Elems
    BY ActionsAssumption DEF ActionsAssumption, Picks
  <2>3. d(e) \in Calls /\ d(e).elem = e /\ d(e).obs = c.obs /\ d(e).epoch = c.epoch /\ d(e).result = c.result
    BY <1>1, <2>2, NoCallType DEF Calls
  <2> HIDE DEF d
  <2>4. cache.refs[e] \in Nat /\ doc \in Nat /\ begun \in Nat
    BY <2>2 DEF TypeOK, EyesOK, PageOK, HumanOK
  <2>5. /\ a(e) \in Calls /\ a(e).at = "acting" /\ a(e).result = c.result /\ a(e).elem = e
        /\ a(e).obs = c.obs /\ a(e).doc = doc /\ a(e).epoch = begun /\ a(e).node = cache.refs[e]
    BY <1>1, <2>3, <2>4 DEF Calls
  <2> HIDE DEF a
  <2>6. "refused" \in Results \ {"dismissed", "settled"}
    BY DEF Results
  <2>7. /\ After(d(e), "refused") \in Calls
        /\ \/ Over(After(d(e), "refused"))
           \/ /\ After(d(e), "refused").at = "walking" /\ After(d(e), "refused").cmd = "verify"
              /\ After(d(e), "refused").doc = doc /\ After(d(e), "refused").obs = 0
              /\ After(d(e), "refused").epoch = c.epoch
              /\ After(d(e), "refused").result = c.result
    BY <2>3, <2>6, AfterAct
  <2>8. CASE ok(e)
    <3>1. Goes(s, a(e))
      BY <2>1, <2>8
    <3>2. OnlyCall(s) /\ call'[s] = a(e)
      BY <1>1, <2>5, <3>1, GoesTo
    <3>3. QED BY <1>1, <2>2, <2>5, <2>8, <3>2
  <2>9. CASE ~ok(e)
    <3>1. Goes(s, After(d(e), "refused"))
      BY <2>1, <2>9
    <3>2. OnlyCall(s) /\ call'[s] = After(d(e), "refused")
      BY <1>1, <2>7, <3>1, GoesTo
    <3>3. QED BY <1>1, <2>7, <3>2
  <2>10. QED BY <2>8, <2>9
<1>4. QED BY <1>2, <1>3

(* A move aims from where it believes the pointer is, goes there, and on. *)
LEMMA MoveTurn ==
    ASSUME TypeOK, NEW s \in Slots
    PROVE  /\ Aims(s) \/ MoveStarts(s) \/ MoveArrives(s) =>
                /\ OnlyCall(s) /\ Alike(call[s], call'[s])
                /\ UNCHANGED <<mix, page, human, eyes, now, lastPos, shots>>
                /\ strayed' = (strayed \/ OtherMoves(s))
           /\ Aims(s) =>
                /\ call[s].at = "acting" /\ call'[s].at = "aimed"
                /\ call'[s].start = lastPos /\ pointer' = pointer
           /\ MoveStarts(s) =>
                /\ call[s].at = "aimed" /\ call'[s].at = "moving" /\ pointer' = call[s].start
           /\ MoveArrives(s) =>
                /\ call[s].at = "moving" /\ call'[s].at = "arrived" /\ pointer' = call[s].elem
<1>1. /\ CallsOK /\ call[s] \in Calls /\ {"aimed", "moving", "arrived"} \subseteq Stages
      /\ lastPos \in Elems \cup {Home}
  BY DEF TypeOK, CallsOK, HandOK, Stages
<1>2. ASSUME Aims(s)
      PROVE  /\ OnlyCall(s) /\ Alike(call[s], call'[s])
             /\ UNCHANGED <<mix, page, human, eyes, now, pointer, lastPos, shots>>
             /\ strayed' = (strayed \/ OtherMoves(s))
             /\ call[s].at = "acting" /\ call'[s].at = "aimed" /\ call'[s].start = lastPos
  <2> DEFINE d == [call[s] EXCEPT !.at = "aimed", !.start = lastPos]
  <2>1. d \in Calls /\ d.at = "aimed" /\ d.start = lastPos /\ Alike(call[s], d)
    BY <1>1 DEF Calls, Alike
  <2>2. /\ Goes(s, d) /\ call[s].at = "acting" /\ strayed' = (strayed \/ OtherMoves(s))
        /\ UNCHANGED <<mix, page, human, eyes, now, pointer, lastPos, shots>>
    BY <1>2 DEF Aims
  <2> HIDE DEF d
  <2>3. QED BY <1>1, <2>1, <2>2, GoesTo
<1>3. ASSUME NEW a \in Stages, NEW b \in Stages, NEW w, MoveTo(s, a, b, w)
      PROVE  /\ OnlyCall(s) /\ Alike(call[s], call'[s])
             /\ UNCHANGED <<mix, page, human, eyes, now, lastPos, shots>>
             /\ strayed' = (strayed \/ OtherMoves(s))
             /\ call[s].at = a /\ call'[s].at = b /\ pointer' = w
  <2>1. call'[s] = [call[s] EXCEPT !.at = b] /\ OnlyCall(s)
    BY <1>1, <1>3, GoesTo, NextStage DEF MoveTo
  <2>2. QED BY <1>1, <1>3, <2>1, NextStage DEF MoveTo
<1>4. QED BY <1>1, <1>2, <1>3 DEF MoveStarts, MoveArrives

(* A poll takes the time and begins to read. *)
LEMMA PollTurn ==
    ASSUME TypeOK, NEW s \in Slots, Polls(s)
    PROVE  /\ OnlyCall(s) /\ Still
           /\ call[s].at = "polling" /\ call'[s].at = "reading"
           /\ Alike(call[s], call'[s]) /\ call'[s].began = now
<1> DEFINE d == [call[s] EXCEPT !.at = "reading", !.began = now]
<1>1. CallsOK /\ call[s] \in Calls /\ "reading" \in Stages /\ now \in Nat
  BY DEF TypeOK, CallsOK, PageOK, Stages
<1>2. d \in Calls /\ d.at = "reading" /\ d.began = now /\ Alike(call[s], d)
  BY <1>1 DEF Calls, Alike
<1>3. Goes(s, d) /\ Still /\ call[s].at = "polling"
  BY DEF Polls, Still
<1> HIDE DEF d
<1>4. QED BY <1>1, <1>2, <1>3, GoesTo

(* What a read makes of a wait. *)
ReadFails(c, d) ==
    /\ d.read = c.read /\ d.changed = c.changed
    /\ \/ d.at = "polling" /\ d.result = c.result
       \/ d.at = "answered" /\ d.result = "settledUnread"

ReadSees(c, d) ==
    /\ c.elem \in shown
    /\ d.read = ver[c.elem]
    /\ d.changed = IF ver[c.elem] = c.read THEN c.changed ELSE c.began
    /\ \/ d.at = "polling" /\ d.result = c.result
       \/ /\ d.at = "answered" /\ d.result = "settled"
          /\ d.stood = since[c.elem]
          /\ d.began - d.changed >= Quiet

LEMMA ReadTurn ==
    ASSUME TypeOK, NEW s \in Slots, Reads(s)
    PROVE  LET c == call[s]
               d == call'[s] IN
           /\ OnlyCall(s) /\ Still
           /\ c.at = "reading"
           /\ d.elem = c.elem /\ d.began = c.began /\ d.obs = c.obs
           /\ d.doc = c.doc /\ d.epoch = c.epoch
           /\ ReadFails(c, d) \/ ReadSees(c, d)
<1> DEFINE c == call[s]
           Sight(ok) == Sees(c, IF ok THEN ver[c.elem] ELSE c.read)
           Answer(ok) == [Sight(ok) EXCEPT !.at = "answered", !.stood = since[c.elem],
                                           !.result = IF ok THEN "settled" ELSE "settledUnread"]
           Quieted(ok) == Sight(ok).read # 0 /\ Sight(ok).began - Sight(ok).changed >= Quiet
<1>1. /\ CallsOK /\ c \in Calls /\ {"polling", "answered"} \subseteq Stages
      /\ c.at = "reading" /\ c.elem \in Elems /\ Still
  BY DEF TypeOK, CallsOK, Targets, Stages, Reads, Still
<1>2. PICK ok \in {c.elem \in shown, FALSE} :
         Goes(s, IF Quieted(ok) THEN Answer(ok) ELSE [Sight(ok) EXCEPT !.at = "polling"])
  BY DEF Reads
<1> DEFINE text == IF ok THEN ver[c.elem] ELSE c.read
           result == IF ok THEN "settled" ELSE "settledUnread"
           d == Sight(ok)
           a == Answer(ok)
           b == [d EXCEPT !.at = "polling"]
           settled == Quieted(ok)
<1>3. ver[c.elem] \in Nat /\ since[c.elem] \in Nat
  BY <1>1 DEF TypeOK, PageOK
<1>4. c.read \in Nat
  BY <1>1 DEF Calls
<1>5. text \in Nat /\ result \in Results
  BY <1>3, <1>4 DEF Results
<1>6. /\ ok => c.elem \in shown /\ text = ver[c.elem] /\ result = "settled"
      /\ ~ok => text = c.read /\ result = "settledUnread"
  OBVIOUS
<1>7. /\ Goes(s, IF settled THEN a ELSE b)
      /\ d = Sees(c, text)
      /\ a = [d EXCEPT !.at = "answered", !.stood = since[c.elem], !.result = result]
      /\ settled => d.began - d.changed >= Quiet
  BY <1>2
<1> HIDE DEF text, result, d, a, settled, c
<1>8. /\ d \in Calls /\ d.read = text
      /\ d.changed = (IF text = c.read THEN c.changed ELSE c.began)
      /\ d.elem = c.elem /\ d.began = c.began /\ d.obs = c.obs
      /\ d.doc = c.doc /\ d.epoch = c.epoch /\ d.result = c.result
  <2>1. CASE text = c.read
    <3>1. d = c
      BY <1>7, <2>1 DEF Sees
    <3>2. QED BY <1>1, <2>1, <3>1
  <2>2. CASE text # c.read
    <3>1. d = [c EXCEPT !.read = text, !.changed = c.began]
      BY <1>7, <2>2 DEF Sees
    <3>2. c \in Calls /\ text \in Nat
      BY <1>1, <1>5
    <3>3. /\ d \in Calls /\ d.read = text /\ d.changed = c.began
          /\ d.elem = c.elem /\ d.began = c.began /\ d.obs = c.obs
          /\ d.doc = c.doc /\ d.epoch = c.epoch /\ d.result = c.result
      BY <3>1, <3>2 DEF Calls
    <3>4. QED BY <2>2, <3>3
  <2>3. QED BY <2>1, <2>2
<1>9. b \in Calls /\ b.at = "polling" /\ b.began = d.began /\ Alike(d, b)
  BY <1>1, <1>8, NextStage
<1>10. /\ a \in Calls /\ a.at = "answered" /\ a.stood = since[c.elem] /\ a.result = result
       /\ a.read = d.read /\ a.changed = d.changed /\ a.elem = d.elem
       /\ a.began = d.began /\ a.obs = d.obs /\ a.doc = d.doc /\ a.epoch = d.epoch
  <2>1. d \in Calls /\ result \in Results /\ since[c.elem] \in Nat
    BY <1>3, <1>5, <1>8
  <2>2. a = [d EXCEPT !.at = "answered", !.stood = since[c.elem], !.result = result]
    BY <1>7
  <2>3. QED BY <1>1, <2>1, <2>2 DEF Calls
<1> HIDE DEF b
<1>11. CASE settled
  <2>1. OnlyCall(s) /\ call'[s] = a
    BY <1>1, <1>7, <1>10, <1>11, GoesTo
  <2>2. a.began - a.changed >= Quiet
    BY <1>7, <1>10, <1>11
  <2>3. ok => ReadSees(c, a)
    BY <1>6, <1>8, <1>10, <2>2 DEF ReadSees
  <2>4. ~ok => ReadFails(c, a)
    BY <1>6, <1>8, <1>10 DEF ReadFails
  <2>5. QED BY <1>1, <1>8, <1>10, <2>1, <2>3, <2>4 DEF c
<1>12. CASE ~settled
  <2>1. OnlyCall(s) /\ call'[s] = b
    BY <1>1, <1>7, <1>9, <1>12, GoesTo
  <2>2. ok => ReadSees(c, b)
    BY <1>6, <1>8, <1>9 DEF ReadSees, Alike
  <2>3. ~ok => ReadFails(c, b)
    BY <1>6, <1>8, <1>9 DEF ReadFails, Alike
  <2>4. QED BY <1>1, <1>8, <1>9, <2>1, <2>2, <2>3 DEF Alike, c
<1>13. QED BY <1>11, <1>12

(* A screenshot is written, the directory is listed, the files to go are removed. *)
LEMMA ShotTurn ==
    ASSUME TypeOK, NEW s \in Slots
    PROVE  /\ Shot(s) \/ Lists(s) \/ Prunes(s) =>
                OnlyCall(s) /\ UNCHANGED <<mix, page, human, eyes, now, hand>>
           /\ Shot(s) =>
                /\ call[s].at = "shooting" /\ call'[s].at = "listing" /\ Alike(call[s], call'[s])
                /\ \E f \in Names : shots' = shots \cup {f}
           /\ Lists(s) =>
                /\ call[s].at = "listing" /\ call'[s].at = "pruning" /\ Alike(call[s], call'[s])
                /\ call'[s].files = Stale(shots) /\ shots' = shots
           /\ Prunes(s) =>
                /\ call[s].at = "pruning"
                /\ \/ call[s].files = {} /\ shots' = shots /\ Over(call'[s])
                   \/ /\ call'[s].at = "pruning" /\ Alike(call[s], call'[s])
                      /\ \E f \in call[s].files :
                            shots' = shots \ {f} /\ call'[s].files = call[s].files \ {f}
<1>1. /\ CallsOK /\ call[s] \in Calls /\ {"listing", "pruning"} \subseteq Stages
      /\ "done" \in Results \ {"dismissed", "settled"} /\ Stale(shots) \in SUBSET Names
  BY DEF TypeOK, CallsOK, ShotsOK, Stages, Results, Stale
<1>2. ASSUME Shot(s)
      PROVE  /\ OnlyCall(s) /\ UNCHANGED <<mix, page, human, eyes, now, hand>>
             /\ call[s].at = "shooting" /\ call'[s].at = "listing" /\ Alike(call[s], call'[s])
             /\ \E f \in Names : shots' = shots \cup {f}
  <2>1. call'[s] = [call[s] EXCEPT !.at = "listing"] /\ OnlyCall(s)
    BY <1>1, <1>2, GoesTo, NextStage DEF Shot
  <2>2. QED BY <1>1, <1>2, <2>1, NextStage DEF Shot
<1>3. ASSUME Lists(s)
      PROVE  /\ OnlyCall(s) /\ UNCHANGED <<mix, page, human, eyes, now, hand, shots>>
             /\ call[s].at = "listing" /\ call'[s].at = "pruning" /\ Alike(call[s], call'[s])
             /\ call'[s].files = Stale(shots)
  <2> DEFINE d == [call[s] EXCEPT !.at = "pruning", !.files = Stale(shots)]
  <2>1. d \in Calls /\ d.at = "pruning" /\ d.files = Stale(shots) /\ Alike(call[s], d)
    BY <1>1 DEF Calls, Alike
  <2>2. Goes(s, d) /\ call[s].at = "listing" /\ UNCHANGED <<mix, page, human, eyes, now, hand, shots>>
    BY <1>3 DEF Lists
  <2> HIDE DEF d
  <2>3. QED BY <1>1, <2>1, <2>2, GoesTo
<1>4. ASSUME Prunes(s)
      PROVE  /\ OnlyCall(s) /\ UNCHANGED <<mix, page, human, eyes, now, hand>>
             /\ call[s].at = "pruning"
             /\ \/ call[s].files = {} /\ shots' = shots /\ Over(call'[s])
                \/ /\ call'[s].at = "pruning" /\ Alike(call[s], call'[s])
                   /\ \E f \in call[s].files :
                         shots' = shots \ {f} /\ call'[s].files = call[s].files \ {f}
  <2>1. call[s].at = "pruning" /\ UNCHANGED <<mix, page, human, eyes, now, hand>>
    BY <1>4 DEF Prunes
  <2>2. CASE call[s].files = {}
    <3>1. Goes(s, Answered("done")) /\ shots' = shots
      BY <1>4, <2>2 DEF Prunes, Answers
    <3>2. QED BY <1>1, <2>1, <2>2, <3>1, AnsweredIsOver, GoesTo
  <2>3. CASE call[s].files # {}
    <3>1. PICK f \in call[s].files :
             /\ shots' = shots \ {f}
             /\ Goes(s, [call[s] EXCEPT !.files = @ \ {f}])
      BY <1>4, <2>3 DEF Prunes
    <3> DEFINE d == [call[s] EXCEPT !.files = @ \ {f}]
    <3>2. d \in Calls /\ d.at = call[s].at /\ d.files = call[s].files \ {f} /\ Alike(call[s], d)
      BY <1>1 DEF Calls, Alike
    <3>3. Goes(s, d)
      BY <3>1
    <3> HIDE DEF d
    <3>4. QED BY <1>1, <2>1, <3>1, <3>2, <3>3, GoesTo
  <2>4. QED BY <2>2, <2>3
<1>5. QED BY <1>2, <1>3, <1>4

-----------------------------------------------------------------------------
(***************************************************************************)
(* The steps of the system, and what each leaves alone.                    *)
(***************************************************************************)
Begin(s) ==
    \/ \E cmd \in Acts, e \in mix.elems, n \in 0..Len(given) : Act(s, cmd, e, n)
    \/ \E cmd \in {"observe", "dismiss"} : Looks(s, cmd)
    \/ \E e \in mix.elems : WaitBegins(s, e)
    \/ ShotBegins(s)

Moves(s) == Aims(s) \/ MoveStarts(s) \/ MoveArrives(s)

Turn(s) ==
    \/ Begin(s) \/ Ends(s) \/ Fires(s) \/ Walks(s) \/ Caches(s) \/ Picked(s) \/ Moves(s)
    \/ Polls(s) \/ Reads(s) \/ Shot(s) \/ Lists(s) \/ Prunes(s)

LEMMA Steps ==
    Next => PageChanges \/ Pause \/ Tick \/ (\E p \in pending : Resume(p)) \/ (\E s \in Slots : Turn(s))
BY DEF Next, Turn, Begin, Moves, Ends

(* The page only goes on: an element that is shown without a new version was
   shown before, and has not changed since. *)
PageGoesOn ==
    /\ PageOK'
    /\ doc <= doc'
    /\ \A e \in Elems :
          /\ ver[e] <= ver'[e]
          /\ ver'[e] = ver[e] /\ e \in shown' => e \in shown /\ since'[e] = since[e]
          /\ since'[e] \in {since[e], now}

LEMMA SamePage == ASSUME PageOK, UNCHANGED <<page, now>> PROVE PageGoesOn
BY DEF PageOK, PageGoesOn, page

LEMMA ChangedSince ==
    ASSUME PageOK, NEW S, Changed(S)
    PROVE  /\ since' \in [Elems -> Nat]
           /\ \A e \in Elems : since'[e] \in {since[e], now} /\ (e \notin S => since'[e] = since[e])
BY DEF PageOK, Changed

LEMMA VanishesGoesOn ==
    ASSUME PageOK, NEW e \in Elems, Vanishes(e), now' = now PROVE PageGoesOn
<1>1. /\ since' \in [Elems -> Nat]
      /\ \A f \in Elems : since'[f] \in {since[f], now} /\ (f \notin {e} => since'[f] = since[f])
  BY ChangedSince DEF Vanishes
<1>2. shown' = shown \ {e} /\ ver' = ver /\ doc' = doc
  BY DEF Vanishes
<1>3. QED BY <1>1, <1>2 DEF PageOK, PageGoesOn

LEMMA RendersGoesOn ==
    ASSUME PageOK, NEW e \in Elems, Renders(e), now' = now PROVE PageGoesOn
<1>1. /\ since' \in [Elems -> Nat]
      /\ \A f \in Elems : since'[f] \in {since[f], now} /\ (f \notin {e} => since'[f] = since[f])
  BY ChangedSince DEF Renders
<1>2. shown' = shown \cup {e} /\ ver' = [ver EXCEPT ![e] = @ + 1] /\ doc' = doc
  BY DEF Renders
<1>3. /\ ver' \in [Elems -> Nat \ {0}] /\ ver'[e] = ver[e] + 1
      /\ \A f \in Elems \ {e} : ver'[f] = ver[f]
  BY <1>2 DEF PageOK
<1>4. QED BY <1>1, <1>2, <1>3 DEF PageOK, PageGoesOn

LEMMA LoadsGoesOn ==
    ASSUME PageOK, mix \in Mixes, Loads, now' = now PROVE PageGoesOn
<1>1. /\ since' \in [Elems -> Nat]
      /\ \A f \in Elems : since'[f] \in {since[f], now}
  BY ChangedSince DEF Loads
<1>2. shown' \in SUBSET Elems /\ doc' = doc + 1
  BY Elements DEF Loads
<1>3. ver' = [e \in Elems |-> IF e \in shown' THEN ver[e] + 1 ELSE ver[e]]
  BY DEF Loads
<1>4. /\ ver' \in [Elems -> Nat \ {0}]
      /\ \A e \in Elems : ver'[e] = IF e \in shown' THEN ver[e] + 1 ELSE ver[e]
  BY <1>3 DEF PageOK
<1>5. QED BY <1>1, <1>2, <1>4 DEF PageOK, PageGoesOn

(* A turn of a call leaves the human, the clock and the other calls alone. *)
LEMMA TurnFrame ==
    ASSUME TypeOK, NEW s \in Slots, Turn(s)
    PROVE  OnlyCall(s) /\ PageGoesOn /\ UNCHANGED <<mix, human, now>>
<1>1. PageOK /\ mix \in Mixes
  BY DEF TypeOK
<1>2. CASE Begin(s)
  <2>1. OnlyCall(s) /\ Still
    BY <1>2, ActTurn, OtherBeginnings DEF Begin
  <2>2. QED BY <1>1, <2>1, SamePage DEF Still
<1>3. CASE Ends(s)
  <2>1. OnlyCall(s)
    BY <1>3, EndTurn
  <2>2. UNCHANGED <<mix, human, now>>
    BY <1>3 DEF Ends, Fired, Lands, Fails, MoveEnds, MoveBreaks, WaitTimesOut, ShotFails
  <2>3. CASE Lands(s)
    BY <1>1, <2>1, <2>2, <2>3, LoadsGoesOn DEF Lands
  <2>4. CASE ~Lands(s)
    <3>1. UNCHANGED <<page, now>>
      BY <1>3, <2>4 DEF Ends, Fired, Fails, MoveEnds, MoveBreaks, WaitTimesOut, ShotFails
    <3>2. QED BY <1>1, <2>1, <2>2, <3>1, SamePage
  <2>5. QED BY <2>3, <2>4
<1>4. CASE Fires(s)
  <2>1. OnlyCall(s) /\ UNCHANGED <<mix, human, now>>
    BY <1>4, FireTurn
  <2>2. UNCHANGED page \/ (call[s].elem \in Walls /\ Vanishes(call[s].elem))
    BY <1>4 DEF Fires
  <2>3. CASE UNCHANGED page
    BY <1>1, <2>1, <2>3, SamePage
  <2>4. CASE call[s].elem \in Walls /\ Vanishes(call[s].elem)
    <3>1. call[s].elem \in Elems
      BY <2>4, ActionsAssumption DEF ActionsAssumption
    <3>2. QED BY <1>1, <2>1, <2>4, <3>1, VanishesGoesOn
  <2>5. QED BY <2>2, <2>3, <2>4
<1>5. CASE Walks(s) \/ Picked(s) \/ Polls(s) \/ Reads(s)
  <2>1. OnlyCall(s) /\ Still
    BY <1>5, WalkTurn, PickTurn, PollTurn, ReadTurn
  <2>2. QED BY <1>1, <2>1, SamePage DEF Still
<1>6. CASE Caches(s)
  BY <1>1, <1>6, CacheTurn, SamePage
<1>7. CASE Moves(s)
  BY <1>1, <1>7, MoveTurn, SamePage DEF Moves
<1>8. CASE Shot(s) \/ Lists(s) \/ Prunes(s)
  BY <1>1, <1>8, ShotTurn, SamePage
<1>9. QED BY <1>2, <1>3, <1>4, <1>5, <1>6, <1>7, <1>8 DEF Turn

(* Every step is a step of the page, of the human, of the clock, or a turn. *)
LEMMA StepFrame ==
    ASSUME TypeOK, [Next]_vars
    PROVE  \/ UNCHANGED vars
           \/ PageGoesOn /\ UNCHANGED <<mix, human, call, now, hand, shots>> /\ PageChanges
           \/ Pause /\ PageGoesOn
           \/ (\E p \in pending : Resume(p)) /\ PageGoesOn
           \/ Tick
           \/ \E s \in Slots : Turn(s)
<1>1. PageOK /\ mix \in Mixes /\ \A e \in mix.elems : e \in Elems
  BY Elements DEF TypeOK
<1>2. CASE PageChanges
  <2>1. UNCHANGED <<mix, human, call, now, hand, shots>>
    BY <1>2 DEF PageChanges
  <2>2. PageGoesOn
    BY <1>1, <1>2, <2>1, VanishesGoesOn, RendersGoesOn, LoadsGoesOn DEF PageChanges
  <2>3. QED BY <1>2, <2>1, <2>2
<1>3. CASE Pause
  BY <1>1, <1>3, SamePage DEF Pause
<1>4. CASE \E p \in pending : Resume(p)
  BY <1>1, <1>4, SamePage DEF Resume
<1>5. QED BY <1>2, <1>3, <1>4, Steps

(* What is cached was handed out by the last observe, or the cache is dropped. *)
LEMMA EyesFrame ==
    ASSUME TypeOK, [Next]_vars
    PROVE  \/ UNCHANGED eyes
           \/ cache' = NoCache /\ given' = given
           \/ \E s \in Slots : /\ cache' = [by |-> Len(given) + 1, refs |-> call[s].refs]
                               /\ given' = Append(given, call[s].refs)
<1>1. ASSUME NEW s \in Slots, Turn(s)
      PROVE  \/ UNCHANGED eyes
             \/ cache' = NoCache /\ given' = given
             \/ /\ cache' = [by |-> Len(given) + 1, refs |-> call[s].refs]
                /\ given' = Append(given, call[s].refs)
  <2>1. CASE Begin(s)
    BY <2>1, ActTurn, OtherBeginnings DEF Begin, Still
  <2>2. CASE Ends(s)
    <3>1. CASE Lands(s)
      BY <3>1 DEF Lands, Loads
    <3>2. CASE ~Lands(s)
      BY <2>2, <3>2 DEF Ends, Fired, Fails, MoveEnds, MoveBreaks, WaitTimesOut, ShotFails
    <3>3. QED BY <3>1, <3>2
  <2>3. CASE Walks(s) \/ Picked(s) \/ Polls(s) \/ Reads(s)
    BY <2>3, WalkTurn, PickTurn, PollTurn, ReadTurn DEF Still
  <2>4. CASE Caches(s)
    BY <2>4, CacheTurn
  <2>5. CASE Fires(s) \/ Moves(s) \/ Shot(s) \/ Lists(s) \/ Prunes(s)
    BY <2>5, FireTurn, MoveTurn, ShotTurn DEF Moves
  <2>6. QED BY <1>1, <2>1, <2>2, <2>3, <2>4, <2>5 DEF Turn
<1>2. CASE PageChanges
  BY <1>2 DEF PageChanges, Loads
<1>3. CASE Pause \/ Tick \/ UNCHANGED vars \/ \E p \in pending : Resume(p)
  BY <1>3 DEF Pause, Tick, Resume, vars
<1>4. QED BY <1>1, <1>2, <1>3, Steps

LEMMA StartsTyped == Init => TypeOK
<1> SUFFICES ASSUME Init PROVE TypeOK
  OBVIOUS
<1>1. PageOK
  BY Elements DEF Init, PageOK
<1>2. HumanOK /\ HandOK
  BY DEF Init, HumanOK, HandOK
<1>3. EyesOK
  BY NoCallType DEF Init, EyesOK, NoCache
<1>4. CallsOK
  <2>1. Targets(NoCall) /\ Watches(NoCall)
    BY DEF Targets, Watches, NoCall
  <2>2. call = [s \in Slots |-> NoCall]
    BY DEF Init
  <2>3. QED BY <2>1, <2>2, NoCallType DEF CallsOK
<1>5. ShotsOK
  BY FS_EmptySet DEF Init, ShotsOK
<1>6. mix \in Mixes
  BY DEF Init
<1>7. QED BY <1>1, <1>2, <1>3, <1>4, <1>5, <1>6 DEF TypeOK

LEMMA CallsStayTyped ==
    ASSUME TypeOK, NEW s \in Slots, Turn(s)
    PROVE  CallsOK'
<1> DEFINE c == call[s]
           d == call'[s]
<1>1. OnlyCall(s) /\ CallsOK
  BY TurnFrame DEF TypeOK
<1>2. Targets(c) /\ Watches(c)
  BY DEF TypeOK, CallsOK
<1>3. SUFFICES Targets(d) /\ Watches(d)
  BY <1>1 DEF OnlyCall, CallsOK
<1>4. CASE Begin(s)
  BY <1>4, ActTurn, OtherBeginnings DEF Begin, Targets, Watches, Over
<1>5. CASE Ends(s)
  BY <1>5, EndTurn DEF Ended, Targets, Watches, Over
<1>6. CASE Fires(s)
  BY <1>2, <1>6, FireTurn DEF Alike, Targets, Watches
<1>7. CASE Walks(s)
  BY <1>2, <1>7, WalkTurn DEF Targets, Watches
<1>8. CASE Caches(s)
  BY <1>8, CacheTurn DEF Targets, Watches, Over
<1>9. CASE Picked(s)
  BY <1>9, PickTurn DEF Targets, Watches, Over
<1>10. CASE Moves(s)
  BY <1>2, <1>10, MoveTurn DEF Moves, Alike, Targets, Watches
<1>11. CASE Polls(s)
  BY <1>2, <1>11, PollTurn DEF Alike, Targets, Watches
<1>12. CASE Reads(s)
  BY <1>2, <1>12, ReadTurn DEF ReadFails, ReadSees, Targets, Watches
<1>13. CASE Shot(s) \/ Lists(s) \/ Prunes(s)
  BY <1>13, ShotTurn DEF Targets, Watches, Over
<1>14. QED BY <1>4, <1>5, <1>6, <1>7, <1>8, <1>9, <1>10, <1>11, <1>12, <1>13 DEF Turn

LEMMA EyesStayTyped ==
    ASSUME TypeOK, [Next]_vars
    PROVE  EyesOK'
<1>1. EyesOK /\ \A s \in Slots : call[s].refs \in [Elems -> Nat]
  BY DEF TypeOK, CallsOK, Calls
<1>2. CASE UNCHANGED eyes
  BY <1>1, <1>2 DEF EyesOK, eyes
<1>3. CASE cache' = NoCache /\ given' = given
  BY <1>1, <1>3, NoCallType DEF EyesOK, NoCache
<1>4. ASSUME NEW s \in Slots,
             cache' = [by |-> Len(given) + 1, refs |-> call[s].refs],
             given' = Append(given, call[s].refs)
      PROVE  EyesOK'
  BY <1>1, <1>4 DEF EyesOK
<1>5. QED BY <1>2, <1>3, <1>4, EyesFrame

LEMMA HandStaysTyped ==
    ASSUME TypeOK, NEW s \in Slots, Turn(s)
    PROVE  HandOK'
<1>1. /\ HandOK /\ call[s] \in Calls
      /\ call[s].at \in {"moving", "arrived"} => call[s].elem \in Elems
  BY DEF TypeOK, CallsOK, Targets
<1>2. CASE Begin(s) \/ Walks(s) \/ Picked(s) \/ Polls(s) \/ Reads(s)
  <2>1. Still
    BY <1>2, ActTurn, OtherBeginnings, WalkTurn, PickTurn, PollTurn, ReadTurn DEF Begin
  <2>2. QED BY <1>1, <2>1 DEF Still, hand, HandOK
<1>3. CASE Caches(s)
  <2>1. UNCHANGED hand
    BY <1>3, CacheTurn
  <2>2. QED BY <1>1, <2>1 DEF hand, HandOK
<1>4. CASE Shot(s) \/ Lists(s) \/ Prunes(s)
  <2>1. UNCHANGED hand
    BY <1>4, ShotTurn
  <2>2. QED BY <1>1, <2>1 DEF hand, HandOK
<1>5. CASE Fires(s)
  <2>1. pointer' \in Elems \cup {Home} /\ lastPos' = lastPos /\ strayed' = (strayed \/ pointer' # pointer)
    BY <1>5, FireTurn
  <2>2. QED BY <1>1, <2>1 DEF HandOK
<1>6. CASE Moves(s)
  <2>1. /\ lastPos' = lastPos /\ strayed' = (strayed \/ OtherMoves(s))
        /\ \/ pointer' = pointer
           \/ pointer' = call[s].start
           \/ pointer' = call[s].elem /\ call[s].at = "moving"
    BY <1>6, MoveTurn DEF Moves
  <2>2. pointer' \in Elems \cup {Home}
    BY <1>1, <2>1 DEF HandOK, Calls
  <2>3. strayed' \in BOOLEAN
    BY <1>1, <2>1 DEF HandOK, OtherMoves
  <2>4. QED BY <1>1, <2>1, <2>2, <2>3 DEF HandOK
<1>7. CASE Ends(s)
  <2>1. CASE Fired(s) \/ Lands(s) \/ Fails(s) \/ WaitTimesOut(s) \/ ShotFails(s)
    <3>1. UNCHANGED hand
      BY <2>1 DEF Fired, Lands, Fails, WaitTimesOut, ShotFails
    <3>2. QED BY <1>1, <3>1 DEF hand, HandOK
  <2>2. CASE MoveEnds(s)
    BY <1>1, <2>2 DEF MoveEnds, HandOK
  <2>3. CASE MoveBreaks(s)
    <3>1. /\ call[s].elem \in Elems /\ pointer' = pointer /\ strayed' = TRUE
          /\ lastPos' \in {lastPos, call[s].elem}
      BY <2>3 DEF MoveBreaks, TypeOK, CallsOK, Targets
    <3>2. QED BY <1>1, <3>1 DEF HandOK
  <2>4. QED BY <1>7, <2>1, <2>2, <2>3 DEF Ends
<1>8. QED BY <1>2, <1>3, <1>4, <1>5, <1>6, <1>7 DEF Turn

LEMMA ShotsStayTyped ==
    ASSUME TypeOK, NEW s \in Slots, Turn(s)
    PROVE  ShotsOK'
<1>1. ShotsOK
  BY DEF TypeOK
<1>2. CASE Begin(s) \/ Walks(s) \/ Picked(s) \/ Polls(s) \/ Reads(s)
  <2>1. Still
    BY <1>2, ActTurn, OtherBeginnings, WalkTurn, PickTurn, PollTurn, ReadTurn DEF Begin
  <2>2. QED BY <1>1, <2>1 DEF Still, ShotsOK
<1>3. CASE Caches(s) \/ Fires(s) \/ Moves(s)
  <2>1. shots' = shots
    BY <1>3, CacheTurn, FireTurn, MoveTurn DEF Moves
  <2>2. QED BY <1>1, <2>1 DEF ShotsOK
<1>4. CASE Ends(s)
  <2>1. shots' = shots
    BY <1>4 DEF Ends, Fired, Lands, Fails, MoveEnds, MoveBreaks, WaitTimesOut, ShotFails
  <2>2. QED BY <1>1, <2>1 DEF ShotsOK
<1>5. CASE Shot(s)
  <2>1. PICK f \in Names : shots' = shots \cup {f}
    BY <1>5, ShotTurn
  <2>2. QED BY <1>1, <2>1, FS_AddElement DEF ShotsOK
<1>6. CASE Lists(s)
  BY <1>1, <1>6, ShotTurn DEF ShotsOK
<1>7. CASE Prunes(s)
  <2>1. shots' = shots \/ \E f \in call[s].files : shots' = shots \ {f}
    BY <1>7, ShotTurn
  <2>2. QED BY <1>1, <2>1, FS_RemoveElement DEF ShotsOK
<1>8. QED BY <1>2, <1>3, <1>4, <1>5, <1>6, <1>7 DEF Turn

LEMMA StaysTyped == TypeOK /\ [Next]_vars => TypeOK'
<1> SUFFICES ASSUME TypeOK, [Next]_vars PROVE TypeOK'
  OBVIOUS
<1>1. EyesOK'
  BY EyesStayTyped
<1>2. ASSUME NEW s \in Slots, Turn(s) PROVE TypeOK'
  <2>1. UNCHANGED <<mix, human>> /\ PageOK'
    BY <1>2, TurnFrame DEF PageGoesOn
  <2>2. HumanOK' /\ mix' \in Mixes
    BY <2>1 DEF TypeOK, HumanOK, human
  <2>3. QED BY <1>1, <1>2, <2>1, <2>2, CallsStayTyped, HandStaysTyped, ShotsStayTyped DEF TypeOK
<1>3. ASSUME UNCHANGED <<call, hand, shots, mix>>, HumanOK', PageOK' PROVE TypeOK'
  <2>1. CallsOK' /\ HandOK' /\ ShotsOK' /\ mix' \in Mixes
    BY <1>3 DEF TypeOK, CallsOK, HandOK, ShotsOK, hand
  <2>2. QED BY <1>1, <1>3, <2>1 DEF TypeOK
<1>4. ASSUME UNCHANGED human PROVE HumanOK'
  BY <1>4 DEF TypeOK, HumanOK, human
<1>5. CASE UNCHANGED vars
  <2>1. PageOK'
    BY <1>5 DEF TypeOK, PageOK, vars, page
  <2>2. QED BY <1>3, <1>4, <1>5, <2>1 DEF vars
<1>6. CASE PageGoesOn /\ UNCHANGED <<mix, human, call, now, hand, shots>>
  BY <1>3, <1>4, <1>6 DEF PageGoesOn
<1>7. CASE Pause /\ PageGoesOn
  <2>1. begun' = begun + 1 /\ pending' = pending \cup {begun + 1} /\ begun \in Nat
        /\ \A p \in pending : p \in 1..begun
    BY <1>7 DEF Pause, TypeOK, HumanOK
  <2>2. HumanOK'
    BY <2>1 DEF HumanOK
  <2>3. QED BY <1>3, <1>7, <2>2 DEF Pause, PageGoesOn
<1>8. CASE (\E p \in pending : Resume(p)) /\ PageGoesOn
  <2>1. begun' = begun /\ pending' \subseteq pending /\ UNCHANGED <<call, hand, shots, mix>>
    BY <1>8 DEF Resume
  <2>2. HumanOK'
    BY <2>1 DEF HumanOK, TypeOK
  <2>3. QED BY <1>3, <1>8, <2>1, <2>2 DEF PageGoesOn
<1>9. CASE Tick
  <2>1. PageOK' /\ UNCHANGED <<mix, human, call, hand, shots>>
    BY <1>9 DEF Tick, page, PageOK, TypeOK
  <2>2. QED BY <1>3, <1>4, <2>1
<1>10. QED BY <1>2, <1>5, <1>6, <1>7, <1>8, <1>9, StepFrame

(* Every variable keeps its type, and a call that acts or waits has an element. *)
THEOREM ActionsTyping == Spec => []TypeOK
<1>1. QED BY StartsTyped, StaysTyped, PTL DEF Spec

-----------------------------------------------------------------------------
(***************************************************************************)
(* The invariants behind the properties, call by call.                     *)
(***************************************************************************)
(* A call knows no pause that was not yet created; a pause that is not
   resumed is younger than what an act was admitted under. *)
Admitted(c) ==
    /\ c.epoch <= begun
    /\ c.at \in {"acting", "aimed", "moving"} /\ c.cmd # "relay" => \A p \in pending : p > c.epoch

(* The cache holds an observation that was handed out, or none. *)
CacheWasGiven == cache.by # 0 => cache.by \in 1..Len(given) /\ cache.refs = given[cache.by]

(* The node of an act by ref is the one its observation gave for it. *)
LookedUp(c) ==
    c.at \in {"acting", "fired"} /\ c.obs # 0 =>
        /\ c.obs \in 1..Len(given)
        /\ c.node # 0
        /\ c.node = given[c.obs][c.elem]

(* Only an answer claims a success, and a second look found the walls that
   were there, or nothing because the document went away under it. *)
SawNothing(c) == c.doc < doc /\ c.refs = NoRefs
LookedAgain(c) ==
    /\ c.doc <= doc
    /\ c.result \in {"dismissed", "settled"} => c.at = "answered"
    /\ c.at = "walked" /\ c.cmd = "verify" => WallsIn(c.refs) = c.truth \/ SawNothing(c)
    /\ c.result = "dismissed" => Namesakes(c.old \ c.truth, c.elem) # {} \/ SawNothing(c)

(* The text that a wait has read is no newer than the page's; if it is the
   page's, then the element has not changed since, give or take one read. *)
Watched(c) ==
    /\ c.at \in {"polling", "reading"} =>
          /\ c.read <= ver[c.elem]
          /\ c.changed <= c.began /\ c.began <= now
          /\ c.elem \in shown /\ c.read = ver[c.elem] => since[c.elem] <= c.changed + ReadTime
    /\ c.at = "reading" => now - c.began <= ReadTime
    /\ c.result = "settled" => c.began - c.stood >= Quiet - ReadTime
NoChangeAhead == \A e \in Elems : since[e] <= now

(* One mover at a time, from where it was told, as long as nothing has strayed. *)
Moving(c) == c.at \in {"aimed", "moving", "arrived"}
MovesInTurn ==
    ~strayed =>
        /\ \A s, t \in Slots : Moving(call[s]) /\ Moving(call[t]) => s = t
        /\ (\A s \in Slots : ~Moving(call[s])) => pointer = lastPos
        /\ \A s \in Slots : /\ call[s].at = "aimed" => call[s].start = pointer
                            /\ call[s].at = "arrived" => call[s].elem = pointer

(* Somebody has yet to list the directory, or what is too much is somebody's to remove. *)
Doomed(f) == \E s \in Slots : call[s].at = "pruning" /\ f \in call[s].files
StaleIsDoomed ==
    \/ \E s \in Slots : call[s].at = "listing"
    \/ \A f \in Stale(shots) : Doomed(f)

-----------------------------------------------------------------------------
(***************************************************************************)
(* Pauses.                                                                 *)
(***************************************************************************)
LEMMA AdmittedTurn ==
    ASSUME TypeOK, NEW s \in Slots, Admitted(call[s]), Turn(s)
    PROVE  Admitted(call[s])'
<1> DEFINE c == call[s]
           d == call'[s]
<1>1. begun \in Nat /\ UNCHANGED human /\ pending \in SUBSET (1..begun)
  BY TurnFrame DEF TypeOK, HumanOK
<1>2. SUFFICES Admitted(d)
  BY <1>1 DEF Admitted, human
<1>3. CASE Begin(s)
  BY <1>1, <1>3, ActTurn, OtherBeginnings DEF Begin, NotPaused, Admitted, Over
<1>4. CASE Ends(s)
  BY <1>1, <1>4, EndTurn DEF Ended, Admitted, Over
<1>5. CASE Fires(s)
  BY <1>5, FireTurn DEF Alike, Admitted
<1>6. CASE Walks(s)
  BY <1>6, WalkTurn DEF Admitted
<1>7. CASE Caches(s)
  BY <1>1, <1>7, CacheTurn DEF Over, Admitted
<1>8. CASE Picked(s)
  <2>1. NotPaused("dismiss") => pending = {}
    BY DEF NotPaused
  <2>2. QED BY <1>1, <1>8, <2>1, PickTurn DEF Over, Admitted
<1>9. CASE Moves(s)
  BY <1>9, MoveTurn DEF Moves, Alike, Admitted
<1>10. CASE Polls(s)
  BY <1>10, PollTurn DEF Alike, Admitted
<1>11. CASE Reads(s)
  BY <1>11, ReadTurn DEF ReadFails, ReadSees, Admitted
<1>12. CASE Shot(s) \/ Lists(s) \/ Prunes(s)
  BY <1>1, <1>12, ShotTurn DEF Over, Alike, Admitted
<1>13. QED BY <1>3, <1>4, <1>5, <1>6, <1>7, <1>8, <1>9, <1>10, <1>11, <1>12 DEF Turn

(* A pause that begins is younger than every call that is under way. *)
LEMMA AdmittedStep ==
    TypeOK /\ (\A s \in Slots : Admitted(call[s])) /\ [Next]_vars => (\A s \in Slots : Admitted(call[s]))'
<1> SUFFICES ASSUME TypeOK, \A s \in Slots : Admitted(call[s]), [Next]_vars,
                    NEW t \in Slots
             PROVE  Admitted(call[t])'
  OBVIOUS
<1>1. /\ Admitted(call[t]) /\ begun \in Nat /\ pending \in SUBSET (1..begun)
      /\ call[t].epoch \in Nat
  BY DEF TypeOK, HumanOK, CallsOK, Calls
<1>2. ASSUME NEW s \in Slots, Turn(s) PROVE Admitted(call[t])'
  <2>1. CASE t = s
    BY <1>2, <2>1, AdmittedTurn
  <2>2. CASE t # s
    <3>1. call'[t] = call[t] /\ begun' = begun /\ pending' = pending
      BY <1>2, <2>2, TurnFrame DEF OnlyCall, human
    <3>2. QED BY <1>1, <3>1 DEF Admitted
  <2>3. QED BY <2>1, <2>2
<1>3. CASE UNCHANGED <<call, human>>
  BY <1>1, <1>3 DEF Admitted, human
<1>4. CASE Pause
  <2>1. begun' = begun + 1 /\ pending' = pending \cup {begun + 1} /\ call' = call
    BY <1>4 DEF Pause
  <2>2. QED BY <1>1, <2>1 DEF Admitted
<1>5. CASE \E p \in pending : Resume(p)
  <2>1. begun' = begun /\ pending' \subseteq pending /\ call' = call
    BY <1>5 DEF Resume
  <2>2. QED BY <1>1, <2>1 DEF Admitted
<1>6. CASE Tick \/ UNCHANGED vars
  BY <1>3, <1>6 DEF Tick, vars
<1>7. QED BY <1>2, <1>3, <1>4, <1>5, <1>6, StepFrame

(* While a human has control, only acts that were admitted before the pause
   began can still reach the page, and the relayed code. *)
THEOREM PausesHoldActsOff == Spec => []HeldOffByPause
<1>1. Init => \A s \in Slots : Admitted(call[s])
  BY DEF Init, Admitted, NoCall
<1>2. (\A s \in Slots : Admitted(call[s])) => HeldOffByPause
  BY DEF Admitted, HeldOffByPause
<1>3. QED BY <1>1, <1>2, AdmittedStep, ActionsTyping, PTL DEF Spec

-----------------------------------------------------------------------------
(***************************************************************************)
(* Refs.                                                                   *)
(***************************************************************************)
RefsOK == CacheWasGiven /\ \A s \in Slots : LookedUp(call[s])

(* What was handed out stays. *)
LEMMA GivenStays ==
    ASSUME TypeOK, [Next]_vars
    PROVE  /\ Len(given) \in Nat /\ Len(given') \in Nat
           /\ \A i \in 1..Len(given) : i \in 1..Len(given') /\ given'[i] = given[i]
<1>1. given \in Seq([Elems -> Nat]) /\ \A s \in Slots : call[s].refs \in [Elems -> Nat]
  BY DEF TypeOK, EyesOK, CallsOK, Calls
<1>2. given' = given \/ \E s \in Slots : given' = Append(given, call[s].refs)
  BY EyesFrame DEF eyes
<1>3. QED BY <1>1, <1>2

LEMMA CacheStaysGiven ==
    ASSUME TypeOK, CacheWasGiven, [Next]_vars
    PROVE  CacheWasGiven'
<1>1. given \in Seq([Elems -> Nat]) /\ \A s \in Slots : call[s].refs \in [Elems -> Nat]
  BY DEF TypeOK, EyesOK, CallsOK, Calls
<1>2. CASE UNCHANGED eyes
  BY <1>2 DEF CacheWasGiven, eyes
<1>3. CASE cache' = NoCache
  BY <1>3 DEF CacheWasGiven, NoCache
<1>4. ASSUME NEW s \in Slots,
             cache' = [by |-> Len(given) + 1, refs |-> call[s].refs],
             given' = Append(given, call[s].refs)
      PROVE  CacheWasGiven'
  <2>1. Len(given') = Len(given) + 1 /\ given'[Len(given) + 1] = call[s].refs /\ Len(given) \in Nat
    BY <1>1, <1>4
  <2>2. cache'.by = Len(given) + 1 /\ cache'.refs = call[s].refs
    BY <1>4
  <2>3. QED BY <2>1, <2>2 DEF CacheWasGiven
<1>5. QED BY <1>2, <1>3, <1>4, EyesFrame

(* A ref that is found has the node that its observation gave for it. *)
LEMMA FoundWasGiven ==
    ASSUME CacheWasGiven, NEW n, NEW e, n # 0, RefFound(n, e)
    PROVE  n \in 1..Len(given) /\ cache.refs[e] # 0 /\ cache.refs[e] = given[n][e]
BY DEF CacheWasGiven, RefFound

LEMMA LookedUpTurn ==
    ASSUME TypeOK, CacheWasGiven, NEW s \in Slots, LookedUp(call[s]), Turn(s)
    PROVE  LookedUp(call'[s])
<1>1. CASE Begin(s)
  <2>1. ASSUME NEW cmd \in Acts, NEW e \in mix.elems, NEW n \in 0..Len(given), Act(s, cmd, e, n)
        PROVE  LookedUp(call'[s])
    <3>1. n # 0 /\ RefFound(n, e) =>
             n \in 1..Len(given) /\ cache.refs[e] # 0 /\ cache.refs[e] = given[n][e]
      BY FoundWasGiven
    <3>2. \/ Over(call'[s])
          \/ /\ call'[s].obs = n /\ call'[s].elem = e
             /\ n # 0 => RefFound(n, e) /\ call'[s].node = cache.refs[e]
      BY <2>1, ActTurn
    <3>3. QED BY <3>1, <3>2 DEF LookedUp, Over
  <2>2. QED BY <1>1, <2>1, OtherBeginnings DEF Begin, LookedUp
<1>2. CASE Ends(s)
  BY <1>2, EndTurn DEF Ended, Over, LookedUp
<1>3. CASE Fires(s)
  BY <1>3, FireTurn DEF Alike, LookedUp
<1>4. CASE Walks(s) \/ Polls(s)
  BY <1>4, WalkTurn, PollTurn DEF LookedUp
<1>5. CASE Caches(s)
  BY <1>5, CacheTurn DEF Over, LookedUp
<1>6. CASE Picked(s)
  <2>1. \/ call'[s].at # "acting" /\ call'[s].at # "fired"
        \/ /\ call'[s].obs = call[s].obs
           /\ RefFound(call[s].obs, call'[s].elem) /\ call'[s].node = cache.refs[call'[s].elem]
    BY <1>6, PickTurn DEF Over
  <2>2. QED BY <2>1, FoundWasGiven DEF LookedUp
<1>7. CASE Moves(s)
  BY <1>7, MoveTurn DEF Moves, LookedUp
<1>8. CASE Reads(s)
  BY <1>8, ReadTurn DEF ReadFails, ReadSees, LookedUp
<1>9. CASE Shot(s) \/ Lists(s) \/ Prunes(s)
  BY <1>9, ShotTurn DEF Over, LookedUp
<1>10. QED BY <1>1, <1>2, <1>3, <1>4, <1>5, <1>6, <1>7, <1>8, <1>9 DEF Turn

LEMMA RefsStep == TypeOK /\ RefsOK /\ [Next]_vars => RefsOK'
<1> SUFFICES ASSUME TypeOK, RefsOK, [Next]_vars PROVE RefsOK'
  OBVIOUS
<1>1. CacheWasGiven /\ CacheWasGiven'
  BY CacheStaysGiven DEF RefsOK
<1>2. ASSUME NEW t \in Slots PROVE LookedUp(call'[t])
  <2>1. LookedUp(call[t])
    BY DEF RefsOK
  <2>2. ASSUME NEW s \in Slots, Turn(s) PROVE LookedUp(call'[t])
    <3>1. t # s => call'[t] = call[t]
      BY <2>2, TurnFrame DEF OnlyCall
    <3>2. QED BY <1>1, <2>1, <2>2, <3>1, LookedUpTurn
  <2>3. CASE Pause \/ Tick \/ (\E p \in pending : Resume(p)) \/ UNCHANGED vars
    BY <2>1, <2>3 DEF Pause, Tick, Resume, vars
  <2>4. QED BY <2>1, <2>2, <2>3, StepFrame
<1>3. ASSUME NEW t \in Slots PROVE LookedUp(call[t])'
  <2>1. LookedUp(call'[t]) /\ \A i \in 1..Len(given) : i \in 1..Len(given') /\ given'[i] = given[i]
    BY <1>2, GivenStays
  <2>2. QED BY <2>1 DEF LookedUp
<1>4. QED BY <1>1, <1>3 DEF RefsOK

(* A ref reaches the very node that was observed under it. *)
THEOREM RefsLand == Spec => []RefLandsOnSeen
<1>1. Init => RefsOK
  BY DEF Init, RefsOK, CacheWasGiven, NoCache, LookedUp, NoCall
<1>2. RefsOK => RefLandsOnSeen
  BY DEF RefsOK, LookedUp, RefLandsOnSeen
<1>3. QED BY <1>1, <1>2, RefsStep, ActionsTyping, PTL DEF Spec

-----------------------------------------------------------------------------
(***************************************************************************)
(* Walls.                                                                  *)
(***************************************************************************)
(* A walk of the whole page finds the walls that are in it. *)
LEMMA WalkFindsWalls ==
    ASSUME PageOK, NEW refs, refs = [e \in Elems |-> IF e \in shown THEN ver[e] ELSE 0]
    PROVE  WallsIn(refs) = shown \cap Walls
<1>1. \A e \in Walls : e \in Elems
  BY ActionsAssumption DEF ActionsAssumption
<1>2. \A e \in Walls : refs[e] # 0 <=> e \in shown
  BY <1>1 DEF PageOK
<1>3. QED BY <1>2 DEF WallsIn

(* Fewer of a kind and name than before: one of those before is missing. *)
LEMMA GoneIsMissing ==
    ASSUME NEW before \in SUBSET Elems, NEW after \in SUBSET Elems, NEW e,
           OverlayGone(before, after, e)
    PROVE  Namesakes(before \ after, e) # {}
<1> SUFFICES ASSUME Namesakes(before \ after, e) = {} PROVE FALSE
  OBVIOUS
<1> DEFINE A == Namesakes(after, e)
           B == Namesakes(before, e)
<1>1. IsFiniteSet(A)
  <2>1. IsFiniteSet(Elems) /\ A \subseteq Elems
    BY ActionsAssumption DEF ActionsAssumption, Namesakes
  <2>2. QED BY <2>1, FS_Subset
<1>2. B \subseteq A
  BY DEF Namesakes
<1>3. IsFiniteSet(B) /\ Cardinality(B) <= Cardinality(A)
  BY <1>1, <1>2, FS_Subset
<1>4. Cardinality(A) \in Nat /\ Cardinality(B) \in Nat
  BY <1>1, <1>3, FS_CardinalityType
<1>5. Cardinality(A) < Cardinality(B)
  BY DEF OverlayGone
<1>6. QED BY <1>3, <1>4, <1>5

(* A call that claims nothing, and has not just looked again. *)
LEMMA ClaimsNothing ==
    ASSUME NEW d, d.doc <= doc, d.result \notin {"dismissed", "settled"},
           d.at # "walked" \/ d.cmd # "verify"
    PROVE  LookedAgain(d)
BY DEF LookedAgain

LEMMA LookedAgainTurn ==
    ASSUME TypeOK, NEW s \in Slots, LookedAgain(call[s]), Turn(s)
    PROVE  LookedAgain(call'[s])
<1> DEFINE c == call[s]
           d == call'[s]
<1>1. doc \in Nat /\ PageOK /\ c.doc \in Nat /\ c.doc <= doc
  BY DEF TypeOK, PageOK, CallsOK, Calls, LookedAgain
<1>2. CASE Begin(s)
  <2>1. d.doc <= doc /\ d.result \notin {"dismissed", "settled"} /\ d.at # "walked"
    BY <1>1, <1>2, ActTurn, OtherBeginnings DEF Begin, Over
  <2>2. QED BY <2>1, ClaimsNothing
<1>3. CASE Ends(s)
  <2>1. c.result \notin {"dismissed", "settled"}
    BY <1>3, EndTurn DEF Ended, LookedAgain
  <2>2. d.doc <= doc /\ d.result \notin {"dismissed", "settled"} /\ d.at # "walked"
    BY <1>1, <1>3, <2>1, EndTurn DEF Ended, Over
  <2>3. QED BY <2>2, ClaimsNothing
<1>4. CASE Fires(s)
  BY <1>4, FireTurn DEF Alike, LookedAgain, SawNothing
<1>5. CASE Walks(s)
  <2>1. c.result \notin {"dismissed", "settled"} /\ d.result = c.result /\ d.at = "walked" /\ d.doc = c.doc
    BY <1>5, WalkTurn DEF LookedAgain
  <2>2. d.cmd = "verify" => d.truth = shown \cap Walls
    BY <1>5, WalkTurn
  <2>3. WallsIn(d.refs) = shown \cap Walls \/ (c.doc # doc /\ d.refs = NoRefs)
    BY <1>1, <1>5, WalkTurn, WalkFindsWalls
  <2>4. QED BY <1>1, <2>1, <2>2, <2>3 DEF LookedAgain, SawNothing
<1>6. CASE Caches(s)
  <2>1. CASE d.at = "picking"
    BY <1>1, <1>6, <2>1, CacheTurn DEF Over, LookedAgain
  <2>2. CASE Over(d)
    BY <1>1, <1>6, <2>2, CacheTurn DEF Over, LookedAgain
  <2>3. CASE d.at = "answered" /\ d.result = "dismissed"
    <3>1. /\ c.at = "walked" /\ c.cmd = "verify"
          /\ OverlayGone(c.old, WallsIn(c.refs), c.elem)
          /\ d.elem = c.elem /\ d.doc = c.doc /\ d.refs = c.refs
          /\ d.old = c.old /\ d.truth = c.truth
      BY <1>6, <2>3, CacheTurn DEF Over
    <3>2. WallsIn(c.refs) = c.truth \/ SawNothing(d)
      BY <3>1 DEF LookedAgain, SawNothing
    <3>3. Namesakes(d.old \ WallsIn(c.refs), d.elem) # {}
      <4>1. c.old \in SUBSET Elems /\ WallsIn(c.refs) \in SUBSET Elems
        BY ActionsAssumption DEF ActionsAssumption, TypeOK, CallsOK, Calls, WallsIn
      <4>2. QED BY <3>1, <4>1, GoneIsMissing
    <3>4. QED BY <1>1, <2>3, <3>1, <3>2, <3>3 DEF LookedAgain
  <2>4. QED BY <1>6, <2>1, <2>2, <2>3, CacheTurn
<1>7. CASE Picked(s)
  <2>1. c.result \notin {"dismissed", "settled"}
    BY <1>7, PickTurn DEF LookedAgain
  <2>2. d.doc <= doc /\ d.result \notin {"dismissed", "settled"} /\ d.at # "walked"
    BY <1>1, <1>7, <2>1, PickTurn DEF Over
  <2>3. QED BY <2>2, ClaimsNothing
<1>8. CASE Moves(s)
  BY <1>8, MoveTurn DEF Moves, Alike, LookedAgain, SawNothing
<1>9. CASE Polls(s)
  BY <1>9, PollTurn DEF Alike, LookedAgain, SawNothing
<1>10. CASE Reads(s)
  <2>1. c.result \notin {"dismissed", "settled"}
    BY <1>10, ReadTurn DEF LookedAgain
  <2>2. d.doc = c.doc /\ d.at \in {"polling", "answered"} /\ d.result # "dismissed"
        /\ (d.result = "settled" => d.at = "answered")
    BY <1>10, <2>1, ReadTurn DEF ReadFails, ReadSees
  <2>3. QED BY <1>1, <2>2 DEF LookedAgain
<1>11. CASE Shot(s) \/ Lists(s) \/ Prunes(s)
  <2>1. Over(d) \/ (Alike(c, d) /\ c.at # "answered" /\ d.at # "walked")
    BY <1>11, ShotTurn
  <2>2. QED BY <1>1, <1>11, <2>1, ShotTurn DEF Over, Alike, LookedAgain, SawNothing
<1>12. QED BY <1>2, <1>3, <1>4, <1>5, <1>6, <1>7, <1>8, <1>9, <1>10, <1>11 DEF Turn

LEMMA LookedAgainStep ==
    TypeOK /\ (\A s \in Slots : LookedAgain(call[s])) /\ [Next]_vars
        => (\A s \in Slots : LookedAgain(call[s]))'
<1> SUFFICES ASSUME TypeOK, \A s \in Slots : LookedAgain(call[s]), [Next]_vars, NEW t \in Slots
             PROVE  LookedAgain(call[t])'
  OBVIOUS
<1>1. doc \in Nat /\ doc' \in Nat /\ doc <= doc'
  <2>1. ASSUME NEW s \in Slots, Turn(s) PROVE doc' \in Nat /\ doc <= doc'
    BY <2>1, TurnFrame DEF PageGoesOn, PageOK
  <2>2. CASE Tick \/ UNCHANGED vars
    BY <2>2 DEF Tick, vars, page, TypeOK, PageOK
  <2>3. QED BY <2>1, <2>2, StepFrame DEF PageGoesOn, TypeOK, PageOK
<1>2. LookedAgain(call'[t])
  <2>1. ASSUME NEW s \in Slots, Turn(s) PROVE LookedAgain(call'[t])
    <3>1. t # s => call'[t] = call[t]
      BY <2>1, TurnFrame DEF OnlyCall
    <3>2. QED BY <2>1, <3>1, LookedAgainTurn
  <2>2. CASE Pause \/ Tick \/ (\E p \in pending : Resume(p)) \/ UNCHANGED vars
    BY <2>2 DEF Pause, Tick, Resume, vars
  <2>3. QED BY <2>1, <2>2, StepFrame
<1>3. call'[t].doc \in Nat
  BY StaysTyped DEF TypeOK, CallsOK, Calls
<1>4. QED BY <1>1, <1>2, <1>3 DEF LookedAgain, SawNothing

(* What dismiss says is gone had gone when it looked again, or the look found
   nothing in a page that navigated. *)
THEOREM DismissalsAreTrue == Spec => []DismissedIsGone
<1>1. Init => \A s \in Slots : LookedAgain(call[s])
  BY DEF Init, LookedAgain, NoCall
<1>2. TypeOK /\ (\A s \in Slots : LookedAgain(call[s])) => DismissedIsGone
  <2> SUFFICES ASSUME TypeOK, NEW s \in Slots, LookedAgain(call[s]), call[s].result = "dismissed"
               PROVE  \/ Namesakes(call[s].old \ call[s].truth, call[s].elem) # {}
                      \/ call[s].doc # doc /\ call[s].refs = NoRefs
    BY DEF DismissedIsGone
  <2>1. doc \in Nat /\ call[s].doc \in Nat
    BY DEF TypeOK, PageOK, CallsOK, Calls
  <2>2. QED BY <2>1 DEF LookedAgain, SawNothing
<1>3. QED BY <1>1, <1>2, LookedAgainStep, ActionsTyping, PTL DEF Spec

-----------------------------------------------------------------------------
(***************************************************************************)
(* Waits.                                                                  *)
(***************************************************************************)
WaitsOK == NoChangeAhead /\ \A s \in Slots : LookedAgain(call[s]) /\ Watched(call[s])

LEMMA Times == Quiet \in Nat /\ ReadTime \in Nat
BY ActionsAssumption DEF ActionsAssumption

(* A wait stands while the page goes on. *)
LEMMA WatchedStays ==
    ASSUME TypeOK, PageGoesOn, now' = now, NEW c \in Calls, Targets(c), Watched(c)
    PROVE  Watched(c)'
<1>1. CASE c.at \in {"polling", "reading"}
  <2>1. /\ c.elem \in Elems /\ c.read \in Nat
        /\ ver[c.elem] \in Nat /\ ver'[c.elem] \in Nat /\ ver[c.elem] <= ver'[c.elem]
        /\ ver'[c.elem] = ver[c.elem] /\ c.elem \in shown' =>
              c.elem \in shown /\ since'[c.elem] = since[c.elem]
    BY <1>1 DEF Targets, Calls, TypeOK, PageOK, PageGoesOn
  <2>2. c.read <= ver'[c.elem]
    BY <1>1, <2>1 DEF Watched
  <2>3. c.elem \in shown' /\ c.read = ver'[c.elem] => since'[c.elem] <= c.changed + ReadTime
    <3>1. c.read <= ver[c.elem]
      BY <1>1 DEF Watched
    <3>2. QED BY <1>1, <2>1, <3>1 DEF Watched
  <2>4. QED BY <1>1, <2>2, <2>3 DEF Watched
<1>2. CASE c.at \notin {"polling", "reading"}
  BY <1>2 DEF Watched
<1>3. QED BY <1>1, <1>2

LEMMA WatchedTurn ==
    ASSUME TypeOK, NoChangeAhead, NEW s \in Slots, LookedAgain(call[s]), Watched(call[s]), Turn(s)
    PROVE  Watched(call'[s])
<1> DEFINE c == call[s]
           d == call'[s]
<1>1. /\ c \in Calls /\ Targets(c) /\ now \in Nat /\ Quiet \in Nat /\ ReadTime \in Nat
      /\ c.result = "settled" => c.at = "answered"
  BY Times DEF TypeOK, CallsOK, PageOK, LookedAgain
<1>2. CASE Begin(s)
  <2>1. CASE d.at = "polling"
    <3>1. /\ d.result = "none" /\ d.elem \in Elems /\ d.read = 0 /\ d.began = now /\ d.changed = now
      BY <1>2, <2>1, ActTurn, OtherBeginnings DEF Begin, Over
    <3>2. ver[d.elem] \in Nat \ {0}
      BY <3>1 DEF TypeOK, PageOK
    <3>3. QED BY <1>1, <2>1, <3>1, <3>2 DEF Watched
  <2>2. CASE d.at # "polling"
    <3>1. d.at \notin {"polling", "reading"} /\ d.result # "settled"
      BY <1>2, <2>2, ActTurn, OtherBeginnings DEF Begin, Over
    <3>2. QED BY <3>1 DEF Watched
  <2>3. QED BY <2>1, <2>2
<1>3. CASE Ends(s)
  <2>1. d.at \notin {"polling", "reading"} /\ d.result # "settled"
    BY <1>1, <1>3, EndTurn DEF Ended, Over
  <2>2. QED BY <2>1 DEF Watched
<1>4. CASE Fires(s) \/ Walks(s) \/ Moves(s)
  <2>1. d.at \notin {"polling", "reading"} /\ d.result # "settled"
    BY <1>1, <1>4, FireTurn, WalkTurn, MoveTurn DEF Moves, Alike
  <2>2. QED BY <2>1 DEF Watched
<1>5. CASE Caches(s) \/ Picked(s)
  <2>1. d.at \notin {"polling", "reading"} /\ d.result # "settled"
    BY <1>1, <1>5, CacheTurn, PickTurn DEF Over
  <2>2. QED BY <2>1 DEF Watched
<1>6. CASE Shot(s) \/ Lists(s) \/ Prunes(s)
  <2>1. d.at \notin {"polling", "reading"} /\ d.result # "settled"
    BY <1>1, <1>6, ShotTurn DEF Over, Alike
  <2>2. QED BY <2>1 DEF Watched
<1>7. CASE Polls(s)
  <2>1. c.at = "polling" /\ d.at = "reading" /\ d.elem = c.elem /\ d.read = c.read
        /\ d.changed = c.changed /\ d.began = now /\ d.result = c.result
    BY <1>7, PollTurn DEF Alike
  <2>2. c.changed <= now
    BY <1>1, <2>1 DEF Watched, Calls
  <2>3. QED BY <1>1, <2>1, <2>2 DEF Watched
<1>8. CASE Reads(s)
  <2>1. /\ c.at = "reading" /\ d.elem = c.elem /\ d.began = c.began
        /\ ReadFails(c, d) \/ ReadSees(c, d)
    BY <1>8, ReadTurn
  <2>2. /\ c.elem \in Elems /\ c.read <= ver[c.elem] /\ c.changed <= c.began /\ c.began <= now
        /\ c.elem \in shown /\ c.read = ver[c.elem] => since[c.elem] <= c.changed + ReadTime
        /\ now - c.began <= ReadTime
    BY <1>1, <2>1 DEF Watched, Targets
  <2>3. /\ c.began \in Nat /\ c.changed \in Nat /\ ver[c.elem] \in Nat
        /\ since[c.elem] \in Nat /\ since[c.elem] <= now
    BY <1>1, <2>2 DEF Calls, TypeOK, PageOK, NoChangeAhead
  <2>4. CASE ReadFails(c, d)
    BY <1>1, <2>1, <2>2, <2>4 DEF ReadFails, Watched
  <2>5. CASE ReadSees(c, d)
    <3>1. /\ d.changed \in Nat /\ d.changed <= c.began
          /\ since[c.elem] <= d.changed + ReadTime
      BY <1>1, <2>2, <2>3, <2>5 DEF ReadSees
    <3>2. CASE d.at = "polling"
      BY <1>1, <2>1, <2>2, <2>3, <2>5, <3>1, <3>2 DEF ReadSees, Watched
    <3>3. CASE d.at = "answered"
      <4>1. d.began - d.stood >= Quiet - ReadTime
        BY <1>1, <2>1, <2>3, <2>5, <3>1, <3>3 DEF ReadSees
      <4>2. QED BY <3>3, <4>1 DEF Watched
    <3>4. QED BY <2>5, <3>2, <3>3 DEF ReadSees
  <2>6. QED BY <2>1, <2>4, <2>5
<1>9. QED BY <1>2, <1>3, <1>4, <1>5, <1>6, <1>7, <1>8 DEF Turn

LEMMA WaitsStep == TypeOK /\ WaitsOK /\ [Next]_vars => WaitsOK'
<1> SUFFICES ASSUME TypeOK, WaitsOK, [Next]_vars PROVE WaitsOK'
  OBVIOUS
<1>1. (\A s \in Slots : LookedAgain(call[s]))'
  BY LookedAgainStep DEF WaitsOK
<1>2. TypeOK' /\ NoChangeAhead
  BY StaysTyped DEF WaitsOK
<1>3. \A s \in Slots : /\ LookedAgain(call[s]) /\ Watched(call[s])
                       /\ Targets(call[s]) /\ call[s] \in Calls
  BY DEF WaitsOK, TypeOK, CallsOK
<1>4. ASSUME PageGoesOn, now' = now, \A s \in Slots : Watched(call'[s])
      PROVE  WaitsOK'
  <2>1. NoChangeAhead'
    BY <1>2, <1>4 DEF NoChangeAhead, PageGoesOn, TypeOK, PageOK
  <2>2. ASSUME NEW t \in Slots PROVE Watched(call[t])'
    <3>1. call'[t] \in Calls /\ Targets(call'[t]) /\ Watched(call'[t])
      BY <1>2, <1>4 DEF TypeOK, CallsOK, Targets
    <3> DEFINE c == call'[t]
    <3>2. Watched(c)
      BY <3>1
    <3>3. QED BY <1>4, <3>1, WatchedStays DEF Watched
  <2>3. QED BY <1>1, <2>1, <2>2 DEF WaitsOK
<1>5. ASSUME NEW s \in Slots, Turn(s) PROVE WaitsOK'
  <2>1. OnlyCall(s) /\ PageGoesOn /\ now' = now
    BY <1>5, TurnFrame
  <2>2. Watched(call'[s])
    BY <1>2, <1>3, <1>5, WatchedTurn
  <2>3. \A t \in Slots : Watched(call'[t])
    BY <1>3, <2>1, <2>2 DEF OnlyCall
  <2>4. QED BY <1>4, <2>1, <2>3
<1>6. ASSUME PageGoesOn, UNCHANGED <<now, call>> PROVE WaitsOK'
  BY <1>3, <1>4, <1>6
<1>7. CASE Tick
  <2>1. /\ now' = now + 1 /\ UNCHANGED <<page, call>> /\ now \in Nat
        /\ \A s \in Slots : call[s].at = "reading" => now - call[s].began < ReadTime
    BY <1>7 DEF Tick, TypeOK, PageOK
  <2>2. NoChangeAhead'
    BY <1>2, <2>1 DEF NoChangeAhead, TypeOK, PageOK, page
  <2>3. ASSUME NEW t \in Slots PROVE Watched(call[t])'
    <3>1. Watched(call[t]) /\ call[t] \in Calls /\ call'[t] = call[t]
      BY <1>3, <2>1
    <3>2. call[t].began \in Nat /\ ReadTime \in Nat
      BY <3>1, Times DEF Calls
    <3>3. call[t].at = "reading" => now' - call[t].began <= ReadTime
      BY <2>1, <3>2
    <3>4. QED BY <2>1, <3>1, <3>2, <3>3 DEF Watched, page
  <2>4. QED BY <1>1, <2>2, <2>3 DEF WaitsOK
<1>8. CASE UNCHANGED vars
  BY <1>6, <1>8, SamePage DEF vars, TypeOK
<1>9. CASE Pause \/ \E p \in pending : Resume(p)
  BY <1>6, <1>9, SamePage DEF Pause, Resume, TypeOK
<1>10. QED BY <1>5, <1>6, <1>7, <1>8, <1>9, StepFrame

(* A text that has settled had not changed for the quiet time less one read. *)
THEOREM SettledTextWasQuiet == Spec => []SettledWasQuiet
<1>1. Init => WaitsOK
  BY DEF Init, WaitsOK, NoChangeAhead, LookedAgain, Watched, NoCall
<1>2. WaitsOK => SettledWasQuiet
  BY DEF WaitsOK, Watched, SettledWasQuiet
<1>3. QED BY <1>1, <1>2, WaitsStep, ActionsTyping, PTL DEF Spec

-----------------------------------------------------------------------------
(***************************************************************************)
(* Moves.                                                                  *)
(***************************************************************************)
(* A turn that moves nothing: neither the pointer nor the stage of a mover. *)
LEMMA MovesUntouched ==
    ASSUME TypeOK, MovesInTurn, NEW s \in Slots, OnlyCall(s),
           ~Moving(call[s]), ~Moving(call'[s]), UNCHANGED hand
    PROVE  MovesInTurn'
<1>1. \A t \in Slots : /\ Moving(call'[t]) <=> Moving(call[t])
                       /\ Moving(call[t]) => call'[t] = call[t]
  BY DEF OnlyCall
<1>2. UNCHANGED <<pointer, lastPos, strayed>>
  BY DEF hand
<1>3. QED BY <1>1, <1>2 DEF MovesInTurn, Moving

LEMMA MovesTurn ==
    ASSUME TypeOK, MovesInTurn, NEW s \in Slots, Turn(s)
    PROVE  MovesInTurn'
<1> DEFINE c == call[s]
           d == call'[s]
<1>1. OnlyCall(s) /\ strayed \in BOOLEAN
  BY TurnFrame DEF TypeOK, HandOK
<1>2. CASE Begin(s)
  <2>1. ~Moving(c) /\ ~Moving(d) /\ UNCHANGED hand
    BY <1>2, ActTurn, OtherBeginnings DEF Begin, Rests, Over, Moving, Still
  <2>2. QED BY <1>1, <2>1, MovesUntouched
<1>3. CASE Walks(s) \/ Picked(s) \/ Polls(s) \/ Reads(s)
  <2>1. ~Moving(c) /\ ~Moving(d) /\ UNCHANGED hand
    <3>1. CASE Walks(s) \/ Polls(s)
      BY <3>1, WalkTurn, PollTurn DEF Moving, Still
    <3>2. CASE Picked(s)
      BY <3>2, PickTurn DEF Over, Moving, Still
    <3>3. CASE Reads(s)
      BY <3>3, ReadTurn DEF ReadFails, ReadSees, Moving, Still
    <3>4. QED BY <1>3, <3>1, <3>2, <3>3
  <2>2. QED BY <1>1, <2>1, MovesUntouched
<1>4. CASE Caches(s)
  <2>1. ~Moving(c) /\ ~Moving(d) /\ UNCHANGED hand
    BY <1>4, CacheTurn DEF Over, Moving
  <2>2. QED BY <1>1, <2>1, MovesUntouched
<1>5. CASE Shot(s) \/ Lists(s) \/ Prunes(s)
  <2>1. ~Moving(c) /\ ~Moving(d) /\ UNCHANGED hand
    BY <1>5, ShotTurn DEF Over, Moving
  <2>2. QED BY <1>1, <2>1, MovesUntouched
<1>6. CASE Fires(s)
  <2>1. /\ ~Moving(c) /\ ~Moving(d) /\ lastPos' = lastPos
        /\ strayed' = (strayed \/ pointer' # pointer)
    BY <1>6, FireTurn DEF Moving
  <2>2. CASE pointer' = pointer
    <3>1. UNCHANGED hand
      BY <1>1, <2>1, <2>2 DEF hand
    <3>2. QED BY <1>1, <2>1, <3>1, MovesUntouched
  <2>3. CASE pointer' # pointer
    BY <2>1, <2>3 DEF MovesInTurn
  <2>4. QED BY <2>2, <2>3
<1>7. CASE Moves(s)
  <2>1. CASE ~strayed /\ ~OtherMoves(s)
    <3>1. \A t \in Slots \ {s} : ~Moving(call[t]) /\ ~Moving(call'[t])
      BY <1>1, <2>1 DEF OtherMoves, Moving, OnlyCall
    <3>2. Aims(s) => pointer = lastPos
      BY <2>1, <3>1, MoveTurn DEF MovesInTurn, Moving
    <3>3. /\ Moving(d)
          /\ d.at = "aimed" => d.start = pointer'
          /\ d.at = "arrived" => d.elem = pointer'
      BY <1>7, <3>2, MoveTurn DEF Moves, Moving, Alike
    <3>4. \A t \in Slots : Moving(call'[t]) => t = s
      BY <3>1
    <3>5. \A t \in Slots : call'[t].at \in {"aimed", "arrived"} => t = s
      BY <3>4 DEF Moving
    <3>6. QED BY <3>3, <3>4, <3>5 DEF MovesInTurn
  <2>2. CASE strayed \/ OtherMoves(s)
    <3>1. strayed'
      BY <1>7, <2>2, MoveTurn DEF Moves
    <3>2. QED BY <3>1 DEF MovesInTurn
  <2>3. QED BY <2>1, <2>2
<1>8. CASE Ends(s)
  <2>1. CASE MoveEnds(s)
    <3>1. /\ c.at = "arrived" /\ Moving(c) /\ ~Moving(d)
          /\ lastPos' = c.elem /\ pointer' = pointer /\ strayed' = strayed
      BY <1>8, <2>1, EndTurn DEF MoveEnds, Ended, Over, Moving
    <3>2. CASE ~strayed
      <4>1. c.elem = pointer /\ \A t \in Slots \ {s} : ~Moving(call[t])
        BY <3>1, <3>2 DEF MovesInTurn
      <4>2. \A t \in Slots : ~Moving(call'[t])
        BY <1>1, <3>1, <4>1 DEF OnlyCall
      <4>3. \A t \in Slots : call'[t].at \notin {"aimed", "arrived"}
        BY <4>2 DEF Moving
      <4>4. QED BY <3>1, <4>1, <4>2, <4>3 DEF MovesInTurn
    <3>3. CASE strayed
      BY <3>1, <3>3 DEF MovesInTurn
    <3>4. QED BY <3>2, <3>3
  <2>2. CASE MoveBreaks(s)
    BY <2>2 DEF MoveBreaks, MovesInTurn
  <2>3. CASE Fired(s) \/ Lands(s) \/ Fails(s) \/ WaitTimesOut(s) \/ ShotFails(s)
    <3>1. ~Moving(d)
      BY <1>8, EndTurn DEF Ended, Over, Moving
    <3>2. ~Moving(c) /\ UNCHANGED hand
      BY <2>3 DEF Fired, Lands, Fails, WaitTimesOut, ShotFails, Moving
    <3>3. QED BY <1>1, <3>1, <3>2, MovesUntouched
  <2>4. QED BY <1>8, <2>1, <2>2, <2>3 DEF Ends
<1>9. QED BY <1>2, <1>3, <1>4, <1>5, <1>6, <1>7, <1>8 DEF Turn

LEMMA MovesStep == TypeOK /\ MovesInTurn /\ [Next]_vars => MovesInTurn'
<1> SUFFICES ASSUME TypeOK, MovesInTurn, [Next]_vars PROVE MovesInTurn'
  OBVIOUS
<1>1. ASSUME UNCHANGED <<call, hand>> PROVE MovesInTurn'
  BY <1>1 DEF MovesInTurn, hand
<1>2. CASE Pause \/ Tick \/ (\E p \in pending : Resume(p)) \/ UNCHANGED vars
  BY <1>1, <1>2 DEF Pause, Tick, Resume, vars
<1>3. QED BY <1>1, <1>2, MovesTurn, StepFrame

(* As long as only whole moves, one at a time, have moved the pointer, a move
   starts where the pointer is. *)
THEOREM MovesStartAtThePointer == Spec => []MovesJoinUp
<1>1. Init => MovesInTurn
  BY DEF Init, MovesInTurn, Moving, NoCall
<1>2. MovesInTurn => MovesJoinUp
  BY DEF MovesInTurn, MovesJoinUp
<1>3. QED BY <1>1, <1>2, MovesStep, ActionsTyping, PTL DEF Spec

-----------------------------------------------------------------------------
(***************************************************************************)
(* Screenshots.                                                            *)
(***************************************************************************)
LEMMA KeepType == Keep \in Nat /\ Names \subseteq Nat
BY ActionsAssumption DEF ActionsAssumption

LEMMA NamesAreOrdered ==
    ASSUME NEW S \in SUBSET Nat, S # {}
    PROVE  \E m \in S : \A g \in S : m <= g
<1> DEFINE R == OpToRel(<, Nat)
<1>1. IsWellFoundedOn(R, Nat)
  BY NatLessThanWellFounded
<1>2. ASSUME NEW x \in Nat, NEW y \in Nat, x < y PROVE <<x, y>> \in R
  BY <1>2, Zenon DEF OpToRel
<1> HIDE DEF R
<1>3. \E x \in S : \A y \in S : ~(<<y, x>> \in R)
  BY <1>1, WFMin
<1>4. PICK m \in S : \A y \in S : ~(<<y, m>> \in R)
  BY <1>3
<1>5. \A y \in S : ~(y < m)
  BY <1>2, <1>4
<1>6. QED BY <1>4, <1>5

(* With no name to go, no more than Keep are there: all but the least name
   come after it. *)
LEMMA NoneStaleIsBounded ==
    ASSUME NEW S \in SUBSET Names, IsFiniteSet(S), Stale(S) = {}
    PROVE  Cardinality(S) <= Keep
<1>1. CASE S = {}
  BY <1>1, FS_EmptySet, KeepType
<1>2. CASE S # {}
  <2>1. PICK m \in S : \A g \in S : m <= g
    BY <1>2, KeepType, NamesAreOrdered
  <2>2. {g \in S : g > m} = S \ {m}
    <3>1. \A g \in S : g > m <=> g # m
      <4>1. \A g \in S : g \in Nat
        BY KeepType
      <4>2. QED BY <2>1, <4>1
    <3>2. QED BY <3>1
  <2>3. Cardinality(S \ {m}) = Cardinality(S) - 1 /\ IsFiniteSet(S \ {m})
    BY <2>1, FS_RemoveElement
  <2>4. Cardinality(S) \in Nat /\ Cardinality(S \ {m}) \in Nat
    BY <2>3, FS_CardinalityType
  <2>5. ~(Cardinality({g \in S : g > m}) >= Keep)
    BY <2>1 DEF Stale
  <2>6. QED BY <2>2, <2>3, <2>4, <2>5, KeepType
<1>3. QED BY <1>1, <1>2

(* Removing a name leaves no other name to go that was not to go before. *)
LEMMA StaleShrinks ==
    ASSUME NEW S \in SUBSET Names, IsFiniteSet(S), NEW f
    PROVE  Stale(S \ {f}) \subseteq Stale(S) \ {f}
<1> SUFFICES ASSUME NEW x \in Stale(S \ {f}) PROVE x \in Stale(S) /\ x # f
  OBVIOUS
<1> DEFINE A == {g \in S \ {f} : g > x}
           B == {g \in S : g > x}
<1>1. x \in S /\ x # f /\ Cardinality(A) >= Keep
  BY DEF Stale
<1>2. A \subseteq B /\ B \subseteq S
  OBVIOUS
<1>3. IsFiniteSet(B)
  BY <1>2, FS_Subset
<1>4. IsFiniteSet(A) /\ Cardinality(A) <= Cardinality(B)
  BY <1>2, <1>3, FS_Subset
<1>5. Cardinality(A) \in Nat /\ Cardinality(B) \in Nat
  BY <1>3, <1>4, FS_CardinalityType
<1>6. Cardinality(B) >= Keep
  BY <1>1, <1>4, <1>5, KeepType
<1>7. QED BY <1>1, <1>6 DEF Stale

(* A turn that neither lists nor removes, nor leaves such a stage. *)
Tidying(c) == c.at \in {"listing", "pruning"}

LEMMA ShotsUntouched ==
    ASSUME StaleIsDoomed, NEW s \in Slots, OnlyCall(s), ~Tidying(call[s]), shots' = shots
    PROVE  StaleIsDoomed'
<1>1. \A t \in Slots : Tidying(call[t]) => call'[t] = call[t]
  BY DEF OnlyCall
<1>2. \A t \in Slots : call[t].at = "listing" => call'[t].at = "listing"
  BY <1>1 DEF Tidying
<1>3. \A t \in Slots : call[t].at = "pruning" => call'[t].at = "pruning" /\ call'[t].files = call[t].files
  BY <1>1 DEF Tidying
<1>4. \A f : Doomed(f) => Doomed(f)'
  BY <1>3 DEF Doomed
<1>5. QED BY <1>2, <1>4 DEF StaleIsDoomed

LEMMA ShotsTurn ==
    ASSUME TypeOK, StaleIsDoomed, NEW s \in Slots, Turn(s)
    PROVE  StaleIsDoomed'
<1> DEFINE c == call[s]
           d == call'[s]
<1>1. OnlyCall(s) /\ shots \in SUBSET Names /\ IsFiniteSet(shots)
  BY TurnFrame DEF TypeOK, ShotsOK
<1>2. CASE Begin(s)
  <2>1. ~Tidying(c) /\ shots' = shots
    BY <1>2, ActTurn, OtherBeginnings DEF Begin, Rests, Tidying, Still
  <2>2. QED BY <1>1, <2>1, ShotsUntouched
<1>3. CASE Walks(s) \/ Picked(s) \/ Polls(s) \/ Reads(s)
  <2>1. ~Tidying(c) /\ shots' = shots
    BY <1>3, WalkTurn, PickTurn, PollTurn, ReadTurn DEF Tidying, Still
  <2>2. QED BY <1>1, <2>1, ShotsUntouched
<1>4. CASE Caches(s) \/ Fires(s) \/ Moves(s)
  <2>1. ~Tidying(c) /\ shots' = shots
    BY <1>4, CacheTurn, FireTurn, MoveTurn DEF Moves, Tidying
  <2>2. QED BY <1>1, <2>1, ShotsUntouched
<1>5. CASE Ends(s)
  <2>1. ~Tidying(c)
    BY <1>5, EndTurn DEF Ended, Tidying
  <2>2. shots' = shots
    BY <1>5 DEF Ends, Fired, Lands, Fails, MoveEnds, MoveBreaks, WaitTimesOut, ShotFails
  <2>3. QED BY <1>1, <2>1, <2>2, ShotsUntouched
<1>6. CASE Shot(s)
  <2>1. d.at = "listing"
    BY <1>6, ShotTurn
  <2>2. QED BY <2>1 DEF StaleIsDoomed
<1>7. CASE Lists(s)
  <2>1. d.at = "pruning" /\ d.files = Stale(shots) /\ shots' = shots
    BY <1>7, ShotTurn
  <2>2. \A f \in Stale(shots) : Doomed(f)'
    BY <2>1 DEF Doomed
  <2>3. QED BY <2>1, <2>2 DEF StaleIsDoomed
<1>8. CASE Prunes(s)
  <2>1. c.at = "pruning" /\ \A t \in Slots \ {s} : call'[t] = call[t]
    BY <1>1, <1>8, ShotTurn DEF OnlyCall
  <2>2. CASE \E t \in Slots : call[t].at = "listing"
    BY <2>1, <2>2 DEF StaleIsDoomed
  <2>3. CASE (\A f \in Stale(shots) : Doomed(f)) /\ c.files = {} /\ shots' = shots
    <3>1. \A f : Doomed(f) => Doomed(f)'
      BY <2>1, <2>3 DEF Doomed
    <3>2. QED BY <2>3, <3>1 DEF StaleIsDoomed
  <2>4. CASE (\A f \in Stale(shots) : Doomed(f)) /\ d.at = "pruning"
             /\ \E f \in c.files : shots' = shots \ {f} /\ d.files = c.files \ {f}
    <3>1. PICK f \in c.files : shots' = shots \ {f} /\ d.files = c.files \ {f}
      BY <2>4
    <3>2. \A g \in Stale(shots') : g \in Stale(shots) /\ g # f
      BY <1>1, <3>1, StaleShrinks
    <3>3. \A g : Doomed(g) /\ g # f => Doomed(g)'
      BY <2>1, <2>4, <3>1 DEF Doomed
    <3>4. \A g \in Stale(shots') : Doomed(g)'
      BY <2>4, <3>2, <3>3
    <3>5. QED BY <3>4 DEF StaleIsDoomed
  <2>5. QED BY <1>8, <2>2, <2>3, <2>4, ShotTurn DEF StaleIsDoomed
<1>9. QED BY <1>2, <1>3, <1>4, <1>5, <1>6, <1>7, <1>8 DEF Turn

LEMMA ShotsStep == TypeOK /\ StaleIsDoomed /\ [Next]_vars => StaleIsDoomed'
<1> SUFFICES ASSUME TypeOK, StaleIsDoomed, [Next]_vars PROVE StaleIsDoomed'
  OBVIOUS
<1>1. ASSUME UNCHANGED <<call, shots>> PROVE StaleIsDoomed'
  <2>1. \A f : Doomed(f) => Doomed(f)'
    BY <1>1 DEF Doomed
  <2>2. QED BY <1>1, <2>1 DEF StaleIsDoomed
<1>2. CASE Pause \/ Tick \/ (\E p \in pending : Resume(p)) \/ UNCHANGED vars
  BY <1>1, <1>2 DEF Pause, Tick, Resume, vars
<1>3. QED BY <1>1, <1>2, ShotsTurn, StepFrame

(* When every screenshot has been answered, no more than Keep are left. *)
THEOREM ScreenshotsAreBounded == Spec => []ShotsAreBounded
<1>1. Init => StaleIsDoomed
  <2>1. Stale({}) = {}
    BY DEF Stale
  <2>2. QED BY <2>1 DEF Init, StaleIsDoomed
<1>2. TypeOK /\ StaleIsDoomed => ShotsAreBounded
  <2> SUFFICES ASSUME TypeOK, StaleIsDoomed, \A s \in Slots : call[s].at \in {"idle", "answered"}
               PROVE  Cardinality(shots) <= Keep
    BY DEF ShotsAreBounded
  <2>1. Stale(shots) = {}
    BY DEF StaleIsDoomed, Doomed
  <2>2. QED BY <2>1, NoneStaleIsBounded DEF TypeOK, ShotsOK
<1>3. QED BY <1>1, <1>2, ShotsStep, ActionsTyping, PTL DEF Spec
=============================================================================
