------------------------ MODULE HumanControl_proofs ------------------------
(***************************************************************************)
(* Theorems about HumanControl, for any sessions, pages, calls, submissions*)
(* and bounds, with and without failing log lines.                         *)
(***************************************************************************)
EXTENDS HumanControl, TLAPS

\* What the id counter means: challenges up to count exist, the others do not,
\* and a submission that is typing has a challenge.
Numbered ==
    /\ \A c \in Ids : c > count => status[c] = "none" /\ creating[c] = "no"
    /\ \A c \in Ids : c <= count => status[c] # "none" /\ challenge[c].page \in Pages
    /\ \A r \in Submits : submit[r].at = "typing" => submit[r].id \in 1..count

ChallengeInv == TypeOK /\ Numbered /\ ControlFollowsChallenge

-----------------------------------------------------------------------------
LEMMA CountIsNumber ==
    ASSUME TypeOK
    PROVE  count \in Nat /\ 1..count \subseteq Ids
<1>1. MaxChallenges \in Nat BY ControlAssumption
<1>. QED BY <1>1 DEF TypeOK, Ids

\* A call is never mistaken for a challenge in the pause registry.
LEMMA CallsAreNoIds == \A a \in Calls, c \in Ids : a # c
<1>1. MaxChallenges \in Nat /\ Calls \cap Nat = {} BY ControlAssumption
<1>2. Ids \subseteq Nat BY <1>1 DEF Ids
<1>. QED BY <1>1, <1>2

\* What ending a challenge does to the parts of the invariant it touches.
LEMMA EndKeepsControl ==
    ASSUME ControlFollowsChallenge, TypeOK, NEW c \in Ids, NEW how \in Ended,
           status' = [status EXCEPT ![c] = how], Release(c)
    PROVE  /\ ControlFollowsChallenge'
           /\ status' \in [Ids -> {"none", "pending"} \cup Ended]
           /\ pending' \subseteq Calls \cup Ids
           /\ held' \subseteq Ids /\ armed' \subseteq Ids
           /\ poller' \subseteq Ids /\ early' \subseteq Ids
           /\ \A d \in Ids : status'[d] = IF d = c THEN how ELSE status[d]
<1>1. \A d \in Ids : status'[d] = IF d = c THEN how ELSE status[d]
  BY DEF TypeOK
<1>2. how # "pending" BY DEF Ended
<1>3. ControlFollowsChallenge'
  BY <1>1, <1>2 DEF ControlFollowsChallenge, Release
<1>4. status' \in [Ids -> {"none", "pending"} \cup Ended]
  BY DEF TypeOK
<1>. QED BY <1>1, <1>3, <1>4 DEF Release, TypeOK

-----------------------------------------------------------------------------
\* Types, action by action.
LEMMA InitTypes == Init => TypeOK
<1>1. MaxChallenges \in Nat BY ControlAssumption
<1>. QED BY <1>1 DEF Init, TypeOK, Challenged

CallAction(a) ==
    \/ \E p \in Pages : AwaitBegin(a, p)
    \/ BarShown(a) \/ ResumeByLink(a) \/ PollSees(a) \/ SignalSeen(a) \/ TimesOut(a) \/ RemoveBar(a)
PageAction(p) == ClickResume(p) \/ NewDocument(p)

LEMMA CallTypes ==
    ASSUME TypeOK, NEW a \in Calls, CallAction(a)
    PROVE  TypeOK'
<1>. USE DEF TypeOK, mfaVars
<1>1. ASSUME NEW p \in Pages, AwaitBegin(a, p) PROVE TypeOK'
  <2>1. met' \in [Calls -> SUBSET Calls] BY <1>1 DEF AwaitBegin, Waiting
  <2>2. call' \in [Calls -> [at : {"idle", "showing", "waiting", "lingering", "done"},
                             page : Pages \cup {None}, banner : BOOLEAN]]
    BY <1>1 DEF AwaitBegin
  <2>. QED BY <1>1, <2>1, <2>2 DEF AwaitBegin
<1>2. CASE BarShown(a)
  <2>1. resumeBar' \in [Pages -> {"none", "shown", "clicked"}] BY <1>2 DEF BarShown
  <2>2. call' \in [Calls -> [at : {"idle", "showing", "waiting", "lingering", "done"},
                             page : Pages \cup {None}, banner : BOOLEAN]]
    BY <1>2 DEF BarShown, CallGoes, Settle
  <2>3. resumedBy' \in [Calls -> {"nobody", "human", "signal", "timeout"}]
    BY <1>2 DEF BarShown, Settle
  <2>. QED BY <1>2, <2>1, <2>2, <2>3 DEF BarShown
<1>3. CASE ResumeByLink(a)
  <2>1. call' \in [Calls -> [at : {"idle", "showing", "waiting", "lingering", "done"},
                             page : Pages \cup {None}, banner : BOOLEAN]]
    BY <1>3 DEF ResumeByLink, CallGoes, Settle
  <2>2. resumedBy' \in [Calls -> {"nobody", "human", "signal", "timeout"}]
    BY <1>3 DEF ResumeByLink, Settle
  <2>. QED BY <1>3, <2>1, <2>2 DEF ResumeByLink
<1>4. CASE PollSees(a)
  <2>1. call' \in [Calls -> [at : {"idle", "showing", "waiting", "lingering", "done"},
                             page : Pages \cup {None}, banner : BOOLEAN]]
    BY <1>4 DEF PollSees, CallGoes, Settle
  <2>2. resumedBy' \in [Calls -> {"nobody", "human", "signal", "timeout"}]
    BY <1>4 DEF PollSees, Settle
  <2>. QED BY <1>4, <2>1, <2>2 DEF PollSees
<1>5. CASE SignalSeen(a)
  <2>1. call' \in [Calls -> [at : {"idle", "showing", "waiting", "lingering", "done"},
                             page : Pages \cup {None}, banner : BOOLEAN]]
    BY <1>5 DEF SignalSeen, CallGoes, Settle
  <2>2. resumedBy' \in [Calls -> {"nobody", "human", "signal", "timeout"}]
    BY <1>5 DEF SignalSeen, Settle
  <2>. QED BY <1>5, <2>1, <2>2 DEF SignalSeen
<1>6. CASE TimesOut(a)
  <2>1. call' \in [Calls -> [at : {"idle", "showing", "waiting", "lingering", "done"},
                             page : Pages \cup {None}, banner : BOOLEAN]]
    BY <1>6 DEF TimesOut, CallGoes, Settle
  <2>2. resumedBy' \in [Calls -> {"nobody", "human", "signal", "timeout"}]
    BY <1>6 DEF TimesOut, Settle
  <2>. QED BY <1>6, <2>1, <2>2 DEF TimesOut
<1>7. CASE RemoveBar(a)       BY <1>7 DEF RemoveBar, CallGoes
<1>. QED BY <1>1, <1>2, <1>3, <1>4, <1>5, <1>6, <1>7 DEF CallAction

LEMMA PageTypes ==
    ASSUME TypeOK, NEW p \in Pages, PageAction(p)
    PROVE  TypeOK'
<1>. USE DEF TypeOK, mfaVars
<1>1. CASE ClickResume(p)     BY <1>1 DEF ClickResume, Waiting
<1>2. CASE NewDocument(p)     BY <1>2 DEF NewDocument
<1>. QED BY <1>1, <1>2 DEF PageAction

\* An await-human call leaves every challenge and its pause alone.
LEMMA CallQuiet ==
    ASSUME NEW a \in Calls, CallAction(a)
    PROVE  /\ UNCHANGED <<mfaVars, session>>
           /\ \A c \in Ids : c \in pending' <=> c \in pending
<1>1. UNCHANGED <<mfaVars, session>> /\ pending' \in {pending, pending \cup {a}, pending \ {a}}
  BY DEF CallAction, AwaitBegin, BarShown, ResumeByLink, PollSees, SignalSeen, TimesOut, RemoveBar
<1>. QED BY <1>1, CallsAreNoIds

LEMMA PageQuiet ==
    ASSUME NEW p \in Pages, PageAction(p)
    PROVE  UNCHANGED <<mfaVars, session, pending, call, resumedBy>>
BY DEF PageAction, ClickResume, NewDocument, mfaVars

\* The invariant survives what does not touch a challenge.
LEMMA QuietStep ==
    ASSUME ChallengeInv, TypeOK', UNCHANGED mfaVars,
           \A c \in Ids : c \in pending' <=> c \in pending
    PROVE  ChallengeInv'
<1>1. Numbered' BY DEF ChallengeInv, Numbered, mfaVars
<1>2. ControlFollowsChallenge' BY DEF ChallengeInv, ControlFollowsChallenge, mfaVars
<1>. QED BY <1>1, <1>2 DEF ChallengeInv

\* The challenge's own steps.
LEMMA CreateChallengeStep ==
    ASSUME ChallengeInv, NEW p \in Pages, NEW type \in {"code", "push"},
           CreateChallenge(p, type)
    PROVE  ChallengeInv' /\ status[count + 1] = "none" /\ count + 1 \in Ids
<1>. USE DEF CreateChallenge, callVars
<1>1. count \in Nat /\ MaxChallenges \in Nat
  BY CountIsNumber, ControlAssumption DEF ChallengeInv
<1>2. count + 1 \in Ids /\ count + 1 <= MaxChallenges BY <1>1 DEF Ids
<1>3. status[count + 1] = "none" BY <1>1, <1>2 DEF ChallengeInv, Numbered
<1>4. TypeOK'
  <2>1. challenge' \in [Ids -> Challenged] BY <1>2 DEF ChallengeInv, TypeOK, Challenged
  <2>2. count' \in 0..MaxChallenges BY <1>1, <1>2
  <2>. QED BY <1>2, <2>1, <2>2 DEF ChallengeInv, TypeOK
<1>5. Numbered'
  BY <1>1, <1>2 DEF ChallengeInv, Numbered, TypeOK, Ids
<1>6. ControlFollowsChallenge'
  BY <1>2, <1>3 DEF ChallengeInv, ControlFollowsChallenge, TypeOK
<1>. QED BY <1>2, <1>3, <1>4, <1>5, <1>6 DEF ChallengeInv

LEMMA CreateStepStep ==
    ASSUME ChallengeInv, NEW c \in Ids, CreateStep(c)
    PROVE  ChallengeInv'
<1>. USE DEF CreateStep, Announced, BannerUp, CreatingGoes, callVars
<1>1. TypeOK' BY DEF ChallengeInv, TypeOK
<1>2. Numbered' BY DEF ChallengeInv, Numbered, TypeOK
<1>3. ControlFollowsChallenge' BY DEF ChallengeInv, ControlFollowsChallenge
<1>. QED BY <1>1, <1>2, <1>3 DEF ChallengeInv

\* A challenge that ends, by whoever's step.
LEMMA EndStep ==
    ASSUME ChallengeInv, NEW c \in Ids, NEW how \in Ended, End(c, how), status[c] # "none",
           UNCHANGED <<callVars, count, challenge, creating>>,
           session' \in [Sessions ->
              {"open", "closing", "cancelling", "logging", "gone", "broken"}],
           submit' \in [Submits -> [at : {"idle", "typing", "done", "failed"},
                                    id : 0..MaxChallenges]],
           \A r \in Submits : submit'[r].at = "typing" => submit'[r] = submit[r]
    PROVE  ChallengeInv'
<1>1. /\ ControlFollowsChallenge'
      /\ status' \in [Ids -> {"none", "pending"} \cup Ended]
      /\ pending' \subseteq Calls \cup Ids
      /\ held' \subseteq Ids /\ armed' \subseteq Ids
      /\ poller' \subseteq Ids /\ early' \subseteq Ids
      /\ \A d \in Ids : status'[d] = IF d = c THEN how ELSE status[d]
  BY EndKeepsControl DEF ChallengeInv, End
<1>2. TypeOK' BY <1>1 DEF ChallengeInv, TypeOK, callVars
<1>3. how # "none" BY DEF Ended
<1>4. count \in Nat BY CountIsNumber DEF ChallengeInv
<1>5. Numbered'
  <2>1. \A d \in Ids : d > count => d # c BY <1>4 DEF ChallengeInv, Numbered
  <2>. QED BY <1>1, <1>3, <2>1 DEF ChallengeInv, Numbered
<1>. QED BY <1>1, <1>2, <1>5 DEF ChallengeInv

LEMMA SubmitStep ==
    ASSUME ChallengeInv, NEW r \in Submits, NEW c \in Ids, Submit(r, c)
    PROVE  ChallengeInv'
<1>. USE DEF Submit
<1>0. c \in 1..count /\ c \in 0..MaxChallenges
  <2>1. MaxChallenges \in Nat /\ count \in Nat
    BY ControlAssumption, CountIsNumber DEF ChallengeInv
  <2>2. c <= count BY <2>1 DEF ChallengeInv, Numbered, Ids
  <2>. QED BY <2>1, <2>2 DEF Ids
<1>1. CASE challenge[c].type = "push"
  <2>1. End(c, "resolved") /\ "resolved" \in Ended BY <1>1 DEF Ended
  <2>2. submit' = [submit EXCEPT ![r] = [at |-> "done", id |-> c]] BY <1>1
  <2>3. submit' \in [Submits -> [at : {"idle", "typing", "done", "failed"}, id : 0..MaxChallenges]]
    BY <1>0, <2>2 DEF ChallengeInv, TypeOK
  <2>4. \A q \in Submits : submit'[q].at = "typing" => submit'[q] = submit[q]
    BY <2>2 DEF ChallengeInv, TypeOK
  <2>5. session' \in [Sessions -> {"open", "closing", "cancelling", "logging", "gone", "broken"}]
    BY DEF ChallengeInv, TypeOK
  <2>. QED BY <2>1, <2>3, <2>4, <2>5, EndStep
<1>2. CASE challenge[c].type # "push"
  <2>1. submit' = [submit EXCEPT ![r] = [at |-> "typing", id |-> c]] BY <1>2
  <2>2. UNCHANGED <<pending, session, status, held, armed, poller, early, callVars, count,
                    challenge, creating>>
    BY <1>2
  <2>3. TypeOK' BY <1>0, <2>1, <2>2 DEF ChallengeInv, TypeOK, callVars
  <2>4. Numbered' BY <1>0, <2>1, <2>2 DEF ChallengeInv, Numbered, TypeOK
  <2>5. ControlFollowsChallenge' BY <2>2 DEF ChallengeInv, ControlFollowsChallenge
  <2>. QED BY <2>3, <2>4, <2>5 DEF ChallengeInv
<1>. QED BY <1>1, <1>2

LEMMA TypedStep ==
    ASSUME ChallengeInv, NEW r \in Submits, Typed(r)
    PROVE  ChallengeInv' /\ submit[r].id \in Ids
<1>. USE DEF Typed
<1>1. submit[r].id \in 1..count /\ submit[r].id \in Ids
  BY CountIsNumber DEF ChallengeInv, Numbered
<1>2. status[submit[r].id] # "none"
  <2>1. count \in Nat BY CountIsNumber DEF ChallengeInv
  <2>. QED BY <1>1, <2>1 DEF ChallengeInv, Numbered
<1>3. submit' \in [Submits -> [at : {"idle", "typing", "done", "failed"}, id : 0..MaxChallenges]]
  BY DEF ChallengeInv, TypeOK
<1>4. \A q \in Submits : submit'[q].at = "typing" => submit'[q] = submit[q]
  BY DEF ChallengeInv, TypeOK
<1>5. session' \in [Sessions -> {"open", "closing", "cancelling", "logging", "gone", "broken"}]
  BY DEF ChallengeInv, TypeOK
<1>6. "resolved" \in Ended BY DEF Ended
<1>. QED BY <1>1, <1>2, <1>3, <1>4, <1>5, <1>6, EndStep

LEMMA TypingFailsStep ==
    ASSUME ChallengeInv, NEW r \in Submits, TypingFails(r)
    PROVE  ChallengeInv'
<1>. USE DEF TypingFails, callVars
<1>1. TypeOK' BY DEF ChallengeInv, TypeOK
<1>2. Numbered' BY DEF ChallengeInv, Numbered, TypeOK
<1>3. ControlFollowsChallenge' BY DEF ChallengeInv, ControlFollowsChallenge
<1>. QED BY <1>1, <1>2, <1>3 DEF ChallengeInv

LEMMA ExpireStep ==
    ASSUME ChallengeInv, NEW c \in Ids, Expire(c)
    PROVE  ChallengeInv'
<1>1. \A q \in Submits : submit'[q].at = "typing" => submit'[q] = submit[q]
  BY DEF Expire
<1>2. /\ session' \in [Sessions -> {"open", "closing", "cancelling", "logging", "gone", "broken"}]
      /\ submit' \in [Submits -> [at : {"idle", "typing", "done", "failed"}, id : 0..MaxChallenges]]
  BY DEF Expire, ChallengeInv, TypeOK
<1>3. "timed-out" \in Ended BY DEF Ended
<1>. QED BY <1>1, <1>2, <1>3, EndStep DEF Expire

LEMMA CancelNextStep ==
    ASSUME ChallengeInv, NEW s \in Sessions, CancelNext(s)
    PROVE  ChallengeInv'
<1>1. PICK c \in PendingOf(s) : End(c, "timed-out") BY DEF CancelNext
<1>2. c \in Ids /\ status[c] = "pending"
  BY <1>1, CountIsNumber DEF ChallengeInv, PendingOf, ChallengesOf
<1>3. \A q \in Submits : submit'[q].at = "typing" => submit'[q] = submit[q]
  BY DEF CancelNext
<1>4. session' \in [Sessions -> {"open", "closing", "cancelling", "logging", "gone", "broken"}]
  BY DEF CancelNext, SessionGoes, ChallengeInv, TypeOK
<1>5. submit' \in [Submits -> [at : {"idle", "typing", "done", "failed"}, id : 0..MaxChallenges]]
  BY DEF CancelNext, ChallengeInv, TypeOK
<1>6. "timed-out" \in Ended BY DEF Ended
<1>. QED BY <1>1, <1>2, <1>3, <1>4, <1>5, <1>6, EndStep DEF CancelNext

\* When DELETE comes to the holds there is none left to drop.
LEMMA NoHoldLeft ==
    ASSUME ChallengeInv, NEW s \in Sessions, PendingOf(s) = {}
    PROVE  held \ ChallengesOf(s) = held
<1>1. \A c \in ChallengesOf(s) : c \in Ids /\ status[c] # "pending"
  BY CountIsNumber DEF ChallengeInv, PendingOf, ChallengesOf
<1>. QED BY <1>1 DEF ChallengeInv, ControlFollowsChallenge

LEMMA DeleteQuiet ==
    ASSUME ChallengeInv, NEW s \in Sessions,
           DeleteBegin(s) \/ CloseEnds(s) \/ CancelLogged(s) \/ Revoke(s)
    PROVE  ChallengeInv' /\ UNCHANGED <<pending, callVars, mfaVars>>
<1>1. UNCHANGED <<pending, callVars, mfaVars>>
  BY NoHoldLeft DEF DeleteBegin, CloseEnds, CancelLogged, Revoke, mfaVars
<1>2. session' \in [Sessions -> {"open", "closing", "cancelling", "logging", "gone", "broken"}]
  BY DEF DeleteBegin, CloseEnds, CancelLogged, Revoke, SessionGoes, ChallengeInv, TypeOK
<1>3. TypeOK' BY <1>1, <1>2 DEF ChallengeInv, TypeOK, callVars, mfaVars
<1>. QED BY <1>1, <1>3, QuietStep

-----------------------------------------------------------------------------
LEMMA InitInv == Init => ChallengeInv
<1>1. SUFFICES ASSUME Init PROVE Numbered /\ ControlFollowsChallenge
  BY InitTypes DEF ChallengeInv
<1>2. MaxChallenges \in Nat BY ControlAssumption
<1>3. Numbered BY <1>1, <1>2 DEF Init, Numbered, Ids
<1>4. ControlFollowsChallenge BY <1>1 DEF Init, ControlFollowsChallenge
<1>. QED BY <1>3, <1>4

\* The challenge's own actions.
ChallengeAction ==
    \/ \E p \in Pages, type \in {"code", "push"} : CreateChallenge(p, type)
    \/ \E c \in Ids : CreateStep(c) \/ Expire(c)
    \/ \E r \in Submits : (\E c \in Ids : Submit(r, c)) \/ Typed(r) \/ TypingFails(r)
SessionAction(s) == DeleteBegin(s) \/ CloseEnds(s) \/ DeleteStep(s)

LEMMA NextByActor ==
    ASSUME Next
    PROVE  \/ \E a \in Calls : CallAction(a)
           \/ \E p \in Pages : PageAction(p)
           \/ ChallengeAction
           \/ \E s \in Sessions : SessionAction(s)
BY DEF Next, CallAction, PageAction, ChallengeAction, SessionAction

LEMMA NextInv == ChallengeInv /\ [Next]_vars => ChallengeInv'
<1>. SUFFICES ASSUME ChallengeInv, [Next]_vars PROVE ChallengeInv'
  OBVIOUS
<1>1. ASSUME NEW a \in Calls, CallAction(a) PROVE ChallengeInv'
  BY <1>1, CallTypes, CallQuiet, QuietStep DEF ChallengeInv
<1>2. ASSUME NEW p \in Pages, PageAction(p) PROVE ChallengeInv'
  BY <1>2, PageTypes, PageQuiet, QuietStep DEF ChallengeInv
<1>3. CASE ChallengeAction
  BY <1>3, CreateChallengeStep, CreateStepStep, ExpireStep, SubmitStep, TypedStep,
     TypingFailsStep
     DEF ChallengeAction
<1>4. ASSUME NEW s \in Sessions, SessionAction(s) PROVE ChallengeInv'
  BY <1>4, CancelNextStep, DeleteQuiet DEF SessionAction, DeleteStep
<1>5. CASE UNCHANGED vars
  <2>1. TypeOK' BY <1>5 DEF ChallengeInv, TypeOK, vars, callVars, mfaVars
  <2>. QED BY <1>5, <2>1, QuietStep DEF vars
<1>. QED BY <1>1, <1>2, <1>3, <1>4, <1>5, NextByActor

LEMMA ChallengeInvHolds == Spec => []ChallengeInv
BY InitInv, NextInv, PTL DEF Spec

\* Every variable keeps its type: calls, challenges, submissions and the DELETE
\* step through their stages and no other, at every bound.
THEOREM ControlTyping == Spec => []TypeOK
<1>1. ChallengeInv => TypeOK BY DEF ChallengeInv
<1>. QED BY <1>1, ChallengeInvHolds, PTL

\* Pause, hold and timer are there exactly as long as the challenge is pending,
\* however submissions, timers, DELETE and await-human calls interleave.
THEOREM ControlFollows == Spec => []ControlFollowsChallenge
<1>1. ChallengeInv => ControlFollowsChallenge BY DEF ChallengeInv
<1>. QED BY <1>1, ChallengeInvHolds, PTL

-----------------------------------------------------------------------------
\* A challenge that ended is made resolved by a submission whose code was being
\* typed, and is otherwise left as it ended.
THEOREM EndedStays == Spec => EndedStaysEnded
<1>. DEFINE Kept == \A c \in Ids : status[c] \in Ended /\ status'[c] # status[c] =>
                     /\ status'[c] = "resolved"
                     /\ \E r \in Submits : submit[r] = [at |-> "typing", id |-> c]
<1>1. ASSUME ChallengeInv, [Next]_vars PROVE [Kept]_vars
  <2>. SUFFICES ASSUME NEW c \in Ids, status[c] \in Ended, status'[c] # status[c]
                PROVE  /\ status'[c] = "resolved"
                       /\ \E r \in Submits : submit[r] = [at |-> "typing", id |-> c]
    OBVIOUS
  <2>0. status[c] # "pending" /\ status[c] # "none" BY DEF Ended
  <2>1. ASSUME NEW a \in Calls, CallAction(a) PROVE FALSE
    BY <2>1, CallQuiet DEF mfaVars
  <2>2. ASSUME NEW p \in Pages, PageAction(p) PROVE FALSE
    BY <2>2, PageQuiet DEF mfaVars
  <2>3. ASSUME NEW p \in Pages, NEW type \in {"code", "push"}, CreateChallenge(p, type)
        PROVE  FALSE
    <3>1. status[count + 1] = "none" BY <2>3, <1>1, CreateChallengeStep
    <3>2. status' = [status EXCEPT ![count + 1] = "pending"] BY <2>3 DEF CreateChallenge
    <3>3. DOMAIN status = Ids BY <1>1 DEF ChallengeInv, TypeOK
    <3>4. c # count + 1 BY <2>0, <3>1
    <3>. QED BY <3>2, <3>3, <3>4
  <2>4. ASSUME NEW d \in Ids, CreateStep(d) PROVE FALSE
    BY <2>4 DEF CreateStep, Announced, BannerUp
  <2>5. ASSUME NEW d \in Ids, Expire(d) PROVE FALSE
    BY <2>0, <2>5, <1>1 DEF Expire, End, ChallengeInv, TypeOK
  <2>6. ASSUME NEW r \in Submits, NEW d \in Ids, Submit(r, d) PROVE FALSE
    BY <2>0, <2>6, <1>1 DEF Submit, End, ChallengeInv, TypeOK
  <2>7. ASSUME NEW r \in Submits, Typed(r)
        PROVE  /\ status'[c] = "resolved"
               /\ submit[r] = [at |-> "typing", id |-> c]
    <3>1. submit[r].id = c /\ status'[c] = "resolved"
      BY <2>7, <1>1 DEF Typed, End, ChallengeInv, TypeOK
    <3>. QED BY <2>7, <3>1, <1>1 DEF Typed, ChallengeInv, TypeOK
  <2>8. ASSUME NEW r \in Submits, TypingFails(r) PROVE FALSE
    BY <2>8 DEF TypingFails
  <2>9. ASSUME NEW s \in Sessions, SessionAction(s) PROVE FALSE
    <3>1. CASE CancelNext(s)
      BY <2>0, <3>1, <1>1 DEF CancelNext, End, PendingOf, ChallengeInv, TypeOK
    <3>. QED BY <2>9, <3>1, <1>1, DeleteQuiet DEF SessionAction, DeleteStep, mfaVars
  <2>10. CASE UNCHANGED vars BY <2>10 DEF vars, mfaVars
  <2>. QED BY <1>1, <2>1, <2>2, <2>3, <2>4, <2>5, <2>6, <2>7, <2>8, <2>9, <2>10, NextByActor
           DEF ChallengeAction
<1>. QED BY <1>1, ChallengeInvHolds, PTL DEF Spec, EndedStaysEnded
-----------------------------------------------------------------------------
\* A session that is gone has no pending challenge.
GoneClear == \A c \in 1..count : session[Of(c)] = "gone" => status[c] # "pending"

\* What no step of a challenge does: it does not touch the sessions, moves no
\* challenge to another page, and makes none pending but a new one, whose
\* session is found.
LEMMA ChallengeActionPends ==
    ASSUME ChallengeInv, ChallengeAction
    PROVE  /\ UNCHANGED session
           /\ \/ UNCHANGED <<count, challenge>>
                 /\ \A c \in Ids : status'[c] = "pending" => status[c] = "pending"
              \/ \E p \in Pages :
                    /\ count' = count + 1 /\ count + 1 \in Ids
                    /\ \A c \in 1..count : challenge'[c] = challenge[c] /\ status'[c] = status[c]
                    /\ challenge'[count + 1].page = p
                    /\ session[PageSession[p]] # "gone"
<1>1. ASSUME NEW p \in Pages, NEW type \in {"code", "push"}, CreateChallenge(p, type)
      PROVE  /\ UNCHANGED session
             /\ count' = count + 1 /\ count + 1 \in Ids
             /\ \A c \in 1..count : challenge'[c] = challenge[c] /\ status'[c] = status[c]
             /\ challenge'[count + 1].page = p
             /\ session[PageSession[p]] # "gone"
  <2>1. count + 1 \in Ids BY <1>1, CreateChallengeStep
  <2>2. count \in Nat /\ 1..count \subseteq Ids BY CountIsNumber DEF ChallengeInv
  <2>3. \A c \in 1..count : c \in Ids /\ c # count + 1 BY <2>2
  <2>. QED BY <1>1, <2>1, <2>3 DEF CreateChallenge, Found, ChallengeInv, TypeOK
<1>2. ASSUME NEW c \in Ids, CreateStep(c)
      PROVE  UNCHANGED <<session, count, challenge, status>>
  BY <1>2 DEF CreateStep, Announced, BannerUp
<1>3. ASSUME NEW c \in Ids, Expire(c)
      PROVE  /\ UNCHANGED <<session, count, challenge>>
             /\ \A d \in Ids : status'[d] = "pending" => status[d] = "pending"
  BY <1>3 DEF Expire, End, ChallengeInv, TypeOK
<1>4. ASSUME NEW r \in Submits, NEW c \in Ids, Submit(r, c)
      PROVE  /\ UNCHANGED <<session, count, challenge>>
             /\ \A d \in Ids : status'[d] = "pending" => status[d] = "pending"
  BY <1>4 DEF Submit, End, ChallengeInv, TypeOK
<1>5. ASSUME NEW r \in Submits, Typed(r)
      PROVE  /\ UNCHANGED <<session, count, challenge>>
             /\ \A d \in Ids : status'[d] = "pending" => status[d] = "pending"
  BY <1>5 DEF Typed, End, ChallengeInv, TypeOK
<1>6. ASSUME NEW r \in Submits, TypingFails(r)
      PROVE  UNCHANGED <<session, count, challenge, status>>
  BY <1>6 DEF TypingFails
<1>. QED BY <1>1, <1>2, <1>3, <1>4, <1>5, <1>6 DEF ChallengeAction

LEMMA SessionActionPends ==
    ASSUME ChallengeInv, NEW s \in Sessions, SessionAction(s)
    PROVE  /\ UNCHANGED <<count, challenge>>
           /\ \A c \in Ids : status'[c] = "pending" => status[c] = "pending"
           /\ \A q \in Sessions : session'[q] = "gone" =>
                 session[q] = "gone" \/ (q = s /\ PendingOf(s) = {})
<1>1. CASE CancelNext(s)
  BY <1>1 DEF CancelNext, SessionGoes, End, PendingOf, ChallengeInv, TypeOK
<1>2. CASE DeleteBegin(s) \/ CloseEnds(s) \/ CancelLogged(s)
  BY <1>2 DEF DeleteBegin, CloseEnds, CancelLogged, SessionGoes, mfaVars, ChallengeInv, TypeOK
<1>3. CASE Revoke(s)
  BY <1>3 DEF Revoke, SessionGoes, ChallengeInv, TypeOK
<1>. QED BY <1>1, <1>2, <1>3 DEF SessionAction, DeleteStep

LEMMA GoneClearNext == ChallengeInv /\ GoneClear /\ [Next]_vars => GoneClear'
<1>. SUFFICES ASSUME ChallengeInv, GoneClear, [Next]_vars,
                     NEW c \in 1..count', session'[Of(c)'] = "gone", status'[c] = "pending"
              PROVE  FALSE
  BY DEF GoneClear
<1>0. count \in Nat /\ 1..count \subseteq Ids BY CountIsNumber DEF ChallengeInv
<1>1. ASSUME NEW a \in Calls, CallAction(a) PROVE FALSE
  BY <1>1, CallQuiet DEF mfaVars, GoneClear, Of
<1>2. ASSUME NEW p \in Pages, PageAction(p) PROVE FALSE
  BY <1>2, PageQuiet DEF mfaVars, GoneClear, Of
<1>3. CASE ChallengeAction
  <2>1. CASE UNCHANGED <<count, challenge>>
             /\ \A d \in Ids : status'[d] = "pending" => status[d] = "pending"
    BY <1>0, <1>3, <2>1, ChallengeActionPends DEF GoneClear, Of
  <2>2. ASSUME NEW p \in Pages, count' = count + 1,
               \A d \in 1..count : challenge'[d] = challenge[d] /\ status'[d] = status[d],
               challenge'[count + 1].page = p,
               session[PageSession[p]] # "gone"
        PROVE  FALSE
    <3>1. c \in 1..count \/ c = count + 1 BY <1>0, <2>2
    <3>2. UNCHANGED session BY <1>3, ChallengeActionPends
    <3>3. CASE c \in 1..count BY <2>2, <3>2, <3>3 DEF GoneClear, Of
    <3>4. CASE c = count + 1 BY <2>2, <3>2, <3>4 DEF Of
    <3>. QED BY <3>1, <3>3, <3>4
  <2>. QED BY <1>3, <2>1, <2>2, ChallengeActionPends
<1>4. ASSUME NEW s \in Sessions, SessionAction(s) PROVE FALSE
  <2>1. /\ UNCHANGED <<count, challenge>>
        /\ c \in Ids /\ c \in 1..count /\ status[c] = "pending"
    BY <1>0, <1>4, SessionActionPends
  <2>2. Of(c)' = Of(c) /\ Of(c) \in Sessions
    BY <1>0, <2>1, ControlAssumption DEF Of, ChallengeInv, Numbered
  <2>3. session[Of(c)] # "gone" BY <2>1 DEF GoneClear
  <2>4. Of(c) = s /\ PendingOf(s) = {} BY <1>4, <2>2, <2>3, SessionActionPends
  <2>. QED BY <2>1, <2>4 DEF PendingOf, ChallengesOf
<1>5. CASE UNCHANGED vars BY <1>5 DEF vars, mfaVars, GoneClear, Of
<1>. QED BY <1>1, <1>2, <1>3, <1>4, <1>5, NextByActor

\* A DELETE that was answered leaves no challenge behind, and none is created
\* afterwards: no timer, hold or pause of the session outlives it.
THEOREM NothingLeft == Spec => []NothingLeftAfterDelete
<1>1. Init => GoneClear BY DEF Init, GoneClear
<1>2. ChallengeInv /\ GoneClear => NothingLeftAfterDelete
  <2>. SUFFICES ASSUME ChallengeInv, GoneClear, NEW c \in 1..count, session[Of(c)] = "gone"
                PROVE  status[c] # "pending" /\ c \notin held \cup armed \cup pending
    BY DEF NothingLeftAfterDelete
  <2>1. c \in Ids BY CountIsNumber DEF ChallengeInv
  <2>. QED BY <2>1 DEF ChallengeInv, GoneClear, ControlFollowsChallenge
<1>. QED BY <1>1, <1>2, ChallengeInvHolds, GoneClearNext, PTL DEF Spec

-----------------------------------------------------------------------------
\* A challenge whose banner is polled, or still to come, is pending or ended early.
BannerInv ==
    \A c \in Ids :
        c \in poller \/ creating[c] \in {"announcing", "showing"}
            => status[c] = "pending" \/ c \in early

LEMMA EndKeepsBanners ==
    ASSUME ChallengeInv, BannerInv, NEW c \in Ids, NEW how \in Ended, End(c, how),
           UNCHANGED creating
    PROVE  BannerInv'
BY DEF End, Release, ChallengeInv, TypeOK, BannerInv

LEMMA BannerNext == ChallengeInv /\ BannerInv /\ [Next]_vars => BannerInv'
<1>. SUFFICES ASSUME ChallengeInv, BannerInv, [Next]_vars PROVE BannerInv'
  OBVIOUS
<1>0. "resolved" \in Ended /\ "timed-out" \in Ended BY DEF Ended
<1>1. ASSUME NEW a \in Calls, CallAction(a) PROVE BannerInv'
  BY <1>1, CallQuiet DEF mfaVars, BannerInv
<1>2. ASSUME NEW p \in Pages, PageAction(p) PROVE BannerInv'
  BY <1>2, PageQuiet DEF mfaVars, BannerInv
<1>3. CASE ChallengeAction
  <2>1. ASSUME NEW p \in Pages, NEW type \in {"code", "push"}, CreateChallenge(p, type)
        PROVE  BannerInv'
    BY <2>1, CreateChallengeStep DEF CreateChallenge, BannerInv, ChallengeInv, TypeOK
  <2>2. ASSUME NEW c \in Ids, CreateStep(c) PROVE BannerInv'
    BY <2>2 DEF CreateStep, Announced, BannerUp, CreatingGoes, BannerInv, ChallengeInv, TypeOK
  <2>3. ASSUME NEW c \in Ids, Expire(c) PROVE BannerInv'
    BY <1>0, <2>3, EndKeepsBanners DEF Expire
  <2>4. ASSUME NEW r \in Submits, NEW c \in Ids, Submit(r, c) PROVE BannerInv'
    BY <1>0, <2>4, EndKeepsBanners DEF Submit, BannerInv
  <2>5. ASSUME NEW r \in Submits, Typed(r) PROVE BannerInv'
    BY <1>0, <2>5, TypedStep, EndKeepsBanners DEF Typed
  <2>6. ASSUME NEW r \in Submits, TypingFails(r) PROVE BannerInv'
    BY <2>6 DEF TypingFails, BannerInv
  <2>. QED BY <1>3, <2>1, <2>2, <2>3, <2>4, <2>5, <2>6 DEF ChallengeAction
<1>4. ASSUME NEW s \in Sessions, SessionAction(s) PROVE BannerInv'
  <2>1. CASE CancelNext(s)
    <3>1. PICK c \in PendingOf(s) : End(c, "timed-out") BY <2>1 DEF CancelNext
    <3>2. c \in Ids BY <3>1, CountIsNumber DEF ChallengeInv, PendingOf, ChallengesOf
    <3>. QED BY <1>0, <2>1, <3>1, <3>2, EndKeepsBanners DEF CancelNext
  <2>2. CASE DeleteBegin(s) \/ CloseEnds(s) \/ CancelLogged(s) \/ Revoke(s)
    BY <2>2, DeleteQuiet DEF mfaVars, BannerInv
  <2>. QED BY <1>4, <2>1, <2>2 DEF SessionAction, DeleteStep
<1>5. CASE UNCHANGED vars BY <1>5 DEF vars, mfaVars, BannerInv
<1>. QED BY <1>1, <1>2, <1>3, <1>4, <1>5, NextByActor

\* The banner of a challenge that ended is not polled, unless the challenge ended
\* before createChallenge had the banner's handle.
THEOREM BannerEnds == Spec => []BannerEndsWithChallenge
<1>1. Init => BannerInv BY DEF Init, BannerInv
<1>2. ChallengeInv /\ BannerInv => BannerEndsWithChallenge
  BY DEF ChallengeInv, TypeOK, BannerInv, BannerEndsWithChallenge
<1>. QED BY <1>1, <1>2, ChallengeInvHolds, BannerNext, PTL DEF Spec

\* Pause, hold, timer and banner go with their challenge.
THEOREM ControlEnds == Spec => []ControlEndsWithChallenge
<1>1. ControlFollowsChallenge /\ BannerEndsWithChallenge => ControlEndsWithChallenge
  BY DEF ControlEndsWithChallenge
<1>. QED BY <1>1, ControlFollows, BannerEnds, PTL

-----------------------------------------------------------------------------
(***************************************************************************)
(* await-human: why the click made for a call that has returned is never   *)
(* taken for another call's.                                               *)
(***************************************************************************)
\* A call has a page from its start, and its pause as long as its race is open.
CallsPlaced ==
    \A a \in Calls :
        /\ call[a].at = "idle" <=> call[a].page = None
        /\ call[a].at = "showing" => call[a].banner
        /\ call[a].at = "waiting" => a \in pending
        /\ call[a].at \in {"idle", "lingering", "done"} => a \notin pending
        /\ call[a].at = "idle" => resumedBy[a] = "nobody"

\* The banner in the page is that of a call under way; a click on it, and a
\* missing pause of a call whose banner is not up yet, are a human's answer.
BarOwned ==
    \A p \in Pages : resumeBar[p] # "none" => \E a \in Waiting(p) : call[a].banner
ClickAnswers ==
    \A p \in Pages : resumeBar[p] = "clicked" =>
        \A a \in Waiting(p) :
            call[a].at \in {"showing", "waiting"} => a \in answered \/ met[a] # {}
ShowingAnswered == \A a \in Calls : call[a].at = "showing" /\ a \notin pending => a \in answered

HumanInv ==
    TypeOK /\ CallsPlaced /\ BarOwned /\ ClickAnswers /\ ShowingAnswered /\ HumanAnswered

\* Where a call's own step leaves the calls.
Moved(a, where) ==
    \A b \in Calls : /\ call'[b].at = IF b = a THEN where ELSE call[b].at
                     /\ call'[b].page = call[b].page
                     /\ call'[b].banner = call[b].banner

LEMMA CallGoesMoves ==
    ASSUME TypeOK, NEW a \in Calls, NEW where, CallGoes(a, where)
    PROVE  Moved(a, where)
BY DEF TypeOK, CallGoes, Moved

LEMMA HumanInit == Init => HumanInv
<1>. SUFFICES ASSUME Init PROVE HumanInv OBVIOUS
<1>1. TypeOK BY InitTypes
<1>2. CallsPlaced BY DEF Init, CallsPlaced
<1>3. BarOwned /\ ClickAnswers BY DEF Init, BarOwned, ClickAnswers
<1>4. ShowingAnswered /\ HumanAnswered BY DEF Init, ShowingAnswered, HumanAnswered
<1>. QED BY <1>1, <1>2, <1>3, <1>4 DEF HumanInv

LEMMA HumanBegin ==
    ASSUME HumanInv, NEW a \in Calls, NEW p \in Pages, AwaitBegin(a, p)
    PROVE  HumanInv'
<1>. USE DEF AwaitBegin
<1>1. TypeOK' BY CallTypes DEF HumanInv, CallAction
<1>2. PICK banner \in BOOLEAN :
        call' = [call EXCEPT ![a] = [at |-> IF banner THEN "showing" ELSE "waiting",
                                     page |-> p, banner |-> banner]]
  OBVIOUS
<1>3. /\ call'[a].at = (IF banner THEN "showing" ELSE "waiting")
      /\ call'[a].page = p /\ call'[a].banner = banner
      /\ \A b \in Calls : b # a => call'[b] = call[b]
  BY <1>2 DEF HumanInv, TypeOK
<1>4. p # None BY ControlAssumption
<1>5. CallsPlaced' BY <1>3, <1>4 DEF HumanInv, CallsPlaced
<1>6. \A b \in Calls : met'[b] = IF b # a THEN met[b]
                                  ELSE IF resumeBar[p] = "clicked" THEN Waiting(p) ELSE {}
  BY DEF HumanInv, TypeOK
<1>7. resumeBar' = resumeBar /\ answered' = answered /\ resumedBy' = resumedBy
  OBVIOUS
<1>8. BarOwned'
  <2>. SUFFICES ASSUME NEW q \in Pages, resumeBar[q] # "none"
                PROVE  (\E b \in Waiting(q) : call[b].banner)'
    BY <1>7 DEF BarOwned
  <2>2. PICK b \in Waiting(q) : call[b].banner BY DEF HumanInv, BarOwned
  <2>3. b # a BY <2>2, ControlAssumption DEF Waiting, HumanInv, CallsPlaced, TypeOK
  <2>. QED BY <1>3, <2>2, <2>3 DEF Waiting
<1>9. ClickAnswers'
  <2>. SUFFICES ASSUME NEW q \in Pages, resumeBar[q] = "clicked",
                       NEW b \in Waiting(q)', call'[b].at \in {"showing", "waiting"}
                PROVE  b \in answered \/ met'[b] # {}
    BY <1>7 DEF ClickAnswers
  <2>1. CASE b = a
    <3>1. q = p BY <1>3, <2>1 DEF Waiting
    <3>2. Waiting(p) # {} BY <3>1 DEF HumanInv, BarOwned
    <3>. QED BY <1>6, <2>1, <3>1, <3>2
  <2>2. CASE b # a
    <3>1. b \in Waiting(q) /\ call[b].at \in {"showing", "waiting"} /\ b \in Calls
      BY <1>3, <2>2 DEF Waiting
    <3>. QED BY <1>6, <2>2, <3>1 DEF HumanInv, ClickAnswers
  <2>. QED BY <2>1, <2>2
<1>10. ShowingAnswered' BY <1>3 DEF HumanInv, ShowingAnswered
<1>11. HumanAnswered'
  <2>1. resumedBy[a] # "human" BY DEF HumanInv, CallsPlaced
  <2>. QED BY <1>6, <1>7, <2>1 DEF HumanInv, HumanAnswered
<1>. QED BY <1>1, <1>5, <1>8, <1>9, <1>10, <1>11 DEF HumanInv

\* The race of a call is settled, as a human's only if a human has answered it.
LEMMA HumanSettle ==
    ASSUME HumanInv, TypeOK', NEW a \in Calls, NEW who, Settle(a, who),
           call[a].at \in {"showing", "waiting"},
           UNCHANGED resumeBar \/ \E v \in {"shown"} :
               call[a].banner /\ resumeBar[call[a].page] = "none"
               /\ resumeBar' = [resumeBar EXCEPT ![call[a].page] = v],
           pending' = pending \ {a},
           answered \subseteq answered', met' = met,
           who = "human" => a \in answered' \/ met[a] # {}
    PROVE  HumanInv'
<1>. DEFINE where == IF call[a].banner THEN "lingering" ELSE "done"
<1>1. Moved(a, where) BY CallGoesMoves DEF Settle, HumanInv
<1>2. \A b \in Calls : b # a => (b \in pending' <=> b \in pending) /\ resumedBy'[b] = resumedBy[b]
  BY DEF Settle, HumanInv, TypeOK
<1>3. resumedBy'[a] = who BY DEF Settle, HumanInv, TypeOK
<1>4. CallsPlaced' BY <1>1, <1>2 DEF Moved, HumanInv, CallsPlaced
<1>6. \A p \in Pages : resumeBar'[p] # resumeBar[p] =>
          resumeBar'[p] = "shown" /\ call[a].page = p /\ call[a].banner
  BY DEF HumanInv, TypeOK
<1>7. BarOwned'
  <2>. SUFFICES ASSUME NEW q \in Pages, resumeBar'[q] # "none"
                PROVE  (\E b \in Waiting(q) : call[b].banner)'
    BY DEF BarOwned
  <2>1. PICK b \in Waiting(q) : call[b].banner BY <1>6 DEF HumanInv, BarOwned, Waiting
  <2>2. b \in Calls /\ call'[b].page = q /\ call'[b].banner /\ call'[b].at # "done"
    BY <1>1, <2>1 DEF Waiting, Moved
  <2>. QED BY <2>2 DEF Waiting
<1>8. ClickAnswers'
  BY <1>1, <1>6 DEF Moved, HumanInv, ClickAnswers, Waiting
<1>9. ShowingAnswered' BY <1>1, <1>2 DEF Moved, HumanInv, ShowingAnswered
<1>10. HumanAnswered' BY <1>2, <1>3 DEF HumanInv, HumanAnswered
<1>. QED BY <1>4, <1>7, <1>8, <1>9, <1>10 DEF HumanInv

LEMMA HumanCall ==
    ASSUME HumanInv, NEW a \in Calls,
           BarShown(a) \/ ResumeByLink(a) \/ PollSees(a) \/ SignalSeen(a) \/ TimesOut(a) \/ RemoveBar(a)
    PROVE  HumanInv'
<1>1. TypeOK' BY CallTypes DEF HumanInv, CallAction
<1>2. call[a].page \in Pages \cup {None} BY DEF HumanInv, TypeOK
<1>3. CASE BarShown(a)
  <2>. USE DEF BarShown
  <2>1. call[a].page \in Pages /\ call[a].banner /\ call[a].at = "showing"
    BY <1>2, <1>3 DEF HumanInv, CallsPlaced
  <2>2. UNCHANGED resumeBar \/ \E v \in {"shown"} :
               call[a].banner /\ resumeBar[call[a].page] = "none"
               /\ resumeBar' = [resumeBar EXCEPT ![call[a].page] = v]
    BY <1>3, <2>1 DEF HumanInv, TypeOK
  <2>3. CASE a \notin pending
    <3>1. a \in answered BY <2>1, <2>3 DEF HumanInv, ShowingAnswered
    <3>2. Settle(a, "human") BY <1>3, <2>3
    <3>3. pending' = pending \ {a} BY <1>3, <2>3
    <3>. QED BY <1>1, <1>3, <2>1, <2>2, <3>1, <3>2, <3>3, HumanSettle
  <2>4. CASE a \in pending
    <3>1. Moved(a, "waiting") BY <1>3, <2>4, CallGoesMoves DEF HumanInv
    <3>2. UNCHANGED <<pending, answered, met, resumedBy>> BY <1>3, <2>4
    <3>3. \A p \in Pages : resumeBar'[p] # resumeBar[p] =>
              resumeBar'[p] = "shown" /\ call[a].page = p
      BY <2>2 DEF HumanInv, TypeOK
    <3>4. CallsPlaced' BY <2>1, <2>4, <3>1, <3>2 DEF Moved, HumanInv, CallsPlaced
    <3>6. BarOwned'
      <4>. SUFFICES ASSUME NEW q \in Pages, resumeBar'[q] # "none"
                    PROVE  (\E b \in Waiting(q) : call[b].banner)'
        BY DEF BarOwned
      <4>1. PICK b \in Waiting(q) : call[b].banner
        BY <2>1, <3>3 DEF HumanInv, BarOwned, Waiting
      <4>2. b \in Calls /\ call'[b].page = q /\ call'[b].banner /\ call'[b].at # "done"
        BY <3>1, <4>1 DEF Waiting, Moved
      <4>. QED BY <4>2 DEF Waiting
    <3>7. ClickAnswers'
      BY <2>1, <3>1, <3>2, <3>3 DEF Moved, HumanInv, ClickAnswers, Waiting
    <3>8. ShowingAnswered' BY <3>1, <3>2 DEF Moved, HumanInv, ShowingAnswered
    <3>9. HumanAnswered' BY <3>2 DEF HumanInv, HumanAnswered
    <3>. QED BY <1>1, <3>4, <3>6, <3>7, <3>8, <3>9 DEF HumanInv
  <2>. QED BY <2>3, <2>4
<1>4. CASE ResumeByLink(a)
  <2>1. CASE call[a].at = "waiting"
    BY <1>1, <1>4, <2>1, HumanSettle DEF ResumeByLink
  <2>2. CASE call[a].at # "waiting"
    <3>1. UNCHANGED <<call, resumedBy, resumeBar, met>> /\ answered' = answered \cup {a}
          /\ pending' = pending \ {a}
      BY <1>4, <2>2 DEF ResumeByLink
    <3>2. CallsPlaced' BY <2>2, <3>1 DEF HumanInv, CallsPlaced
    <3>3. BarOwned' BY <3>1 DEF HumanInv, BarOwned, Waiting
    <3>4. ClickAnswers' /\ ShowingAnswered' /\ HumanAnswered'
      BY <3>1 DEF HumanInv, ClickAnswers, ShowingAnswered, HumanAnswered, Waiting
    <3>. QED BY <1>1, <3>2, <3>3, <3>4 DEF HumanInv
  <2>. QED BY <2>1, <2>2
<1>5. CASE PollSees(a)
  <2>1. call[a].page \in Pages BY <1>2, <1>5 DEF PollSees, HumanInv, CallsPlaced
  <2>2. a \in answered \/ met[a] # {}
    BY <1>5, <2>1 DEF PollSees, HumanInv, ClickAnswers, Waiting
  <2>. QED BY <1>1, <1>5, <2>2, HumanSettle DEF PollSees
<1>6. CASE SignalSeen(a) BY <1>1, <1>6, HumanSettle DEF SignalSeen
<1>7. CASE TimesOut(a)   BY <1>1, <1>7, HumanSettle DEF TimesOut
<1>8. CASE RemoveBar(a)
  <2>. USE DEF RemoveBar
  <2>0. Moved(a, "done") BY <1>8, CallGoesMoves DEF HumanInv
  <2>1. call[a].page \in Pages BY <1>2, <1>8 DEF HumanInv, CallsPlaced
  <2>2. /\ UNCHANGED <<pending, answered, met, resumedBy>>
        /\ \A p \in Pages : resumeBar'[p] = IF p = call[a].page THEN "none" ELSE resumeBar[p]
    BY <1>8 DEF HumanInv, TypeOK
  <2>3. CallsPlaced' BY <1>8, <2>0, <2>2 DEF Moved, HumanInv, CallsPlaced
  <2>5. BarOwned'
    <3>. SUFFICES ASSUME NEW q \in Pages, resumeBar'[q] # "none"
                  PROVE  (\E b \in Waiting(q) : call[b].banner)'
      BY DEF BarOwned
    <3>1. q # call[a].page /\ resumeBar[q] # "none" BY <2>2
    <3>2. PICK b \in Waiting(q) : call[b].banner BY <3>1 DEF HumanInv, BarOwned
    <3>3. b \in Calls /\ call'[b].page = q /\ call'[b].banner /\ call'[b].at # "done"
      BY <2>0, <3>1, <3>2 DEF Waiting, Moved
    <3>. QED BY <3>3 DEF Waiting
  <2>6. ClickAnswers' BY <2>0, <2>2 DEF Moved, HumanInv, ClickAnswers, Waiting
  <2>7. ShowingAnswered' BY <2>0, <2>2 DEF Moved, HumanInv, ShowingAnswered
  <2>8. HumanAnswered' BY <2>2 DEF HumanInv, HumanAnswered
  <2>. QED BY <1>1, <2>3, <2>5, <2>6, <2>7, <2>8 DEF HumanInv
<1>. QED BY <1>3, <1>4, <1>5, <1>6, <1>7, <1>8

LEMMA HumanPage ==
    ASSUME HumanInv, NEW p \in Pages, PageAction(p)
    PROVE  HumanInv'
<1>1. TypeOK' BY PageTypes DEF HumanInv
<1>2. UNCHANGED <<pending, call, resumedBy, met>> /\ answered \subseteq answered'
  BY PageQuiet DEF PageAction, ClickResume, NewDocument
<1>3. CallsPlaced' /\ ShowingAnswered' /\ HumanAnswered'
  BY <1>2 DEF HumanInv, CallsPlaced, ShowingAnswered, HumanAnswered
<1>4. BarOwned'
  BY <1>2 DEF HumanInv, TypeOK, BarOwned, Waiting, PageAction, ClickResume, NewDocument
<1>5. ClickAnswers'
  <2>1. CASE ClickResume(p)
    <3>1. \A a \in Waiting(p) : call[a].at \in {"showing", "waiting"} => a \in answered'
      BY <2>1 DEF ClickResume, HumanInv, CallsPlaced, ShowingAnswered, Waiting
    <3>. QED BY <2>1, <3>1, <1>2 DEF ClickResume, HumanInv, TypeOK, ClickAnswers, Waiting
  <2>2. CASE NewDocument(p)
    BY <2>2 DEF NewDocument, HumanInv, TypeOK, ClickAnswers, Waiting
  <2>. QED BY <2>1, <2>2 DEF PageAction
<1>. QED BY <1>1, <1>3, <1>4, <1>5 DEF HumanInv

\* The rest of the system does not answer for the human.
LEMMA HumanQuiet ==
    ASSUME HumanInv, TypeOK', UNCHANGED callVars,
           \A a \in Calls : a \in pending' <=> a \in pending
    PROVE  HumanInv'
<1>1. CallsPlaced' BY DEF HumanInv, callVars, CallsPlaced
<1>2. BarOwned' /\ ClickAnswers' BY DEF HumanInv, callVars, BarOwned, ClickAnswers, Waiting
<1>3. ShowingAnswered' /\ HumanAnswered'
  BY DEF HumanInv, callVars, ShowingAnswered, HumanAnswered
<1>. QED BY <1>1, <1>2, <1>3 DEF HumanInv

LEMMA ChallengeLeavesCalls ==
    ASSUME ChallengeInv, ChallengeAction \/ \E s \in Sessions : SessionAction(s)
    PROVE  UNCHANGED callVars /\ \A a \in Calls : a \in pending' <=> a \in pending
<1>1. ASSUME NEW p \in Pages, NEW type \in {"code", "push"}, CreateChallenge(p, type)
      PROVE  UNCHANGED callVars /\ \A a \in Calls : a \in pending' <=> a \in pending
  BY <1>1, CreateChallengeStep, CallsAreNoIds DEF CreateChallenge
<1>2. ASSUME NEW c \in Ids, Release(c)
      PROVE  \A a \in Calls : a \in pending' <=> a \in pending
  BY <1>2, CallsAreNoIds DEF Release
<1>3. ASSUME NEW c \in Ids, CreateStep(c) \/ Expire(c)
      PROVE  UNCHANGED callVars /\ \A a \in Calls : a \in pending' <=> a \in pending
  BY <1>2, <1>3 DEF CreateStep, Announced, BannerUp, Expire, End
<1>4. ASSUME NEW r \in Submits, NEW c \in Ids, Submit(r, c)
      PROVE  UNCHANGED callVars /\ \A a \in Calls : a \in pending' <=> a \in pending
  BY <1>2, <1>4 DEF Submit, End
<1>5. ASSUME NEW r \in Submits, Typed(r) \/ TypingFails(r)
      PROVE  UNCHANGED callVars /\ \A a \in Calls : a \in pending' <=> a \in pending
  BY <1>2, <1>5, TypedStep DEF Typed, TypingFails, End
<1>6. ASSUME NEW s \in Sessions, SessionAction(s)
      PROVE  UNCHANGED callVars /\ \A a \in Calls : a \in pending' <=> a \in pending
  <2>1. CASE CancelNext(s)
    <3>1. PICK c \in PendingOf(s) : Release(c) BY <2>1 DEF CancelNext, End
    <3>2. c \in Ids BY <3>1, CountIsNumber DEF ChallengeInv, PendingOf, ChallengesOf
    <3>. QED BY <1>2, <2>1, <3>1, <3>2 DEF CancelNext
  <2>. QED BY <1>6, <2>1, DeleteQuiet DEF SessionAction, DeleteStep
<1>. QED BY <1>1, <1>3, <1>4, <1>5, <1>6 DEF ChallengeAction

LEMMA HumanNext == ChallengeInv /\ HumanInv /\ [Next]_vars => HumanInv'
<1>. SUFFICES ASSUME ChallengeInv, HumanInv, [Next]_vars PROVE HumanInv'
  OBVIOUS
<1>1. ASSUME NEW a \in Calls, CallAction(a) PROVE HumanInv'
  BY <1>1, HumanBegin, HumanCall DEF CallAction
<1>2. ASSUME NEW p \in Pages, PageAction(p) PROVE HumanInv'
  BY <1>2, HumanPage
<1>3. CASE ChallengeAction \/ \E s \in Sessions : SessionAction(s)
  <2>1. TypeOK' BY NextInv, <1>3 DEF ChallengeInv
  <2>. QED BY <1>3, <2>1, ChallengeLeavesCalls, HumanQuiet
<1>4. CASE UNCHANGED vars
  <2>1. TypeOK' BY NextInv DEF ChallengeInv
  <2>. QED BY <1>4, <2>1, HumanQuiet DEF vars
<1>. QED BY <1>1, <1>2, <1>3, <1>4, NextByActor

\* However await-human calls overlap, one reports a human only if a human
\* answered while it was waiting, or if it met the clicked banner of a call that
\* had not returned when it began.
THEOREM HumanReported == Spec => []HumanAnswered
<1>1. HumanInv => HumanAnswered BY DEF HumanInv
<1>. QED BY <1>1, HumanInit, HumanNext, ChallengeInvHolds, PTL DEF Spec
=============================================================================
