---------------------------- MODULE HumanControl ----------------------------
(***************************************************************************)
(* A human takes over a page.  The pause registry (src/src/commands/       *)
(* pause-registry.ts) is shared by two operations: await-human, which      *)
(* waits until a human is done with the page, and an MFA challenge         *)
(* (src/src/mfa/manager.ts), for whose lifetime there are a pause, a       *)
(* session hold, a timer and, once it could be shown, a banner that polls  *)
(* the page.  DELETE of the session cancels what is left.                  *)
(*                                                                         *)
(* An action is the code between two awaits.  In particular a submitted    *)
(* code is typed across an await, during which the challenge may end, and  *)
(* the banner is shown after two awaits, when it may have ended.           *)
(***************************************************************************)
EXTENDS Integers, FiniteSets

CONSTANTS Sessions, Pages, PageSession,
          None,              \* not a page
          Calls,             \* await-human requests
          Submits,           \* submissions of an MFA form
          MaxChallenges,     \* bound: challenges created in one run
          MaxRequests,       \* bound: calls, challenges and submissions together
          IOFaults           \* may appending to the log or the audit file fail

ASSUME ControlAssumption ==
    /\ PageSession \in [Pages -> Sessions]
    /\ MaxChallenges \in Nat
    /\ MaxRequests \in Nat
    /\ None \notin Pages
    /\ Calls \cap Nat = {}
    /\ IOFaults \in BOOLEAN

VARIABLES pending,    \* the pause registry: the await-human calls and the
                      \* challenges whose pause is there
          session,    \* the session: open, closing, and what DELETE does next
          resumeBar,  \* the Resume banner in the document a page shows
          call,       \* where an await-human call is, its page, has it a banner
          resumedBy,  \* what ended the call
          answered,   \* history: the calls a human has answered
          met,        \* history: the calls whose clicked banner a call met
          count,      \* challenges created so far
          challenge,  \* page and type of each
          status,     \* its status
          creating,   \* where createChallenge is
          held,       \* the challenges whose hold is live
          armed,      \* the challenges whose timer runs
          poller,     \* the challenges whose resolve banner is polled
          early,      \* history: challenges that ended before their banner was up
          submit      \* where a submission is, and its challenge

callVars == <<resumeBar, call, resumedBy, answered, met>>
mfaVars == <<count, challenge, status, creating, held, armed, poller, early, submit>>
vars == <<pending, session, callVars, mfaVars>>

Ids == 1..MaxChallenges
Requests == {a \in Calls : call[a].at # "idle"} \cup {r \in Submits : submit[r].at # "idle"}
MayStart == Cardinality(Requests) + count < MaxRequests

Init ==
    /\ pending = {}
    /\ session = [s \in Sessions |-> "open"]
    /\ resumeBar = [p \in Pages |-> "none"]
    /\ call = [a \in Calls |-> [at |-> "idle", page |-> None, banner |-> FALSE]]
    /\ resumedBy = [a \in Calls |-> "nobody"]
    /\ answered = {}
    /\ met = [a \in Calls |-> {}]
    /\ count = 0
    /\ challenge = [c \in Ids |-> [page |-> None, type |-> "none"]]
    /\ status = [c \in Ids |-> "none"]
    /\ creating = [c \in Ids |-> "no"]
    /\ held = {}
    /\ armed = {}
    /\ poller = {}
    /\ early = {}
    /\ submit = [r \in Submits |-> [at |-> "idle", id |-> 0]]

Found(s) == session[s] \in {"open", "closing"}     \* manager.get finds the session
Of(c) == PageSession[challenge[c].page]
ChallengesOf(s) == {c \in 1..count : Of(c) = s}

(***************************************************************************)
(* await-human.                                                            *)
(***************************************************************************)
Waiting(p) == {a \in Calls : call[a].page = p /\ call[a].at # "done"}
CallGoes(a, where) ==
    call' = [call EXCEPT ![a] = [at |-> where, page |-> call[a].page, banner |-> call[a].banner]]

AwaitBegin(a, p) ==
    /\ call[a].at = "idle"
    /\ MayStart
    /\ Found(PageSession[p])
    /\ \E banner \in BOOLEAN :
          call' = [call EXCEPT ![a] = [at |-> IF banner THEN "showing" ELSE "waiting",
                                       page |-> p, banner |-> banner]]
    /\ pending' = pending \cup {a}
    /\ met' = [met EXCEPT ![a] = IF resumeBar[p] = "clicked" THEN Waiting(p) ELSE {}]
    /\ UNCHANGED <<session, resumeBar, resumedBy, answered, mfaVars>>

\* The race is decided: the pause goes, the banner lingers for a second.
Settle(a, who) ==
    /\ resumedBy' = [resumedBy EXCEPT ![a] = who]
    /\ CallGoes(a, IF call[a].banner THEN "lingering" ELSE "done")

\* The banner is injected (unless there is one already), or could not be; then
\* the race starts, and is over at once if the human was faster.
BarShown(a) ==
    /\ call[a].at = "showing"
    /\ \/ resumeBar' = [resumeBar EXCEPT ![call[a].page] = IF @ = "none" THEN "shown" ELSE @]
       \/ UNCHANGED resumeBar
    /\ IF a \in pending THEN CallGoes(a, "waiting") /\ UNCHANGED resumedBy
                        ELSE Settle(a, "human")
    /\ UNCHANGED <<pending, session, answered, met, mfaVars>>

\* POST /resume with the token of a pending pause.
ResumeByLink(a) ==
    /\ a \in pending
    /\ pending' = pending \ {a}
    /\ answered' = answered \cup {a}
    /\ IF call[a].at = "waiting" THEN Settle(a, "human")
                                 ELSE UNCHANGED <<call, resumedBy>>
    /\ UNCHANGED <<session, resumeBar, met, mfaVars>>

\* The human clicks Resume, which only sets a flag in the document.
ClickResume(p) ==
    /\ resumeBar[p] = "shown"
    /\ resumeBar' = [resumeBar EXCEPT ![p] = "clicked"]
    /\ answered' = answered \cup {a \in Waiting(p) : a \in pending}
    /\ UNCHANGED <<pending, session, call, resumedBy, met, mfaVars>>

PollSees(a) ==
    /\ call[a].at = "waiting"
    /\ call[a].banner
    /\ resumeBar[call[a].page] = "clicked"
    /\ Settle(a, "human")
    /\ pending' = pending \ {a}
    /\ UNCHANGED <<session, resumeBar, answered, met, mfaVars>>

\* The element of resumeOn appeared.
SignalSeen(a) ==
    /\ call[a].at = "waiting"
    /\ Settle(a, "signal")
    /\ pending' = pending \ {a}
    /\ UNCHANGED <<session, resumeBar, answered, met, mfaVars>>

TimesOut(a) ==
    /\ call[a].at = "waiting"
    /\ Settle(a, "timeout")
    /\ pending' = pending \ {a}
    /\ UNCHANGED <<session, resumeBar, answered, met, mfaVars>>

\* Defective variant: the banner stays.
RemoveBarNot(a) ==
    /\ call[a].at = "lingering"
    /\ CallGoes(a, "done")
    /\ UNCHANGED <<pending, session, resumeBar, resumedBy, answered, met, mfaVars>>

\* After the second removeBanner runs (it fails only if the document is gone).
RemoveBar(a) ==
    /\ call[a].at = "lingering"
    /\ resumeBar' = [resumeBar EXCEPT ![call[a].page] = "none"]
    /\ CallGoes(a, "done")
    /\ UNCHANGED <<pending, session, resumedBy, answered, met, mfaVars>>

\* A page loads a new document.  The banner goes with the old one, and the
\* listener of a call that is waiting injects it again, unless that fails.
NewDocument(p) ==
    /\ \/ resumeBar' = [resumeBar EXCEPT ![p] = "none"]
       \/ /\ \E a \in Waiting(p) : call[a].banner /\ call[a].at = "waiting"
          /\ resumeBar' = [resumeBar EXCEPT ![p] = "shown"]
    /\ UNCHANGED <<pending, session, call, resumedBy, answered, met, mfaVars>>

(***************************************************************************)
(* createChallenge: everything up to the first await is one step; the log  *)
(* line may throw, notify() may fail, and show() throws only if the        *)
(* session or its page is gone.                                            *)
(***************************************************************************)
\* Defective variant: no timer.
CreateChallengeUntimed(p, type) ==
    /\ Found(PageSession[p])
    /\ count < MaxChallenges /\ MayStart
    /\ count' = count + 1
    /\ LET c == count + 1
       IN  /\ challenge' = [challenge EXCEPT ![c] = [page |-> p, type |-> type]]
           /\ status' = [status EXCEPT ![c] = "pending"]
           /\ creating' = [creating EXCEPT ![c] = "announcing"]
           /\ held' = held \cup {c}
           /\ pending' = pending \cup {c}
    /\ UNCHANGED <<session, callVars, armed, poller, early, submit>>

CreateChallenge(p, type) ==
    /\ Found(PageSession[p])
    /\ count < MaxChallenges /\ MayStart
    /\ count' = count + 1
    /\ LET c == count + 1
       IN  /\ challenge' = [challenge EXCEPT ![c] = [page |-> p, type |-> type]]
           /\ status' = [status EXCEPT ![c] = "pending"]
           /\ creating' = [creating EXCEPT ![c] = "announcing"]
           /\ held' = held \cup {c}
           /\ armed' = armed \cup {c}
           /\ pending' = pending \cup {c}
    /\ UNCHANGED <<session, callVars, poller, early, submit>>

CreatingGoes(c, from, to) == creating[c] = from /\ creating' = [creating EXCEPT ![c] = to]

\* The log line and notify(), after which show() looks up session and page.
Announced(c) ==
    /\ \/ CreatingGoes(c, "announcing", "showing") /\ Found(Of(c))
       \/ CreatingGoes(c, "announcing", "done")
       \/ IOFaults /\ CreatingGoes(c, "announcing", "threw")
    /\ UNCHANGED <<pending, session, callVars, count, challenge, status, held, armed,
                   poller, early, submit>>

\* The banner is up, or could not be injected: it is polled in either case, and
\* nobody asks whether the challenge is still pending.
BannerUp(c) ==
    /\ CreatingGoes(c, "showing", "done")
    /\ poller' = poller \cup {c}
    /\ UNCHANGED <<pending, session, callVars, count, challenge, status, held, armed,
                   early, submit>>

CreateStep(c) == Announced(c) \/ BannerUp(c)

(***************************************************************************)
(* The end of a challenge.  Up to the disposal of the banner release()     *)
(* awaits only the hold, and an mfa hold has nothing to tear down: no I/O  *)
(* comes between.  There is a handle only if createChallenge is done.      *)
(***************************************************************************)
\* Defective variant: the banner is not disposed of.
ReleaseKeepingBanner(c) ==
    /\ armed' = armed \ {c}
    /\ held' = held \ {c}
    /\ pending' = pending \ {c}
    /\ early' = IF status[c] = "pending" /\ creating[c] # "done" THEN early \cup {c} ELSE early
    /\ UNCHANGED poller

Release(c) ==
    /\ armed' = armed \ {c}
    /\ pending' = pending \ {c}
    /\ held' = held \ {c}
    /\ poller' = poller \ {c}
    /\ early' = IF status[c] = "pending" /\ creating[c] # "done" THEN early \cup {c} ELSE early

End(c, how) == status' = [status EXCEPT ![c] = how] /\ Release(c)

\* Defective variant: a submission does not ask whether the challenge is pending.
SubmitWhenever(r, c) ==
    /\ submit[r].at = "idle" /\ MayStart
    /\ status[c] # "none"
    /\ Found(Of(c))
    /\ IF challenge[c].type = "push"
       THEN /\ End(c, "resolved")
            /\ submit' = [submit EXCEPT ![r] = [at |-> "done", id |-> c]]
       ELSE /\ submit' = [submit EXCEPT ![r] = [at |-> "typing", id |-> c]]
            /\ UNCHANGED <<pending, status, held, armed, poller, early>>
    /\ UNCHANGED <<session, callVars, count, challenge, creating>>

\* resolveChallenge with the right token and nonce, and a code if the type needs
\* one: the challenge is pending and its session is found.  (A submission that
\* lacks one of these, or finds the page on another origin, changes nothing.)
\* A code is typed first; a push is confirmed at once.
Submit(r, c) ==
    /\ submit[r].at = "idle" /\ MayStart
    /\ status[c] = "pending"
    /\ Found(Of(c))
    /\ IF challenge[c].type = "push"
       THEN /\ End(c, "resolved")
            /\ submit' = [submit EXCEPT ![r] = [at |-> "done", id |-> c]]
       ELSE /\ submit' = [submit EXCEPT ![r] = [at |-> "typing", id |-> c]]
            /\ UNCHANGED <<pending, status, held, armed, poller, early>>
    /\ UNCHANGED <<session, callVars, count, challenge, creating>>

\* The code has been typed: the challenge is resolved, whatever it is by now.
Typed(r) ==
    /\ submit[r].at = "typing"
    /\ End(submit[r].id, "resolved")
    /\ submit' = [submit EXCEPT ![r] = [at |-> "done", id |-> submit[r].id]]
    /\ UNCHANGED <<session, callVars, count, challenge, creating>>

\* The target is not there, or the page has gone: the challenge stays as it is.
TypingFails(r) ==
    /\ submit[r].at = "typing"
    /\ submit' = [submit EXCEPT ![r] = [at |-> "failed", id |-> submit[r].id]]
    /\ UNCHANGED <<pending, session, callVars, count, challenge, status, creating,
                   held, armed, poller, early>>

\* The timer fires.
Expire(c) ==
    /\ c \in armed
    /\ status[c] = "pending"
    /\ End(c, "timed-out")
    /\ UNCHANGED <<session, callVars, count, challenge, creating, submit>>

(***************************************************************************)
(* DELETE: the close, then the challenges in order of creation, then the   *)
(* grants and the holds.  A close or a log line that throws ends it.       *)
(***************************************************************************)
SessionGoes(s, from, to) == session[s] = from /\ session' = [session EXCEPT ![s] = to]

DeleteBegin(s) ==
    /\ SessionGoes(s, "open", "closing")
    /\ UNCHANGED <<pending, callVars, mfaVars>>

CloseEnds(s) ==
    /\ SessionGoes(s, "closing", "cancelling") \/ SessionGoes(s, "closing", "open")
    /\ UNCHANGED <<pending, callVars, mfaVars>>

PendingOf(s) == {c \in ChallengesOf(s) : status[c] = "pending"}

CancelNext(s) ==
    /\ SessionGoes(s, "cancelling", "logging")
    /\ \E c \in PendingOf(s) :
          /\ \A d \in PendingOf(s) : c <= d
          /\ End(c, "timed-out")
    /\ UNCHANGED <<callVars, count, challenge, creating, submit>>

CancelLogged(s) ==
    /\ SessionGoes(s, "logging", "cancelling") \/ (IOFaults /\ SessionGoes(s, "logging", "broken"))
    /\ UNCHANGED <<pending, callVars, mfaVars>>

\* Defective variant: the cancellation is not awaited.
RevokeAtOnce(s) ==
    /\ \/ /\ SessionGoes(s, "cancelling", "gone")
          /\ held' = held \ ChallengesOf(s)
       \/ /\ IOFaults
          /\ SessionGoes(s, "cancelling", "broken")
          /\ UNCHANGED held
    /\ UNCHANGED <<pending, callVars, count, challenge, status, creating, armed, poller,
                   early, submit>>

\* capabilities.revokeSession: the grants, which an audit line may stop, then
\* every hold that is left.
Revoke(s) ==
    /\ PendingOf(s) = {}
    /\ \/ /\ SessionGoes(s, "cancelling", "gone")
          /\ held' = held \ ChallengesOf(s)
       \/ /\ IOFaults
          /\ SessionGoes(s, "cancelling", "broken")
          /\ UNCHANGED held
    /\ UNCHANGED <<pending, callVars, count, challenge, status, creating, armed, poller,
                   early, submit>>

DeleteStep(s) == CancelNext(s) \/ CancelLogged(s) \/ Revoke(s)

Next ==
    \/ \E a \in Calls :
          \/ \E p \in Pages : AwaitBegin(a, p)
          \/ BarShown(a) \/ ResumeByLink(a) \/ PollSees(a) \/ SignalSeen(a)
          \/ TimesOut(a) \/ RemoveBar(a)
    \/ \E p \in Pages :
          \/ ClickResume(p) \/ NewDocument(p)
          \/ \E type \in {"code", "push"} : CreateChallenge(p, type)
    \/ \E c \in Ids : CreateStep(c) \/ Expire(c)
    \/ \E r \in Submits : (\E c \in Ids : Submit(r, c)) \/ Typed(r) \/ TypingFails(r)
    \/ \E s \in Sessions : DeleteBegin(s) \/ CloseEnds(s) \/ DeleteStep(s)

Spec == Init /\ [][Next]_vars

(***************************************************************************)
(* Fairness: timers fire, file operations settle, and a page of a session  *)
(* that has been closed rejects at once.  Nothing obliges a human to       *)
(* answer, a client to call or a live page to respond: page.evaluate() has *)
(* no time limit, so showing a banner may take for ever.                   *)
(***************************************************************************)
FairSpec ==
    /\ Spec
    /\ \A a \in Calls : WF_vars(TimesOut(a))
    /\ \A c \in Ids : WF_vars(Expire(c))
    /\ \A s \in Sessions : WF_vars(DeleteStep(s))

(***************************************************************************)
(* Properties.                                                             *)
(***************************************************************************)
Ended == {"resolved", "timed-out"}
Challenged == [page : Pages \cup {None}, type : {"none", "code", "push"}]

\* Every variable keeps its type.
TypeOK ==
    /\ pending \subseteq Calls \cup Ids
    /\ session \in [Sessions -> {"open", "closing", "cancelling", "logging", "gone", "broken"}]
    /\ resumeBar \in [Pages -> {"none", "shown", "clicked"}]
    /\ call \in [Calls -> [at : {"idle", "showing", "waiting", "lingering", "done"},
                           page : Pages \cup {None}, banner : BOOLEAN]]
    /\ resumedBy \in [Calls -> {"nobody", "human", "signal", "timeout"}]
    /\ answered \subseteq Calls
    /\ met \in [Calls -> SUBSET Calls]
    /\ count \in 0..MaxChallenges
    /\ challenge \in [Ids -> Challenged]
    /\ status \in [Ids -> {"none", "pending"} \cup Ended]
    /\ creating \in [Ids -> {"no", "announcing", "showing", "done", "threw"}]
    /\ held \subseteq Ids
    /\ armed \subseteq Ids
    /\ poller \subseteq Ids
    /\ early \subseteq Ids
    /\ submit \in [Submits -> [at : {"idle", "typing", "done", "failed"}, id : 0..MaxChallenges]]

\* The human is in control exactly as long as a challenge is pending: pause,
\* hold and timer are there, and go, together, whoever ends the challenge
\* (submission, timer or DELETE) and however many of them do.
ControlFollowsChallenge ==
    \A c \in Ids :
        /\ c \in pending <=> status[c] = "pending"
        /\ c \in held    <=> status[c] = "pending"
        /\ c \in armed   <=> status[c] = "pending"

\* A DELETE that was answered leaves no challenge, hold, timer or pause of an
\* MFA challenge behind ("no timer firing into a dead page"), and none appears.
NothingLeftAfterDelete ==
    \A c \in 1..count :
        session[Of(c)] = "gone" => status[c] # "pending" /\ c \notin held \cup armed \cup pending

\* A challenge that ended stays as it ended, except that a submission accepted
\* while it was pending still makes it resolved when the code has been typed.
EndedStaysEnded ==
    [][\A c \in Ids : status[c] \in Ended /\ status'[c] # status[c] =>
          /\ status'[c] = "resolved"
          /\ \E r \in Submits : submit[r] = [at |-> "typing", id |-> c]]_vars

\* The banner of a challenge is not polled any more once the challenge has
\* ended ("banner clears on resolve/expire"), unless it ended before
\* createChallenge had the banner's handle.
BannerEndsWithChallenge ==
    \A c \in poller : status[c] = "pending" \/ c \in early

\* await-human says that a human resumed only if a human did so while that call
\* was waiting, with the call's link or a click on the banner its page shows; or
\* if another call on the page, not yet returned, still had its clicked banner up
\* when this one began.  A click made for a call that has returned counts for no
\* later one (await-human.ts:75).
HumanAnswered == \A a \in Calls : resumedBy[a] = "human" => a \in answered \/ met[a] # {}

\* The agent gets the page back: every pause ends with or without the human, also
\* when the DELETE of the session fails.  The time limit of an await-human only
\* starts when its banner has been shown, so the page has to respond till then.
PauseEnds ==
    /\ \A c \in Ids : c \in pending ~> c \notin pending
    /\ \A a \in Calls : a \in pending /\ call[a].at # "showing" ~> a \notin pending

\* A DELETE whose close went through comes to its end.
DeleteSettles == \A s \in Sessions : session[s] = "cancelling" ~> session[s] \in {"gone", "broken"}

\* Pause, hold, timer and banner all go with their challenge.
ControlEndsWithChallenge == ControlFollowsChallenge /\ BannerEndsWithChallenge

\* Whatever waits for a human comes to its end.
WaitsEnd == PauseEnds /\ DeleteSettles
=============================================================================
