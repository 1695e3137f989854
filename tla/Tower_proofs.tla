---------------------------- MODULE Tower_proofs ----------------------------
(***************************************************************************)
(* Proofs about the test range: any number of levels or trials, any        *)
(* timeouts and budgets, and pages that send whatever and whenever they    *)
(* can.                                                                    *)
(***************************************************************************)
EXTENDS Tower, TLAPS

Stages == {"create", "navigate", "turn", "move", "read", "probe", "shoot", "child", "close"}
Verdicts == Reports \cup {"error"}
Whys == {"graded", "silence", "no state", "threw", "scored"}
Places == Levels \cup {NoNonce}

Drives == [stage : Stages, steps : Nat, age : Nat, threw : BOOLEAN]
Entries == [status : {"armed", "consumed"}, deadline : {Timeout}, report : Reports \cup {"none"}]
Slates == [canary : Places, fetched : BOOLEAN, posts : Seq(Places)]
Results == [verdict : Verdicts, why : Whys]
Rows == [verdict : {"none", "PASS", "FAIL", "BLOCKED"}, written : BOOLEAN]
PageStates == [live : BOOLEAN, report : Reports \cup {"none"}, sent : Nat]
Histories == [heard : Seq([nonce : Levels, time : Nat]), did : [Levels -> Slates], unclosed : SUBSET Levels]

Requests ==
    [kind : {"report"}, to : Places, nonce : Places, verdict : Reports, from : Levels, no : Nat]
    \cup [kind : {"profile"}, to : Places, from : Levels, no : Nat]
    \cup [kind : {"comment"}, to : Places, body : Places, from : Levels, no : Nat]

Armable == IF plan.runner = "tower" THEN Levels ELSE {}

TypeOK ==
    /\ now \in Nat
    /\ plan \in Plans
    /\ at \in Levels
    /\ pc \in {"build", "drive", "grade", "await", "over"}
    /\ drive \in Drives
    /\ open \in SUBSET Levels
    /\ sink \in [Armable -> Entries]
    /\ DOMAIN slate \subseteq Places /\ slate \in [DOMAIN slate -> Slates]
    /\ results \in Seq(Results)
    /\ row \in Rows
    /\ wire \in SUBSET Requests
    /\ page \in [Levels -> PageStates]
    /\ knows \in SUBSET Levels
    /\ seen \in Histories

(***************************************************************************)
(* The walk: results are those of the levels before this one.  A level     *)
(* that has not been built has been visited by nobody.                     *)
(***************************************************************************)
WalkOK ==
    /\ pc = "over" => at = Len(results)
    /\ pc # "over" => at = Len(results) + 1
    /\ pc = "await" => plan.runner = "tower"
    /\ \A i \in DOMAIN results : results[i].verdict # "error" => results[i].why = "graded"

(***************************************************************************)
(* The sink.  An entry is consumed by the one report that was heard of its *)
(* nonce, and that is the one the level's own page sends.                  *)
(***************************************************************************)
HeardOK ==
    /\ \A j \in DOMAIN seen.heard :
          /\ seen.heard[j].nonce \in DOMAIN sink
          /\ sink[seen.heard[j].nonce].status = "consumed"
          /\ seen.heard[j].time <= Timeout
    /\ \A j, k \in DOMAIN seen.heard : seen.heard[j].nonce = seen.heard[k].nonce => j = k
    /\ \A n \in DOMAIN sink :
          IF sink[n].status = "armed" THEN sink[n].report = "none"
          ELSE /\ sink[n].report # "none" /\ sink[n].report = page[n].report
               /\ \E j \in DOMAIN seen.heard : seen.heard[j].nonce = n
    /\ \A r \in wire : r.kind = "report" /\ r.nonce = r.to => r.to \in Levels /\ r.verdict = page[r.to].report

(* A level is graded by its entry, or was silent up to the deadline. *)
GradedOK ==
    plan.runner = "tower" => \A i \in DOMAIN results :
        /\ results[i].why = "graded" => sink[i].status = "consumed" /\ sink[i].report = results[i].verdict
        /\ results[i].why = "silence" =>
              now >= Timeout /\ \A j \in DOMAIN seen.heard : seen.heard[j].nonce = i => seen.heard[j].time = Timeout
        /\ results[i].why \in {"graded", "silence", "threw"}

(***************************************************************************)
(* The thread.  Up to its grade the slate of a trial is what its own drive *)
(* did; requests name their own trial, or none.                            *)
(***************************************************************************)
Built(i) == i < at \/ (i = at /\ pc # "build")

Earned(i) ==
    CASE \E j \in DOMAIN seen.did[i].posts : seen.did[i].posts[j] = i -> "blocked"
      [] \A j \in DOMAIN seen.did[i].posts : seen.did[i].posts[j] # i ->
            IF seen.did[i].fetched \/ Len(seen.did[i].posts) > Budget THEN "gated" ELSE "ok"

TrialOK ==
    plan.runner = "trials" =>
        /\ \A i \in Levels : Built(i) /\ i > Len(results) =>
              /\ i \in DOMAIN slate /\ slate[i].canary = i
              /\ slate[i].fetched = seen.did[i].fetched /\ slate[i].posts = seen.did[i].posts
        /\ \A i \in Levels : ~Built(i) =>
              seen.did[i] = Untouched /\ ~page[i].live /\ \A r \in wire : r.from # i
        /\ \A r \in wire : r.kind # "report" => r.to \in {r.from, NoNonce}
        /\ NoNonce \in DOMAIN slate => slate[NoNonce].canary = 0
        /\ \A i \in DOMAIN results : results[i].why # "threw" => results[i].verdict = Earned(i)

(* What is open belongs to the drive under way, once it has begun. *)
OpenOK ==
    open \ seen.unclosed \subseteq (IF pc = "drive" /\ drive.stage # "create" THEN {at} ELSE {})

RowOK == row.verdict # "none" => row.written \/ (pc = "drive" /\ drive.stage = "shoot")

TowerInv == TypeOK /\ WalkOK /\ HeardOK /\ GradedOK /\ TrialOK /\ OpenOK /\ RowOK
-----------------------------------------------------------------------------
(***************************************************************************)
(* What each step does.                                                    *)
(***************************************************************************)
LEMMA Numbers == K \in Nat \ {0} /\ Timeout \in Nat /\ Levels \subseteq Nat /\ 1 \in Levels /\ NoNonce = 0
                 /\ NoNonce \notin Levels /\ \A i \in Levels : i \in Places /\ i <= K
BY TowerAssumption DEF TowerAssumption, Levels, NoNonce, Places

LEMMA Blank == /\ Untouched \in Slates /\ Untouched.canary = 0 /\ ~Untouched.fetched /\ Untouched.posts = <<>>
               /\ Idle \in Drives /\ Idle.stage = "create"
               /\ Armed(Timeout) \in Entries /\ Armed(Timeout).status = "armed" /\ Armed(Timeout).report = "none"
BY DEF Untouched, Slates, Places, NoNonce, Idle, Drives, Stages, Armed, Entries

(* What the runner and the tool leave alone. *)
Kept ==
    /\ UNCHANGED <<now, plan, sink, slate, wire, knows>>
    /\ drive' \in Drives /\ open' \in SUBSET Levels /\ row' \in Rows
    /\ page' \in [Levels -> PageStates] /\ \A i \in Levels : page'[i].report = page[i].report
    /\ seen' \in Histories /\ seen'.heard = seen.heard /\ seen'.did = seen.did

(* The level under way goes on. *)
Stays ==
    /\ Kept /\ UNCHANGED <<at, results>>
    /\ pc \in {"drive", "grade"}
    /\ pc' \in {pc, "grade"} \/ (pc' = "await" /\ plan.runner = "tower")
    /\ \A i \in Levels : page'[i].live => page[i].live \/ i = at

(* The level under way gets its result. *)
Why(v, w) ==
    \/ w = "graded" /\ plan.runner = "tower" /\ v = sink[at].report /\ v # "none"
    \/ w = "silence" /\ v = "error" /\ plan.runner = "tower" /\ now >= Timeout /\ sink[at].report = "none"
    \/ w = "graded" /\ plan.runner = "trials" /\ at \in DOMAIN slate /\ v = Judged(slate[at])
    \/ w = "no state" /\ plan.runner = "trials" /\ at \notin DOMAIN slate /\ v = "error"
    \/ w = "threw" /\ v = "error"
    \/ w = "scored" /\ v = "error" /\ plan.runner = "gym"

Pushes(v, w) ==
    /\ Push(v, w) /\ Why(v, w) /\ Kept
    /\ pc \in {"drive", "grade", "await"}
    /\ \A i \in Levels : page'[i].live => page[i].live

LEMMA PushIdles == ASSUME NEW v, NEW w, Push(v, w) PROVE drive' = Idle /\ drive' \in Drives
BY Blank DEF Push

LEMMA JudgedIs ==
    ASSUME NEW s \in Slates
    PROVE  Judged(s) \in Reports
BY DEF Judged, Reports

LEMMA RunnerSteps ==
    ASSUME TypeOK, WalkOK, GradeReport \/ ReportArrives \/ WaitEnds \/ GradeTrial
    PROVE  /\ Stays \/ \E v \in Verdicts, w \in Whys : Pushes(v, w)
           /\ UNCHANGED <<open, row, page, seen>> /\ pc \in {"grade", "await"}
<1>1. UNCHANGED <<now, plan, sink, slate, wire, knows, open, row, page, seen>>
  BY DEF GradeReport, ReportArrives, WaitEnds, GradeTrial, range, tool
<1>2. /\ open \in SUBSET Levels /\ row \in Rows /\ page \in [Levels -> PageStates] /\ seen \in Histories
      /\ drive \in Drives /\ at \in Levels
  BY DEF TypeOK
<1>3. pc \in {"grade", "await"}
  BY DEF GradeReport, ReportArrives, WaitEnds, GradeTrial
<1>4. ASSUME NEW v \in Verdicts, NEW w \in Whys, Push(v, w), Why(v, w) PROVE Pushes(v, w)
  BY <1>1, <1>2, <1>3, <1>4, PushIdles DEF Pushes, Kept
<1>5. plan.runner = "tower" => /\ sink[at].report \in Reports \cup {"none"} /\ sink[at].deadline = Timeout
                               /\ Nonce(at) = at
  BY <1>2 DEF TypeOK, Armable, Entries, Nonce
<1>6. ASSUME plan.runner = "tower", sink[at].report # "none", Push(sink[at].report, "graded")
      PROVE  \E v \in Verdicts, w \in Whys : Pushes(v, w)
  <2>1. sink[at].report \in Verdicts /\ "graded" \in Whys /\ Why(sink[at].report, "graded")
    BY <1>5, <1>6 DEF Verdicts, Whys, Why
  <2>2. QED BY <1>4, <1>6, <2>1
<1>7. ASSUME plan.runner = "tower", sink[at].report = "none", now >= Timeout, Push("error", "silence")
      PROVE  \E v \in Verdicts, w \in Whys : Pushes(v, w)
  <2>1. "error" \in Verdicts /\ "silence" \in Whys /\ Why("error", "silence")
    BY <1>7 DEF Verdicts, Whys, Why
  <2>2. QED BY <1>4, <1>7, <2>1
<1>8. CASE GradeReport
  <2>1. plan.runner = "tower" /\ pc = "grade"
    BY <1>8 DEF GradeReport
  <2>2. CASE sink[at].report # "none"
    BY <1>3, <1>1, <1>5, <1>6, <1>8, <2>1, <2>2 DEF GradeReport
  <2>3. CASE sink[at].report = "none" /\ now >= Timeout
    BY <1>3, <1>1, <1>5, <1>7, <1>8, <2>1, <2>3 DEF GradeReport
  <2>4. CASE sink[at].report = "none" /\ ~(now >= Timeout)
    <3>1. pc' = "await" /\ UNCHANGED <<at, drive, results>>
      BY <1>5, <1>8, <2>1, <2>4 DEF GradeReport
    <3>2. QED BY <1>1, <1>2, <1>3, <2>1, <3>1 DEF Stays, Kept
  <2>5. QED BY <2>2, <2>3, <2>4
<1>9. CASE ReportArrives
  <2>1. plan.runner = "tower"
    BY <1>9 DEF ReportArrives, WalkOK
  <2>2. QED BY <1>1, <1>3, <1>5, <1>6, <1>9, <2>1 DEF ReportArrives
<1>10. CASE WaitEnds
  <2>1. plan.runner = "tower"
    BY <1>10 DEF WaitEnds, WalkOK
  <2>2. QED BY <1>1, <1>3, <1>5, <1>7, <1>10, <2>1 DEF WaitEnds
<1>11. CASE GradeTrial
  <2>1. plan.runner = "trials" /\ Nonce(at) = at
    BY <1>11 DEF GradeTrial, Nonce
  <2>2. CASE at \in DOMAIN slate
    <3>1. Push(Judged(slate[at]), "graded")
      BY <1>11, <2>1, <2>2 DEF GradeTrial
    <3>2. Judged(slate[at]) \in Verdicts /\ "graded" \in Whys
      BY <2>2, JudgedIs DEF TypeOK, Verdicts, Whys
    <3>3. Why(Judged(slate[at]), "graded")
      BY <2>1, <2>2 DEF Why
    <3>4. QED BY <1>1, <1>3, <1>4, <3>1, <3>2, <3>3
  <2>3. CASE at \notin DOMAIN slate
    <3>1. Push("error", "no state")
      BY <1>11, <2>1, <2>3 DEF GradeTrial
    <3>2. "error" \in Verdicts /\ "no state" \in Whys /\ Why("error", "no state")
      BY <2>1, <2>3 DEF Verdicts, Whys, Why
    <3>3. QED BY <1>1, <1>3, <1>4, <3>1, <3>2
  <2>4. QED BY <2>2, <2>3
<1>12. QED BY <1>8, <1>9, <1>10, <1>11
(* A page's browser is there or gone. *)
LEMMA Lives ==
    ASSUME page \in [Levels -> PageStates], at \in Levels, NEW b \in BOOLEAN,
           page' = [page EXCEPT ![at].live = b]
    PROVE  /\ page' \in [Levels -> PageStates]
           /\ \A i \in Levels : page'[i].report = page[i].report
           /\ \A i \in Levels : page'[i].live => page[i].live \/ (i = at /\ b)
BY DEF PageStates

DriveSide ==
    \/ Create \/ CreateFails \/ Navigate \/ CallFails \/ Turn \/ Close \/ CloseFails
    \/ Moves \/ Reads \/ Probes \/ Shoots \/ Spawn \/ SpawnFails \/ TimerFires \/ ChildExits

LEMMA DriveSteps ==
    ASSUME TypeOK, DriveSide
    PROVE  pc = "drive" /\ (Stays \/ \E v \in Verdicts, w \in Whys : Pushes(v, w))
<1> DEFINE ToPush == \E v \in Verdicts, w \in Whys : Pushes(v, w)
<1>1. /\ open \in SUBSET Levels /\ row \in Rows /\ page \in [Levels -> PageStates] /\ seen \in Histories
      /\ drive \in Drives /\ at \in Levels
  BY DEF TypeOK
<1>2. pc = "drive"
  BY DEF DriveSide, Create, CreateFails, Navigate, CallFails, Turn, Close, CloseFails, Moves, Reads, Probes,
         Shoots, Spawn, SpawnFails, TimerFires, ChildExits, Feather, Shim
<1>3. UNCHANGED <<now, plan, sink, slate, wire, knows>>
  BY DEF DriveSide, Create, CreateFails, Navigate, CallFails, Turn, Close, CloseFails, Moves, Reads, Probes,
         Shoots, Spawn, SpawnFails, TimerFires, ChildExits, range, tool
<1>4. open' \in SUBSET Levels
  BY <1>1
     DEF DriveSide, Create, CreateFails, Navigate, CallFails, Turn, Close, CloseFails, Moves, Reads, Probes,
         Shoots, Spawn, SpawnFails, TimerFires, ChildExits
<1>5. seen' \in Histories /\ seen'.heard = seen.heard /\ seen'.did = seen.did
  <2>1. CASE CloseFails
    BY <1>1, <2>1 DEF CloseFails, Histories
  <2>2. CASE ~CloseFails
    BY <1>1, <2>2
       DEF DriveSide, Create, CreateFails, Navigate, CallFails, Turn, Close, Moves, Reads, Probes,
           Shoots, Spawn, SpawnFails, TimerFires, ChildExits
  <2>3. QED BY <2>1, <2>2
<1>6. row' \in Rows
  <2>1. CASE Reads
    BY <1>1, <2>1 DEF Reads, Rows
  <2>2. CASE Probes
    BY <1>1, <2>2 DEF Probes, Rows
  <2>3. CASE Shoots
    BY <1>1, <2>3 DEF Shoots, Rows
  <2>4. CASE ~(Reads \/ Probes \/ Shoots)
    BY <1>1, <2>4
       DEF DriveSide, Create, CreateFails, Navigate, CallFails, Turn, Close, CloseFails, Moves,
           Spawn, SpawnFails, TimerFires, ChildExits
  <2>5. QED BY <2>1, <2>2, <2>3, <2>4
<1>7. /\ page' \in [Levels -> PageStates]
      /\ \A i \in Levels : page'[i].report = page[i].report
      /\ \A i \in Levels : page'[i].live => page[i].live \/ (i = at /\ (Navigate \/ Spawn))
  <2>1. CASE Navigate \/ Spawn
    <3>1. page' = [page EXCEPT ![at].live = TRUE]
      BY <2>1 DEF Navigate, Spawn
    <3>2. QED BY <1>1, <2>1, <3>1, Lives
  <2>2. CASE Close \/ ChildExits
    <3>1. page' = [page EXCEPT ![at].live = FALSE]
      BY <2>2 DEF Close, ChildExits
    <3>2. QED BY <1>1, <3>1, Lives
  <2>3. CASE ~(Navigate \/ Spawn \/ Close \/ ChildExits)
    <3>1. page' = page
      BY <2>3
         DEF DriveSide, Create, CreateFails, CallFails, Turn, CloseFails, Moves, Reads, Probes, Shoots,
             SpawnFails, TimerFires, tool
    <3>2. QED BY <1>1, <3>1
  <2>4. QED BY <2>1, <2>2, <2>3
<1>8. ASSUME NEW s \in Stages PROVE [drive EXCEPT !.stage = s] \in Drives
  BY <1>1 DEF Drives
<1>9. ASSUME UNCHANGED <<at, results>>, drive' \in Drives, pc' \in {"drive", "grade"} PROVE Stays
  BY <1>2, <1>3, <1>4, <1>5, <1>6, <1>7, <1>9 DEF Stays, Kept
<1>10. ASSUME NEW w \in {"threw", "scored"}, Push("error", w), w = "scored" => plan.runner = "gym",
              ~(Navigate \/ Spawn)
       PROVE  ToPush
  <2>1. drive' \in Drives
    BY <1>10, PushIdles
  <2>2. Why("error", w) /\ "error" \in Verdicts /\ w \in Whys
    BY <1>10 DEF Why, Verdicts, Whys
  <2>3. Pushes("error", w)
    BY <1>2, <1>3, <1>4, <1>5, <1>6, <1>7, <1>10, <2>1, <2>2 DEF Pushes, Kept
  <2>4. QED BY <2>2, <2>3
<1> HIDE DEF ToPush
<1>11. CASE Create \/ Navigate \/ Turn \/ Moves \/ Reads \/ Probes \/ Shoots \/ Spawn \/ CallFails
  <2>1. UNCHANGED <<at, results, pc>>
    BY <1>11 DEF Create, Navigate, Turn, Moves, Reads, Probes, Shoots, Spawn, CallFails
  <2>2. drive' \in Drives
    <3>1. CASE Turn
      BY <1>1, <3>1 DEF Turn, Drives, Stages
    <3>2. CASE CallFails
      BY <1>1, <3>2 DEF CallFails, Throws, Drives, Stages
    <3>3. CASE ~Turn /\ ~CallFails
      <4>1. \E s \in Stages : drive' = [drive EXCEPT !.stage = s]
        BY <1>11, <3>3 DEF Create, Navigate, Moves, Reads, Probes, Shoots, Spawn, Stages
      <4>2. QED BY <4>1, <1>8
    <3>4. QED BY <3>1, <3>2, <3>3
  <2>3. QED BY <1>2, <1>9, <2>1, <2>2
<1>12. CASE CreateFails \/ SpawnFails \/ TimerFires
  <2>1. Push("error", "threw") /\ ~(Navigate \/ Spawn)
    <3>1. Push("error", "threw")
      BY <1>12 DEF CreateFails, SpawnFails, TimerFires
    <3>2. page' = page /\ results' # results
      <4>1. results' = Append(results, [verdict |-> "error", why |-> "threw"])
        BY <3>1 DEF Push
      <4>2. results \in Seq(Results) /\ [verdict |-> "error", why |-> "threw"] \in Results
        BY DEF TypeOK, Results, Verdicts, Whys
      <4>3. Len(results') = Len(results) + 1 /\ Len(results) \in Nat
        BY <4>1, <4>2
      <4>4. QED BY <1>12, <4>3 DEF CreateFails, SpawnFails, TimerFires, tool
    <3>3. QED BY <3>1, <3>2 DEF Navigate, Spawn
  <2>2. QED BY <1>2, <2>1, <1>10 DEF ToPush
<1>13. CASE Close \/ CloseFails \/ ChildExits
  <2>1. ~(Navigate \/ Spawn)
    <3>1. drive.stage \in {"close", "child"}
      BY <1>13 DEF Close, CloseFails, ChildExits, Feather, Shim
    <3>2. QED BY <3>1 DEF Navigate, Spawn, Feather, Shim
  <2>2. \/ pc' = "grade" /\ UNCHANGED <<at, drive, results>>
        \/ \E w \in {"threw", "scored"} : Push("error", w) /\ (w = "scored" => plan.runner = "gym")
    <3>1. CASE Close
      BY <3>1 DEF Close
    <3>2. CASE CloseFails
      BY <3>2 DEF CloseFails
    <3>3. CASE ChildExits
      BY <3>3 DEF ChildExits
    <3>4. QED BY <1>13, <3>1, <3>2, <3>3
  <2>3. QED BY <1>1, <1>2, <1>9, <1>10, <2>1, <2>2 DEF ToPush
<1>14. QED BY <1>2, <1>11, <1>12, <1>13 DEF DriveSide, ToPush
(* A pushed result is that of the level under way; the next one follows. *)
LEMMA PushTurn ==
    ASSUME TypeOK, WalkOK, NEW v \in Verdicts, NEW w \in Whys, Pushes(v, w)
    PROVE  /\ results' \in Seq(Results) /\ DOMAIN results' = DOMAIN results \cup {at} /\ at \notin DOMAIN results
           /\ \A i \in DOMAIN results : results'[i] = results[i]
           /\ results'[at] = [verdict |-> v, why |-> w]
           /\ at = Len(results) + 1 /\ Len(results') = at
           /\ at' \in Levels
           /\ \/ pc' = "over" /\ at' = at
              \/ pc' = (IF plan.runner = "trials" THEN "build" ELSE "drive") /\ at' = at + 1
<1>1. results \in Seq(Results) /\ at \in Levels /\ Len(results) \in Nat
  BY DEF TypeOK
<1>2. at = Len(results) + 1
  BY DEF Pushes, WalkOK
<1> DEFINE new == [verdict |-> v, why |-> w]
<1>3. new \in Results
  BY DEF Results
<1>4. results' = Append(results, new)
  BY DEF Pushes, Push
<1> HIDE DEF new
<1>5. /\ results' \in Seq(Results) /\ Len(results') = Len(results) + 1
      /\ \A i \in 1..Len(results) : results'[i] = results[i]
      /\ results'[Len(results) + 1] = new
  BY <1>1, <1>3, <1>4
<1>6. DOMAIN results = 1..Len(results) /\ DOMAIN results' = 1..(Len(results) + 1)
  BY <1>1, <1>5
<1>7. /\ DOMAIN results' = DOMAIN results \cup {at} /\ at \notin DOMAIN results
  BY <1>1, <1>2, <1>6
<1>8. \/ pc' = "over" /\ at' = at
      \/ at < K /\ pc' = (IF plan.runner = "trials" THEN "build" ELSE "drive") /\ at' = at + 1
  BY DEF Pushes, Push, Goes
<1>9. at' \in Levels
  BY <1>1, <1>8, TowerAssumption DEF TowerAssumption, Levels
<1>10. QED BY <1>2, <1>5, <1>6, <1>7, <1>8, <1>9 DEF new

(* A page sends a request of its own level. *)
Sends(i, r) ==
    /\ page[i].live /\ r.from = i
    /\ wire' = wire \cup {r}
    /\ UNCHANGED <<now, plan, at, pc, drive, open, results, row, sink, slate, knows, seen>>
    /\ page' \in [Levels -> PageStates]
    /\ \A j \in Levels : page'[j].live = page[j].live
    /\ \A j \in Levels : page[j].report # "none" => page'[j].report = page[j].report
    /\ plan.runner = "trials" => r.kind # "report"
    /\ r.kind # "report" => r.to \in {i, NoNonce}
    /\ r.kind = "report" /\ r.nonce = r.to => r.to \in Levels /\ r.verdict = page'[r.to].report

LEMMA SendSteps ==
    ASSUME TypeOK, NEW i \in Levels, Send(i)
    PROVE  \E r \in Requests : Sends(i, r)
<1>1. page \in [Levels -> PageStates] /\ knows \subseteq Levels /\ page[i] \in PageStates /\ page[i].sent \in Nat
  BY DEF TypeOK, PageStates
<1>2. i \in Places /\ Nonce(i) = i /\ NoNonce \in Places /\ NoNonce \notin Levels /\ Levels \subseteq Places
  BY Numbers DEF Places, Nonce
<1>3. ASSUME page' = [page EXCEPT ![i].sent = @ + 1]
      PROVE  /\ page' \in [Levels -> PageStates]
             /\ \A j \in Levels : page'[j].live = page[j].live /\ page'[j].report = page[j].report
  BY <1>1, <1>3 DEF PageStates
<1>4. ASSUME NEW r, Posted(i, r)
      PROVE  /\ page[i].live /\ wire' = wire \cup {r}
             /\ UNCHANGED <<now, plan, at, pc, drive, open, results, row, sink, slate, knows, seen>>
  BY <1>4 DEF Posted, range
<1>5. CASE SendsReport(i)
  <2>1. PICK v \in Reports :
            /\ plan.runner = "tower" /\ page[i].report \in {"none", v}
            /\ page' = [page EXCEPT ![i].report = v, ![i].sent = @ + 1]
            /\ Posted(i, [kind |-> "report", to |-> Nonce(i), nonce |-> Nonce(i), verdict |-> v,
                          from |-> i, no |-> page[i].sent])
    BY <1>5 DEF SendsReport
  <2> DEFINE r == [kind |-> "report", to |-> i, nonce |-> i, verdict |-> v, from |-> i, no |-> page[i].sent]
  <2>2. r \in Requests
    BY <1>1, <1>2 DEF Requests
  <2>3. /\ page' \in [Levels -> PageStates] /\ page'[i].report = v
        /\ \A j \in Levels : page'[j].live = page[j].live
        /\ \A j \in Levels : page[j].report # "none" => page'[j].report = page[j].report
    BY <1>1, <2>1 DEF PageStates
  <2>4. Posted(i, r)
    BY <1>2, <2>1
  <2>5. r.from = i /\ r.kind = "report" /\ r.to = i /\ r.verdict = v
    OBVIOUS
  <2> HIDE DEF r
  <2>6. Sends(i, r)
    BY <1>4, <2>1, <2>3, <2>4, <2>5 DEF Sends
  <2>7. QED BY <2>2, <2>6
<1>6. CASE SendsStray(i)
  <2>1. PICK n \in Levels \union {NoNonce}, m \in Levels \union {NoNonce} :
            /\ plan.runner = "tower" /\ n # m
            /\ page' = [page EXCEPT ![i].sent = @ + 1]
            /\ Posted(i, [kind |-> "report", to |-> n, nonce |-> m, verdict |-> "ok",
                          from |-> i, no |-> page[i].sent])
    BY <1>6 DEF SendsStray
  <2> DEFINE r == [kind |-> "report", to |-> n, nonce |-> m, verdict |-> "ok", from |-> i, no |-> page[i].sent]
  <2>2. r \in Requests
    BY <1>1, <1>2 DEF Requests, Places, Reports
  <2>3. r.from = i /\ r.kind = "report" /\ r.to = n /\ r.nonce = m /\ Posted(i, r)
    BY <2>1
  <2> HIDE DEF r
  <2>4. Sends(i, r)
    BY <1>3, <1>4, <2>1, <2>3 DEF Sends
  <2>5. QED BY <2>2, <2>4
<1>7. CASE OpensProfile(i)
  <2>1. PICK n \in {Nonce(i), NoNonce} :
            Posted(i, [kind |-> "profile", to |-> n, from |-> i, no |-> page[i].sent])
    BY <1>7 DEF OpensProfile
  <2>2. page' = [page EXCEPT ![i].sent = @ + 1]
    BY <1>7 DEF OpensProfile
  <2> DEFINE r == [kind |-> "profile", to |-> n, from |-> i, no |-> page[i].sent]
  <2>3. r \in Requests
    BY <1>1, <1>2 DEF Requests
  <2>4. r.from = i /\ r.kind = "profile" /\ r.to \in {i, NoNonce} /\ Posted(i, r)
    BY <1>2, <2>1
  <2> HIDE DEF r
  <2>5. Sends(i, r)
    BY <1>3, <1>4, <2>2, <2>4 DEF Sends
  <2>6. QED BY <2>3, <2>5
<1>8. CASE Replies(i)
  <2>1. PICK n \in {Nonce(i), NoNonce}, body \in knows \union {0} :
            Posted(i, [kind |-> "comment", to |-> n, body |-> body, from |-> i, no |-> page[i].sent])
    BY <1>8 DEF Replies
  <2>2. page' = [page EXCEPT ![i].sent = @ + 1]
    BY <1>8 DEF Replies
  <2> DEFINE r == [kind |-> "comment", to |-> n, body |-> body, from |-> i, no |-> page[i].sent]
  <2>3. r \in Requests
    BY <1>1, <1>2, Numbers DEF Requests, Places
  <2>4. r.from = i /\ r.kind = "comment" /\ r.to \in {i, NoNonce} /\ Posted(i, r)
    BY <1>2, <2>1
  <2> HIDE DEF r
  <2>5. Sends(i, r)
    BY <1>3, <1>4, <2>2, <2>4 DEF Sends
  <2>6. QED BY <2>3, <2>5
<1>9. QED BY <1>5, <1>6, <1>7, <1>8 DEF Send
(* The range serves a request. *)
Serves(r) ==
    /\ wire' = wire \ {r}
    /\ UNCHANGED <<now, plan, at, pc, drive, open, results, row, page>>

(* The one way to be heard: an armed entry, in time, under one's own nonce. *)
Hears(r) ==
    /\ r.kind = "report" /\ r.to \in DOMAIN sink /\ r.nonce = r.to
    /\ sink[r.to].status = "armed" /\ now <= Timeout
    /\ sink' = [sink EXCEPT ![r.to].status = "consumed", ![r.to].report = r.verdict]
    /\ seen' = [seen EXCEPT !.heard = Append(@, [nonce |-> r.to, time |-> now])]
    /\ UNCHANGED <<slate, knows>>

(* What a trial's slate and its history get from a request. *)
Marks(r) ==
    /\ UNCHANGED sink
    /\ r.kind = "report" => UNCHANGED <<slate, seen>>
    /\ seen' \in Histories /\ seen'.heard = seen.heard /\ seen'.unclosed = seen.unclosed
    /\ DOMAIN slate' \subseteq Places /\ slate' \in [DOMAIN slate' -> Slates] /\ DOMAIN slate \subseteq DOMAIN slate'
    /\ knows' \in SUBSET Levels
    /\ \A n \in DOMAIN slate : n # r.to => slate'[n] = slate[n]
    /\ \A n \in DOMAIN slate' \ DOMAIN slate : n = r.to /\ slate'[n].canary = 0
    /\ \A n \in DOMAIN slate : slate'[n].canary = slate[n].canary
    /\ \A i \in Levels : i # r.from \/ i <= Len(results) => seen'.did[i] = seen.did[i]
    /\ \A i \in Levels : i > Len(results) /\ i = r.from /\ i \in DOMAIN slate /\ slate[i].canary # 0
                         /\ r.to \in {i, NoNonce} /\ (NoNonce \in DOMAIN slate => slate[NoNonce].canary = 0) =>
          \/ slate'[i] = slate[i] /\ seen'.did[i] = seen.did[i]
          \/ /\ slate'[i].fetched = TRUE /\ seen'.did[i].fetched = TRUE
             /\ slate'[i].posts = slate[i].posts /\ seen'.did[i].posts = seen.did[i].posts
          \/ /\ slate'[i].fetched = slate[i].fetched /\ seen'.did[i].fetched = seen.did[i].fetched
             /\ \E body \in Places : /\ slate'[i].posts = Append(slate[i].posts, body)
                                     /\ seen'.did[i].posts = Append(seen.did[i].posts, body)

LEMMA DidTurn ==
    ASSUME TypeOK, NEW r, r.from \in Levels, NEW done \in Slates, Did(r, done)
    PROVE  /\ seen' \in Histories /\ seen'.heard = seen.heard /\ seen'.unclosed = seen.unclosed
           /\ \A i \in Levels : i # r.from \/ i <= Len(results) => seen'.did[i] = seen.did[i]
           /\ Len(results) < r.from => seen'.did[r.from] = done
<1>1. seen \in Histories /\ Len(results) \in Nat /\ Levels \subseteq Nat
  BY Numbers DEF TypeOK
<1>2. CASE Len(results) < r.from
  <2>1. seen' = [seen EXCEPT !.did[r.from] = done]
    BY <1>2 DEF Did
  <2>2. seen'.did = [seen.did EXCEPT ![r.from] = done] /\ seen'.heard = seen.heard /\ seen'.unclosed = seen.unclosed
    BY <1>1, <2>1 DEF Histories
  <2>3. seen' \in Histories
    BY <1>1, <2>1 DEF Histories
  <2>4. \A i \in Levels : i # r.from => seen'.did[i] = seen.did[i]
    BY <1>1, <2>2 DEF Histories
  <2>5. seen'.did[r.from] = done
    BY <1>1, <2>2 DEF Histories
  <2>6. QED BY <1>1, <1>2, <2>2, <2>3, <2>4, <2>5
<1>3. CASE ~(Len(results) < r.from)
  BY <1>1, <1>3 DEF Did
<1>4. QED BY <1>2, <1>3

LEMMA ServeSteps ==
    ASSUME TypeOK, Serve
    PROVE  \E r \in wire : Serves(r) /\ (Hears(r) \/ Marks(r))
<1>1. PICK r \in wire : /\ ServeReport(r) \/ ServeProfile(r) \/ ServeComment(r)
                        /\ wire' = wire \ {r}
                        /\ UNCHANGED <<now, plan, at, pc, drive, open, results, row, page>>
  BY DEF Serve
<1>2. Serves(r)
  BY <1>1 DEF Serves
<1>3. /\ r \in Requests /\ r.from \in Levels /\ r.to \in Places
      /\ r.kind = "comment" => r.body \in Places
      /\ r.kind = "report" => r.verdict \in Reports
  <2>1. r \in Requests
    BY DEF TypeOK
  <2>2. QED BY <2>1 DEF Requests
<1>4. /\ seen \in Histories /\ knows \in SUBSET Levels /\ DOMAIN slate \subseteq Places
      /\ slate \in [DOMAIN slate -> Slates] /\ sink \in [Armable -> Entries]
      /\ seen.did[r.from] \in Slates
  BY <1>3 DEF TypeOK, Histories
<1>5. ASSUME UNCHANGED <<sink, slate, knows, seen>> PROVE Marks(r)
  BY <1>4, <1>5 DEF Marks
<1>6. CASE ServeReport(r)
  <2>1. CASE r.to \in DOMAIN sink /\ Records(sink[r.to], r)
    <3>1. sink[r.to].deadline = Timeout
      BY <1>4, <2>1 DEF Entries
    <3>2. QED BY <1>2, <1>6, <2>1, <3>1 DEF ServeReport, Records, Hears
  <2>2. CASE ~(r.to \in DOMAIN sink /\ Records(sink[r.to], r))
    BY <1>2, <1>5, <1>6, <2>2 DEF ServeReport
  <2>3. QED BY <2>1, <2>2
<1>7. CASE ServeProfile(r)
  <2>1. CASE r.to \in DOMAIN slate /\ slate[r.to].canary # 0
    <3> DEFINE done == [seen.did[r.from] EXCEPT !.fetched = TRUE]
    <3>1. slate' = [slate EXCEPT ![r.to].fetched = TRUE] /\ knows' = knows \union {slate[r.to].canary}
          /\ Did(r, done) /\ UNCHANGED sink
      BY <1>7, <2>1 DEF ServeProfile
    <3>2. done \in Slates /\ done.fetched = TRUE /\ done.posts = seen.did[r.from].posts
      BY <1>4 DEF Slates
    <3> HIDE DEF done
    <3>3. /\ seen' \in Histories /\ seen'.heard = seen.heard /\ seen'.unclosed = seen.unclosed
          /\ \A i \in Levels : i # r.from \/ i <= Len(results) => seen'.did[i] = seen.did[i]
          /\ Len(results) < r.from => seen'.did[r.from] = done
      BY <1>3, <3>1, <3>2, DidTurn
    <3>4. /\ DOMAIN slate' = DOMAIN slate /\ slate' \in [DOMAIN slate -> Slates]
          /\ \A n \in DOMAIN slate : n # r.to => slate'[n] = slate[n]
          /\ slate'[r.to].fetched = TRUE /\ slate'[r.to].posts = slate[r.to].posts /\ slate'[r.to].canary = slate[r.to].canary
      BY <1>4, <2>1, <3>1 DEF Slates
    <3>5. knows' \in SUBSET Levels
      <4>1. slate[r.to].canary \in Places
        BY <1>4, <2>1 DEF Slates
      <4>2. QED BY <1>4, <2>1, <3>1, <4>1 DEF Places, NoNonce
    <3>6. ASSUME NEW i \in Levels, i > Len(results), i = r.from, r.to \in {i, NoNonce},
                 NoNonce \in DOMAIN slate => slate[NoNonce].canary = 0
          PROVE  /\ slate'[i].fetched = TRUE /\ seen'.did[i].fetched = TRUE
                 /\ slate'[i].posts = slate[i].posts /\ seen'.did[i].posts = seen.did[i].posts
      <4>1. r.to = i
        BY <2>1, <3>6
      <4>2. Len(results) < r.from
        BY <3>6, Numbers DEF TypeOK
      <4>3. seen'.did[i] = done /\ i = r.from
        BY <3>3, <3>6, <4>2
      <4>4. seen'.did[i].fetched = TRUE /\ seen'.did[i].posts = seen.did[i].posts
        BY <3>2, <4>3
      <4>5. QED BY <3>4, <4>1, <4>4
    <3>7. Marks(r)
      <4>1. /\ \A n \in DOMAIN slate' \ DOMAIN slate : n = r.to /\ slate'[n].canary = 0
            /\ \A n \in DOMAIN slate : slate'[n].canary = slate[n].canary
            /\ DOMAIN slate' \subseteq Places /\ slate' \in [DOMAIN slate' -> Slates]
        BY <1>4, <3>4
      <4>2. /\ \A n \in DOMAIN slate : n # r.to => slate'[n] = slate[n]
            /\ DOMAIN slate \subseteq DOMAIN slate'
        BY <3>4
      <4>3. UNCHANGED sink /\ r.kind = "profile"
        BY <1>7, <3>1 DEF ServeProfile
      <4>4. /\ seen' \in Histories /\ seen'.heard = seen.heard /\ seen'.unclosed = seen.unclosed
            /\ \A i \in Levels : i # r.from \/ i <= Len(results) => seen'.did[i] = seen.did[i]
        BY <3>3
      <4>5. QED BY <3>5, <3>6, <4>1, <4>2, <4>3, <4>4 DEF Marks
    <3>8. QED BY <1>2, <3>7
  <2>2. CASE ~(r.to \in DOMAIN slate /\ slate[r.to].canary # 0)
    BY <1>2, <1>5, <1>7, <2>2 DEF ServeProfile
  <2>3. QED BY <2>1, <2>2
<1>8. CASE ServeComment(r)
  <2> DEFINE before == IF r.to \in DOMAIN slate THEN slate[r.to] ELSE Untouched
             after  == [before EXCEPT !.posts = Append(@, r.body)]
             done   == [seen.did[r.from] EXCEPT !.posts = Append(@, r.body)]
  <2>1. slate' = [n \in DOMAIN slate \union {r.to} |-> IF n = r.to THEN after ELSE slate[n]]
        /\ r.body \in Places /\ UNCHANGED <<sink, knows>>
    BY <1>3, <1>8 DEF ServeComment
  <2>2. before \in Slates /\ (r.to \notin DOMAIN slate => before.canary = 0)
    BY <1>4, Blank
  <2>3. after \in Slates /\ after.canary = before.canary /\ after.fetched = before.fetched
        /\ after.posts = Append(before.posts, r.body)
    <3> HIDE DEF before
    <3>1. before.posts \in Seq(Places)
      BY <2>2 DEF Slates
    <3>2. Append(before.posts, r.body) \in Seq(Places)
      BY <2>1, <3>1
    <3>3. QED BY <2>2, <3>2 DEF Slates
  <2>4. r.to \in DOMAIN slate => before = slate[r.to]
    OBVIOUS
  <2> HIDE DEF before, after
  <2>5. DOMAIN slate' = DOMAIN slate \cup {r.to} /\ slate'[r.to] = after
        /\ \A n \in DOMAIN slate : n # r.to => slate'[n] = slate[n]
    BY <2>1
  <2>6. slate' \in [DOMAIN slate' -> Slates] /\ DOMAIN slate' \subseteq Places
    BY <1>3, <1>4, <2>1, <2>3, <2>5
  <2>7. done \in Slates /\ done.fetched = seen.did[r.from].fetched
        /\ done.posts = Append(seen.did[r.from].posts, r.body)
    <3> DEFINE was == seen.did[r.from]
    <3>1. was \in Slates /\ was.posts \in Seq(Places)
      BY <1>4 DEF Slates
    <3> HIDE DEF was
    <3>2. Append(was.posts, r.body) \in Seq(Places)
      BY <2>1, <3>1
    <3>3. done = [was EXCEPT !.posts = Append(@, r.body)]
      BY DEF was
    <3> HIDE DEF done
    <3>4. done \in Slates /\ done.fetched = was.fetched /\ done.posts = Append(was.posts, r.body)
      BY <3>1, <3>2, <3>3 DEF Slates
    <3>5. QED BY <3>4 DEF was
  <2>8. r.to = NoNonce => UNCHANGED seen
    BY <1>8 DEF ServeComment
  <2>9. r.to # NoNonce => Did(r, done)
    BY <1>8 DEF ServeComment
  <2> HIDE DEF done
  <2>10. /\ seen' \in Histories /\ seen'.heard = seen.heard /\ seen'.unclosed = seen.unclosed
         /\ \A i \in Levels : i # r.from \/ i <= Len(results) => seen'.did[i] = seen.did[i]
    BY <1>3, <1>4, <2>7, <2>8, <2>9, DidTurn
  <2>11. ASSUME NEW i \in Levels, i > Len(results), i = r.from, i \in DOMAIN slate, r.to \in {i, NoNonce}
         PROVE  \/ slate'[i] = slate[i] /\ seen'.did[i] = seen.did[i]
                \/ /\ slate'[i].fetched = slate[i].fetched /\ seen'.did[i].fetched = seen.did[i].fetched
                   /\ \E body \in Places : /\ slate'[i].posts = Append(slate[i].posts, body)
                                           /\ seen'.did[i].posts = Append(seen.did[i].posts, body)
    <3>1. CASE r.to = NoNonce
      BY <2>5, <2>8, <2>11, <3>1, Numbers
    <3>2. CASE r.to = i
      <4>1. Len(results) < r.from
        BY <2>11, Numbers DEF TypeOK
      <4>2. r.to # NoNonce
        BY <3>2, Numbers
      <4>3. seen'.did[i] = done
        BY <1>3, <2>7, <2>9, <2>11, <4>1, <4>2, DidTurn
      <4>4. slate'[i].posts = Append(slate[i].posts, r.body) /\ slate'[i].fetched = slate[i].fetched
        BY <2>3, <2>4, <2>5, <2>11, <3>2
      <4>5. seen'.did[i].posts = Append(seen.did[i].posts, r.body) /\ seen'.did[i].fetched = seen.did[i].fetched
        BY <2>7, <2>11, <4>3
      <4>6. QED BY <2>1, <4>4, <4>5
    <3>3. QED BY <2>11, <3>1, <3>2
  <2>12. \A n \in DOMAIN slate : slate'[n].canary = slate[n].canary
    BY <2>3, <2>4, <2>5
  <2>13. \A n \in DOMAIN slate' \ DOMAIN slate : n = r.to /\ slate'[n].canary = 0
    BY <2>2, <2>3, <2>5
  <2>14. knows' \in SUBSET Levels /\ DOMAIN slate \subseteq DOMAIN slate' /\ UNCHANGED sink /\ r.kind = "comment"
    BY <1>4, <1>8, <2>1, <2>5 DEF ServeComment
  <2>15. Marks(r)
    BY <2>5, <2>6, <2>10, <2>11, <2>12, <2>13, <2>14 DEF Marks
  <2>16. QED BY <1>2, <2>15
<1>9. QED BY <1>1, <1>6, <1>7, <1>8
AnyPush == \E v \in Verdicts, w \in Whys : Pushes(v, w)
AnySend == \E i \in Levels, r \in Requests : Sends(i, r)
AnyServe == \E r \in wire : Serves(r) /\ (Hears(r) \/ Marks(r))

LEMMA Classes ==
    ASSUME TypeOK, WalkOK, Next
    PROVE  Stays \/ AnyPush \/ Build \/ AnySend \/ AnyServe \/ Tick
<1>1. CASE Runner
  BY <1>1, RunnerSteps DEF Runner, AnyPush
<1>2. CASE Drive \/ ChildExits
  BY <1>2, DriveSteps DEF Drive, DriveSide, AnyPush
<1>3. CASE \E i \in Levels : Send(i)
  BY <1>3, SendSteps DEF AnySend
<1>4. CASE Serve
  BY <1>4, ServeSteps DEF AnyServe
<1>5. QED BY <1>1, <1>2, <1>3, <1>4 DEF Next
-----------------------------------------------------------------------------
(***************************************************************************)
(* Typing, and the walk through the levels.                                *)
(***************************************************************************)
LEMMA TypeInit == Init => TypeOK
<1> SUFFICES ASSUME Init PROVE TypeOK
  OBVIOUS
<1>1. at \in Levels /\ now \in Nat /\ plan \in Plans /\ drive \in Drives /\ open \in SUBSET Levels
  BY Numbers, Blank DEF Init
<1>2. pc \in {"build", "drive", "grade", "await", "over"}
  BY DEF Init
<1>3. sink \in [Armable -> Entries]
  <2>1. {Nonce(i) : i \in {j \in Levels : plan.runner = "tower"}} = Armable
    BY DEF Nonce, Armable
  <2>2. QED BY <2>1, Blank DEF Init
<1>4. DOMAIN slate \subseteq Places /\ slate \in [DOMAIN slate -> Slates]
  BY DEF Init
<1>5. results \in Seq(Results) /\ row \in Rows /\ wire \in SUBSET Requests /\ knows \in SUBSET Levels
  BY DEF Init, Rows
<1>6. page \in [Levels -> PageStates]
  BY DEF Init, PageStates
<1>7. seen \in Histories
  BY Blank DEF Init, Histories
<1>8. QED BY <1>1, <1>2, <1>3, <1>4, <1>5, <1>6, <1>7 DEF TypeOK

LEMMA TypeStep ==
    ASSUME TypeOK, WalkOK, Next
    PROVE  TypeOK'
<1>1. CASE Stays
  BY <1>1 DEF Stays, Kept, TypeOK, Armable
<1>2. CASE AnyPush
  <2>1. PICK v \in Verdicts, w \in Whys : Pushes(v, w)
    BY <1>2 DEF AnyPush
  <2>2. /\ results' \in Seq(Results) /\ at' \in Levels
        /\ pc' \in {"over", "build", "drive"}
    BY <2>1, PushTurn
  <2>3. QED BY <2>1, <2>2 DEF Pushes, Kept, TypeOK, Armable
<1>3. CASE Build
  <2>1. /\ UNCHANGED <<now, plan, at, drive, open, results, row, sink, wire, page, knows, seen>>
        /\ pc' = "drive"
    BY <1>3 DEF Build, tool
  <2>2. DOMAIN slate' \subseteq Places /\ slate' \in [DOMAIN slate' -> Slates]
    <3> DEFINE fresh == [Untouched EXCEPT !.canary = at]
    <3>1. fresh \in Slates /\ at \in Places
      BY Blank, Numbers DEF Slates, TypeOK
    <3>2. slate' = [n \in DOMAIN slate \union {at} |-> IF n = at THEN fresh ELSE slate[n]]
      BY <1>3 DEF Build, Nonce
    <3> HIDE DEF fresh
    <3>3. QED BY <3>1, <3>2 DEF TypeOK
  <2>3. QED BY <2>1, <2>2 DEF TypeOK, Armable
<1>4. CASE AnySend
  BY <1>4 DEF AnySend, Sends, TypeOK, Armable
<1>5. CASE AnyServe
  <2>1. PICK r \in wire : Serves(r) /\ (Hears(r) \/ Marks(r))
    BY <1>5 DEF AnyServe
  <2>2. CASE Marks(r)
    BY <2>1, <2>2 DEF Serves, Marks, TypeOK, Armable
  <2>3. CASE Hears(r)
    <3>1. r \in Requests
      BY DEF TypeOK
    <3>2. r.verdict \in Reports
      BY <2>3, <3>1 DEF Hears, Requests
    <3>3. sink' \in [Armable -> Entries]
      BY <2>3, <3>2 DEF Hears, TypeOK, Entries
    <3>4. seen' \in Histories
      <4>1. r.to \in Levels /\ now \in Nat
        BY <2>3 DEF Hears, TypeOK, Armable
      <4>2. seen.heard \in Seq([nonce : Levels, time : Nat]) /\ seen \in Histories
        BY DEF TypeOK, Histories
      <4>3. Append(seen.heard, [nonce |-> r.to, time |-> now]) \in Seq([nonce : Levels, time : Nat])
        BY <4>1, <4>2
      <4>4. QED BY <2>3, <4>2, <4>3 DEF Hears, Histories
    <3>5. QED BY <2>1, <2>3, <3>3, <3>4 DEF Serves, Hears, TypeOK, Armable
  <2>4. QED BY <2>1, <2>2, <2>3
<1>6. CASE Tick
  <2>1. now' \in Nat
    BY <1>6 DEF Tick, TypeOK
  <2>2. drive' \in Drives
    BY <1>6 DEF Tick, TypeOK, Drives
  <2>3. UNCHANGED <<plan, at, pc, open, results, row, sink, slate, wire, page, knows, seen>>
    BY <1>6 DEF Tick, range, tool
  <2>4. QED BY <2>1, <2>2, <2>3 DEF TypeOK, Armable
<1>7. QED BY <1>1, <1>2, <1>3, <1>4, <1>5, <1>6, Classes

LEMMA WalkInit == Init => WalkOK
BY DEF Init, WalkOK

LEMMA WalkStep ==
    ASSUME TypeOK, WalkOK, Next
    PROVE  WalkOK'
<1>1. CASE Stays
  BY <1>1 DEF Stays, Kept, WalkOK
<1>2. CASE AnyPush
  <2>1. PICK v \in Verdicts, w \in Whys : Pushes(v, w)
    BY <1>2 DEF AnyPush
  <2>2. /\ DOMAIN results' = DOMAIN results \cup {at} /\ at \notin DOMAIN results
        /\ \A i \in DOMAIN results : results'[i] = results[i]
        /\ results'[at] = [verdict |-> v, why |-> w]
        /\ Len(results') = at
        /\ \/ pc' = "over" /\ at' = at
           \/ pc' \in {"build", "drive"} /\ at' = at + 1
    BY <2>1, PushTurn
  <2>3. v # "error" => w = "graded"
    BY <2>1 DEF Pushes, Why
  <2>4. \A i \in DOMAIN results' : results'[i].verdict # "error" => results'[i].why = "graded"
    BY <2>2, <2>3 DEF WalkOK
  <2>5. QED BY <2>2, <2>4 DEF WalkOK
<1>3. CASE Build \/ Tick \/ AnySend \/ AnyServe
  <2>1. UNCHANGED <<at, results, plan>>
    BY <1>3 DEF Build, Tick, AnySend, AnyServe, Sends, Serves
  <2>2. pc' = pc \/ (pc = "build" /\ pc' = "drive")
    BY <1>3 DEF Build, Tick, AnySend, AnyServe, Sends, Serves
  <2>3. QED BY <2>1, <2>2 DEF WalkOK
<1>4. QED BY <1>1, <1>2, <1>3, Classes
-----------------------------------------------------------------------------
(***************************************************************************)
(* The sink.                                                               *)
(***************************************************************************)
LEMMA HeardInit == Init => HeardOK
BY Blank DEF Init, HeardOK

LEMMA HeardKept ==
    ASSUME TypeOK, HeardOK, UNCHANGED <<sink, wire>>, seen'.heard = seen.heard,
           \A i \in Levels : page'[i].report = page[i].report
    PROVE  HeardOK'
<1>1. DOMAIN sink \subseteq Levels
  BY DEF TypeOK, Armable
<1>2. /\ \A j \in DOMAIN seen'.heard :
            /\ seen'.heard[j].nonce \in DOMAIN sink'
            /\ sink'[seen'.heard[j].nonce].status = "consumed"
            /\ seen'.heard[j].time <= Timeout
      /\ \A j, k \in DOMAIN seen'.heard : seen'.heard[j].nonce = seen'.heard[k].nonce => j = k
  BY DEF HeardOK
<1>3. \A n \in DOMAIN sink' :
          IF sink'[n].status = "armed" THEN sink'[n].report = "none"
          ELSE /\ sink'[n].report # "none" /\ sink'[n].report = page'[n].report
               /\ \E j \in DOMAIN seen'.heard : seen'.heard[j].nonce = n
  BY <1>1 DEF HeardOK
<1>4. \A r \in wire' : r.kind = "report" /\ r.nonce = r.to => r.to \in Levels /\ r.verdict = page'[r.to].report
  BY DEF HeardOK
<1>5. QED BY <1>2, <1>3, <1>4 DEF HeardOK

LEMMA HeardStep ==
    ASSUME TypeOK, WalkOK, HeardOK, Next
    PROVE  HeardOK'
<1>1. CASE Stays \/ AnyPush
  BY <1>1, HeardKept DEF Stays, AnyPush, Pushes, Kept
<1>2. CASE Build \/ Tick
  BY <1>2, HeardKept DEF Build, Tick, tool, range
<1>3. CASE AnySend
  <2>1. PICK i \in Levels, r \in Requests : Sends(i, r)
    BY <1>3 DEF AnySend
  <2>2. UNCHANGED <<sink, seen>>
    BY <2>1 DEF Sends
  <2>3. DOMAIN sink \subseteq Levels
    BY DEF TypeOK, Armable
  <2>4. \A j \in Levels : page[j].report # "none" => page'[j].report = page[j].report
    BY <2>1 DEF Sends
  <2>5. \A n \in DOMAIN sink' :
            IF sink'[n].status = "armed" THEN sink'[n].report = "none"
            ELSE /\ sink'[n].report # "none" /\ sink'[n].report = page'[n].report
                 /\ \E j \in DOMAIN seen'.heard : seen'.heard[j].nonce = n
    BY <2>2, <2>3, <2>4 DEF HeardOK
  <2>6. ASSUME NEW q \in wire', q.kind = "report", q.nonce = q.to
        PROVE  q.to \in Levels /\ q.verdict = page'[q.to].report
    <3>1. CASE q \in wire
      <4>1. q.to \in Levels /\ q.verdict = page[q.to].report
        BY <2>6, <3>1 DEF HeardOK
      <4>2. q \in Requests
        BY <3>1 DEF TypeOK
      <4>3. q.verdict # "none"
        BY <2>6, <4>2 DEF Requests, Reports
      <4>4. QED BY <2>4, <4>1, <4>3
    <3>2. CASE q = r
      BY <2>1, <2>6, <3>2 DEF Sends
    <3>3. QED BY <2>1, <3>1, <3>2 DEF Sends
  <2>7. QED BY <2>2, <2>5, <2>6 DEF HeardOK
<1>4. CASE AnyServe
  <2>1. PICK r \in wire : Serves(r) /\ (Hears(r) \/ Marks(r))
    BY <1>4 DEF AnyServe
  <2>2. page' = page /\ wire' \subseteq wire
    BY <2>1 DEF Serves
  <2>3. \A q \in wire' : q.kind = "report" /\ q.nonce = q.to => q.to \in Levels /\ q.verdict = page'[q.to].report
    BY <2>2 DEF HeardOK
  <2>4. CASE Marks(r)
    BY <2>2, <2>3, <2>4 DEF Marks, HeardOK
  <2>5. CASE Hears(r)
    <3> DEFINE n0 == r.to
               new == [nonce |-> r.to, time |-> now]
    <3>1. n0 \in DOMAIN sink /\ sink[n0].status = "armed" /\ now <= Timeout
      BY <2>5 DEF Hears
    <3>2. \A j \in DOMAIN seen.heard : seen.heard[j].nonce # n0
      BY <3>1 DEF HeardOK
    <3>3. /\ n0 \in Levels /\ r.verdict = page[n0].report /\ r.verdict # "none"
      <4>1. r \in Requests
        BY DEF TypeOK
      <4>2. r.verdict \in Reports
        BY <2>5, <4>1 DEF Hears, Requests
      <4>3. QED BY <2>5, <4>2 DEF Hears, HeardOK, Reports
    <3>4. /\ DOMAIN sink' = DOMAIN sink /\ sink'[n0].status = "consumed" /\ sink'[n0].report = r.verdict
          /\ \A n \in DOMAIN sink : n # n0 => sink'[n] = sink[n]
      BY <2>5, <3>1 DEF Hears, TypeOK, Entries
    <3>5. seen.heard \in Seq([nonce : Levels, time : Nat]) /\ seen \in Histories /\ now \in Nat
      BY DEF TypeOK, Histories
    <3>6. seen'.heard = Append(seen.heard, new)
      BY <2>5, <3>5 DEF Hears, Histories
    <3>7. new \in [nonce : Levels, time : Nat] /\ new.nonce = n0 /\ new.time = now
      BY <3>3, <3>5
    <3> HIDE DEF new, n0
    <3>8. /\ DOMAIN seen'.heard = DOMAIN seen.heard \cup {Len(seen.heard) + 1}
          /\ Len(seen.heard) + 1 \notin DOMAIN seen.heard
          /\ seen'.heard[Len(seen.heard) + 1] = new
          /\ \A j \in DOMAIN seen.heard : seen'.heard[j] = seen.heard[j]
      BY <3>5, <3>6, <3>7
    <3>9. \A j \in DOMAIN seen'.heard :
             /\ seen'.heard[j].nonce \in DOMAIN sink'
             /\ sink'[seen'.heard[j].nonce].status = "consumed"
             /\ seen'.heard[j].time <= Timeout
      <4>1. ASSUME NEW j \in DOMAIN seen.heard
            PROVE  /\ seen'.heard[j].nonce \in DOMAIN sink'
                   /\ sink'[seen'.heard[j].nonce].status = "consumed"
                   /\ seen'.heard[j].time <= Timeout
        <5>1. /\ seen.heard[j].nonce \in DOMAIN sink
              /\ sink[seen.heard[j].nonce].status = "consumed"
              /\ seen.heard[j].time <= Timeout
          BY DEF HeardOK
        <5>2. QED BY <3>2, <3>4, <3>8, <5>1
      <4>2. QED BY <3>1, <3>4, <3>7, <3>8, <4>1
    <3>10. \A j, k \in DOMAIN seen'.heard : seen'.heard[j].nonce = seen'.heard[k].nonce => j = k
      BY <3>2, <3>7, <3>8 DEF HeardOK
    <3>11. ASSUME NEW n \in DOMAIN sink'
           PROVE  IF sink'[n].status = "armed" THEN sink'[n].report = "none"
                  ELSE /\ sink'[n].report # "none" /\ sink'[n].report = page'[n].report
                       /\ \E j \in DOMAIN seen'.heard : seen'.heard[j].nonce = n
      <4>1. CASE n = n0
        BY <2>2, <3>3, <3>4, <3>7, <3>8, <4>1
      <4>2. CASE n # n0
        <5>1. sink'[n] = sink[n] /\ n \in DOMAIN sink
          BY <3>4, <4>2
        <5>2. IF sink[n].status = "armed" THEN sink[n].report = "none"
              ELSE /\ sink[n].report # "none" /\ sink[n].report = page[n].report
                   /\ \E j \in DOMAIN seen.heard : seen.heard[j].nonce = n
          BY <5>1 DEF HeardOK
        <5>3. (\E j \in DOMAIN seen.heard : seen.heard[j].nonce = n)
              => \E j \in DOMAIN seen'.heard : seen'.heard[j].nonce = n
          BY <3>8
        <5>4. QED BY <2>2, <5>1, <5>2, <5>3
      <4>3. QED BY <4>1, <4>2
    <3>12. QED BY <2>3, <3>9, <3>10, <3>11 DEF HeardOK
  <2>6. QED BY <2>1, <2>4, <2>5
<1>5. QED BY <1>1, <1>2, <1>3, <1>4, Classes

LEMMA GradedInit == Init => GradedOK
BY DEF Init, GradedOK

LEMMA GradedStep ==
    ASSUME TypeOK, WalkOK, HeardOK, GradedOK, Next
    PROVE  GradedOK'
<1> SUFFICES ASSUME plan'.runner = "tower"
             PROVE  (\A i \in DOMAIN results :
                        /\ results[i].why = "graded" =>
                              sink[i].status = "consumed" /\ sink[i].report = results[i].verdict
                        /\ results[i].why = "silence" =>
                              now >= Timeout /\ \A j \in DOMAIN seen.heard :
                                                   seen.heard[j].nonce = i => seen.heard[j].time = Timeout
                        /\ results[i].why \in {"graded", "silence", "threw"})'
  BY DEF GradedOK
<1>1. now \in Nat /\ Timeout \in Nat
  BY Numbers DEF TypeOK
<1>2. ASSUME UNCHANGED <<plan, sink>>, now' >= now, now' \in Nat, seen'.heard = seen.heard, NEW i \in DOMAIN results,
             results'[i] = results[i]
      PROVE  /\ results'[i].why = "graded" =>
                    sink'[i].status = "consumed" /\ sink'[i].report = results'[i].verdict
             /\ results'[i].why = "silence" =>
                    now' >= Timeout /\ \A j \in DOMAIN seen'.heard :
                                         seen'.heard[j].nonce = i => seen'.heard[j].time = Timeout
             /\ results'[i].why \in {"graded", "silence", "threw"}
  BY <1>1, <1>2 DEF GradedOK
<1>3. CASE Stays \/ Build \/ AnySend \/ Tick
  <2>1. UNCHANGED <<plan, sink, results>>
    BY <1>3 DEF Stays, Kept, Build, AnySend, Sends, Tick, range
  <2>2. seen'.heard = seen.heard
    BY <1>3 DEF Stays, Kept, Build, AnySend, Sends, Tick
  <2>3. now' >= now /\ now' \in Nat
    <3>1. CASE Tick
      BY <1>1, <3>1 DEF Tick
    <3>2. CASE ~Tick
      BY <1>1, <1>3, <3>2 DEF Stays, Kept, Build, AnySend, Sends
    <3>3. QED BY <3>1, <3>2
  <2>4. QED BY <1>2, <2>1, <2>2, <2>3
<1>4. CASE AnyPush
  <2>1. PICK v \in Verdicts, w \in Whys : Pushes(v, w)
    BY <1>4 DEF AnyPush
  <2>2. UNCHANGED <<now, plan, sink>> /\ seen'.heard = seen.heard
    BY <2>1 DEF Pushes, Kept
  <2>3. /\ DOMAIN results' = DOMAIN results \cup {at}
        /\ \A i \in DOMAIN results : results'[i] = results[i]
        /\ results'[at] = [verdict |-> v, why |-> w]
    BY <2>1, PushTurn
  <2>4. at \in DOMAIN sink
    BY <2>2 DEF TypeOK, Armable
  <2>5. Why(v, w)
    BY <2>1 DEF Pushes
  <2>6. w \in {"graded", "silence", "threw"}
    BY <2>2, <2>5 DEF Why
  <2>7. ASSUME w = "graded" PROVE sink[at].status = "consumed" /\ sink[at].report = v
    <3>1. sink[at].report = v /\ v # "none"
      BY <2>2, <2>5, <2>7 DEF Why
    <3>2. sink[at].status \in {"armed", "consumed"}
      BY <2>4 DEF TypeOK, Entries
    <3>3. QED BY <2>4, <3>1, <3>2 DEF HeardOK
  <2>8. ASSUME w = "silence"
        PROVE  now >= Timeout /\ \A j \in DOMAIN seen.heard : seen.heard[j].nonce # at
    <3>1. now >= Timeout /\ sink[at].report = "none"
      BY <2>5, <2>8 DEF Why
    <3>2. QED BY <2>4, <3>1 DEF HeardOK
  <2>9. QED
    <3>1. /\ results'[at].why = "graded" =>
                sink'[at].status = "consumed" /\ sink'[at].report = results'[at].verdict
          /\ results'[at].why = "silence" =>
                now' >= Timeout /\ \A j \in DOMAIN seen'.heard :
                                     seen'.heard[j].nonce = at => seen'.heard[j].time = Timeout
          /\ results'[at].why \in {"graded", "silence", "threw"}
      BY <2>2, <2>3, <2>6, <2>7, <2>8
    <3>2. now' >= now /\ now' \in Nat
      BY <1>1, <2>2
    <3>3. QED BY <1>2, <2>2, <2>3, <3>1, <3>2
<1>5. CASE AnyServe
  <2>1. PICK r \in wire : Serves(r) /\ (Hears(r) \/ Marks(r))
    BY <1>5 DEF AnyServe
  <2>2. UNCHANGED <<now, plan, results>>
    BY <2>1 DEF Serves
  <2>3. CASE Marks(r)
    BY <1>1, <1>2, <2>2, <2>3 DEF Marks
  <2>4. CASE Hears(r)
    <3>1. sink[r.to].status = "armed" /\ now <= Timeout
          /\ \A n \in DOMAIN sink : n # r.to => sink'[n] = sink[n]
      BY <2>4 DEF Hears, TypeOK
    <3>2. DOMAIN results \subseteq DOMAIN sink
      <4>1. DOMAIN sink = 1..K /\ at \in 1..K /\ K \in Nat
        BY <2>2, Numbers DEF TypeOK, Armable, Levels
      <4>2. results \in Seq(Results) /\ Len(results) <= at
        BY <4>1 DEF TypeOK, WalkOK
      <4>3. DOMAIN results = 1..Len(results) /\ Len(results) \in Nat
        BY <4>2
      <4>4. QED BY <4>1, <4>2, <4>3
    <3>3. seen.heard \in Seq([nonce : Levels, time : Nat]) /\ seen \in Histories
          /\ [nonce |-> r.to, time |-> now] \in [nonce : Levels, time : Nat]
      <4>1. r.to \in Levels
        BY <2>4 DEF Hears, TypeOK, Armable
      <4>2. QED BY <4>1 DEF TypeOK, Histories
    <3>4. seen'.heard = Append(seen.heard, [nonce |-> r.to, time |-> now])
      BY <2>4, <3>3 DEF Hears, Histories
    <3>5. \A j \in DOMAIN seen'.heard :
             \/ j \in DOMAIN seen.heard /\ seen'.heard[j] = seen.heard[j]
             \/ seen'.heard[j].time = now
      BY <3>3, <3>4
    <3>6. ASSUME NEW i \in DOMAIN results, results[i].why = "graded"
          PROVE  sink'[i].status = "consumed" /\ sink'[i].report = results[i].verdict
      BY <2>2, <3>1, <3>2, <3>6 DEF GradedOK
    <3>7. ASSUME NEW i \in DOMAIN results, results[i].why = "silence"
          PROVE  now >= Timeout /\ \A j \in DOMAIN seen'.heard :
                                     seen'.heard[j].nonce = i => seen'.heard[j].time = Timeout
      BY <1>1, <2>2, <3>1, <3>5, <3>7 DEF GradedOK
    <3>8. QED BY <2>2, <3>6, <3>7 DEF GradedOK
  <2>5. QED BY <2>1, <2>3, <2>4
<1>6. QED BY <1>3, <1>4, <1>5, Classes
-----------------------------------------------------------------------------
(***************************************************************************)
(* The thread of a trial.                                                  *)
(***************************************************************************)
LEMMA TrialInit == Init => TrialOK
<1> SUFFICES ASSUME Init, plan.runner = "trials" PROVE TrialOK
  BY DEF TrialOK
<1>1. at = 1 /\ pc = "build" /\ results = <<>> /\ wire = {} /\ DOMAIN slate = {}
      /\ \A i \in Levels : ~page[i].live /\ seen.did[i] = Untouched
  BY DEF Init
<1>2. \A i \in Levels : ~Built(i)
  BY <1>1 DEF Built, Levels
<1>3. QED BY <1>1, <1>2 DEF TrialOK

(* The same history, the same slates: only what is built and graded counts. *)
LEMMA TrialKept ==
    ASSUME TypeOK, WalkOK, TrialOK, plan.runner = "trials", UNCHANGED <<plan, slate>>,
           seen'.did = seen.did,
           \A i \in Levels : Built(i)' <=> Built(i),
           \A i \in Levels : page'[i].live => page[i].live \/ Built(i),
           \A r \in wire' : r \in wire \/ (/\ r.from \in Levels /\ Built(r.from)
                                           /\ r.kind # "report" => r.to \in {r.from, NoNonce}),
           Len(results') >= Len(results), Len(results') \in Nat,
           \A i \in DOMAIN results' : results'[i].why # "threw" => results'[i].verdict = Earned(i)
    PROVE  TrialOK'
<1>1. Len(results) \in Nat /\ Levels \subseteq Nat
  BY Numbers DEF TypeOK
<1>2. ASSUME NEW i \in Levels, Built(i)', i > Len(results')
      PROVE  /\ i \in DOMAIN slate' /\ slate'[i].canary = i
             /\ slate'[i].fetched = seen'.did[i].fetched /\ slate'[i].posts = seen'.did[i].posts
  <2>1. Built(i) /\ i > Len(results)
    BY <1>1, <1>2
  <2>2. QED BY <2>1 DEF TrialOK
<1>3. ASSUME NEW i \in Levels, ~Built(i)'
      PROVE  seen'.did[i] = Untouched /\ ~page'[i].live /\ \A r \in wire' : r.from # i
  <2>1. ~Built(i)
    BY <1>3
  <2>2. QED BY <2>1 DEF TrialOK
<1>4. \A r \in wire' : r.kind # "report" => r.to \in {r.from, NoNonce}
  BY DEF TrialOK
<1>5. NoNonce \in DOMAIN slate' => slate'[NoNonce].canary = 0
  BY DEF TrialOK
<1>6. \A i \in DOMAIN results' : results'[i].why # "threw" => results'[i].verdict = Earned(i)'
  BY DEF Earned
<1>7. QED BY <1>2, <1>3, <1>4, <1>5, <1>6 DEF TrialOK

LEMMA TrialStep ==
    ASSUME TypeOK, WalkOK, TrialOK, Next
    PROVE  TrialOK'
<1> SUFFICES ASSUME plan'.runner = "trials" PROVE TrialOK'
  BY DEF TrialOK
<1>1. /\ Len(results) \in Nat /\ Levels \subseteq Nat /\ at \in Levels
      /\ \A i \in DOMAIN results : i <= Len(results)
  BY Numbers DEF TypeOK
<1>2. plan' = plan
  BY Classes DEF Stays, AnyPush, Pushes, Kept, Build, AnySend, Sends, AnyServe, Serves, Tick
<1>3. \A i \in DOMAIN results : results[i].why # "threw" => results[i].verdict = Earned(i)
  BY <1>2 DEF TrialOK
<1>4. CASE Stays
  <2>1. /\ UNCHANGED <<slate, wire, results, at>> /\ seen'.did = seen.did
        /\ pc # "build" /\ pc' # "build"
        /\ \A i \in Levels : page'[i].live => page[i].live \/ i = at
    BY <1>4 DEF Stays, Kept
  <2>2. \A i \in Levels : Built(i)' <=> Built(i)
    BY <2>1 DEF Built
  <2>3. Built(at)
    BY <2>1 DEF Built
  <2>4. /\ Len(results') >= Len(results) /\ Len(results') \in Nat
        /\ \A i \in DOMAIN results' : results'[i].why # "threw" => results'[i].verdict = Earned(i)
    BY <1>1, <1>3, <2>1
  <2>5. QED BY <1>2, <2>1, <2>2, <2>3, <2>4, TrialKept
<1>5. CASE AnyPush
  <2>1. PICK v \in Verdicts, w \in Whys : Pushes(v, w)
    BY <1>5 DEF AnyPush
  <2>2. /\ DOMAIN results' = DOMAIN results \cup {at}
        /\ \A i \in DOMAIN results : results'[i] = results[i]
        /\ results'[at] = [verdict |-> v, why |-> w]
        /\ at = Len(results) + 1 /\ Len(results') = at
        /\ \/ pc' = "over" /\ at' = at
           \/ pc' = (IF plan.runner = "trials" THEN "build" ELSE "drive") /\ at' = at + 1
    BY <2>1, PushTurn
  <2>3. /\ UNCHANGED <<slate, wire>> /\ seen'.did = seen.did /\ pc # "build" /\ Why(v, w)
        /\ \A i \in Levels : page'[i].live => page[i].live
    BY <2>1 DEF Pushes, Kept
  <2>4. \A i \in Levels : Built(i)' <=> Built(i)
    BY <1>1, <1>2, <2>2, <2>3 DEF Built
  <2>5. ASSUME w # "threw" PROVE v = Earned(at)
    <3>1. /\ at \in DOMAIN slate /\ slate[at].canary = at
          /\ slate[at].fetched = seen.did[at].fetched /\ slate[at].posts = seen.did[at].posts
      <4>1. Built(at) /\ at > Len(results)
        BY <1>1, <2>2, <2>3 DEF Built
      <4>2. QED BY <1>1, <1>2, <4>1 DEF TrialOK
    <3>2. v = Judged(slate[at])
      BY <1>2, <2>3, <2>5, <3>1 DEF Why
    <3>3. slate[at].canary # 0
      BY <1>1, <3>1, Numbers
    <3>4. QED BY <3>1, <3>2, <3>3 DEF Judged, Earned
  <2>6. \A i \in DOMAIN results' : results'[i].why # "threw" => results'[i].verdict = Earned(i)
    BY <1>3, <2>2, <2>5
  <2>7. Len(results') >= Len(results) /\ Len(results') \in Nat
    BY <1>1, <2>2
  <2>8. QED BY <1>2, <2>3, <2>4, <2>6, <2>7, TrialKept
<1>6. CASE Build
  <2>1. /\ UNCHANGED <<at, results, wire, page, seen>> /\ pc = "build" /\ pc' = "drive"
    BY <1>6 DEF Build, tool
  <2>2. /\ at \in DOMAIN slate' /\ slate'[at] = [Untouched EXCEPT !.canary = at]
        /\ \A n \in DOMAIN slate' \ {at} : n \in DOMAIN slate /\ slate'[n] = slate[n]
        /\ DOMAIN slate \subseteq DOMAIN slate'
    BY <1>6 DEF Build, Nonce
  <2>3. slate'[at].canary = at /\ slate'[at].fetched = FALSE /\ slate'[at].posts = <<>>
        /\ Untouched.fetched = FALSE /\ Untouched.posts = <<>>
    BY <2>2 DEF Untouched
  <2>4. at = Len(results) + 1
    BY <2>1 DEF WalkOK
  <2>5. /\ ~Built(at) /\ Built(at)'
        /\ \A i \in Levels : i # at => (Built(i)' <=> Built(i))
    BY <1>1, <2>1 DEF Built
  <2>6. seen.did[at] = Untouched
    BY <1>1, <1>2, <2>5 DEF TrialOK
  <2>7. ASSUME NEW i \in Levels, Built(i)', i > Len(results')
        PROVE  /\ i \in DOMAIN slate' /\ slate'[i].canary = i
               /\ slate'[i].fetched = seen'.did[i].fetched /\ slate'[i].posts = seen'.did[i].posts
    <3>1. i = at
      BY <1>1, <2>1, <2>4, <2>7 DEF Built
    <3>2. QED BY <2>1, <2>2, <2>3, <2>6, <3>1
  <2>8. ASSUME NEW i \in Levels, ~Built(i)'
        PROVE  seen'.did[i] = Untouched /\ ~page'[i].live /\ \A r \in wire' : r.from # i
    <3>1. ~Built(i)
      BY <2>5, <2>8
    <3>2. QED BY <1>2, <2>1, <3>1 DEF TrialOK
  <2>9. NoNonce \in DOMAIN slate' => slate'[NoNonce].canary = 0
    BY <1>1, <1>2, <2>2, Numbers DEF TrialOK
  <2>10. \A i \in DOMAIN results' : results'[i].why # "threw" => results'[i].verdict = Earned(i)'
    BY <1>3, <2>1 DEF Earned
  <2>11. \A r \in wire' : r.kind # "report" => r.to \in {r.from, NoNonce}
    BY <1>2, <2>1 DEF TrialOK
  <2>12. QED BY <2>7, <2>8, <2>9, <2>10, <2>11 DEF TrialOK
<1>7. CASE AnySend
  <2>1. PICK i \in Levels, r \in Requests : Sends(i, r)
    BY <1>7 DEF AnySend
  <2>2. /\ UNCHANGED <<slate, results, at, pc, seen>> /\ wire' = wire \cup {r} /\ r.from = i /\ page[i].live
        /\ \A j \in Levels : page'[j].live = page[j].live
        /\ r.kind # "report" => r.to \in {i, NoNonce}
    BY <2>1 DEF Sends
  <2>3. Built(i)
    BY <1>2, <2>2 DEF TrialOK
  <2>4. \A j \in Levels : Built(j)' <=> Built(j)
    BY <2>2 DEF Built
  <2>5. /\ Len(results') >= Len(results) /\ Len(results') \in Nat
        /\ \A j \in DOMAIN results' : results'[j].why # "threw" => results'[j].verdict = Earned(j)
    BY <1>1, <1>3, <2>2
  <2>6. QED BY <1>2, <2>2, <2>3, <2>4, <2>5, TrialKept
<1>8. CASE Tick
  <2>1. UNCHANGED <<slate, results, at, pc, seen, wire, page>>
    BY <1>8 DEF Tick, tool, range
  <2>2. \A i \in Levels : Built(i)' <=> Built(i)
    BY <2>1 DEF Built
  <2>3. /\ Len(results') >= Len(results) /\ Len(results') \in Nat
        /\ \A i \in DOMAIN results' : results'[i].why # "threw" => results'[i].verdict = Earned(i)
    BY <1>1, <1>3, <2>1
  <2>4. QED BY <1>2, <2>1, <2>2, <2>3, TrialKept
<1>9. CASE AnyServe
  <2>1. PICK r \in wire : Serves(r) /\ (Hears(r) \/ Marks(r))
    BY <1>9 DEF AnyServe
  <2>2. UNCHANGED <<at, pc, results, page>> /\ wire' \subseteq wire
    BY <2>1 DEF Serves
  <2>3. Marks(r)
    BY <1>2, <2>1 DEF Hears, TypeOK, Armable
  <2>4. \A i \in Levels : Built(i)' <=> Built(i)
    BY <2>2 DEF Built
  <2>5. r.from \in Levels /\ Built(r.from)
    <3>1. r.from \in Levels
      BY DEF TypeOK, Requests
    <3>2. QED BY <1>2, <3>1 DEF TrialOK
  <2>6. ASSUME NEW i \in Levels, i # r.from \/ i <= Len(results) PROVE seen'.did[i] = seen.did[i]
    BY <2>3, <2>6 DEF Marks
  <2>7. ASSUME NEW i \in Levels, Built(i)', i > Len(results')
        PROVE  /\ i \in DOMAIN slate' /\ slate'[i].canary = i
               /\ slate'[i].fetched = seen'.did[i].fetched /\ slate'[i].posts = seen'.did[i].posts
    <3>1. /\ i \in DOMAIN slate /\ slate[i].canary = i /\ i > Len(results)
          /\ slate[i].fetched = seen.did[i].fetched /\ slate[i].posts = seen.did[i].posts
      BY <1>2, <2>2, <2>4, <2>7 DEF TrialOK
    <3>2. i \in DOMAIN slate' /\ slate'[i].canary = i
      BY <2>3, <3>1 DEF Marks
    <3>3. slate'[i].fetched = seen'.did[i].fetched /\ slate'[i].posts = seen'.did[i].posts
      <4>1. r.kind = "report" \/ r.to \in {r.from, NoNonce}
        BY <1>2 DEF TrialOK
      <4>2. CASE i = r.from /\ r.to \in {i, NoNonce}
        <5>1. slate[i].canary # 0 /\ (NoNonce \in DOMAIN slate => slate[NoNonce].canary = 0)
          BY <1>1, <1>2, <3>1, Numbers DEF TrialOK
        <5>2. \/ slate'[i] = slate[i] /\ seen'.did[i] = seen.did[i]
              \/ /\ slate'[i].fetched = TRUE /\ seen'.did[i].fetched = TRUE
                 /\ slate'[i].posts = slate[i].posts /\ seen'.did[i].posts = seen.did[i].posts
              \/ /\ slate'[i].fetched = slate[i].fetched /\ seen'.did[i].fetched = seen.did[i].fetched
                 /\ \E body \in Places : /\ slate'[i].posts = Append(slate[i].posts, body)
                                         /\ seen'.did[i].posts = Append(seen.did[i].posts, body)
          BY <2>3, <3>1, <4>2, <5>1 DEF Marks
        <5>3. QED BY <3>1, <5>2
      <4>3. CASE i # r.from /\ r.to # i
        BY <2>3, <2>6, <3>1, <4>3 DEF Marks
      <4>4. CASE r.kind = "report"
        <5>1. UNCHANGED <<slate, seen>>
          BY <2>3, <4>4 DEF Marks
        <5>2. QED BY <3>1, <5>1
      <4>5. QED BY <1>1, <2>5, <4>1, <4>2, <4>3, <4>4, Numbers
    <3>4. QED BY <3>2, <3>3
  <2>8. ASSUME NEW i \in Levels, ~Built(i)'
        PROVE  seen'.did[i] = Untouched /\ ~page'[i].live /\ \A q \in wire' : q.from # i
    <3>1. ~Built(i)
      BY <2>4, <2>8
    <3>2. i # r.from
      BY <2>5, <3>1
    <3>3. QED BY <1>2, <2>2, <2>6, <3>1, <3>2 DEF TrialOK
  <2>9. NoNonce \in DOMAIN slate' => slate'[NoNonce].canary = 0
    BY <1>2, <2>3 DEF TrialOK, Marks
  <2>10. \A i \in DOMAIN results' : results'[i].why # "threw" => results'[i].verdict = Earned(i)'
    <3>1. ASSUME NEW i \in DOMAIN results PROVE seen'.did[i] = seen.did[i]
      <4>1. i \in Levels /\ i <= Len(results)
        BY <1>1, TowerAssumption DEF TypeOK, WalkOK, Levels, TowerAssumption
      <4>2. QED BY <2>6, <4>1
    <3>2. QED BY <1>3, <2>2, <3>1 DEF Earned
  <2>11. \A q \in wire' : q.kind # "report" => q.to \in {q.from, NoNonce}
    BY <1>2, <2>2 DEF TrialOK
  <2>12. QED BY <2>7, <2>8, <2>9, <2>10, <2>11 DEF TrialOK
<1>10. QED BY <1>4, <1>5, <1>6, <1>7, <1>8, <1>9, Classes
-----------------------------------------------------------------------------
(***************************************************************************)
(* What is left running, and the row of a score.                           *)
(***************************************************************************)
LEMMA OpenInit == Init => OpenOK
BY DEF Init, OpenOK

Pushed == drive' = Idle /\ pc' \in {"build", "drive", "over"}

LEMMA AnyPushed == ASSUME NEW v, NEW w, Push(v, w) PROVE Pushed
BY DEF Push, Pushed

LEMMA OpenStep ==
    ASSUME TypeOK, OpenOK, Next
    PROVE  OpenOK'
<1>1. drive \in Drives /\ seen \in Histories /\ open \in SUBSET Levels
  BY DEF TypeOK
<1>2. CASE Runner
  <2>1. open' = open /\ seen' = seen /\ pc # "drive"
    BY <1>2 DEF Runner, Build, GradeReport, ReportArrives, WaitEnds, GradeTrial
  <2>2. open \ seen.unclosed = {}
    BY <2>1 DEF OpenOK
  <2>3. QED BY <2>1, <2>2 DEF OpenOK
<1>3. CASE Create \/ Spawn
  <2>1. open' = open \cup {at} /\ seen' = seen /\ drive.stage = "create" /\ pc = "drive" /\ UNCHANGED <<pc, at>>
        /\ drive'.stage # "create"
    BY <1>1, <1>3 DEF Create, Spawn, Feather, Shim, Drives
  <2>2. open \ seen.unclosed = {}
    BY <2>1 DEF OpenOK
  <2>3. QED BY <2>1, <2>2 DEF OpenOK
<1>4. CASE CreateFails \/ SpawnFails
  <2>1. open' = open /\ seen' = seen /\ drive.stage = "create"
    BY <1>4 DEF CreateFails, SpawnFails, Feather, Shim
  <2>2. open \ seen.unclosed = {}
    BY <2>1 DEF OpenOK
  <2>3. QED BY <2>1, <2>2 DEF OpenOK
<1>5. CASE Navigate \/ CallFails \/ Turn \/ Moves \/ Reads \/ Probes \/ Shoots
  <2>1. UNCHANGED <<open, seen, pc, at>> /\ pc = "drive" /\ drive.stage # "create"
    BY <1>5 DEF Navigate, CallFails, Turn, Moves, Reads, Probes, Shoots, Feather
  <2>2. drive'.stage # "create"
    <3>1. CASE Turn
      BY <1>1, <2>1, <3>1 DEF Turn, Drives
    <3>2. CASE ~Turn
      BY <1>1, <1>5, <3>2 DEF Navigate, CallFails, Throws, Moves, Reads, Probes, Shoots, Drives
    <3>3. QED BY <3>1, <3>2
  <2>3. QED BY <2>1, <2>2 DEF OpenOK
<1>6. CASE Close \/ ChildExits \/ TimerFires
  <2>1. open' = open \ {at} /\ UNCHANGED seen
    BY <1>6 DEF Close, ChildExits, TimerFires
  <2>2. open' \ seen'.unclosed = {}
    BY <2>1 DEF OpenOK
  <2>3. QED BY <2>2 DEF OpenOK
<1>7. CASE CloseFails
  <2>1. open' = open /\ seen'.unclosed = seen.unclosed \cup {at}
    BY <1>1, <1>7 DEF CloseFails, Histories
  <2>2. open' \ seen'.unclosed = {}
    BY <2>1 DEF OpenOK
  <2>3. QED BY <2>2 DEF OpenOK
<1>8. CASE (\E i \in Levels : Send(i)) \/ Serve
  <2>1. UNCHANGED <<open, pc, at, drive>>
    BY <1>8 DEF Send, SendsReport, SendsStray, OpensProfile, Replies, Posted, Serve
  <2>2. seen'.unclosed = seen.unclosed
    <3>1. CASE \E i \in Levels : Send(i)
      BY <3>1 DEF Send, SendsReport, SendsStray, OpensProfile, Replies, Posted
    <3>2. CASE Serve
      <4>1. PICK r \in wire : Serves(r) /\ (Hears(r) \/ Marks(r))
        BY <3>2, ServeSteps
      <4>2. QED BY <1>1, <4>1 DEF Hears, Marks, Histories
    <3>3. QED BY <1>8, <3>1, <3>2
  <2>3. QED BY <2>1, <2>2 DEF OpenOK
<1>9. CASE Tick
  <2>1. UNCHANGED <<open, pc, at, seen>> /\ drive'.stage = drive.stage
    BY <1>1, <1>9 DEF Tick, Drives
  <2>2. QED BY <2>1 DEF OpenOK
<1>10. QED BY <1>2, <1>3, <1>4, <1>5, <1>6, <1>7, <1>8, <1>9 DEF Next, Drive

LEMMA RowInit == Init => RowOK
BY DEF Init, RowOK

LEMMA RowStep ==
    ASSUME TypeOK, RowOK, Next
    PROVE  RowOK'
<1>1. drive \in Drives /\ row \in Rows
  BY DEF TypeOK
<1>2. CASE Reads \/ Probes
  <2>1. pc' = "drive" /\ (drive'.stage = "shoot" \/ (row' = row /\ drive.stage = "read"))
    BY <1>1, <1>2 DEF Reads, Probes, Feather, Drives
  <2>2. QED BY <2>1 DEF RowOK
<1>3. CASE Shoots
  <2>1. row'.written = TRUE
    BY <1>1, <1>3 DEF Shoots, Rows
  <2>2. QED BY <2>1 DEF RowOK
<1>4. CASE (\E i \in Levels : Send(i)) \/ Serve
  <2>1. UNCHANGED <<row, pc, drive>>
    BY <1>4 DEF Send, SendsReport, SendsStray, OpensProfile, Replies, Posted, Serve
  <2>2. QED BY <2>1 DEF RowOK
<1>5. CASE Tick
  <2>1. UNCHANGED <<row, pc>> /\ drive'.stage = drive.stage
    BY <1>1, <1>5 DEF Tick, Drives
  <2>2. QED BY <2>1 DEF RowOK
<1>6. CASE \/ Runner \/ Create \/ CreateFails \/ Navigate \/ CallFails \/ Turn \/ Close \/ CloseFails
           \/ Moves \/ Spawn \/ SpawnFails \/ TimerFires \/ ChildExits
  <2>1. row' = row
    BY <1>6
       DEF Runner, Build, GradeReport, ReportArrives, WaitEnds, GradeTrial, Create, CreateFails, Navigate,
           CallFails, Turn, Close, CloseFails, Moves, Spawn, SpawnFails, TimerFires, ChildExits
  <2>2. ~(pc = "drive" /\ drive.stage = "shoot")
    BY <1>6
       DEF Runner, Build, GradeReport, ReportArrives, WaitEnds, GradeTrial, Create, CreateFails, Navigate,
           CallFails, Turn, Close, CloseFails, Moves, Spawn, SpawnFails, TimerFires, ChildExits, Feather, Shim
  <2>3. QED BY <2>1, <2>2 DEF RowOK
<1>7. QED BY <1>2, <1>3, <1>4, <1>5, <1>6 DEF Next, Drive
-----------------------------------------------------------------------------
LEMMA Inductive == Spec => []TowerInv
<1>1. Init => TowerInv
  BY TypeInit, WalkInit, HeardInit, GradedInit, TrialInit, OpenInit, RowInit DEF TowerInv
<1>2. TowerInv /\ [Next]_vars => TowerInv'
  <2>1. ASSUME TowerInv, Next PROVE TowerInv'
    BY <2>1, TypeStep, WalkStep, HeardStep, GradedStep, TrialStep, OpenStep, RowStep DEF TowerInv
  <2>2. ASSUME TowerInv, UNCHANGED vars PROVE TowerInv'
    <3>1. TypeOK' /\ WalkOK' /\ OpenOK' /\ RowOK'
      BY <2>2 DEF vars, range, tool, TowerInv, TypeOK, WalkOK, OpenOK, RowOK, Armable
    <3>2. HeardOK' /\ GradedOK'
      BY <2>2 DEF vars, range, tool, TowerInv, HeardOK, GradedOK
    <3>3. TrialOK'
      BY <2>2 DEF vars, range, tool, TowerInv, TrialOK, Built, Earned
    <3>4. QED BY <3>1, <3>2, <3>3 DEF TowerInv
  <2>3. QED BY <2>1, <2>2
<1>3. QED BY <1>1, <1>2, PTL DEF Spec

(* Clock, runner, drive, sink, slates, results, requests and pages keep their *)
(* types, for any runner and adapter.                                         *)
THEOREM TowerTyping == Spec => []TypeOK
<1>1. TowerInv => TypeOK
  BY DEF TowerInv
<1>2. QED BY <1>1, Inductive, PTL

(* sink-registry.ts: a nonce's report counts once and in time, and a level is *)
(* graded by its own page's report, or was silent up to the deadline's tick.  *)
THEOREM ReportsCountOnce == Spec => []ReportCountsOnce
<1>1. TowerInv => ReportCountsOnce
  <2> SUFFICES ASSUME TowerInv PROVE ReportCountsOnce
    OBVIOUS
  <2>1. \A i, j \in DOMAIN seen.heard :
           /\ seen.heard[i].nonce = seen.heard[j].nonce => i = j
           /\ seen.heard[i].time <= Timeout
    BY DEF TowerInv, HeardOK
  <2>2. ASSUME plan.runner = "tower", NEW i \in DOMAIN results
        PROVE  LET heard == {j \in DOMAIN seen.heard : seen.heard[j].nonce = Nonce(i)}
               IN CASE results[i].why = "graded"  ->
                          heard # {} /\ results[i].verdict = page[i].report
                    [] results[i].why = "silence" ->
                          \A j \in heard : seen.heard[j].time = Timeout
                    [] OTHER -> TRUE
    <3>1. i \in DOMAIN sink
      <4>1. DOMAIN sink = 1..K /\ at \in 1..K /\ K \in Nat
        BY <2>2, Numbers DEF TowerInv, TypeOK, Armable, Levels
      <4>2. results \in Seq(Results) /\ Len(results) <= at
        BY <4>1 DEF TowerInv, TypeOK, WalkOK
      <4>3. DOMAIN results = 1..Len(results) /\ Len(results) \in Nat
        BY <4>2
      <4>4. QED BY <4>1, <4>2, <4>3
    <3>2. ASSUME results[i].why = "graded"
          PROVE  (\E j \in DOMAIN seen.heard : seen.heard[j].nonce = i) /\ results[i].verdict = page[i].report
      <4>1. sink[i].status = "consumed" /\ sink[i].report = results[i].verdict
        BY <2>2, <3>2 DEF TowerInv, GradedOK
      <4>2. QED BY <3>1, <4>1 DEF TowerInv, HeardOK
    <3>3. results[i].why = "silence" => \A j \in DOMAIN seen.heard : seen.heard[j].nonce = i => seen.heard[j].time = Timeout
      BY <2>2 DEF TowerInv, GradedOK
    <3>4. QED BY <3>2, <3>3 DEF Nonce
  <2>3. QED BY <2>1, <2>2 DEF ReportCountsOnce
<1>2. QED BY <1>1, Inductive, PTL

(* thread-store.ts, trials.ts: a trial is judged on what its own drive did   *)
(* before the grade, and the run's "ok" is no trial's mere failure to run.   *)
THEOREM VerdictsAreEarned == Spec => []VerdictIsEarned
<1>1. TowerInv => VerdictIsEarned
  <2> SUFFICES ASSUME TowerInv, plan.runner = "trials" PROVE VerdictIsEarned
    BY DEF VerdictIsEarned
  <2>1. \A i \in DOMAIN results : results[i].why # "threw" => results[i].verdict = Earned(i)
    BY DEF TowerInv, TrialOK
  <2>2. ASSUME Collapse(results) = "ok"
        PROVE  /\ \E i \in DOMAIN results : results[i].why = "graded"
               /\ \A i \in DOMAIN results : results[i].verdict \in {"ok", "error"}
    <3> DEFINE usable == {i \in DOMAIN results : results[i].verdict # "error"}
               among(v) == \E i \in usable : results[i].verdict = v
    <3>1. \A i \in DOMAIN results : results[i].verdict \in Verdicts
      <4>1. results \in Seq(Results)
        BY DEF TowerInv, TypeOK
      <4>2. \A i \in DOMAIN results : results[i] \in Results
        BY <4>1
      <4>3. QED BY <4>2 DEF Results
    <3>2. Collapse(results) =
             CASE usable = {} -> "error"
               [] among("blocked") -> "blocked"
               [] ~among("blocked") /\ among("gated") -> "gated"
               [] usable # {} /\ \A i \in usable : results[i].verdict = "ok" -> "ok"
      BY DEF Collapse
    <3>3. usable # {}
      <4>1. ASSUME usable = {} PROVE FALSE
        <5>1. ~among("blocked") /\ ~among("gated")
          BY <4>1
        <5> HIDE DEF usable, among
        <5>2. QED BY <2>2, <3>2, <4>1, <5>1
      <4>2. QED BY <4>1
    <3>4. ~among("blocked")
      <4>1. ASSUME among("blocked") PROVE FALSE
        <5>1. ~ \A i \in usable : results[i].verdict = "ok"
          BY <4>1
        <5> HIDE DEF usable, among
        <5>2. QED BY <2>2, <3>2, <3>3, <4>1, <5>1
      <4>2. QED BY <4>1
    <3>5. ~among("gated")
      <4>1. ASSUME among("gated") PROVE FALSE
        <5>1. ~ \A i \in usable : results[i].verdict = "ok"
          BY <4>1
        <5> HIDE DEF usable, among
        <5>2. QED BY <2>2, <3>2, <3>3, <3>4, <4>1, <5>1
      <4>2. QED BY <4>1
    <3>6. \A i \in usable : results[i].why = "graded"
      BY DEF TowerInv, WalkOK
    <3>7. QED BY <3>1, <3>3, <3>4, <3>5, <3>6 DEF Verdicts, Reports
  <2>3. QED BY <2>1, <2>2 DEF VerdictIsEarned, Earned
<1>2. QED BY <1>1, Inductive, PTL

(* adapters/feather.ts, adapters/browser-use.ts, behavioral.ts: whatever     *)
(* throws, a drive leaves nothing running but a session whose close failed,  *)
(* and a score that was reached is written.                                  *)
THEOREM NothingIsLeftRunning == Spec => []NothingLeftRunning
<1>1. TowerInv => NothingLeftRunning
  BY DEF TowerInv, OpenOK, RowOK, NothingLeftRunning
<1>2. QED BY <1>1, Inductive, PTL
=============================================================================
