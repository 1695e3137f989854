---------------------- MODULE CapabilityGrants_proofs ----------------------
(***************************************************************************)
(* Proofs about the capability gate, for any number of sessions, grants    *)
(* and clock ticks, with failing audit lines and direct registry calls.    *)
(***************************************************************************)
EXTENDS CapabilityGrants, TLAPS

(* A cut is a grant of the operation, or the number after the last grant. *)
LEMMA CutsAreNumbers ==
    ASSUME NEW G, G \subseteq Ids, NEW cut \in Cuts(G)
    PROVE  cut \in Nat /\ (\A g \in Ids : g < Nowhere)
BY GrantAssumption DEF GrantAssumption, Ids, Nowhere, Cuts

(* What a committed change does to one grant: nothing, or the new status, with
   its audit line or (where the line failed) without.  An uncut change is done
   to every grant it names. *)
LEMMA CommitChanges ==
    ASSUME TypeOK, NEW change, NEW cut \in Cuts(DOMAIN change),
           DOMAIN change \subseteq Ids,
           \A x \in DOMAIN change : change[x] \in Statuses,
           Commit(change, cut)
    PROVE  /\ status' \in [Ids -> Statuses]
           /\ trail' \in [Ids -> Seq(Statuses)]
           /\ \A g \in Ids :
                \/ status'[g] = status[g] /\ trail'[g] = trail[g]
                \/ /\ g \in DOMAIN change
                   /\ status'[g] = change[g]
                   /\ trail'[g] \in {trail[g], Append(trail[g], change[g])}
           /\ cut = Nowhere => \A g \in DOMAIN change :
                /\ status'[g] = change[g]
                /\ trail'[g] = Append(trail[g], change[g])
<1>1. status' \in [Ids -> Statuses]
  BY DEF Commit, TypeOK
<1>2. \A g \in Ids : trail[g] \in Seq(Statuses)
  BY DEF TypeOK
<1>3. \A g \in Ids : trail'[g] \in Seq(Statuses)
  <2> SUFFICES ASSUME NEW g \in Ids PROVE trail'[g] \in Seq(Statuses)
    OBVIOUS
  <2>1. CASE g \in DOMAIN change
    <3>1. Append(trail[g], change[g]) \in Seq(Statuses)
      BY <1>2, <2>1
    <3>2. QED BY <1>2, <3>1 DEF Commit
  <2>2. CASE g \notin DOMAIN change
    BY <1>2, <2>2 DEF Commit
  <2>3. QED BY <2>1, <2>2
<1>4. trail' \in [Ids -> Seq(Statuses)]
  BY <1>3 DEF Commit
<1>5. cut \in Nat /\ (\A g \in Ids : g < Nowhere /\ g \in Int)
  BY CutsAreNumbers DEF Ids
<1>6. ASSUME NEW g \in Ids
      PROVE  /\ \/ status'[g] = status[g] /\ trail'[g] = trail[g]
                \/ /\ g \in DOMAIN change
                   /\ status'[g] = change[g]
                   /\ trail'[g] \in {trail[g], Append(trail[g], change[g])}
             /\ cut = Nowhere /\ g \in DOMAIN change =>
                   status'[g] = change[g] /\ trail'[g] = Append(trail[g], change[g])
  <2>1. status'[g] = IF g \in DOMAIN change /\ g <= cut THEN change[g] ELSE status[g]
    BY DEF Commit
  <2>2. trail'[g] = IF g \in DOMAIN change /\ g < cut
                    THEN Append(trail[g], change[g]) ELSE trail[g]
    BY DEF Commit
  <2>3. (g < cut => g <= cut) /\ (cut = Nowhere => g < cut)
    BY <1>5
  <2>4. QED BY <2>1, <2>2, <2>3
<1>7. QED BY <1>1, <1>4, <1>6

(* An appended audit line is there, and so are the earlier ones. *)
LEMMA AppendKeeps ==
    ASSUME NEW S, NEW seq \in Seq(S), NEW e \in S
    PROVE  /\ \A i \in DOMAIN seq : i \in DOMAIN Append(seq, e) /\ Append(seq, e)[i] = seq[i]
           /\ \E i \in DOMAIN Append(seq, e) : Append(seq, e)[i] = e
<1>1. Len(seq) + 1 \in DOMAIN Append(seq, e) /\ Append(seq, e)[Len(seq) + 1] = e
  OBVIOUS
<1>2. QED BY <1>1

(* A counter of grants stays one when it goes up. *)
LEMMA CountUp ==
    ASSUME NEW f \in [Ids -> Nat], NEW g \in Ids
    PROVE  [f EXCEPT ![g] = f[g] + 1] \in [Ids -> Nat]
<1>1. f[g] + 1 \in Nat
  OBVIOUS
<1>2. QED BY <1>1

(* Every variable of the gate keeps its type. *)
THEOREM GrantTyping == Spec => []TypeOK
<1> USE GrantAssumption DEF GrantAssumption, Ids
<1>1. Init => TypeOK
  BY DEF Init, TypeOK, NoScope, Statuses, Terminal
<1>2. TypeOK /\ [Next]_vars => TypeOK'
  <2> SUFFICES ASSUME TypeOK, [Next]_vars
               PROVE  TypeOK'
    OBVIOUS
  <2>1. ASSUME NEW s \in Sessions, NEW c \in Capabilities, NEW ttl \in TTLs,
               RequestGrant(s, c, ttl)
        PROVE  TypeOK'
    <3>1. count + 1 \in Ids /\ count' \in 0..MaxGrants
      BY <2>1 DEF RequestGrant, TypeOK
    <3>2. PICK cut \in Cuts({count + 1}) :
                     /\ Commit(Becomes(count + 1, "requested"), cut)
                     /\ tokens' = IF cut = Nowhere THEN tokens \cup {count + 1} ELSE tokens
      BY <2>1 DEF RequestGrant
    <3>3. status' \in [Ids -> Statuses] /\ trail' \in [Ids -> Seq(Statuses)]
      BY <3>1, <3>2, CommitChanges DEF Becomes, Statuses
    <3>4. tokens' \subseteq Ids
      BY <3>1, <3>2 DEF TypeOK
    <3>5. scope' \in [Ids -> [session : Sessions \cup {None},
                             capability : Capabilities \cup {None}, ttl : TTLs \cup {0}]]
      <4>1. [session |-> s, capability |-> c, ttl |-> ttl]
              \in [session : Sessions \cup {None}, capability : Capabilities \cup {None},
                   ttl : TTLs \cup {0}]
        OBVIOUS
      <4>2. scope' = [scope EXCEPT ![count + 1] = [session |-> s, capability |-> c, ttl |-> ttl]]
        BY <2>1 DEF RequestGrant
      <4>3. QED BY <4>1, <4>2 DEF TypeOK
    <3>6. UNCHANGED <<grantedAt, byNonce, opened, usedAt, session, clock>>
      BY <2>1 DEF RequestGrant
    <3>7. QED BY <3>1, <3>3, <3>4, <3>5, <3>6 DEF TypeOK
  <2>2. ASSUME NEW g \in Ids, Approve(g) \/ Deny(g)
        PROVE  TypeOK'
    <3>1. PICK new \in {"granted", "denied"}, cut \in Cuts({g}) : Commit(Becomes(g, new), cut)
      BY <2>2 DEF Approve, Deny
    <3>2. status' \in [Ids -> Statuses] /\ trail' \in [Ids -> Seq(Statuses)]
      BY <3>1, CommitChanges DEF Becomes, Statuses, Terminal
    <3>3. tokens' \subseteq Ids
      BY <2>2 DEF Approve, Deny, TypeOK
    <3>4. byNonce' \subseteq Ids
      BY <2>2 DEF Approve, Deny, TypeOK
    <3>5. grantedAt' \in [Ids -> Nat]
      <4>1. grantedAt' = [grantedAt EXCEPT ![g] = clock] \/ grantedAt' = grantedAt
        BY <2>2 DEF Approve, Deny
      <4>2. QED BY <4>1 DEF TypeOK
    <3>6. UNCHANGED <<count, scope, opened, usedAt, session, clock>>
      BY <2>2 DEF Approve, Deny
    <3>7. QED BY <3>2, <3>3, <3>4, <3>5, <3>6 DEF TypeOK
  <2>3. ASSUME NEW g \in Ids, AnswerTooLate(g) \/ Look(g)
        PROVE  TypeOK'
    <3>1. Overdue(g) \/ DOMAIN Touch(g) = {}
      BY DEF Touch
    <3>2. PICK cut \in Cuts(DOMAIN Touch(g)) : Commit(Touch(g), cut) /\ tokens' \subseteq tokens
      <4>1. CASE AnswerTooLate(g)
        BY <4>1 DEF AnswerTooLate
      <4>2. CASE Look(g)
        <5>1. DOMAIN Touch(g) = {g}
          BY <4>2 DEF Look, Touch
        <5>2. QED BY <4>2, <5>1 DEF Look
      <4>3. QED BY <2>3, <4>1, <4>2
    <3>3. status' \in [Ids -> Statuses] /\ trail' \in [Ids -> Seq(Statuses)]
      BY <3>2, CommitChanges DEF Touch, Statuses, Terminal
    <3>4. UNCHANGED <<count, scope, grantedAt, byNonce, opened, usedAt, session, clock>>
      BY <2>3 DEF AnswerTooLate, Look
    <3>5. QED BY <3>2, <3>3, <3>4 DEF TypeOK
  <2>4. ASSUME NEW s \in Sessions, NEW c \in Capabilities, OpenDoor(s, c)
        PROVE  TypeOK'
    <3> DEFINE Spends(g) ==
             [x \in Passed(s, c) \cup {g} |-> IF x = g THEN "used" ELSE "expired"]
    <3>1. PICK g \in Redeemable(s, c) : \E cut \in Cuts(DOMAIN Spends(g)) :
             /\ Commit(Spends(g), cut)
             /\ tokens' \subseteq tokens
             /\ byNonce' \subseteq byNonce
             /\ \/ opened' = [opened EXCEPT ![g] = @ + 1] /\ usedAt' = [usedAt EXCEPT ![g] = clock]
                \/ UNCHANGED <<opened, usedAt>>
      BY <2>4, Zenon DEF OpenDoor
    <3>2. Matching(s, c) \subseteq Ids
      BY DEF Matching, GrantsOf, TypeOK
    <3>3. g \in Ids /\ DOMAIN Spends(g) \subseteq Ids
      BY <3>1, <3>2 DEF Redeemable, Passed
    <3>4. status' \in [Ids -> Statuses] /\ trail' \in [Ids -> Seq(Statuses)]
      <4>1. \A x \in DOMAIN Spends(g) : Spends(g)[x] \in Statuses
        BY DEF Statuses, Terminal
      <4> HIDE DEF Spends
      <4>2. QED BY <3>1, <3>3, <4>1, CommitChanges
    <3>5. opened' \in [Ids -> Nat]
      <4>1. opened' = [opened EXCEPT ![g] = opened[g] + 1] \/ opened' = opened
        BY <3>1
      <4>2. opened \in [Ids -> Nat]
        BY DEF TypeOK
      <4> HIDE DEF Ids
      <4>3. QED BY <3>3, <4>1, <4>2, CountUp
    <3>6. usedAt' \in [Ids -> Nat]
      BY <3>1, <3>3 DEF TypeOK
    <3>7. UNCHANGED <<count, scope, grantedAt, session, clock>>
      BY <2>4 DEF OpenDoor
    <3>8. QED BY <3>1, <3>4, <3>5, <3>6, <3>7 DEF TypeOK
  <2>5. ASSUME NEW s \in Sessions, NEW c \in Capabilities, RefuseDoor(s, c)
        PROVE  TypeOK'
    <3>1. PICK change, cut :
             /\ cut \in Cuts(DOMAIN change)
             /\ change = [x \in Passed(s, c) |-> "expired"]
             /\ Commit(change, cut)
             /\ tokens' \subseteq tokens
      BY <2>5 DEF RefuseDoor
    <3>2. Passed(s, c) \subseteq Ids
      BY DEF Passed, Matching, GrantsOf, TypeOK
    <3>3. status' \in [Ids -> Statuses] /\ trail' \in [Ids -> Seq(Statuses)]
      BY <3>1, <3>2, CommitChanges DEF Statuses, Terminal
    <3>4. UNCHANGED <<count, scope, grantedAt, byNonce, opened, usedAt, session, clock>>
      BY <2>5 DEF RefuseDoor
    <3>5. QED BY <3>1, <3>3, <3>4 DEF TypeOK
  <2>6. ASSUME NEW g \in Ids, RevokeById(g)
        PROVE  TypeOK'
    <3>1. PICK cut \in Cuts({g}) : Commit(Becomes(g, "revoked"), cut) /\ tokens' \subseteq tokens
      BY <2>6 DEF RevokeById
    <3>2. status' \in [Ids -> Statuses] /\ trail' \in [Ids -> Seq(Statuses)]
      BY <3>1, CommitChanges DEF Becomes, Statuses, Terminal
    <3>3. UNCHANGED <<count, scope, grantedAt, byNonce, opened, usedAt, session, clock>>
      BY <2>6 DEF RevokeById
    <3>4. QED BY <3>1, <3>2, <3>3 DEF TypeOK
  <2>7. ASSUME NEW g \in Ids, RedeemNonce(g)
        PROVE  TypeOK'
    <3> DEFINE change == IF status[g] = "granted" /\ ~Overdue(g) THEN Becomes(g, "used")
                                                               ELSE Touch(g)
    <3>1. \E cut \in Cuts(DOMAIN change) :
             /\ Commit(change, cut)
             /\ tokens' \subseteq tokens
             /\ \/ opened' = [opened EXCEPT ![g] = @ + 1] /\ usedAt' = [usedAt EXCEPT ![g] = clock]
                \/ UNCHANGED <<opened, usedAt>>
      BY <2>7 DEF RedeemNonce
    <3>2. status' \in [Ids -> Statuses] /\ trail' \in [Ids -> Seq(Statuses)]
      <4>1. DOMAIN change \subseteq Ids /\ \A x \in DOMAIN change : change[x] \in Statuses
        BY DEF Becomes, Touch, Statuses, Terminal
      <4> HIDE DEF change
      <4>2. QED BY <3>1, <4>1, CommitChanges
    <3>3. opened' \in [Ids -> Nat]
      <4>1. opened' = [opened EXCEPT ![g] = opened[g] + 1] \/ opened' = opened
        BY <2>7 DEF RedeemNonce
      <4>2. opened \in [Ids -> Nat]
        BY DEF TypeOK
      <4> HIDE DEF Ids
      <4>3. QED BY <4>1, <4>2, CountUp
    <3>4. usedAt' \in [Ids -> Nat]
      BY <3>1 DEF TypeOK
    <3>5. byNonce' \subseteq Ids /\ UNCHANGED <<count, scope, grantedAt, session, clock>>
      BY <2>7 DEF RedeemNonce, TypeOK
    <3>6. QED BY <3>1, <3>2, <3>3, <3>4, <3>5 DEF TypeOK
  <2>8. ASSUME NEW s \in Sessions, DeleteBegin(s) \/ CloseThrows(s) \/ CloseDone(s)
        PROVE  TypeOK'
    BY <2>8 DEF DeleteBegin, CloseThrows, CloseDone, SessionGoes, TypeOK
  <2>9. ASSUME NEW s \in Sessions, RevokeSession(s)
        PROVE  TypeOK'
    <3>1. PICK change, cut :
             /\ cut \in Cuts(DOMAIN change)
             /\ DOMAIN change \subseteq GrantsOf(s)
             /\ \A x \in DOMAIN change : change[x] \in {"expired", "revoked"}
             /\ Commit(change, cut)
             /\ tokens' \subseteq tokens
      BY <2>9 DEF RevokeSession
    <3>2. GrantsOf(s) \subseteq Ids
      BY DEF GrantsOf, TypeOK
    <3>3. status' \in [Ids -> Statuses] /\ trail' \in [Ids -> Seq(Statuses)]
      BY <3>1, <3>2, CommitChanges DEF Statuses, Terminal
    <3>4. session' \in [Sessions -> {"open", "closing", "closed", "revoked", "broken"}]
      BY <2>9 DEF RevokeSession, TypeOK
    <3>5. UNCHANGED <<count, scope, grantedAt, byNonce, opened, usedAt, clock>>
      BY <2>9 DEF RevokeSession
    <3>6. QED BY <3>1, <3>3, <3>4, <3>5 DEF TypeOK
  <2>10. CASE Tick
    <3>1. clock' \in Nat
      BY <2>10 DEF Tick, TypeOK
    <3>2. UNCHANGED <<count, scope, status, grantedAt, byNonce, tokens, trail, opened,
                      usedAt, session>>
      BY <2>10 DEF Tick
    <3>3. QED BY <3>1, <3>2 DEF TypeOK
  <2>11. CASE UNCHANGED vars
    BY <2>11 DEF vars, TypeOK
  <2>12. QED
    BY <2>1, <2>2, <2>3, <2>4, <2>5, <2>6, <2>7, <2>8, <2>9, <2>10, <2>11 DEF Next
<1>3. QED BY <1>1, <1>2, PTL DEF Spec

(***************************************************************************)
(* What the door did.  DoorOpensOnce, UsedWithinTtl and OpenDoorIsAudited  *)
(* are not inductive: a second opening needs the nonce, and an approval,   *)
(* the only step that gives a nonce, needs a requested grant.  So a grant  *)
(* the door opened on is Spent: it has no nonce and is not requested, and  *)
(* since only a fresh number becomes requested it never will be again.     *)
(***************************************************************************)
Spent(g) ==
    /\ opened[g] = 1
    /\ g \notin byNonce
    /\ status[g] \notin {"none", "requested"}
    /\ usedAt[g] >= grantedAt[g]
    /\ usedAt[g] - grantedAt[g] <= scope[g].ttl
    /\ \E i \in DOMAIN trail[g] : trail[g][i] = "used"

UseInv ==
    \A g \in Ids :
        /\ status[g] = "none" <=> count < g
        /\ grantedAt[g] <= clock
        /\ opened[g] > 0 => Spent(g)

(* The times of a grant are natural numbers. *)
LEMMA NaturalTimes ==
    ASSUME TypeOK, NEW g \in Ids
    PROVE  scope[g].ttl \in Nat /\ clock \in Nat /\ grantedAt[g] \in Nat
<1>1. scope[g] \in [session : Sessions \cup {None}, capability : Capabilities \cup {None},
                   ttl : TTLs \cup {0}]
  BY DEF TypeOK
<1>2. scope[g].ttl \in Nat
  BY <1>1, GrantAssumption DEF GrantAssumption
<1>3. QED BY <1>2 DEF TypeOK

(* A spent grant stays spent when nothing but its status and trail change. *)
LEMMA SpentStays ==
    ASSUME TypeOK, NEW g \in Ids, Spent(g), NEW e \in Statuses,
           opened'[g] = opened[g], usedAt'[g] = usedAt[g], grantedAt'[g] = grantedAt[g],
           scope'[g] = scope[g], g \notin byNonce',
           \/ status'[g] = status[g] /\ trail'[g] = trail[g]
           \/ /\ status'[g] \notin {"none", "requested"}
              /\ trail'[g] \in {trail[g], Append(trail[g], e)}
    PROVE  Spent(g)'
<1>1. status'[g] \notin {"none", "requested"}
  BY DEF Spent
<1>2. \E i \in DOMAIN trail'[g] : trail'[g][i] = "used"
  <2>1. trail[g] \in Seq(Statuses) /\ \E i \in DOMAIN trail[g] : trail[g][i] = "used"
    BY DEF TypeOK, Spent
  <2>2. CASE trail'[g] = trail[g]
    BY <2>1, <2>2
  <2>3. CASE trail'[g] = Append(trail[g], e)
    BY <2>1, <2>3, AppendKeeps
  <2>4. QED BY <2>2, <2>3
<1>3. QED BY <1>1, <1>2 DEF Spent

(* Every operation that neither creates, approves nor opens keeps UseInv. *)
LEMMA QuietStep ==
    ASSUME TypeOK, UseInv, clock' \in Nat, clock <= clock',
           UNCHANGED <<count, scope, grantedAt, byNonce, opened, usedAt>>,
           NEW change,
           \A x \in Ids : x \in DOMAIN change =>
                status[x] # "none" /\ change[x] \in Statuses \ {"none", "requested"},
           \A x \in Ids :
              \/ status'[x] = status[x] /\ trail'[x] = trail[x]
              \/ /\ x \in DOMAIN change
                 /\ status'[x] = change[x]
                 /\ trail'[x] \in {trail[x], Append(trail[x], change[x])}
    PROVE  UseInv'
<1> SUFFICES ASSUME NEW g \in Ids
             PROVE  /\ status'[g] = "none" <=> count' < g
                    /\ grantedAt'[g] <= clock'
                    /\ opened'[g] > 0 => Spent(g)'
  BY DEF UseInv
<1>1. status'[g] = "none" <=> count' < g
  BY DEF UseInv
<1>2. grantedAt'[g] <= clock'
  <2>1. grantedAt[g] <= clock /\ grantedAt[g] \in Nat /\ clock \in Nat
    BY DEF UseInv, TypeOK
  <2>2. QED BY <2>1
<1>3. ASSUME opened'[g] > 0 PROVE Spent(g)'
  <2>1. Spent(g)
    BY <1>3 DEF UseInv
  <2>2. CASE status'[g] = status[g] /\ trail'[g] = trail[g]
    <3>1. g \notin byNonce'
      BY <2>1 DEF Spent
    <3>2. "used" \in Statuses
      BY DEF Statuses, Terminal
    <3>3. QED BY <2>1, <2>2, <3>1, <3>2, SpentStays
  <2>3. CASE /\ g \in DOMAIN change
             /\ status'[g] = change[g]
             /\ trail'[g] \in {trail[g], Append(trail[g], change[g])}
    <3>1. g \notin byNonce'
      BY <2>1 DEF Spent
    <3>2. QED BY <2>1, <2>3, <3>1, SpentStays
  <2>4. QED BY <2>2, <2>3
<1>4. QED BY <1>1, <1>2, <1>3

(* The steps that open, approve or create, and all the others, keep UseInv. *)
LEMMA UseInvStep == TypeOK /\ UseInv /\ [Next]_vars => UseInv'
<1> SUFFICES ASSUME TypeOK, UseInv, [Next]_vars
             PROVE  UseInv'
  OBVIOUS
<1> USE GrantAssumption DEF GrantAssumption
<1>1. ASSUME NEW s \in Sessions, NEW c \in Capabilities, NEW ttl \in TTLs,
             RequestGrant(s, c, ttl)
      PROVE  UseInv'
  <2> DEFINE new == count + 1
  <2>1. new \in Ids /\ count \in Nat /\ count' = new
    BY <1>1 DEF RequestGrant, TypeOK, Ids
  <2>2. PICK cut \in Cuts({new}) : Commit(Becomes(new, "requested"), cut)
    BY <1>1 DEF RequestGrant
  <2>3. /\ UNCHANGED <<grantedAt, byNonce, opened, usedAt, session, clock>>
        /\ \A x \in Ids : x # new => scope'[x] = scope[x]
    BY <1>1 DEF RequestGrant, TypeOK
  <2>4. \A x \in Ids : x # new => status'[x] = status[x] /\ trail'[x] = trail[x]
    <3> HIDE DEF new
    <3>1. QED BY <2>1, <2>2, CommitChanges DEF Becomes, Statuses
  <2>5. status'[new] = "requested"
    <3>1. new <= cut /\ new \in DOMAIN Becomes(new, "requested")
      BY <2>1, <2>2 DEF Cuts, Nowhere, Ids, Becomes
    <3>2. QED BY <2>1, <2>2, <3>1 DEF Commit, Becomes
  <2>6. opened'[new] = 0
    <3>1. status[new] = "none" /\ opened[new] \in Nat
      BY <2>1 DEF UseInv, TypeOK, Ids
    <3>2. ~(opened[new] > 0)
      BY <2>1, <3>1 DEF UseInv, Spent
    <3>3. QED BY <2>3, <3>1, <3>2
  <2>7. ASSUME NEW g \in Ids
        PROVE  /\ status'[g] = "none" <=> count' < g
               /\ grantedAt'[g] <= clock'
               /\ opened'[g] > 0 => Spent(g)'
    <3>1. CASE g = new
      <4>1. grantedAt[g] <= clock
        BY DEF UseInv
      <4>2. ~(count' < g) /\ status'[g] # "none" /\ ~(opened'[g] > 0)
        BY <2>1, <2>5, <2>6, <3>1
      <4>3. QED BY <2>3, <4>1, <4>2
    <3>2. CASE g # new
      <4>1. count < g <=> count' < g
        BY <2>1, <3>2 DEF Ids
      <4>2. opened[g] > 0 => Spent(g)'
        BY <2>3, <2>4, <3>2 DEF UseInv, Spent
      <4>3. QED BY <2>3, <2>4, <3>2, <4>1, <4>2 DEF UseInv
    <3>3. QED BY <3>1, <3>2
  <2>8. QED BY <2>7 DEF UseInv
<1>2. ASSUME NEW a \in Ids, Approve(a)
      PROVE  UseInv'
  <2>1. PICK cut \in Cuts({a}) : Commit(Becomes(a, "granted"), cut)
    BY <1>2 DEF Approve
  <2>2. \A x \in Ids : x # a => status'[x] = status[x] /\ trail'[x] = trail[x]
    BY <2>1, CommitChanges DEF Becomes, Statuses
  <2>3. status[a] = "requested" /\ status'[a] # "none"
    BY <1>2, <2>1, CommitChanges DEF Approve, Becomes, Statuses
  <2>4. /\ UNCHANGED <<count, scope, opened, usedAt, session, clock>>
        /\ \A x \in Ids : x # a => grantedAt'[x] = grantedAt[x]
        /\ grantedAt'[a] = clock
        /\ \A x \in Ids : x # a => (x \in byNonce <=> x \in byNonce')
    BY <1>2 DEF Approve, TypeOK
  <2>5. ASSUME NEW g \in Ids
        PROVE  /\ status'[g] = "none" <=> count' < g
               /\ grantedAt'[g] <= clock'
               /\ opened'[g] > 0 => Spent(g)'
    <3>1. CASE g = a
      <4>1. ~(opened[g] > 0) /\ ~(count < g)
        BY <2>3, <3>1 DEF UseInv, Spent
      <4>2. grantedAt'[g] <= clock'
        BY <2>4, <3>1 DEF TypeOK
      <4>3. QED BY <2>3, <2>4, <3>1, <4>1, <4>2
    <3>2. CASE g # a
      <4>1. opened[g] > 0 => Spent(g)'
        BY <2>2, <2>4, <3>2 DEF UseInv, Spent
      <4>2. QED BY <2>2, <2>4, <3>2, <4>1 DEF UseInv
    <3>3. QED BY <3>1, <3>2
  <2>6. QED BY <2>5 DEF UseInv
<1>3. ASSUME NEW a \in Ids, Deny(a)
      PROVE  UseInv'
  <2>1. PICK cut \in Cuts({a}) : Commit(Becomes(a, "denied"), cut)
    BY <1>3 DEF Deny
  <2>2. status[a] = "requested"
    BY <1>3 DEF Deny
  <2>3. UNCHANGED <<count, scope, grantedAt, byNonce, opened, usedAt, session, clock>>
    BY <1>3 DEF Deny
  <2>4. clock' \in Nat /\ clock <= clock'
    BY <2>3 DEF TypeOK
  <2> DEFINE change == Becomes(a, "denied")
  <2>5. /\ DOMAIN change = {a}
        /\ change[a] = "denied"
    BY DEF Becomes
  <2> HIDE DEF change
  <2>6. QED
    BY <2>1, <2>2, <2>3, <2>4, <2>5, CommitChanges, QuietStep DEF Statuses, Terminal, change
<1>4. ASSUME NEW a \in Ids, AnswerTooLate(a) \/ Look(a)
      PROVE  UseInv'
  <2> DEFINE change == Touch(a)
  <2>1. DOMAIN change \subseteq {a} /\ \A x \in DOMAIN change : change[x] = "expired"
    BY DEF Touch
  <2>2. \A x \in DOMAIN change : status[x] # "none"
    BY DEF Touch, Overdue
  <2>3. \E cut \in Cuts(DOMAIN change) : Commit(change, cut)
    <3>1. CASE AnswerTooLate(a)
      BY <3>1 DEF AnswerTooLate
    <3>2. CASE Look(a)
      <4>1. DOMAIN change = {a}
        BY <3>2 DEF Look, Touch
      <4>2. QED BY <3>2, <4>1 DEF Look
    <3>3. QED BY <1>4, <3>1, <3>2
  <2>4. UNCHANGED <<count, scope, grantedAt, byNonce, opened, usedAt, session, clock>>
    BY <1>4 DEF AnswerTooLate, Look
  <2>5. clock' \in Nat /\ clock <= clock'
    BY <2>4 DEF TypeOK
  <2> HIDE DEF change
  <2>6. QED
    BY <2>1, <2>2, <2>3, <2>4, <2>5, CommitChanges, QuietStep DEF Statuses, Terminal
<1>5. ASSUME NEW s \in Sessions, NEW c \in Capabilities, OpenDoor(s, c)
      PROVE  UseInv'
  <2> DEFINE Spends(g) ==
           [x \in Passed(s, c) \cup {g} |-> IF x = g THEN "used" ELSE "expired"]
  <2>1. PICK a \in Redeemable(s, c), cut \in Nat \cup {Nowhere} :
           /\ cut \in Cuts(DOMAIN Spends(a))
           /\ Commit(Spends(a), cut)
           /\ byNonce' = IF a <= cut THEN byNonce \ {a} ELSE byNonce
           /\ IF cut = Nowhere
              THEN /\ opened' = [opened EXCEPT ![a] = @ + 1]
                   /\ usedAt' = [usedAt EXCEPT ![a] = clock]
              ELSE UNCHANGED <<opened, usedAt>>
    <3>1. PICK a \in Redeemable(s, c) : \E cut \in Cuts(DOMAIN Spends(a)) :
             /\ Commit(Spends(a), cut)
             /\ byNonce' = IF a <= cut THEN byNonce \ {a} ELSE byNonce
             /\ IF cut = Nowhere
                THEN /\ opened' = [opened EXCEPT ![a] = @ + 1]
                     /\ usedAt' = [usedAt EXCEPT ![a] = clock]
                ELSE UNCHANGED <<opened, usedAt>>
      BY <1>5, Zenon DEF OpenDoor
    <3>2. Passed(s, c) \cup {a} \subseteq Nat
      BY DEF Redeemable, Passed, Matching, GrantsOf, TypeOK
    <3>3. Cuts(DOMAIN Spends(a)) \subseteq Nat \cup {Nowhere}
      BY <3>2 DEF Cuts
    <3> HIDE DEF Spends
    <3>4. QED BY <3>1, <3>3
  <2>2. Matching(s, c) \subseteq Ids /\ (\A x \in Matching(s, c) : x <= count)
    BY DEF Matching, GrantsOf, TypeOK, Ids
  <2>3. /\ a \in Ids
        /\ status[a] = "granted"
        /\ a \in byNonce
        /\ clock - grantedAt[a] <= scope[a].ttl
    <3>1. a \in Ids /\ status[a] = "granted" /\ a \in byNonce /\ ~Overdue(a)
      BY <2>2 DEF Redeemable
    <3>2. scope[a].ttl \in Nat /\ clock \in Nat /\ grantedAt[a] \in Nat
      BY <3>1, NaturalTimes
    <3>3. QED BY <3>1, <3>2 DEF Overdue
  <2>4. /\ DOMAIN Spends(a) \subseteq Ids
        /\ a \in DOMAIN Spends(a)
        /\ Spends(a)[a] = "used"
        /\ \A x \in DOMAIN Spends(a) :
              status[x] = "granted" /\ Spends(a)[x] \in {"used", "expired"}
    BY <2>2, <2>3 DEF Passed, Overdue
  <2> HIDE DEF Spends
  <2>5. \A x \in DOMAIN Spends(a) : Spends(a)[x] \in Statuses
    BY <2>4 DEF Statuses, Terminal
  <2>6. /\ \A x \in Ids :
              \/ status'[x] = status[x] /\ trail'[x] = trail[x]
              \/ /\ x \in DOMAIN Spends(a)
                 /\ status'[x] = Spends(a)[x]
                 /\ trail'[x] \in {trail[x], Append(trail[x], Spends(a)[x])}
        /\ cut = Nowhere =>
              status'[a] = "used" /\ trail'[a] = Append(trail[a], "used")
    BY <2>1, <2>4, <2>5, CommitChanges
  <2>7. UNCHANGED <<count, scope, grantedAt, session, clock>>
    BY <1>5 DEF OpenDoor
  <2>8. ASSUME NEW g \in Ids
        PROVE  /\ status'[g] = "none" <=> count' < g
               /\ grantedAt'[g] <= clock'
               /\ opened'[g] > 0 => Spent(g)'
    <3>1. status'[g] = "none" <=> count' < g
      BY <2>4, <2>6, <2>7 DEF UseInv
    <3>2. grantedAt'[g] <= clock'
      BY <2>7 DEF UseInv
    <3>3. ASSUME opened'[g] > 0 PROVE Spent(g)'
      <4>1. CASE g = a /\ cut = Nowhere
        <5>1. opened[a] = 0
          <6>1. ~Spent(a) /\ opened[a] \in Nat
            BY <2>3 DEF Spent, TypeOK
          <6>2. QED BY <2>3, <6>1 DEF UseInv
        <5>2. opened'[a] = 1 /\ usedAt'[a] = clock
          BY <2>1, <2>3, <4>1, <5>1 DEF TypeOK
        <5>3. a \notin byNonce'
          <6>1. a <= Nowhere
            BY <2>3 DEF Nowhere, Ids
          <6>2. QED BY <2>1, <4>1, <6>1
        <5>4. \E i \in DOMAIN trail'[a] : trail'[a][i] = "used"
          BY <2>3, <2>6, <4>1, AppendKeeps DEF TypeOK, Statuses, Terminal
        <5>5. clock >= grantedAt[a]
          BY <2>3 DEF UseInv, TypeOK
        <5>6. QED BY <2>3, <2>6, <2>7, <4>1, <5>2, <5>3, <5>4, <5>5 DEF Spent
      <4>2. CASE ~(g = a /\ cut = Nowhere)
        <5>1. opened'[g] = opened[g] /\ usedAt'[g] = usedAt[g]
          BY <2>1, <4>2 DEF TypeOK
        <5>2. Spent(g)
          BY <3>3, <5>1 DEF UseInv
        <5>3. g \notin byNonce'
          BY <2>1, <5>2 DEF Spent
        <5>4. PICK e \in Statuses :
                \/ status'[g] = status[g] /\ trail'[g] = trail[g]
                \/ /\ status'[g] \notin {"none", "requested"}
                   /\ trail'[g] \in {trail[g], Append(trail[g], e)}
          <6>1. CASE status'[g] = status[g] /\ trail'[g] = trail[g]
            BY <6>1 DEF Statuses
          <6>2. CASE ~(status'[g] = status[g] /\ trail'[g] = trail[g])
            BY <2>4, <2>5, <2>6, <6>2
          <6>3. QED BY <6>1, <6>2
        <5>5. QED BY <2>7, <5>1, <5>2, <5>3, <5>4, SpentStays
      <4>3. QED BY <4>1, <4>2
    <3>4. QED BY <3>1, <3>2, <3>3
  <2>9. QED BY <2>8 DEF UseInv
<1>6. ASSUME NEW s \in Sessions, NEW c \in Capabilities, RefuseDoor(s, c)
      PROVE  UseInv'
  <2> DEFINE change == [x \in Passed(s, c) |-> "expired"]
  <2>1. \E cut \in Cuts(DOMAIN change) : Commit(change, cut)
    BY <1>6 DEF RefuseDoor
  <2>2. DOMAIN change \subseteq Ids /\ (\A x \in DOMAIN change : change[x] = "expired")
    BY DEF Passed, Matching, GrantsOf, TypeOK, Ids
  <2>3. \A x \in DOMAIN change : status[x] # "none"
    BY DEF Passed, Overdue
  <2>4. UNCHANGED <<count, scope, grantedAt, byNonce, opened, usedAt, session, clock>>
    BY <1>6 DEF RefuseDoor
  <2>5. clock' \in Nat /\ clock <= clock'
    BY <2>4 DEF TypeOK
  <2> HIDE DEF change
  <2>6. QED
    BY <2>1, <2>2, <2>3, <2>4, <2>5, CommitChanges, QuietStep DEF Statuses, Terminal
<1>7. ASSUME NEW a \in Ids, RevokeById(a)
      PROVE  UseInv'
  <2> DEFINE change == Becomes(a, "revoked")
  <2>1. DOMAIN change = {a} /\ change[a] = "revoked"
    BY DEF Becomes
  <2>2. \E cut \in Cuts(DOMAIN change) : Commit(change, cut)
    BY <1>7, <2>1 DEF RevokeById
  <2>3. status[a] # "none"
    BY <1>7 DEF RevokeById, UseInv, TypeOK
  <2>4. UNCHANGED <<count, scope, grantedAt, byNonce, opened, usedAt, session, clock>>
    BY <1>7 DEF RevokeById
  <2>5. clock' \in Nat /\ clock <= clock'
    BY <2>4 DEF TypeOK
  <2> HIDE DEF change
  <2>6. QED
    BY <2>1, <2>2, <2>3, <2>4, <2>5, CommitChanges, QuietStep DEF Statuses, Terminal
<1>8. ASSUME NEW a \in Ids, RedeemNonce(a)
      PROVE  UseInv'
  <2> DEFINE spent == status[a] = "granted" /\ ~Overdue(a)
             change == IF spent THEN Becomes(a, "used") ELSE Touch(a)
  <2>1. /\ DOMAIN change \subseteq {a}
        /\ \A x \in DOMAIN change :
              status[x] = "granted" /\ change[x] \in {"used", "expired"}
        /\ spent => a \in DOMAIN change /\ change[a] = "used"
    BY DEF Becomes, Touch, Overdue
  <2>2. PICK cut \in Cuts(DOMAIN change) :
           /\ Commit(change, cut)
           /\ IF spent /\ cut = Nowhere
              THEN /\ opened' = [opened EXCEPT ![a] = @ + 1]
                   /\ usedAt' = [usedAt EXCEPT ![a] = clock]
              ELSE UNCHANGED <<opened, usedAt>>
    BY <1>8 DEF RedeemNonce
  <2>3. /\ a \in byNonce
        /\ byNonce' = byNonce \ {a}
        /\ UNCHANGED <<count, scope, grantedAt, session, clock>>
    BY <1>8 DEF RedeemNonce
  <2>4. spent => clock - grantedAt[a] <= scope[a].ttl
    <3>1. scope[a].ttl \in Nat /\ clock \in Nat /\ grantedAt[a] \in Nat
      BY NaturalTimes
    <3>2. QED BY <3>1 DEF Overdue
  <2>5. \A x \in DOMAIN change : change[x] \in Statuses
    BY <2>1 DEF Statuses, Terminal
  <2> HIDE DEF change
  <2>6. /\ \A x \in Ids :
              \/ status'[x] = status[x] /\ trail'[x] = trail[x]
              \/ /\ x \in DOMAIN change
                 /\ status'[x] = change[x]
                 /\ trail'[x] \in {trail[x], Append(trail[x], change[x])}
        /\ spent /\ cut = Nowhere =>
              status'[a] = "used" /\ trail'[a] = Append(trail[a], "used")
    BY <2>1, <2>2, <2>5, CommitChanges
  <2> HIDE DEF spent
  <2>7. ASSUME NEW g \in Ids
        PROVE  /\ status'[g] = "none" <=> count' < g
               /\ grantedAt'[g] <= clock'
               /\ opened'[g] > 0 => Spent(g)'
    <3>1. status'[g] = "none" <=> count' < g
      BY <2>1, <2>3, <2>6 DEF UseInv
    <3>2. grantedAt'[g] <= clock'
      BY <2>3 DEF UseInv
    <3>3. ASSUME opened'[g] > 0 PROVE Spent(g)'
      <4>1. CASE g = a /\ spent /\ cut = Nowhere
        <5>1. opened[a] = 0
          <6>1. ~Spent(a) /\ opened[a] \in Nat
            BY <2>3 DEF Spent, TypeOK
          <6>2. QED BY <6>1 DEF UseInv
        <5>2. opened'[a] = 1 /\ usedAt'[a] = clock
          BY <2>2, <4>1, <5>1 DEF TypeOK
        <5>3. \E i \in DOMAIN trail'[a] : trail'[a][i] = "used"
          BY <2>6, <4>1, AppendKeeps DEF TypeOK, Statuses, Terminal
        <5>4. clock >= grantedAt[a]
          BY DEF UseInv, TypeOK
        <5>5. QED BY <2>3, <2>4, <2>6, <4>1, <5>2, <5>3, <5>4 DEF Spent
      <4>2. CASE ~(g = a /\ spent /\ cut = Nowhere)
        <5>1. opened'[g] = opened[g] /\ usedAt'[g] = usedAt[g]
          BY <2>2, <4>2 DEF TypeOK
        <5>2. Spent(g)
          BY <3>3, <5>1 DEF UseInv
        <5>3. g \notin byNonce'
          BY <2>3, <5>2 DEF Spent
        <5>4. PICK e \in Statuses :
                \/ status'[g] = status[g] /\ trail'[g] = trail[g]
                \/ /\ status'[g] \notin {"none", "requested"}
                   /\ trail'[g] \in {trail[g], Append(trail[g], e)}
          <6>1. CASE status'[g] = status[g] /\ trail'[g] = trail[g]
            BY <6>1 DEF Statuses
          <6>2. CASE ~(status'[g] = status[g] /\ trail'[g] = trail[g])
            BY <2>1, <2>5, <2>6, <6>2
          <6>3. QED BY <6>1, <6>2
        <5>5. QED BY <2>3, <5>1, <5>2, <5>3, <5>4, SpentStays
      <4>3. QED BY <4>1, <4>2
    <3>4. QED BY <3>1, <3>2, <3>3
  <2>8. QED BY <2>7 DEF UseInv
<1>9. ASSUME NEW s \in Sessions, RevokeSession(s)
      PROVE  UseInv'
  <2> DEFINE live == {g \in GrantsOf(s) : status[g] \in {"requested", "granted"}}
             change == [g \in live |-> IF Overdue(g) THEN "expired" ELSE "revoked"]
  <2>1. \E cut \in Cuts(DOMAIN change) : Commit(change, cut)
    BY <1>9 DEF RevokeSession
  <2>2. /\ DOMAIN change \subseteq Ids
        /\ \A x \in DOMAIN change : status[x] # "none" /\ change[x] \in {"expired", "revoked"}
    <3>1. GrantsOf(s) \subseteq Ids
      BY DEF GrantsOf, TypeOK, Ids
    <3>2. DOMAIN change = live /\ live \subseteq GrantsOf(s)
      OBVIOUS
    <3>3. QED BY <3>1, <3>2
  <2>3. UNCHANGED <<count, scope, grantedAt, byNonce, opened, usedAt, clock>>
    BY <1>9 DEF RevokeSession
  <2>4. clock' \in Nat /\ clock <= clock'
    BY <2>3 DEF TypeOK
  <2> HIDE DEF change
  <2>5. QED
    BY <2>1, <2>2, <2>3, <2>4, CommitChanges, QuietStep DEF Statuses, Terminal
<1>10. ASSUME NEW s \in Sessions, DeleteBegin(s) \/ CloseThrows(s) \/ CloseDone(s)
       PROVE  UseInv'
  BY <1>10 DEF DeleteBegin, CloseThrows, CloseDone, UseInv, Spent
<1>11. CASE Tick
  <2>1. clock' \in Nat /\ clock <= clock'
    BY <1>11 DEF Tick, TypeOK
  <2>2. UNCHANGED <<count, scope, status, grantedAt, byNonce, trail, opened, usedAt>>
    BY <1>11 DEF Tick
  <2>3. \A x \in DOMAIN <<>> : FALSE
    OBVIOUS
  <2>4. QED BY <2>1, <2>2, <2>3, QuietStep
<1>12. CASE UNCHANGED vars
  BY <1>12 DEF vars, UseInv, Spent
<1>13. QED
  BY <1>1, <1>2, <1>3, <1>4, <1>5, <1>6, <1>7, <1>8, <1>9, <1>10, <1>11, <1>12 DEF Next

LEMMA UseInvariant == Spec => []UseInv
<1>1. Init => UseInv
  BY GrantAssumption DEF GrantAssumption, Init, UseInv, Ids
<1>2. QED BY <1>1, UseInvStep, GrantTyping, PTL DEF Spec

(* The door opens at most once on a grant, whatever the order of redemptions,
   revocations, expiries and failing audit lines. *)
THEOREM SingleUse == Spec => []DoorOpensOnce
<1>1. TypeOK /\ UseInv => DoorOpensOnce
  <2> SUFFICES ASSUME TypeOK, UseInv, NEW g \in Ids PROVE opened[g] <= 1
    BY DEF DoorOpensOnce
  <2>1. opened[g] \in Nat /\ (opened[g] > 0 => opened[g] = 1)
    BY DEF TypeOK, UseInv, Spent
  <2>2. QED BY <2>1
<1>2. QED BY <1>1, UseInvariant, GrantTyping, PTL

(* The door opens only after the approval and within its time to live. *)
THEOREM TimelyUse == Spec => []UsedWithinTtl
<1>1. UseInv => UsedWithinTtl
  BY DEF UseInv, Spent, UsedWithinTtl
<1>2. QED BY <1>1, UseInvariant, PTL

(* No door opens without its line in the audit log. *)
THEOREM AuditedUse == Spec => []OpenDoorIsAudited
<1>1. UseInv => OpenDoorIsAudited
  BY DEF UseInv, Spent, OpenDoorIsAudited
<1>2. QED BY <1>1, UseInvariant, PTL

(* Every operation keeps the grants of a closed session terminal, if it neither
   creates grants nor closes sessions and never takes a grant out of a terminal
   status. *)
LEMMA ClosedStep ==
    ASSUME TypeOK, ClosedSessionHasNoUsableGrant, UNCHANGED <<count, scope>>,
           \A s \in Sessions : session'[s] = "revoked" => session[s] = "revoked",
           \A g \in 1..count : scope[g].session \in Sessions,
           \A g \in 1..count : status[g] \in Terminal => status'[g] \in Terminal
    PROVE  ClosedSessionHasNoUsableGrant'
BY DEF ClosedSessionHasNoUsableGrant

(* Requested grants belong to a session. *)
ScopeInv == \A g \in 1..count : scope[g].session \in Sessions

LEMMA ScopeInvariant == Spec => []ScopeInv
<1> USE GrantAssumption DEF GrantAssumption
<1>1. Init => ScopeInv
  BY DEF Init, ScopeInv
<1>2. TypeOK /\ ScopeInv /\ [Next]_vars => ScopeInv'
  <2> SUFFICES ASSUME TypeOK, ScopeInv, [Next]_vars PROVE ScopeInv'
    OBVIOUS
  <2>1. ASSUME NEW s \in Sessions, NEW c \in Capabilities, NEW ttl \in TTLs,
               RequestGrant(s, c, ttl)
        PROVE  ScopeInv'
    <3>1. count + 1 \in Ids /\ count \in Nat /\ count' = count + 1
      BY <2>1 DEF RequestGrant, TypeOK, Ids
    <3>2. /\ scope'[count + 1].session = s
          /\ \A g \in Ids : g # count + 1 => scope'[g] = scope[g]
      BY <2>1, <3>1 DEF RequestGrant, TypeOK
    <3>3. ASSUME NEW g \in 1..count' PROVE scope'[g].session \in Sessions
      <4>1. CASE g = count + 1
        BY <3>2, <4>1
      <4>2. CASE g # count + 1
        <5>1. g \in 1..count /\ g \in Ids
          BY <3>1, <4>2 DEF TypeOK, Ids
        <5>2. QED BY <3>2, <4>2, <5>1 DEF ScopeInv
      <4>3. QED BY <4>1, <4>2
    <3>4. QED BY <3>3 DEF ScopeInv
  <2>2. UNCHANGED <<count, scope>> => ScopeInv'
    BY DEF ScopeInv
  <2>3. QED
    BY <2>1, <2>2 DEF Next, vars, Approve, Deny, AnswerTooLate, Look, RevokeById,
       RedeemNonce, OpenDoor, RefuseDoor, DeleteBegin, CloseThrows, CloseDone,
       RevokeSession, Tick
<1>3. QED BY <1>1, <1>2, GrantTyping, PTL DEF Spec

(* Once a DELETE is answered, none of the session's grants can be approved or
   spent, for any interleaving of requests, approvals and failed closes. *)
THEOREM NothingUsableAfterClose == Spec => []ClosedSessionHasNoUsableGrant
<1> USE GrantAssumption DEF GrantAssumption
<1>1. Init => ClosedSessionHasNoUsableGrant
  BY DEF Init, ClosedSessionHasNoUsableGrant
<1>2. TypeOK /\ UseInv /\ ScopeInv /\ ClosedSessionHasNoUsableGrant /\ [Next]_vars
        => ClosedSessionHasNoUsableGrant'
  <2> SUFFICES ASSUME TypeOK, UseInv, ScopeInv, ClosedSessionHasNoUsableGrant, [Next]_vars
               PROVE  ClosedSessionHasNoUsableGrant'
    OBVIOUS
  <2>0. 1..count \subseteq Ids
    BY DEF TypeOK, Ids
  <2>1. ASSUME NEW s \in Sessions, NEW c \in Capabilities, NEW ttl \in TTLs,
               RequestGrant(s, c, ttl)
        PROVE  ClosedSessionHasNoUsableGrant'
    <3> DEFINE new == count + 1
    <3>1. new \in Ids /\ count \in Nat /\ count' = new
      BY <2>1 DEF RequestGrant, TypeOK, Ids
    <3>2. /\ scope'[new].session = s /\ session[s] # "revoked" /\ session' = session
          /\ \A g \in Ids : g # new => scope'[g] = scope[g]
      BY <2>1, <3>1 DEF RequestGrant, TypeOK, Open
    <3>3. PICK cut \in Cuts({new}) : Commit(Becomes(new, "requested"), cut)
      BY <2>1 DEF RequestGrant
    <3>4. \A g \in Ids : g # new => status'[g] = status[g]
      <4> HIDE DEF new
      <4>1. QED BY <3>1, <3>3, CommitChanges DEF Becomes, Statuses
    <3>5. ASSUME NEW g \in 1..count', session'[scope'[g].session] = "revoked"
          PROVE  status'[g] \in Terminal
      <4>1. g # new
        BY <3>2, <3>5
      <4>2. g \in 1..count /\ g \in Ids
        BY <3>1, <4>1 DEF TypeOK, Ids
      <4>3. QED BY <3>2, <3>4, <3>5, <4>1, <4>2 DEF ClosedSessionHasNoUsableGrant
    <3>6. QED BY <3>5 DEF ClosedSessionHasNoUsableGrant
  <2>2. ASSUME NEW a \in Ids, Approve(a) \/ Deny(a)
        PROVE  ClosedSessionHasNoUsableGrant'
    <3>1. PICK new \in {"granted", "denied"}, cut \in Cuts({a}) : Commit(Becomes(a, new), cut)
      BY <2>2 DEF Approve, Deny
    <3>2. status[a] = "requested" /\ UNCHANGED <<count, scope, session>>
      BY <2>2 DEF Approve, Deny
    <3>3. \A g \in Ids : status[g] \in Terminal => status'[g] \in Terminal
      BY <3>1, <3>2, CommitChanges DEF Becomes, Statuses, Terminal
    <3>4. QED BY <2>0, <3>2, <3>3, ClosedStep DEF ScopeInv
  <2>3. ASSUME NEW a \in Ids, AnswerTooLate(a) \/ Look(a)
        PROVE  ClosedSessionHasNoUsableGrant'
    <3>1. \E cut \in Cuts(DOMAIN Touch(a)) : Commit(Touch(a), cut)
      <4>1. CASE AnswerTooLate(a)
        BY <4>1 DEF AnswerTooLate
      <4>2. CASE Look(a)
        <5>1. DOMAIN Touch(a) = {a}
          BY <4>2 DEF Look, Touch
        <5>2. QED BY <4>2, <5>1 DEF Look
      <4>3. QED BY <2>3, <4>1, <4>2
    <3>2. UNCHANGED <<count, scope, session>>
      BY <2>3 DEF AnswerTooLate, Look
    <3>3. \A g \in Ids : status[g] \in Terminal => status'[g] \in Terminal
      BY <3>1, CommitChanges DEF Touch, Statuses, Terminal
    <3>4. QED BY <2>0, <3>2, <3>3, ClosedStep DEF ScopeInv
  <2>4. ASSUME NEW s \in Sessions, NEW c \in Capabilities, OpenDoor(s, c)
        PROVE  ClosedSessionHasNoUsableGrant'
    <3> DEFINE Spends(g) ==
             [x \in Passed(s, c) \cup {g} |-> IF x = g THEN "used" ELSE "expired"]
    <3>1. PICK a \in Redeemable(s, c) : \E cut \in Cuts(DOMAIN Spends(a)) : Commit(Spends(a), cut)
      BY <2>4, Zenon DEF OpenDoor
    <3>2. Matching(s, c) \subseteq Ids
      BY <2>0 DEF Matching, GrantsOf
    <3>3. DOMAIN Spends(a) \subseteq Ids
      BY <3>1, <3>2 DEF Redeemable, Passed
    <3>4. \A x \in DOMAIN Spends(a) : Spends(a)[x] \in Terminal /\ Spends(a)[x] \in Statuses
      BY DEF Terminal, Statuses
    <3> HIDE DEF Spends
    <3>5. \A g \in Ids : status[g] \in Terminal => status'[g] \in Terminal
      BY <3>1, <3>3, <3>4, CommitChanges
    <3>6. UNCHANGED <<count, scope, session>>
      BY <2>4 DEF OpenDoor
    <3>7. QED BY <2>0, <3>5, <3>6, ClosedStep DEF ScopeInv
  <2>5. ASSUME NEW s \in Sessions, NEW c \in Capabilities, RefuseDoor(s, c)
        PROVE  ClosedSessionHasNoUsableGrant'
    <3> DEFINE change == [x \in Passed(s, c) |-> "expired"]
    <3>1. \E cut \in Cuts(DOMAIN change) : Commit(change, cut)
      BY <2>5 DEF RefuseDoor
    <3>2. /\ DOMAIN change \subseteq Ids
          /\ \A x \in DOMAIN change : change[x] \in Terminal /\ change[x] \in Statuses
      BY <2>0 DEF Passed, Matching, GrantsOf, Terminal, Statuses
    <3> HIDE DEF change
    <3>3. \A g \in Ids : status[g] \in Terminal => status'[g] \in Terminal
      BY <3>1, <3>2, CommitChanges
    <3>4. UNCHANGED <<count, scope, session>>
      BY <2>5 DEF RefuseDoor
    <3>5. QED BY <2>0, <3>3, <3>4, ClosedStep DEF ScopeInv
  <2>6. ASSUME NEW a \in Ids, RevokeById(a)
        PROVE  ClosedSessionHasNoUsableGrant'
    <3>1. PICK cut \in Cuts({a}) : Commit(Becomes(a, "revoked"), cut)
      BY <2>6 DEF RevokeById
    <3>2. \A g \in Ids : status[g] \in Terminal => status'[g] \in Terminal
      BY <3>1, CommitChanges DEF Becomes, Statuses, Terminal
    <3>3. UNCHANGED <<count, scope, session>>
      BY <2>6 DEF RevokeById
    <3>4. QED BY <2>0, <3>2, <3>3, ClosedStep DEF ScopeInv
  <2>7. ASSUME NEW a \in Ids, RedeemNonce(a)
        PROVE  ClosedSessionHasNoUsableGrant'
    <3> DEFINE change == IF status[a] = "granted" /\ ~Overdue(a) THEN Becomes(a, "used")
                                                                 ELSE Touch(a)
    <3>1. \E cut \in Cuts(DOMAIN change) : Commit(change, cut)
      BY <2>7 DEF RedeemNonce
    <3>2. /\ DOMAIN change \subseteq Ids
          /\ \A x \in DOMAIN change : change[x] \in Terminal /\ change[x] \in Statuses
      BY DEF Becomes, Touch, Terminal, Statuses
    <3> HIDE DEF change
    <3>3. \A g \in Ids : status[g] \in Terminal => status'[g] \in Terminal
      BY <3>1, <3>2, CommitChanges
    <3>4. UNCHANGED <<count, scope, session>>
      BY <2>7 DEF RedeemNonce
    <3>5. QED BY <2>0, <3>3, <3>4, ClosedStep DEF ScopeInv
  <2>8. ASSUME NEW s \in Sessions, DeleteBegin(s) \/ CloseThrows(s) \/ CloseDone(s)
        PROVE  ClosedSessionHasNoUsableGrant'
    <3>1. UNCHANGED <<count, scope, status>>
      BY <2>8 DEF DeleteBegin, CloseThrows, CloseDone
    <3>2. \A t \in Sessions : session'[t] = "revoked" => session[t] = "revoked"
      BY <2>8 DEF DeleteBegin, CloseThrows, CloseDone, SessionGoes, TypeOK
    <3>3. QED BY <3>1, <3>2, ClosedStep DEF ScopeInv
  <2>9. ASSUME NEW s \in Sessions, RevokeSession(s)
        PROVE  ClosedSessionHasNoUsableGrant'
    <3> DEFINE live == {g \in GrantsOf(s) : status[g] \in {"requested", "granted"}}
               change == [g \in live |-> IF Overdue(g) THEN "expired" ELSE "revoked"]
    <3>1. PICK cut \in Cuts(DOMAIN change) :
             /\ Commit(change, cut)
             /\ session' = [session EXCEPT ![s] = IF cut = Nowhere THEN "revoked" ELSE "broken"]
      BY <2>9 DEF RevokeSession
    <3>2. /\ DOMAIN change \subseteq Ids
          /\ \A x \in DOMAIN change : change[x] \in Terminal /\ change[x] \in Statuses
          /\ \A x \in 1..count : scope[x].session = s /\ status[x] \in {"requested", "granted"}
                                 => x \in DOMAIN change
      <4>1. live \subseteq Ids
        BY <2>0 DEF GrantsOf
      <4>2. \A x \in live : change[x] \in {"expired", "revoked"}
        OBVIOUS
      <4>3. \A x \in 1..count : scope[x].session = s /\ status[x] \in {"requested", "granted"}
                                 => x \in live
        BY DEF GrantsOf
      <4>4. DOMAIN change = live
        OBVIOUS
      <4> HIDE DEF live, change
      <4>5. QED BY <4>1, <4>2, <4>3, <4>4 DEF Terminal, Statuses
    <3> HIDE DEF change
    <3>3. /\ \A g \in Ids : status[g] \in Terminal => status'[g] \in Terminal
          /\ cut = Nowhere => \A g \in DOMAIN change : status'[g] \in Terminal
      BY <3>1, <3>2, CommitChanges
    <3>4. UNCHANGED <<count, scope>>
      BY <2>9 DEF RevokeSession
    <3>5. ASSUME NEW g \in 1..count, session'[scope[g].session] = "revoked"
          PROVE  status'[g] \in Terminal
      <4>1. CASE scope[g].session = s
        <5>1. cut = Nowhere
          BY <3>1, <3>5, <4>1 DEF TypeOK
        <5>2. status[g] \in {"requested", "granted"} \cup Terminal
          BY <2>0 DEF UseInv, TypeOK, Statuses
        <5>3. QED BY <2>0, <3>2, <3>3, <4>1, <5>1, <5>2
      <4>2. CASE scope[g].session # s
        <5>1. session[scope[g].session] = "revoked"
          BY <3>1, <3>5, <4>2 DEF TypeOK, ScopeInv
        <5>2. QED BY <2>0, <3>3, <5>1 DEF ClosedSessionHasNoUsableGrant
      <4>3. QED BY <4>1, <4>2
    <3>6. QED BY <3>4, <3>5 DEF ClosedSessionHasNoUsableGrant
  <2>10. CASE Tick
    BY <2>10 DEF Tick, ClosedSessionHasNoUsableGrant
  <2>11. CASE UNCHANGED vars
    BY <2>11 DEF vars, ClosedSessionHasNoUsableGrant
  <2>12. QED
    BY <2>1, <2>2, <2>3, <2>4, <2>5, <2>6, <2>7, <2>8, <2>9, <2>10, <2>11 DEF Next
<1>3. QED BY <1>1, <1>2, GrantTyping, UseInvariant, ScopeInvariant, PTL DEF Spec

(***************************************************************************)
(* The life of one grant.  Every operation, however many grants it changes *)
(* and wherever its audit lines fail, does one of a few things to a grant; *)
(* what the tokens, the nonces and the trail say of it follows from those. *)
(***************************************************************************)
\* The grant's new status is in the trail, or its line could not be written.
Moves(g, new) ==
    /\ status'[g] = new
    /\ trail'[g] \in {trail[g], Append(trail[g], new)}

Keeps(g) == status'[g] = status[g] /\ trail'[g] = trail[g]
SameNonce(g) == g \in byNonce' <=> g \in byNonce

Rests(g) == Keeps(g) /\ SameNonce(g) /\ (g \in tokens' => g \in tokens)
Asked(g) == status[g] = "none" /\ Moves(g, "requested") /\ SameNonce(g)
Granted(g) ==
    status[g] = "requested" /\ Moves(g, "granted") /\ g \notin tokens' /\ g \in byNonce'
\* A token outlives its grant only if the line about a revocation failed.
Ended(g, new) ==
    /\ status[g] \in {"requested", "granted"} /\ Moves(g, new)
    /\ new = "denied" => status[g] = "requested"
    /\ new = "used" => g \notin byNonce'
    /\ new # "used" /\ g \in byNonce' => g \in byNonce
    /\ g \in tokens' => g \in tokens /\ new = "revoked" /\ trail'[g] = trail[g]
\* revoke(id) does it to a grant in any status, over and over.
RevokedAgain(g) ==
    /\ status[g] # "none" /\ Moves(g, "revoked") /\ SameNonce(g)
    /\ g \in tokens' => g \in tokens /\ trail'[g] = trail[g]
\* redeem() of a grant that is no longer good spends its nonce all the same.
NonceSpent(g) == Keeps(g) /\ tokens' = tokens /\ status[g] # "granted" /\ g \notin byNonce'

LifeStep(g) ==
    \/ Rests(g) \/ Asked(g) \/ Granted(g) \/ RevokedAgain(g) \/ NonceSpent(g)
    \/ \E new \in Terminal : Ended(g, new)

\* The lines are behind the status, and in order.
LinesOK(g) ==
    /\ status[g] = "none" => trail[g] = <<>>
    /\ status[g] = "requested" => \A i \in DOMAIN trail[g] : trail[g][i] = "requested"
    /\ status[g] = "granted" => \A i \in DOMAIN trail[g] : trail[g][i] \in {"requested", "granted"}
    /\ \A j \in DOMAIN trail[g] : \A i \in 1..(j - 1) :
          Stage(trail[g][i]) < Stage(trail[g][j]) \/ trail[g][j] = "revoked"

\* A live token is of a requested grant, or of one whose revocation is in no line.
TokenOK(g) ==
    g \in tokens => \/ status[g] = "requested"
                    \/ /\ status[g] = "revoked"
                       /\ \A i \in DOMAIN trail[g] : trail[g][i] # "revoked"

NonceOK(g) ==
    /\ status[g] = "granted" => g \in byNonce
    /\ status[g] \in {"none", "requested", "denied", "used"} => g \notin byNonce

LifeInv == \A g \in Ids : LinesOK(g) /\ TokenOK(g) /\ NonceOK(g)

(* One grant in a committed change: untouched, or changed with its line, or,
   where it is the cut, without. *)
LEMMA CommitOne ==
    ASSUME NEW g \in Ids, NEW change, NEW cut \in Cuts(DOMAIN change), DOMAIN change \subseteq Ids,
           Commit(change, cut)
    PROVE  \/ Keeps(g) /\ (g \notin DOMAIN change \/ ~(g <= cut))
           \/ /\ g \in DOMAIN change /\ g <= cut /\ status'[g] = change[g]
              /\ \/ g < cut /\ trail'[g] = Append(trail[g], change[g])
                 \/ g = cut /\ trail'[g] = trail[g]
<1>1. /\ status'[g] = IF g \in DOMAIN change /\ g <= cut THEN change[g] ELSE status[g]
      /\ trail'[g] = IF g \in DOMAIN change /\ g < cut THEN Append(trail[g], change[g]) ELSE trail[g]
  BY DEF Commit
<1>2. cut \in Nat /\ g \in Nat BY CutsAreNumbers DEF Ids
<1>. QED BY <1>1, <1>2 DEF Keeps

(* An operation on one grant alone changes it, whether or not it is the cut. *)
LEMMA CutReaches ==
    ASSUME NEW g \in Ids, NEW cut \in Cuts({g})
    PROVE  g <= cut
BY GrantAssumption DEF GrantAssumption, Cuts, Nowhere, Ids

(* The grants that a session asked for have numbers. *)
LEMMA GrantsAreNumbers == TypeOK => \A s \in Sessions : GrantsOf(s) \subseteq Ids
BY GrantAssumption DEF GrantAssumption, GrantsOf, TypeOK, Ids

(* The lines of a trail that grew by one. *)
LEMMA AppendedLines ==
    ASSUME NEW g \in Ids, trail[g] \in Seq(Statuses), NEW new \in Statuses,
           trail'[g] \in {trail[g], Append(trail[g], new)}
    PROVE  /\ Len(trail[g]) \in Nat /\ DOMAIN trail[g] = 1..Len(trail[g])
           /\ \A i \in DOMAIN trail'[g] :
                 \/ i \in DOMAIN trail[g] /\ trail'[g][i] = trail[g][i]
                 \/ i = Len(trail[g]) + 1 /\ trail'[g] # trail[g] /\ trail'[g][i] = new
           /\ \A i \in DOMAIN trail[g] : trail'[g][i] = trail[g][i]
<1>1. CASE trail'[g] = trail[g] BY <1>1
<1>2. CASE trail'[g] = Append(trail[g], new)
  <2>1. Len(Append(trail[g], new)) = Len(trail[g]) + 1 OBVIOUS
  <2>2. Append(trail[g], new) # trail[g] BY <2>1
  <2>3. DOMAIN Append(trail[g], new) = 1..(Len(trail[g]) + 1) OBVIOUS
  <2>. QED BY <1>2, <2>2, <2>3
<1>. QED BY <1>1, <1>2

(* A line that says more than all before it, or that tells a revocation, keeps
   the trail in order. *)
LEMMA OrderKept ==
    ASSUME NEW g \in Ids, trail[g] \in Seq(Statuses), NEW new \in Statuses,
           trail'[g] \in {trail[g], Append(trail[g], new)}, LinesOK(g),
           new = "revoked" \/ \A i \in DOMAIN trail[g] : Stage(trail[g][i]) < Stage(new)
    PROVE  \A j \in DOMAIN trail'[g] : \A i \in 1..(j - 1) :
              Stage(trail'[g][i]) < Stage(trail'[g][j]) \/ trail'[g][j] = "revoked"
<1> SUFFICES ASSUME NEW j \in DOMAIN trail'[g], NEW i \in 1..(j - 1)
             PROVE  Stage(trail'[g][i]) < Stage(trail'[g][j]) \/ trail'[g][j] = "revoked"
    OBVIOUS
<1>1. Len(trail[g]) \in Nat /\ DOMAIN trail[g] = 1..Len(trail[g]) BY AppendedLines
<1>2. \/ j \in DOMAIN trail[g] /\ trail'[g][j] = trail[g][j]
      \/ j = Len(trail[g]) + 1 /\ trail'[g][j] = new
  BY AppendedLines
<1>3. i \in DOMAIN trail[g] BY <1>1, <1>2
<1>4. trail'[g][i] = trail[g][i] BY <1>3, AppendedLines
<1>. QED BY <1>2, <1>3, <1>4 DEF LinesOK

(* Whatever a grant goes through, its invariant survives. *)
LEMMA LifeStepKeeps ==
    ASSUME TypeOK, NEW g \in Ids, LinesOK(g), TokenOK(g), NonceOK(g), LifeStep(g),
           g \in tokens' => g \in tokens \/ status'[g] = "requested"
    PROVE  LinesOK(g)' /\ TokenOK(g)' /\ NonceOK(g)'
<1>0. trail[g] \in Seq(Statuses) /\ status[g] \in Statuses BY DEF TypeOK
<1>1. CASE Rests(g) \/ NonceSpent(g)
  BY <1>1 DEF Rests, NonceSpent, Keeps, SameNonce, LinesOK, TokenOK, NonceOK
<1>2. CASE Asked(g)
  <2>1. "requested" \in Statuses BY DEF Statuses
  <2>2. /\ status[g] = "none" /\ status'[g] = "requested" /\ trail[g] = <<>> /\ SameNonce(g)
        /\ trail'[g] \in {trail[g], Append(trail[g], "requested")}
    BY <1>2 DEF Asked, Moves, LinesOK
  <2>3. \A i \in DOMAIN trail'[g] : trail'[g][i] = "requested"
    BY <1>0, <2>1, <2>2, AppendedLines
  <2>4. LinesOK(g)' BY <1>0, <2>1, <2>2, <2>3, OrderKept DEF LinesOK
  <2>. QED BY <2>2, <2>4 DEF TokenOK, NonceOK, SameNonce
<1>3. CASE Granted(g)
  <2>1. "granted" \in Statuses BY DEF Statuses
  <2>2. /\ status[g] = "requested" /\ status'[g] = "granted" /\ g \notin tokens' /\ g \in byNonce'
        /\ trail'[g] \in {trail[g], Append(trail[g], "granted")}
    BY <1>3 DEF Granted, Moves
  <2>3. \A i \in DOMAIN trail[g] : trail[g][i] = "requested" BY <2>2 DEF LinesOK
  <2>4. \A i \in DOMAIN trail'[g] : trail'[g][i] \in {"requested", "granted"}
    BY <1>0, <2>1, <2>2, <2>3, AppendedLines
  <2>5. \A i \in DOMAIN trail[g] : Stage(trail[g][i]) < Stage("granted") BY <2>3 DEF Stage
  <2>6. LinesOK(g)' BY <1>0, <2>1, <2>2, <2>4, <2>5, OrderKept DEF LinesOK
  <2>. QED BY <2>2, <2>6 DEF TokenOK, NonceOK
<1>4. CASE \E new \in Terminal : Ended(g, new)
  <2>1. PICK new \in Terminal : Ended(g, new) BY <1>4
  <2>2. new \in Statuses /\ new \notin {"none", "requested", "granted"} BY DEF Statuses, Terminal
  <2>3. /\ status[g] \in {"requested", "granted"} /\ status'[g] = new
        /\ trail'[g] \in {trail[g], Append(trail[g], new)}
    BY <2>1 DEF Ended, Moves
  <2>4. \A i \in DOMAIN trail[g] : trail[g][i] \in {"requested", "granted"} BY <2>3 DEF LinesOK
  <2>5. \A i \in DOMAIN trail[g] : Stage(trail[g][i]) < Stage(new) BY <2>2, <2>4 DEF Stage
  <2>6. LinesOK(g)' BY <1>0, <2>2, <2>3, <2>5, OrderKept DEF LinesOK
  <2>7. TokenOK(g)' BY <2>1, <2>3, <2>4 DEF Ended, TokenOK
  <2>. QED BY <2>1, <2>2, <2>3, <2>6, <2>7 DEF Ended, NonceOK
<1>5. CASE RevokedAgain(g)
  <2>1. "revoked" \in Statuses BY DEF Statuses, Terminal
  <2>2. /\ status'[g] = "revoked" /\ SameNonce(g)
        /\ trail'[g] \in {trail[g], Append(trail[g], "revoked")}
        /\ g \in tokens' => g \in tokens /\ trail'[g] = trail[g]
    BY <1>5 DEF RevokedAgain, Moves
  <2>3. LinesOK(g)' BY <1>0, <2>1, <2>2, OrderKept DEF LinesOK
  <2>4. TokenOK(g)'
    <3>1. ASSUME g \in tokens' PROVE \A i \in DOMAIN trail[g] : trail[g][i] # "revoked"
      BY <2>2, <3>1 DEF TokenOK, LinesOK
    <3>. QED BY <2>2, <3>1 DEF TokenOK
  <2>. QED BY <2>2, <2>3, <2>4 DEF NonceOK
<1>. QED BY <1>1, <1>2, <1>3, <1>4, <1>5 DEF LifeStep

(* A step that ends grants, expiring or revoking the good ones it names and
   dropping the tokens of those it told. *)
LEMMA EndingStep ==
    ASSUME NEW g \in Ids, NEW change, NEW cut \in Cuts(DOMAIN change), DOMAIN change \subseteq Ids,
           Commit(change, cut), tokens' = tokens \ Dropped(change, cut), SameNonce(g), TokenOK(g),
           g \in DOMAIN change => \/ status[g] = "granted" /\ change[g] \in {"expired", "revoked"}
                                  \/ status[g] = "requested" /\ change[g] = "revoked"
    PROVE  LifeStep(g)
<1>1. CASE Keeps(g) BY <1>1 DEF LifeStep, Rests
<1>2. CASE ~Keeps(g)
  <2>1. /\ g \in DOMAIN change /\ status'[g] = change[g]
        /\ \/ g < cut /\ trail'[g] = Append(trail[g], change[g])
           \/ g = cut /\ trail'[g] = trail[g]
    BY <1>2, CommitOne
  <2>2. change[g] \in Terminal BY <2>1 DEF Terminal
  <2>3. Moves(g, change[g]) BY <2>1 DEF Moves
  <2>4. g \in tokens' => g \in tokens /\ change[g] = "revoked" /\ trail'[g] = trail[g]
    BY <2>1, <2>2 DEF Dropped, TokenOK
  <2>5. Ended(g, change[g]) BY <2>1, <2>3, <2>4 DEF Ended, SameNonce
  <2>. QED BY <2>2, <2>5 DEF LifeStep
<1>. QED BY <1>1, <1>2

(* Every step of the gate is a step in the life of each grant. *)
LEMMA EveryStepIsALifeStep ==
    ASSUME TypeOK, UseInv, LifeInv, [Next]_vars, NEW g \in Ids
    PROVE  LifeStep(g) /\ (g \in tokens' => g \in tokens \/ status'[g] = "requested")
<1>0. TokenOK(g) /\ NonceOK(g) BY DEF LifeInv
<1>1. ASSUME NEW s \in Sessions, NEW c \in Capabilities, NEW ttl \in TTLs, RequestGrant(s, c, ttl)
      PROVE  LifeStep(g) /\ (g \in tokens' => g \in tokens \/ status'[g] = "requested")
  <2> DEFINE new == count + 1
  <2>1. new \in Ids /\ count \in Nat BY <1>1, GrantAssumption DEF RequestGrant, TypeOK, Ids, GrantAssumption
  <2>2. PICK cut \in Cuts({new}) :
           /\ Commit(Becomes(new, "requested"), cut)
           /\ tokens' = IF cut = Nowhere THEN tokens \cup {new} ELSE tokens
    BY <1>1 DEF RequestGrant
  <2>3. SameNonce(g) BY <1>1 DEF RequestGrant, SameNonce
  <2>4. status[new] = "none" BY <2>1 DEF UseInv
  <2>5. DOMAIN Becomes(new, "requested") = {new} /\ Becomes(new, "requested")[new] = "requested"
    BY DEF Becomes
  <2> HIDE DEF new
  <2>6. \/ Keeps(g) /\ (g # new \/ ~(g <= cut))
        \/ /\ g = new /\ status'[g] = "requested"
           /\ trail'[g] \in {trail[g], Append(trail[g], "requested")}
    BY <2>1, <2>2, <2>5, CommitOne
  <2>7. g = new => g <= cut BY <2>1, <2>2, CutReaches
  <2>8. CASE g = new BY <2>3, <2>4, <2>6, <2>7, <2>8 DEF LifeStep, Asked, Moves
  <2>9. CASE g # new BY <2>2, <2>3, <2>6, <2>9 DEF LifeStep, Rests
  <2>. QED BY <2>8, <2>9, <2>6, <2>7
<1>2. ASSUME NEW a \in Ids, NEW new \in {"granted", "denied"}, NEW cut \in Cuts({a}),
             status[a] = "requested", tokens' = tokens \ {a}, Commit(Becomes(a, new), cut),
             new = "granted" => byNonce' = byNonce \cup {a},
             new = "denied" => byNonce' = byNonce
      PROVE  LifeStep(g) /\ (g \in tokens' => g \in tokens)
  <2>1. DOMAIN Becomes(a, new) = {a} /\ Becomes(a, new)[a] = new BY DEF Becomes
  <2>2. \/ Keeps(g) /\ (g # a \/ ~(g <= cut))
        \/ g = a /\ status'[g] = new /\ trail'[g] \in {trail[g], Append(trail[g], new)}
    BY <1>2, <2>1, CommitOne
  <2>3. g = a => g <= cut BY <1>2, CutReaches
  <2>4. CASE g = a /\ new = "granted"
    BY <1>2, <2>2, <2>3, <2>4 DEF LifeStep, Granted, Moves
  <2>5. CASE g = a /\ new = "denied"
    <3>1. Ended(g, "denied") BY <1>2, <2>2, <2>3, <2>5 DEF Ended, Moves
    <3>. QED BY <1>2, <3>1 DEF LifeStep, Terminal
  <2>6. CASE g # a BY <1>2, <2>2, <2>6 DEF LifeStep, Rests, SameNonce
  <2>. QED BY <1>2, <2>4, <2>5, <2>6
<1>3. ASSUME NEW a \in Ids, Approve(a) PROVE LifeStep(g) /\ (g \in tokens' => g \in tokens)
  BY <1>2, <1>3 DEF Approve
<1>4. ASSUME NEW a \in Ids, Deny(a) PROVE LifeStep(g) /\ (g \in tokens' => g \in tokens)
  BY <1>2, <1>4 DEF Deny
<1>5. ASSUME NEW a \in Ids, AnswerTooLate(a) PROVE LifeStep(g) /\ (g \in tokens' => g \in tokens)
  <2>1. status[a] = "revoked" BY <1>5 DEF AnswerTooLate, LifeInv, TokenOK
  <2>2. DOMAIN Touch(a) = {} BY <2>1 DEF Touch, Overdue
  <2>3. PICK cut \in Cuts(DOMAIN Touch(a)) : Commit(Touch(a), cut) /\ tokens' \subseteq tokens
    BY <1>5 DEF AnswerTooLate
  <2>4. Keeps(g) BY <2>2, <2>3, CommitOne
  <2>. QED BY <1>5, <2>3, <2>4 DEF AnswerTooLate, LifeStep, Rests, SameNonce
<1>6. ASSUME NEW a \in Ids, Look(a) PROVE LifeStep(g) /\ (g \in tokens' => g \in tokens)
  <2>1. DOMAIN Touch(a) = {a} /\ Touch(a)[a] = "expired" /\ status[a] = "granted"
    BY <1>6 DEF Look, Touch, Overdue
  <2>2. PICK cut \in Cuts(DOMAIN Touch(a)) :
           Commit(Touch(a), cut) /\ tokens' = tokens \ Dropped(Touch(a), cut)
    BY <1>6, <2>1 DEF Look
  <2>3. SameNonce(g) BY <1>6 DEF Look, SameNonce
  <2>. QED BY <1>0, <2>1, <2>2, <2>3, EndingStep
<1>7. ASSUME NEW s \in Sessions, NEW c \in Capabilities, OpenDoor(s, c)
      PROVE  LifeStep(g) /\ (g \in tokens' => g \in tokens)
  <2> DEFINE Spends(a) ==
           [x \in Passed(s, c) \cup {a} |-> IF x = a THEN "used" ELSE "expired"]
  <2>1. PICK a \in Redeemable(s, c) : \E cut \in Cuts(DOMAIN Spends(a)) :
           /\ Commit(Spends(a), cut)
           /\ tokens' = tokens \ Dropped(Spends(a), cut)
           /\ byNonce' = IF a <= cut THEN byNonce \ {a} ELSE byNonce
    BY <1>7, Zenon DEF OpenDoor
  <2>2. Matching(s, c) \subseteq Ids BY GrantsAreNumbers DEF Matching
  <2>3. /\ DOMAIN Spends(a) \subseteq Ids /\ a \in Ids /\ status[a] = "granted"
        /\ Spends(a)[a] = "used"
        /\ \A x \in DOMAIN Spends(a) :
              status[x] = "granted" /\ (x # a => Spends(a)[x] = "expired")
    BY <2>2 DEF Redeemable, Passed, Overdue
  <2> HIDE DEF Spends
  <2>4. PICK cut \in Cuts(DOMAIN Spends(a)) :
           /\ Commit(Spends(a), cut)
           /\ tokens' = tokens \ Dropped(Spends(a), cut)
           /\ byNonce' = IF a <= cut THEN byNonce \ {a} ELSE byNonce
    BY <2>1
  <2>5. CASE g = a
    <3>1. g \notin tokens' BY <1>0, <2>3, <2>4, <2>5 DEF TokenOK
    <3>2. CASE Keeps(g) /\ ~(a <= cut)
      BY <2>4, <2>5, <3>1, <3>2 DEF LifeStep, Rests, SameNonce
    <3>3. CASE status'[g] = "used" /\ a <= cut /\ trail'[g] \in {trail[g], Append(trail[g], "used")}
      <4>1. Ended(g, "used") BY <2>3, <2>4, <2>5, <3>1, <3>3 DEF Ended, Moves
      <4>. QED BY <3>1, <4>1 DEF LifeStep, Terminal
    <3>4. g \in DOMAIN Spends(a) BY <2>5 DEF Spends
    <3>. QED BY <2>3, <2>4, <2>5, <3>2, <3>3, <3>4, CommitOne
  <2>6. CASE g # a
    <3>1. SameNonce(g) BY <2>4, <2>6 DEF SameNonce
    <3>2. g \in DOMAIN Spends(a) => status[g] = "granted" /\ Spends(a)[g] \in {"expired", "revoked"}
      BY <2>3, <2>6
    <3>. QED BY <1>0, <2>3, <2>4, <3>1, <3>2, EndingStep
  <2>. QED BY <2>5, <2>6
<1>8. ASSUME NEW s \in Sessions, NEW c \in Capabilities, RefuseDoor(s, c)
      PROVE  LifeStep(g) /\ (g \in tokens' => g \in tokens)
  <2> DEFINE change == [x \in Passed(s, c) |-> "expired"]
  <2>1. PICK cut \in Cuts(DOMAIN change) :
           Commit(change, cut) /\ tokens' = tokens \ Dropped(change, cut)
    BY <1>8 DEF RefuseDoor
  <2>2. /\ DOMAIN change \subseteq Ids
        /\ \A x \in DOMAIN change : status[x] = "granted" /\ change[x] = "expired"
    BY GrantsAreNumbers DEF Passed, Matching, Overdue
  <2>3. SameNonce(g) BY <1>8 DEF RefuseDoor, SameNonce
  <2> HIDE DEF change
  <2>. QED BY <1>0, <2>1, <2>2, <2>3, EndingStep
<1>9. ASSUME NEW a \in Ids, RevokeById(a) PROVE LifeStep(g) /\ (g \in tokens' => g \in tokens)
  <2> DEFINE change == Becomes(a, "revoked")
  <2>1. DOMAIN change = {a} /\ change[a] = "revoked" BY DEF Becomes
  <2>2. PICK cut \in Cuts(DOMAIN change) :
           Commit(change, cut) /\ tokens' = tokens \ Dropped(change, cut)
    BY <1>9, <2>1 DEF RevokeById
  <2>3. SameNonce(g) /\ status[a] # "none" BY <1>9 DEF RevokeById, SameNonce, UseInv, TypeOK
  <2> HIDE DEF change
  <2>4. CASE Keeps(g) BY <2>2, <2>3, <2>4 DEF LifeStep, Rests
  <2>5. CASE ~Keeps(g)
    <3>1. /\ g = a /\ status'[g] = "revoked"
          /\ \/ g < cut /\ trail'[g] = Append(trail[g], "revoked")
             \/ g = cut /\ trail'[g] = trail[g]
      BY <2>1, <2>2, <2>5, CommitOne
    <3>2. g \in tokens' => g \in tokens /\ trail'[g] = trail[g]
      BY <2>1, <2>2, <3>1 DEF Dropped, Terminal
    <3>. QED BY <2>2, <2>3, <3>1, <3>2 DEF LifeStep, RevokedAgain, Moves
  <2>. QED BY <2>2, <2>4, <2>5
<1>10. ASSUME NEW a \in Ids, RedeemNonce(a) PROVE LifeStep(g) /\ (g \in tokens' => g \in tokens)
  <2> DEFINE spent == status[a] = "granted" /\ ~Overdue(a)
             change == IF spent THEN Becomes(a, "used") ELSE Touch(a)
  <2>1. /\ DOMAIN change \subseteq {a}
        /\ \A x \in DOMAIN change : status[x] = "granted" /\ change[x] \in {"used", "expired"}
        /\ status[a] = "granted" => a \in DOMAIN change
    BY DEF Becomes, Touch, Overdue
  <2>2. PICK cut \in Cuts(DOMAIN change) :
           Commit(change, cut) /\ tokens' = tokens \ Dropped(change, cut)
    BY <1>10 DEF RedeemNonce
  <2>3. byNonce' = byNonce \ {a} BY <1>10 DEF RedeemNonce
  <2> HIDE DEF change, spent
  <2>4. CASE g # a
    <3>1. Keeps(g) BY <2>1, <2>2, <2>4, CommitOne
    <3>. QED BY <2>2, <2>3, <2>4, <3>1 DEF LifeStep, Rests, SameNonce
  <2>5. CASE g = a /\ status[a] # "granted"
    <3>1. DOMAIN change = {} BY <2>1, <2>5
    <3>2. Keeps(g) BY <2>2, <3>1, CommitOne
    <3>3. tokens' = tokens BY <2>2, <3>1 DEF Dropped
    <3>. QED BY <2>3, <2>5, <3>2, <3>3 DEF LifeStep, NonceSpent
  <2>6. CASE g = a /\ status[a] = "granted"
    <3>1. g \in DOMAIN change /\ g <= cut
      BY <2>1, <2>2, <2>6, CutsAreNumbers DEF Cuts, Ids
    <3>2. g \notin tokens' BY <1>0, <2>2, <2>6 DEF TokenOK
    <3>3. Moves(g, change[g]) BY <2>1, <2>2, <3>1, CommitOne DEF Moves
    <3>4. Ended(g, change[g]) BY <2>1, <2>3, <2>6, <3>1, <3>2, <3>3 DEF Ended
    <3>5. change[g] \in Terminal BY <2>1, <3>1 DEF Terminal
    <3>. QED BY <3>2, <3>4, <3>5 DEF LifeStep
  <2>. QED BY <2>4, <2>5, <2>6
<1>11. ASSUME NEW s \in Sessions, RevokeSession(s)
       PROVE  LifeStep(g) /\ (g \in tokens' => g \in tokens)
  <2> DEFINE live == {x \in GrantsOf(s) : status[x] \in {"requested", "granted"}}
             change == [x \in live |-> IF Overdue(x) THEN "expired" ELSE "revoked"]
  <2>1. PICK cut \in Cuts(DOMAIN change) :
           Commit(change, cut) /\ tokens' = tokens \ Dropped(change, cut)
    BY <1>11 DEF RevokeSession
  <2>2. GrantsOf(s) \subseteq Ids BY GrantsAreNumbers
  <2>3. /\ DOMAIN change \subseteq Ids
        /\ \A x \in DOMAIN change :
              \/ status[x] = "granted" /\ change[x] \in {"expired", "revoked"}
              \/ status[x] = "requested" /\ change[x] = "revoked"
    BY <2>2 DEF Overdue
  <2>4. SameNonce(g) BY <1>11 DEF RevokeSession, SameNonce
  <2> HIDE DEF change
  <2>. QED BY <1>0, <2>1, <2>3, <2>4, EndingStep
<1>12. ASSUME NEW s \in Sessions, DeleteBegin(s) \/ CloseThrows(s) \/ CloseDone(s)
       PROVE  UNCHANGED <<status, trail, tokens, byNonce>>
  BY <1>12 DEF DeleteBegin, CloseThrows, CloseDone
<1>13. CASE UNCHANGED <<status, trail, tokens, byNonce>>
  BY <1>13 DEF LifeStep, Rests, Keeps, SameNonce
<1>14. Tick \/ UNCHANGED vars => UNCHANGED <<status, trail, tokens, byNonce>> BY DEF Tick, vars
<1>. QED
  BY <1>1, <1>3, <1>4, <1>5, <1>6, <1>7, <1>8, <1>9, <1>10, <1>11, <1>12, <1>13, <1>14 DEF Next

LEMMA LifeInvariant == Spec => []LifeInv
<1>1. Init => LifeInv
  <2> SUFFICES ASSUME Init, NEW g \in Ids PROVE LinesOK(g) /\ TokenOK(g) /\ NonceOK(g)
      BY DEF LifeInv
  <2>1. status[g] = "none" /\ trail[g] = <<>> /\ g \notin tokens /\ g \notin byNonce BY DEF Init
  <2>. QED BY <2>1 DEF LinesOK, TokenOK, NonceOK
<1>2. TypeOK /\ UseInv /\ LifeInv /\ [Next]_vars => LifeInv'
  <2> SUFFICES ASSUME TypeOK, UseInv, LifeInv, [Next]_vars, NEW g \in Ids
               PROVE  LinesOK(g)' /\ TokenOK(g)' /\ NonceOK(g)'
      BY DEF LifeInv
  <2>. QED BY EveryStepIsALifeStep, LifeStepKeeps DEF LifeInv
<1>. QED BY <1>1, <1>2, GrantTyping, UseInvariant, PTL DEF Spec

(* Tokens, nonces and statuses agree, wherever audit lines fail: a live approval
   link can be answered unless the line about a revocation failed, and a grant
   can be redeemed exactly while its nonce is there (service.ts, registry.ts). *)
THEOREM SecretsMatch == Spec => []SecretsMatchStatus
<1>1. ASSUME TypeOK, LifeInv, NEW g \in tokens PROVE status[g] = "requested" \/ ~Reported(g)
  <2>1. g \in Ids /\ trail[g] \in Seq(Statuses) BY <1>1 DEF TypeOK
  <2>2. trail[g] # <<>> => Len(trail[g]) \in DOMAIN trail[g] BY <2>1
  <2>3. TokenOK(g) BY <1>1, <2>1 DEF LifeInv
  <2>. QED BY <2>2, <2>3 DEF TokenOK, Reported
<1>2. TypeOK /\ LifeInv => SecretsMatchStatus
  BY <1>1 DEF SecretsMatchStatus, LiveTokenMeansRequested, NonceMatchesStatus, LifeInv, NonceOK
<1>. QED BY <1>2, LifeInvariant, GrantTyping, PTL

(* The audit file tells a life of each grant in order, whatever lines are lost:
   after its end nothing is reported but revocations by id (registry.ts). *)
THEOREM TrailInOrder == Spec => []TrailTellsTheLife
<1>1. LifeInv => TrailTellsTheLife BY DEF LifeInv, LinesOK, TrailTellsTheLife
<1>. QED BY <1>1, LifeInvariant, PTL

(* Each operation does one thing to each grant, whatever it does to the others:
   a grant is asked for, granted and ended in this order, its nonce appears with
   the approval and goes with the use, and its token goes with the answer. *)
THEOREM GrantsLiveOneLife == Spec => [][\A g \in Ids : LifeStep(g)]_vars
<1>1. TypeOK /\ UseInv /\ LifeInv /\ [Next]_vars => [\A g \in Ids : LifeStep(g)]_vars
  BY EveryStepIsALifeStep
<1>. QED BY <1>1, GrantTyping, UseInvariant, LifeInvariant, PTL DEF Spec
=============================================================================
