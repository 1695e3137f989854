-------------------------- MODULE CapabilityGrants --------------------------
(***************************************************************************)
(* The capability gate (src/src/capability): an agent asks for a dangerous *)
(* capability, a human approves or denies it on a local page, and the door *)
(* (the cookie-export route) spends the approved grant.                    *)
(*                                                                         *)
(* Everything in the service runs synchronously, so each operation is one  *)
(* action.  What can interrupt one is its own audit line: the registry     *)
(* changes a grant first and only then tells its observer, which appends   *)
(* to the audit file and may throw.  Commit models that for all of them.   *)
(***************************************************************************)
EXTENDS Integers, Sequences, FiniteSets

CONSTANTS Sessions,
          None,          \* neither a session nor a capability
          Capabilities,
          Enabled,       \* the capabilities DangerousModePolicy opts in
          TTLs,          \* lifetimes a request may ask for, or the default
          MaxGrants,     \* bound: requests in one run
          MaxClock,      \* bound: ticks of the clock
          MaxTrail,      \* bound: audit lines of a grant that is revoked over and over
          AuditFaults,   \* may appending to the audit file fail
          DirectCalls    \* are the registry methods the service itself does not
                         \* use (revoke of one grant, redeem of a nonce, get of
                         \* any grant) called too

ASSUME GrantAssumption ==
    /\ Enabled \subseteq Capabilities
    /\ TTLs \subseteq Nat
    /\ MaxGrants \in Nat
    /\ MaxClock \in Nat
    /\ MaxTrail \in Nat
    /\ AuditFaults \in BOOLEAN
    /\ DirectCalls \in BOOLEAN

VARIABLES count,      \* grants requested so far; 1..count in insertion order
          scope,      \* the session, capability and ttl of each grant
          status,     \* its status
          grantedAt,  \* when it was approved
          byNonce,    \* the grants whose nonce still maps to them
          tokens,     \* the grants whose humanToken is live in the ApprovalStore
          trail,      \* the audit lines of each grant, oldest first
          opened,     \* history: how often the door opened on the grant
          usedAt,     \* history: when it last did
          session,    \* the session: open, then closing and so on to revoked
          clock

vars == <<count, scope, status, grantedAt, byNonce, tokens, trail, opened, usedAt,
          session, clock>>

Ids == 1..MaxGrants
Nowhere == MaxGrants + 1
Terminal == {"denied", "expired", "revoked", "used"}
Statuses == {"none", "requested", "granted"} \cup Terminal
NoScope == [session |-> None, capability |-> None, ttl |-> 0]
Open == {"open", "closing"}     \* manager.get finds the session

Init ==
    /\ count = 0
    /\ scope = [g \in Ids |-> NoScope]
    /\ status = [g \in Ids |-> "none"]
    /\ grantedAt = [g \in Ids |-> 0]
    /\ byNonce = {}
    /\ tokens = {}
    /\ trail = [g \in Ids |-> <<>>]
    /\ opened = [g \in Ids |-> 0]
    /\ usedAt = [g \in Ids |-> 0]
    /\ session = [s \in Sessions |-> "open"]
    /\ clock = 0

(***************************************************************************)
(* Changing grants.  An operation changes one or more grants in insertion  *)
(* order, each as status assignment, then audit line, then (for a terminal *)
(* status) ApprovalStore.discard.  If an audit line cannot be written the  *)
(* exception leaves that grant changed but unreported and the later ones   *)
(* untouched: cut is the grant whose line failed, or Nowhere.              *)
(***************************************************************************)
Cuts(G) == {Nowhere} \cup (IF AuditFaults THEN G ELSE {})

\* Defective variant: the observer never discards a token.
DroppedNever(change, cut) == {}

Dropped(change, cut) == {g \in DOMAIN change : g < cut /\ change[g] \in Terminal}

Commit(change, cut) ==
    /\ status' = [g \in Ids |-> IF g \in DOMAIN change /\ g <= cut THEN change[g]
                                                                 ELSE status[g]]
    /\ trail' = [g \in Ids |-> IF g \in DOMAIN change /\ g < cut
                               THEN Append(trail[g], change[g]) ELSE trail[g]]

\* Defective variant: touch() does not ask whether the grant is granted.
OverdueWhenever(g) == clock - grantedAt[g] > scope[g].ttl

\* touch(): a granted grant past its TTL expires when it is next looked at.
Overdue(g) == status[g] = "granted" /\ clock - grantedAt[g] > scope[g].ttl
Touch(g) == [x \in {y \in {g} : Overdue(y)} |-> "expired"]
Becomes(g, new) == [x \in {g} |-> new]

GrantsOf(s) == {g \in 1..count : scope[g].session = s}

(***************************************************************************)
(* The agent asks: the route finds the session, the policy allows the      *)
(* capability, the registry creates the grant and the store mints a token. *)
(***************************************************************************)
RequestGrant(s, c, ttl) ==
    /\ session[s] \in Open
    /\ c \in Enabled
    /\ count < MaxGrants
    /\ count' = count + 1
    /\ LET g == count + 1
       IN  /\ scope' = [scope EXCEPT ![g] = [session |-> s, capability |-> c, ttl |-> ttl]]
           /\ \E cut \in Cuts({g}) :
                 /\ Commit(Becomes(g, "requested"), cut)
                 /\ tokens' = IF cut = Nowhere THEN tokens \cup {g} ELSE tokens
    /\ UNCHANGED <<grantedAt, byNonce, opened, usedAt, session, clock>>

(***************************************************************************)
(* The human answers on the page that g's token opens, with the page's     *)
(* CSRF nonce (a wrong one changes nothing).  The token is spent before    *)
(* the grant changes.                                                      *)
(***************************************************************************)
Approve(g) ==
    /\ g \in tokens
    /\ status[g] = "requested"
    /\ tokens' = tokens \ {g}
    /\ grantedAt' = [grantedAt EXCEPT ![g] = clock]
    /\ byNonce' = byNonce \cup {g}
    /\ \E cut \in Cuts({g}) : Commit(Becomes(g, "granted"), cut)
    /\ UNCHANGED <<count, scope, opened, usedAt, session, clock>>

Deny(g) ==
    /\ g \in tokens
    /\ status[g] = "requested"
    /\ tokens' = tokens \ {g}
    /\ \E cut \in Cuts({g}) : Commit(Becomes(g, "denied"), cut)
    /\ UNCHANGED <<count, scope, grantedAt, byNonce, opened, usedAt, session, clock>>

\* The grant ended some other way: the token is spent and the answer is "gone".
AnswerTooLate(g) ==
    /\ g \in tokens
    /\ status[g] # "requested"
    /\ \E cut \in Cuts(DOMAIN Touch(g)) :
          /\ Commit(Touch(g), cut)
          /\ tokens' = IF cut = Nowhere THEN tokens \ {g} ELSE tokens
    /\ UNCHANGED <<count, scope, grantedAt, byNonce, opened, usedAt, session, clock>>

(***************************************************************************)
(* The door.  consumeGranted walks the grants in insertion order, expiring *)
(* the overdue ones it passes, up to the first that it can redeem.  The    *)
(* operation behind the door runs only if redeem returned.                 *)
(***************************************************************************)
Matching(s, c) == {g \in GrantsOf(s) : scope[g].capability = c}

\* Defective variant: the door forgets to expire an overdue grant.
RedeemableOverdue(s, c) ==
    {g \in Matching(s, c) : status[g] = "granted" /\ g \in byNonce}

Redeemable(s, c) ==
    {g \in Matching(s, c) : status[g] = "granted" /\ ~Overdue(g) /\ g \in byNonce}

Passed(s, c) ==
    {g \in Matching(s, c) : Overdue(g) /\ \A h \in Redeemable(s, c) : g < h}

\* Defective variant: the door looks for a grant but does not spend it.
OpenDoorPeeking(s, c) ==
    /\ session[s] \in Open
    /\ c \in Enabled
    /\ \E g \in Redeemable(s, c) :
          /\ \A h \in Redeemable(s, c) : g <= h
          /\ opened' = [opened EXCEPT ![g] = @ + 1]
          /\ usedAt' = [usedAt EXCEPT ![g] = clock]
    /\ UNCHANGED <<count, scope, status, grantedAt, byNonce, tokens, trail, session, clock>>

\* Defective variant: a failing audit line is swallowed.
OpenDoorUnaudited(s, c) ==
    /\ session[s] \in Open
    /\ c \in Enabled
    /\ \E g \in Redeemable(s, c) :
          /\ \A h \in Redeemable(s, c) : g <= h
          /\ \E cut \in Cuts({g}) : Commit(Becomes(g, "used"), cut)
          /\ byNonce' = byNonce \ {g}
          /\ opened' = [opened EXCEPT ![g] = @ + 1]
          /\ usedAt' = [usedAt EXCEPT ![g] = clock]
    /\ UNCHANGED <<count, scope, grantedAt, tokens, session, clock>>

OpenDoor(s, c) ==
    /\ session[s] \in Open
    /\ c \in Enabled
    /\ \E g \in Redeemable(s, c) :
          /\ \A h \in Redeemable(s, c) : g <= h
          /\ LET change == [x \in Passed(s, c) \cup {g} |-> IF x = g THEN "used" ELSE "expired"]
             IN  \E cut \in Cuts(DOMAIN change) :
                    /\ Commit(change, cut)
                    /\ tokens' = tokens \ Dropped(change, cut)
                    /\ byNonce' = IF g <= cut THEN byNonce \ {g} ELSE byNonce
                    /\ IF cut = Nowhere
                       THEN /\ opened' = [opened EXCEPT ![g] = @ + 1]
                            /\ usedAt' = [usedAt EXCEPT ![g] = clock]
                       ELSE UNCHANGED <<opened, usedAt>>
    /\ UNCHANGED <<count, scope, grantedAt, session, clock>>

\* Nothing to redeem: the door stays shut ("expired" or "no-grant").
RefuseDoor(s, c) ==
    /\ session[s] \in Open
    /\ c \in Enabled
    /\ Redeemable(s, c) = {}
    /\ LET change == [x \in Passed(s, c) |-> "expired"]
       IN  \E cut \in Cuts(DOMAIN change) :
              Commit(change, cut) /\ tokens' = tokens \ Dropped(change, cut)
    /\ UNCHANGED <<count, scope, grantedAt, byNonce, opened, usedAt, session, clock>>

\* get(id) may notice that a grant expired.  The service looks only at grants
\* whose token is live, and those are never granted.
Look(g) ==
    /\ DirectCalls
    /\ g \in 1..count
    /\ Overdue(g)
    /\ \E cut \in Cuts({g}) :
          /\ Commit(Touch(g), cut)
          /\ tokens' = tokens \ Dropped(Touch(g), cut)
    /\ UNCHANGED <<count, scope, grantedAt, byNonce, opened, usedAt, session, clock>>

(***************************************************************************)
(* The registry's own methods: revoke(id) does not look at the status,     *)
(* and redeem spends the nonce whether or not the grant is still good.     *)
(***************************************************************************)
RevokeById(g) ==
    /\ DirectCalls
    /\ g \in 1..count
    /\ Len(trail[g]) < MaxTrail
    /\ \E cut \in Cuts({g}) :
          /\ Commit(Becomes(g, "revoked"), cut)
          /\ tokens' = tokens \ Dropped(Becomes(g, "revoked"), cut)
    /\ UNCHANGED <<count, scope, grantedAt, byNonce, opened, usedAt, session, clock>>

RedeemNonce(g) ==
    /\ DirectCalls
    /\ g \in byNonce
    /\ byNonce' = byNonce \ {g}
    /\ LET spent  == status[g] = "granted" /\ ~Overdue(g)
           change == IF spent THEN Becomes(g, "used") ELSE Touch(g)
       IN  \E cut \in Cuts(DOMAIN change) :
              /\ Commit(change, cut)
              /\ tokens' = tokens \ Dropped(change, cut)
              /\ IF spent /\ cut = Nowhere
                 THEN /\ opened' = [opened EXCEPT ![g] = @ + 1]
                      /\ usedAt' = [usedAt EXCEPT ![g] = clock]
                 ELSE UNCHANGED <<opened, usedAt>>
    /\ UNCHANGED <<count, scope, grantedAt, session, clock>>

(***************************************************************************)
(* DELETE /v1/sessions/:id.  The close takes a while, during which the     *)
(* session is still found; then it leaves the registry, and only after the *)
(* MFA challenges are cancelled are the grants revoked.  A close that      *)
(* throws revokes nothing, and neither does the rest of a revocation that  *)
(* an audit line stopped half-way.                                         *)
(***************************************************************************)
SessionGoes(s, from, to) == session[s] = from /\ session' = [session EXCEPT ![s] = to]

DeleteBegin(s) ==
    /\ SessionGoes(s, "open", "closing")
    /\ UNCHANGED <<count, scope, status, grantedAt, byNonce, tokens, trail, opened, usedAt, clock>>

CloseThrows(s) ==
    /\ SessionGoes(s, "closing", "open")
    /\ UNCHANGED <<count, scope, status, grantedAt, byNonce, tokens, trail, opened, usedAt, clock>>

CloseDone(s) ==
    /\ SessionGoes(s, "closing", "closed")
    /\ UNCHANGED <<count, scope, status, grantedAt, byNonce, tokens, trail, opened, usedAt, clock>>

\* Defective variant: only approved grants are revoked, not requested ones.
RevokeSessionGranted(s) ==
    /\ session[s] = "closed"
    /\ LET live   == {g \in GrantsOf(s) : status[g] = "granted"}
           change == [g \in live |-> IF Overdue(g) THEN "expired" ELSE "revoked"]
       IN  \E cut \in Cuts(live) :
              /\ Commit(change, cut)
              /\ tokens' = tokens \ Dropped(change, cut)
              /\ session' = [session EXCEPT ![s] = IF cut = Nowhere THEN "revoked" ELSE "broken"]
    /\ UNCHANGED <<count, scope, grantedAt, byNonce, opened, usedAt, clock>>

RevokeSession(s) ==
    /\ session[s] = "closed"
    /\ LET live   == {g \in GrantsOf(s) : status[g] \in {"requested", "granted"}}
           change == [g \in live |-> IF Overdue(g) THEN "expired" ELSE "revoked"]
       IN  \E cut \in Cuts(live) :
              /\ Commit(change, cut)
              /\ tokens' = tokens \ Dropped(change, cut)
              /\ session' = [session EXCEPT ![s] = IF cut = Nowhere THEN "revoked" ELSE "broken"]
    /\ UNCHANGED <<count, scope, grantedAt, byNonce, opened, usedAt, clock>>

Tick ==
    /\ clock < MaxClock
    /\ clock' = clock + 1
    /\ UNCHANGED <<count, scope, status, grantedAt, byNonce, tokens, trail, opened, usedAt, session>>

Next ==
    \/ \E s \in Sessions, c \in Capabilities :
          (\E ttl \in TTLs : RequestGrant(s, c, ttl)) \/ OpenDoor(s, c) \/ RefuseDoor(s, c)
    \/ \E g \in Ids :
          \/ Approve(g) \/ Deny(g) \/ AnswerTooLate(g) \/ Look(g)
          \/ RevokeById(g) \/ RedeemNonce(g)
    \/ \E s \in Sessions :
          DeleteBegin(s) \/ CloseThrows(s) \/ CloseDone(s) \/ RevokeSession(s)
    \/ Tick

Spec == Init /\ [][Next]_vars

(***************************************************************************)
(* Properties.                                                             *)
(***************************************************************************)
\* Every variable keeps its type.
TypeOK ==
    /\ count \in 0..MaxGrants
    /\ scope \in [Ids -> [session : Sessions \cup {None}, capability : Capabilities \cup {None},
                          ttl : TTLs \cup {0}]]
    /\ status \in [Ids -> Statuses]
    /\ grantedAt \in [Ids -> Nat]
    /\ byNonce \subseteq Ids
    /\ tokens \subseteq Ids
    /\ trail \in [Ids -> Seq(Statuses)]
    /\ opened \in [Ids -> Nat]
    /\ usedAt \in [Ids -> Nat]
    /\ session \in [Sessions -> {"open", "closing", "closed", "revoked", "broken"}]
    /\ clock \in Nat

\* A grant is single-use: the door opens on it at most once, whatever the order
\* of redemptions, revocations, expiries and failing audit lines.
DoorOpensOnce == \A g \in Ids : opened[g] <= 1

\* The door opens only on an approval, and only within the grant's TTL of it.
UsedWithinTtl ==
    \A g \in Ids : opened[g] > 0 =>
        /\ usedAt[g] >= grantedAt[g]
        /\ usedAt[g] - grantedAt[g] <= scope[g].ttl

\* Every time the door opened, the use is in the durable audit log: a failing
\* audit line keeps the door shut ("the dangerous tier requires the durable
\* surface", ADR-0010).
OpenDoorIsAudited ==
    \A g \in Ids : opened[g] > 0 => \E i \in DOMAIN trail[g] : trail[g][i] = "used"

\* Once a DELETE has been answered nothing of the session can be approved or
\* spent: its grants are all in a terminal state.
ClosedSessionHasNoUsableGrant ==
    \A g \in 1..count :
        session[scope[g].session] = "revoked" => status[g] \in Terminal

\* A live approval link can still be answered: the token goes when the grant
\* is answered, used, expired or revoked.  Only if the line that reports this
\* could not be appended does the token stay behind.
Reported(g) == trail[g] # <<>> /\ trail[g][Len(trail[g])] = status[g]
LiveTokenMeansRequested == \A g \in tokens : status[g] = "requested" \/ ~Reported(g)

\* A grant that can be redeemed still has its nonce, and one that was redeemed
\* has not: approval and the nonce map never drift apart.
NonceMatchesStatus ==
    \A g \in Ids :
        /\ status[g] = "granted" => g \in byNonce
        /\ status[g] \in {"none", "requested", "denied", "used"} => g \notin byNonce

\* The audit log tells a life the lifecycle allows: whatever lines were lost,
\* those of a grant are in the order request, approval, end, and nothing but a
\* revoke(id) is reported after the end.
Stage(line) == CASE line = "requested" -> 1 [] line = "granted" -> 2 [] OTHER -> 3
TrailTellsTheLife ==
    \A g \in Ids : \A j \in DOMAIN trail[g] : \A i \in 1..(j - 1) :
        Stage(trail[g][i]) < Stage(trail[g][j]) \/ trail[g][j] = "revoked"

\* The three stores of the gate agree: tokens and nonces are those the statuses
\* of their grants call for.
SecretsMatchStatus == LiveTokenMeansRequested /\ NonceMatchesStatus
=============================================================================
