---------------------------- MODULE ProfileMutex ----------------------------
(***************************************************************************)
(* What the profile lock promises (docs/architecture.md, Profile Lock):    *)
(* mutual exclusion over one persistent workspace profile.  At any time at *)
(* most one session owns the profile; a session takes it only when nobody  *)
(* has it, and gives it back or dies.                                      *)
(***************************************************************************)
CONSTANT Sessions

VARIABLE owners

MutexInit == owners = {}

Acquire(s) ==
    /\ owners = {}
    /\ owners' = {s}

\* Released, or lost with the process that had it.
Drop(s) ==
    /\ s \in owners
    /\ owners' = owners \ {s}

MutexNext == \E s \in Sessions : Acquire(s) \/ Drop(s)

MutexSpec == MutexInit /\ [][MutexNext]_owners
=============================================================================
