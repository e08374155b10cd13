----------------------------- MODULE AbstractLock -----------------------------
(***************************************************************************)
(* What a lock promises: it has at most one holder, it is taken only when  *)
(* it is free, and only its holder gives it up.                            *)
(***************************************************************************)
CONSTANTS Procs, Nobody

VARIABLE holder

Init == holder = Nobody

Acquire(p) == holder = Nobody /\ holder' = p
Release(p) == holder = p /\ holder' = Nobody

Next == \E p \in Procs : Acquire(p) \/ Release(p)

Spec == Init /\ [][Next]_holder
=============================================================================
