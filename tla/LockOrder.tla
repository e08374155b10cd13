------------------------------- MODULE LockOrder -------------------------------
(***************************************************************************)
(* Spinlocks taken under the lock-order checker of sync/lockdep.c, the way *)
(* m12_sync_selftest does it: mcs_lockdep_before_acquire, and only if it   *)
(* answers OK mcs_spin_lock; later mcs_spin_unlock and then                *)
(* mcs_lockdep_after_release.  Each thread has its own                     *)
(* mcs_lockdep_state_t and nests as many locks as it likes, in any order   *)
(* the checker lets it.                                                    *)
(*                                                                         *)
(* A lock is the abstract lock module Spinlock implements.  Held locks are *)
(* released in any order; the history variable untidy remembers the        *)
(* threads that have released another one than that taken last.            *)
(***************************************************************************)
EXTENDS Naturals, Sequences, FiniteSets

CONSTANTS
  Threads,
  Locks,
  Class,          \* the class_id each lock was initialised with
  MaxClass,       \* largest uint32_t
  MaxHeld,        \* MCS_LOCKDEP_MAX_HELD
  NoLock,         \* "not acquiring or releasing anything"
  MaxViolations   \* largest value of the uint32_t violation_count

ASSUME LockOrderAssumption ==
  /\ MaxClass \in Nat
  /\ Class \in [Locks -> 0 .. MaxClass]
  /\ MaxHeld \in Nat
  /\ NoLock \notin Locks
  /\ MaxViolations \in Nat

VARIABLES
  held_class,       \* per thread: held_class[0 .. depth - 1]
  violation_count,  \* per thread
  phase,            \* per thread: "run", "spin" or "release"
  want,             \* per thread: the lock it spins for or has just unlocked
  holds,            \* per thread: the locks it has taken and not unlocked
  untidy            \* history: the threads that have released out of order

lockdepVars == <<held_class, violation_count, phase, want, holds, untidy>>

LockdepInit ==
  /\ held_class = [t \in Threads |-> <<>>]
  /\ violation_count = [t \in Threads |-> 0]
  /\ phase = [t \in Threads |-> "run"]
  /\ want = [t \in Threads |-> NoLock]
  /\ holds = [t \in Threads |-> {}]
  /\ untidy = {}

Top(s) == s[Len(s)]

mcs_lockdep_is_held(t, c) == c # 0 /\ \E i \in 1 .. Len(held_class[t]) : held_class[t][i] = c

Violation(t) ==
  violation_count' = [violation_count EXCEPT ![t] = IF @ = MaxViolations THEN 0 ELSE @ + 1]

Proceed(t, label, l) == phase' = [phase EXCEPT ![t] = label] /\ want' = [want EXCEPT ![t] = l]

-----------------------------------------------------------------------------
VerdictAnyOrder(s, c) ==
  IF c = 0 THEN "EINVAL"
  ELSE IF Len(s) >= MaxHeld THEN "EOVERFLOW"
  ELSE IF \E i \in 1 .. Len(s) : s[i] = c THEN "EDEADLK"
  ELSE "OK"

\* What before_acquire answers, s being the classes on the stack.
Verdict(s, c) ==
  IF c = 0 THEN "EINVAL"
  ELSE IF Len(s) >= MaxHeld THEN "EOVERFLOW"
  ELSE IF \E i \in 1 .. Len(s) : s[i] = c THEN "EDEADLK"
  ELSE IF Len(s) > 0 /\ c < Top(s) THEN "EDEADLK"
  ELSE "OK"

\* The checker lets the thread have the lock; it starts to spin.
mcs_lockdep_before_acquire(t, l) ==
  /\ phase[t] = "run"
  /\ Verdict(held_class[t], Class[l]) = "OK"
  /\ held_class' = [held_class EXCEPT ![t] = Append(@, Class[l])]
  /\ Proceed(t, "spin", l)
  /\ UNCHANGED <<violation_count, holds, untidy>>

\* The checker refuses; the caller gives up, as the selftest does.
Refused(t, l) ==
  /\ phase[t] = "run"
  /\ \/ Verdict(held_class[t], Class[l]) \in {"EOVERFLOW", "EDEADLK"} /\ Violation(t)
     \/ Verdict(held_class[t], Class[l]) = "EINVAL" /\ UNCHANGED violation_count
  /\ UNCHANGED <<held_class, phase, want, holds, untidy>>

\* mcs_spin_lock returns: the lock was free when it was exchanged.
mcs_spin_lock(t) ==
  /\ phase[t] = "spin"
  /\ \A u \in Threads : want[t] \notin holds[u]
  /\ holds' = [holds EXCEPT ![t] = @ \cup {want[t]}]
  /\ Proceed(t, "run", NoLock)
  /\ UNCHANGED <<held_class, violation_count, untidy>>

\* mcs_spin_unlock.
Unlock(t, l) ==
  /\ phase[t] = "run" /\ l \in holds[t]
  /\ holds' = [holds EXCEPT ![t] = @ \ {l}]
  /\ untidy' = IF Class[l] = Top(held_class[t]) THEN untidy ELSE untidy \cup {t}
  /\ Proceed(t, "release", l)
  /\ UNCHANGED <<held_class, violation_count>>

ReleaseAnything(t) ==
  /\ phase[t] = "release"
  /\ held_class' = [held_class EXCEPT ![t] = SubSeq(@, 1, Len(@) - 1)]
  /\ Proceed(t, "run", NoLock)
  /\ UNCHANGED <<violation_count, holds, untidy>>

ReleaseNothing(t) ==
  /\ phase[t] = "release"
  /\ Proceed(t, "run", NoLock)
  /\ UNCHANGED <<held_class, violation_count, holds, untidy>>

\* Only the class on top of the stack is removed; any other release is counted
\* as a violation and its class stays on the stack.
mcs_lockdep_after_release(t) ==
  /\ phase[t] = "release"
  /\ IF held_class[t] # <<>> /\ Top(held_class[t]) = Class[want[t]]
     THEN /\ held_class' = [held_class EXCEPT ![t] = SubSeq(@, 1, Len(@) - 1)]
          /\ UNCHANGED violation_count
     ELSE Violation(t) /\ UNCHANGED held_class
  /\ Proceed(t, "run", NoLock)
  /\ UNCHANGED <<holds, untidy>>

-----------------------------------------------------------------------------
Acquire(t) ==
  \/ \E l \in Locks : mcs_lockdep_before_acquire(t, l) \/ Refused(t, l)
  \/ mcs_spin_lock(t)

LockdepNext == \E t \in Threads :
  \/ Acquire(t)
  \/ \E l \in Locks : Unlock(t, l)
  \/ mcs_lockdep_after_release(t)

LockdepSpec == LockdepInit /\ [][LockdepNext]_lockdepVars

-----------------------------------------------------------------------------
\* Every variable holds a value of its type.
LockdepTypeOK ==
  /\ held_class \in [Threads -> Seq(1 .. MaxClass)]
  /\ violation_count \in [Threads -> 0 .. MaxViolations]
  /\ phase \in [Threads -> {"run", "spin", "release"}]
  /\ want \in [Threads -> Locks \cup {NoLock}]
  /\ holds \in [Threads -> SUBSET Locks]
  /\ untidy \subseteq Threads
  /\ \A t \in Threads : phase[t] # "run" => want[t] \in Locks

\* The stack of the checker never overruns held_class[], and is strictly
\* ascending, so that looking at the top is as good as looking at all of it.
StackAscending ==
  \A t \in Threads :
    /\ Len(held_class[t]) <= MaxHeld
    /\ \A i, j \in 1 .. Len(held_class[t]) :
          i < j => held_class[t][i] < held_class[t][j]

\* The checker knows of every lock a thread holds or spins for, also after
\* locks were released out of order.
HeldIsKnown ==
  \A t \in Threads :
    /\ \A l \in holds[t] : mcs_lockdep_is_held(t, Class[l])
    /\ phase[t] = "spin" => mcs_lockdep_is_held(t, Class[want[t]])

\* What the checker believes is right as far as it is needed: before_acquire and
\* after_release keep the stack ascending and within its bounds, and it never
\* misses a lock, whatever order locks are released in.
CheckerSound == StackAscending /\ HeldIsKnown

\* A lock has one holder.
OneHolder ==
  \A t, u \in Threads : holds[t] \cap holds[u] # {} => t = u

\* u keeps t from going on.
WaitsFor(t, u) == phase[t] = "spin" /\ want[t] \in holds[u]

\* Threads that obey the checker cannot deadlock: no set of threads spins for
\* locks that are all held within the set.
NoDeadlock ==
  \A S \in SUBSET Threads : S # {} => \E t \in S : \A u \in S : ~WaitsFor(t, u)

\* For a thread that has always released its locks in the opposite order of
\* acquisition the checker is exact: apart from a lock that is being acquired
\* or released, its stack lists the held locks and no others.
LifoExact ==
  \A t \in Threads \ untidy :
    LET stack == {held_class[t][i] : i \in 1 .. Len(held_class[t])}
        busy  == IF phase[t] = "run" THEN {} ELSE {Class[want[t]]}
    IN stack = {Class[l] : l \in holds[t]} \cup busy
=============================================================================
