------------------------------ MODULE LockProofs ------------------------------
(***************************************************************************)
(* The locks of kernel/sync.  Of the lock-order checker: threads which     *)
(* obey it never deadlock, for any number of threads and locks and any     *)
(* assignment of classes.  Of the mutex: mutual exclusion, truthful        *)
(* replies and the refinement of the abstract lock, for any set of owners, *)
(* with store buffers.                                                     *)
(***************************************************************************)
EXTENDS Mutex, Spinlock, LockOrder, SequenceTheorems, WellFoundedInduction, TLAPS

-----------------------------------------------------------------------------
(* The lock-order checker.                                                 *)

\* A set of naturals that is not empty has a least element.
LEMMA LeastNatural ==
  ASSUME NEW T \in SUBSET Nat, T # {}
  PROVE  \E x \in T : \A y \in T : x <= y
<1>. DEFINE R == {ss \in Nat \X Nat : ss[1] < ss[2]}
<1>1. IsWellFoundedOn(R, Nat)
  BY NatLessThanWellFounded, Zenon DEF OpToRel
<1>. HIDE DEF R
<1>2. PICK x \in T : \A y \in T : ~(<<y, x>> \in R)
  BY Zenon, <1>1, WFMin
<1>3. \A y \in T : ~(y < x)
  BY Zenon, <1>2 DEF R
<1>. QED
  BY <1>3

-----------------------------------------------------------------------------
\* What StackAscending, HeldIsKnown and OneHolder need to be inductive: a
\* spinning thread has the class it waits for on top of its stack and holds
\* smaller classes only, and no two locks of one thread share a class, the one
\* it has just unlocked included.
ClassesApart ==
  \A t \in Threads :
    /\ \A l, m \in holds[t] : Class[l] = Class[m] => l = m
    /\ phase[t] = "release" => \A l \in holds[t] : Class[l] # Class[want[t]]
    /\ phase[t] = "spin" =>
         /\ held_class[t] # <<>> /\ Top(held_class[t]) = Class[want[t]]
         /\ \A l \in holds[t] : Class[l] < Class[want[t]]

LockdepInv == LockdepTypeOK /\ StackAscending /\ HeldIsKnown /\ OneHolder /\ ClassesApart

USE LockOrderAssumption

\* mcs_lockdep_init and mcs_spin_init establish the invariant.
LEMMA InitLockdepInv == LockdepInit => LockdepInv
BY DEF LockdepInit, LockdepInv, LockdepTypeOK, StackAscending, HeldIsKnown, OneHolder,
       ClassesApart, mcs_lockdep_is_held

\* An OK of mcs_lockdep_before_acquire means that the class is above all others.
LEMMA VerdictOK ==
  ASSUME NEW s \in Seq(1 .. MaxClass), NEW c \in 0 .. MaxClass,
         \A i, j \in 1 .. Len(s) : i < j => s[i] < s[j],
         Verdict(s, c) = "OK"
  PROVE  /\ c \in 1 .. MaxClass
         /\ Len(s) < MaxHeld
         /\ \A i \in 1 .. Len(s) : s[i] < c
<1>1. c # 0 /\ Len(s) < MaxHeld /\ (\A i \in 1 .. Len(s) : s[i] # c)
        /\ (Len(s) > 0 => ~(c < s[Len(s)]))
  BY SMTT(30) DEF Verdict, Top
<1>2. ASSUME NEW i \in 1 .. Len(s) PROVE s[i] < c
  <2>1. s[i] \in 1 .. MaxClass /\ s[Len(s)] \in 1 .. MaxClass
    BY SMTT(30)
  <2>2. s[i] <= s[Len(s)]
    <3>1. i = Len(s) \/ (Len(s) \in 1 .. Len(s) /\ i < Len(s))
      OBVIOUS
    <3>2. CASE i = Len(s)
      BY ONLY <2>1, <3>2
    <3>3. CASE Len(s) \in 1 .. Len(s) /\ i < Len(s)
      <4>1. s[i] < s[Len(s)]
        BY <3>3, Zenon
      <4>. QED
        BY ONLY <2>1, <4>1
    <3>. QED
      BY <3>1, <3>2, <3>3, Zenon
  <2>. QED
    BY <1>1, <2>1, <2>2, SMTT(30)
<1>. QED
  BY <1>1, <1>2

\* mcs_lockdep_before_acquire, when it answers OK, preserves the invariant.
LEMMA BeforeAcquireIInv ==
  ASSUME LockdepInv, NEW t \in Threads, NEW l \in Locks,
         mcs_lockdep_before_acquire(t, l)
  PROVE  LockdepInv'
<1>. DEFINE s == held_class[t]
            c == Class[l]
            r == Append(s, c)
<1>1. s \in Seq(1 .. MaxClass) /\ c \in 0 .. MaxClass
  BY Zenon DEF LockdepInv, LockdepTypeOK
<1>2. /\ c \in 1 .. MaxClass
      /\ Len(s) < MaxHeld
      /\ \A i \in 1 .. Len(s) : s[i] < c
  BY Zenon, <1>1, VerdictOK DEF LockdepInv, StackAscending, mcs_lockdep_before_acquire
<1>3. /\ Len(s) \in Nat
      /\ r \in Seq(1 .. MaxClass) /\ Len(r) = Len(s) + 1
      /\ r[Len(r)] = c
      /\ \A i \in 1 .. Len(s) : r[i] = s[i]
  BY <1>1, <1>2, SMTT(30)
<1>4. /\ held_class' = [held_class EXCEPT ![t] = r]
      /\ phase' = [phase EXCEPT ![t] = "spin"]
      /\ want' = [want EXCEPT ![t] = l]
      /\ UNCHANGED <<violation_count, holds, untidy>>
  BY Zenon DEF mcs_lockdep_before_acquire, Proceed
<1>5. held_class'[t] = r /\ \A u \in Threads \ {t} : held_class'[u] = held_class[u]
  BY <1>4, Zenon DEF LockdepInv, LockdepTypeOK
<1>. HIDE DEF r
<1>6. LockdepTypeOK'
  BY <1>3, <1>4, Zenon DEF LockdepInv, LockdepTypeOK
<1>7. StackAscending'
  <2>1. \A i, j \in 1 .. Len(r) : i < j => r[i] < r[j]
    <3>. SUFFICES ASSUME NEW i \in 1 .. Len(r), NEW j \in 1 .. Len(r), i < j
                  PROVE  r[i] < r[j]
      BY Zenon
    <3>1. i \in 1 .. Len(s) /\ Len(s) \in Nat
      BY ONLY <1>3, i \in 1 .. Len(r), j \in 1 .. Len(r), i < j, SMTT(30)
    <3>2. CASE j = Len(r)
      BY ONLY <3>1, <3>2, <1>2, <1>3, Zenon
    <3>3. CASE j # Len(r)
      <4>1. j \in 1 .. Len(s)
        BY ONLY <1>3, <3>1, <3>3, j \in 1 .. Len(r), SMTT(30)
      <4>. QED
        BY <3>1, <4>1, <1>3, Zenon DEF LockdepInv, StackAscending
    <3>. QED
      BY <3>2, <3>3, Zenon
  <2>2. Len(r) <= MaxHeld
    BY ONLY <1>2, <1>3, MaxHeld \in Nat, SMTT(30)
  <2>3. ASSUME NEW u \in Threads
        PROVE  /\ Len(held_class'[u]) <= MaxHeld
               /\ \A i, j \in 1 .. Len(held_class'[u]) :
                     i < j => held_class'[u][i] < held_class'[u][j]
    <3>1. CASE u = t
      BY <3>1, <1>5, <2>1, <2>2, ZenonT(30)
    <3>2. CASE u # t
      BY <3>2, <1>5, Zenon DEF LockdepInv, StackAscending
    <3>. QED
      BY <3>1, <3>2, Zenon
  <2>. QED
    BY <2>3, Zenon DEF StackAscending
<1>8. HeldIsKnown'
  <2>. SUFFICES ASSUME NEW u \in Threads
                PROVE  /\ \A m \in holds'[u] : mcs_lockdep_is_held(u, Class[m])'
                       /\ phase'[u] = "spin" => mcs_lockdep_is_held(u, Class[want[u]])'
    BY Zenon DEF HeldIsKnown
  <2>1. CASE u # t
    BY <1>4, <1>5, <2>1, SMTT(30) DEF LockdepInv, LockdepTypeOK, HeldIsKnown, mcs_lockdep_is_held
  <2>2. CASE u = t
    <3>1. ASSUME NEW m \in holds'[t] PROVE mcs_lockdep_is_held(t, Class[m])'
      <4>1. Class[m] # 0 /\ \E i \in 1 .. Len(s) : s[i] = Class[m]
        BY <1>4, ZenonT(30) DEF LockdepInv, HeldIsKnown, mcs_lockdep_is_held
      <4>2. \A i \in 1 .. Len(s) : i \in 1 .. Len(r)
        BY ONLY <1>3
      <4>. QED
        BY <1>3, <1>5, <4>1, <4>2, ZenonT(30) DEF mcs_lockdep_is_held
    <3>2. Len(r) \in 1 .. Len(r) /\ want'[t] = l
      BY <1>1, <1>3, <1>4, SMTT(30) DEF LockdepInv, LockdepTypeOK
    <3>3. mcs_lockdep_is_held(t, Class[want[t]])'
      BY <1>2, <1>3, <1>5, <3>2, SMTT(30) DEF mcs_lockdep_is_held
    <3>. QED
      BY <2>2, <3>1, <3>3, ZenonT(30)
  <2>. QED
    BY <2>1, <2>2, Zenon
<1>9. OneHolder'
  BY <1>4, Zenon DEF LockdepInv, OneHolder
<1>10. ClassesApart'
  <2>1. \A m \in holds[t] : Class[m] < c
    <3>. SUFFICES ASSUME NEW m \in holds[t] PROVE Class[m] < c
      BY Zenon
    <3>1. PICK i \in 1 .. Len(s) : s[i] = Class[m]
      BY ZenonT(30) DEF LockdepInv, HeldIsKnown, mcs_lockdep_is_held
    <3>. QED
      BY <1>2, <3>1, Zenon
  <2>2. r # <<>>
    BY <1>1, <1>3
  <2>. QED
    BY <1>3, <1>4, <1>5, <2>1, <2>2, SMTT(30) DEF LockdepInv, LockdepTypeOK, ClassesApart, Top
<1>. QED
  BY <1>6, <1>7, <1>8, <1>9, <1>10, Zenon DEF LockdepInv

\* A refusal of mcs_lockdep_before_acquire changes nothing but the count.
LEMMA RefusedIInv ==
  ASSUME LockdepInv, NEW t \in Threads, NEW l \in Locks, Refused(t, l)
  PROVE  LockdepInv'
<1>1. UNCHANGED <<held_class, phase, want, holds, untidy>>
  BY Zenon DEF Refused
<1>2. violation_count' \in [Threads -> 0 .. MaxViolations]
  <2>1. Violation(t) \/ UNCHANGED violation_count
    BY Zenon DEF Refused
  <2>2. violation_count \in [Threads -> 0 .. MaxViolations]
    BY Zenon DEF LockdepInv, LockdepTypeOK
  <2>. QED
    BY <2>1, <2>2, SMTT(30) DEF Violation
<1>3. LockdepTypeOK'
  BY <1>1, <1>2, Zenon DEF LockdepInv, LockdepTypeOK
<1>4. StackAscending' /\ OneHolder' /\ ClassesApart'
  BY <1>1, ZenonT(30) DEF LockdepInv, StackAscending, OneHolder, ClassesApart
<1>5. HeldIsKnown'
  <2>1. \A u \in Threads : \A k : mcs_lockdep_is_held(u, k)' <=> mcs_lockdep_is_held(u, k)
    BY <1>1, Zenon DEF mcs_lockdep_is_held
  <2>. QED
    BY <1>1, <2>1, Zenon DEF LockdepInv, HeldIsKnown
<1>. QED
  BY <1>3, <1>4, <1>5, Zenon DEF LockdepInv

\* Taking the spinlock preserves the invariant.
LEMMA SpinLockIInv ==
  ASSUME LockdepInv, NEW t \in Threads, mcs_spin_lock(t)
  PROVE  LockdepInv'
<1>1. /\ phase[t] = "spin" /\ want[t] \in Locks
      /\ \A u \in Threads : want[t] \notin holds[u]
      /\ UNCHANGED <<held_class, violation_count>>
  BY Zenon DEF mcs_spin_lock, LockdepInv, LockdepTypeOK
<1>2. /\ holds'[t] = holds[t] \cup {want[t]}
      /\ phase'[t] = "run"
      /\ \A u \in Threads \ {t} :
            holds'[u] = holds[u] /\ phase'[u] = phase[u] /\ want'[u] = want[u]
  BY Zenon DEF mcs_spin_lock, Proceed, LockdepInv, LockdepTypeOK
<1>3. LockdepTypeOK'
  BY <1>1, Zenon DEF mcs_spin_lock, Proceed, LockdepInv, LockdepTypeOK
<1>4. StackAscending'
  BY <1>1, Zenon DEF LockdepInv, StackAscending
<1>5. HeldIsKnown'
  BY <1>1, <1>2, SMTT(30) DEF LockdepInv, HeldIsKnown, mcs_lockdep_is_held
<1>6. OneHolder'
  BY <1>1, <1>2 DEF LockdepInv, OneHolder
<1>7. ClassesApart'
  <2>. SUFFICES ASSUME NEW u \in Threads
                PROVE  /\ \A l, m \in holds'[u] : Class[l] = Class[m] => l = m
                       /\ phase'[u] = "release" =>
                            \A l \in holds'[u] : Class[l] # Class[want'[u]]
                       /\ phase'[u] = "spin" =>
                            /\ held_class'[u] # <<>>
                            /\ Top(held_class'[u]) = Class[want'[u]]
                            /\ \A l \in holds'[u] : Class[l] < Class[want'[u]]
    BY Zenon DEF ClassesApart
  <2>1. CASE u # t
    BY <1>1, <1>2, <2>1, SMTT(30) DEF LockdepInv, ClassesApart
  <2>2. CASE u = t
    <3>1. \A l \in holds[t] : Class[l] \in Nat /\ Class[l] < Class[want[t]]
      BY <1>1 DEF LockdepInv, LockdepTypeOK, ClassesApart
    <3>2. Class[want[t]] \in Nat
      BY <1>1, SMTT(30)
    <3>3. \A l, m \in holds'[t] : Class[l] = Class[m] => l = m
      BY <1>1, <1>2, <3>1, <3>2, SMTT(30) DEF LockdepInv, ClassesApart
    <3>. QED
      BY <1>2, <2>2, <3>3, Zenon
  <2>. QED
    BY <2>1, <2>2, Zenon
<1>. QED
  BY <1>3, <1>4, <1>5, <1>6, <1>7, ZenonT(30) DEF LockdepInv

\* Unlocking, before the checker is told, preserves the invariant.
LEMMA SpinUnlockIInv ==
  ASSUME LockdepInv, NEW t \in Threads, NEW l \in Locks, Unlock(t, l)
  PROVE  LockdepInv'
<1>1. l \in holds[t] /\ UNCHANGED <<held_class, violation_count>>
  BY Zenon DEF Unlock
<1>2. /\ holds'[t] = holds[t] \ {l}
      /\ phase'[t] = "release" /\ want'[t] = l
      /\ \A u \in Threads \ {t} :
            holds'[u] = holds[u] /\ phase'[u] = phase[u] /\ want'[u] = want[u]
  BY Zenon DEF Unlock, Proceed, LockdepInv, LockdepTypeOK
<1>3. LockdepTypeOK'
  BY <1>1, Zenon DEF Unlock, Proceed, LockdepInv, LockdepTypeOK
<1>4. StackAscending'
  BY <1>1, ZenonT(30) DEF LockdepInv, StackAscending
<1>5. HeldIsKnown'
  BY <1>1, <1>2, SMTT(30) DEF LockdepInv, HeldIsKnown, mcs_lockdep_is_held
<1>6. OneHolder'
  BY <1>1, <1>2, ZenonT(40) DEF LockdepInv, OneHolder
<1>7. ClassesApart'
  BY <1>1, <1>2 DEF LockdepInv, ClassesApart
<1>. QED
  BY <1>3, <1>4, <1>5, <1>6, <1>7, Zenon DEF LockdepInv

\* The elements of s ascend.
Ascending(s) == \A i, j \in 1 .. Len(s) : i < j => s[i] < s[j]

\* r is the ascending stack s without its top.
Popped(r, s) ==
  /\ r \in Seq(1 .. MaxClass)
  /\ Len(r) = Len(s) - 1
  /\ Ascending(r)
  /\ \A i \in 1 .. Len(r) : i \in 1 .. Len(s) /\ r[i] = s[i] /\ s[i] # Top(s)
  /\ \A i \in 1 .. Len(s) : s[i] # Top(s) => i \in 1 .. Len(r)

\* Removing the top of an ascending stack leaves an ascending stack that lacks
\* only the removed class.
LEMMA PoppedStack ==
  ASSUME NEW s \in Seq(1 .. MaxClass), s # <<>>, Ascending(s),
         NEW r, r = SubSeq(s, 1, Len(s) - 1)
  PROVE  Popped(r, s)
<1>1. Len(s) \in Nat \ {0}
  OBVIOUS
<1>2. /\ r \in Seq(1 .. MaxClass)
      /\ Len(r) = Len(s) - 1
      /\ \A i \in 1 .. Len(r) : r[i] = s[i]
  <2>1. PICK n \in Nat : n = Len(s) - 1
    BY ONLY <1>1, SMTT(30)
  <2>2. r = [i \in 1 .. n |-> s[i]]
    BY <1>1, <2>1, SMTT(30)
  <2>3. \A i \in 1 .. n : s[i] \in 1 .. MaxClass
    BY <1>1, <2>1, SMTT(30)
  <2>4. r \in [1 .. n -> 1 .. MaxClass]
    BY Zenon, <2>2, <2>3
  <2>5. r \in Seq(1 .. MaxClass)
    BY <2>1, <2>4, SeqDef, SMTT(30)
  <2>6. Len(r) = n
    BY <2>1, <2>4, <2>5, LenProperties, SMTT(30)
  <2>. QED
    BY <2>1, <2>2, <2>5, <2>6, Zenon
<1>3. \A i \in 1 .. Len(r) : i \in 1 .. Len(s)
  BY <1>1, <1>2, SMTT(30)
<1>4. \A i \in 1 .. Len(s) : s[i] # Top(s) => i \in 1 .. Len(r)
  BY <1>1, <1>2, SMTT(30) DEF Top
<1>5. \A i \in 1 .. Len(r) : s[i] # Top(s)
  <2>. SUFFICES ASSUME NEW i \in 1 .. Len(r) PROVE s[i] # s[Len(s)]
    BY Zenon DEF Top
  <2>1. i \in 1 .. Len(s) /\ Len(s) \in 1 .. Len(s) /\ i < Len(s)
    BY <1>1, <1>2, SMTT(30)
  <2>2. s[i] < s[Len(s)]
    BY <2>1, Zenon DEF Ascending
  <2>3. s[i] \in Nat /\ s[Len(s)] \in Nat
    <3>1. s[i] \in 1 .. MaxClass /\ s[Len(s)] \in 1 .. MaxClass
      BY <2>1, ElementOfSeq, ZenonT(30)
    <3>. QED
      BY ONLY <3>1, SMTT(30)
  <2>. QED
    BY ONLY <2>2, <2>3
<1>6. Ascending(r)
  BY <1>2, <1>3, ZenonT(30) DEF Ascending
<1>. QED
  BY <1>2, <1>3, <1>4, <1>5, <1>6, ZenonT(30) DEF Popped

\* mcs_lockdep_after_release preserves the invariant, whether it removes the
\* class or reports a violation.
LEMMA AfterReleaseIInv ==
  ASSUME LockdepInv, NEW t \in Threads, mcs_lockdep_after_release(t)
  PROVE  LockdepInv'
<1>. DEFINE s == held_class[t]
            r == held_class'[t]
<1>1. /\ phase[t] = "release" /\ want[t] \in Locks
      /\ UNCHANGED holds
      /\ phase'[t] = "run"
      /\ \A u \in Threads \ {t} :
            /\ phase'[u] = phase[u] /\ want'[u] = want[u]
            /\ held_class'[u] = held_class[u]
  BY Zenon DEF mcs_lockdep_after_release, Proceed, LockdepInv, LockdepTypeOK
<1>2. /\ r \in Seq(1 .. MaxClass)
      /\ Len(r) <= Len(s) /\ Len(r) \in Nat /\ Len(s) \in Nat
      /\ \A i, j \in 1 .. Len(r) : i < j => r[i] < r[j]
      /\ \A i \in 1 .. Len(s) : s[i] # Class[want[t]] => i \in 1 .. Len(r) /\ r[i] = s[i]
  <2>1. CASE s # <<>> /\ Top(s) = Class[want[t]]
    <3>1. r = SubSeq(s, 1, Len(s) - 1)
      BY <2>1, Zenon DEF mcs_lockdep_after_release, LockdepInv, LockdepTypeOK
    <3>2. s \in Seq(1 .. MaxClass) /\ Ascending(s)
      BY Zenon DEF LockdepInv, LockdepTypeOK, StackAscending, Ascending
    <3>3. Popped(r, s)
      BY <2>1, <3>1, <3>2, PoppedStack, Zenon
    <3>4. Len(s) \in Nat /\ Len(r) \in Nat
      BY <3>2, <3>3, LenProperties, ZenonT(30) DEF Popped
    <3>5. Len(r) <= Len(s)
      BY <3>3, <3>4, SMTT(30) DEF Popped
    <3>. QED
      BY <2>1, <3>3, <3>4, <3>5, ZenonT(30) DEF Popped, Ascending
  <2>2. CASE ~(s # <<>> /\ Top(s) = Class[want[t]])
    BY <2>2, SMTT(30) DEF mcs_lockdep_after_release, LockdepInv, LockdepTypeOK, StackAscending
  <2>. QED
    BY <2>1, <2>2, ZenonT(30)
<1>3. LockdepTypeOK'
  <2>1. held_class' \in [Threads -> Seq(1 .. MaxClass)]
    <3>1. \E x : held_class' = [held_class EXCEPT ![t] = x]
      BY DEF mcs_lockdep_after_release, LockdepInv, LockdepTypeOK
    <3>. QED
      BY <1>1, <1>2, <3>1, ZenonT(30) DEF LockdepInv, LockdepTypeOK
  <2>2. violation_count' \in [Threads -> 0 .. MaxViolations]
    <3>1. Violation(t) \/ UNCHANGED violation_count
      BY Zenon DEF mcs_lockdep_after_release
    <3>2. violation_count \in [Threads -> 0 .. MaxViolations]
      BY Zenon DEF LockdepInv, LockdepTypeOK
    <3>. QED
      BY <3>1, <3>2, SMTT(30) DEF Violation
  <2>. QED
    BY Zenon, <1>1, <2>1, <2>2 DEF mcs_lockdep_after_release, Proceed, LockdepInv, LockdepTypeOK
<1>4. StackAscending'
  <2>1. Len(r) <= MaxHeld
    BY <1>2 DEF LockdepInv, StackAscending
  <2>. QED
    <3>. SUFFICES ASSUME NEW u \in Threads
                  PROVE  Len(held_class'[u]) <= MaxHeld /\ Ascending(held_class'[u])
      BY Zenon DEF StackAscending, Ascending
    <3>1. CASE u = t
      BY <1>2, <2>1, <3>1, Zenon DEF Ascending
    <3>2. CASE u # t
      BY <1>1, <3>2, ZenonT(30) DEF LockdepInv, StackAscending, Ascending
    <3>. QED
      BY <3>1, <3>2, Zenon
<1>5. HeldIsKnown'
  <2>1. \A l \in holds'[t] : mcs_lockdep_is_held(t, Class[l])'
    BY <1>1, <1>2, SMTT(30) DEF LockdepInv, HeldIsKnown, ClassesApart, mcs_lockdep_is_held
  <2>. QED
    <3>. SUFFICES ASSUME NEW u \in Threads
                  PROVE  /\ \A m \in holds'[u] : mcs_lockdep_is_held(u, Class[m])'
                         /\ phase'[u] = "spin" => mcs_lockdep_is_held(u, Class[want[u]])'
      BY Zenon DEF HeldIsKnown
    <3>1. CASE u = t
      BY <1>1, <2>1, <3>1, Zenon
    <3>2. CASE u # t
      <4>1. \A k : mcs_lockdep_is_held(u, k)' <=> mcs_lockdep_is_held(u, k)
        BY <1>1, <3>2, ZenonT(30) DEF mcs_lockdep_is_held
      <4>. QED
        BY <1>1, <3>2, <4>1, ZenonT(30) DEF LockdepInv, HeldIsKnown
    <3>. QED
      BY <3>1, <3>2, Zenon
<1>6. OneHolder'
  BY <1>1, ZenonT(30) DEF LockdepInv, OneHolder
<1>7. ClassesApart'
  BY <1>1, SMTT(30) DEF LockdepInv, ClassesApart
<1>. QED
  BY <1>3, <1>4, <1>5, <1>6, <1>7, Zenon DEF LockdepInv

\* Every step preserves the invariant.
LEMMA NextLockdepInv == LockdepInv /\ [LockdepNext]_lockdepVars => LockdepInv'
<1>. SUFFICES ASSUME LockdepInv, [LockdepNext]_lockdepVars PROVE LockdepInv'
  BY ZenonT(30)
<1>1. CASE UNCHANGED lockdepVars
  BY <1>1 DEF lockdepVars, LockdepInv, LockdepTypeOK, StackAscending, HeldIsKnown, OneHolder,
              ClassesApart, mcs_lockdep_is_held
<1>2. CASE LockdepNext
  <2>1. PICK t \in Threads :
          \/ Acquire(t)
          \/ \E l \in Locks : Unlock(t, l)
          \/ mcs_lockdep_after_release(t)
    BY <1>2, Zenon DEF LockdepNext
  <2>. QED
    BY <2>1, BeforeAcquireIInv, RefusedIInv, SpinLockIInv, SpinUnlockIInv,
       AfterReleaseIInv, ZenonT(30) DEF Acquire
<1>. QED
  BY <1>1, <1>2, Zenon

\* The classes on the stack of t.
Listed(t) == {held_class[t][i] : i \in 1 .. Len(held_class[t])}

\* LifoExact, with what it needs to be inductive: a thread without a release out
\* of order has the class it is releasing on top of its stack.
TidyInv ==
  \A t \in Threads \ untidy :
    /\ Listed(t) = {Class[l] : l \in holds[t]}
                     \cup (IF phase[t] = "run" THEN {} ELSE {Class[want[t]]})
    /\ phase[t] = "release" => held_class[t] # <<>> /\ Top(held_class[t]) = Class[want[t]]

\* An empty stack and no lock.
LEMMA InitTidy == LockdepInit => TidyInv
BY DEF LockdepInit, TidyInv, Listed

\* Pushing a class adds it to the listed ones.
LEMMA PushListed ==
  ASSUME NEW s \in Seq(1 .. MaxClass), NEW c \in 1 .. MaxClass
  PROVE  {Append(s, c)[i] : i \in 1 .. Len(Append(s, c))}
           = {s[i] : i \in 1 .. Len(s)} \cup {c}
<1>. DEFINE r == Append(s, c)
<1>1. Len(s) \in Nat /\ Len(r) = Len(s) + 1
  BY AppendProperties, LenProperties, ZenonT(30)
<1>2. r[Len(s) + 1] = c /\ \A i \in 1 .. Len(s) : r[i] = s[i]
  BY AppendProperties
<1>3. r[Len(r)] = c
  BY <1>1, <1>2, Zenon
<1>. HIDE DEF r
<1>4. 1 .. Len(r) = (1 .. Len(s)) \cup {Len(r)}
  BY ONLY <1>1
<1>5. {r[i] : i \in 1 .. Len(r)} = {s[i] : i \in 1 .. Len(s)} \cup {c}
  BY ONLY <1>2, <1>3, <1>4, ZenonT(40)
<1>. QED
  BY <1>5, Zenon DEF r

\* Every step preserves it.
LEMMA NextTidy == LockdepInv /\ TidyInv /\ [LockdepNext]_lockdepVars => TidyInv'
<1>. SUFFICES ASSUME LockdepInv, TidyInv, [LockdepNext]_lockdepVars PROVE TidyInv'
  BY Zenon
<1>. DEFINE Exact(u) ==
       u \notin untidy =>
         /\ Listed(u) = {Class[l] : l \in holds[u]}
                          \cup (IF phase[u] = "run" THEN {} ELSE {Class[want[u]]})
         /\ phase[u] = "release" =>
              held_class[u] # <<>> /\ Top(held_class[u]) = Class[want[u]]
<1>0. \A u \in Threads : Exact(u)
  BY Zenon DEF TidyInv
<1>1. ASSUME UNCHANGED <<held_class, phase, want, holds, untidy>> PROVE TidyInv'
  <2>1. \A u \in Threads : Listed(u)' = Listed(u)
    BY <1>1, Zenon DEF Listed
  <2>. QED
    BY <1>1, <2>1, Zenon DEF TidyInv
\* What a thread does leaves the others alone.
<1>2. ASSUME NEW t \in Threads,
             \A u \in Threads \ {t} :
               /\ held_class'[u] = held_class[u] /\ holds'[u] = holds[u]
               /\ phase'[u] = phase[u] /\ want'[u] = want[u] /\ (u \in untidy' <=> u \in untidy),
             Exact(t)'
      PROVE  TidyInv'
  <2>1. ASSUME NEW u \in Threads, u # t PROVE Exact(u)'
    <3>1. Listed(u)' = Listed(u)
      BY <1>2, <2>1, SMTT(30) DEF Listed
    <3>2. /\ held_class'[u] = held_class[u] /\ holds'[u] = holds[u]
          /\ phase'[u] = phase[u] /\ want'[u] = want[u] /\ (u \in untidy' <=> u \in untidy)
      BY <1>2, <2>1, ZenonT(30)
    <3>3. Exact(u)
      BY <1>0, Zenon
    <3>. QED
      BY ONLY <3>1, <3>2, <3>3, Zenon
  <2>. QED
    BY <1>2, <2>1, ZenonT(30) DEF TidyInv
<1>3. ASSUME NEW t \in Threads, NEW l \in Locks, mcs_lockdep_before_acquire(t, l)
      PROVE  TidyInv'
  <2>. DEFINE s == held_class[t]
  <2>1. /\ s \in Seq(1 .. MaxClass) /\ Class[l] \in 1 .. MaxClass
    BY <1>3, VerdictOK, ZenonT(30) DEF LockdepInv, LockdepTypeOK, StackAscending, mcs_lockdep_before_acquire
  <2>2. /\ held_class'[t] = Append(s, Class[l])
        /\ phase[t] = "run" /\ phase'[t] = "spin" /\ want'[t] = l
        /\ holds' = holds /\ untidy' = untidy
        /\ \A u \in Threads \ {t} :
              held_class'[u] = held_class[u] /\ phase'[u] = phase[u] /\ want'[u] = want[u]
    BY <1>3, Zenon DEF mcs_lockdep_before_acquire, Proceed, LockdepInv, LockdepTypeOK
  <2>3. Listed(t)' = Listed(t) \cup {Class[l]}
    <3>. DEFINE r == Append(s, Class[l])
    <3>1. {r[i] : i \in 1 .. Len(r)} = {s[i] : i \in 1 .. Len(s)} \cup {Class[l]}
      <4>. HIDE DEF s
      <4>. QED
        BY <2>1, PushListed, Zenon
    <3>. QED
      BY <2>2, <3>1, SMTT(30) DEF Listed
  <2>4. Exact(t)'
    BY <1>0, <2>2, <2>3, ZenonT(30)
  <2>. QED
    BY <1>2, <2>2, <2>4, ZenonT(30)
<1>4. ASSUME NEW t \in Threads, NEW l \in Locks, Refused(t, l)
      PROVE  TidyInv'
  <2>1. UNCHANGED <<held_class, phase, want, holds, untidy>>
    BY <1>4, Zenon DEF Refused
  <2>. QED
    BY <1>1, <2>1, ZenonT(30)
<1>5. ASSUME NEW t \in Threads, mcs_spin_lock(t)
      PROVE  TidyInv'
  <2>1. /\ phase[t] = "spin" /\ phase'[t] = "run"
        /\ holds'[t] = holds[t] \cup {want[t]}
        /\ held_class' = held_class /\ untidy' = untidy
        /\ \A u \in Threads \ {t} :
              holds'[u] = holds[u] /\ phase'[u] = phase[u] /\ want'[u] = want[u]
    BY <1>5, ZenonT(30) DEF mcs_spin_lock, Proceed, LockdepInv, LockdepTypeOK
  <2>2. Listed(t)' = Listed(t)
    BY <2>1, ZenonT(30) DEF Listed
  <2>3. Exact(t)'
    BY <1>0, <2>1, <2>2, SMTT(30)
  <2>. QED
    BY <1>2, <2>1, <2>3, ZenonT(30)
<1>6. ASSUME NEW t \in Threads, NEW l \in Locks, Unlock(t, l)
      PROVE  TidyInv'
  <2>1. /\ phase[t] = "run" /\ phase'[t] = "release" /\ want'[t] = l
        /\ l \in holds[t] /\ holds'[t] = holds[t] \ {l}
        /\ held_class' = held_class
        /\ t \notin untidy' => t \notin untidy /\ Class[l] = Top(held_class[t])
        /\ \A u \in Threads \ {t} :
              /\ holds'[u] = holds[u] /\ phase'[u] = phase[u] /\ want'[u] = want[u]
              /\ u \in untidy' <=> u \in untidy
    BY <1>6, Zenon DEF Unlock, Proceed, LockdepInv, LockdepTypeOK
  <2>2. Listed(t)' = Listed(t)
    BY <2>1, ZenonT(30) DEF Listed
  <2>3. held_class[t] # <<>>
    BY <2>1, SMTT(30) DEF LockdepInv, LockdepTypeOK, HeldIsKnown, mcs_lockdep_is_held
  <2>4. Exact(t)'
    BY <1>0, <2>1, <2>2, <2>3, SMTT(30)
  <2>. QED
    BY <1>2, <2>1, <2>4, ZenonT(30)
<1>7. ASSUME NEW t \in Threads, mcs_lockdep_after_release(t)
      PROVE  TidyInv'
  <2>1. /\ phase[t] = "release" /\ phase'[t] = "run" /\ holds' = holds /\ untidy' = untidy
        /\ \A u \in Threads \ {t} :
              held_class'[u] = held_class[u] /\ phase'[u] = phase[u] /\ want'[u] = want[u]
    BY <1>7, Zenon DEF mcs_lockdep_after_release, Proceed, LockdepInv, LockdepTypeOK
  <2>2. ASSUME t \notin untidy PROVE Listed(t)' = Listed(t) \ {Class[want[t]]}
    <3>1. held_class[t] # <<>> /\ Top(held_class[t]) = Class[want[t]]
      BY <1>0, <2>1, <2>2, ZenonT(30)
    <3>2. held_class'[t] = SubSeq(held_class[t], 1, Len(held_class[t]) - 1)
      BY <1>7, <3>1, Zenon DEF mcs_lockdep_after_release, LockdepInv, LockdepTypeOK
    <3>3. held_class[t] \in Seq(1 .. MaxClass) /\ Ascending(held_class[t])
      BY Zenon DEF LockdepInv, LockdepTypeOK, StackAscending, Ascending
    <3>. QED
      <4>. DEFINE s == held_class[t]
                  r == held_class'[t]
      <4>1. {r[i] : i \in 1 .. Len(r)} = {s[i] : i \in 1 .. Len(s)} \ {Top(s)}
        <5>1. Popped(r, s)
          BY <3>1, <3>2, <3>3, PoppedStack, ZenonT(30)
        <5>. HIDE DEF s, r
        <5>. QED
          BY ONLY <5>1, Zenon DEF Popped
      <4>. QED
        BY Zenon, <3>1, <4>1 DEF Listed
  <2>3. \A l \in holds[t] : Class[l] # Class[want[t]]
    BY <2>1, ZenonT(30) DEF LockdepInv, ClassesApart
  <2>4. Exact(t)'
    BY <1>0, <2>1, <2>2, <2>3, SMTT(30)
  <2>. QED
    BY <1>2, <2>1, <2>4, ZenonT(30)
<1>. HIDE DEF Exact
<1>. QED
  BY <1>1, <1>3, <1>4, <1>5, <1>6, <1>7, Zenon DEF LockdepNext, Acquire, lockdepVars

\* In every reachable state the variables have their types, the checker's stack
\* is ascending, within its bounds and complete, and a lock has one holder.
THEOREM LockOrderInvariant ==
  LockdepSpec => [](LockdepTypeOK /\ CheckerSound /\ OneHolder)
<1>1. LockdepInv => LockdepTypeOK /\ CheckerSound /\ OneHolder
  BY Zenon DEF LockdepInv, CheckerSound
<1>. QED
  BY <1>1, InitLockdepInv, NextLockdepInv, PTL DEF LockdepSpec

\* The checker's stack is exactly the set of held classes for every thread that
\* releases its locks in the opposite order of acquisition.
THEOREM LockOrderLifoExact == LockdepSpec => []LifoExact
<1>1. TidyInv => LifoExact
  BY ZenonT(30) DEF TidyInv, LifoExact, Listed
<1>. QED
  BY <1>1, InitLockdepInv, NextLockdepInv, InitTidy, NextTidy, PTL DEF LockdepSpec

\* The invariant excludes deadlock.  Were all of S waiting within S, the thread
\* of S that waits for the largest class would wait for a thread that holds
\* this class and itself waits for a larger one.
LEMMA IInvNoDeadlock == LockdepInv => NoDeadlock
<1>. SUFFICES ASSUME LockdepInv, NEW S \in SUBSET Threads, S # {},
                     \A t \in S : \E u \in S : WaitsFor(t, u)
              PROVE  FALSE
  BY Zenon DEF NoDeadlock
<1>. DEFINE distance(t) == MaxClass - Class[want[t]]
            D == {distance(t) : t \in S}
<1>1. \A t \in S : want[t] \in Locks /\ phase[t] = "spin" /\ Class[want[t]] \in 0 .. MaxClass
  BY SMTT(60) DEF WaitsFor, LockdepInv, LockdepTypeOK
<1>2. \A t \in S : distance(t) \in Nat
  BY <1>1
<1>3. D \in SUBSET Nat /\ D # {}
  BY <1>2, Zenon
<1>4. PICK d \in D : \A e \in D : d <= e
  BY Zenon, <1>3, LeastNatural
<1>5. PICK t \in S : d = distance(t)
  BY <1>4, Zenon
<1>6. PICK u \in S : WaitsFor(t, u)
  BY <1>5, Zenon
<1>7. Class[want[t]] < Class[want[u]]
  BY <1>1, <1>6, ZenonT(30) DEF WaitsFor, LockdepInv, ClassesApart
<1>8. distance(t) <= distance(u)
  BY <1>4, <1>5, Zenon
<1>. QED
  BY <1>1, <1>7, <1>8, SMTT(30)

\* Threads that take spinlocks only when mcs_lockdep_before_acquire answers OK
\* never deadlock.
THEOREM LockOrderNoDeadlock == LockdepSpec => []NoDeadlock
BY InitLockdepInv, NextLockdepInv, IInvNoDeadlock, PTL DEF LockdepSpec

HIDE LockOrderAssumption

-----------------------------------------------------------------------------
(* The mutex.                                                              *)

\* Which stores of p may still be in its buffer, and what mutex->owner holds
\* when p has the mutex.
BufferMatchesPc ==
  \A p \in Owners :
    LET b == buffer[p] IN
    /\ pc[p] = "load_owner" => b = <<>>
    /\ pc[p] = "store_owner" => b = <<>> /\ ~has[p] /\ owner = 0
    /\ pc[p] = "clear_owner" => has[p]
    /\ pc[p] = "clear_locked" => has[p]
    /\ has[p] /\ pc[p] # "clear_locked" =>
         \/ b = <<>> /\ owner = p
         \/ b = <<"own">> /\ owner = 0
    /\ pc[p] = "clear_locked" =>
         \/ b = <<>> /\ owner = 0
         \/ b = <<"own", "disown">> /\ owner = 0
         \/ b = <<"disown">> /\ owner = p
    /\ ~has[p] /\ pc[p] # "store_owner" =>
         \/ b = <<>> /\ owner # p
         \/ b = <<"own", "disown", "open">> /\ owner = 0
         \/ b = <<"disown", "open">> /\ owner = p
         \/ b = <<"open">> /\ owner = 0

IInv == TypeOK /\ BufferMatchesPc /\ MutualExclusion /\ RepliesTruthful /\ ObserversSound

USE OwnersAssumption

\* mcs_mutex_init establishes the invariant.
LEMMA InitIInv == Init => IInv
BY DEF Init, IInv, TypeOK, BufferMatchesPc, MutualExclusion, RepliesTruthful,
       ObserversSound, Holding, Buffers

\* Appending to the buffers that occur.
LEMMA Appended ==
  /\ Append(<<>>, "disown") = <<"disown">>
  /\ Append(<<"own">>, "disown") = <<"own", "disown">>
  /\ Append(<<>>, "open") = <<"open">>
  /\ Append(<<"disown">>, "open") = <<"disown", "open">>
  /\ Append(<<"own", "disown">>, "open") = <<"own", "disown", "open">>
<1>. DEFINE S == {"own", "disown", "open"}
<1>1. /\ <<"own">> \in Seq(S) /\ <<"own", "disown">> \in Seq(S)
      /\ <<"disown">> \in Seq(S) /\ <<"disown", "open">> \in Seq(S)
      /\ <<"own", "disown", "open">> \in Seq(S)
      /\ "disown" \in S /\ "open" \in S
  OBVIOUS
<1>2. Append(<<"own">>, "disown") = <<"own", "disown">>
  <2>1. /\ Append(<<"own">>, "disown") \in Seq(S)
        /\ Len(Append(<<"own">>, "disown")) = 2
        /\ \A i \in 1 .. 2 : Append(<<"own">>, "disown")[i] = <<"own", "disown">>[i]
    BY <1>1
  <2>. QED
    BY ZenonT(60), <1>1, <2>1, SeqEqual
<1>3. Append(<<"disown">>, "open") = <<"disown", "open">>
  <2>1. /\ Append(<<"disown">>, "open") \in Seq(S)
        /\ Len(Append(<<"disown">>, "open")) = 2
        /\ \A i \in 1 .. 2 : Append(<<"disown">>, "open")[i] = <<"disown", "open">>[i]
    BY <1>1
  <2>. QED
    BY ZenonT(70), <1>1, <2>1, SeqEqual
<1>4. Append(<<"own", "disown">>, "open") = <<"own", "disown", "open">>
  <2>1. /\ Append(<<"own", "disown">>, "open") \in Seq(S)
        /\ Len(Append(<<"own", "disown">>, "open")) = 3
        /\ \A i \in 1 .. 3 : Append(<<"own", "disown">>, "open")[i] =
                                <<"own", "disown", "open">>[i]
    BY <1>1, SMTT(30)
  <2>. QED
    BY ZenonT(30), <1>1, <2>1, SeqEqual
<1>5. Append(<<>>, "disown") = <<"disown">> /\ Append(<<>>, "open") = <<"open">>
  OBVIOUS
<1>. QED
  BY <1>2, <1>3, <1>4, <1>5, ZenonT(30)

\* The buffers that occur are all different.
LEMMA BuffersDiffer ==
  /\ <<"own">> # <<>> /\ <<"disown">> # <<>> /\ <<"open">> # <<>>
  /\ <<"own", "disown">> # <<>> /\ <<"disown", "open">> # <<>>
  /\ <<"own", "disown", "open">> # <<>>
  /\ <<"own">> # <<"disown">> /\ <<"own">> # <<"open">> /\ <<"disown">> # <<"open">>
  /\ <<"own", "disown">> # <<"disown", "open">>
  /\ <<"own", "disown">> # <<"own">> /\ <<"own", "disown">> # <<"disown">>
  /\ <<"own", "disown">> # <<"open">>
  /\ <<"disown", "open">> # <<"own">> /\ <<"disown", "open">> # <<"disown">>
  /\ <<"disown", "open">> # <<"open">>
  /\ <<"own", "disown", "open">> # <<"own", "disown">>
  /\ <<"own", "disown", "open">> # <<"disown", "open">>
  /\ <<"own", "disown", "open">> # <<"own">>
  /\ <<"own", "disown", "open">> # <<"disown">>
  /\ <<"own", "disown", "open">> # <<"open">>
BY Zenon

\* The value a load of mutex->owner sees, for each content of the buffer.
LEMMA OwnerSeenValue ==
  ASSUME NEW p \in Owners
  PROVE  /\ buffer[p] = <<>> => OwnerSeen(p) = owner
         /\ buffer[p] = <<"own">> => OwnerSeen(p) = p
         /\ buffer[p] = <<"own", "disown", "open">> => OwnerSeen(p) = 0
         /\ buffer[p] = <<"disown", "open">> => OwnerSeen(p) = 0
         /\ buffer[p] = <<"open">> => OwnerSeen(p) = owner
<1>1. ASSUME buffer[p] = <<>> PROVE OwnerSeen(p) = owner
  BY <1>1, SMTT(30) DEF OwnerSeen, OwnerStores
<1>2. ASSUME buffer[p] = <<"own">> PROVE OwnerSeen(p) = p
  <2>1. OwnerStores(<<"own">>) = {1}
    BY DEF OwnerStores
  <2>. QED
    BY <1>2, <2>1, SMTT(30) DEF OwnerSeen
<1>3. ASSUME buffer[p] = <<"own", "disown", "open">> PROVE OwnerSeen(p) = 0
  <2>1. OwnerStores(<<"own", "disown", "open">>) = {1, 2}
    BY DEF OwnerStores
  <2>. QED
    BY <1>3, <2>1, SMTT(30) DEF OwnerSeen
<1>4. ASSUME buffer[p] = <<"disown", "open">> PROVE OwnerSeen(p) = 0
  <2>1. OwnerStores(<<"disown", "open">>) = {1}
    BY DEF OwnerStores
  <2>. QED
    BY <1>4, <2>1, SMTT(30) DEF OwnerSeen
<1>5. ASSUME buffer[p] = <<"open">> PROVE OwnerSeen(p) = owner
  <2>1. OwnerStores(<<"open">>) = {}
    BY SMTT(30) DEF OwnerStores
  <2>. QED
    BY <1>5, <2>1, ZenonT(30) DEF OwnerSeen
<1>. QED
  BY <1>1, <1>2, <1>3, <1>4, <1>5, ZenonT(30)

\* Whatever p sees in mutex->owner outside a call, it is p's own id exactly if p
\* holds the mutex.
LEMMA OwnerSeenTruthful ==
  ASSUME IInv, NEW p \in Owners, pc[p] \in {"idle", "load_owner"}
  PROVE  OwnerSeen(p) = p <=> has[p]
<1>1. has[p] \in BOOLEAN /\ p # 0
  BY Zenon DEF IInv, TypeOK
<1>. QED
  BY <1>1, OwnerSeenValue, SMTT(30) DEF IInv, BufferMatchesPc

-----------------------------------------------------------------------------
\* Replies that change neither buffers nor ownership.
LEMMA ReplyIInv ==
  ASSUME IInv, NEW p \in Owners, NEW code \in {"EINVAL", "EBUSY", "EDEADLK", "EPERM"},
         pc[p] \in {"idle", "load_owner"}, Return(p, code),
         code = "EDEADLK" => has[p],
         code \in {"EBUSY", "EPERM"} => ~has[p],
         UNCHANGED <<locked, owner, buffer, has>>
  PROVE  IInv'
<1>1. /\ pc' = [pc EXCEPT ![p] = "idle"]
      /\ reply' = [reply EXCEPT ![p] = code]
  BY Zenon DEF Return, Goto
<1>2. TypeOK'
  BY <1>1, ZenonT(30) DEF IInv, TypeOK
<1>3. BufferMatchesPc'
  BY <1>1 DEF IInv, TypeOK, BufferMatchesPc
<1>4. \A q \in Owners : Holding(q)' <=> Holding(q)
  BY <1>1, Zenon DEF IInv, TypeOK, Holding
<1>5. MutualExclusion'
  BY <1>4, Zenon DEF IInv, MutualExclusion
<1>6. RepliesTruthful'
  BY <1>1, Zenon DEF IInv, TypeOK, RepliesTruthful
<1>7. ObserversSound'
  <2>1. owner' # 0 => Holding(owner)'
    BY <1>4, Zenon DEF IInv, TypeOK, ObserversSound
  <2>. QED
    BY <1>4, <2>1, Zenon DEF IInv, ObserversSound
<1>. QED
  BY <1>2, <1>3, <1>5, <1>6, <1>7, ZenonT(30) DEF IInv

\* The compare-and-exchange of try_lock preserves the invariant.
LEMMA TryLockCasIInv ==
  ASSUME IInv, NEW p \in Owners, TryLockCas(p)
  PROVE  IInv'
<1>1. pc[p] = "idle" /\ buffer[p] = <<>> /\ UNCHANGED <<owner, buffer, has, reply>>
  BY Zenon DEF TryLockCas
<1>2. CASE locked = 0 /\ locked' = 1 /\ Goto(p, "store_owner")
  <2>1. pc' = [pc EXCEPT ![p] = "store_owner"]
    BY <1>2, ZenonT(30) DEF Goto
  <2>2. \A q \in Owners : ~Holding(q)
    BY <1>2, SMTT(30) DEF IInv, ObserversSound
  <2>3. owner = 0
    BY <2>2, ZenonT(30) DEF IInv, TypeOK, ObserversSound
  <2>4. \A q \in Owners : Holding(q)' <=> q = p
    BY <1>1, <2>1, <2>2, ZenonT(30) DEF IInv, TypeOK, Holding
  <2>5. TypeOK'
    BY <1>1, <1>2, <2>1, ZenonT(30) DEF IInv, TypeOK
  <2>6. BufferMatchesPc'
    BY <1>1, <2>1, <2>2, <2>3, ZenonT(30) DEF IInv, TypeOK, BufferMatchesPc, Holding
  <2>7. MutualExclusion' /\ ObserversSound'
    BY <1>1, <1>2, <2>3, <2>4, ZenonT(30) DEF MutualExclusion, ObserversSound
  <2>8. RepliesTruthful'
    BY <1>1, ZenonT(30) DEF IInv, RepliesTruthful
  <2>. QED
    BY <2>5, <2>6, <2>7, <2>8, ZenonT(30) DEF IInv
<1>3. CASE locked = 1 /\ locked' = locked /\ Goto(p, "load_owner")
  <2>1. pc' = [pc EXCEPT ![p] = "load_owner"]
    BY <1>3, Zenon DEF Goto
  <2>2. \A q \in Owners : Holding(q)' <=> Holding(q)
    BY <1>1, <2>1, Zenon DEF IInv, TypeOK, Holding
  <2>3. TypeOK'
    BY <1>1, <1>3, <2>1, ZenonT(30) DEF IInv, TypeOK
  <2>4. BufferMatchesPc'
    BY <1>1, <2>1, SMTT(30) DEF IInv, TypeOK, BufferMatchesPc
  <2>5. MutualExclusion' /\ RepliesTruthful'
    BY <1>1, <2>2, Zenon DEF IInv, MutualExclusion, RepliesTruthful
  <2>6. owner' # 0 => Holding(owner)'
    BY <1>1, <2>2, Zenon DEF IInv, TypeOK, ObserversSound
  <2>7. ObserversSound'
    BY <1>3, <2>2, <2>6, ZenonT(30) DEF IInv, ObserversSound
  <2>. QED
    BY <2>3, <2>4, <2>5, <2>7, ZenonT(30) DEF IInv
<1>. QED
  BY <1>2, <1>3, Zenon DEF TryLockCas

\* A step that touches only p's buffer, pc and ownership, and leaves p with the
\* mutex, preserves mutual exclusion and what the observers see.
LEMMA StillHolding ==
  ASSUME IInv, NEW p \in Owners, Holding(p), Holding(p)',
         UNCHANGED <<locked, owner>>,
         \A q \in Owners \ {p} :
            buffer'[q] = buffer[q] /\ pc'[q] = pc[q] /\ has'[q] = has[q]
  PROVE  MutualExclusion' /\ ObserversSound'
<1>1. \A q \in Owners : Holding(q)' <=> Holding(q)
  BY Zenon DEF Holding
<1>2. owner' # 0 => Holding(owner)'
  BY <1>1, ZenonT(30) DEF IInv, TypeOK, ObserversSound
<1>. QED
  BY <1>1, <1>2, ZenonT(30) DEF IInv, MutualExclusion, ObserversSound

\* The store of the new owner preserves the invariant.
LEMMA TryLockStoreIInv ==
  ASSUME IInv, NEW p \in Owners, TryLockStore(p)
  PROVE  IInv'
<1>1. /\ pc[p] = "store_owner" /\ buffer[p] = <<>> /\ owner = 0
      /\ UNCHANGED <<locked, owner>>
  BY Zenon DEF TryLockStore, IInv, BufferMatchesPc
<1>2. /\ buffer' = [buffer EXCEPT ![p] = <<"own">>]
      /\ has' = [has EXCEPT ![p] = TRUE]
      /\ pc' = [pc EXCEPT ![p] = "idle"]
      /\ reply' = [reply EXCEPT ![p] = "OK"]
  BY <1>1 DEF TryLockStore, Store, Return, Goto
<1>3. TypeOK'
  BY <1>1, <1>2, Zenon DEF IInv, TypeOK, Buffers
<1>4. BufferMatchesPc'
  BY <1>1, <1>2, ZenonT(30) DEF IInv, TypeOK, BufferMatchesPc
<1>5. MutualExclusion' /\ ObserversSound'
  BY ZenonT(30), <1>1, <1>2, StillHolding DEF IInv, TypeOK, Holding
<1>6. RepliesTruthful'
  BY <1>2, ZenonT(30) DEF IInv, TypeOK, RepliesTruthful
<1>. QED
  BY <1>3, <1>4, <1>5, <1>6, Zenon DEF IInv

\* Entering unlock as the owner preserves the invariant.
LEMMA UnlockBeginIInv ==
  ASSUME IInv, NEW p \in Owners, pc[p] = "idle", has[p], Goto(p, "clear_owner"),
         UNCHANGED <<locked, owner, buffer, has, reply>>
  PROVE  IInv'
<1>1. pc' = [pc EXCEPT ![p] = "clear_owner"]
  BY Zenon DEF Goto
<1>2. TypeOK' /\ BufferMatchesPc'
  BY <1>1, ZenonT(40) DEF IInv, TypeOK, BufferMatchesPc
<1>3. MutualExclusion' /\ ObserversSound'
  BY <1>1, StillHolding, Zenon DEF IInv, TypeOK, Holding
<1>4. RepliesTruthful'
  BY Zenon DEF IInv, RepliesTruthful
<1>. QED
  BY <1>2, <1>3, <1>4, Zenon DEF IInv

\* The store that clears the owner preserves the invariant.
LEMMA UnlockOwnerIInv ==
  ASSUME IInv, NEW p \in Owners, UnlockOwner(p)
  PROVE  IInv'
<1>1. /\ pc[p] = "clear_owner" /\ has[p]
      /\ UNCHANGED <<locked, owner, has, reply>>
      /\ pc' = [pc EXCEPT ![p] = "clear_locked"]
      /\ buffer' = [buffer EXCEPT ![p] = Append(@, "disown")]
  BY Zenon DEF UnlockOwner, Store, Goto, IInv, BufferMatchesPc
<1>2. \/ buffer[p] = <<>> /\ owner = p
      \/ buffer[p] = <<"own">> /\ owner = 0
  BY <1>1, Zenon DEF IInv, BufferMatchesPc
<1>5. \/ buffer' = [buffer EXCEPT ![p] = <<"disown">>] /\ owner = p
      \/ buffer' = [buffer EXCEPT ![p] = <<"own", "disown">>] /\ owner = 0
  BY ZenonT(30), <1>1, <1>2, Appended
<1>6. TypeOK'
  BY ZenonT(30), <1>1, <1>5 DEF IInv, TypeOK, Buffers
<1>7. BufferMatchesPc'
  BY ZenonT(50), <1>1, <1>5 DEF IInv, TypeOK, BufferMatchesPc
<1>8. MutualExclusion' /\ ObserversSound'
  BY <1>1, <1>5, StillHolding, Zenon DEF IInv, TypeOK, Holding
<1>9. RepliesTruthful'
  BY <1>1, Zenon DEF IInv, RepliesTruthful
<1>. QED
  BY <1>6, <1>7, <1>8, <1>9, Zenon DEF IInv

\* The store that opens the lock preserves the invariant: it is only buffered.
LEMMA UnlockLockedIInv ==
  ASSUME IInv, NEW p \in Owners, UnlockLocked(p)
  PROVE  IInv'
<1>1. /\ pc[p] = "clear_locked" /\ has[p]
      /\ UNCHANGED <<locked, owner>>
      /\ pc' = [pc EXCEPT ![p] = "idle"]
      /\ has' = [has EXCEPT ![p] = FALSE]
      /\ reply' = [reply EXCEPT ![p] = "OK"]
      /\ buffer' = [buffer EXCEPT ![p] = Append(@, "open")]
  BY ZenonT(30) DEF UnlockLocked, Store, Return, Goto, IInv, BufferMatchesPc
<1>2. \/ buffer[p] = <<>> /\ owner = 0
      \/ buffer[p] = <<"own", "disown">> /\ owner = 0
      \/ buffer[p] = <<"disown">> /\ owner = p
  BY <1>1, Zenon DEF IInv, BufferMatchesPc
<1>4. \/ buffer' = [buffer EXCEPT ![p] = <<"open">>] /\ owner = 0
      \/ buffer' = [buffer EXCEPT ![p] = <<"own", "disown", "open">>] /\ owner = 0
      \/ buffer' = [buffer EXCEPT ![p] = <<"disown", "open">>] /\ owner = p
  BY ZenonT(30), <1>1, <1>2, Appended
<1>5. TypeOK'
  BY ZenonT(30), <1>1, <1>4 DEF IInv, TypeOK, Buffers
<1>6. buffer'[p] # <<>> /\ pc'[p] = "idle" /\ ~has'[p]
  BY SMTT(70), <1>1, <1>4, BuffersDiffer DEF IInv, TypeOK
<1>7. BufferMatchesPc'
  <2>1. \/ buffer'[p] = <<"open">> /\ owner' = 0
        \/ buffer'[p] = <<"own", "disown", "open">> /\ owner' = 0
        \/ buffer'[p] = <<"disown", "open">> /\ owner' = p
    BY ZenonT(30), <1>1, <1>4 DEF IInv, TypeOK
  <2>2. \A q \in Owners \ {p} : /\ buffer'[q] = buffer[q] /\ pc'[q] = pc[q]
                                /\ has'[q] = has[q] /\ owner' = owner
    BY <1>1, Zenon DEF IInv, TypeOK
  <2>. QED
    BY <1>6, <2>1, <2>2 DEF IInv, BufferMatchesPc
<1>8. MutualExclusion' /\ ObserversSound'
  <2>1. Holding(p) /\ Holding(p)'
    BY <1>1, <1>6, ZenonT(30) DEF Holding
  <2>. QED
    BY ZenonT(30), <1>1, <2>1, StillHolding DEF IInv, TypeOK
<1>9. RepliesTruthful'
  BY <1>1, Zenon DEF IInv, TypeOK, RepliesTruthful
<1>. QED
  BY <1>5, <1>7, <1>8, <1>9, Zenon DEF IInv

\* What the buffer of p tells about p, when it is not empty.
LEMMA BufferedState ==
  ASSUME IInv, NEW p \in Owners
  PROVE  /\ buffer[p] = <<"own">> => has[p] /\ pc[p] \in {"idle", "clear_owner"}
         /\ buffer[p] = <<"own", "disown">> => has[p] /\ pc[p] = "clear_locked"
         /\ buffer[p] = <<"disown">> => has[p] /\ pc[p] = "clear_locked"
         /\ buffer[p] = <<"own", "disown", "open">> => ~has[p] /\ pc[p] = "idle"
         /\ buffer[p] = <<"disown", "open">> => ~has[p] /\ pc[p] = "idle"
         /\ buffer[p] = <<"open">> => ~has[p] /\ pc[p] = "idle" /\ owner = 0
<1>1. /\ has[p] \in BOOLEAN
      /\ pc[p] \in {"idle", "load_owner", "store_owner", "clear_owner", "clear_locked"}
  BY Zenon DEF IInv, TypeOK
<1>2. /\ pc[p] \in {"load_owner", "store_owner"} => buffer[p] = <<>>
      /\ pc[p] \in {"clear_owner", "clear_locked"} => has[p]
      /\ has[p] /\ pc[p] # "clear_locked" => buffer[p] \in {<<>>, <<"own">>}
      /\ pc[p] = "clear_locked" => buffer[p] \in {<<>>, <<"own", "disown">>, <<"disown">>}
      /\ ~has[p] /\ pc[p] # "store_owner" =>
           \/ buffer[p] \in {<<>>, <<"own", "disown", "open">>, <<"disown", "open">>}
           \/ buffer[p] = <<"open">> /\ owner = 0
  BY Zenon DEF IInv, BufferMatchesPc
<1>. QED
  BY <1>1, <1>2, BuffersDiffer, ZenonT(30)

\* A store reaching memory preserves the invariant; the last one, which opens
\* the lock, ends p's possession.
LEMMA DrainIInv ==
  ASSUME IInv, NEW p \in Owners, Drain(p)
  PROVE  IInv'
<1>1. /\ UNCHANGED <<pc, has, reply>> /\ buffer[p] # <<>> /\ Holding(p)
      /\ \A q \in Owners \ {p} : buffer'[q] = buffer[q]
  BY Zenon DEF Drain, Holding, IInv, TypeOK
<1>2. \A q \in Owners \ {p} : ~Holding(q)
  BY <1>1, ZenonT(30) DEF IInv, MutualExclusion
<1>3. RepliesTruthful'
  BY <1>1, Zenon DEF IInv, RepliesTruthful
<1>4. ASSUME NEW q \in Owners \ {p}
      PROVE  /\ buffer'[q] = <<>> /\ ~has'[q]
             /\ pc'[q] \in {"idle", "load_owner"}
  <2>1. buffer[q] = <<>> /\ ~has[q] /\ pc[q] # "store_owner"
    BY <1>2, Zenon DEF Holding
  <2>2. pc[q] \in {"idle", "load_owner"}
    BY <2>1, Zenon DEF IInv, TypeOK, BufferMatchesPc
  <2>. QED
    BY <1>1, <2>1, <2>2, ZenonT(30)
<1>5. buffer[p] \in Buffers \ {<<>>}
  BY <1>1, ZenonT(30) DEF IInv, TypeOK
<1>6. CASE buffer[p] = <<"open">>
  <2>1. locked' = 0 /\ UNCHANGED owner /\ buffer' = [buffer EXCEPT ![p] = <<>>]
    BY <1>6 DEF Drain
  <2>2. ~has[p] /\ pc[p] = "idle" /\ owner = 0
    BY <1>6, BufferedState, ZenonT(30)
  <2>3. buffer'[p] = <<>> /\ ~has'[p] /\ pc'[p] = "idle" /\ owner' = 0
    BY <1>1, <2>1, <2>2, ZenonT(30) DEF IInv, TypeOK
  <2>4. TypeOK'
    BY <1>1, <2>1, <2>3, ZenonT(30) DEF IInv, TypeOK, Buffers
  <2>5. BufferMatchesPc'
    BY <1>4, <2>3, ZenonT(30) DEF BufferMatchesPc
  <2>6. \A q \in Owners : ~Holding(q)'
    BY <1>4, <2>3, ZenonT(30) DEF Holding
  <2>. QED
    BY <1>3, <2>1, <2>3, <2>4, <2>5, <2>6, SMTT(30) DEF IInv, MutualExclusion, ObserversSound
<1>7. ASSUME NEW b \in Buffers, NEW o \in {0, p},
             buffer' = [buffer EXCEPT ![p] = b], owner' = o, UNCHANGED locked,
             \/ has[p] /\ pc[p] \in {"idle", "clear_owner"} /\ b = <<>> /\ o = p
             \/ pc[p] = "clear_locked" /\ has[p] /\ b = <<"disown">> /\ o = p
             \/ pc[p] = "clear_locked" /\ has[p] /\ b = <<>> /\ o = 0
             \/ pc[p] = "idle" /\ ~has[p] /\ b = <<"disown", "open">> /\ o = p
             \/ pc[p] = "idle" /\ ~has[p] /\ b = <<"open">> /\ o = 0
      PROVE  IInv'
  <2>1. buffer'[p] = b /\ has'[p] = has[p] /\ pc'[p] = pc[p]
    BY <1>1, <1>7, ZenonT(30) DEF IInv, TypeOK
  <2>2. TypeOK'
    BY <1>1, <1>7, ZenonT(30) DEF IInv, TypeOK
  <2>3. BufferMatchesPc'
    <3>1. \A q \in Owners \ {p} : owner' # q
      BY <1>7, ZenonT(30)
    <3>. QED
      BY <1>4, <1>7, <2>1, <3>1, ZenonT(30) DEF BufferMatchesPc
  <2>4. \A q \in Owners : Holding(q)' <=> q = p
    <3>1. Holding(p)'
      BY ZenonT(30), <1>7, <2>1, BuffersDiffer DEF Holding
    <3>. QED
      BY <1>4, <3>1, SMTT(30) DEF Holding
  <2>5. locked' = 1
    BY <1>1, <1>7, ZenonT(30) DEF IInv, TypeOK, ObserversSound
  <2>. QED
    BY <1>3, <1>7, <2>2, <2>3, <2>4, <2>5, ZenonT(30) DEF IInv, MutualExclusion, ObserversSound
<1>8. /\ <<>> \in Buffers /\ <<"disown">> \in Buffers /\ <<"open">> \in Buffers
      /\ <<"disown", "open">> \in Buffers
  BY Zenon DEF Buffers
<1>9. CASE buffer[p] = <<"own">>
  <2>1. owner' = p /\ UNCHANGED locked /\ buffer' = [buffer EXCEPT ![p] = <<>>]
    BY <1>9, SMTT(30) DEF Drain
  <2>. QED
    BY ZenonT(30), <1>7, <1>8, <1>9, <2>1, BufferedState
<1>10. CASE buffer[p] = <<"own", "disown">>
  <2>1. owner' = p /\ UNCHANGED locked /\ buffer' = [buffer EXCEPT ![p] = <<"disown">>]
    BY <1>10 DEF Drain
  <2>. QED
    BY ZenonT(30), <1>7, <1>8, <1>10, <2>1, BufferedState
<1>11. CASE buffer[p] = <<"own", "disown", "open">>
  <2>1. /\ owner' = p /\ UNCHANGED locked
        /\ buffer' = [buffer EXCEPT ![p] = <<"disown", "open">>]
    BY <1>11, SMTT(30) DEF Drain
  <2>. QED
    BY ZenonT(30), <1>7, <1>8, <1>11, <2>1, BufferedState
<1>12. CASE buffer[p] = <<"disown">>
  <2>1. owner' = 0 /\ UNCHANGED locked /\ buffer' = [buffer EXCEPT ![p] = <<>>]
    BY <1>12, SMTT(30) DEF Drain
  <2>. QED
    BY ZenonT(30), <1>7, <1>8, <1>12, <2>1, BufferedState
<1>13. CASE buffer[p] = <<"disown", "open">>
  <2>1. owner' = 0 /\ UNCHANGED locked /\ buffer' = [buffer EXCEPT ![p] = <<"open">>]
    BY <1>13, SMTT(30) DEF Drain
  <2>. QED
    BY ZenonT(30), <1>7, <1>8, <1>13, <2>1, BufferedState
<1>. QED
  BY <1>5, <1>6, <1>9, <1>10, <1>11, <1>12, <1>13, ZenonT(30) DEF Buffers

\* Every step preserves the invariant.
LEMMA NextIInv == IInv /\ [Next]_vars => IInv'
<1>. SUFFICES ASSUME IInv, [Next]_vars PROVE IInv'
  BY ZenonT(30)
<1>1. CASE UNCHANGED vars
  BY <1>1, SMTT(30) DEF vars, IInv, TypeOK, BufferMatchesPc, MutualExclusion,
              RepliesTruthful, ObserversSound, Holding
<1>2. ASSUME NEW p \in Owners, RefuseOwnerZero(p) PROVE IInv'
  BY <1>2, ReplyIInv, Zenon DEF RefuseOwnerZero
<1>3. ASSUME NEW p \in Owners, TryLockBusy(p) PROVE IInv'
  <2>1. pc[p] = "load_owner" /\ (OwnerSeen(p) = p <=> has[p])
    BY <1>3, OwnerSeenTruthful, Zenon DEF TryLockBusy
  <2>. QED
    BY <1>3, <2>1, ReplyIInv, ZenonT(30) DEF TryLockBusy
<1>4. ASSUME NEW p \in Owners, UnlockLoad(p) PROVE IInv'
  <2>1. pc[p] = "idle" /\ (OwnerSeen(p) = p <=> has[p])
    BY <1>4, OwnerSeenTruthful, Zenon DEF UnlockLoad
  <2>. QED
    BY <1>4, <2>1, ReplyIInv, UnlockBeginIInv, ZenonT(30) DEF UnlockLoad
<1>. QED
  BY <1>1, <1>2, <1>3, <1>4, TryLockCasIInv, TryLockStoreIInv, UnlockOwnerIInv,
     UnlockLockedIInv, DrainIInv, ZenonT(30) DEF Next, Continue

\* At any time at most one owner has the mutex, every reply tells its caller the
\* truth about itself, and mcs_mutex_owner and mcs_mutex_is_locked never
\* contradict who has it.
THEOREM MutexSafety ==
  Spec => [](TypeOK /\ MutualExclusion /\ AnswersSound)
<1>1. IInv => TypeOK /\ MutualExclusion /\ AnswersSound
  BY Zenon DEF IInv, AnswersSound
<1>. QED
  BY <1>1, InitIInv, NextIInv, PTL DEF Spec

-----------------------------------------------------------------------------
\* As long as memory shows the mutex locked, whoever has it keeps it.
LEMMA HolderStays ==
  ASSUME IInv, Next, locked' = 1, NEW q \in Owners, Holding(q)
  PROVE  Holding(q)'
<1>1. PICK p \in Owners :
        RefuseOwnerZero(p) \/ TryLockCas(p) \/ UnlockLoad(p) \/ Continue(p) \/ Drain(p)
  BY Zenon DEF Next
<1>2. CASE RefuseOwnerZero(p)
  BY <1>2, Zenon DEF RefuseOwnerZero, Return, Goto, Holding, IInv, TypeOK
<1>3. CASE TryLockCas(p)
  BY <1>3, Zenon DEF TryLockCas, Goto, Holding, IInv, TypeOK
<1>4. CASE UnlockLoad(p)
  BY <1>4, Zenon DEF UnlockLoad, Return, Goto, Holding, IInv, TypeOK
<1>5. CASE TryLockBusy(p)
  BY <1>5, Zenon DEF TryLockBusy, Return, Goto, Holding, IInv, TypeOK
<1>6. CASE TryLockStore(p)
  BY <1>6, ZenonT(30) DEF TryLockStore, Store, Return, Goto, Holding, IInv, TypeOK
<1>7. CASE UnlockOwner(p)
  BY <1>7, SMTT(30) DEF UnlockOwner, Store, Goto, Holding, IInv, TypeOK
<1>8. CASE UnlockLocked(p)
  <2>1. q # p => Holding(q)'
    BY <1>8, Zenon DEF UnlockLocked, Store, Return, Goto, Holding, IInv, TypeOK
  <2>2. buffer'[p] = Append(buffer[p], "open")
    BY <1>8, Zenon DEF UnlockLocked, Store, IInv, TypeOK
  <2>3. Append(buffer[p], "open") # <<>>
    <3>1. buffer[p] \in {<<>>, <<"own", "disown">>, <<"disown">>}
      BY ZenonT(30), <1>8 DEF UnlockLocked, IInv, BufferMatchesPc
    <3>. QED
      BY <3>1, Appended, BuffersDiffer, ZenonT(30)
  <2>. QED
    BY <2>1, <2>2, <2>3, ZenonT(30) DEF Holding
<1>9. CASE Drain(p)
  <2>1. q # p => Holding(q)'
    BY <1>9, Zenon DEF Drain, Holding, IInv, TypeOK
  <2>2. buffer[p] # <<"open">>
    BY <1>9 DEF Drain
  <2>3. buffer[p] \in Buffers \ {<<>>, <<"open">>}
    BY <1>9, <2>2, ZenonT(30) DEF Drain, IInv, TypeOK
  <2>4. buffer[p] \in {<<"own">>, <<"own", "disown">>, <<"disown">>} => has'[p]
    BY <1>9, BufferedState, ZenonT(30) DEF Drain
  <2>5. buffer[p] = <<"own", "disown", "open">> => buffer'[p] # <<>>
    BY <1>9, SMTT(30) DEF Drain, IInv, TypeOK
  <2>6. buffer[p] = <<"disown", "open">> => buffer'[p] # <<>>
    BY <1>9 DEF Drain, IInv, TypeOK
  <2>. QED
    BY <2>1, <2>3, <2>4, <2>5, <2>6, SMTT(30) DEF Holding, Buffers
<1>. QED
  BY <1>1, <1>2, <1>3, <1>4, <1>5, <1>6, <1>7, <1>8, <1>9, ZenonT(30) DEF Continue

\* holder is the owner that has the mutex, and 0 exactly if memory shows it free.
LEMMA HolderIs ==
  ASSUME IInv
  PROVE  /\ locked = 0 => holder = 0
         /\ locked = 1 => holder \in Owners
         /\ \A p \in Owners : Holding(p) => holder = p
<1>1. \A p \in Owners : Holding(p) => holder = p
  BY Zenon DEF holder, IInv, MutualExclusion
<1>2. locked = 1 <=> \E p \in Owners : Holding(p)
  BY Zenon DEF IInv, ObserversSound
<1>3. locked = 0 => holder = 0
  BY <1>2 DEF holder
<1>4. locked = 1 => holder \in Owners
  BY <1>1, <1>2, Zenon
<1>. QED
  BY <1>1, <1>3, <1>4, Zenon

\* Every step of the mutex acquires or releases the abstract lock or leaves it
\* alone.
LEMMA StepRefines ==
  ASSUME IInv, IInv', [Next]_vars
  PROVE  [Lock!Next]_holder
<1>0. CASE UNCHANGED vars
  BY <1>0, Zenon DEF vars, holder, Holding
<1>1. CASE Next
  <2>1. /\ locked' = 0 => holder' = 0
        /\ locked' = 1 => holder' \in Owners
        /\ \A p \in Owners : Holding(p)' => holder' = p
    <3>1. \A p \in Owners : Holding(p)' => holder' = p
      BY Zenon DEF holder, IInv, MutualExclusion
    <3>. QED
      BY <3>1 DEF holder, IInv, TypeOK, ObserversSound
  <2>2. locked \in {0, 1} /\ locked' \in {0, 1}
    BY Zenon DEF IInv, TypeOK
  <2>3. CASE locked = 0 /\ locked' = 0
    BY <2>1, <2>3, HolderIs, ZenonT(30)
  <2>4. CASE locked = 0 /\ locked' = 1
    BY <2>1, <2>4, HolderIs, ZenonT(30) DEF Lock!Next, Lock!Acquire
  <2>5. CASE locked = 1 /\ locked' = 0
    BY <2>1, <2>5, HolderIs, ZenonT(30) DEF Lock!Next, Lock!Release
  <2>6. CASE locked = 1 /\ locked' = 1
    <3>1. PICK p \in Owners : Holding(p)
      BY <2>6, Zenon DEF IInv, ObserversSound
    <3>2. Holding(p)'
      BY <1>1, <2>6, <3>1, HolderStays, ZenonT(30)
    <3>. QED
      BY <2>1, <3>1, <3>2, HolderIs, ZenonT(30)
  <2>. QED
    BY <2>2, <2>3, <2>4, <2>5, <2>6, ZenonT(30)
<1>. QED
  BY <1>0, <1>1, Zenon

\* The mutex implements the abstract lock for any set of owners: try_lock and
\* unlock, store by store and with the stores delayed, look like the atomic
\* acquire and release of one holder.
THEOREM MutexRefinesLock == Spec => RefinesLock
<1>1. Init => Lock!Init
  BY InitIInv, HolderIs, ZenonT(30) DEF Init, Lock!Init
<1>. QED
  BY <1>1, InitIInv, NextIInv, StepRefines, PTL DEF Spec, RefinesLock, Lock!Spec

-----------------------------------------------------------------------------
(* The spinlock.                                                           *)

INSTANCE FiniteSetTheorems

\* The increments whose unlock has been executed, one element for each: an
\* iteration number i of w is done when fewer than i are left.
Done == {p \in Workers \X (1 .. Iterations) : p[2] > left[p[1]]}
count == Cardinality(Done)

\* The contents a buffer can have, besides none.
Counted(v) == << <<"counter", v>> >>
CountedOpen(v) == << <<"counter", v>>, <<"locked", 0>> >>
Open == << <<"locked", 0>> >>

\* Which stores may still be in the buffer of a worker, and what the counter
\* holds, for each place in the code.
StoresMatchAt ==
  \A w \in Workers :
    LET b == stores[w] IN
    /\ at[w] \in {"load", "store", "unlock"} => left[w] > 0
    /\ at[w] = "spin" => b = <<>>
    /\ at[w] = "load" => b = <<>> /\ counter = count
    /\ at[w] = "store" => b = <<>> /\ counter = count /\ loaded[w] = count
    /\ at[w] = "unlock" => \/ b = <<>> /\ counter = count + 1
                           \/ b = Counted(count + 1)
    /\ at[w] = "exchange" => \/ b = <<>>
                             \/ b = CountedOpen(count)
                             \/ b = Open /\ counter = count

\* The lock is taken exactly while somebody holds it; while it is free the
\* counter has every increment.
FreeExact ==
  /\ spin_locked = 1 <=> \E w \in Workers : InSection(w)
  /\ spin_locked = 0 => counter = count

SpinInv == SpinTypeOK /\ StoresMatchAt /\ OneInSection /\ FreeExact

USE SpinlockAssumption

-----------------------------------------------------------------------------
(* Buffers.                                                                *)

\* Appending to the buffers that occur.
LEMMA EnqueuedIs ==
  ASSUME NEW v
  PROVE  /\ Append(<<>>, <<"counter", v>>) = Counted(v)
         /\ Append(<<>>, <<"locked", 0>>) = Open
         /\ Append(Counted(v), <<"locked", 0>>) = CountedOpen(v)
<1>1. /\ Append(<<>>, <<"counter", v>>) = Counted(v)
      /\ Append(<<>>, <<"locked", 0>>) = Open
  BY DEF Counted, Open
<1>2. Append(Counted(v), <<"locked", 0>>) = CountedOpen(v)
  <2>. DEFINE c == <<"counter", v>>
              o == <<"locked", 0>>
              S == {c, o}
  <2>1. Append(<<c>>, o) = <<c, o>>
    <3>. HIDE DEF c, o
    <3>1. <<c>> \in Seq(S) /\ o \in S /\ <<c, o>> \in Seq(S)
      BY SMTT(30)
    <3>2. /\ Append(<<c>>, o) \in Seq(S)
          /\ Len(Append(<<c>>, o)) = Len(<<c, o>>)
          /\ \A i \in 1 .. Len(<<c, o>>) : Append(<<c>>, o)[i] = <<c, o>>[i]
      BY <3>1, SMTT(30)
    <3>. HIDE DEF S
    <3>. QED
      BY ZenonT(60), <3>1, <3>2, SeqEqual
  <2>. QED
    BY <2>1, ZenonT(30) DEF Counted, CountedOpen
<1>. QED
  BY <1>1, <1>2, ZenonT(30)

\* Taking the first store from the buffers that occur.
LEMMA Drained ==
  ASSUME NEW v
  PROVE  /\ Counted(v) # <<>> /\ CountedOpen(v) # <<>> /\ Open # <<>>
         /\ Head(Counted(v)) = <<"counter", v>> /\ Tail(Counted(v)) = <<>>
         /\ Head(CountedOpen(v)) = <<"counter", v>> /\ Tail(CountedOpen(v)) = Open
         /\ Head(Open) = <<"locked", 0>> /\ Tail(Open) = <<>>
BY SMTT(30) DEF Counted, CountedOpen, Open

\* A worker without buffered stores reads memory.
LEMMA SeenMemory ==
  ASSUME NEW w \in Workers, NEW x, NEW memory, stores[w] = <<>>
  PROVE  Seen(w, x, memory) = memory
BY SMTT(30) DEF Seen

-----------------------------------------------------------------------------
(* Counting.                                                               *)

\* The count is a number, at the end the number of all increments.
LEMMA CountNat ==
  ASSUME SpinTypeOK
  PROVE  /\ IsFiniteSet(Done) /\ count \in Nat
         /\ Cardinality(Workers) \in Nat
         /\ (\A w \in Workers : left[w] = 0) => count = Iterations * Cardinality(Workers)
<1>1. IsFiniteSet(1 .. Iterations) /\ Cardinality(1 .. Iterations) = Iterations
  BY FS_Interval, SMTT(30)
<1>2. /\ IsFiniteSet(Workers \X (1 .. Iterations))
      /\ Cardinality(Workers \X (1 .. Iterations)) = Cardinality(Workers) * Iterations
      /\ Cardinality(Workers) \in Nat
  BY <1>1, FS_Product, FS_CardinalityType, SMTT(30)
<1>3. IsFiniteSet(Done) /\ count \in Nat
  BY <1>2, FS_Subset, FS_CardinalityType, ZenonT(30) DEF Done, count
<1>4. ASSUME \A w \in Workers : left[w] = 0
      PROVE  Done = Workers \X (1 .. Iterations)
  BY <1>4, SMTT(30) DEF Done
<1>5. Cardinality(Workers) * Iterations = Iterations * Cardinality(Workers)
  BY <1>2, SMTT(30)
<1>. QED
  BY ZenonT(30), <1>2, <1>3, <1>4, <1>5 DEF count

\* The decrement in mcs_spin_unlock's action does one more iteration.
LEMMA CountUp ==
  ASSUME SpinTypeOK, NEW w \in Workers, left[w] > 0,
         left' = [left EXCEPT ![w] = @ - 1]
  PROVE  count' = count + 1
<1>1. left[w] \in 1 .. Iterations
  BY SMTT(30) DEF SpinTypeOK
<1>2. Done' = Done \cup {<<w, left[w]>>}
  BY <1>1, SMTT(50) DEF Done, SpinTypeOK
<1>3. <<w, left[w]>> \notin Done
  BY <1>1, SMTT(30) DEF Done
<1>. QED
  BY ZenonT(30), <1>2, <1>3, CountNat, FS_AddElement DEF count

\* Nothing else changes the count.
LEMMA CountStays ==
  ASSUME UNCHANGED left
  PROVE  count' = count
BY ZenonT(30) DEF count, Done

-----------------------------------------------------------------------------
(* The invariant is inductive.                                             *)

\* mcs_spin_init establishes the invariant.
LEMMA InitSpinInv == SpinInit => SpinInv
<1>. SUFFICES ASSUME SpinInit PROVE SpinInv
  BY ZenonT(30)
<1>1. SpinTypeOK
  BY SMTT(30) DEF SpinInit, SpinTypeOK
<1>2. Done = {}
  BY SMTT(30) DEF SpinInit, Done
<1>3. count = 0
  BY <1>2, FS_EmptySet, ZenonT(30) DEF count
<1>. QED
  BY <1>1, <1>3, SMTT(30) DEF SpinInit, SpinInv, StoresMatchAt, OneInSection, FreeExact, InSection

\* The exchange of mcs_spin_try_lock.
LEMMA TryLockStep ==
  ASSUME SpinInv, NEW w \in Workers, mcs_spin_try_lock(w)
  PROVE  SpinInv'
<1>1. count' = count /\ count \in Nat
  BY CountStays, CountNat, ZenonT(30) DEF mcs_spin_try_lock, SpinInv
<1>2. SpinTypeOK'
  BY ZenonT(30) DEF SpinInv, SpinTypeOK, mcs_spin_try_lock, GoTo
<1>3. at' = [at EXCEPT ![w] = IF spin_locked = 0 THEN "load" ELSE "spin"]
      /\ stores[w] = <<>> /\ left[w] > 0 /\ at[w] = "exchange" /\ spin_locked' = 1
      /\ UNCHANGED <<counter, stores, loaded, left>>
  BY ZenonT(30) DEF mcs_spin_try_lock, GoTo
<1>4. StoresMatchAt'
  BY <1>1, <1>3, ZenonT(30) DEF SpinInv, SpinTypeOK, StoresMatchAt, FreeExact
<1>5. \A v \in Workers : InSection(v)' <=> InSection(v) \/ (v = w /\ spin_locked = 0)
  BY <1>3, ZenonT(30) DEF SpinInv, SpinTypeOK, InSection
<1>6. ~InSection(w)
  BY <1>3, ZenonT(30) DEF InSection
<1>7. OneInSection'
  BY <1>5, SMTT(30) DEF SpinInv, SpinTypeOK, OneInSection, FreeExact
<1>8. FreeExact'
  BY <1>3, <1>5, SMTT(30) DEF SpinInv, SpinTypeOK, FreeExact
<1>. QED
  BY <1>2, <1>4, <1>7, <1>8, ZenonT(30) DEF SpinInv

\* The inner loop of mcs_spin_lock.
LEMMA SpinStep ==
  ASSUME SpinInv, NEW w \in Workers, Spin(w)
  PROVE  SpinInv'
<1>1. count' = count
  BY CountStays, ZenonT(30) DEF Spin
<1>2. /\ at[w] = "spin" /\ stores[w] = <<>>
      /\ at' = [at EXCEPT ![w] = IF spin_locked = 0 THEN "exchange" ELSE "spin"]
      /\ UNCHANGED <<spin_locked, counter, stores, loaded, left>>
  BY ZenonT(30), SeenMemory DEF Spin, GoTo, SpinInv, StoresMatchAt
<1>3. SpinTypeOK'
  BY <1>2, ZenonT(30) DEF SpinInv, SpinTypeOK
<1>4. \A v \in Workers : InSection(v)' <=> InSection(v)
  BY <1>2, ZenonT(30) DEF SpinInv, SpinTypeOK, InSection
<1>5. StoresMatchAt'
  BY <1>1, <1>2, ZenonT(30) DEF SpinInv, SpinTypeOK, StoresMatchAt
<1>. QED
  BY <1>1, <1>2, <1>3, <1>4, <1>5, ZenonT(30) DEF SpinInv, OneInSection, FreeExact

\* g_counter++: the load.
LEMMA LoadStep ==
  ASSUME SpinInv, NEW w \in Workers, LoadCounter(w)
  PROVE  SpinInv'
<1>1. count' = count
  BY CountStays, ZenonT(30) DEF LoadCounter
<1>2. /\ at[w] = "load" /\ stores[w] = <<>>
      /\ at' = [at EXCEPT ![w] = "store"]
      /\ loaded' = [loaded EXCEPT ![w] = counter]
      /\ UNCHANGED <<spin_locked, counter, stores, left>>
  <2>1. at[w] = "load" /\ stores[w] = <<>>
    BY ZenonT(30) DEF LoadCounter, SpinInv, StoresMatchAt
  <2>2. Seen(w, "counter", counter) = counter
    BY <2>1, SeenMemory, ZenonT(30)
  <2>. QED
    BY ZenonT(30), <2>1, <2>2 DEF LoadCounter, GoTo
<1>3. SpinTypeOK'
  BY <1>2, ZenonT(30) DEF SpinInv, SpinTypeOK
<1>4. \A v \in Workers : InSection(v)' <=> InSection(v)
  BY <1>2, ZenonT(30) DEF SpinInv, SpinTypeOK, InSection
<1>5. StoresMatchAt'
  BY <1>1, <1>2, ZenonT(30) DEF SpinInv, SpinTypeOK, StoresMatchAt
<1>. QED
  BY <1>1, <1>2, <1>3, <1>4, <1>5, ZenonT(30) DEF SpinInv, OneInSection, FreeExact

\* g_counter++: the store.
LEMMA StoreStep ==
  ASSUME SpinInv, NEW w \in Workers, StoreCounter(w)
  PROVE  SpinInv'
<1>1. count' = count
  BY CountStays, ZenonT(30) DEF StoreCounter
<1>2. /\ at[w] = "store" /\ stores[w] = <<>> /\ loaded[w] = count
      /\ at' = [at EXCEPT ![w] = "unlock"]
      /\ stores' = [stores EXCEPT ![w] = Counted(count + 1)]
      /\ UNCHANGED <<spin_locked, counter, loaded, left>>
  BY ZenonT(30), EnqueuedIs DEF StoreCounter, Enqueue, GoTo, SpinInv, SpinTypeOK, StoresMatchAt
<1>3. count + 1 \in Nat
  BY CountNat, SMTT(30) DEF SpinInv
<1>4. Counted(count + 1) \in Seq({"locked", "counter"} \X Nat)
  BY <1>3, SMTT(30) DEF Counted
<1>5. SpinTypeOK'
  BY <1>2, <1>4, ZenonT(30) DEF SpinInv, SpinTypeOK
<1>6. \A v \in Workers : InSection(v)' <=> InSection(v)
  BY <1>2, ZenonT(30) DEF SpinInv, SpinTypeOK, InSection
<1>7. StoresMatchAt'
  BY <1>1, <1>2, SMTT(30) DEF SpinInv, SpinTypeOK, StoresMatchAt
<1>. QED
  BY <1>1, <1>2, <1>5, <1>6, <1>7, ZenonT(30) DEF SpinInv, OneInSection, FreeExact

\* mcs_spin_unlock: its worker still holds the lock, and nobody else does.
LEMMA UnlockStep ==
  ASSUME SpinInv, NEW w \in Workers, mcs_spin_unlock(w)
  PROVE  SpinInv'
<1>1. /\ at[w] = "unlock" /\ left[w] > 0
      /\ at' = [at EXCEPT ![w] = "exchange"]
      /\ left' = [left EXCEPT ![w] = @ - 1]
      /\ stores' = [stores EXCEPT ![w] = Append(@, <<"locked", 0>>)]
      /\ UNCHANGED <<spin_locked, counter, loaded>>
  BY Zenon DEF mcs_spin_unlock, Enqueue, GoTo, SpinInv, StoresMatchAt
<1>2. count' = count + 1
  BY ZenonT(30), <1>1, CountUp DEF SpinInv
<1>3. \/ stores[w] = <<>> /\ counter = count' /\ stores'[w] = Open
      \/ stores'[w] = CountedOpen(count')
  BY ZenonT(30), <1>1, <1>2, EnqueuedIs DEF SpinInv, SpinTypeOK, StoresMatchAt
<1>4. SpinTypeOK'
  <2>1. <<"locked", 0>> \in {"locked", "counter"} \X Nat
    BY ZenonT(30)
  <2>2. stores' \in [Workers -> Seq({"locked", "counter"} \X Nat)]
    BY <1>1, <2>1, SMTT(30) DEF SpinInv, SpinTypeOK
  <2>. QED
    BY <1>1, <2>2, SMTT(30) DEF SpinInv, SpinTypeOK
<1>5. stores'[w] # <<>>
  BY <1>3, Drained, ZenonT(30)
<1>6. \A v \in Workers : InSection(v)' <=> InSection(v)
  BY SMTT(60), <1>1, <1>5 DEF SpinInv, SpinTypeOK, InSection
<1>7. InSection(w) /\ \A v \in Workers \ {w} : ~InSection(v)
  BY <1>1, Zenon DEF SpinInv, OneInSection, InSection
<1>8. spin_locked = 1
  BY <1>7, ZenonT(30) DEF SpinInv, FreeExact
<1>9. StoresMatchAt'
  BY SMTT(110), <1>1, <1>3, <1>7 DEF SpinInv, SpinTypeOK, StoresMatchAt, InSection
<1>10. FreeExact'
  BY <1>1, <1>6, <1>8 DEF SpinInv, FreeExact
<1>. QED
  BY <1>4, <1>6, <1>9, <1>10, ZenonT(30) DEF SpinInv, OneInSection

\* A store becomes visible.
LEMMA DrainStep ==
  ASSUME SpinInv, NEW w \in Workers, Flush(w)
  PROVE  SpinInv'
<1>1. /\ stores[w] # <<>>
      /\ spin_locked' = IF Head(stores[w])[1] = "locked" THEN Head(stores[w])[2] ELSE spin_locked
      /\ counter' = IF Head(stores[w])[1] = "counter" THEN Head(stores[w])[2] ELSE counter
      /\ stores' = [stores EXCEPT ![w] = Tail(@)]
      /\ UNCHANGED <<at, loaded, left>>
  BY ZenonT(30) DEF Flush
<1>2. count' = count /\ count \in Nat
  BY <1>1, CountStays, CountNat, ZenonT(30) DEF SpinInv
<1>3. InSection(w) /\ \A v \in Workers \ {w} : ~InSection(v)
  BY <1>1, ZenonT(30) DEF SpinInv, OneInSection, InSection
<1>4. spin_locked = 1
  BY <1>3, Zenon DEF SpinInv, FreeExact
<1>5. \A v \in Workers \ {w} :
         /\ InSection(v)' <=> InSection(v)
         /\ at[v] \in {"exchange", "spin"} /\ stores[v] = <<>> /\ stores'[v] = <<>>
  BY <1>1, <1>3, ZenonT(30) DEF SpinInv, SpinTypeOK, InSection
<1>6. CASE at[w] = "unlock" /\ stores[w] = Counted(count + 1)
  <2>1. spin_locked' = 1 /\ counter' = count + 1 /\ stores'[w] = <<>>
    BY <1>1, <1>4, <1>6, Drained, SMTT(60) DEF SpinInv, SpinTypeOK
  <2>2. SpinTypeOK'
    BY SMTT(60), <1>1, <1>2, <2>1 DEF SpinInv, SpinTypeOK
  <2>3. InSection(w)'
    BY <1>1, <1>6, ZenonT(60) DEF InSection
  <2>4. StoresMatchAt'
    BY SMTT(60), <1>1, <1>2, <1>5, <1>6, <2>1 DEF SpinInv, StoresMatchAt
  <2>. QED
    BY <1>3, <1>5, <2>1, <2>2, <2>3, <2>4, SMTT(60) DEF SpinInv, OneInSection, FreeExact
<1>7. CASE at[w] = "exchange" /\ stores[w] = CountedOpen(count)
  <2>1. spin_locked' = 1 /\ counter' = count /\ stores'[w] = Open
    BY SMTT(60), <1>1, <1>4, <1>7, Drained DEF SpinInv, SpinTypeOK
  <2>2. Open \in Seq({"locked", "counter"} \X Nat)
    BY SMTT(30) DEF Open
  <2>3. SpinTypeOK'
    BY SMTT(70), <1>1, <1>2, <2>1, <2>2 DEF SpinInv, SpinTypeOK
  <2>4. InSection(w)'
    BY <2>1, Drained, ZenonT(30) DEF InSection
  <2>5. StoresMatchAt'
    BY <1>1, <1>2, <1>5, <1>7, <2>1, ZenonT(40) DEF SpinInv, StoresMatchAt
  <2>. QED
    BY <1>3, <1>5, <2>1, <2>3, <2>4, <2>5, SMTT(40) DEF SpinInv, OneInSection, FreeExact
<1>8. CASE at[w] = "exchange" /\ stores[w] = Open /\ counter = count
  <2>1. spin_locked' = 0 /\ counter' = count /\ stores'[w] = <<>>
    <3>1. Head(Open) = <<"locked", 0>> /\ Tail(Open) = <<>>
      BY Drained, ZenonT(30)
    <3>. QED
      BY <1>1, <1>8, <3>1, SMTT(30) DEF SpinInv, SpinTypeOK
  <2>2. SpinTypeOK'
    BY SMTT(60), <1>1, <1>2, <2>1 DEF SpinInv, SpinTypeOK
  <2>3. ~InSection(w)'
    BY <1>1, <1>8, <2>1, ZenonT(30) DEF InSection
  <2>4. StoresMatchAt'
    BY <1>1, <1>2, <1>5, <1>8, <2>1, ZenonT(30) DEF SpinInv, StoresMatchAt
  <2>. QED
    BY <1>2, <1>3, <1>5, <2>1, <2>2, <2>3, <2>4, SMTT(60) DEF SpinInv, OneInSection, FreeExact
<1>. QED
  BY ZenonT(30), <1>1, <1>6, <1>7, <1>8 DEF SpinInv, SpinTypeOK, StoresMatchAt

\* Every step keeps the invariant.
LEMMA NextSpinInv == SpinInv /\ [SpinNext]_spinVars => SpinInv'
<1>. SUFFICES ASSUME SpinInv, [SpinNext]_spinVars PROVE SpinInv'
  BY ZenonT(30)
<1>1. CASE UNCHANGED spinVars
  BY <1>1, CountStays, SMTT(30) DEF spinVars, SpinInv, SpinTypeOK, StoresMatchAt, OneInSection,
                          FreeExact, InSection
<1>2. CASE \E w \in Workers : Step(w) \/ Flush(w)
  BY <1>2, TryLockStep, SpinStep, LoadStep, StoreStep, UnlockStep, DrainStep, ZenonT(30) DEF Step
<1>. QED
  BY <1>1, <1>2, ZenonT(30) DEF SpinNext, Joined

-----------------------------------------------------------------------------
\* When every worker has finished nobody holds the lock any more.
LEMMA FinishedExact == SpinInv => CounterExact
<1>. SUFFICES ASSUME SpinInv, Finished
              PROVE  counter = Iterations * Cardinality(Workers) /\ spin_locked = 0
  BY ZenonT(30) DEF SpinInv, CounterExact
<1>1. \A w \in Workers : ~InSection(w)
  BY DEF SpinInv, SpinTypeOK, StoresMatchAt, InSection, Finished
<1>2. spin_locked = 0 /\ counter = count
  BY <1>1, ZenonT(30) DEF SpinInv, SpinTypeOK, FreeExact
<1>. QED
  BY <1>2, CountNat, ZenonT(30) DEF SpinInv, Finished

\* For any number of workers and iterations and however long stores stay in
\* their buffers: two workers are never inside the critical section, and when
\* all have finished the counter has every increment and the lock is free.
THEOREM SpinlockSafety == SpinSpec => [](CounterExact /\ OneInSection)
<1>1. SpinInv => OneInSection
  BY ZenonT(30) DEF SpinInv
<1>. QED
  BY <1>1, InitSpinInv, NextSpinInv, FinishedExact, PTL DEF SpinSpec

\* Who holds the abstract lock, in terms of lock->locked.
LEMMA SpinHolderIs ==
  ASSUME SpinInv
  PROVE  /\ spin_locked = 0 => spin_holder = Nobody
         /\ spin_locked = 1 => spin_holder \in Workers
         /\ \A w \in Workers : InSection(w) => spin_holder = w
<1>1. \A w \in Workers : InSection(w) => spin_holder = w
  BY ZenonT(30) DEF spin_holder, SpinInv, OneInSection
<1>. QED
  BY <1>1, SMTT(30) DEF spin_holder, SpinInv, FreeExact

\* A worker that holds the lock gives it up only by its unlocking store.
LEMMA SpinHolderStays ==
  ASSUME SpinInv, SpinNext, NEW w \in Workers, InSection(w), spin_locked' = 1
  PROVE  InSection(w)'
<1>1. CASE Joined
  BY <1>1, ZenonT(30) DEF Joined, spinVars, InSection
<1>2. ASSUME NEW v \in Workers, Step(v)
      PROVE  InSection(w)'
  <2>1. CASE v # w
    BY SMTT(60), <1>2, <2>1 DEF Step, mcs_spin_try_lock, Spin, LoadCounter, StoreCounter,
                      mcs_spin_unlock, GoTo, Enqueue, InSection, SpinInv, SpinTypeOK
  <2>2. CASE v = w /\ mcs_spin_unlock(w)
    <3>1. stores'[w] = Append(stores[w], <<"locked", 0>>)
      BY <2>2, ZenonT(30) DEF mcs_spin_unlock, Enqueue, SpinInv, SpinTypeOK
    <3>2. stores[w] \in Seq({"locked", "counter"} \X Nat)
      BY ZenonT(30) DEF SpinInv, SpinTypeOK
    <3>3. stores'[w] # <<>>
      <4>1. \A q \in Seq({"locked", "counter"} \X Nat) : Append(q, <<"locked", 0>>) # <<>>
        BY SMTT(30)
      <4>. QED
        BY <3>1, <3>2, <4>1, ZenonT(30)
    <3>. QED
      BY <3>3, Zenon DEF InSection
  <2>3. CASE v = w /\ (Spin(w) \/ mcs_spin_try_lock(w))
    BY <2>3, ZenonT(30) DEF Spin, mcs_spin_try_lock, InSection, SpinInv, StoresMatchAt
  <2>4. CASE v = w /\ (LoadCounter(w) \/ StoreCounter(w))
    BY <2>4, ZenonT(30) DEF LoadCounter, StoreCounter, GoTo, InSection, SpinInv, SpinTypeOK
  <2>. QED
    BY <1>2, <2>1, <2>2, <2>3, <2>4, ZenonT(40) DEF Step
<1>3. ASSUME NEW v \in Workers, Flush(v)
      PROVE  InSection(w)'
  <2>1. SpinInv'
    BY <1>3, DrainStep, ZenonT(30)
  <2>2. v = w
    BY <1>3, ZenonT(30) DEF Flush, InSection, SpinInv, OneInSection
  <2>3. PICK u \in Workers : InSection(u)'
    BY <2>1, ZenonT(30) DEF SpinInv, FreeExact
  <2>4. CASE u # w
    BY <1>3, <2>2, <2>3, <2>4, SMTT(60) DEF Flush, InSection, SpinInv, SpinTypeOK, OneInSection
  <2>. QED
    BY <2>3, <2>4, ZenonT(30)
<1>. QED
  BY <1>1, <1>2, <1>3, ZenonT(30) DEF SpinNext

\* Every step of the spinlock acquires or releases the abstract lock or leaves
\* it alone.
LEMMA SpinStepRefines ==
  ASSUME SpinInv, SpinInv', [SpinNext]_spinVars
  PROVE  [SpinLock!Next]_spin_holder
<1>0. CASE UNCHANGED spinVars
  BY <1>0, ZenonT(30) DEF spinVars, spin_holder, InSection
<1>1. CASE SpinNext
  <2>1. /\ spin_locked' = 0 => spin_holder' = Nobody
        /\ spin_locked' = 1 => spin_holder' \in Workers
        /\ \A w \in Workers : InSection(w)' => spin_holder' = w
    <3>1. \A w \in Workers : InSection(w)' => spin_holder' = w
      BY ZenonT(30) DEF spin_holder, SpinInv, OneInSection
    <3>. QED
      BY <3>1, SMTT(30) DEF spin_holder, SpinInv, FreeExact
  <2>2. spin_locked \in {0, 1} /\ spin_locked' \in {0, 1}
    BY ZenonT(30) DEF SpinInv, SpinTypeOK
  <2>3. CASE spin_locked = 0 /\ spin_locked' = 0
    BY <2>1, <2>3, SpinHolderIs, ZenonT(30)
  <2>4. CASE spin_locked = 0 /\ spin_locked' = 1
    BY <2>1, <2>4, SpinHolderIs, ZenonT(30) DEF SpinLock!Next, SpinLock!Acquire
  <2>5. CASE spin_locked = 1 /\ spin_locked' = 0
    BY <2>1, <2>5, SpinHolderIs, ZenonT(30) DEF SpinLock!Next, SpinLock!Release
  <2>6. CASE spin_locked = 1 /\ spin_locked' = 1
    <3>1. PICK w \in Workers : InSection(w)
      BY <2>6, ZenonT(30) DEF SpinInv, FreeExact
    <3>2. InSection(w)'
      BY <1>1, <2>6, <3>1, SpinHolderStays, ZenonT(30)
    <3>. QED
      BY <2>1, <3>1, <3>2, SpinHolderIs, ZenonT(30)
  <2>. QED
    BY <2>2, <2>3, <2>4, <2>5, <2>6, ZenonT(40)
<1>. QED
  BY <1>0, <1>1, ZenonT(30)

\* The spinlock implements the abstract lock for any finite set of workers: a
\* successful exchange and the moment the unlocking store is visible look like
\* the atomic acquire and release of one holder.
THEOREM SpinlockRefinesLock == SpinSpec => SpinRefinesLock
<1>1. SpinInit => SpinLock!Init
  BY InitSpinInv, SpinHolderIs, ZenonT(30) DEF SpinInit, SpinLock!Init
<1>. QED
  BY <1>1, InitSpinInv, NextSpinInv, SpinStepRefines, PTL DEF SpinSpec, SpinRefinesLock, SpinLock!Spec

=============================================================================
