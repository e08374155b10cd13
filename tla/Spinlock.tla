------------------------------- MODULE Spinlock -------------------------------
(***************************************************************************)
(* The test-and-set lock of mcsos/kernel/sync/spinlock.c and the counter   *)
(* it protects in m12_sync_host_test.c and selftest.c: every worker locks, *)
(* increments and unlocks Iterations times.  As in module Mutex a step is  *)
(* one memory access on x86-64: the exchange is a locked instruction, the  *)
(* store to the counter and the one that unlocks go through the worker's   *)
(* store buffer.                                                           *)
(***************************************************************************)
EXTENDS Naturals, Sequences, FiniteSets

CONSTANTS
  Workers,     \* THREADS of the host test
  Iterations,  \* ITERS of the host test
  Nobody       \* not a worker

ASSUME SpinlockAssumption ==
  IsFiniteSet(Workers) /\ Iterations \in Nat /\ Nobody \notin Workers

VARIABLES
  spin_locked, \* lock->locked in memory
  counter,     \* g_counter in memory
  stores,      \* per worker, its stores that are not in memory yet
  at,          \* per worker, the access it performs next
  loaded,      \* per worker, the value of g_counter it loaded
  left         \* per worker, the iterations it has left

spinVars == <<spin_locked, counter, stores, at, loaded, left>>

SpinInit ==   \* after mcs_spin_init
  /\ spin_locked = 0
  /\ counter = 0
  /\ stores = [w \in Workers |-> <<>>]
  /\ at = [w \in Workers |-> "exchange"]
  /\ loaded = [w \in Workers |-> 0]
  /\ left = [w \in Workers |-> Iterations]

GoTo(w, label) == at' = [at EXCEPT ![w] = label]

-----------------------------------------------------------------------------
(* The store buffer; an entry is a variable and the value stored to it.    *)

Enqueue(w, x, v) == stores' = [stores EXCEPT ![w] = Append(@, <<x, v>>)]

\* A load of x by w: the latest value w stored to it, or what memory holds.
Seen(w, x, memory) ==
  LET own == {i \in DOMAIN stores[w] : stores[w][i][1] = x}
  IN IF own = {} THEN memory
     ELSE stores[w][CHOOSE i \in own : \A j \in own : j <= i][2]

Flush(w) ==
  /\ stores[w] # <<>>
  /\ LET s == Head(stores[w]) IN
     /\ spin_locked' = IF s[1] = "locked" THEN s[2] ELSE spin_locked
     /\ counter' = IF s[1] = "counter" THEN s[2] ELSE counter
  /\ stores' = [stores EXCEPT ![w] = Tail(@)]
  /\ UNCHANGED <<at, loaded, left>>

-----------------------------------------------------------------------------
TestThenSet(w) ==   \* a load and a store instead of one exchange
  /\ at[w] = "exchange" /\ left[w] > 0
  /\ IF Seen(w, "locked", spin_locked) = 0
     THEN GoTo(w, "load") /\ Enqueue(w, "locked", 1)
     ELSE GoTo(w, "spin") /\ UNCHANGED stores
  /\ UNCHANGED <<spin_locked, counter, loaded, left>>

\* mcs_spin_try_lock, called by the outer loop of mcs_spin_lock.
mcs_spin_try_lock(w) ==
  /\ at[w] = "exchange" /\ left[w] > 0 /\ stores[w] = <<>>
  /\ spin_locked' = 1
  /\ GoTo(w, IF spin_locked = 0 THEN "load" ELSE "spin")
  /\ UNCHANGED <<counter, stores, loaded, left>>

\* The inner loop of mcs_spin_lock is left when the lock looks free.
Spin(w) ==
  /\ at[w] = "spin"
  /\ GoTo(w, IF Seen(w, "locked", spin_locked) = 0 THEN "exchange" ELSE "spin")
  /\ UNCHANGED <<spin_locked, counter, stores, loaded, left>>

\* g_counter++
LoadCounter(w) ==
  /\ at[w] = "load"
  /\ loaded' = [loaded EXCEPT ![w] = Seen(w, "counter", counter)]
  /\ GoTo(w, "store")
  /\ UNCHANGED <<spin_locked, counter, stores, left>>

StoreCounter(w) ==
  /\ at[w] = "store"
  /\ Enqueue(w, "counter", loaded[w] + 1)
  /\ GoTo(w, "unlock")
  /\ UNCHANGED <<spin_locked, counter, loaded, left>>

UnlockOvertakes(w) ==   \* the unlocking store overtakes the buffered ones
  /\ at[w] = "unlock"
  /\ spin_locked' = 0
  /\ left' = [left EXCEPT ![w] = @ - 1]
  /\ GoTo(w, "exchange")
  /\ UNCHANGED <<counter, stores, loaded>>

SpinUnlockForgotten(w) ==
  /\ at[w] = "unlock"
  /\ left' = [left EXCEPT ![w] = @ - 1]
  /\ GoTo(w, "exchange")
  /\ UNCHANGED <<spin_locked, counter, stores, loaded>>

mcs_spin_unlock(w) ==
  /\ at[w] = "unlock"
  /\ Enqueue(w, "locked", 0)
  /\ left' = [left EXCEPT ![w] = @ - 1]
  /\ GoTo(w, "exchange")
  /\ UNCHANGED <<spin_locked, counter, loaded>>

-----------------------------------------------------------------------------
Step(w) ==
  \/ mcs_spin_try_lock(w) \/ Spin(w)
  \/ LoadCounter(w) \/ StoreCounter(w)
  \/ mcs_spin_unlock(w)

Finished == \A w \in Workers : left[w] = 0 /\ stores[w] = <<>>

\* pthread_join has returned for every worker.
Joined == Finished /\ UNCHANGED spinVars

SpinNext == Joined \/ \E w \in Workers : Step(w) \/ Flush(w)

\* Every worker keeps executing and every store buffer drains.  The exchange
\* itself is only weakly fair: a test-and-set lock may pass over a worker any
\* number of times.
SpinSpec == /\ SpinInit /\ [][SpinNext]_spinVars
        /\ \A w \in Workers : WF_spinVars(Step(w)) /\ WF_spinVars(Flush(w))

-----------------------------------------------------------------------------
\* Every variable holds a value of its type.
SpinTypeOK ==
  /\ spin_locked \in {0, 1}
  /\ counter \in Nat
  /\ stores \in [Workers -> Seq({"locked", "counter"} \X Nat)]
  /\ at \in [Workers -> {"exchange", "spin", "load", "store", "unlock"}]
  /\ loaded \in [Workers -> Nat]
  /\ left \in [Workers -> 0 .. Iterations]

\* w won the exchange and its unlocking store is not visible yet.
InSection(w) == at[w] \in {"load", "store", "unlock"} \/ stores[w] # <<>>

spin_holder == IF \E w \in Workers : InSection(w)
          THEN CHOOSE w \in Workers : InSection(w) ELSE Nobody

SpinLock == INSTANCE AbstractLock WITH Procs <- Workers, holder <- spin_holder

\* The spinlock implements the abstract lock.
SpinRefinesLock == SpinLock!Spec

\* Two workers are never between the exchange that won the lock and the moment
\* their unlocking store is visible.
OneInSection == \A v, w \in Workers : InSection(v) /\ InSection(w) => v = w

\* The types, and what the host test asserts when its workers have finished,
\* "spinlock-protected counter exact" and "spinlock unlocked after test": no
\* increment is lost, whatever the interleaving and however long the stores
\* stay in their buffers.
CounterExact ==
  SpinTypeOK /\ (Finished => counter = Iterations * Cardinality(Workers) /\ spin_locked = 0)

\* The workers finish although the lock is not fair: the ones that overtake
\* a spinning worker run out of iterations.
EveryWorkerFinishes == <>Finished
=============================================================================
