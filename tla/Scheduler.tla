------------------------------ MODULE Scheduler ------------------------------
(***************************************************************************)
(* The cooperative scheduler of mcsos/kernel/mcsos_thread.c.               *)
(*                                                                         *)
(* A state is what mcsos_scheduler_init and the calls after it leave in    *)
(* the mcsos_scheduler_t and in the mcsos_thread_t objects.  The ready     *)
(* queue is the intrusive list of the code (ready_head, ready_tail and the *)
(* next field of every thread), not a sequence: a thread that is linked    *)
(* twice really does cut the list or close it into a cycle here.           *)
(*                                                                         *)
(* There are two next-state relations.  Next is the scheduler driven as    *)
(* kmain.c and test_scheduler.c drive it: an object is prepared once, and  *)
(* a thread that is already READY is not enqueued again.  AnyNext lifts    *)
(* both restrictions and lets a caller use the exported pick_next.         *)
(*                                                                         *)
(* The statistics (switches and ticks, of a thread and of the scheduler)   *)
(* are written and never read, and are left out.                           *)
(***************************************************************************)
EXTENDS Naturals, FiniteSets, Sequences

CONSTANTS
  Threads,      \* the thread objects, the boot thread among them
  Boot,         \* boot_thread, which is also sched->idle
  NULL,         \* the null pointer
  MaxRunnable   \* bound on runnable_count when callers misuse the queue

ASSUME SchedulerAssumption ==
  /\ Boot \in Threads
  /\ NULL \notin Threads
  /\ MaxRunnable \in Nat

\* mcsos_thread_t objects are static: there are finitely many.
ASSUME ThreadsFinite == IsFiniteSet(Threads)

VARIABLES
  magic,      \* does thread->magic hold MCSOS_THREAD_MAGIC?
  state,      \* thread->state
  context,    \* what thread->context holds: nothing, an entry frame, a saved one
  rq,         \* ready_head, ready_tail, runnable_count and every thread->next
  current,    \* sched->current
  rc          \* what the last call returned

vars == <<magic, state, context, rq, current, rc>>

State == {"NEW", "READY", "RUNNING", "BLOCKED"}

\* The arguments of prepare, by the check they run into.
StackArgs == {"good", "null_argument", "bad_stack"}

-----------------------------------------------------------------------------
(* The ready list.                                                         *)

TailNotMoved(q, t) == IF q.tail = NULL THEN t ELSE q.tail

\* ready_tail after an enqueue.
TailAfter(q, t) == t

\* mcsos_sched_enqueue from line 103 on: link thread behind ready_tail.
Enqueued(q, t) ==
  [head  |-> IF q.tail = NULL THEN t ELSE q.head,
   tail  |-> TailAfter(q, t),
   next  |-> IF q.tail = NULL THEN [q.next EXCEPT ![t] = NULL]
             ELSE [q.next EXCEPT ![t] = NULL, ![q.tail] = t],
   count |-> q.count + 1]

\* mcsos_sched_pick_next from line 122 on: unlink a non-null ready_head.
Dequeued(q) ==
  LET rest == q.next[q.head] IN
  [head  |-> rest,
   tail  |-> IF rest = NULL THEN NULL ELSE q.tail,
   next  |-> [q.next EXCEPT ![q.head] = NULL],
   count |-> IF q.count > 0 THEN q.count - 1 ELSE 0]

\* The thread pick_next returns, and the list it leaves.
Picked(q) == IF q.head = NULL THEN Boot ELSE q.head
Rest(q)   == IF q.head = NULL THEN q ELSE Dequeued(q)

-----------------------------------------------------------------------------
\* The state mcsos_scheduler_init leaves.  The other thread objects are static
\* and still zero: no magic, state 0 (NEW), a null next.
Init ==
  /\ magic = [t \in Threads |-> t = Boot]
  /\ state = [t \in Threads |-> IF t = Boot THEN "RUNNING" ELSE "NEW"]
  /\ context = [t \in Threads |-> "zero"]
  /\ rq = [head |-> NULL, tail |-> NULL,
           next |-> [t \in Threads |-> NULL], count |-> 0]
  /\ current = Boot
  /\ rc = "OK"

\* A call that returns an error leaves everything else alone.
Fails(code) ==
  /\ rc' = code
  /\ UNCHANGED <<magic, state, context, rq, current>>

mcsos_thread_prepare(t, args) ==
  \/ args = "null_argument" /\ Fails("EINVAL")
  \/ args = "bad_stack" /\ Fails("ESTACK")
  \/ /\ args = "good"
     /\ magic' = [magic EXCEPT ![t] = TRUE]
     /\ state' = [state EXCEPT ![t] = "NEW"]
     /\ context' = [context EXCEPT ![t] = "entry"]
     /\ rq' = [rq EXCEPT !.next[t] = NULL]
     /\ rc' = "OK"
     /\ UNCHANGED current

mcsos_sched_enqueue(t) ==
  \/ ~magic[t] /\ Fails("EINVAL")
  \/ magic[t] /\ state[t] \notin {"NEW", "READY", "BLOCKED"} /\ Fails("ESTATE")
  \/ /\ magic[t]
     /\ state[t] \in {"NEW", "READY", "BLOCKED"}
     /\ state' = [state EXCEPT ![t] = "READY"]
     /\ rq' = Enqueued(rq, t)
     /\ rc' = "OK"
     /\ UNCHANGED <<magic, context, current>>

\* The exported pick_next, called on its own: the thread leaves the list and
\* stays READY.
mcsos_sched_pick_next ==
  /\ rq' = Rest(rq)
  /\ rc' = "OK"
  /\ UNCHANGED <<magic, state, context, current>>

RequeuesIdleToo(st, t) == st[t] = "RUNNING"

\* Line 142: only a thread that is still RUNNING, and is not the idle thread,
\* goes back into the queue when it is switched out.
Requeues(st, t) == st[t] = "RUNNING" /\ t # Boot

\* mcsos_context_switch, which stores the registers into old->context and jumps
\* to the ones in next->context.
mcsos_context_switch(ctx, old) == [ctx EXCEPT ![old] = "saved"]

\* Lines 142-156 of yield: from old to another thread, st being the thread
\* states when yield was entered.
Switch(st, old, nxt) ==
  /\ rq' = IF Requeues(st, old) THEN Enqueued(Rest(rq), old) ELSE Rest(rq)
  /\ state' = [st EXCEPT ![old] = IF Requeues(st, old) THEN "READY" ELSE @,
                         ![nxt] = "RUNNING"]
  /\ current' = nxt
  /\ context' = mcsos_context_switch(context, old)

\* The body of yield, with the thread states it is entered with.  Two of its
\* error returns cannot happen: the threads in the list and the idle thread have
\* their magic (line 135), and so has the running thread, which line 143 has
\* made READY when it is enqueued (line 145).
YieldFrom(st) ==
  /\ \/ /\ Picked(rq) = current
        /\ state' = [st EXCEPT ![current] = "RUNNING"]
        /\ rq' = Rest(rq)
        /\ UNCHANGED <<context, current>>
     \/ Picked(rq) # current /\ Switch(st, current, Picked(rq))
  /\ rc' = "OK"
  /\ UNCHANGED magic

mcsos_sched_yield == YieldFrom(state)

\* Advances two statistics counters.
mcsos_sched_tick ==
  /\ rc' = "OK"
  /\ UNCHANGED <<magic, state, context, rq, current>>

mcsos_thread_block_current ==
  \/ current = Boot /\ Fails("ESTATE")
  \/ current # Boot /\ YieldFrom([state EXCEPT ![current] = "BLOCKED"])

MarkReadyAnyState(t) == mcsos_sched_enqueue(t)

mcsos_thread_mark_ready(t) ==
  \/ ~magic[t] /\ Fails("EINVAL")
  \/ magic[t] /\ state[t] # "BLOCKED" /\ Fails("ESTATE")
  \/ magic[t] /\ state[t] = "BLOCKED" /\ mcsos_sched_enqueue(t)

-----------------------------------------------------------------------------
Next ==
  \/ \E t \in Threads, args \in StackArgs :
        ~magic[t] /\ mcsos_thread_prepare(t, args)
  \/ \E t \in Threads : state[t] # "READY" /\ mcsos_sched_enqueue(t)
  \/ mcsos_sched_yield
  \/ mcsos_sched_tick
  \/ mcsos_thread_block_current
  \/ \E t \in Threads : mcsos_thread_mark_ready(t)

Spec == Init /\ [][Next]_vars

\* Callers that prepare and enqueue whatever they like, whenever they like.
AnyNext ==
  \/ \E t \in Threads, args \in StackArgs : mcsos_thread_prepare(t, args)
  \/ \E t \in Threads : rq.count < MaxRunnable /\ mcsos_sched_enqueue(t)
  \/ mcsos_sched_pick_next
  \/ mcsos_sched_yield
  \/ mcsos_sched_tick
  \/ mcsos_thread_block_current
  \/ \E t \in Threads : rq.count < MaxRunnable /\ mcsos_thread_mark_ready(t)

AnySpec == Init /\ [][AnyNext]_vars

-----------------------------------------------------------------------------
(* The two read-only walks of the list.                                    *)

\* Cursor(n)[i] is the list cursor after i steps, for i up to n.
Cursor(n) ==
  LET c[i \in 0 .. n] == IF i = 0 THEN rq.head
                         ELSE IF c[i - 1] = NULL THEN NULL
                              ELSE rq.next[c[i - 1]]
  IN c

\* A list of more than Cardinality(Threads) links never ends.
mcsos_sched_ready_count ==
  LET n == Cardinality(Threads)
      linked == {i \in 0 .. n : Cursor(n)[i] # NULL}
  IN IF n \in linked THEN "diverges" ELSE Cardinality(linked)

CorruptUnlessMagic(t) == ~magic[t]

\* What validate accepts of no thread it meets in the list.
Corrupt(t) == ~magic[t] \/ state[t] # "READY" \/ t = current

\* The walk gives up when it has seen more than runnable_count + 1 threads.
mcsos_sched_validate ==
  LET cursor  == Cursor(rq.count + 1)
      visited == {i \in 0 .. rq.count + 1 : cursor[i] # NULL}
      count   == Cardinality(visited)
      last    == IF count = 0 THEN NULL ELSE cursor[count - 1]
  IN IF \/ \E i \in visited : Corrupt(cursor[i])
        \/ rq.count + 1 \in visited
        \/ last # rq.tail
        \/ count # rq.count
     THEN "ECORRUPT" ELSE "OK"

-----------------------------------------------------------------------------
\* Every field holds a value of its C type.
TypeOK ==
  /\ magic \in [Threads -> BOOLEAN]
  /\ state \in [Threads -> State]
  /\ context \in [Threads -> {"zero", "entry", "saved"}]
  /\ rq \in [head : Threads \cup {NULL}, tail : Threads \cup {NULL},
             next : [Threads -> Threads \cup {NULL}], count : Nat]
  /\ current \in Threads
  /\ rc \in {"OK", "EINVAL", "ESTATE", "ESTACK"}

\* The list reached from ready_head is the sequence s: each next field leads to
\* the following element, ready_tail is the last one, no thread occurs twice,
\* and runnable_count is its length.
Represents(q, s) ==
  /\ q.count = Len(s)
  /\ q.head = IF s = <<>> THEN NULL ELSE s[1]
  /\ q.tail = IF s = <<>> THEN NULL ELSE s[Len(s)]
  /\ \A i \in 1 .. Len(s) :
        q.next[s[i]] = IF i = Len(s) THEN NULL ELSE s[i + 1]
  /\ \A i, j \in 1 .. Len(s) : s[i] = s[j] => i = j

\* Whatever callers do to the list, mcsos_sched_validate accepts exactly the
\* states whose list is a proper queue of READY threads without the running
\* one; in particular its bounded walk is never fooled by a cycle, a cut list
\* or a stale ready_tail left by a second enqueue or a second prepare.  When it
\* accepts, the unbounded loop of mcsos_sched_ready_count ends and agrees with
\* runnable_count.
ValidateExact ==
  LET waiting == {t \in Threads : magic[t] /\ state[t] = "READY" /\ t # current}
      ready == UNION {[1 .. n -> waiting] : n \in 0 .. Cardinality(Threads)}
  IN /\ (mcsos_sched_validate = "OK") <=> \E s \in ready : Represents(rq, s)
     /\ mcsos_sched_validate = "OK" => mcsos_sched_ready_count = rq.count
=============================================================================
