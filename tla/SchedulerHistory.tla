--------------------------- MODULE SchedulerHistory ---------------------------
(***************************************************************************)
(* Module Scheduler with one history variable: queue, the threads in the   *)
(* order in which they were enqueued.  It is what the linked list should   *)
(* represent; no step of the scheduler depends on it.                      *)
(***************************************************************************)
EXTENDS Scheduler

VARIABLE queue

hvars == <<vars, queue>>

HInit == Init /\ queue = <<>>

Others == IF queue = <<>> THEN <<>> ELSE Tail(queue)

Prepare(t, args) ==
  ~magic[t] /\ mcsos_thread_prepare(t, args) /\ UNCHANGED queue

Admitted(t) == queue' = IF rc' = "OK" THEN Append(queue, t) ELSE queue

EnqueueThread(t) ==
  state[t] # "READY" /\ mcsos_sched_enqueue(t) /\ Admitted(t)

MarkReady(t) == mcsos_thread_mark_ready(t) /\ Admitted(t)

Yield ==
  /\ mcsos_sched_yield
  /\ queue' = IF current = Boot THEN Others ELSE Append(Others, current)

Tick == mcsos_sched_tick /\ UNCHANGED queue

BlockCurrent ==
  /\ mcsos_thread_block_current
  /\ queue' = IF current = Boot THEN queue ELSE Others

HNext ==
  \/ \E t \in Threads, args \in StackArgs : Prepare(t, args)
  \/ \E t \in Threads : EnqueueThread(t)
  \/ Yield
  \/ Tick
  \/ BlockCurrent
  \/ \E t \in Threads : MarkReady(t)

HSpec == HInit /\ [][HNext]_hvars

-----------------------------------------------------------------------------
\* The linked list of the ready queue is always the sequence of the enqueued
\* threads: enqueue, pick_next and the requeueing yield never lose, duplicate
\* or reorder one.
QueueRepresented == queue \in Seq(Threads) /\ Represents(rq, queue)

\* thread->state agrees with the place the thread is in: READY in the queue and
\* nowhere else, RUNNING on the CPU (the idle thread keeps RUNNING while others
\* run), and the idle thread is never in the queue.
StatesMatchQueue ==
  /\ \A t \in Threads :
        state[t] = "READY" <=> \E i \in 1 .. Len(queue) : queue[i] = t
  /\ \A t \in Threads : state[t] = "RUNNING" <=> t \in {current, Boot}
  /\ \A t \in Threads : state[t] # "NEW" => magic[t]

\* The ready list, the thread states and the order of enqueueing agree: yield,
\* block_current, mark_ready and enqueue, in any sequence, keep the linked list
\* equal to the queue and every thread in the place its state names.
ReadyQueueExact == QueueRepresented /\ StatesMatchQueue

parked == {t \in Threads : state[t] \in {"NEW", "BLOCKED"}}

RR == INSTANCE RoundRobin WITH
        Idle <- Boot, running <- current, ready <- queue, parked <- parked

\* The scheduler implements the abstract round-robin queue.
RefinesRoundRobin == RR!Spec
=============================================================================
