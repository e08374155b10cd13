------------------------------ MODULE RoundRobin ------------------------------
(***************************************************************************)
(* What the scheduler promises: one running thread, the ready threads in   *)
(* the order in which they became ready, and an idle thread that runs when *)
(* nobody is ready and never waits in the queue itself.                    *)
(***************************************************************************)
EXTENDS Naturals, Sequences

CONSTANTS Threads, Idle

VARIABLES
  running,   \* the thread on the CPU
  ready,     \* the threads waiting for it, first come first served
  parked     \* the threads that do not want it (not started, or blocked)

Init ==
  /\ running = Idle
  /\ ready = <<>>
  /\ parked = Threads \ {Idle}

First == IF ready = <<>> THEN Idle ELSE Head(ready)
Others == IF ready = <<>> THEN <<>> ELSE Tail(ready)

\* A parked thread joins the queue.
Admit(t) ==
  /\ t \in parked
  /\ ready' = Append(ready, t)
  /\ parked' = parked \ {t}
  /\ UNCHANGED running

\* The first ready thread takes over, and the one that ran goes to the end.
Rotate ==
  /\ running' = First
  /\ ready' = IF running = Idle THEN Others ELSE Append(Others, running)
  /\ UNCHANGED parked

\* The running thread stops wanting the CPU.
Park ==
  /\ running # Idle
  /\ running' = First
  /\ ready' = Others
  /\ parked' = parked \cup {running}

Next == Rotate \/ Park \/ \E t \in Threads : Admit(t)

Spec == Init /\ [][Next]_<<running, ready, parked>>
=============================================================================
