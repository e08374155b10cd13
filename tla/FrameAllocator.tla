---------------------------- MODULE FrameAllocator ----------------------------
(***************************************************************************)
(* What the physical memory manager promises once it is initialised: a set *)
(* of free frames, out of which allocation takes the lowest one, and which *)
(* is reported exhausted only when it is empty.                            *)
(***************************************************************************)
EXTENDS Naturals

CONSTANT Exhausted

VARIABLES
  ready,   \* has the allocator been given its memory map?
  free,    \* the free frames
  last     \* the frame the last allocation returned

\* The memory map says which frames are free; frame 0 never is.
Start ==
  /\ ~ready /\ ready'
  /\ free' \subseteq Nat /\ 0 \notin free'
  /\ last' = last

Alloc ==
  \/ /\ free = {} \/ ~ready
     /\ last' = Exhausted
     /\ UNCHANGED <<ready, free>>
  \/ /\ ready
     /\ last' \in free
     /\ \A f \in free : last' <= f
     /\ free' = free \ {last'}
     /\ UNCHANGED ready

Free ==
  /\ ready
  /\ \E f \in free' \ free : f # 0 /\ free' = free \cup {f}
  /\ UNCHANGED <<ready, last>>

Reserve ==
  /\ ready
  /\ free' \subseteq free
  /\ UNCHANGED <<ready, last>>

Init == ready = FALSE /\ free = {} /\ last = Exhausted

Next == Start \/ Alloc \/ Free \/ Reserve

Spec == Init /\ [][Next]_<<ready, free, last>>
=============================================================================
