----------------------------- MODULE AbstractHeap -----------------------------
(***************************************************************************)
(* What the kernel heap promises: an allocation is an aligned range of     *)
(* bytes of the arena that overlaps no other live allocation, it stays     *)
(* where it is until it is freed, and only it disappears then.             *)
(***************************************************************************)
EXTENDS Naturals

CONSTANT Align

VARIABLES
  arena,   \* the bytes the heap may hand out, or {} before it has any
  live     \* the live allocations: address |-> requested length

Bytes(p, n) == p .. p + n - 1

\* A function with one more, or one fewer, element in its domain.
With(f, p, n) == [q \in DOMAIN f \cup {p} |-> IF q = p THEN n ELSE f[q]]
Without(f, p) == [q \in DOMAIN f \ {p} |-> f[q]]

Init == arena = {} /\ live = [p \in {} |-> 0]

\* The heap is given an arena, while nothing is allocated.
Setup == DOMAIN live = {} /\ live' = live

Alloc ==
  \E p \in DOMAIN live' \ DOMAIN live :
    /\ live' = With(live, p, live'[p])
    /\ p % Align = 0 /\ live'[p] > 0
    /\ Bytes(p, live'[p]) \subseteq arena
    /\ \A q \in DOMAIN live : Bytes(p, live'[p]) \cap Bytes(q, live[q]) = {}
    /\ UNCHANGED arena

Free ==
  \E p \in DOMAIN live : live' = Without(live, p) /\ UNCHANGED arena

Next == Setup \/ Alloc \/ Free

Spec == Init /\ [][Next]_<<arena, live>>
=============================================================================
