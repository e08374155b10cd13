--------------------------- MODULE MCThreadContext ---------------------------
(***************************************************************************)
(* Module ThreadContext on an address space of 64 bytes with words of 2:   *)
(* the stacks of the threads are adjacent and begin at odd addresses.      *)
(***************************************************************************)
EXTENDS ThreadContext

CONSTANTS ta, tb, tc

\* For each thread one good array.  Besides, a null pointer, an array that is
\* one byte short, and one that reaches over the end of the address space.
MCStacksOf ==
  [t \in Threads |-> IF t = ta THEN {<<1, 12>>, <<0, 12>>}
                     ELSE IF t = tb THEN {<<13, 13>>, <<13, 11>>}
                     ELSE IF t = tc THEN {<<26, 14>>, <<55, 12>>}
                     ELSE {}]
MCBootStack == <<42, 12>>
=============================================================================
