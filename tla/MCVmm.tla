-------------------------------- MODULE MCVmm --------------------------------
(***************************************************************************)
(* Module Vmm with tables of two entries and fewer frames than the         *)
(* addresses need.                                                         *)
(***************************************************************************)
EXTENDS Vmm

V(a, b, c, d) == [idx |-> <<a, b, c, d>>, offset |-> 0,
                  upper |-> IF a = 1 THEN "ones" ELSE "zeros"]

\* Pages that share three, one and no tables below the root, one that is not canonical and
\* one that is not aligned.
MCVAddrs == {V(0, 0, 0, 0), V(0, 0, 0, 1), V(0, 1, 0, 0), V(1, 0, 0, 0),
             [V(0, 0, 0, 0) EXCEPT !.upper = "ones"],
             [V(0, 0, 0, 0) EXCEPT !.offset = 1]}

\* A frame, one whose number does not fit into an entry, an unaligned address.
MCMappings == {[paddr |-> [page |-> 9, offset |-> 0], flags |-> {"W", "U"}],
               [paddr |-> [page |-> 19, offset |-> 0], flags |-> {"HUGE", "DIRTY"}],
               [paddr |-> [page |-> 9, offset |-> 1], flags |-> {"W"}]}
=============================================================================
