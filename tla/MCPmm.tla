-------------------------------- MODULE MCPmm --------------------------------
(***************************************************************************)
(* Module Pmm on an address space of 8 pages of 3 bytes, the lower 4 (or   *)
(* 3) of which may be memory.                                              *)
(***************************************************************************)
EXTENDS Pmm

Entry(b, l, t) == [base |-> b, length |-> l, type |-> t]

\* Entries out of a grid: empty, odd, overlapping, reaching over the end of
\* memory and over the end of the address space.
SomeEntries == {Entry(b, l, t) : b \in {0, 2, 3, 5, 7, 19, 22}, l \in {0, 1, 3, 6, 10, 15},
                                 t \in {"USABLE", "ACPI_NVS"}}

\* Lists of at most two entries, all of which are handed over; and lists whose
\* third entry is not, or whose second one has a type that is not known.
MCLists ==
  {<<>>} \cup {<<e>> : e \in SomeEntries} \cup {<<e, f>> : e, f \in SomeEntries}
  \cup {<<e, Entry(3, 5, "USABLE"), f>> : e, f \in SomeEntries}
  \cup {<<e, Entry(b, 3, "UNKNOWN")>> : e \in SomeEntries, b \in {2, 3, 6}}

\* Good arguments; no memory; half a page; a bitmap that is too small.
MCInitArgs == {<<12, 1>>, <<9, 1>>, <<0, 1>>, <<10, 1>>, <<12, 0>>}

MCReserveArgs == {0, 2, 3, 7, 20, 21} \X {0, 1, 4, 23}
=============================================================================
