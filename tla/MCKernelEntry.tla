---------------------------- MODULE MCKernelEntry ----------------------------
(***************************************************************************)
(* Module KernelEntry with words of 3 bits in system calls and a radix of  *)
(* 4 in the gates.                                                         *)
(***************************************************************************)
EXTENDS KernelEntry

MCStubAddress == [v \in 0 .. 31 |-> 7 * v + 3]
MCOpSets == {{"write_serial", "yield_current"}}
MCUserRegions == {[base |-> 4, limit |-> 7], [base |-> 6, limit |-> 3]}

\* Every number, and for write_serial a good buffer, a null one, one that is too
\* long, and one that ends behind the region.
MCSyscallArgs ==
  {<<n, 5, 2>> : n \in 0 .. 5} \cup {<<2, 0, 1>>, <<2, 4, 3>>, <<2, 6, 2>>}
=============================================================================
