------------------------------ MODULE MCLockOrder ------------------------------
(* Five locks for TLC: two of them share a class, and one was initialised  *)
(* with class 0, which the checker refuses.                                *)
EXTENDS LockOrder

CONSTANTS pmm, vmm, vfs, vfs2, noclass

MCLocks == {pmm, vmm, vfs, vfs2, noclass}
MCClass == [l \in MCLocks |-> CASE l = pmm -> 10
                                [] l = vmm -> 20
                                [] l \in {vfs, vfs2} -> 30
                                [] l = noclass -> 0]
=============================================================================
