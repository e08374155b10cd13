------------------------------- MODULE Syscall -------------------------------
(***************************************************************************)
(* The system calls of mcsos/kernel/syscall/syscall.c: the table of        *)
(* operations the kernel installs, the user region, the check of a user    *)
(* address range and the dispatcher.                                       *)
(*                                                                         *)
(* Addresses and lengths are machine words: sums wrap around at WordSize.  *)
(* What an installed operation returns is chosen by the environment (r).   *)
(* Module KernelEntry adds the way into the dispatcher and back.           *)
(***************************************************************************)
EXTENDS Integers, FiniteSets

CONSTANTS
  WordSize,     \* 2^64
  MaxWrite,     \* 4096, the longest buffer sys_write_serial takes
  OpResults     \* what installed operations may return

ASSUME SyscallAssumption ==
  /\ WordSize \in Nat \ {0}
  /\ MaxWrite \in Nat
  /\ OpResults \subseteq Int

VARIABLES
  g_ops,            \* which function each operation pointer refers to
  g_user_region     \* base and limit

syscallVars == <<g_ops, g_user_region>>

Word == 0 .. WordSize - 1
Region == [base : Word, limit : Word]
Ops == {"get_ticks", "yield_current", "exit_current", "write_serial"}

MCSOS_OK     == 0
MCSOS_EINVAL == -22
MCSOS_ENOSYS == -38
MCSOS_EFAULT == -14
MCSOS_EBUSY  == -16
PingMagic    == 637862410    \* 0x2605020A

\* The table of lines 90-96; its index begins at 0.
g_table ==
  <<"sys_ping", "sys_get_ticks", "sys_write_serial", "sys_yield", "sys_exit_thread">>
MCSOS_SYS_MAX == 5

-----------------------------------------------------------------------------
\* Line 33.
LastByte(addr, len) == (addr + len - 1) % WordSize

NoWrapTest(addr, len) ==
  \/ len = 0
  \/ /\ g_user_region.base # 0 /\ g_user_region.base < g_user_region.limit
     /\ g_user_region.base <= addr /\ addr <= g_user_region.limit
     /\ LastByte(addr, len) < g_user_region.limit

mcsos_user_check_range(addr, len) ==
  \/ len = 0
  \/ /\ g_user_region.base # 0 /\ g_user_region.base < g_user_region.limit
     /\ g_user_region.base <= addr /\ addr <= g_user_region.limit
     /\ addr <= LastByte(addr, len)
     /\ LastByte(addr, len) < g_user_region.limit

-----------------------------------------------------------------------------
(* The five system calls: what each returns, and the operation it calls.   *)
(* r is what an installed operation returns when it is called.             *)

Returns(ret)      == [call |-> "none", ret |-> ret]
Calls(op, ret)    == [call |-> op, ret |-> ret]

sys_get_ticks(r) ==
  IF g_ops["get_ticks"] = "null" THEN Returns(MCSOS_EBUSY) ELSE Calls("get_ticks", r)

\* The operation that stands in until write_serial is installed: it writes
\* nothing and returns the length.
default_write_serial(len) == len

UncheckedWrite(ptr, len, r) ==
  IF ptr = 0 \/ len > MaxWrite THEN Returns(MCSOS_EINVAL)
  ELSE Calls("write_serial", IF g_ops["write_serial"] = "default"
                             THEN default_write_serial(len) ELSE r)

sys_write_serial(ptr, len, r) ==
  IF ptr = 0 \/ len > MaxWrite THEN Returns(MCSOS_EINVAL)
  ELSE IF ~mcsos_user_check_range(ptr, len) THEN Returns(MCSOS_EFAULT)
  ELSE Calls("write_serial", IF g_ops["write_serial"] = "default"
                             THEN default_write_serial(len) ELSE r)

sys_yield ==
  IF g_ops["yield_current"] = "null" THEN Returns(MCSOS_EBUSY)
  ELSE Calls("yield_current", MCSOS_OK)

sys_exit_thread ==
  IF g_ops["exit_current"] = "null" THEN Returns(MCSOS_EBUSY)
  ELSE Calls("exit_current", MCSOS_OK)

mcsos_syscall_dispatch(nr, arg0, arg1, r) ==
  IF nr >= MCSOS_SYS_MAX THEN Returns(MCSOS_ENOSYS)
  ELSE LET fn == g_table[nr + 1] IN
       IF fn = "sys_ping" THEN Returns(PingMagic)
       ELSE IF fn = "sys_get_ticks" THEN sys_get_ticks(r)
       ELSE IF fn = "sys_write_serial" THEN sys_write_serial(arg0, arg1, r)
       ELSE IF fn = "sys_yield" THEN sys_yield
       ELSE sys_exit_thread

\* dst is never null here: a null dst is refused before anything is read.
mcsos_copy_from_user(src, len) ==
  IF len = 0 THEN Returns(MCSOS_OK)
  ELSE IF src = 0 THEN Returns(MCSOS_EINVAL)
  ELSE IF ~mcsos_user_check_range(src, len) THEN Returns(MCSOS_EFAULT)
  ELSE Calls("copy", MCSOS_OK)

-----------------------------------------------------------------------------
\* The static variables before any call.
SyscallInit ==
  /\ g_ops = [o \in Ops |-> "null"]
  /\ g_user_region = [base |-> 0, limit |-> 0]

\* ops: the members of *ops that are not null.
mcsos_syscall_init(ops) ==
  /\ g_ops' = [o \in Ops |-> IF o \in ops THEN "given"
                             ELSE IF o = "write_serial" THEN "default" ELSE "null"]
  /\ UNCHANGED g_user_region

mcsos_syscall_set_user_region(region) ==
  /\ g_user_region' = region
  /\ UNCHANGED g_ops

\* Before mcsos_syscall_init the pointer write_serial is null; the kernel
\* dispatches no system call before it.
Initialised == g_ops["write_serial"] # "null"

\* System calls and copies change neither variable.
SyscallNext ==
  \/ \E ops \in SUBSET Ops : mcsos_syscall_init(ops)
  \/ \E region \in Region : mcsos_syscall_set_user_region(region)

SyscallSpec == SyscallInit /\ [][SyscallNext]_syscallVars

-----------------------------------------------------------------------------
\* Does the region hold the len bytes from addr on, counted without wrapping?
InRegion(addr, len) ==
  \A b \in addr .. addr + len - 1 :
     g_user_region.base <= b /\ b < g_user_region.limit

\* mcsos_user_check_range accepts exactly the ranges that lie in a region that
\* does not begin at 0, for every address and length of a machine word, however
\* the region was set: no sum that wraps around gets past it, and no range that
\* ends with the region is refused.
RangeExact ==
  \A addr, len \in Word :
     mcsos_user_check_range(addr, len) <=>
       (len = 0 \/ (g_user_region.base # 0 /\ InRegion(addr, len)))

\* Whatever system call is dispatched and whatever is copied: the kernel reads
\* user memory, in mcsos_copy_from_user or in the operation behind write_serial,
\* only inside the region that is set at that moment; and an operation that is
\* called is one that mcsos_syscall_init has installed.
ReadsInsideRegion ==
  Initialised =>
    \A ptr, len \in Word :
       /\ mcsos_copy_from_user(ptr, len).call = "copy" => InRegion(ptr, len)
       /\ \A nr \in 0 .. MCSOS_SYS_MAX, r \in OpResults :
            LET outcome == mcsos_syscall_dispatch(nr, ptr, len, r) IN
            /\ outcome.call = "write_serial" => InRegion(ptr, len)
            /\ outcome.call # "none" => g_ops[outcome.call] # "null"
=============================================================================
