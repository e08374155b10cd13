---------------------------- MODULE KernelEntry ----------------------------
(***************************************************************************)
(* The ways into the kernel together: exceptions (module Trap) and system  *)
(* calls (module Syscall) through x86_64_syscall_int80_stub of             *)
(* syscall_entry.S.  An exception may hit a system call, and a breakpoint  *)
(* in one returns to it.                                                   *)
(*                                                                         *)
(* Nothing in the repository installs the stub; here a gate of vector 128  *)
(* leads to it.  cpu["rip"] has three more values:                         *)
(*   "int80"     x86_64_syscall_int80_stub up to the call                  *)
(*   "syscall"   mcsos_syscall_dispatch_frame                              *)
(*   "int80ret"  the stub behind the call                                  *)
(***************************************************************************)
EXTENDS Trap, Syscall

CONSTANTS
  OpSets,       \* the sets of operations that callers install
  UserRegions,  \* the regions they set
  SyscallArgs   \* the (number, pointer, length) they call with

ASSUME KernelEntryAssumption ==
  /\ OpSets \subseteq SUBSET Ops
  /\ UserRegions \subseteq Region
  /\ SyscallArgs \subseteq Word \X Word \X Word

VARIABLE
  answer    \* history: the arguments and the result of the last dispatch

vars == <<trapVars, syscallVars, answer>>

NoAnswer == [args |-> <<0, 0, 0>>, ret |-> 0]

\* struct mcsos_syscall_frame, and the registers the stub stores in its words.
mcsos_syscall_frame == <<"nr", "arg0", "arg1", "arg2", "arg3", "arg4", "arg5", "ret">>

Stores == <<"rax", "rdi", "rsi", "rdx", "r10", "r8", "r9">>

\* The eight words, as they lie on the stack: the last one has the lowest address.
StoredFrame == << <<"ret", 0>> >> \o [i \in 1 .. 7 |-> cpu[Stores[8 - i]]]

\* The place on the stack of a field of the frame that rdi points to.
FieldAt(field) == cpu["rdi"][2] + 1 - Place(mcsos_syscall_frame, field)

-----------------------------------------------------------------------------
Init == TrapInit /\ SyscallInit /\ answer = NoAnswer

\* The caller loads the registers and executes int $0x80.
Int80(nr, arg0, arg1) ==
  /\ Initialised
  /\ cpu["rip"][1] = "code"
  /\ LET args == [cpu EXCEPT !["rax"] = <<"nr", nr>>, !["rdi"] = <<"arg", arg0>>,
                             !["rsi"] = <<"arg", arg1>>]
     IN /\ cpu' = [args EXCEPT !["rip"] = <<"int80", 0>>, !["rflags"] = <<"IF", 0>>]
        /\ calls' = <<[vector |-> 128, cpu |-> args, rsp |-> Len(stk)]>>
  /\ stk' = stk \o EntryFrame
  /\ UNCHANGED <<idt, syscallVars, answer>>

x86_64_syscall_int80_stub ==
  /\ cpu["rip"][1] = "int80"
  /\ CallWithFrame(StoredFrame, "syscall", "int80ret")
  /\ UNCHANGED <<idt, calls, syscallVars, answer>>

mcsos_syscall_dispatch_frame(r) ==
  /\ cpu["rip"][1] = "syscall"
  /\ LET arg(field) == stk[FieldAt(field)][2]
         args == <<arg("nr"), arg("arg0"), arg("arg1")>>
         outcome == mcsos_syscall_dispatch(args[1], args[2], args[3], r)
     IN /\ stk' = [Cut(Len(stk) - 1) EXCEPT ![FieldAt("ret")] = <<"ret", outcome.ret>>]
        /\ answer' = [args |-> args, ret |-> outcome.ret]
  /\ ReturnFromC
  /\ UNCHANGED <<idt, calls, syscallVars>>

RetAtArg5 == 6

\* Line 19: the offset from which the answer is loaded, in words.
RetOffset == 7

int80_return ==
  /\ cpu["rip"][1] = "int80ret"
  /\ Iretq([cpu EXCEPT !["rax"] = Top(RetOffset)], 8)
  /\ answer' = NoAnswer
  /\ UNCHANGED <<idt, syscallVars>>

\* Kernel code sets up the system calls before it makes some.
SetUp ==
  /\ cpu["rip"][1] = "code"
  /\ \/ \E ops \in OpSets : mcsos_syscall_init(ops)
     \/ \E region \in UserRegions : mcsos_syscall_set_user_region(region)
  /\ UNCHANGED <<trapVars, answer>>

Next ==
  \/ /\ \/ \E kind \in {"interrupt", "trap"} : ~Loaded /\ x86_64_idt_init(kind)
        \/ \E g \in 0 .. 1 : Compute(g)
        \/ Sti
        \/ \E v \in Exceptions : Exception(v)
        \/ \E v \in 32 .. 33 : Interrupt(v)
        \/ isr_stub
        \/ isr_common
        \/ x86_64_trap_dispatch
        \/ isr_return
     /\ UNCHANGED <<syscallVars, answer>>
  \/ \E a \in SyscallArgs : Int80(a[1], a[2], a[3])
  \/ x86_64_syscall_int80_stub
  \/ \E r \in OpResults : mcsos_syscall_dispatch_frame(r)
  \/ int80_return
  \/ SetUp

Spec == Init /\ [][Next]_vars

-----------------------------------------------------------------------------
\* A system call is dispatched with what its caller had in rax, rdi and rsi, and
\* the caller gets the answer in rax and goes on with its stack, its flags and
\* the registers a function call preserves, whatever breakpoints hit in between.
SyscallAnswered ==
  [][Len(calls') < Len(calls) /\ LastCall.vector = 128 =>
       LET caller == LastCall IN
       /\ answer.args = <<caller.cpu["rax"][2], caller.cpu["rdi"][2], caller.cpu["rsi"][2]>>
       /\ cpu'["rax"] = <<"ret", answer.ret>>
       /\ \A r \in DOMAIN cpu \ CallerSaved : cpu'[r] = caller.cpu[r]
       /\ stk' = Cut(caller.rsp)]_vars
=============================================================================
