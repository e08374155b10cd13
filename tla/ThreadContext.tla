---------------------------- MODULE ThreadContext ----------------------------
(***************************************************************************)
(* The scheduler with what its threads run on: the stack that              *)
(* mcsos_thread_prepare lays out, the registers that mcsos_context_switch  *)
(* (mcsos/arch/x86_64/context_switch.S) saves and loads slot by slot, and  *)
(* the return address that waits on the stack of a thread that is not      *)
(* running.                                                                *)
(*                                                                         *)
(* Every step here is a step of module SchedulerHistory.  What a thread    *)
(* does between two calls of the scheduler is its own business: it runs    *)
(* with any stack pointer in its own stack.  In the repository the         *)
(* trampoline halts and never calls thread->entry, so a new thread may     *)
(* stay in it for good; the host test plays the threads, and so does       *)
(* action Start, which may but need not happen.                            *)
(*                                                                         *)
(* A word is a pair of what it is and whose or how much.                   *)
(***************************************************************************)
EXTENDS SchedulerHistory, Integers

CONSTANTS
  WordSize,     \* 2^64
  StackAlign,   \* MCSOS_STACK_ALIGN
  SizeofWord,   \* sizeof(uint64_t)
  MinStack,     \* MCSOS_MIN_KERNEL_STACK
  Headroom,     \* the 128 bytes prepare insists on
  StacksOf,     \* the (stack_base, stack_size) each thread is prepared with
  BootStack,    \* the stack the boot loader gave the boot thread, likewise
  Depths        \* how many words a thread may have pushed when it yields

Word == 0 .. WordSize - 1

ASSUME ThreadContextAssumption ==
  /\ SizeofWord \in Nat \ {0} /\ StackAlign = 2 * SizeofWord
  /\ WordSize \in Nat /\ Headroom \in Nat /\ MinStack \in Nat /\ Headroom <= MinStack
  /\ StacksOf \in [Threads -> SUBSET (Word \X Word)] /\ BootStack \in Word \X Word
  /\ 0 \in Depths
  /\ \A d \in Depths : d \in Nat /\ d * SizeofWord + 2 * SizeofWord <= Headroom

VARIABLES
  stack,    \* thread->stack_base and stack_size
  slots,    \* thread->context, as the eight words it is
  memory,   \* the words on the stacks
  cpu,      \* the registers
  kept      \* history: the registers of each thread when it was left

cvars == <<stack, slots, memory, cpu, kept>>
tvars == <<hvars, cvars>>

Zero       == <<"zero", 0>>
Trampoline == <<"trampoline", 0>>   \* mcsos_thread_trampoline
Label1     == <<"label 1", 0>>      \* the label behind the jump of the switch

\* The return address of the running thread's call of mcsos_context_switch.
Caller(t) == <<"caller", t>>

-----------------------------------------------------------------------------
(* The stack of a new thread.                                              *)

Plus(a, b) == (a + b) % WordSize

align_down_uintptr(v) == v - (v % StackAlign)

StackTop(low, size) == align_down_uintptr(Plus(low, size))

\* The check of prepare that its arguments run into.
StackCode(low, size) ==
  IF low = 0 THEN "null_argument"
  ELSE IF \/ size < MinStack
          \/ Plus(low, size) <= low
          \/ StackTop(low, size) <= Plus(low, Headroom) THEN "bad_stack"
  ELSE "good"

TopItself(low, size) == StackTop(low, size)

\* Line 73: the first stack pointer.
InitialRsp(low, size) == StackTop(low, size) - SizeofWord

\* The arrays a thread may really run on.
GoodStacks(t) ==
  {a \in IF t = Boot THEN {BootStack} ELSE StacksOf[t] : StackCode(a[1], a[2]) = "good"}

\* No two threads are given the same bytes.
ASSUME StacksApart ==
  /\ BootStack \in GoodStacks(Boot)
  /\ \A t, u \in Threads : t # u =>
       \A a \in GoodStacks(t), b \in GoodStacks(u) :
          a[1] + a[2] <= b[1] \/ b[1] + b[2] <= a[1]

-----------------------------------------------------------------------------
(* mcsos_context_t, and the order in which the switch stores and loads it. *)

mcsos_context == <<"rsp", "rbp", "rbx", "r12", "r13", "r14", "r15", "rip">>
StoreOrder    == <<"rsp", "rbp", "rbx", "r12", "r13", "r14", "r15", "rip">>

LoadSwapped == <<"rsp", "rbx", "rbp", "r12", "r13", "r14", "r15", "rip">>
LoadOrder   == <<"rsp", "rbp", "rbx", "r12", "r13", "r14", "r15", "rip">>

Registers == {mcsos_context[i] : i \in 1 .. 8}

\* zero_context.
zero_context == [i \in 1 .. 8 |-> Zero]

\* Lines 80-82: the context of a new thread.
EntryContext(rsp) ==
  [i \in 1 .. 8 |-> IF mcsos_context[i] = "rsp" THEN <<"rsp", rsp>>
                    ELSE IF mcsos_context[i] = "rip" THEN Trampoline
                    ELSE zero_context[i]]

Stored(regs) == [i \in 1 .. 8 |-> regs[StoreOrder[i]]]
Loaded(ctx)  == [r \in Registers |-> ctx[CHOOSE i \in 1 .. 8 : LoadOrder[i] = r]]

\* The jump to the rip of a loaded context, and at label 1 the ret, which pops
\* the word rsp points to.
JumpTo(regs, mem) ==
  IF regs["rip"] = Label1
  THEN [regs EXCEPT !["rip"] = mem[regs["rsp"][2]],
                    !["rsp"] = <<"rsp", regs["rsp"][2] + SizeofWord>>]
  ELSE regs

\* A word that has been popped is below the stack pointer and dead.
Popped(regs, mem) ==
  IF regs["rip"] = Label1 THEN [mem EXCEPT ![regs["rsp"][2]] = Zero] ELSE mem

\* The switch stores rsp as it finds it, pointing to the return address.
SavedRsp(rsp) == rsp

\* The call of the switch and the switch, from thread old to thread nxt.
SwitchStacks(old, nxt) ==
  LET rsp == cpu["rsp"][2] - SizeofWord
      mem == [memory EXCEPT ![rsp] = Caller(old)]
      ctx == [slots EXCEPT ![old] =
                Stored([cpu EXCEPT !["rsp"] = <<"rsp", SavedRsp(rsp)>>, !["rip"] = Label1])]
      regs == Loaded(ctx[nxt])
  IN /\ slots' = ctx
     /\ cpu' = JumpTo(regs, mem)
     /\ memory' = Popped(regs, mem)
     /\ kept' = [kept EXCEPT ![old] = cpu]

-----------------------------------------------------------------------------
\* The registers of a thread that runs its own code with d words on the stack.
\* Pushing them has overwritten whatever was there.
Running(t, low, size, d) ==
  [r \in Registers |->
     IF r = "rsp" THEN <<"rsp", InitialRsp(low, size) - d * SizeofWord>>
     ELSE IF r = "rip" THEN Caller(t) ELSE <<r, t>>]

TInit ==
  /\ HInit
  /\ stack = [t \in Threads |-> IF t = Boot THEN BootStack ELSE <<0, 0>>]
  /\ slots = [t \in Threads |-> zero_context]
  /\ memory = [a \in Word |-> Zero]
  /\ cpu = Running(Boot, BootStack[1], BootStack[2], 0)
  /\ kept = [t \in Threads |-> cpu]

TPrepare(t, low, size) ==
  /\ Prepare(t, StackCode(low, size))
  /\ IF StackCode(low, size) = "good"
     THEN LET rsp == InitialRsp(low, size) IN
          /\ memory' = [memory EXCEPT ![rsp] = Zero]
          /\ slots' = [slots EXCEPT ![t] = EntryContext(rsp)]
          /\ stack' = [stack EXCEPT ![t] = <<low, size>>]
     ELSE UNCHANGED <<memory, slots, stack>>
  /\ UNCHANGED <<cpu, kept>>

\* Does the running thread execute code of its own?
InItsCode == cpu["rip"] # Trampoline

\* The tail of yield and block_current.
TSwitch ==
  /\ IF current' = current THEN UNCHANGED <<slots, memory, cpu, kept>>
     ELSE SwitchStacks(current, current')
  /\ UNCHANGED stack

TYield == InItsCode /\ Yield /\ TSwitch
TBlockCurrent == InItsCode /\ BlockCurrent /\ TSwitch

\* The running thread computes: its registers hold its values, and its stack
\* pointer is anywhere in its stack.
Compute(d) ==
  /\ cpu' = Running(current, stack[current][1], stack[current][2], d)
  /\ UNCHANGED <<hvars, stack, slots, memory, kept>>

Start == ~InItsCode /\ Compute(0)
Work  == InItsCode /\ \E d \in Depths : Compute(d)

TNext ==
  \/ \E t \in Threads : \E a \in StacksOf[t] : InItsCode /\ TPrepare(t, a[1], a[2])
  \/ \E t \in Threads : InItsCode /\ EnqueueThread(t) /\ UNCHANGED cvars
  \/ TYield
  \/ Tick /\ UNCHANGED cvars
  \/ TBlockCurrent
  \/ \E t \in Threads : InItsCode /\ MarkReady(t) /\ UNCHANGED cvars
  \/ Start
  \/ Work

TSpec == TInit /\ [][TNext]_tvars

\* The scheduler is cooperative: nothing happens unless the running thread calls
\* yield.  TFairSpec is the scheduler under threads that keep calling it once
\* they run code of their own; nothing makes a new thread leave the trampoline.
TFairSpec == TSpec /\ WF_tvars(TYield)

-----------------------------------------------------------------------------
\* No thread is overtaken forever: every thread that is READY runs eventually,
\* whatever other threads are prepared, blocked and woken meanwhile, unless the
\* CPU comes to stay in the halting loop of mcsos_thread_trampoline.
ReadyThreadRuns ==
  \/ <>[]~InItsCode
  \/ \A t \in Threads : state[t] = "READY" ~> current = t

\* A thread that was switched out by mcsos_sched_yield or block_current gets
\* back the rsp, rbp, rbx and r12 to r15 it had and returns to where it called
\* from, whatever threads ran and were prepared in between; a new thread starts
\* in the trampoline with empty registers.
ResumesExactly ==
  [][current' # current =>
       \/ context[current'] = "saved" /\ cpu' = kept[current']
       \/ /\ context[current'] = "entry"
          /\ cpu'["rip"] = Trampoline
          /\ \A r \in Registers \ {"rip", "rsp"} : cpu'[r] = Zero]_tvars

\* The first word a new thread finds on its stack, and so its first stack
\* pointer, lies inside the array that was given to prepare, although base and
\* size may add up to more than a word; the stack pointer is what the calling
\* convention asks of a function's entry (8 modulo 16).
EntryStackSound ==
  \A t \in Threads : context[t] = "entry" =>
    LET rsp == slots[t][1][2] IN
    /\ slots[t][1] = <<"rsp", rsp>>
    /\ stack[t][1] <= rsp /\ rsp + SizeofWord <= stack[t][1] + stack[t][2]
    /\ rsp % StackAlign = SizeofWord
=============================================================================
