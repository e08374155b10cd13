-------------------------------- MODULE Trap --------------------------------
(***************************************************************************)
(* Exceptions: the interrupt descriptor table that x86_64_idt_init fills,  *)
(* the 32 stubs and isr_common of isr.S, and x86_64_trap_dispatch.  Both   *)
(* kernels of the repository, src/ and mcsos/, have these files, with the  *)
(* same pushes, pops and stubs.  In mcsos/ the gate of vector 3 is a trap  *)
(* gate, and the frame's structure ends before rsp and ss.                 *)
(*                                                                         *)
(* The stack is a sequence of words, the last one being where rsp points.  *)
(* A word is a pair of what it is and a number.  cpu["rip"] says which     *)
(* code runs next:                                                         *)
(*   "code"      the code that may be interrupted                          *)
(*   "stub"      isr_stub_v                                                *)
(*   "common"    isr_common up to the call                                 *)
(*   "dispatch"  x86_64_trap_dispatch                                      *)
(*   "restore"   isr_common behind the call                                *)
(*   "panic"     the kernel has stopped                                    *)
(* An exception that is not the breakpoint may hit any of them, a stub     *)
(* between two of its instructions included.                               *)
(***************************************************************************)
EXTENDS Integers, Sequences

CONSTANTS
  Radix,        \* 2^16: an offset in a gate is cut at this and its square
  StubAddress,  \* x86_64_exception_stubs: the address of each stub
  VectorCount,  \* X86_64_IDT_VECTOR_COUNT: 256
  MaxDepth,     \* bound on the exceptions inside each other
  InnerExceptions   \* the ones that hit handlers and system calls

\* The exceptions of the CPU, and the ones for which it pushes an error code.
Exceptions    == (0 .. 31) \ ({9, 15} \cup (22 .. 27) \cup {31})
WithErrorCode == {8, 10, 11, 12, 13, 14, 17, 21, 29, 30}

ASSUME TrapAssumption ==
  /\ Radix \in Nat \ {0}
  /\ StubAddress \in [0 .. 31 -> 0 .. Radix * Radix * Radix * Radix - 1]
  /\ \A v, w \in 0 .. 31 : StubAddress[v] = StubAddress[w] => v = w
  /\ VectorCount \in Nat /\ VectorCount >= 32
  /\ MaxDepth \in Nat
  /\ InnerExceptions \subseteq Exceptions

VARIABLES
  idt,      \* the gates
  cpu,      \* the registers
  stk,      \* the stack
  calls     \* history: the exceptions that are being handled, and what they hit

trapVars == <<idt, cpu, stk, calls>>

-----------------------------------------------------------------------------
(* The gates.                                                              *)

\* The offset in three parts.
Offset(address) ==
  [low  |-> address % Radix,
   mid  |-> (address \div Radix) % Radix,
   high |-> (address \div (Radix * Radix)) % (Radix * Radix)]

x86_64_idt_set_gate(address, attributes) ==
  [offset |-> Offset(address), attributes |-> attributes]

NoGate == x86_64_idt_set_gate(0, "absent")

\* The CPU puts the offset together again and begins with the code there.
GateTarget(gate) ==
  LET address == gate.offset.low + Radix * (gate.offset.mid + Radix * gate.offset.high)
      stubs == {v \in 0 .. 31 : StubAddress[v] = address}
  IN IF stubs = {} THEN <<"nowhere", address>>
     ELSE <<"stub", CHOOSE v \in stubs : TRUE>>

-----------------------------------------------------------------------------
(* Words, registers and the orders in which the code names them.           *)

PushOrder == <<"rax", "rbx", "rcx", "rdx", "rbp", "rdi", "rsi", "r8", "r9", "r10",
               "r11", "r12", "r13", "r14", "r15">>

PopSwapped == <<"r15", "r14", "r13", "r12", "r11", "r10", "r9", "r8", "rdi", "rsi",
                "rbp", "rdx", "rcx", "rbx", "rax">>
PopOrder  == <<"r15", "r14", "r13", "r12", "r11", "r10", "r9", "r8", "rsi", "rdi",
               "rbp", "rdx", "rcx", "rbx", "rax">>

\* struct x86_64_trap_frame, from its lowest address.
x86_64_trap_frame ==
  <<"r15", "r14", "r13", "r12", "r11", "r10", "r9", "r8", "rsi", "rdi", "rbp", "rdx",
    "rcx", "rbx", "rax", "vector", "error_code", "rip", "cs", "rflags", "rsp", "ss">>

General     == {PushOrder[i] : i \in 1 .. 15}
CallerSaved == {"rax", "rcx", "rdx", "rsi", "rdi", "r8", "r9", "r10", "r11"}

ErrorStubsUpTo17 == {8, 10, 11, 12, 13, 14, 17}

\* The vectors with ISR_ERR in isr.S.
ErrorStubs == {8, 10, 11, 12, 13, 14, 17, 21, 29, 30}

\* Where x stands in an order.
Place(order, x) == CHOOSE i \in 1 .. Len(order) : order[i] = x

Top(n) == stk[Len(stk) - n]      \* the word n words above rsp
Cut(n) == SubSeq(stk, 1, n)

LastCall == calls[Len(calls)]

\* The CPU enters a gate: it aligns rsp to two words and pushes five.
EntryFrame ==
  (IF Len(stk) % 2 = 0 THEN <<>> ELSE << <<"padding", 0>> >>) \o
  <<cpu["ss"], <<"rsp", Len(stk)>>, cpu["rflags"], cpu["cs"], cpu["rip"]>>

\* iretq, with n words above the frame of the CPU, puts back what it pushed.
Iretq(regs, n) ==
  /\ cpu' = [regs EXCEPT !["rip"] = Top(n), !["cs"] = Top(n + 1),
                         !["rflags"] = Top(n + 2), !["ss"] = Top(n + 4)]
  /\ stk' = Cut(Top(n + 3)[2])
  /\ calls' = SubSeq(calls, 1, Len(calls) - 1)

\* An interrupt gate clears IF, a trap gate leaves it.
FlagsAfter(gate) ==
  IF gate.attributes = "interrupt" THEN <<"IF", 0>> ELSE cpu["rflags"]

Enter(v, target, error) ==
  /\ Len(calls) < MaxDepth
  /\ cpu["rip"][1] # "panic"
  /\ cpu' = [cpu EXCEPT !["rip"] = target, !["rflags"] = FlagsAfter(idt[v])]
  /\ stk' = stk \o EntryFrame \o error
  /\ calls' = Append(calls, [vector |-> v, cpu |-> cpu, rsp |-> Len(stk)])
  /\ UNCHANGED idt

ErrorCode == << <<"error_code", 1>> >>

\* The word the dispatcher finds in a field of the frame that rdi points to.
Frame(field) == stk[cpu["rdi"][2] + 1 - Place(x86_64_trap_frame, field)]

\* A C function is called: rsp goes to rdi, the return address on the stack.
CallWithFrame(pushed, fn, back) ==
  /\ stk' = stk \o pushed \o << <<back, 0>> >>
  /\ cpu' = [cpu EXCEPT !["rdi"] = <<"rsp", Len(stk) + Len(pushed)>>, !["rip"] = <<fn, 0>>]

\* A C function returns: it keeps the registers the calling convention says.
ReturnFromC ==
  cpu' = [r \in DOMAIN cpu |-> IF r \in CallerSaved THEN <<"lost", 0>>
                               ELSE IF r = "rip" THEN Top(0) ELSE cpu[r]]

-----------------------------------------------------------------------------
Registers(g) ==
  [r \in General \cup {"rip", "cs", "rflags", "ss"} |->
     IF r = "rip" THEN <<"code", g>> ELSE IF r = "rflags" THEN <<"IF", 0>> ELSE <<r, g>>]

TrapInit ==
  /\ idt = [v \in 0 .. VectorCount - 1 |-> NoGate]
  /\ cpu = Registers(0)
  /\ stk = << <<"local", 0>> >>
  /\ calls = <<>>

Loaded == idt # [v \in 0 .. VectorCount - 1 |-> NoGate]

\* All gates are cleared, then 32 are set.  kind is the gate of vector 3.
x86_64_idt_init(kind) ==
  /\ idt' = [v \in 0 .. VectorCount - 1 |->
               IF v >= 32 THEN NoGate
               ELSE x86_64_idt_set_gate(StubAddress[v], IF v = 3 THEN kind ELSE "interrupt")]
  /\ UNCHANGED <<cpu, stk, calls>>

\* The code that may be interrupted goes on with other values in its registers
\* and with an even or an odd number of words on its stack.
Compute(g) ==
  /\ cpu["rip"][1] = "code"
  /\ cpu' = [Registers(g) EXCEPT !["rflags"] = cpu["rflags"]]
  /\ stk' = [i \in 1 .. g + 1 |-> <<"local", 0>>]
  /\ UNCHANGED <<idt, calls>>

Sti ==
  /\ cpu["rip"][1] = "code"
  /\ cpu' = [cpu EXCEPT !["rflags"] = <<"IF", 1>>]
  /\ UNCHANGED <<idt, stk, calls>>

\* A breakpoint is an instruction of the code that runs into it; the other
\* exceptions come from anywhere.
Exception(v) ==
  /\ Loaded
  /\ calls # <<>> => v \in InnerExceptions
  /\ v = 3 => cpu["rip"][1] \in {"code", "syscall"}
  /\ Enter(v, GateTarget(idt[v]), IF v \in WithErrorCode THEN ErrorCode ELSE <<>>)

\* A device interrupt finds no gate: the descriptors from 32 on are all zeros,
\* which is no gate type, and the CPU raises vector 13 instead.
Interrupt(v) ==
  /\ Loaded
  /\ cpu["rflags"] = <<"IF", 1>>
  /\ idt[v].attributes = "absent"
  /\ Enter(13, GateTarget(idt[13]), ErrorCode)

isr_stub ==
  /\ cpu["rip"][1] = "stub"
  /\ LET v == cpu["rip"][2]
     IN stk' = stk \o (IF v \in ErrorStubs THEN <<>> ELSE << <<"error_code", 0>> >>)
                   \o << <<"vector", v>> >>
  /\ cpu' = [cpu EXCEPT !["rip"] = <<"common", 0>>]
  /\ UNCHANGED <<idt, calls>>

isr_common ==
  /\ cpu["rip"][1] = "common"
  /\ CallWithFrame([i \in 1 .. 15 |-> cpu[PushOrder[i]]], "dispatch", "restore")
  /\ UNCHANGED <<idt, calls>>

PanicOnDoubleFault == Frame("vector") = <<"vector", 8>>

\* What the dispatcher does not return from.
Fatal == Frame("vector") # <<"vector", 3>>

x86_64_trap_dispatch ==
  /\ cpu["rip"][1] = "dispatch"
  /\ \/ /\ ~Fatal
        /\ ReturnFromC
        /\ stk' = Cut(Len(stk) - 1)
     \/ /\ Fatal
        /\ cpu' = [cpu EXCEPT !["rip"] = <<"panic", 0>>]
        /\ UNCHANGED stk
  /\ UNCHANGED <<idt, calls>>

\* Fifteen pops, the vector and the error code dropped, iretq.
isr_return ==
  /\ cpu["rip"][1] = "restore"
  /\ Iretq([r \in DOMAIN cpu |->
              IF r \in General THEN Top(Place(PopOrder, r) - 1)
              ELSE cpu[r]], 17)
  /\ UNCHANGED idt

-----------------------------------------------------------------------------
\* When x86_64_trap_dispatch is entered, every field of its frame is what the
\* field's name says of the code that was hit: the 32 stubs push an error code
\* exactly where the CPU has not, and fields and pushes are in the same order.
\* The stack is aligned as the calling convention asks.
FrameFaithful ==
  cpu["rip"][1] = "dispatch" =>
    LET hit == LastCall IN
    /\ \A r \in General \cup {"rip", "cs", "rflags", "ss"} : Frame(r) = hit.cpu[r]
    /\ Frame("rsp") = <<"rsp", hit.rsp>>
    /\ Frame("vector") = <<"vector", hit.vector>>
    /\ Frame("error_code") = <<"error_code", IF hit.vector \in WithErrorCode THEN 1 ELSE 0>>
    /\ Len(stk) % 2 = 1

\* Code that is hit by a breakpoint goes on with all registers, flags and its
\* stack as they were, in the kernel's own code and in the middle of a system
\* call alike.
BreakpointResumes ==
  [][Len(calls') < Len(calls) /\ LastCall.vector = 3 =>
       /\ cpu' = LastCall.cpu
       /\ stk' = Cut(LastCall.rsp)]_trapVars

\* Nothing but a breakpoint or a system call is ever returned from: after any
\* other exception, and after a device interrupt without a gate, the kernel
\* stops (the fail-closed policy of trap.c).
FailClosed ==
  [][Len(calls') < Len(calls) => LastCall.vector \in {3, 128}]_trapVars
=============================================================================
