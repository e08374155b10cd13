-------------------------- MODULE KernelEntryProofs --------------------------
(***************************************************************************)
(* Proofs about the ways into the kernel: that a system call reads only    *)
(* the user region (module Syscall), and that what exceptions, breakpoints *)
(* and system calls push on the one kernel stack describes, at every depth *)
(* of nesting, the code that was hit (module KernelEntry).                 *)
(***************************************************************************)
EXTENDS KernelEntry, TLAPS

-----------------------------------------------------------------------------
(* The system calls by themselves.                                         *)

\* Each variable holds a value of its C type.
SyscallTypeOK ==
  /\ g_ops \in [Ops -> {"null", "default", "given"}]
  /\ g_user_region \in Region

\* The two assignments to the variables keep their types.
THEOREM SyscallTypes == SyscallSpec => []SyscallTypeOK
<1>1. SyscallInit => SyscallTypeOK
  BY SyscallAssumption DEF SyscallInit, SyscallTypeOK, Region, Word
<1>2. SyscallTypeOK /\ [SyscallNext]_syscallVars => SyscallTypeOK'
  <2> SUFFICES ASSUME SyscallTypeOK, [SyscallNext]_syscallVars PROVE SyscallTypeOK'
    BY Zenon
  <2>1. CASE \E ops \in SUBSET Ops : mcsos_syscall_init(ops)
    BY <2>1, Zenon DEF SyscallTypeOK, mcsos_syscall_init
  <2>2. CASE \E region \in Region : mcsos_syscall_set_user_region(region)
    BY <2>2, Zenon DEF SyscallTypeOK, mcsos_syscall_set_user_region
  <2>3. CASE UNCHANGED syscallVars
    BY <2>3, Zenon DEF SyscallTypeOK, syscallVars
  <2> QED BY <2>1, <2>2, <2>3, Zenon DEF SyscallNext
<1> QED BY <1>1, <1>2, PTL DEF SyscallSpec

\* The address of a last byte that has wrapped around is below the first one.
LEMMA LastByteWraps ==
  ASSUME NEW addr \in Word, NEW len \in Word, len # 0
  PROVE  /\ LastByte(addr, len) \in Word
         /\ addr <= LastByte(addr, len) <=> addr + len - 1 < WordSize
         /\ addr + len - 1 < WordSize => LastByte(addr, len) = addr + len - 1
<1> DEFINE s == addr + len - 1
<1>1. WordSize \in Nat \ {0} /\ s \in Nat /\ s < 2 * WordSize
  BY SyscallAssumption DEF Word
<1>2. CASE s < WordSize
  <2>1. s % WordSize = s BY <1>1, <1>2
  <2> QED BY <1>1, <1>2, <2>1 DEF LastByte, Word
<1>3. CASE s >= WordSize
  <2>1. s % WordSize = s - WordSize BY <1>1, <1>3
  <2> QED BY <1>1, <1>3, <2>1, SyscallAssumption DEF LastByte, Word
<1> QED BY <1>1, <1>2, <1>3

\* A range of at least one byte is in the region exactly if its two ends are.
LEMMA InRegionByEnds ==
  ASSUME g_user_region \in Region, NEW addr \in Word, NEW len \in Word, len # 0
  PROVE  InRegion(addr, len) <=> /\ g_user_region.base <= addr
                                 /\ addr + len - 1 < g_user_region.limit
<1>1. /\ g_user_region.base \in Nat /\ g_user_region.limit \in Nat
      /\ addr \in Nat /\ len \in Nat
  BY SyscallAssumption DEF Region, Word
<1>2. addr \in addr .. addr + len - 1 /\ addr + len - 1 \in addr .. addr + len - 1
  BY <1>1
<1> QED BY <1>1, <1>2 DEF InRegion

\* In every state of the right type the check is exact.
LEMMA CheckExact ==
  ASSUME g_user_region \in Region, NEW addr \in Word, NEW len \in Word
  PROVE  mcsos_user_check_range(addr, len) <=>
           (len = 0 \/ (g_user_region.base # 0 /\ InRegion(addr, len)))
<1>1. CASE len = 0
  BY <1>1, Zenon DEF mcsos_user_check_range
<1>2. CASE len # 0
  <2>1. /\ g_user_region.base \in Word /\ g_user_region.limit \in Word
        /\ WordSize \in Nat /\ addr \in Nat /\ len \in Nat
    BY SyscallAssumption DEF Region, Word
  <2>2. /\ LastByte(addr, len) \in Word
        /\ addr <= LastByte(addr, len) <=> addr + len - 1 < WordSize
        /\ addr + len - 1 < WordSize => LastByte(addr, len) = addr + len - 1
    BY <1>2, LastByteWraps, Zenon
  <2>3. InRegion(addr, len) <=> /\ g_user_region.base <= addr
                                /\ addr + len - 1 < g_user_region.limit
    BY <1>2, InRegionByEnds, Zenon
  <2> QED BY <1>2, <2>1, <2>2, <2>3 DEF mcsos_user_check_range, Word
<1> QED BY <1>1, <1>2, Zenon

\* mcsos_user_check_range is exact for every word width, in every state that
\* mcsos_syscall_init and mcsos_syscall_set_user_region lead to.
THEOREM SyscallRangeExact == SyscallSpec => []RangeExact
<1>1. SyscallTypeOK => RangeExact
  BY CheckExact, Zenon DEF SyscallTypeOK, RangeExact
<1> QED BY <1>1, SyscallTypes, PTL

\* An operation that a system call reaches is installed, and a buffer that it or
\* mcsos_copy_from_user reads lies in the region.
THEOREM SyscallReadsInsideRegion == SyscallSpec => []ReadsInsideRegion
<1>1. SyscallTypeOK => ReadsInsideRegion
  <2> SUFFICES ASSUME SyscallTypeOK, Initialised,
                      NEW ptr \in Word, NEW len \in Word
               PROVE  /\ mcsos_copy_from_user(ptr, len).call = "copy" => InRegion(ptr, len)
                      /\ \A nr \in 0 .. MCSOS_SYS_MAX, r \in OpResults :
                           LET outcome == mcsos_syscall_dispatch(nr, ptr, len, r) IN
                           /\ outcome.call = "write_serial" => InRegion(ptr, len)
                           /\ outcome.call # "none" => g_ops[outcome.call] # "null"
    BY Zenon DEF ReadsInsideRegion
  <2>1. mcsos_user_check_range(ptr, len) => InRegion(ptr, len)
    <3>1. CASE len = 0
      BY <3>1, SyscallAssumption DEF InRegion, Word
    <3>2. CASE len # 0
      BY <3>2, CheckExact, Zenon DEF SyscallTypeOK
    <3> QED BY <3>1, <3>2, Zenon
  <2>2. mcsos_copy_from_user(ptr, len).call = "copy" => InRegion(ptr, len)
    BY <2>1, Zenon DEF mcsos_copy_from_user, Returns, Calls
  <2>3. ASSUME NEW nr \in 0 .. MCSOS_SYS_MAX, NEW r \in OpResults
        PROVE  LET outcome == mcsos_syscall_dispatch(nr, ptr, len, r) IN
               /\ outcome.call = "write_serial" => InRegion(ptr, len)
               /\ outcome.call # "none" => g_ops[outcome.call] # "null"
    <3>1. sys_write_serial(ptr, len, r).call # "none" =>
            /\ sys_write_serial(ptr, len, r).call = "write_serial"
            /\ InRegion(ptr, len)
      BY <2>1, Zenon DEF sys_write_serial, Returns, Calls
    <3>2. /\ sys_get_ticks(r).call # "none" =>
               sys_get_ticks(r).call = "get_ticks" /\ g_ops["get_ticks"] # "null"
          /\ sys_yield.call # "none" =>
               sys_yield.call = "yield_current" /\ g_ops["yield_current"] # "null"
          /\ sys_exit_thread.call # "none" =>
               sys_exit_thread.call = "exit_current" /\ g_ops["exit_current"] # "null"
      BY Zenon DEF sys_get_ticks, sys_yield, sys_exit_thread, Returns, Calls
    <3>3. \/ mcsos_syscall_dispatch(nr, ptr, len, r).call = "none"
          \/ mcsos_syscall_dispatch(nr, ptr, len, r) = sys_get_ticks(r)
          \/ mcsos_syscall_dispatch(nr, ptr, len, r) = sys_write_serial(ptr, len, r)
          \/ mcsos_syscall_dispatch(nr, ptr, len, r) = sys_yield
          \/ mcsos_syscall_dispatch(nr, ptr, len, r) = sys_exit_thread
      BY Zenon DEF mcsos_syscall_dispatch, Returns
    <3> QED BY <3>1, <3>2, <3>3, Zenon DEF Initialised
  <2> QED BY <2>2, <2>3, Zenon
<1> QED BY <1>1, SyscallTypes, PTL

-----------------------------------------------------------------------------
(* Gates, and the orders of the pushes, the pops and the frame's fields.   *)

\* Quotient and remainder are unique.
LEMMA DivIs ==
  ASSUME NEW a \in Nat, NEW d \in Nat \ {0}, NEW q \in Nat, NEW r \in 0 .. d - 1,
         a = d * q + r
  PROVE  a \div d = q /\ a % d = r
OBVIOUS

\* The three parts of the address in a gate make the address again.
LEMMA OffsetWhole ==
  ASSUME NEW a \in 0 .. Radix * Radix * Radix * Radix - 1
  PROVE  LET o == Offset(a) IN o.low + Radix * (o.mid + Radix * o.high) = a
<1> DEFINE R == Radix
          q == a \div R
          h == q \div R
<1>1. R \in Nat \ {0} /\ a \in Nat BY TrapAssumption
<1>2. a = R * q + (a % R) /\ q \in Nat /\ a % R \in 0 .. R - 1  BY <1>1
<1>3. q = R * h + (q % R) /\ h \in Nat /\ q % R \in 0 .. R - 1  BY <1>1, <1>2
<1> HIDE DEF q, h
<1>4. a = (R * R) * h + (R * (q % R) + (a % R)) 
  <2>1. \A x, y \in Nat : R * (R * x + y) = (R * R) * x + R * y  BY <1>1
  <2>2. q % R \in Nat BY <1>1, <1>3
  <2>3. R * q = R * (R * h + (q % R)) BY <1>3, Zenon
  <2>4. R * (R * h + (q % R)) = (R * R) * h + R * (q % R) BY <1>3, <2>1, <2>2, Zenon
  <2>5. (R * R) * h \in Nat /\ R * (q % R) \in Nat /\ a % R \in Nat BY <1>1, <1>2, <1>3, <2>2
  <2> QED  BY <1>2, <2>3, <2>4, <2>5
<1>5. R * (q % R) + (a % R) \in 0 .. R * R - 1
  <2>1. \A x \in 0 .. R - 1, y \in 0 .. R - 1 : R * x + y \in 0 .. R * R - 1
    <3> SUFFICES ASSUME NEW x \in 0 .. R - 1, NEW y \in 0 .. R - 1
                 PROVE  R * x + y \in 0 .. R * R - 1
      BY Zenon
    <3>1. R * (R - 1 - x) >= 0 BY <1>1
    <3>2. R * (R - 1 - x) = R * R - R - R * x BY <1>1
    <3>3. R * x >= 0 /\ R * x \in Int /\ R * R \in Int BY <1>1
    <3> QED BY <1>1, <3>1, <3>2, <3>3
  <2> QED BY <1>2, <1>3, <2>1, Zenon
<1>6. R * R \in Nat \ {0} BY <1>1
<1>7. a \div (R * R) = h
  <2> DEFINE d == R * R
             r == R * (q % R) + (a % R)
  <2>1. a = d * h + r /\ r \in 0 .. d - 1 /\ d \in Nat \ {0} BY <1>4, <1>5, <1>6, Zenon
  <2> HIDE DEF d, r
  <2>2. a \div d = h BY <1>1, <1>3, <2>1, DivIs, Zenon
  <2> QED BY <2>2, Zenon DEF d
<1>8. h < R * R
  <2> SUFFICES ASSUME h >= R * R PROVE FALSE BY <1>3, <1>6
  <2>1. (R * R) * h >= (R * R) * (R * R) BY <1>6, <1>3
  <2>2. (R * R) * (R * R) = R * R * R * R BY <1>1
  <2>3. (R * R) * h \in Nat BY <1>3, <1>6
  <2> QED BY <1>1, <1>4, <1>5, <1>6, <2>1, <2>2, <2>3
<1>9. h % (R * R) = h BY <1>3, <1>6, <1>8
<1>10. a = (a % R) + R * ((q % R) + R * h)  BY <1>2, <1>3, <1>1
<1>11. Offset(a) = [low |-> a % R, mid |-> q % R, high |-> h]
  BY <1>7, <1>9, Zenon DEF Offset, q
<1> QED BY <1>10, <1>11, SMTT(30)

\* A place where x stands, if it stands nowhere else, is its place.
LEMMA IndexIs ==
  ASSUME NEW seq, NEW x, Len(seq) \in Nat, NEW i \in 1 .. Len(seq), seq[i] = x,
         \A j \in 1 .. Len(seq) : seq[j] = x => j = i
  PROVE Place(seq, x) = i
BY Zenon DEF Place

\* isr_common pops in the reverse order of its pushes.
LEMMA PopPlaces ==
  ASSUME NEW i \in 1 .. 15 PROVE Place(PopOrder, PushOrder[i]) = 16 - i
<1>1. Len(PopOrder) = 15 /\ \A j \in 1 .. 15 : PopOrder[j] = PushOrder[16 - j]
  BY DEF PopOrder, PushOrder
<1>2. \A j, k \in 1 .. 15 : PushOrder[j] = PushOrder[k] => j = k BY DEF PushOrder
<1>3. Len(PopOrder) \in Nat /\ 16 - i \in 1 .. Len(PopOrder) /\ PopOrder[16 - i] = PushOrder[i]
  BY <1>1
<1>4. \A j \in 1 .. Len(PopOrder) : PopOrder[j] = PushOrder[i] => j = 16 - i BY <1>1, <1>2
<1> QED BY <1>3, <1>4, IndexIs, Zenon

\* struct x86_64_trap_frame has its fields in the order of the words on the stack.
LEMMA FramePlaces ==
  /\ \A i \in 1 .. 15 : Place(x86_64_trap_frame, PushOrder[i]) = 16 - i
  /\ Place(x86_64_trap_frame, "vector") = 16
  /\ Place(x86_64_trap_frame, "error_code") = 17
  /\ Place(x86_64_trap_frame, "rip") = 18
  /\ Place(x86_64_trap_frame, "cs") = 19
  /\ Place(x86_64_trap_frame, "rflags") = 20
  /\ Place(x86_64_trap_frame, "rsp") = 21
  /\ Place(x86_64_trap_frame, "ss") = 22
<1> DEFINE f == x86_64_trap_frame
<1>1. Len(f) = 22 /\ \A j, k \in 1 .. 22 : f[j] = f[k] => j = k BY DEF x86_64_trap_frame
<1>2. \A j \in 1 .. 15 : f[16 - j] = PushOrder[j] BY DEF x86_64_trap_frame, PushOrder
<1>3. f[16] = "vector" /\ f[17] = "error_code" /\ f[18] = "rip" /\ f[19] = "cs"
      /\ f[20] = "rflags" /\ f[21] = "rsp" /\ f[22] = "ss"  BY Zenon DEF x86_64_trap_frame
<1>4. ASSUME NEW x, NEW i \in 1 .. 22, f[i] = x PROVE Place(f, x) = i
  <2>1. Len(f) \in Nat /\ i \in 1 .. Len(f) BY <1>1
  <2>2. \A j \in 1 .. Len(f) : f[j] = x => j = i BY <1>1, <1>4, Zenon
  <2> QED BY <1>4, <2>1, <2>2, IndexIs, Zenon
<1> QED BY <1>2, <1>3, <1>4

-----------------------------------------------------------------------------
(* The invariant: the words of the stack, entry by entry.                  *)

\* The registers of the CPU, and what a register or a word of the stack holds.
Machine == General \cup {"rip", "cs", "rflags", "ss"}
Names   == General \cup
             {"cs", "ss", "code", "IF", "lost", "local", "padding", "rsp", "error_code", "vector",
              "ret", "nr", "arg", "stub", "common", "dispatch", "restore", "panic",
              "int80", "syscall", "int80ret"}
Cell    == Names \X Int
Hit     == [vector : Int, cpu : [Machine -> Cell], rsp : Nat]

\* Each variable holds a value of its type.
EntryTypeOK ==
  /\ cpu \in [Machine -> Cell]
  /\ stk \in Seq(Cell)
  /\ calls \in Seq(Hit)
  /\ answer \in [args : Int \X Int \X Int, ret : Int]

\* The table that x86_64_idt_init builds.
Gates(kind) ==
  [v \in 0 .. VectorCount - 1 |->
     IF v >= 32 THEN NoGate
     ELSE x86_64_idt_set_gate(StubAddress[v], IF v = 3 THEN kind ELSE "interrupt")]

\* The table is empty or built.
GatesSound ==
  \/ idt = [v \in 0 .. VectorCount - 1 |-> NoGate]
  \/ \E kind \in {"interrupt", "trap"} : idt = Gates(kind)

\* The words of the stack s that belong to one entry into the kernel, hit, lie
\* above the aligned stack pointer.
Base(hit) == hit.rsp + (hit.rsp % 2)

\* The five words the CPU has pushed.
EntryPushed(hit, s) ==
  /\ s[Base(hit) + 1] = hit.cpu["ss"]
  /\ s[Base(hit) + 2] = <<"rsp", hit.rsp>>
  /\ s[Base(hit) + 3] = hit.cpu["rflags"]
  /\ s[Base(hit) + 4] = hit.cpu["cs"]
  /\ s[Base(hit) + 5] = hit.cpu["rip"]

\* The error code that the CPU or the stub pushes.
ErrorWord(v) == <<"error_code", IF v \in WithErrorCode THEN 1 ELSE 0>>

\* The stub's two words.
StubPushed(hit, s) ==
  /\ s[Base(hit) + 6] = ErrorWord(hit.vector)
  /\ s[Base(hit) + 7] = <<"vector", hit.vector>>

\* The fifteen general registers.
CommonPushed(hit, s) ==
  \A i \in 1 .. 15 : s[Base(hit) + 7 + i] = hit.cpu[PushOrder[i]]

\* The registers regs still hold what they held when the code was hit.
Same(hit, c, regs) == \A r \in regs : c[r] = hit.cpu[r]

\* What holds of the stack and the registers before each block of handler code,
\* from the stubs ...
StubSound(hit, c, s, n) ==
  /\ hit.vector \in Exceptions
  /\ c["rip"][2] = hit.vector
  /\ Same(hit, c, General)
  /\ hit.vector \in WithErrorCode =>
       n = Base(hit) + 6 /\ s[Base(hit) + 6] = <<"error_code", 1>>
  /\ hit.vector \notin WithErrorCode => n = Base(hit) + 5

\* ... through isr_common ...
CommonSound(hit, c, s, n) ==
  /\ n = Base(hit) + 7
  /\ Same(hit, c, General)
  /\ StubPushed(hit, s)

\* ... and x86_64_trap_dispatch ...
DispatchSound(hit, c, s, n) ==
  /\ n = Base(hit) + 23
  /\ c["rdi"] = <<"rsp", Base(hit) + 22>>
  /\ StubPushed(hit, s) /\ CommonPushed(hit, s)
  /\ s[Base(hit) + 23] = <<"restore", 0>>

\* ... to the return, which only a breakpoint gets to;
RestoreSound(hit, s, n) ==
  /\ n = Base(hit) + 22
  /\ hit.vector = 3
  /\ CommonPushed(hit, s)

\* and from x86_64_syscall_int80_stub ...
Int80Sound(hit, c, n) ==
  /\ n = Base(hit) + 5
  /\ hit.vector = 128
  /\ Same(hit, c, General)

\* ... through mcsos_syscall_dispatch_frame ...
SyscallSound(hit, c, s, n) ==
  /\ n = Base(hit) + 14
  /\ hit.vector = 128
  /\ Same(hit, c, General \ CallerSaved)
  /\ c["rdi"] = <<"rsp", Base(hit) + 13>>
  /\ s[Base(hit) + 11] = hit.cpu["rsi"]
  /\ s[Base(hit) + 12] = hit.cpu["rdi"]
  /\ s[Base(hit) + 13] = hit.cpu["rax"]
  /\ s[Base(hit) + 14] = <<"int80ret", 0>>

\* ... to the return from the system call.
Int80RetSound(hit, c, s, n, a) ==
  /\ n = Base(hit) + 13
  /\ hit.vector = 128
  /\ Same(hit, c, General \ CallerSaved)
  /\ s[Base(hit) + 6] = <<"ret", a.ret>>
  /\ a.args = <<hit.cpu["rax"][2], hit.cpu["rdi"][2], hit.cpu["rsi"][2]>>

\* The block that c["rip"] names finds the n words of the stack s as it needs them.
StageSound(hit, c, s, n, a) ==
  /\ c["rip"][1] \in {"stub", "common", "dispatch", "restore", "panic",
                     "int80", "syscall", "int80ret"}
  /\ c["rip"][1] = "stub" => StubSound(hit, c, s, n)
  /\ c["rip"][1] = "common" => CommonSound(hit, c, s, n)
  /\ c["rip"][1] = "dispatch" => DispatchSound(hit, c, s, n)
  /\ c["rip"][1] = "restore" => RestoreSound(hit, s, n)
  /\ c["rip"][1] = "int80" => Int80Sound(hit, c, n)
  /\ c["rip"][1] = "syscall" => SyscallSound(hit, c, s, n)
  /\ c["rip"][1] = "int80ret" => Int80RetSound(hit, c, s, n, a)

\* Code with registers c and the lowest n words of the stack s, k entries deep
\* in the kernel, the last of which is hit.
Sound(k, hit, c, s, n, a) ==
  IF k = 0 THEN c["rip"][1] = "code"
  ELSE /\ StageSound(hit, c, s, n, a)
       /\ EntryPushed(hit, s) /\ n >= Base(hit) + 5
       /\ c["rip"][1] \in {"int80", "syscall", "int80ret"} => k = 1

\* What was saved of the code that entry k has hit.
SavedSound(k) ==
  /\ calls[k].rsp <= Len(stk)
  /\ \A j \in 1 .. k : calls[j].rsp <= calls[k].rsp
  /\ Sound(k - 1, calls[k - 1], calls[k].cpu, stk, calls[k].rsp, answer)

\* All entries that have not returned.
Levels == \A k \in 1 .. Len(calls) : SavedSound(k)

\* The entry that runs, or the kernel's own code.
Current == Sound(Len(calls), LastCall, cpu, stk, Len(stk), answer)

\* The inductive invariant.
EntryInv ==
  /\ EntryTypeOK
  /\ GatesSound
  /\ Levels
  /\ Current

\* Every exception's gate leads to its stub.
LEMMA GateLeads ==
  ASSUME GatesSound, Loaded, NEW v \in Exceptions
  PROVE  GateTarget(idt[v]) = <<"stub", v>>
<1>1. v \in 0 .. 31 /\ v \in 0 .. VectorCount - 1 /\ ~(v >= 32)
  BY TrapAssumption DEF Exceptions
<1>2. PICK kind \in {"interrupt", "trap"} : idt = Gates(kind)
  BY Zenon DEF GatesSound, Loaded
<1>3. idt[v].offset = Offset(StubAddress[v])
  BY <1>1, <1>2, Zenon DEF Gates, x86_64_idt_set_gate
<1>4. idt[v].offset.low + Radix * (idt[v].offset.mid + Radix * idt[v].offset.high) = StubAddress[v]
  BY <1>1, <1>3, OffsetWhole, TrapAssumption, Zenon
<1>5. {w \in 0 .. 31 : StubAddress[w] = StubAddress[v]} = {v}
  BY <1>1, TrapAssumption, Zenon
<1> QED BY <1>4, <1>5, SMTT(30) DEF GateTarget

\* The CPU's words are kept if the words up to them are.
LEMMA PushedKept ==
  ASSUME NEW hit, NEW s, NEW t, NEW B \in Nat, B = Base(hit), EntryPushed(hit, s),
         \A i \in 1 .. B + 5 : t[i] = s[i]
  PROVE  EntryPushed(hit, t)
<1>1. /\ B + 1 \in 1 .. B + 5 /\ B + 2 \in 1 .. B + 5 /\ B + 3 \in 1 .. B + 5
      /\ B + 4 \in 1 .. B + 5 /\ B + 5 \in 1 .. B + 5
  OBVIOUS
<1> QED BY <1>1, Zenon DEF EntryPushed

\* The words below n say whether code with n words is sound.
LEMMA SoundBelow ==
  ASSUME NEW k, NEW hit, NEW c, NEW s, NEW t, NEW n \in Nat, NEW a, NEW b,
         k # 0 => hit \in Hit,
         Sound(k, hit, c, s, n, a),
         \A i \in 1 .. n : t[i] = s[i],
         c["rip"][1] = "int80ret" => b = a
  PROVE  Sound(k, hit, c, t, n, b)
<1>1. CASE k = 0
  BY <1>1, Zenon DEF Sound
<1>2. CASE k # 0
  <2> DEFINE B == Base(hit)
  <2>1. B \in Nat
    BY <1>2 DEF Base, Hit
  <2> HIDE DEF B
  <2>2. StageSound(hit, c, s, n, a) /\ EntryPushed(hit, s) /\ n >= B + 5
    BY <1>2, Zenon DEF Sound, B
  <2>3. EntryPushed(hit, t)
    <3>1. \A i \in 1 .. B + 5 : t[i] = s[i]
      BY <2>1, <2>2
    <3> QED BY <2>1, <2>2, <3>1, PushedKept, Zenon DEF B
  <2>4. StubSound(hit, c, s, n) => StubSound(hit, c, t, n)
    BY <2>1 DEF StubSound, B
  <2>5. n >= B + 7 /\ StubPushed(hit, s) => StubPushed(hit, t)
    BY <2>1 DEF StubPushed, B
  <2>6. n >= B + 22 /\ CommonPushed(hit, s) => CommonPushed(hit, t)
    BY <2>1 DEF CommonPushed, B
  <2>7. CommonSound(hit, c, s, n) => CommonSound(hit, c, t, n)
    BY <2>1, <2>5 DEF CommonSound, B
  <2>8. DispatchSound(hit, c, s, n) => DispatchSound(hit, c, t, n)
    BY <2>1, <2>5, <2>6 DEF DispatchSound, B
  <2>9. RestoreSound(hit, s, n) => RestoreSound(hit, t, n)
    BY <2>1, <2>6 DEF RestoreSound, B
  <2>10. SyscallSound(hit, c, s, n) => SyscallSound(hit, c, t, n)
    BY <2>1 DEF SyscallSound, B
  <2>11. c["rip"][1] = "int80ret" /\ Int80RetSound(hit, c, s, n, a)
           => Int80RetSound(hit, c, t, n, b)
    BY <2>1 DEF Int80RetSound, B
  <2>12. StageSound(hit, c, t, n, b)
    BY <2>2, <2>4, <2>7, <2>8, <2>9, <2>10, <2>11, Zenon DEF StageSound
  <2> QED BY <1>2, <2>2, <2>3, <2>12, Zenon DEF Sound, B
<1> QED BY <1>1, <1>2, Zenon

\* The lowest m words of a sequence.
LEMMA Prefix ==
  ASSUME NEW S, NEW s \in Seq(S), NEW m \in 0 .. Len(s)
  PROVE  /\ SubSeq(s, 1, m) \in Seq(S) /\ Len(SubSeq(s, 1, m)) = m
         /\ \A i \in 1 .. m : SubSeq(s, 1, m)[i] = s[i]
OBVIOUS

\* The entries that are being handled have their types.
LEMMA CallsTyped ==
  ASSUME EntryTypeOK
  PROVE  /\ Len(calls) \in Nat /\ Len(stk) \in Nat
         /\ \A k \in 1 .. Len(calls) :
              /\ calls[k] \in Hit
              /\ calls[k].rsp \in Nat /\ calls[k].cpu \in [Machine -> Cell]
         /\ calls # <<>> => Len(calls) \in 1 .. Len(calls)
<1>1. calls \in Seq(Hit) /\ stk \in Seq(Cell)
  BY Zenon DEF EntryTypeOK
<1>2. \A k \in 1 .. Len(calls) : calls[k] \in Hit
  BY <1>1
<1>3. \A h \in Hit : h.rsp \in Nat /\ h.cpu \in [Machine -> Cell]
  BY Zenon DEF Hit
<1> QED BY <1>1, <1>2, <1>3

\* A step above what was saved leaves it sound.
LEMMA LevelsKept ==
  ASSUME EntryTypeOK, Levels, calls' = calls, Len(stk') \in Nat,
         calls # <<>> => /\ LastCall.rsp <= Len(stk')
                         /\ \A i \in 1 .. LastCall.rsp : stk'[i] = stk[i],
         answer' = answer \/ Len(calls) <= 1
  PROVE  Levels'
<1> SUFFICES ASSUME NEW k \in 1 .. Len(calls) PROVE SavedSound(k)'
  BY Zenon DEF Levels
<1>1. /\ Len(calls) \in Nat /\ Len(calls) \in 1 .. Len(calls) /\ calls # <<>>
      /\ calls[k].rsp \in Nat /\ LastCall.rsp \in Nat
      /\ k - 1 # 0 => calls[k - 1] \in Hit
  BY CallsTyped DEF LastCall
<1>2. SavedSound(k) /\ calls[k].rsp <= LastCall.rsp
  BY <1>1, Zenon DEF Levels, SavedSound, LastCall
<1>3. calls[k].rsp <= Len(stk') /\ \A i \in 1 .. calls[k].rsp : stk'[i] = stk[i]
  BY <1>1, <1>2
<1>4. calls[k].cpu["rip"][1] = "int80ret" => answer' = answer
  BY <1>1, <1>2 DEF SavedSound, Sound
<1>5. Sound(k - 1, calls[k - 1], calls[k].cpu, stk, calls[k].rsp, answer)
  BY <1>2, Zenon DEF SavedSound
<1>6. Sound(k - 1, calls[k - 1], calls[k].cpu, stk', calls[k].rsp, answer')
  BY <1>1, <1>3, <1>4, <1>5, SoundBelow, Zenon
<1> QED BY <1>2, <1>3, <1>6, Zenon DEF SavedSound

\* A new entry saves the code it hits.
LEMMA LevelsPushed ==
  ASSUME EntryTypeOK, Levels, NEW v \in Int, NEW c \in [Machine -> Cell],
         Sound(Len(calls), LastCall, c, stk, Len(stk), answer),
         calls' = Append(calls, [vector |-> v, cpu |-> c, rsp |-> Len(stk)]),
         Len(stk') \in Nat, Len(stk) <= Len(stk'),
         \A i \in 1 .. Len(stk) : stk'[i] = stk[i],
         answer' = answer
  PROVE  /\ Levels'
         /\ LastCall' = [vector |-> v, cpu |-> c, rsp |-> Len(stk)]
         /\ Len(calls') = Len(calls) + 1
<1> DEFINE new == [vector |-> v, cpu |-> c, rsp |-> Len(stk)]
<1>0. PICK n \in Nat : n = Len(calls)
  BY CallsTyped, Zenon
<1>1. n \in Nat /\ Len(stk) \in Nat /\ \A k \in 1 .. n : calls[k] \in Hit /\ calls[k].rsp \in Nat
  BY <1>0, CallsTyped, Zenon
<1>2. /\ Len(calls') = n + 1 /\ calls'[n + 1] = new
      /\ \A k \in 1 .. n : calls'[k] = calls[k]
  BY <1>0 DEF EntryTypeOK
<1>3. new.rsp = Len(stk) /\ new.cpu = c
  BY Zenon
<1> HIDE DEF new
<1>4. \A k \in 1 .. n : calls[k].rsp <= Len(stk)
  BY <1>0, Zenon DEF Levels, SavedSound
<1>5. ASSUME NEW k \in 1 .. n PROVE SavedSound(k)'
  <2>1. SavedSound(k)
    BY <1>0, Zenon DEF Levels
  <2>2. /\ calls'[k] = calls[k]
        /\ k - 1 # 0 => calls'[k - 1] = calls[k - 1] /\ calls[k - 1] \in Hit
        /\ \A j \in 1 .. k : calls'[j] = calls[j]
    BY <1>1, <1>2, SMTT(30)
  <2>3. /\ calls[k].rsp \in Nat /\ calls[k].rsp <= Len(stk')
        /\ \A i \in 1 .. calls[k].rsp : stk'[i] = stk[i]
    BY <1>1, <1>4, SMTT(30)
  <2>4. Sound(k - 1, calls[k - 1], calls[k].cpu, stk, calls[k].rsp, answer)
    BY <2>1, Zenon DEF SavedSound
  <2>5. Sound(k - 1, calls[k - 1], calls[k].cpu, stk', calls[k].rsp, answer')
    <3>1. k - 1 # 0 => calls[k - 1] \in Hit
      BY <2>2, Zenon
    <3>2. calls[k].cpu["rip"][1] = "int80ret" => answer' = answer
      BY Zenon
    <3> QED BY <2>3, <2>4, <3>1, <3>2, SoundBelow, Zenon
  <2>6. Sound(k - 1, calls'[k - 1], calls[k].cpu, stk', calls[k].rsp, answer')
    BY <2>2, <2>5, Zenon DEF Sound
  <2> QED BY <2>1, <2>2, <2>3, <2>6, Zenon DEF SavedSound
<1>6. ASSUME NEW k \in Nat, k = n + 1 PROVE SavedSound(k)'
  <2>1. /\ calls'[n + 1].rsp = Len(stk) /\ calls'[n + 1].cpu = c
        /\ calls'[n + 1].rsp <= Len(stk')
        /\ \A j \in 1 .. n + 1 : calls'[j].rsp <= calls'[n + 1].rsp
    BY <1>1, <1>2, <1>3, <1>4, SMTT(30)
  <2>2. n # 0 => LastCall \in Hit /\ calls'[n] = LastCall
    BY <1>0, <1>1, <1>2 DEF LastCall
  <2>3. Sound(n, LastCall, c, stk', Len(stk), answer')
    BY <1>0, <1>1, <2>2, SoundBelow, Zenon
  <2>4. Sound(n, calls'[n], c, stk', Len(stk), answer')
    BY <2>2, <2>3, Zenon DEF Sound
  <2>5. k - 1 = n
    BY <1>1, <1>6
  <2>6. Sound(k - 1, calls'[k - 1], c, stk', Len(stk), answer')
    BY <2>4, <2>5, Zenon
  <2> QED BY <1>6, <2>1, <2>6, Zenon DEF SavedSound
<1>7. \A k \in 1 .. Len(calls') : k \in 1 .. n \/ (k \in Nat /\ k = n + 1)
  BY <1>1, <1>2
<1>8. Levels'
  BY <1>5, <1>6, <1>7, Zenon DEF Levels
<1> QED BY <1>0, <1>2, <1>8, Zenon DEF LastCall, new

\* A return goes back to what was saved.
LEMMA LevelsPopped ==
  ASSUME EntryTypeOK, Levels, calls # <<>>,
         calls' = SubSeq(calls, 1, Len(calls) - 1),
         stk' = Cut(LastCall.rsp),
         answer' = answer \/ Len(calls) = 1
  PROVE  /\ Levels'
         /\ Len(stk') = LastCall.rsp /\ Len(calls') = Len(calls) - 1
         /\ stk' \in Seq(Cell) /\ calls' \in Seq(Hit)
         /\ Sound(Len(calls'), LastCall', LastCall.cpu, stk', Len(stk'), answer')
<1> DEFINE n == Len(calls)
           m == LastCall.rsp
<1>1. /\ n \in Nat /\ n \in 1 .. n /\ m \in Nat /\ LastCall = calls[n] /\ m <= Len(stk)
      /\ Len(stk) \in Nat
      /\ \A k \in 1 .. n : calls[k] \in Hit /\ calls[k].rsp \in Nat /\ calls[k].rsp <= m
  BY CallsTyped, Zenon DEF LastCall, Levels, SavedSound
<1>2. /\ Len(calls') = n - 1 /\ \A k \in 1 .. n - 1 : calls'[k] = calls[k]
      /\ calls' \in Seq(Hit)
  <2>1. calls \in Seq(Hit)
    BY Zenon DEF EntryTypeOK
  <2>2. n - 1 \in 0 .. Len(calls)
    BY <1>1
  <2> QED BY <2>1, <2>2, Prefix, ZenonT(30)
<1>3. Len(stk') = m /\ (\A i \in 1 .. m : stk'[i] = stk[i]) /\ stk' \in Seq(Cell)
  <2>1. stk \in Seq(Cell) /\ m \in 0 .. Len(stk)
    BY <1>1, SMTT(30) DEF EntryTypeOK
  <2> QED BY <2>1, Prefix, Zenon DEF Cut
<1>4. ASSUME NEW k \in 1 .. n
      PROVE  Sound(k - 1, calls'[k - 1], calls[k].cpu, stk', calls[k].rsp, answer')
  <2>1. Sound(k - 1, calls[k - 1], calls[k].cpu, stk, calls[k].rsp, answer)
    BY Zenon DEF Levels, SavedSound
  <2>2. k - 1 # 0 => calls[k - 1] \in Hit /\ calls'[k - 1] = calls[k - 1]
    BY <1>1, <1>2, SMTT(30)
  <2>3. calls[k].rsp \in Nat /\ \A i \in 1 .. calls[k].rsp : stk'[i] = stk[i]
    BY <1>1, <1>3, SMTT(30)
  <2>4. calls[k].cpu["rip"][1] = "int80ret" => answer' = answer
    BY <1>1, <2>1 DEF Sound
  <2>5. Sound(k - 1, calls[k - 1], calls[k].cpu, stk', calls[k].rsp, answer')
    BY <2>1, <2>2, <2>3, <2>4, SoundBelow, ZenonT(30)
  <2> QED BY <2>2, <2>5, Zenon DEF Sound
<1>5. ASSUME NEW k \in 1 .. n - 1 PROVE SavedSound(k)'
  <2>1. k \in 1 .. n /\ calls'[k] = calls[k] /\ \A j \in 1 .. k : calls'[j] = calls[j]
    BY <1>1, <1>2, SMTT(30)
  <2>2. calls[k].rsp <= Len(stk') /\ \A j \in 1 .. k : calls[j].rsp <= calls[k].rsp
    BY <1>1, <1>3, <2>1, Zenon DEF Levels, SavedSound
  <2> QED BY <1>4, <2>1, <2>2, Zenon DEF SavedSound
<1>6. Levels'
  BY <1>2, <1>5, Zenon DEF Levels
<1>7. Sound(n - 1, calls'[n - 1], LastCall.cpu, stk', m, answer')
  BY <1>1, <1>4, Zenon
<1> QED BY <1>2, <1>3, <1>6, <1>7, Zenon DEF LastCall

-----------------------------------------------------------------------------
(* The steps.                                                              *)

\* The general registers by name.
LEMMA GeneralIs ==
  /\ General = {"rax", "rbx", "rcx", "rdx", "rbp", "rdi", "rsi", "r8", "r9", "r10",
                "r11", "r12", "r13", "r14", "r15"}
  /\ \A i \in 1 .. 15 : PushOrder[i] \in General
  /\ \A r \in General : \E i \in 1 .. 15 : PushOrder[i] = r
<1>1. \A i \in 1 .. 15 : PushOrder[i] \in General
  BY Zenon DEF General
<1>2. \A r \in General : \E i \in 1 .. 15 : PushOrder[i] = r
  BY Zenon DEF General
<1>3. PushOrder[1] = "rax" /\ PushOrder[2] = "rbx" /\ PushOrder[3] = "rcx" /\ PushOrder[4] = "rdx"
      /\ PushOrder[5] = "rbp" /\ PushOrder[6] = "rdi" /\ PushOrder[7] = "rsi" /\ PushOrder[8] = "r8"
      /\ PushOrder[9] = "r9" /\ PushOrder[10] = "r10" /\ PushOrder[11] = "r11" /\ PushOrder[12] = "r12"
      /\ PushOrder[13] = "r13" /\ PushOrder[14] = "r14" /\ PushOrder[15] = "r15"
  BY Zenon DEF PushOrder
<1>4. \A i \in 1 .. 15 : i \in {1, 2, 3, 4, 5, 6, 7, 8, 9, 10, 11, 12, 13, 14, 15}
  OBVIOUS
<1> QED BY <1>1, <1>2, <1>3, <1>4

\* The special ones are no general ones.
LEMMA MachineIs ==
  /\ General \subseteq Machine
  /\ "rip" \in Machine /\ "cs" \in Machine /\ "rflags" \in Machine /\ "ss" \in Machine
  /\ "rip" \notin General /\ "cs" \notin General /\ "rflags" \notin General /\ "ss" \notin General
  /\ "rax" \in General /\ "rdi" \in General /\ "rsi" \in General
  /\ "rip" \notin CallerSaved
  /\ \A r \in Machine : r \in General \/ r \in {"rip", "cs", "rflags", "ss"}
BY GeneralIs, Zenon DEF Machine, CallerSaved

\* u is s, of length n, and behind it t, of length m.
Grown(u, s, n, t, m) ==
  /\ Len(u) = n + m
  /\ \A i \in 1 .. n : u[i] = s[i]
  /\ \A i \in 1 .. m : u[n + i] = t[i]

\* Pushing words keeps the ones below.
LEMMA Pushed ==
  ASSUME NEW S, NEW s \in Seq(S), NEW t \in Seq(S), NEW n \in Nat, NEW m \in Nat,
         Len(s) = n, Len(t) = m
  PROVE  s \o t \in Seq(S) /\ Grown(s \o t, s, n, t, m)
<1>1. s \o t \in Seq(S) /\ Len(s \o t) = n + m /\ \A i \in 1 .. n : (s \o t)[i] = s[i]
  OBVIOUS
<1>2. \A i \in 1 .. n + m : (s \o t)[i] = IF i <= n THEN s[i] ELSE t[i - n]
  BY SMTT(30)
<1>3. ASSUME NEW i \in 1 .. m PROVE (s \o t)[n + i] = t[i]
  <2>1. n + i \in 1 .. n + m /\ ~(n + i <= n) /\ n + i - n = i
    OBVIOUS
  <2> QED BY <1>2, <2>1
<1> QED BY <1>1, <1>3, Zenon DEF Grown

\* What the CPU pushes lies from the aligned stack pointer on.
LEMMA Entered ==
  ASSUME EntryTypeOK, NEW hit, hit.rsp = Len(stk)
  PROVE  LET s == stk \o EntryFrame
             B == Base(hit)
         IN /\ s \in Seq(Cell) /\ B \in Nat /\ Len(s) = B + 5 /\ Len(stk) <= B
            /\ \A i \in 1 .. Len(stk) : s[i] = stk[i]
            /\ s[B + 1] = cpu["ss"] /\ s[B + 2] = <<"rsp", Len(stk)>>
            /\ s[B + 3] = cpu["rflags"] /\ s[B + 4] = cpu["cs"] /\ s[B + 5] = cpu["rip"]
<1> DEFINE f == <<cpu["ss"], <<"rsp", Len(stk)>>, cpu["rflags"], cpu["cs"], cpu["rip"]>>
           p == << <<"padding", 0>> >>
<1>0. stk \in Seq(Cell)
  BY Zenon DEF EntryTypeOK
<1>1. Len(stk) \in Nat
  BY <1>0
<1>2. <<"rsp", Len(stk)>> \in Cell /\ <<"padding", 0>> \in Cell
  BY <1>1 DEF Cell, Names
<1>3. cpu["ss"] \in Cell /\ cpu["rflags"] \in Cell /\ cpu["cs"] \in Cell /\ cpu["rip"] \in Cell
  BY MachineIs, Zenon DEF EntryTypeOK
<1>4. f \in Seq(Cell) /\ Len(f) = 5 /\ p \in Seq(Cell) /\ Len(p) = 1
  BY <1>2, <1>3
<1>5. /\ f[1] = cpu["ss"] /\ f[2] = <<"rsp", Len(stk)>> /\ f[3] = cpu["rflags"]
      /\ f[4] = cpu["cs"] /\ f[5] = cpu["rip"]
  BY Zenon
<1>6. EntryFrame = (IF Len(stk) % 2 = 0 THEN <<>> ELSE p) \o f
  BY Zenon DEF EntryFrame
<1> HIDE DEF f, p
<1>7. CASE Len(stk) % 2 = 0
  <2>1. EntryFrame = f
    BY <1>4, <1>6, <1>7
  <2>2. Base(hit) = Len(stk)
    BY <1>1, <1>7 DEF Base
  <2>3. stk \o f \in Seq(Cell) /\ Grown(stk \o f, stk, Len(stk), f, 5)
    BY <1>0, <1>1, <1>4, Pushed, ZenonT(30)
  <2> QED BY <1>1, <1>5, <2>1, <2>2, <2>3, SMTT(30) DEF Grown
<1>8. CASE Len(stk) % 2 = 1
  <2>0. Len(stk) % 2 # 0
    BY <1>8
  <2>1. EntryFrame = p \o f
    BY <1>6, <2>0, Zenon
  <2>2. Base(hit) = Len(stk) + 1
    BY <1>1, <1>8, Zenon DEF Base
  <2> DEFINE q == p \o f
  <2>3. q \in Seq(Cell) /\ Grown(q, p, 1, f, 5)
    BY <1>4, Pushed, Zenon
  <2>4. Len(q) = 6 /\ q[2] = f[1] /\ q[3] = f[2] /\ q[4] = f[3] /\ q[5] = f[4] /\ q[6] = f[5]
    BY <2>3, SMTT(60) DEF Grown
  <2> HIDE DEF q
  <2>5. stk \o q \in Seq(Cell) /\ Grown(stk \o q, stk, Len(stk), q, 6)
    BY <1>0, <1>1, <2>3, <2>4, Pushed, Zenon
  <2>6. EntryFrame = q
    BY <2>1, Zenon DEF q
  <2>7. /\ Len(stk) + 2 = Len(stk) + 1 + 1 /\ Len(stk) + 3 = Len(stk) + 1 + 2
        /\ Len(stk) + 4 = Len(stk) + 1 + 3 /\ Len(stk) + 5 = Len(stk) + 1 + 4
        /\ Len(stk) + 6 = Len(stk) + 1 + 5 /\ Len(stk) <= Len(stk) + 1 /\ Len(stk) + 1 \in Nat
        /\ 2 \in 1 .. 6 /\ 3 \in 1 .. 6 /\ 4 \in 1 .. 6 /\ 5 \in 1 .. 6 /\ 6 \in 1 .. 6
    BY <1>1
  <2>8. /\ Len(stk \o q) = Len(stk) + 6 /\ \A i \in 1 .. Len(stk) : (stk \o q)[i] = stk[i]
        /\ \A i \in 1 .. 6 : (stk \o q)[Len(stk) + i] = q[i]
    BY <2>5, Zenon DEF Grown
  <2>9. /\ (stk \o q)[Len(stk) + 2] = q[2] /\ (stk \o q)[Len(stk) + 3] = q[3]
        /\ (stk \o q)[Len(stk) + 4] = q[4] /\ (stk \o q)[Len(stk) + 5] = q[5]
        /\ (stk \o q)[Len(stk) + 6] = q[6]
    BY <2>7, <2>8, Zenon
  <2> QED BY <1>5, <2>2, <2>4, <2>5, <2>6, <2>7, <2>8, <2>9, SMTT(30)
<1>9. Len(stk) % 2 = 0 \/ Len(stk) % 2 = 1
  BY <1>1
<1> QED BY <1>7, <1>8, <1>9, Zenon

\* The kernel is in its own code exactly when it handles no entry.
LEMMA CurrentIs ==
  ASSUME EntryInv
  PROVE  /\ calls = <<>> => cpu["rip"][1] = "code"
         /\ calls # <<>> =>
              /\ LastCall \in Hit /\ Base(LastCall) \in Nat /\ LastCall.rsp \in Nat
              /\ LastCall.rsp <= Base(LastCall)
              /\ StageSound(LastCall, cpu, stk, Len(stk), answer)
              /\ EntryPushed(LastCall, stk) /\ Len(stk) >= Base(LastCall) + 5
              /\ cpu["rip"][1] # "code"
              /\ cpu["rip"][1] \in {"int80", "syscall", "int80ret"} => Len(calls) = 1
<1>1. Len(calls) \in Nat /\ (calls = <<>> <=> Len(calls) = 0)
  <2>1. calls \in Seq(Hit)
    BY Zenon DEF EntryInv, EntryTypeOK
  <2> QED BY <2>1
<1>2. calls # <<>> => LastCall \in Hit /\ LastCall.rsp \in Nat
  BY CallsTyped, Zenon DEF EntryInv, LastCall
<1>3. calls # <<>> => Base(LastCall) \in Nat /\ LastCall.rsp <= Base(LastCall)
  BY <1>2 DEF Base
<1>4. StageSound(LastCall, cpu, stk, Len(stk), answer) => cpu["rip"][1] # "code"
  BY Zenon DEF StageSound
<1> QED BY <1>1, <1>2, <1>3, <1>4, Zenon DEF EntryInv, Current, Sound

\* A step inside the last entry keeps the invariant if it keeps the words below
\* and goes on to a stage that fits.
LEMMA InsideStep ==
  ASSUME EntryInv, calls # <<>>, calls' = calls, idt' = idt,
         cpu' \in [Machine -> Cell], stk' \in Seq(Cell),
         answer' \in [args : Int \X Int \X Int, ret : Int],
         answer' = answer \/ Len(calls) <= 1,
         Len(stk') >= Base(LastCall) + 5,
         \A i \in 1 .. Base(LastCall) + 5 : stk'[i] = stk[i],
         StageSound(LastCall, cpu', stk', Len(stk'), answer'),
         cpu'["rip"][1] \in {"int80", "syscall", "int80ret"} => Len(calls) = 1
  PROVE  EntryInv'
<1>1. /\ Base(LastCall) \in Nat /\ LastCall.rsp \in Nat /\ LastCall.rsp <= Base(LastCall)
      /\ EntryPushed(LastCall, stk)
  BY CurrentIs, Zenon
<1>2. LastCall' = LastCall
  BY Zenon DEF LastCall
<1>3. EntryTypeOK'
  BY Zenon DEF EntryInv, EntryTypeOK
<1>4. GatesSound'
  BY Zenon DEF EntryInv, GatesSound
<1>5. Len(stk') \in Nat
  OBVIOUS
<1>6. Levels'
  <2>1. LastCall.rsp <= Len(stk') /\ \A i \in 1 .. LastCall.rsp : stk'[i] = stk[i]
    BY <1>1, <1>5, SMTT(30)
  <2> QED BY <1>5, <2>1, LevelsKept, Zenon DEF EntryInv
<1>7. EntryPushed(LastCall, stk')
  BY <1>1, PushedKept, Zenon
<1>8. Len(calls) # 0
  BY DEF EntryInv, EntryTypeOK
<1>9. Current'
  BY <1>2, <1>7, <1>8, Zenon DEF Current, Sound
<1> QED BY <1>3, <1>4, <1>6, <1>9, Zenon DEF EntryInv

\* The CPU enters a stub.
LEMMA EnterStep ==
  ASSUME EntryInv, NEW v \in Exceptions, NEW error,
         error = IF v \in WithErrorCode THEN ErrorCode ELSE <<>>,
         Enter(v, <<"stub", v>>, error), answer' = answer
  PROVE  EntryInv'
<1> DEFINE hit == [vector |-> v, cpu |-> cpu, rsp |-> Len(stk)]
           s == stk \o EntryFrame
           B == Base(hit)
<1>1. EntryTypeOK /\ Levels /\ Current /\ GatesSound
  BY Zenon DEF EntryInv
<1>2. cpu \in [Machine -> Cell] /\ calls \in Seq(Hit) /\ Len(stk) \in Nat /\ Len(calls) \in Nat
  BY <1>1 DEF EntryTypeOK
<1>3. v \in Int
  BY DEF Exceptions
<1>4. hit \in Hit /\ hit.rsp = Len(stk) /\ hit.cpu = cpu /\ hit.vector = v
  BY <1>2, <1>3, Zenon DEF Hit
<1>5. /\ calls' = Append(calls, hit) /\ stk' = s \o error /\ idt' = idt
      /\ cpu' = [cpu EXCEPT !["rip"] = <<"stub", v>>, !["rflags"] = FlagsAfter(idt[v])]
  BY Zenon DEF Enter
<1> HIDE DEF hit
<1>6. /\ s \in Seq(Cell) /\ B \in Nat /\ Len(s) = B + 5 /\ Len(stk) <= B
      /\ \A i \in 1 .. Len(stk) : s[i] = stk[i]
      /\ s[B + 1] = cpu["ss"] /\ s[B + 2] = <<"rsp", Len(stk)>>
      /\ s[B + 3] = cpu["rflags"] /\ s[B + 4] = cpu["cs"] /\ s[B + 5] = cpu["rip"]
  BY <1>1, <1>4, Entered, Zenon
<1> HIDE DEF s, B
<1>7. error \in Seq(Cell) /\ IF v \in WithErrorCode THEN Len(error) = 1 /\ error[1] = <<"error_code", 1>>
                             ELSE Len(error) = 0
  <2>1. <<"error_code", 1>> \in Cell
    BY SMTT(30) DEF Cell, Names
  <2> QED BY <2>1 DEF ErrorCode
<1>8. B + 5 \in Nat /\ B + 5 + 1 = B + 6 /\ B + 5 + 0 = B + 5
  BY <1>6, SMTT(30)
<1>9. /\ stk' \in Seq(Cell) /\ \A i \in 1 .. B + 5 : stk'[i] = s[i]
      /\ IF v \in WithErrorCode THEN Len(stk') = B + 6 /\ stk'[B + 6] = <<"error_code", 1>>
         ELSE Len(stk') = B + 5
  <2>1. CASE v \in WithErrorCode
    <3>1. Len(error) = 1 /\ error[1] = <<"error_code", 1>>
      BY <1>7, <2>1, Zenon
    <3>2. stk' \in Seq(Cell) /\ Grown(stk', s, B + 5, error, 1)
      <4>1. s \in Seq(Cell) /\ error \in Seq(Cell) /\ Len(s) = B + 5 /\ 1 \in Nat
        BY <1>6, <1>7, Zenon
      <4>2. s \o error \in Seq(Cell) /\ Grown(s \o error, s, B + 5, error, 1)
        BY <1>8, <3>1, <4>1, Pushed, Zenon
      <4> QED BY <1>5, <4>2, Zenon
    <3> QED BY <1>8, <2>1, <3>1, <3>2 DEF Grown
  <2>2. CASE v \notin WithErrorCode
    <3>1. Len(error) = 0
      BY <1>7, <2>2, Zenon
    <3>2. stk' \in Seq(Cell) /\ Grown(stk', s, B + 5, error, 0)
      <4>1. s \in Seq(Cell) /\ error \in Seq(Cell) /\ Len(s) = B + 5 /\ 0 \in Nat
        BY <1>6, <1>7, Zenon
      <4>2. s \o error \in Seq(Cell) /\ Grown(s \o error, s, B + 5, error, 0)
        BY <1>8, <3>1, <4>1, Pushed, ZenonT(30)
      <4> QED BY <1>5, <4>2, Zenon
    <3> QED BY <1>8, <2>2, <3>2, Zenon DEF Grown
  <2> QED BY <2>1, <2>2, Zenon
<1>10. Len(stk') \in Nat /\ Len(stk) <= Len(stk') /\ \A i \in 1 .. Len(stk) : stk'[i] = stk[i]
  BY <1>2, <1>6, <1>9, SMTT(30)
<1>11. Levels' /\ LastCall' = hit /\ Len(calls') = Len(calls) + 1
  BY <1>1, <1>2, <1>3, <1>5, <1>10, LevelsPushed, Zenon DEF Current, hit
<1>12. <<"stub", v>> \in Cell /\ FlagsAfter(idt[v]) \in Cell
  <2>1. <<"stub", v>> \in Cell /\ <<"IF", 0>> \in Cell
    BY <1>3 DEF Cell, Names
  <2>2. cpu["rflags"] \in Cell
    BY <1>2, MachineIs, Zenon
  <2> QED BY <2>1, <2>2, Zenon DEF FlagsAfter
<1>13. /\ cpu' \in [Machine -> Cell] /\ cpu'["rip"] = <<"stub", v>>
       /\ \A r \in General : cpu'[r] = cpu[r]
  BY <1>2, <1>5, <1>12, MachineIs, Zenon
<1>14. calls' \in Seq(Hit)
  BY <1>2, <1>4, <1>5
<1>15. StageSound(hit, cpu', stk', Len(stk'), answer')
  <2>1. cpu'["rip"][1] = "stub" /\ cpu'["rip"][2] = v
    BY <1>13
  <2>2. StubSound(hit, cpu', stk', Len(stk'))
    BY <1>4, <1>9, <1>13, <2>1, Zenon DEF StubSound, Same, B
  <2> QED BY <2>1, <2>2, Zenon DEF StageSound
<1>16. EntryPushed(hit, stk') /\ Len(stk') >= B + 5
  <2>1. EntryPushed(hit, s)
    BY <1>4, <1>6, Zenon DEF EntryPushed, B
  <2>2. EntryPushed(hit, stk')
    BY <1>6, <1>9, <2>1, PushedKept, Zenon DEF B
  <2> QED BY <1>6, <1>9, <2>2, SMTT(30)
<1>17. Current'
  <2>1. cpu'["rip"][1] = "stub" /\ Len(calls') # 0
    BY <1>2, <1>11, <1>13
  <2> QED BY <1>11, <1>15, <1>16, <2>1, Zenon DEF Current, Sound, B
<1>18. EntryTypeOK'
  BY <1>1, <1>9, <1>13, <1>14, Zenon DEF EntryTypeOK
<1>19. GatesSound'
  BY <1>1, <1>5, Zenon DEF GatesSound
<1> QED BY <1>11, <1>17, <1>18, <1>19, Zenon DEF EntryInv

\* The stub pushes an error code where the CPU has not, and the vector.
LEMMA StubStep ==
  ASSUME EntryInv, isr_stub, answer' = answer
  PROVE  EntryInv'
<1> DEFINE hit == LastCall
           B == Base(hit)
           v == cpu["rip"][2]
           e == IF v \in ErrorStubs THEN <<>> ELSE << <<"error_code", 0>> >>
           w == << <<"vector", v>> >>
<1>1. /\ cpu["rip"][1] = "stub" /\ stk' = (stk \o e) \o w /\ calls' = calls /\ idt' = idt
      /\ cpu' = [cpu EXCEPT !["rip"] = <<"common", 0>>]
  BY Zenon DEF isr_stub
<1>2. cpu \in [Machine -> Cell] /\ stk \in Seq(Cell) /\ Len(stk) \in Nat
  BY DEF EntryInv, EntryTypeOK
<1>3. calls # <<>> /\ hit \in Hit /\ B \in Nat /\ StubSound(hit, cpu, stk, Len(stk))
  BY <1>1, CurrentIs, Zenon DEF StageSound
<1> HIDE DEF hit, B
<1>4. /\ hit.vector \in Exceptions /\ v = hit.vector /\ Same(hit, cpu, General)
      /\ v \in WithErrorCode => Len(stk) = B + 6 /\ stk[B + 6] = <<"error_code", 1>>
      /\ v \notin WithErrorCode => Len(stk) = B + 5
  BY <1>3, Zenon DEF StubSound, B
<1>5. ErrorStubs = WithErrorCode
  BY Zenon DEF ErrorStubs, WithErrorCode
<1>6. v \in Int
  <2>1. Exceptions \subseteq Int
    BY DEF Exceptions
  <2> QED BY <1>4, <2>1, Zenon
<1> HIDE DEF v
<1>7. <<"error_code", 0>> \in Cell /\ <<"vector", v>> \in Cell /\ <<"common", 0>> \in Cell
  BY <1>6 DEF Cell, Names
<1>8. e \in Seq(Cell) /\ w \in Seq(Cell) /\ Len(w) = 1 /\ w[1] = <<"vector", v>>
  BY <1>7
<1>9. IF v \in WithErrorCode THEN Len(e) = 0 ELSE Len(e) = 1 /\ e[1] = <<"error_code", 0>>
  BY <1>5, Zenon
<1> HIDE DEF e, w
<1> DEFINE s == stk \o e
<1> HIDE DEF s
<1>10. /\ B + 5 \in Nat /\ B + 6 \in Nat /\ B + 5 + 1 = B + 6 /\ B + 6 + 0 = B + 6 /\ B + 6 + 1 = B + 7
       /\ B + 6 \in 1 .. B + 6 /\ \A i \in 1 .. B + 5 : i \in 1 .. B + 6
  BY <1>3
<1>11. /\ s \in Seq(Cell) /\ Len(s) = B + 6 /\ s[B + 6] = ErrorWord(v)
       /\ \A i \in 1 .. B + 5 : s[i] = stk[i]
  <2>1. CASE v \in WithErrorCode
    <3>1. Len(e) = 0 /\ Len(stk) = B + 6 /\ stk[B + 6] = <<"error_code", 1>>
      BY <1>4, <1>9, <2>1, Zenon
    <3>2. s \in Seq(Cell) /\ Grown(s, stk, B + 6, e, 0)
      <4>1. e \in Seq(Cell) /\ 0 \in Nat
        BY <1>8, Zenon
      <4> QED BY <1>2, <1>10, <3>1, <4>1, Pushed, Zenon DEF s
    <3> QED BY <1>10, <2>1, <3>1, <3>2, Zenon DEF ErrorWord, Grown
  <2>2. CASE v \notin WithErrorCode
    <3>1. Len(e) = 1 /\ e[1] = <<"error_code", 0>> /\ Len(stk) = B + 5
      BY <1>4, <1>9, <2>2, Zenon
    <3>2. s \in Seq(Cell) /\ Grown(s, stk, B + 5, e, 1)
      BY <1>2, <1>8, <1>10, <3>1, Pushed, Zenon DEF s
    <3> QED BY <1>10, <2>2, <3>1, <3>2 DEF ErrorWord, Grown
  <2> QED BY <2>1, <2>2, Zenon
<1>12. stk' \in Seq(Cell) /\ Grown(stk', s, B + 6, w, 1)
  <2>1. s \in Seq(Cell) /\ w \in Seq(Cell) /\ Len(s) = B + 6 /\ Len(w) = 1 /\ 1 \in Nat
    BY <1>8, <1>11, Zenon
  <2>2. s \o w \in Seq(Cell) /\ Grown(s \o w, s, B + 6, w, 1)
    BY <1>10, <2>1, Pushed, Zenon
  <2> QED BY <1>1, <2>2, Zenon DEF s
<1>13. /\ Len(stk') = B + 7 /\ stk'[B + 7] = <<"vector", v>> /\ stk'[B + 6] = ErrorWord(v)
       /\ \A i \in 1 .. B + 5 : stk'[i] = stk[i]
  BY <1>8, <1>10, <1>11, <1>12, SMTT(30) DEF Grown
<1>14. /\ cpu' \in [Machine -> Cell] /\ cpu'["rip"] = <<"common", 0>>
       /\ \A r \in General : cpu'[r] = cpu[r]
  BY <1>1, <1>2, <1>7, MachineIs, Zenon
<1>15. cpu'["rip"][1] = "common"
  BY <1>14
<1>16. CommonSound(hit, cpu', stk', Len(stk'))
  BY <1>4, <1>13, <1>14, Zenon DEF CommonSound, StubPushed, Same, B
<1>17. StageSound(hit, cpu', stk', Len(stk'), answer')
  BY <1>15, <1>16, Zenon DEF StageSound
<1>18. Len(stk') >= B + 5 /\ answer \in [args : Int \X Int \X Int, ret : Int]
  BY <1>3, <1>13 DEF EntryInv, EntryTypeOK
<1> QED BY <1>1, <1>3, <1>12, <1>13, <1>14, <1>15, <1>17, <1>18, InsideStep, Zenon DEF hit, B

\* A handler has been called with m words of a frame.
Called(pushed, m, fn, back) ==
  /\ stk' \in Seq(Cell) /\ Len(stk') = Len(stk) + m + 1
  /\ \A i \in 1 .. Len(stk) : stk'[i] = stk[i]
  /\ \A i \in 1 .. m : stk'[Len(stk) + i] = pushed[i]
  /\ stk'[Len(stk) + m + 1] = <<back, 0>>
  /\ cpu' \in [Machine -> Cell]
  /\ cpu'["rdi"] = <<"rsp", Len(stk) + m>> /\ cpu'["rip"] = <<fn, 0>>
  /\ \A r \in Machine \ {"rdi", "rip"} : cpu'[r] = cpu[r]

\* A handler is called with a frame.
LEMMA CallStep ==
  ASSUME EntryTypeOK, NEW pushed \in Seq(Cell), NEW m \in Nat, Len(pushed) = m,
         NEW fn \in Names, NEW back \in Names, CallWithFrame(pushed, fn, back)
  PROVE  Called(pushed, m, fn, back)
<1> DEFINE n == Len(stk)
           s == stk \o pushed
           w == << <<back, 0>> >>
<1>1. /\ stk' = s \o w
      /\ cpu' = [cpu EXCEPT !["rdi"] = <<"rsp", n + m>>, !["rip"] = <<fn, 0>>]
  BY Zenon DEF CallWithFrame
<1>2. stk \in Seq(Cell) /\ n \in Nat /\ cpu \in [Machine -> Cell]
  BY SMTT(30) DEF EntryTypeOK
<1>3. s \in Seq(Cell) /\ Grown(s, stk, n, pushed, m)
  BY <1>2, Pushed, Zenon
<1>4. <<back, 0>> \in Cell /\ <<fn, 0>> \in Cell /\ <<"rsp", n + m>> \in Cell
  BY <1>2 DEF Cell, Names
<1>5. w \in Seq(Cell) /\ Len(w) = 1 /\ w[1] = <<back, 0>>
  BY <1>4
<1> HIDE DEF n, s, w
<1>6. Len(s) = n + m /\ n + m \in Nat /\ 1 \in Nat
  BY <1>2, <1>3 DEF Grown
<1>7. s \o w \in Seq(Cell) /\ Grown(s \o w, s, n + m, w, 1)
  BY <1>3, <1>5, <1>6, Pushed, Zenon
<1>8. stk' \in Seq(Cell) /\ Grown(stk', s, n + m, w, 1)
  BY <1>1, <1>7, Zenon
<1>9. Len(stk') = n + m + 1 /\ stk'[n + m + 1] = <<back, 0>>
  BY <1>5, <1>8 DEF Grown
<1>10. \A i \in 1 .. n : stk'[i] = stk[i]
  BY <1>2, <1>3, <1>6, <1>8 DEF Grown
<1>11. ASSUME NEW i \in 1 .. m PROVE stk'[n + i] = pushed[i]
  <2>1. n + i \in 1 .. n + m
    BY <1>2
  <2> QED BY <1>3, <1>8, <2>1, Zenon DEF Grown
<1>12. /\ cpu' \in [Machine -> Cell]
       /\ cpu'["rdi"] = <<"rsp", n + m>> /\ cpu'["rip"] = <<fn, 0>>
       /\ \A r \in Machine \ {"rdi", "rip"} : cpu'[r] = cpu[r]
  <2>1. "rdi" \in Machine /\ "rip" \in Machine /\ "rdi" # "rip"
    BY MachineIs, Zenon
  <2> QED BY <1>1, <1>2, <1>4, <2>1, Zenon
<1> QED BY <1>8, <1>9, <1>10, <1>11, <1>12, Zenon DEF n, Called

\* isr_common saves the general registers and calls the dispatcher.
LEMMA CommonStep ==
  ASSUME EntryInv, isr_common, answer' = answer
  PROVE  EntryInv'
<1> DEFINE hit == LastCall
           B == Base(hit)
           pushed == [i \in 1 .. 15 |-> cpu[PushOrder[i]]]
<1>1. /\ cpu["rip"][1] = "common" /\ calls' = calls /\ idt' = idt
      /\ CallWithFrame(pushed, "dispatch", "restore")
  BY Zenon DEF isr_common
<1>2. EntryTypeOK /\ cpu \in [Machine -> Cell] /\ answer \in [args : Int \X Int \X Int, ret : Int]
  BY Zenon DEF EntryInv, EntryTypeOK
<1>3. calls # <<>> /\ B \in Nat /\ CommonSound(hit, cpu, stk, Len(stk))
  BY <1>1, CurrentIs, Zenon DEF StageSound
<1> HIDE DEF hit, B
<1>4. Len(stk) = B + 7 /\ Same(hit, cpu, General) /\ StubPushed(hit, stk)
  BY <1>3, Zenon DEF CommonSound, B
<1>5. \A i \in 1 .. 15 : PushOrder[i] \in Machine
  BY GeneralIs, MachineIs, Zenon
<1>6. pushed \in Seq(Cell) /\ Len(pushed) = 15 /\ \A i \in 1 .. 15 : pushed[i] = cpu[PushOrder[i]]
  BY <1>2, <1>5
<1>7. "dispatch" \in Names /\ "restore" \in Names /\ 15 \in Nat
  BY Zenon DEF Names
<1> HIDE DEF pushed
<1>8. /\ stk' \in Seq(Cell) /\ Len(stk') = Len(stk) + 15 + 1
      /\ \A i \in 1 .. Len(stk) : stk'[i] = stk[i]
      /\ \A i \in 1 .. 15 : stk'[Len(stk) + i] = pushed[i]
      /\ stk'[Len(stk) + 15 + 1] = <<"restore", 0>>
      /\ cpu' \in [Machine -> Cell]
      /\ cpu'["rdi"] = <<"rsp", Len(stk) + 15>> /\ cpu'["rip"] = <<"dispatch", 0>>
  <2>1. Called(pushed, 15, "dispatch", "restore")
    BY <1>1, <1>2, <1>6, <1>7, CallStep, Zenon
  <2> QED BY <2>1, Zenon DEF Called
<1>9. /\ B + 7 + 15 = B + 22 /\ B + 7 + 15 + 1 = B + 23
      /\ B + 6 \in 1 .. B + 7 /\ B + 7 \in 1 .. B + 7
      /\ \A i \in 1 .. B + 5 : i \in 1 .. B + 7
  BY <1>3
<1>10. StubPushed(hit, stk')
  BY <1>4, <1>8, <1>9, Zenon DEF StubPushed, B
<1>11. ASSUME NEW i \in 1 .. 15 PROVE stk'[B + 7 + i] = hit.cpu[PushOrder[i]]
  <2>1. stk'[B + 7 + i] = cpu[PushOrder[i]]
    BY <1>4, <1>6, <1>8, Zenon
  <2>2. PushOrder[i] \in General
    BY GeneralIs, Zenon
  <2>3. cpu[PushOrder[i]] = hit.cpu[PushOrder[i]]
    BY <1>4, <2>2, Zenon DEF Same
  <2> QED BY <2>1, <2>3, Zenon
<1>12. DispatchSound(hit, cpu', stk', Len(stk'))
  <2>1. CommonPushed(hit, stk')
    BY <1>11, Zenon DEF CommonPushed, B
  <2> QED BY <1>4, <1>8, <1>9, <1>10, <2>1, Zenon DEF DispatchSound, B
<1>13. cpu'["rip"][1] = "dispatch"
  BY <1>8
<1>14. StageSound(hit, cpu', stk', Len(stk'), answer')
  BY <1>12, <1>13, Zenon DEF StageSound
<1>15. Len(stk') >= B + 5 /\ \A i \in 1 .. B + 5 : stk'[i] = stk[i]
  BY <1>3, <1>4, <1>8, <1>9, SMTT(30)
<1> QED BY <1>1, <1>2, <1>3, <1>8, <1>13, <1>14, <1>15, InsideStep, Zenon DEF hit, B

\* Where the dispatcher looks for a field of its frame.
LEMMA FrameAt ==
  ASSUME EntryInv, cpu["rip"][1] = "dispatch", NEW field, NEW p \in 1 .. 22,
         Place(x86_64_trap_frame, field) = p
  PROVE  Frame(field) = stk[Base(LastCall) + 23 - p] /\ Base(LastCall) \in Nat
<1> DEFINE B == Base(LastCall)
<1>1. B \in Nat /\ DispatchSound(LastCall, cpu, stk, Len(stk))
  BY CurrentIs, Zenon DEF StageSound
<1>2. cpu["rdi"][2] = B + 22
  BY <1>1 DEF DispatchSound
<1> HIDE DEF B
<1>3. B \in Nat
  BY <1>1, Zenon
<1>4. B + 22 + 1 - p = B + 23 - p
  BY <1>3
<1> QED BY <1>2, <1>3, <1>4, Zenon DEF Frame, B

\* The frame of the dispatcher says of the code that was hit what its fields say.
LEMMA DispatchFrame ==
  ASSUME EntryInv, cpu["rip"][1] = "dispatch"
  PROVE  /\ \A r \in Machine : Frame(r) = LastCall.cpu[r]
         /\ Frame("rsp") = <<"rsp", LastCall.rsp>>
         /\ Frame("vector") = <<"vector", LastCall.vector>>
         /\ Frame("error_code") = ErrorWord(LastCall.vector)
         /\ Len(stk) % 2 = 1
<1> DEFINE hit == LastCall
           B == Base(hit)
<1>1. B \in Nat /\ hit.rsp \in Nat /\ DispatchSound(hit, cpu, stk, Len(stk)) /\ EntryPushed(hit, stk)
  BY CurrentIs, Zenon DEF StageSound
<1>2. StubPushed(hit, stk) /\ CommonPushed(hit, stk) /\ Len(stk) = B + 23
  BY <1>1, Zenon DEF DispatchSound
<1>3. Len(stk) % 2 = 1
  <2>1. B = hit.rsp + (hit.rsp % 2)
    BY Zenon DEF Base
  <2>2. B % 2 = 0
    BY <1>1, <2>1
  <2> HIDE DEF B
  <2> QED BY <1>1, <1>2, <2>2
<1> HIDE DEF hit, B
<1>4. /\ B + 23 - 16 = B + 7 /\ B + 23 - 17 = B + 6 /\ B + 23 - 18 = B + 5 /\ B + 23 - 19 = B + 4
      /\ B + 23 - 20 = B + 3 /\ B + 23 - 21 = B + 2 /\ B + 23 - 22 = B + 1
      /\ \A i \in 1 .. 15 : B + 23 - (16 - i) = B + 7 + i /\ 16 - i \in 1 .. 22
  BY <1>1
<1>5. /\ Frame("vector") = stk[B + 7] /\ Frame("error_code") = stk[B + 6]
      /\ Frame("rip") = stk[B + 5] /\ Frame("cs") = stk[B + 4] /\ Frame("rflags") = stk[B + 3]
      /\ Frame("rsp") = stk[B + 2] /\ Frame("ss") = stk[B + 1]
  <2>1. 16 \in 1 .. 22 /\ 17 \in 1 .. 22 /\ 18 \in 1 .. 22 /\ 19 \in 1 .. 22 /\ 20 \in 1 .. 22
        /\ 21 \in 1 .. 22 /\ 22 \in 1 .. 22
    OBVIOUS
  <2>2. /\ Frame("vector") = stk[B + 23 - 16] /\ Frame("error_code") = stk[B + 23 - 17]
        /\ Frame("rip") = stk[B + 23 - 18] /\ Frame("cs") = stk[B + 23 - 19]
    BY <2>1, FramePlaces, FrameAt, ZenonT(30) DEF B, hit
  <2>3. /\ Frame("rflags") = stk[B + 23 - 20] /\ Frame("rsp") = stk[B + 23 - 21]
        /\ Frame("ss") = stk[B + 23 - 22]
    BY <2>1, FramePlaces, FrameAt, ZenonT(30) DEF B, hit
  <2> QED BY <1>4, <2>2, <2>3, Zenon
<1>6. ASSUME NEW r \in General PROVE Frame(r) = hit.cpu[r]
  <2>1. PICK i \in 1 .. 15 : PushOrder[i] = r
    BY GeneralIs, Zenon
  <2>2. Frame(r) = stk[B + 23 - (16 - i)]
    BY <1>4, <2>1, FramePlaces, FrameAt, ZenonT(30) DEF B, hit
  <2>3. Frame(r) = stk[B + 7 + i]
    BY <1>4, <2>2, Zenon
  <2> QED BY <1>2, <2>1, <2>3, Zenon DEF CommonPushed, B
<1>7. \A r \in {"rip", "cs", "rflags", "ss"} : Frame(r) = hit.cpu[r]
  BY <1>1, <1>5, Zenon DEF EntryPushed, B
<1>8. \A r \in Machine : Frame(r) = hit.cpu[r]
  BY <1>6, <1>7, MachineIs, Zenon
<1>9. Frame("rsp") = <<"rsp", hit.rsp>>
  BY <1>1, <1>5, Zenon DEF EntryPushed, B
<1>10. Frame("vector") = <<"vector", hit.vector>> /\ Frame("error_code") = ErrorWord(hit.vector)
  BY <1>2, <1>5, Zenon DEF StubPushed, B
<1> QED BY <1>3, <1>8, <1>9, <1>10, Zenon DEF hit

\* A C function that returns keeps the registers that the caller has not to save.
LEMMA ReturnStep ==
  ASSUME EntryTypeOK, ReturnFromC, Len(stk) # 0
  PROVE  /\ cpu' \in [Machine -> Cell] /\ cpu'["rip"] = stk[Len(stk)]
         /\ \A r \in General \ CallerSaved : cpu'[r] = cpu[r]
<1>1. cpu \in [Machine -> Cell] /\ stk \in Seq(Cell)
  BY Zenon DEF EntryTypeOK
<1>2. stk[Len(stk)] \in Cell /\ Top(0) = stk[Len(stk)]
  BY <1>1 DEF Top
<1>3. <<"lost", 0>> \in Cell
  BY DEF Cell, Names
<1>4. cpu' = [r \in Machine |-> IF r \in CallerSaved THEN <<"lost", 0>>
                                ELSE IF r = "rip" THEN stk[Len(stk)] ELSE cpu[r]]
  BY <1>1, <1>2, Zenon DEF ReturnFromC
<1> QED BY <1>1, <1>2, <1>3, <1>4, MachineIs, Zenon

\* The dispatcher returns from a breakpoint only.
LEMMA DispatchStep ==
  ASSUME EntryInv, x86_64_trap_dispatch, answer' = answer
  PROVE  EntryInv'
<1> DEFINE hit == LastCall
           B == Base(hit)
<1>1. cpu["rip"][1] = "dispatch" /\ calls' = calls /\ idt' = idt
  BY Zenon DEF x86_64_trap_dispatch
<1>2. /\ EntryTypeOK /\ cpu \in [Machine -> Cell] /\ stk \in Seq(Cell) /\ Len(stk) \in Nat
      /\ answer \in [args : Int \X Int \X Int, ret : Int]
  BY SMTT(30) DEF EntryInv, EntryTypeOK
<1>3. calls # <<>> /\ B \in Nat /\ DispatchSound(hit, cpu, stk, Len(stk))
  BY <1>1, CurrentIs, Zenon DEF StageSound
<1>4. Fatal <=> hit.vector # 3
  BY <1>1, DispatchFrame DEF Fatal
<1> HIDE DEF hit, B
<1>5. Len(stk) = B + 23 /\ CommonPushed(hit, stk) /\ stk[B + 23] = <<"restore", 0>>
  BY <1>3, Zenon DEF DispatchSound, B
<1>6. CASE ~Fatal
  <2>1. ReturnFromC /\ stk' = SubSeq(stk, 1, Len(stk) - 1)
    BY <1>6, Zenon DEF x86_64_trap_dispatch, Cut
  <2>2. Len(stk) # 0 /\ Len(stk) - 1 = B + 22 /\ B + 22 \in 0 .. Len(stk)
    BY <1>3, <1>5
  <2>3. /\ stk' \in Seq(Cell) /\ Len(stk') = B + 22
        /\ \A i \in 1 .. B + 22 : stk'[i] = stk[i]
    <3>1. stk' = SubSeq(stk, 1, B + 22)
      BY <2>1, <2>2, Zenon
    <3> QED BY <1>2, <2>2, <3>1, Prefix, ZenonT(30)
  <2>4. /\ B + 22 >= B + 5 /\ \A i \in 1 .. B + 5 : i \in 1 .. B + 22
        /\ \A i \in 1 .. 15 : B + 7 + i \in 1 .. B + 22
    BY <1>3
  <2>5. cpu' \in [Machine -> Cell] /\ cpu'["rip"] = <<"restore", 0>>
    BY <1>2, <1>5, <2>1, <2>2, ReturnStep, Zenon
  <2>6. CommonPushed(hit, stk')
    BY <1>5, <2>3, <2>4, Zenon DEF CommonPushed, B
  <2>7. RestoreSound(hit, stk', Len(stk'))
    BY <1>4, <1>6, <2>3, <2>6, Zenon DEF RestoreSound, B
  <2>8. cpu'["rip"][1] = "restore"
    BY <2>5
  <2>9. StageSound(hit, cpu', stk', Len(stk'), answer')
    BY <2>7, <2>8, Zenon DEF StageSound
  <2>10. Len(stk') >= B + 5 /\ \A i \in 1 .. B + 5 : stk'[i] = stk[i]
    BY <2>3, <2>4, Zenon
  <2> QED BY <1>1, <1>2, <1>3, <2>3, <2>5, <2>8, <2>9, <2>10, InsideStep, ZenonT(30) DEF hit, B
<1>7. CASE Fatal
  <2>1. cpu' = [cpu EXCEPT !["rip"] = <<"panic", 0>>] /\ stk' = stk
    BY <1>7, Zenon DEF x86_64_trap_dispatch
  <2>2. <<"panic", 0>> \in Cell
    BY DEF Cell, Names
  <2>3. cpu' \in [Machine -> Cell] /\ cpu'["rip"] = <<"panic", 0>>
    BY <1>2, <2>1, <2>2, MachineIs, Zenon
  <2>4. cpu'["rip"][1] = "panic"
    BY <2>3
  <2>5. StageSound(hit, cpu', stk', Len(stk'), answer')
    BY <2>4, Zenon DEF StageSound
  <2>6. Len(stk') >= B + 5
    BY <1>3, <1>5, <2>1
  <2> QED BY <1>1, <1>2, <1>3, <2>1, <2>3, <2>4, <2>5, <2>6, InsideStep, Zenon DEF hit, B
<1> QED BY <1>6, <1>7, Zenon

\* iretq goes back to the code that was hit.
LEMMA IretqStep ==
  ASSUME EntryInv, calls # <<>>, idt' = idt, NEW regs \in [Machine -> Cell], NEW n \in Nat,
         Len(stk) = Base(LastCall) + 5 + n, Iretq(regs, n),
         answer' \in [args : Int \X Int \X Int, ret : Int],
         answer' = answer \/ Len(calls) = 1
  PROVE  /\ cpu' \in [Machine -> Cell]
         /\ \A r \in {"rip", "cs", "rflags", "ss"} : cpu'[r] = LastCall.cpu[r]
         /\ \A r \in General : cpu'[r] = regs[r]
         /\ stk' = Cut(LastCall.rsp)
         /\ Len(calls') = Len(calls) - 1
         /\ (cpu' = LastCall.cpu \/ Len(calls) = 1) => EntryInv'
<1> DEFINE hit == LastCall
           B == Base(hit)
<1>1. B \in Nat /\ hit \in Hit /\ hit.rsp \in Nat /\ EntryPushed(hit, stk)
  BY CurrentIs, Zenon
<1>2. hit.cpu \in [Machine -> Cell]
  BY <1>1, Zenon DEF Hit
<1>0. Len(stk) = B + 5 + n
  BY Zenon
<1> HIDE DEF hit, B
<1>3. /\ Len(stk) - n = B + 5 /\ Len(stk) - (n + 1) = B + 4 /\ Len(stk) - (n + 2) = B + 3
      /\ Len(stk) - (n + 3) = B + 2 /\ Len(stk) - (n + 4) = B + 1
  <2>1. B \in Nat
    BY <1>1, Zenon
  <2> QED BY ONLY <1>0, <2>1, n \in Nat
<1>4. /\ Top(n) = hit.cpu["rip"] /\ Top(n + 1) = hit.cpu["cs"] /\ Top(n + 2) = hit.cpu["rflags"]
      /\ Top(n + 3) = <<"rsp", hit.rsp>> /\ Top(n + 4) = hit.cpu["ss"]
  BY <1>1, <1>3, Zenon DEF Top, EntryPushed, B
<1>5. /\ cpu' = [regs EXCEPT !["rip"] = hit.cpu["rip"], !["cs"] = hit.cpu["cs"],
                             !["rflags"] = hit.cpu["rflags"], !["ss"] = hit.cpu["ss"]]
      /\ calls' = SubSeq(calls, 1, Len(calls) - 1)
  BY <1>4, Zenon DEF Iretq
<1>6. stk' = Cut(hit.rsp)
  <2>1. Top(n + 3)[2] = hit.rsp
    BY <1>4
  <2> QED BY <2>1, Zenon DEF Iretq
<1>7. /\ cpu' \in [Machine -> Cell]
      /\ \A r \in {"rip", "cs", "rflags", "ss"} : cpu'[r] = hit.cpu[r]
      /\ \A r \in General : cpu'[r] = regs[r]
  BY <1>2, <1>5, MachineIs, ZenonT(40)
<1>8. /\ Levels' /\ Len(calls') = Len(calls) - 1 /\ stk' \in Seq(Cell) /\ calls' \in Seq(Hit)
      /\ Sound(Len(calls'), LastCall', hit.cpu, stk', Len(stk'), answer')
  BY <1>5, <1>6, LevelsPopped, Zenon DEF EntryInv, hit
<1>9. EntryTypeOK' /\ GatesSound'
  BY <1>7, <1>8, Zenon DEF EntryInv, EntryTypeOK, GatesSound
<1>10. ASSUME cpu' = hit.cpu \/ Len(calls) = 1 PROVE Current'
  <2>1. CASE cpu' = hit.cpu
    BY <1>8, <2>1, Zenon DEF Current
  <2>2. CASE Len(calls) = 1
    <3>1. Len(calls') = 0
      BY <1>8, <2>2
    <3>2. cpu'["rip"] = hit.cpu["rip"]
      BY <1>7, Zenon
    <3> QED BY <1>8, <3>1, <3>2, Zenon DEF Current, Sound
  <2> QED BY <1>10, <2>1, <2>2, Zenon
<1> QED BY <1>6, <1>7, <1>8, <1>9, <1>10, Zenon DEF EntryInv, hit

\* The step leaves the handler of a breakpoint and resumes the code that hit it.
Resumed == LastCall.vector = 3 /\ cpu' = LastCall.cpu /\ stk' = Cut(LastCall.rsp)

\* The step leaves the handler of a system call and hands its answer to the caller.
Answered ==
  /\ LastCall.vector = 128
  /\ answer.args = <<LastCall.cpu["rax"][2], LastCall.cpu["rdi"][2], LastCall.cpu["rsi"][2]>>
  /\ cpu'["rax"] = <<"ret", answer.ret>>
  /\ \A r \in Machine \ CallerSaved : cpu'[r] = LastCall.cpu[r]
  /\ stk' = Cut(LastCall.rsp)

\* isr_return puts all registers back.
LEMMA RestoreStep ==
  ASSUME EntryInv, isr_return, answer' = answer
  PROVE  EntryInv' /\ Resumed
<1> DEFINE hit == LastCall
           B == Base(hit)
           regs == [r \in Machine |-> IF r \in General THEN Top(Place(PopOrder, r) - 1) ELSE cpu[r]]
<1>1. /\ EntryTypeOK /\ cpu \in [Machine -> Cell] /\ stk \in Seq(Cell)
      /\ answer \in [args : Int \X Int \X Int, ret : Int]
  BY Zenon DEF EntryInv, EntryTypeOK
<1>2. cpu["rip"][1] = "restore" /\ idt' = idt /\ Iretq(regs, 17)
  BY <1>1, Zenon DEF isr_return
<1>3. calls # <<>> /\ B \in Nat /\ RestoreSound(hit, stk, Len(stk)) /\ hit \in Hit
  BY <1>2, CurrentIs, Zenon DEF StageSound
<1>4. hit.cpu \in [Machine -> Cell]
  BY <1>3, Zenon DEF Hit
<1> HIDE DEF hit, B
<1>5. Len(stk) = B + 22 /\ hit.vector = 3 /\ CommonPushed(hit, stk)
  BY <1>3, Zenon DEF RestoreSound, B
<1>6. ASSUME NEW r \in General PROVE regs[r] = hit.cpu[r]
  <2>1. PICK i \in 1 .. 15 : PushOrder[i] = r
    BY GeneralIs, Zenon
  <2>2. Place(PopOrder, r) = 16 - i
    BY <2>1, PopPlaces, Zenon
  <2>3. regs[r] = Top(Place(PopOrder, r) - 1)
    BY MachineIs, Zenon
  <2>4. B + 22 - ((16 - i) - 1) = B + 7 + i
    BY <1>3
  <2>5. regs[r] = stk[B + 7 + i]
    <3>0. Len(stk) = B + 22 /\ B \in Nat
      BY <1>3, <1>5, Zenon
    <3>1. Len(stk) - ((16 - i) - 1) = B + 7 + i
      BY <3>0
    <3>2. Top((16 - i) - 1) = stk[B + 7 + i]
      BY <3>1, Zenon DEF Top
    <3> QED BY <2>2, <2>3, <3>2, Zenon
  <2> QED BY <1>5, <2>1, <2>5, Zenon DEF CommonPushed, B
<1>7. regs \in [Machine -> Cell]
  <2>1. ASSUME NEW r \in Machine PROVE regs[r] \in Cell
    <3>1. CASE r \in General
      BY <1>4, <1>6, <3>1, Zenon
    <3>2. CASE r \notin General
      BY <1>1, <3>2, Zenon
    <3> QED BY <3>1, <3>2, Zenon
  <2> QED BY <2>1, Zenon
<1> HIDE DEF regs
<1>8. Len(stk) = B + 5 + 17 /\ 17 \in Nat
  BY <1>3, <1>5
<1>9. /\ cpu' \in [Machine -> Cell]
      /\ \A r \in {"rip", "cs", "rflags", "ss"} : cpu'[r] = hit.cpu[r]
      /\ \A r \in General : cpu'[r] = regs[r]
      /\ stk' = Cut(hit.rsp)
      /\ cpu' = hit.cpu => EntryInv'
  BY <1>1, <1>2, <1>3, <1>7, <1>8, IretqStep, ZenonT(30) DEF hit, B
<1>10. \A r \in Machine : cpu'[r] = hit.cpu[r]
  BY <1>6, <1>9, MachineIs, ZenonT(30)
<1>11. cpu' = hit.cpu
  BY <1>4, <1>9, <1>10, SMTT(30)
<1> QED BY <1>5, <1>9, <1>11, Zenon DEF hit, Resumed

\* Where the system call looks for a field of its frame.
LEMMA SyscallPlaces ==
  /\ Place(mcsos_syscall_frame, "nr") = 1 /\ Place(mcsos_syscall_frame, "arg0") = 2
  /\ Place(mcsos_syscall_frame, "arg1") = 3 /\ Place(mcsos_syscall_frame, "ret") = 8
<1> DEFINE f == mcsos_syscall_frame
<1>1. Len(f) = 8 /\ \A j, k \in 1 .. 8 : f[j] = f[k] => j = k
  BY DEF mcsos_syscall_frame
<1>2. f[1] = "nr" /\ f[2] = "arg0" /\ f[3] = "arg1" /\ f[8] = "ret"
  BY Zenon DEF mcsos_syscall_frame
<1> HIDE DEF f
<1>3. ASSUME NEW x, NEW i \in 1 .. 8, f[i] = x PROVE Place(f, x) = i
  <2>1. Len(f) \in Nat /\ i \in 1 .. Len(f)
    BY <1>1
  <2>2. \A j \in 1 .. Len(f) : f[j] = x => j = i
    BY <1>1, <1>3, Zenon
  <2> QED BY <1>3, <2>1, <2>2, IndexIs, ZenonT(30)
<1> QED BY <1>2, <1>3, SMTT(30) DEF f

\* int $0x80 from the kernel's own code.
LEMMA Int80Step ==
  ASSUME EntryInv, NEW a \in SyscallArgs, Int80(a[1], a[2], a[3])
  PROVE  EntryInv'
<1> DEFINE args == [cpu EXCEPT !["rax"] = <<"nr", a[1]>>, !["rdi"] = <<"arg", a[2]>>,
                               !["rsi"] = <<"arg", a[3]>>]
           hit == [vector |-> 128, cpu |-> args, rsp |-> Len(stk)]
           B == Base(hit)
<1>1. EntryTypeOK /\ Levels /\ Current /\ GatesSound
  BY ZenonT(30) DEF EntryInv
<1>2. cpu \in [Machine -> Cell] /\ Len(stk) \in Nat /\ cpu["rip"][1] = "code"
  BY <1>1, SMTT(30) DEF EntryTypeOK, Int80
<1>3. calls = <<>>
  BY <1>2, CurrentIs, Zenon
<1>4. /\ cpu' = [args EXCEPT !["rip"] = <<"int80", 0>>, !["rflags"] = <<"IF", 0>>]
      /\ calls' = <<hit>> /\ stk' = stk \o EntryFrame /\ idt' = idt /\ answer' = answer
  BY Zenon DEF Int80
<1>5. /\ <<"nr", a[1]>> \in Cell /\ <<"arg", a[2]>> \in Cell /\ <<"arg", a[3]>> \in Cell
      /\ <<"int80", 0>> \in Cell /\ <<"IF", 0>> \in Cell
  <2>1. a[1] \in Int /\ a[2] \in Int /\ a[3] \in Int
    BY KernelEntryAssumption, SyscallAssumption DEF Word
  <2> QED BY <2>1 DEF Cell, Names
<1>6. /\ args \in [Machine -> Cell]
      /\ \A r \in {"rip", "cs", "rflags", "ss"} : args[r] = cpu[r]
  BY <1>2, <1>5, MachineIs, ZenonT(30)
<1> HIDE DEF args
<1>7. hit \in Hit /\ hit.rsp = Len(stk) /\ hit.cpu = args /\ hit.vector = 128
  BY <1>2, <1>6, SMTT(30) DEF Hit
<1> HIDE DEF hit
<1>8. /\ stk' \in Seq(Cell) /\ B \in Nat /\ Len(stk') = B + 5 /\ Len(stk) <= B
      /\ \A i \in 1 .. Len(stk) : stk'[i] = stk[i]
      /\ stk'[B + 1] = cpu["ss"] /\ stk'[B + 2] = <<"rsp", Len(stk)>>
      /\ stk'[B + 3] = cpu["rflags"] /\ stk'[B + 4] = cpu["cs"] /\ stk'[B + 5] = cpu["rip"]
  BY <1>1, <1>4, <1>7, Entered, ZenonT(30)
<1> HIDE DEF B
<1>9. /\ cpu' \in [Machine -> Cell] /\ cpu'["rip"] = <<"int80", 0>>
      /\ \A r \in General : cpu'[r] = args[r]
  BY <1>4, <1>5, <1>6, MachineIs, Zenon
<1>10. calls' = Append(calls, hit) /\ calls' \in Seq(Hit) /\ Len(calls') = 1
  BY <1>3, <1>4, <1>7, SMTT(30)
<1>11. Sound(Len(calls), LastCall, args, stk, Len(stk), answer)
  <2>1. Len(calls) = 0
    BY <1>3, Zenon
  <2>2. args["rip"][1] = "code"
    BY <1>2, <1>6, ZenonT(30)
  <2> QED BY <2>1, <2>2, Zenon DEF Sound
<1>12. 128 \in Int /\ Len(stk') \in Nat /\ Len(stk) <= Len(stk')
  BY <1>2, <1>8
<1>13. Levels' /\ LastCall' = hit
  BY <1>1, <1>4, <1>6, <1>8, <1>10, <1>11, <1>12, LevelsPushed, ZenonT(30) DEF hit
<1>14. EntryPushed(hit, stk')
  BY <1>6, <1>7, <1>8, ZenonT(30) DEF EntryPushed, B
<1>15. cpu'["rip"][1] = "int80"
  BY <1>9
<1>16. StageSound(hit, cpu', stk', Len(stk'), answer')
  <2>1. Int80Sound(hit, cpu', Len(stk'))
    BY <1>7, <1>8, <1>9, ZenonT(30) DEF Int80Sound, Same, B
  <2> QED BY <1>15, <2>1, Zenon DEF StageSound
<1>17. Current'
  <2>1. Len(stk') >= B + 5
    BY <1>8
  <2> QED BY <1>10, <1>13, <1>14, <1>16, <2>1, SMTT(30) DEF Current, Sound, B
<1>18. EntryTypeOK' /\ GatesSound'
  BY <1>1, <1>4, <1>8, <1>9, <1>10, ZenonT(30) DEF EntryTypeOK, GatesSound
<1> QED BY <1>13, <1>17, <1>18, Zenon DEF EntryInv

\* The stub stores the frame of the system call and calls the dispatcher.
LEMMA Int80StubStep ==
  ASSUME EntryInv, x86_64_syscall_int80_stub
  PROVE  EntryInv'
<1> DEFINE hit == LastCall
           B == Base(hit)
           regs == [i \in 1 .. 7 |-> cpu[Stores[8 - i]]]
           ret == << <<"ret", 0>> >>
<1>1. /\ cpu["rip"][1] = "int80" /\ calls' = calls /\ idt' = idt /\ answer' = answer
      /\ CallWithFrame(StoredFrame, "syscall", "int80ret")
  BY Zenon DEF x86_64_syscall_int80_stub
<1>2. /\ EntryTypeOK /\ cpu \in [Machine -> Cell] /\ stk \in Seq(Cell)
      /\ answer \in [args : Int \X Int \X Int, ret : Int]
  BY Zenon DEF EntryInv, EntryTypeOK
<1>3. calls # <<>> /\ B \in Nat /\ Int80Sound(hit, cpu, Len(stk)) /\ Len(calls) = 1
  BY <1>1, CurrentIs, Zenon DEF StageSound
<1> HIDE DEF hit, B
<1>4. Len(stk) = B + 5 /\ hit.vector = 128 /\ Same(hit, cpu, General)
  BY <1>3, ZenonT(30) DEF Int80Sound, B
<1>5. \A i \in 1 .. 7 : Stores[8 - i] \in Machine
  BY GeneralIs, MachineIs DEF Stores
<1>6. <<"ret", 0>> \in Cell
  BY SMTT(30) DEF Cell, Names
<1>7. /\ regs \in Seq(Cell) /\ Len(regs) = 7
      /\ regs[5] = cpu["rsi"] /\ regs[6] = cpu["rdi"] /\ regs[7] = cpu["rax"]
  <2>1. Stores[8 - 5] = "rsi" /\ Stores[8 - 6] = "rdi" /\ Stores[8 - 7] = "rax"
    BY DEF Stores
  <2>2. regs \in Seq(Cell) /\ Len(regs) = 7
    BY <1>2, <1>5, SMTT(30)
  <2> QED BY <2>1, <2>2
<1>8. ret \in Seq(Cell) /\ Len(ret) = 1 /\ 1 \in Nat /\ 7 \in Nat
  BY <1>6
<1>9. StoredFrame = ret \o regs
  BY Zenon DEF StoredFrame
<1> HIDE DEF regs, ret
<1>10. StoredFrame \in Seq(Cell) /\ Grown(StoredFrame, ret, 1, regs, 7)
  BY <1>7, <1>8, <1>9, Pushed, ZenonT(30)
<1>11. /\ Len(StoredFrame) = 8 /\ StoredFrame[6] = cpu["rsi"]
       /\ StoredFrame[7] = cpu["rdi"] /\ StoredFrame[8] = cpu["rax"]
  BY <1>7, <1>10 DEF Grown
<1>12. "syscall" \in Names /\ "int80ret" \in Names /\ 8 \in Nat
  BY Zenon DEF Names
<1>13. Called(StoredFrame, 8, "syscall", "int80ret")
  BY <1>1, <1>2, <1>10, <1>11, <1>12, CallStep, Zenon
<1>14. /\ stk' \in Seq(Cell) /\ Len(stk') = Len(stk) + 8 + 1
       /\ \A i \in 1 .. Len(stk) : stk'[i] = stk[i]
       /\ stk'[Len(stk) + 6] = cpu["rsi"] /\ stk'[Len(stk) + 7] = cpu["rdi"]
       /\ stk'[Len(stk) + 8] = cpu["rax"]
       /\ stk'[Len(stk) + 8 + 1] = <<"int80ret", 0>>
       /\ cpu' \in [Machine -> Cell]
       /\ cpu'["rdi"] = <<"rsp", Len(stk) + 8>> /\ cpu'["rip"] = <<"syscall", 0>>
       /\ \A r \in Machine \ {"rdi", "rip"} : cpu'[r] = cpu[r]
  <2>1. 6 \in 1 .. 8 /\ 7 \in 1 .. 8 /\ 8 \in 1 .. 8
    OBVIOUS
  <2> QED BY <1>11, <1>13, <2>1, Zenon DEF Called
<1>15. /\ Len(stk) + 6 = B + 11 /\ Len(stk) + 7 = B + 12 /\ Len(stk) + 8 = B + 13
       /\ Len(stk) + 8 + 1 = B + 14
  <2>1. Len(stk) = B + 5 /\ B \in Nat
    BY <1>3, <1>4, Zenon
  <2> QED BY <2>1
<1>16. Same(hit, cpu', General \ CallerSaved)
  <2>1. \A r \in General \ CallerSaved : r \in Machine \ {"rdi", "rip"}
    BY MachineIs, Zenon DEF CallerSaved
  <2>2. \A r \in General : cpu[r] = hit.cpu[r]
    BY <1>4, Zenon DEF Same
  <2>3. \A r \in Machine \ {"rdi", "rip"} : cpu'[r] = cpu[r]
    BY <1>14, Zenon
  <2> QED BY <2>1, <2>2, <2>3, Zenon DEF Same
<1>17. cpu["rsi"] = hit.cpu["rsi"] /\ cpu["rdi"] = hit.cpu["rdi"] /\ cpu["rax"] = hit.cpu["rax"]
  BY <1>4, MachineIs, Zenon DEF Same
<1>18. SyscallSound(hit, cpu', stk', Len(stk'))
  BY <1>4, <1>14, <1>15, <1>16, <1>17, ZenonT(30) DEF SyscallSound, B
<1>19. cpu'["rip"][1] = "syscall"
  BY <1>14
<1>20. StageSound(hit, cpu', stk', Len(stk'), answer')
  BY <1>18, <1>19, ZenonT(30) DEF StageSound
<1>21. Len(stk') >= B + 5 /\ \A i \in 1 .. B + 5 : stk'[i] = stk[i]
  BY <1>3, <1>4, <1>14, <1>15, SMTT(30)
<1> QED BY <1>1, <1>2, <1>3, <1>14, <1>20, <1>21, InsideStep, ZenonT(30) DEF hit, B

\* What the dispatcher of the system calls returns is a number.
LEMMA DispatchReturns ==
  ASSUME NEW nr \in Int, NEW arg0 \in Int, NEW arg1 \in Int, NEW r \in OpResults
  PROVE  mcsos_syscall_dispatch(nr, arg0, arg1, r).ret \in Int
<1>1. r \in Int
  BY SyscallAssumption, Zenon
<1>2. /\ MCSOS_OK \in Int /\ MCSOS_EINVAL \in Int /\ MCSOS_ENOSYS \in Int /\ MCSOS_EFAULT \in Int
      /\ MCSOS_EBUSY \in Int /\ PingMagic \in Int
  BY DEF MCSOS_OK, MCSOS_EINVAL, MCSOS_ENOSYS, MCSOS_EFAULT, MCSOS_EBUSY, PingMagic
<1>3. \A x \in Int : Returns(x).ret \in Int /\ \A op : Calls(op, x).ret \in Int
  BY DEF Returns, Calls
<1>4. sys_get_ticks(r).ret \in Int /\ sys_yield.ret \in Int /\ sys_exit_thread.ret \in Int
  BY <1>1, <1>2, <1>3, SMTT(30) DEF sys_get_ticks, sys_yield, sys_exit_thread
<1>5. sys_write_serial(arg0, arg1, r).ret \in Int
  BY <1>1, <1>2, <1>3, SMTT(30) DEF sys_write_serial, default_write_serial
<1> QED BY <1>2, <1>3, <1>4, <1>5, Zenon DEF mcsos_syscall_dispatch

\* The system call is dispatched with the registers of its caller, and its answer
\* goes to the word the stub will load.
LEMMA SyscallStep ==
  ASSUME EntryInv, NEW r \in OpResults, mcsos_syscall_dispatch_frame(r)
  PROVE  EntryInv'
<1> DEFINE hit == LastCall
           B == Base(hit)
           args == <<stk[FieldAt("nr")][2], stk[FieldAt("arg0")][2], stk[FieldAt("arg1")][2]>>
           ret == mcsos_syscall_dispatch(args[1], args[2], args[3], r).ret
           cut == Cut(Len(stk) - 1)
<1>1. /\ cpu["rip"][1] = "syscall" /\ calls' = calls /\ idt' = idt /\ ReturnFromC
      /\ stk' = [cut EXCEPT ![FieldAt("ret")] = <<"ret", ret>>]
      /\ answer' = [args |-> args, ret |-> ret]
  BY DEF mcsos_syscall_dispatch_frame
<1>2. EntryTypeOK /\ cpu \in [Machine -> Cell] /\ stk \in Seq(Cell)
  BY SMTT(30) DEF EntryInv, EntryTypeOK
<1>3. /\ calls # <<>> /\ B \in Nat /\ hit \in Hit /\ SyscallSound(hit, cpu, stk, Len(stk))
      /\ Len(calls) = 1
  BY <1>1, CurrentIs, ZenonT(30) DEF StageSound
<1> HIDE DEF hit, B
<1>4. /\ Len(stk) = B + 14 /\ hit.vector = 128 /\ Same(hit, cpu, General \ CallerSaved)
      /\ cpu["rdi"] = <<"rsp", B + 13>> /\ stk[B + 14] = <<"int80ret", 0>>
      /\ stk[B + 11] = hit.cpu["rsi"] /\ stk[B + 12] = hit.cpu["rdi"] /\ stk[B + 13] = hit.cpu["rax"]
  BY <1>3, SMTT(30) DEF SyscallSound, B
<1>5. /\ FieldAt("nr") = B + 13 /\ FieldAt("arg0") = B + 12 /\ FieldAt("arg1") = B + 11
      /\ FieldAt("ret") = B + 6
  <2>1. cpu["rdi"][2] = B + 13 /\ B \in Nat
    BY <1>3, <1>4
  <2>2. /\ FieldAt("nr") = cpu["rdi"][2] + 1 - 1 /\ FieldAt("arg0") = cpu["rdi"][2] + 1 - 2
        /\ FieldAt("arg1") = cpu["rdi"][2] + 1 - 3 /\ FieldAt("ret") = cpu["rdi"][2] + 1 - 8
    BY SyscallPlaces, ZenonT(30) DEF FieldAt
  <2> QED BY <2>1, <2>2, SMTT(30)
<1>6. args = <<hit.cpu["rax"][2], hit.cpu["rdi"][2], hit.cpu["rsi"][2]>>
  BY <1>4, <1>5, SMTT(60)
<1>7. /\ hit.cpu["rax"][2] \in Int /\ hit.cpu["rdi"][2] \in Int /\ hit.cpu["rsi"][2] \in Int
  <2>1. hit.cpu \in [Machine -> Cell]
    BY <1>3 DEF Hit
  <2>2. hit.cpu["rax"] \in Cell /\ hit.cpu["rdi"] \in Cell /\ hit.cpu["rsi"] \in Cell
    BY <2>1, MachineIs, SMTT(30)
  <2> QED BY <2>2 DEF Cell
<1>8. args \in Int \X Int \X Int /\ args[1] \in Int /\ args[2] \in Int /\ args[3] \in Int
  BY <1>6, <1>7, SMTT(30)
<1> HIDE DEF args
<1>9. ret \in Int
  BY <1>8, DispatchReturns, SMTT(30)
<1> HIDE DEF ret
<1>10. answer' \in [args : Int \X Int \X Int, ret : Int]
  BY <1>1, <1>8, <1>9, SMTT(30)
<1>11. /\ cut \in Seq(Cell) /\ Len(cut) = B + 13 /\ \A i \in 1 .. B + 13 : cut[i] = stk[i]
  <2>1. Len(stk) - 1 = B + 13 /\ B + 13 \in 0 .. Len(stk)
    <3>1. Len(stk) = B + 14 /\ B \in Nat
      BY <1>3, <1>4, SMTT(30)
    <3> QED BY <3>1, SMTT(30)
  <2>2. cut = SubSeq(stk, 1, B + 13)
    BY <2>1, SMTT(30) DEF Cut
  <2>3. stk \in Seq(Cell)
    BY <1>2
  <2>4. /\ SubSeq(stk, 1, B + 13) \in Seq(Cell) /\ Len(SubSeq(stk, 1, B + 13)) = B + 13
        /\ \A i \in 1 .. B + 13 : SubSeq(stk, 1, B + 13)[i] = stk[i]
    BY <2>1, <2>3, Prefix, ZenonT(30)
  <2> QED BY <2>2, <2>4, Zenon
<1>12. <<"ret", ret>> \in Cell
  BY <1>9, SMTT(30) DEF Cell, Names
<1> HIDE DEF cut
<1>13. B + 6 \in 1 .. B + 13 /\ \A i \in 1 .. B + 5 : i \in 1 .. B + 13 /\ i # B + 6
  BY <1>3
<1>14. stk' = [cut EXCEPT ![B + 6] = <<"ret", ret>>]
  BY <1>1, <1>5, ZenonT(30)
<1>15. /\ stk' \in Seq(Cell) /\ Len(stk') = B + 13 /\ stk'[B + 6] = <<"ret", ret>>
       /\ \A i \in 1 .. B + 13 : i # B + 6 => stk'[i] = cut[i]
  BY <1>11, <1>12, <1>13, <1>14, SMTT(30)
<1>16. Len(stk') >= B + 5 /\ \A i \in 1 .. B + 5 : stk'[i] = stk[i]
  BY <1>3, <1>11, <1>13, <1>15, SMTT(30)
<1>17. /\ cpu' \in [Machine -> Cell] /\ cpu'["rip"] = <<"int80ret", 0>>
       /\ \A x \in General \ CallerSaved : cpu'[x] = cpu[x]
  <2>1. Len(stk) # 0
    BY <1>3, <1>4, SMTT(30)
  <2> QED BY <1>1, <1>2, <1>4, <2>1, ReturnStep, SMTT(30)
<1>18. Same(hit, cpu', General \ CallerSaved)
  <2>1. \A x \in General \ CallerSaved : cpu[x] = hit.cpu[x]
    BY <1>4 DEF Same
  <2> QED BY <1>17, <2>1, SMTT(30) DEF Same
<1>19. Int80RetSound(hit, cpu', stk', Len(stk'), answer')
  <2>1. answer'.args = args /\ answer'.ret = ret
    BY <1>1, SMTT(30)
  <2> QED BY <1>4, <1>6, <1>15, <1>18, <2>1, ZenonT(30) DEF Int80RetSound, B
<1>20. cpu'["rip"][1] = "int80ret"
  BY <1>17, SMTT(70)
<1>21. StageSound(hit, cpu', stk', Len(stk'), answer')
  BY <1>19, <1>20 DEF StageSound
<1>22. Len(calls) <= 1
  BY <1>3, SMTT(30)
<1> QED BY <1>1, <1>3, <1>10, <1>15, <1>16, <1>17, <1>21, <1>22, InsideStep, ZenonT(40) DEF hit, B

\* The stub loads the answer and goes back to the caller.
LEMMA Int80ReturnStep ==
  ASSUME EntryInv, int80_return
  PROVE  /\ EntryInv'
         /\ Answered
<1> DEFINE hit == LastCall
           B == Base(hit)
           regs == [cpu EXCEPT !["rax"] = Top(RetOffset)]
<1>1. cpu["rip"][1] = "int80ret" /\ idt' = idt /\ Iretq(regs, 8) /\ answer' = NoAnswer
  BY DEF int80_return
<1>2. EntryTypeOK /\ cpu \in [Machine -> Cell] /\ stk \in Seq(Cell)
  BY SMTT(30) DEF EntryInv, EntryTypeOK
<1>3. /\ calls # <<>> /\ B \in Nat /\ Int80RetSound(hit, cpu, stk, Len(stk), answer)
      /\ Len(calls) = 1
  BY <1>1, CurrentIs, SMTT(60) DEF StageSound
<1> HIDE DEF hit, B
<1>4. /\ Len(stk) = B + 13 /\ hit.vector = 128 /\ Same(hit, cpu, General \ CallerSaved)
      /\ stk[B + 6] = <<"ret", answer.ret>>
      /\ answer.args = <<hit.cpu["rax"][2], hit.cpu["rdi"][2], hit.cpu["rsi"][2]>>
  BY <1>3, SMTT(30) DEF Int80RetSound, B
<1>5. Len(stk) - RetOffset = B + 6 /\ Len(stk) = B + 5 + 8 /\ 8 \in Nat /\ B + 6 \in 1 .. Len(stk)
  <2>1. Len(stk) = B + 13 /\ B \in Nat
    BY <1>3, <1>4, SMTT(30)
  <2> QED BY <2>1, SMTT(30) DEF RetOffset
<1>6. Top(RetOffset) = <<"ret", answer.ret>>
  BY <1>4, <1>5, SMTT(30) DEF Top
<1>7. <<"ret", answer.ret>> \in Cell
  <2>1. stk[B + 6] \in Cell
    BY <1>2, <1>5, SMTT(30)
  <2> QED BY <1>4, <2>1, SMTT(30)
<1>8. /\ regs \in [Machine -> Cell] /\ regs["rax"] = <<"ret", answer.ret>>
      /\ \A r \in Machine : r # "rax" => regs[r] = cpu[r]
  BY <1>2, <1>6, <1>7, MachineIs, SMTT(30)
<1> HIDE DEF regs
<1>9. NoAnswer \in [args : Int \X Int \X Int, ret : Int]
  BY DEF NoAnswer
<1>10. /\ \A r \in {"rip", "cs", "rflags", "ss"} : cpu'[r] = hit.cpu[r]
       /\ \A r \in General : cpu'[r] = regs[r]
       /\ stk' = Cut(hit.rsp) /\ EntryInv'
  BY <1>1, <1>3, <1>5, <1>8, <1>9, IretqStep, ZenonT(30) DEF hit, B
<1>11. cpu'["rax"] = <<"ret", answer.ret>>
  BY <1>8, <1>10, MachineIs, SMTT(30)
<1>12. ASSUME NEW r \in Machine \ CallerSaved PROVE cpu'[r] = hit.cpu[r]
  <2>1. CASE r \in General
    <3>1. r # "rax" /\ r \in Machine
      BY DEF CallerSaved
    <3>2. cpu'[r] = cpu[r]
      BY <1>8, <1>10, <2>1, <3>1, ZenonT(30)
    <3> QED BY <1>4, <2>1, <3>2, SMTT(30) DEF Same
  <2>2. CASE r \notin General
    BY <1>10, <2>2, MachineIs, ZenonT(30)
  <2> QED BY <2>1, <2>2, SMTT(30)
<1> QED BY <1>4, <1>10, <1>11, <1>12, ZenonT(30) DEF hit, Answered

\* The registers of the kernel's own code.
LEMMA RegistersTyped ==
  ASSUME NEW g \in Int
  PROVE  Registers(g) \in [Machine -> Cell] /\ Registers(g)["rip"] = <<"code", g>>
<1>1. Registers(g) = [r \in Machine |-> IF r = "rip" THEN <<"code", g>>
                                        ELSE IF r = "rflags" THEN <<"IF", 0>> ELSE <<r, g>>]
  BY DEF Registers, Machine
<1>2. <<"code", g>> \in Cell /\ <<"IF", 0>> \in Cell
  BY SMTT(30) DEF Cell, Names
<1>3. \A r \in Machine : r \notin {"rip", "rflags"} => r \in Names
  BY MachineIs, SMTT(30) DEF Names
<1>4. \A r \in Machine : r \notin {"rip", "rflags"} => <<r, g>> \in Cell
  BY <1>3, SMTT(30) DEF Cell
<1> QED BY <1>1, <1>2, <1>4, MachineIs, SMTT(30)

\* A step of the kernel's own code.
LEMMA OutsideStep ==
  ASSUME EntryInv, calls = <<>>, calls' = calls, GatesSound',
         cpu' \in [Machine -> Cell], stk' \in Seq(Cell), answer' = answer,
         cpu'["rip"][1] = "code"
  PROVE  EntryInv'
<1>1. Len(calls) = 0
  BY SMTT(30)
<1>2. EntryTypeOK'
  BY SMTT(30) DEF EntryInv, EntryTypeOK
<1>3. Levels'
  BY <1>1, SMTT(30) DEF Levels
<1>4. Current'
  BY <1>1 DEF Current, Sound
<1> QED BY <1>2, <1>3, <1>4, SMTT(30) DEF EntryInv

\* The invariant holds at first.
LEMMA InitEntry == Init => EntryInv
<1> SUFFICES ASSUME Init PROVE EntryInv
  BY SMTT(30)
<1>1. /\ idt = [v \in 0 .. VectorCount - 1 |-> NoGate] /\ cpu = Registers(0)
      /\ stk = << <<"local", 0>> >> /\ calls = <<>> /\ answer = NoAnswer
  BY SMTT(30) DEF Init, TrapInit
<1>2. <<"local", 0>> \in Cell
  BY SMTT(30) DEF Cell, Names
<1>3. stk \in Seq(Cell) /\ calls \in Seq(Hit) /\ Len(calls) = 0
  BY <1>1, <1>2, SMTT(30)
<1>4. cpu \in [Machine -> Cell] /\ cpu["rip"][1] = "code"
  BY <1>1, RegistersTyped, SMTT(30)
<1>5. answer \in [args : Int \X Int \X Int, ret : Int]
  BY <1>1, SMTT(30) DEF NoAnswer
<1>6. EntryTypeOK
  BY <1>3, <1>4, <1>5, SMTT(30) DEF EntryTypeOK
<1>7. GatesSound /\ Levels /\ Current
  BY <1>1, <1>3, <1>4, SMTT(30) DEF GatesSound, Levels, Current, Sound
<1> QED BY <1>6, <1>7, SMTT(30) DEF EntryInv

\* The steps of the kernel's own code.
LEMMA CodeSteps ==
  ASSUME EntryInv, answer' = answer,
         \/ \E kind \in {"interrupt", "trap"} : x86_64_idt_init(kind)
         \/ \E g \in 0 .. 1 : Compute(g)
         \/ Sti
  PROVE  EntryInv' /\ calls' = calls
<1>1. EntryTypeOK /\ GatesSound /\ cpu \in [Machine -> Cell] /\ stk \in Seq(Cell)
  BY SMTT(30) DEF EntryInv, EntryTypeOK
<1>2. CASE \E kind \in {"interrupt", "trap"} : x86_64_idt_init(kind)
  <2>1. PICK kind \in {"interrupt", "trap"} : x86_64_idt_init(kind)
    BY <1>2, SMTT(30)
  <2>2. idt' = Gates(kind) /\ cpu' = cpu /\ stk' = stk /\ calls' = calls
    BY <2>1, SMTT(30) DEF x86_64_idt_init, Gates
  <2>3. GatesSound'
    BY <2>2, SMTT(60) DEF GatesSound, Gates
  <2>4. EntryTypeOK' /\ Levels' /\ Current'
    BY <2>2, SMTT(30) DEF EntryInv, EntryTypeOK, Levels, SavedSound, Current, LastCall
  <2> QED BY <2>2, <2>3, <2>4, SMTT(30) DEF EntryInv
<1>3. CASE \E g \in 0 .. 1 : Compute(g)
  <2>1. PICK g \in 0 .. 1 : Compute(g)
    BY <1>3, SMTT(30)
  <2>2. /\ cpu["rip"][1] = "code" /\ idt' = idt /\ calls' = calls
        /\ cpu' = [Registers(g) EXCEPT !["rflags"] = cpu["rflags"]]
        /\ stk' = [i \in 1 .. g + 1 |-> <<"local", 0>>]
    BY <2>1, SMTT(30) DEF Compute
  <2>3. calls = <<>>
    BY <2>2, CurrentIs, SMTT(30)
  <2>4. <<"local", 0>> \in Cell
    BY SMTT(30) DEF Cell, Names
  <2>5. stk' \in Seq(Cell)
    BY <2>2, <2>4, SMTT(30)
  <2>6. cpu' \in [Machine -> Cell] /\ cpu'["rip"] = <<"code", g>>
    <3>1. Registers(g) \in [Machine -> Cell] /\ Registers(g)["rip"] = <<"code", g>>
      BY RegistersTyped, SMTT(30)
    <3>2. cpu["rflags"] \in Cell
      BY <1>1, MachineIs, SMTT(30)
    <3> QED BY <2>2, <3>1, <3>2, MachineIs, ZenonT(30)
  <2>7. cpu'["rip"][1] = "code" /\ GatesSound'
    BY <1>1, <2>2, <2>6, SMTT(30) DEF GatesSound
  <2> QED BY <2>2, <2>3, <2>5, <2>6, <2>7, OutsideStep, SMTT(30)
<1>4. CASE Sti
  <2>1. /\ cpu["rip"][1] = "code" /\ idt' = idt /\ calls' = calls /\ stk' = stk
        /\ cpu' = [cpu EXCEPT !["rflags"] = <<"IF", 1>>]
    BY <1>4, SMTT(30) DEF Sti
  <2>2. calls = <<>>
    BY <2>1, CurrentIs, SMTT(30)
  <2>3. <<"IF", 1>> \in Cell
    BY SMTT(30) DEF Cell, Names
  <2>4. cpu' \in [Machine -> Cell] /\ cpu'["rip"] = cpu["rip"]
    BY <1>1, <2>1, <2>3, MachineIs, SMTT(30)
  <2>5. cpu'["rip"][1] = "code" /\ GatesSound'
    BY <1>1, <2>1, <2>4, SMTT(30) DEF GatesSound
  <2> QED BY <1>1, <2>1, <2>2, <2>4, <2>5, OutsideStep, SMTT(30)
<1> QED BY <1>2, <1>3, <1>4, SMTT(30)

\* An exception, or an interrupt without a gate, enters a stub.
LEMMA EntrySteps ==
  ASSUME EntryInv, answer' = answer,
         (\E v \in Exceptions : Exception(v)) \/ (\E v \in 32 .. 33 : Interrupt(v))
  PROVE  EntryInv' /\ Len(calls') = Len(calls) + 1
<1>1. GatesSound /\ calls \in Seq(Hit)
  BY SMTT(30) DEF EntryInv, EntryTypeOK
<1>2. \A v, target, error : Enter(v, target, error) => Len(calls') = Len(calls) + 1
  BY <1>1, SMTT(30) DEF Enter
<1>3. CASE \E v \in Exceptions : Exception(v)
  <2>1. PICK v \in Exceptions : Exception(v)
    BY <1>3, SMTT(60)
  <2>2. Loaded /\ Enter(v, GateTarget(idt[v]), IF v \in WithErrorCode THEN ErrorCode ELSE <<>>)
    BY <2>1, SMTT(30) DEF Exception
  <2>3. GateTarget(idt[v]) = <<"stub", v>>
    BY <1>1, <2>2, GateLeads, SMTT(30)
  <2> QED BY <1>2, <2>2, <2>3, EnterStep, SMTT(30)
<1>4. CASE \E v \in 32 .. 33 : Interrupt(v)
  <2>1. Loaded /\ Enter(13, GateTarget(idt[13]), ErrorCode)
    BY <1>4, SMTT(30) DEF Interrupt
  <2>2. 13 \in Exceptions /\ 13 \in WithErrorCode
    BY SMTT(30) DEF Exceptions, WithErrorCode
  <2>3. GateTarget(idt[13]) = <<"stub", 13>>
    BY <1>1, <2>1, <2>2, GateLeads, SMTT(30)
  <2> QED BY <1>2, <2>1, <2>2, <2>3, EnterStep, SMTT(30)
<1> QED BY <1>3, <1>4, SMTT(30)

\* What a step that leaves the kernel does: it resumes the code that hit a
\* breakpoint, or it answers a system call.
Leaves == Len(calls') < Len(calls) => Resumed \/ Answered

\* Every step keeps the invariant, and returns as it should.
LEMMA NextEntry ==
  ASSUME EntryInv, [Next]_vars
  PROVE  EntryInv' /\ Leaves
<1>1. calls \in Seq(Hit) /\ Len(calls) \in Nat
  BY SMTT(30) DEF EntryInv, EntryTypeOK
<1>2. calls' = calls => ~(Len(calls') < Len(calls))
  BY <1>1, SMTT(30)
<1>3. ASSUME answer' = answer,
             \/ \E kind \in {"interrupt", "trap"} : x86_64_idt_init(kind)
             \/ \E g \in 0 .. 1 : Compute(g)
             \/ Sti
      PROVE  EntryInv' /\ calls' = calls
  BY <1>3, CodeSteps, SMTT(30)
<1>4. ASSUME answer' = answer,
             (\E v \in Exceptions : Exception(v)) \/ (\E v \in 32 .. 33 : Interrupt(v))
      PROVE  EntryInv' /\ ~(Len(calls') < Len(calls))
  BY <1>1, <1>4, EntrySteps, SMTT(30)
<1>5. ASSUME answer' = answer, isr_stub \/ isr_common \/ x86_64_trap_dispatch
      PROVE  EntryInv' /\ calls' = calls
  BY <1>5, StubStep, CommonStep, DispatchStep, ZenonT(30)
     DEF isr_stub, isr_common, x86_64_trap_dispatch
<1>6. CASE \E a \in SyscallArgs : Int80(a[1], a[2], a[3])
  <2>1. PICK a \in SyscallArgs : Int80(a[1], a[2], a[3])
    BY <1>6, SMTT(30)
  <2>2. EntryInv'
    BY <2>1, Int80Step, SMTT(30)
  <2>3. cpu["rip"][1] = "code" /\ Len(calls') = 1
    BY <2>1, SMTT(30) DEF Int80
  <2>4. calls = <<>>
    BY <2>3, CurrentIs, SMTT(30)
  <2>5. ~(Len(calls') < Len(calls))
    BY <2>3, <2>4, SMTT(30)
  <2> QED BY <2>2, <2>5, ZenonT(30) DEF Leaves
<1>7. CASE x86_64_syscall_int80_stub \/ \E r \in OpResults : mcsos_syscall_dispatch_frame(r)
  <2>1. EntryInv'
    BY <1>7, Int80StubStep, SyscallStep, ZenonT(60)
  <2>2. calls' = calls
    BY <1>7, SMTT(30) DEF x86_64_syscall_int80_stub, mcsos_syscall_dispatch_frame
  <2> QED BY <1>2, <2>1, <2>2, Zenon DEF Leaves
<1>8. CASE SetUp \/ UNCHANGED vars
  <2>1. cpu' = cpu /\ stk' = stk /\ calls' = calls /\ idt' = idt /\ answer' = answer
    BY <1>8, SMTT(60) DEF SetUp, vars, trapVars
  <2>2. EntryTypeOK' /\ Levels' /\ Current' /\ GatesSound'
    BY <2>1, SMTT(30) DEF EntryInv, EntryTypeOK, Levels, SavedSound, Current, LastCall, GatesSound
  <2> QED BY <1>2, <2>1, <2>2, ZenonT(30) DEF EntryInv, Leaves
<1>9. CASE isr_return /\ answer' = answer
  BY <1>9, RestoreStep, Zenon DEF Leaves
<1>10. CASE int80_return
  BY <1>10, Int80ReturnStep, Zenon DEF Leaves
<1> QED
  <2>1. \/ /\ answer' = answer
           /\ \/ \E kind \in {"interrupt", "trap"} : x86_64_idt_init(kind)
              \/ \E g \in 0 .. 1 : Compute(g)
              \/ Sti
        \/ /\ answer' = answer
           /\ (\E v \in Exceptions : Exception(v)) \/ (\E v \in 32 .. 33 : Interrupt(v))
        \/ answer' = answer /\ (isr_stub \/ isr_common \/ x86_64_trap_dispatch)
        \/ isr_return /\ answer' = answer
        \/ \E a \in SyscallArgs : Int80(a[1], a[2], a[3])
        \/ x86_64_syscall_int80_stub \/ \E r \in OpResults : mcsos_syscall_dispatch_frame(r)
        \/ int80_return
        \/ SetUp \/ UNCHANGED vars
    BY Zenon DEF Next
  <2> QED BY <1>2, <1>3, <1>4, <1>5, <1>6, <1>7, <1>8, <1>9, <1>10, <2>1, ZenonT(30) DEF Leaves

\* The stack of the kernel describes, at every depth, the code that was hit.
THEOREM EntryStack == Spec => []EntryInv
<1>1. EntryInv /\ [Next]_vars => EntryInv'
  BY NextEntry
<1> QED BY <1>1, InitEntry, PTL DEF Spec

\* x86_64_trap_dispatch finds in every field of its frame what the field's name
\* says of the code that was hit, at any depth and for any addresses of the stubs.
THEOREM EntryFrameFaithful == Spec => []FrameFaithful
<1>1. EntryInv => FrameFaithful
  BY DispatchFrame DEF FrameFaithful, Machine, ErrorWord
<1> QED BY <1>1, EntryStack, PTL

\* Code that is hit by a breakpoint goes on as if nothing had happened.
THEOREM EntryBreakpointResumes == Spec => BreakpointResumes
<1>1. EntryInv /\ [Next]_vars =>
        [Len(calls') < Len(calls) /\ LastCall.vector = 3 =>
           /\ cpu' = LastCall.cpu
           /\ stk' = Cut(LastCall.rsp)]_trapVars
  BY NextEntry, SMTT(30) DEF Leaves, Resumed, Answered
<1> QED BY <1>1, EntryStack, PTL DEF Spec, BreakpointResumes

\* The kernel returns from nothing but breakpoints and system calls.
THEOREM EntryFailClosed == Spec => FailClosed
<1>1. EntryInv /\ [Next]_vars =>
        [Len(calls') < Len(calls) => LastCall.vector \in {3, 128}]_trapVars
  BY NextEntry, SMTT(30) DEF Leaves, Resumed, Answered
<1> QED BY <1>1, EntryStack, PTL DEF Spec, FailClosed

\* A system call is dispatched with what its caller had in its registers, and the
\* caller gets the answer, whatever breakpoints hit in between.
THEOREM EntrySyscallAnswered == Spec => SyscallAnswered
<1> DEFINE A ==
      Len(calls') < Len(calls) /\ LastCall.vector = 128 =>
        LET caller == LastCall IN
        /\ answer.args = <<caller.cpu["rax"][2], caller.cpu["rdi"][2], caller.cpu["rsi"][2]>>
        /\ cpu'["rax"] = <<"ret", answer.ret>>
        /\ \A r \in DOMAIN cpu \ CallerSaved : cpu'[r] = caller.cpu[r]
        /\ stk' = Cut(caller.rsp)
<1>1. EntryInv /\ [Next]_vars => [A]_vars
  <2> SUFFICES ASSUME EntryInv, [Next]_vars PROVE A
    BY SMTT(30)
  <2>1. DOMAIN cpu = Machine
    BY DEF EntryInv, EntryTypeOK
  <2> QED BY <2>1, NextEntry, SMTT(30) DEF Leaves, Resumed, Answered
<1> QED BY <1>1, EntryStack, PTL DEF Spec, SyscallAnswered

\* The kernel's steps are, for the state of the system calls, steps of module
\* Syscall: exceptions and breakpoints do not touch it.
THEOREM EntryImplementsSyscall == Spec => SyscallSpec
<1>1. Init => SyscallInit
  BY Zenon DEF Init
<1>2. [Next]_vars => [SyscallNext]_syscallVars
  <2>1. CASE SetUp
    BY <2>1, KernelEntryAssumption, SMTT(30) DEF SetUp, SyscallNext
  <2>2. CASE UNCHANGED syscallVars
    BY <2>2
  <2> QED BY <2>1, <2>2, ZenonT(30) DEF Next, vars, Int80, x86_64_syscall_int80_stub,
             mcsos_syscall_dispatch_frame, int80_return
<1> QED BY <1>1, <1>2, PTL DEF Spec, SyscallSpec

\* mcsos_user_check_range is exact in every state of the kernel.
THEOREM EntryRangeExact == Spec => []RangeExact
BY EntryImplementsSyscall, SyscallRangeExact, PTL

\* A buffer that a system call reads lies in the region in every state of the kernel.
THEOREM EntryReadsInsideRegion == Spec => []ReadsInsideRegion
BY EntryImplementsSyscall, SyscallReadsInsideRegion, PTL
=============================================================================
