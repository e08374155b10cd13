--------------------------- MODULE SchedulerProofs ---------------------------
(***************************************************************************)
(* That the linked ready list is the queue of the READY threads and that   *)
(* the scheduler implements round robin, for any set of threads; that the  *)
(* threads it switches between start inside their own stacks and get back  *)
(* exactly the registers they were left with, for any stacks that do not   *)
(* overlap and any word size.                                              *)
(***************************************************************************)
EXTENDS ThreadContext, TLAPS

USE SchedulerAssumption

\* Where the return address is when a thread that runs on array a with d words
\* on its stack calls the switch.
Pushed(a, d) == InitialRsp(a[1], a[2]) - d * SizeofWord - SizeofWord

-----------------------------------------------------------------------------
(* Stack arithmetic.                                                       *)

\* A multiple of A plus a remainder.
LEMMA ModOfMultiple ==
  ASSUME NEW A \in Nat \ {0}, NEW q \in Int, NEW r \in 0 .. A - 1
  PROVE  (q * A + r) % A = r
OBVIOUS

\* Division with remainder.
LEMMA DivMod ==
  ASSUME NEW A \in Nat \ {0}, NEW v \in Nat
  PROVE  /\ v = (v \div A) * A + (v % A)
         /\ v % A \in 0 .. A - 1 /\ v \div A \in Nat
OBVIOUS

\* The checks of mcsos_thread_prepare leave no sum that wraps around: the first
\* stack pointer is in the array, above the headroom, and aligned.
LEMMA GoodStackFacts ==
  ASSUME NEW low \in Word, NEW size \in Word, StackCode(low, size) = "good"
  PROVE  /\ InitialRsp(low, size) \in Int
         /\ low + Headroom < InitialRsp(low, size) + SizeofWord
         /\ InitialRsp(low, size) + SizeofWord <= low + size
         /\ low + size < WordSize
         /\ InitialRsp(low, size) % StackAlign = SizeofWord
<1>. DEFINE v == low + size
<1>1. /\ low \in Nat /\ size \in Nat /\ low < WordSize /\ size < WordSize
      /\ WordSize \in Nat \ {0} /\ v \in Nat
      /\ SizeofWord \in Nat \ {0} /\ StackAlign = 2 * SizeofWord
      /\ StackAlign \in Nat \ {0} /\ Headroom \in Nat
      /\ MinStack \in Nat /\ Headroom <= MinStack
  BY ThreadContextAssumption DEF Word
<1>2. /\ size >= MinStack /\ Plus(low, size) > low
      /\ StackTop(low, size) > Plus(low, Headroom)
  <2>1. ~(size < MinStack \/ Plus(low, size) <= low
            \/ StackTop(low, size) <= Plus(low, Headroom))
    BY Zenon DEF StackCode
  <2>2. Plus(low, size) \in Int /\ Plus(low, Headroom) \in Int
    BY <1>1 DEF Plus
  <2>3. StackTop(low, size) \in Int
    BY <1>1, <2>2 DEF StackTop, align_down_uintptr
  <2>. QED
    BY <1>1, <2>1, <2>2, <2>3
<1>3. Plus(low, size) = v /\ v < WordSize
  <2>1. CASE v < WordSize
    BY <1>1, <2>1 DEF Plus
  <2>2. CASE v >= WordSize
    <3>1. v % WordSize = v - WordSize
      BY ONLY <1>1, <2>2
    <3>. QED
      BY <1>1, <1>2, <3>1 DEF Plus
  <2>. QED
    BY <1>1, <2>1, <2>2
<1>4. Plus(low, Headroom) = low + Headroom
  <2>1. low + Headroom < WordSize /\ low + Headroom \in Nat
    BY <1>1, <1>2, <1>3
  <2>. QED
    BY <1>1, <2>1 DEF Plus
<1>5. StackTop(low, size) = v - (v % StackAlign)
  BY <1>3, Zenon DEF StackTop, align_down_uintptr
<1>. HIDE DEF v
<1>6. /\ v = (v \div StackAlign) * StackAlign + (v % StackAlign)
      /\ v % StackAlign \in 0 .. StackAlign - 1 /\ v \div StackAlign \in Nat
  BY Zenon, <1>1, DivMod
<1>7. InitialRsp(low, size) = ((v \div StackAlign) - 1) * StackAlign + SizeofWord
  <2>. DEFINE q == v \div StackAlign
              m == v % StackAlign
  <2>1. q \in Nat /\ m \in Nat /\ v = q * StackAlign + m
    BY <1>1, <1>6
  <2>2. InitialRsp(low, size) = (v - m) - SizeofWord
    BY <1>5, Zenon DEF InitialRsp
  <2>. HIDE DEF q, m
  <2>3. (q - 1) * StackAlign = q * StackAlign - StackAlign
    BY ONLY <1>1, <2>1
  <2>4. q * StackAlign \in Nat
    BY ONLY <1>1, <2>1
  <2>5. (v - m) - SizeofWord = (q - 1) * StackAlign + SizeofWord
    BY ONLY <1>1, <2>1, <2>3, <2>4
  <2>. QED
    BY <2>2, <2>5, Zenon DEF q
<1>8. InitialRsp(low, size) % StackAlign = SizeofWord
  <2>1. (v \div StackAlign) - 1 \in Int /\ SizeofWord \in 0 .. StackAlign - 1
    BY <1>1, <1>6
  <2>. QED
    BY Zenon, <1>1, <1>7, <2>1, ModOfMultiple
<1>. QED
  BY <1>1, <1>2, <1>3, <1>4, <1>5, <1>6, <1>8 DEF InitialRsp, v

\* The return address lies in the array the thread runs on.
LEMMA PushedInside ==
  ASSUME NEW t \in Threads, NEW a \in GoodStacks(t), NEW d \in Depths
  PROVE  /\ a[1] \in Word /\ a[2] \in Word /\ StackCode(a[1], a[2]) = "good"
         /\ Pushed(a, d) \in Word /\ InitialRsp(a[1], a[2]) \in Word
         /\ a[1] <= Pushed(a, d) /\ Pushed(a, d) < a[1] + a[2]
         /\ a[1] <= InitialRsp(a[1], a[2]) /\ InitialRsp(a[1], a[2]) < a[1] + a[2]
         /\ Pushed(a, d) + SizeofWord = InitialRsp(a[1], a[2]) - d * SizeofWord
<1>1. a \in Word \X Word /\ StackCode(a[1], a[2]) = "good"
  BY ThreadContextAssumption, Zenon DEF GoodStacks
<1>2. a[1] \in Word /\ a[2] \in Word
  BY <1>1, Zenon
<1>. DEFINE rsp == InitialRsp(a[1], a[2])
            k == d * SizeofWord
<1>3. /\ rsp \in Int /\ a[1] + Headroom < rsp + SizeofWord
      /\ rsp + SizeofWord <= a[1] + a[2] /\ a[1] + a[2] < WordSize
  BY <1>1, <1>2, GoodStackFacts, Zenon
<1>4. /\ k \in Nat /\ k + 2 * SizeofWord <= Headroom
      /\ SizeofWord \in Nat \ {0} /\ Headroom \in Nat /\ WordSize \in Nat
  BY ThreadContextAssumption, SMTT(30)
<1>5. Pushed(a, d) = rsp - k - SizeofWord
  BY Zenon DEF Pushed
<1>. HIDE DEF rsp, k
<1>. QED
  BY <1>1, <1>2, <1>3, <1>4, <1>5 DEF Word, rsp, k

\* The words that two threads have on their stacks are different words.
LEMMA PushedApart ==
  ASSUME NEW t \in Threads, NEW u \in Threads, t # u,
         NEW a \in GoodStacks(t), NEW b \in GoodStacks(u),
         NEW d \in Depths, NEW e \in Depths
  PROVE  Pushed(a, d) # Pushed(b, e) /\ InitialRsp(a[1], a[2]) # Pushed(b, e)
<1>1. a[1] + a[2] <= b[1] \/ b[1] + b[2] <= a[1]
  BY StacksApart, Zenon
<1>2. /\ a[1] \in Int /\ a[2] \in Int
      /\ Pushed(a, d) \in Int /\ InitialRsp(a[1], a[2]) \in Int
      /\ a[1] <= Pushed(a, d) /\ Pushed(a, d) < a[1] + a[2]
      /\ a[1] <= InitialRsp(a[1], a[2]) /\ InitialRsp(a[1], a[2]) < a[1] + a[2]
  BY PushedInside DEF Word
<1>3. /\ b[1] \in Int /\ b[2] \in Int /\ Pushed(b, e) \in Int
      /\ b[1] <= Pushed(b, e) /\ Pushed(b, e) < b[1] + b[2]
  BY PushedInside DEF Word
<1>. QED
  BY <1>1, <1>2, <1>3

-----------------------------------------------------------------------------
(* Saving and loading registers.                                           *)

\* The switch loads from the slot it stored to, for all eight registers.
LEMMA SlotsAgree ==
  /\ \A i \in 1 .. 8 : StoreOrder[i] = LoadOrder[i] /\ mcsos_context[i] = LoadOrder[i]
  /\ \A r \in Registers : \E i \in 1 .. 8 : LoadOrder[i] = r
  /\ "rsp" \in Registers /\ "rip" \in Registers
<1>1. StoreOrder = LoadOrder /\ mcsos_context = LoadOrder
  BY Zenon DEF StoreOrder, LoadOrder, mcsos_context
<1>2. mcsos_context[1] = "rsp" /\ mcsos_context[8] = "rip"
  BY Zenon DEF mcsos_context
<1>. HIDE DEF StoreOrder, LoadOrder, mcsos_context
<1>. QED
  BY <1>1, <1>2 DEF Registers

\* Loading what was stored gives the registers back.
LEMMA LoadStored ==
  ASSUME NEW regs PROVE Loaded(Stored(regs)) = [r \in Registers |-> regs[r]]
<1>1. ASSUME NEW r \in Registers PROVE Loaded(Stored(regs))[r] = regs[r]
  <2>. DEFINE k == CHOOSE i \in 1 .. 8 : LoadOrder[i] = r
  <2>1. k \in 1 .. 8 /\ LoadOrder[k] = r
    BY SlotsAgree, Zenon
  <2>2. Loaded(Stored(regs))[r] = Stored(regs)[k]
    BY Zenon DEF Loaded
  <2>. HIDE DEF k
  <2>3. Stored(regs)[k] = regs[StoreOrder[k]]
    BY <2>1, Zenon DEF Stored
  <2>. QED
    BY <2>1, <2>2, <2>3, SlotsAgree, Zenon
<1>. QED
  BY <1>1 DEF Loaded

\* Loading the context of a new thread.
LEMMA LoadEntry ==
  ASSUME NEW rsp
  PROVE  Loaded(EntryContext(rsp)) =
           [r \in Registers |-> IF r = "rsp" THEN <<"rsp", rsp>>
                                ELSE IF r = "rip" THEN Trampoline ELSE Zero]
<1>1. ASSUME NEW r \in Registers
      PROVE  Loaded(EntryContext(rsp))[r] =
               IF r = "rsp" THEN <<"rsp", rsp>>
               ELSE IF r = "rip" THEN Trampoline ELSE Zero
  <2>. DEFINE k == CHOOSE i \in 1 .. 8 : LoadOrder[i] = r
  <2>1. k \in 1 .. 8 /\ LoadOrder[k] = r
    BY SlotsAgree, Zenon
  <2>2. Loaded(EntryContext(rsp))[r] = EntryContext(rsp)[k]
    BY Zenon DEF Loaded
  <2>. HIDE DEF k
  <2>3. mcsos_context[k] = r
    BY <2>1, SlotsAgree, Zenon
  <2>4. zero_context[k] = Zero
    BY <2>1, Zenon DEF zero_context
  <2>. QED
    BY <2>1, <2>2, <2>3, <2>4, Zenon DEF EntryContext
<1>. QED
  BY <1>1 DEF Loaded

-----------------------------------------------------------------------------
(* The invariant.                                                          *)

\* The registers of thread t while it runs on array a with d words pushed.
RunningOn(t, a, d) == Running(t, a[1], a[2], d)

\* What the switch saves of a thread that ran on array a with d words pushed.
SavedAs(t, a, d) ==
  Stored([RunningOn(t, a, d) EXCEPT !["rsp"] = <<"rsp", Pushed(a, d)>>, !["rip"] = Label1])

\* Every initialised thread has one of its good arrays as its stack.
StacksGood ==
  /\ DOMAIN stack = Threads /\ DOMAIN slots = Threads /\ DOMAIN kept = Threads
  /\ DOMAIN memory = Word
  /\ \A t \in Threads : magic[t] => stack[t] \in GoodStacks(t)
  /\ \A t \in Threads : context[t] # "zero" => magic[t]

\* The running thread runs on its own stack, or is about to start.
CpuGood ==
  \/ cpu["rip"] = Trampoline
  \/ \E d \in Depths : cpu = RunningOn(current, stack[current], d)

\* A thread that was prepared and has not run has the context of a new thread.
EntriesGood ==
  \A t \in Threads : context[t] = "entry" =>
     slots[t] = EntryContext(InitialRsp(stack[t][1], stack[t][2]))

\* A thread that is not running has its registers in its context and the return
\* address on its stack.
SavedGood ==
  \A t \in Threads \ {current} : context[t] = "saved" =>
     \E d \in Depths : /\ kept[t] = RunningOn(t, stack[t], d)
                       /\ slots[t] = SavedAs(t, stack[t], d)
                       /\ memory[Pushed(stack[t], d)] = Caller(t)

\* The inductive invariant.
CInv == StacksGood /\ CpuGood /\ EntriesGood /\ SavedGood

\* mcsos_scheduler_init establishes it.
LEMMA InitCInv == TInit => CInv
<1>. SUFFICES ASSUME TInit PROVE CInv
  BY Zenon
<1>1. /\ \A t \in Threads : context[t] = "zero"
      /\ \A t \in Threads : magic[t] => t = Boot
      /\ current = Boot
  <2>1. magic = [t \in Threads |-> t = Boot]
    BY Zenon DEF TInit, HInit, Init
  <2>2. \A t \in Threads : magic[t] => t = Boot
    BY <2>1, Zenon
  <2>. QED
    BY <2>2, Zenon DEF TInit, HInit, Init
<1>2. stack = [t \in Threads |-> IF t = Boot THEN BootStack ELSE <<0, 0>>]
  BY Zenon DEF TInit
<1>3. StacksGood
  BY <1>1, <1>2, StacksApart, SchedulerAssumption, Zenon DEF TInit, StacksGood
<1>4. CpuGood
  BY <1>1, <1>2, ThreadContextAssumption, SchedulerAssumption, Zenon DEF TInit, CpuGood, RunningOn
<1>. QED
  BY <1>1, <1>3, <1>4, Zenon DEF CInv, EntriesGood, SavedGood

-----------------------------------------------------------------------------
(* What the calls do to the fields the invariant is about.                 *)

\* enqueue, mark_ready and tick leave contexts and the running thread alone.
LEMMA QuietEffect ==
  ASSUME \/ \E t \in Threads : EnqueueThread(t)
         \/ Tick
         \/ \E t \in Threads : MarkReady(t)
  PROVE  UNCHANGED <<magic, context, current>>
BY Zenon DEF EnqueueThread, Tick, MarkReady, mcsos_sched_enqueue, mcsos_sched_tick,
       mcsos_thread_mark_ready, Fails

\* yield and block_current save the context of a thread they leave.
LEMMA SwitchEffect ==
  ASSUME Yield \/ BlockCurrent
  PROVE  /\ magic' = magic
         /\ current' = current => context' = context
         /\ current' # current => context' = [context EXCEPT ![current] = "saved"]
BY SMTT(60) DEF Yield, BlockCurrent, mcsos_sched_yield, mcsos_thread_block_current,
       YieldFrom, Switch, Fails, mcsos_context_switch

-----------------------------------------------------------------------------
(* The switch.  The names of the values that SwitchStacks computes:        *)

\* The stack pointer, the memory, the registers and the contexts after the call
\* of mcsos_context_switch has pushed the return address and saved the caller.
CallRsp == cpu["rsp"][2] - SizeofWord
CallMem == [memory EXCEPT ![CallRsp] = Caller(current)]
CallCpu == [cpu EXCEPT !["rsp"] = <<"rsp", CallRsp>>, !["rip"] = Label1]
CallSlots == [slots EXCEPT ![current] = Stored(CallCpu)]

\* A switch computes them and loads the context of the next thread.
LEMMA SwitchIs ==
  ASSUME NEW n, SwitchStacks(current, n)
  PROVE  /\ slots' = CallSlots /\ kept' = [kept EXCEPT ![current] = cpu]
         /\ cpu' = JumpTo(Loaded(CallSlots[n]), CallMem)
         /\ memory' = Popped(Loaded(CallSlots[n]), CallMem)
BY Zenon DEF SwitchStacks, SavedRsp, CallRsp, CallMem, CallCpu, CallSlots

\* The words that the threads have pushed are different words of memory.
LEMMA OwnWord ==
  ASSUME CInv, NEW t \in Threads, magic[t], NEW d \in Depths
  PROVE  /\ Pushed(stack[t], d) \in Word
         /\ Pushed(stack[t], d) + SizeofWord =
              InitialRsp(stack[t][1], stack[t][2]) - d * SizeofWord
         /\ \A u \in Threads \ {t}, e \in Depths :
              magic[u] => Pushed(stack[t], d) # Pushed(stack[u], e)
<1>1. \A u \in Threads : magic[u] => stack[u] \in GoodStacks(u)
  BY Zenon DEF CInv, StacksGood
<1>2. stack[t] \in GoodStacks(t)
  BY <1>1, Zenon
<1>3. ASSUME NEW u \in Threads \ {t}, NEW e \in Depths, magic[u]
      PROVE  Pushed(stack[t], d) # Pushed(stack[u], e)
  <2>1. stack[u] \in GoodStacks(u)
    BY <1>1, <1>3, Zenon
  <2>. QED
    BY <1>2, <2>1, PushedApart, Zenon
<1>. QED
  BY <1>2, <1>3, PushedInside, Zenon

\* The call pushes a word of the running thread's own stack.
LEMMA CallPushes ==
  ASSUME CInv, InItsCode, current \in Threads, magic[current]
  PROVE  \E d \in Depths :
           /\ cpu = RunningOn(current, stack[current], d)
           /\ CallRsp = Pushed(stack[current], d) /\ CallRsp \in Word
<1>1. PICK d \in Depths : cpu = RunningOn(current, stack[current], d)
  BY Zenon DEF CInv, CpuGood, InItsCode
<1>2. cpu["rsp"] = <<"rsp", InitialRsp(stack[current][1], stack[current][2]) - d * SizeofWord>>
  BY <1>1, SlotsAgree, Zenon DEF RunningOn, Running
<1>3. CallRsp = Pushed(stack[current], d)
  BY <1>2 DEF Pushed, CallRsp
<1>. QED
  BY <1>1, <1>3, OwnWord, Zenon

\* It saves the registers of that thread.
LEMMA CallSaves ==
  ASSUME CInv, current \in Threads, NEW d \in Depths,
         cpu = RunningOn(current, stack[current], d), CallRsp = Pushed(stack[current], d)
  PROVE  /\ CallSlots[current] = SavedAs(current, stack[current], d)
         /\ DOMAIN CallSlots = Threads /\ DOMAIN CallMem = Word
         /\ \A t \in Threads \ {current} : CallSlots[t] = slots[t]
<1>1. DOMAIN slots = Threads /\ DOMAIN memory = Word
  BY Zenon DEF CInv, StacksGood
<1>2. CallSlots[current] = Stored(CallCpu)
  BY <1>1, Zenon DEF CallSlots
<1>3. Stored(CallCpu) = SavedAs(current, stack[current], d)
  BY Zenon DEF SavedAs, CallCpu
<1>. QED
  BY <1>1, <1>2, <1>3, Zenon DEF CallSlots, CallMem

\* The words of the other threads stay.
LEMMA CallKeepsWords ==
  ASSUME CInv, NEW d \in Depths, current \in Threads, magic[current],
         CallRsp = Pushed(stack[current], d),
         NEW t \in Threads \ {current}, NEW e \in Depths, magic[t]
  PROVE  /\ CallMem[Pushed(stack[t], e)] = memory[Pushed(stack[t], e)]
         /\ Pushed(stack[t], e) # CallRsp
<1>1. DOMAIN memory = Word
  BY Zenon DEF CInv, StacksGood
<1>2. Pushed(stack[t], e) # CallRsp /\ Pushed(stack[t], e) \in Word
  BY OwnWord, Zenon
<1>. QED
  BY <1>1, <1>2, Zenon DEF CallMem

\* What the switch to thread n leaves behind and what it loads.
LeavesCurrent ==
  /\ DOMAIN slots' = Threads /\ DOMAIN kept' = Threads /\ DOMAIN memory' = Word
  /\ \A t \in Threads \ {current} : slots'[t] = slots[t] /\ kept'[t] = kept[t]
  /\ \E d \in Depths : /\ kept'[current] = RunningOn(current, stack[current], d)
                       /\ slots'[current] = SavedAs(current, stack[current], d)
                       /\ memory'[Pushed(stack[current], d)] = Caller(current)

\* The return addresses on the stacks of the threads that stay waiting are kept.
LeavesWords(n) ==
  \A t \in Threads \ {current, n}, d \in Depths :
     magic[t] /\ memory[Pushed(stack[t], d)] = Caller(t)
       => memory'[Pushed(stack[t], d)] = Caller(t)

\* Thread n goes on with the registers it had.
ResumesSaved(n) ==
  cpu' = kept[n] /\ \E d \in Depths : cpu' = RunningOn(n, stack[n], d)

\* Thread n starts at the trampoline, at the top of its stack.
StartsNew(n) ==
  cpu' = [r \in Registers |->
            IF r = "rsp" THEN <<"rsp", InitialRsp(stack[n][1], stack[n][2])>>
            ELSE IF r = "rip" THEN Trampoline ELSE Zero]

\* The thread that is left waits as the invariant says.
LEMMA CallLeaves ==
  ASSUME CInv, current \in Threads, NEW d \in Depths,
         cpu = RunningOn(current, stack[current], d),
         CallRsp = Pushed(stack[current], d), CallRsp \in Word,
         NEW n, SwitchStacks(current, n),
         \/ memory' = CallMem
         \/ \E a \in Word \ {CallRsp} : memory' = [CallMem EXCEPT ![a] = Zero]
  PROVE  LeavesCurrent
<1>1. /\ DOMAIN memory = Word /\ DOMAIN kept = Threads
      /\ kept' = [kept EXCEPT ![current] = cpu] /\ slots' = CallSlots
  BY SwitchIs, Zenon DEF CInv, StacksGood
<1>2. /\ CallSlots[current] = SavedAs(current, stack[current], d)
      /\ DOMAIN CallSlots = Threads /\ DOMAIN CallMem = Word
      /\ \A t \in Threads \ {current} : CallSlots[t] = slots[t]
  BY CallSaves, Zenon
<1>3. CallMem[CallRsp] = Caller(current)
  BY <1>1, Zenon DEF CallMem
<1>4. DOMAIN memory' = Word /\ memory'[CallRsp] = Caller(current)
  BY <1>2, <1>3, Zenon
<1>5. /\ DOMAIN slots' = Threads /\ DOMAIN kept' = Threads
      /\ slots'[current] = SavedAs(current, stack[current], d)
      /\ kept'[current] = RunningOn(current, stack[current], d)
      /\ \A t \in Threads \ {current} : slots'[t] = slots[t] /\ kept'[t] = kept[t]
  BY <1>1, <1>2, Zenon
<1>. QED
  BY <1>4, <1>5, Zenon DEF LeavesCurrent

\* What the invariant says of a thread that waits with d words pushed.
Waits(t, d) == /\ kept[t] = RunningOn(t, stack[t], d)
               /\ slots[t] = SavedAs(t, stack[t], d)
               /\ memory[Pushed(stack[t], d)] = Caller(t)

\* Loading what was saved of thread n.
SavedRegs(n, e) == Loaded(SavedAs(n, stack[n], e))

\* It gives the registers back, but for the stack pointer and the return address.
LEMMA LoadsSaved ==
  ASSUME NEW n, NEW e
  PROVE  /\ DOMAIN SavedRegs(n, e) = Registers
         /\ SavedRegs(n, e)["rip"] = Label1
         /\ SavedRegs(n, e)["rsp"] = <<"rsp", Pushed(stack[n], e)>>
         /\ \A r \in Registers \ {"rip", "rsp"} :
              SavedRegs(n, e)[r] = RunningOn(n, stack[n], e)[r]
<1>. DEFINE regs == SavedRegs(n, e)
            own == RunningOn(n, stack[n], e)
            saved == [own EXCEPT !["rsp"] = <<"rsp", Pushed(stack[n], e)>>, !["rip"] = Label1]
<1>1. regs = [r \in Registers |-> saved[r]]
  <2>1. regs = Loaded(Stored(saved))
    BY Zenon DEF SavedAs, SavedRegs
  <2>. HIDE DEF saved
  <2>. QED
    BY <2>1, LoadStored, Zenon
<1>2. DOMAIN own = Registers
  BY Zenon DEF RunningOn, Running
<1>. HIDE DEF own
<1>3. /\ saved["rip"] = Label1 /\ saved["rsp"] = <<"rsp", Pushed(stack[n], e)>>
      /\ \A r \in Registers \ {"rip", "rsp"} : saved[r] = own[r]
  BY <1>2, SlotsAgree, Zenon
<1>. HIDE DEF saved
<1>4. regs["rip"] = Label1 /\ regs["rsp"] = <<"rsp", Pushed(stack[n], e)>>
  BY <1>1, <1>3, SlotsAgree, ZenonT(30)
<1>. QED
  BY <1>1, <1>3, <1>4, Zenon DEF own

\* The jump to label 1 and the ret give thread n its registers back.
LEMMA JumpResumes ==
  ASSUME NEW n, NEW e, NEW mem,
         mem[Pushed(stack[n], e)] = Caller(n),
         Pushed(stack[n], e) + SizeofWord =
           InitialRsp(stack[n][1], stack[n][2]) - e * SizeofWord
  PROVE  /\ JumpTo(SavedRegs(n, e), mem) = RunningOn(n, stack[n], e)
         /\ Popped(SavedRegs(n, e), mem) = [mem EXCEPT ![Pushed(stack[n], e)] = Zero]
<1>. DEFINE regs == SavedRegs(n, e)
            a == Pushed(stack[n], e)
            own == RunningOn(n, stack[n], e)
            jumped == [regs EXCEPT !["rip"] = Caller(n), !["rsp"] = <<"rsp", a + SizeofWord>>]
<1>1. /\ DOMAIN regs = Registers /\ regs["rip"] = Label1 /\ regs["rsp"] = <<"rsp", a>>
      /\ \A r \in Registers \ {"rip", "rsp"} : regs[r] = own[r]
  BY LoadsSaved
<1>2. regs["rsp"][2] = a
  BY <1>1
<1>3. own = [r \in Registers |-> IF r = "rsp" THEN <<"rsp", a + SizeofWord>>
                                 ELSE IF r = "rip" THEN Caller(n) ELSE <<r, n>>]
  BY Zenon DEF RunningOn, Running
<1>. HIDE DEF a, own, regs
<1>4. JumpTo(regs, mem) = jumped /\ Popped(regs, mem) = [mem EXCEPT ![a] = Zero]
  BY Zenon, <1>1, <1>2 DEF JumpTo, Popped, a
<1>5. jumped = own
  <2>1. DOMAIN jumped = Registers /\ jumped = [r \in Registers |-> jumped[r]]
    BY Zenon, <1>1
  <2>2. ASSUME NEW r \in Registers PROVE jumped[r] = own[r]
    BY <1>1, <1>3, Zenon
  <2>. HIDE DEF jumped
  <2>3. own = [r \in Registers |-> own[r]]
    BY <1>3, Zenon
  <2>. QED
    BY <2>1, <2>2, <2>3, Zenon
<1>. QED
  BY <1>4, <1>5, Zenon DEF a, own, regs

\* The switch to a thread that was left before.
LEMMA SwitchToSaved ==
  ASSUME CInv, InItsCode, current \in Threads, magic[current],
         NEW n \in Threads \ {current}, magic[n], context[n] = "saved",
         SwitchStacks(current, n)
  PROVE  LeavesCurrent /\ LeavesWords(n) /\ ResumesSaved(n)
<1>1. PICK d \in Depths : /\ cpu = RunningOn(current, stack[current], d)
                          /\ CallRsp = Pushed(stack[current], d) /\ CallRsp \in Word
  BY CallPushes, Zenon
<1>2. PICK e \in Depths : Waits(n, e)
  BY Zenon DEF CInv, SavedGood, Waits
<1>. DEFINE a == Pushed(stack[n], e)
<1>3. /\ a \in Word /\ a # CallRsp /\ CallMem[a] = Caller(n)
      /\ a + SizeofWord = InitialRsp(stack[n][1], stack[n][2]) - e * SizeofWord
  BY <1>1, <1>2, OwnWord, CallKeepsWords, Zenon DEF Waits
<1>4. Loaded(CallSlots[n]) = SavedRegs(n, e)
  BY <1>1, <1>2, CallSaves, Zenon DEF Waits, SavedRegs
<1>5. /\ cpu' = RunningOn(n, stack[n], e)
      /\ memory' = [CallMem EXCEPT ![a] = Zero]
  <2>1. /\ cpu' = JumpTo(SavedRegs(n, e), CallMem)
        /\ memory' = Popped(SavedRegs(n, e), CallMem)
    BY Zenon, <1>4, SwitchIs
  <2>2. /\ JumpTo(SavedRegs(n, e), CallMem) = RunningOn(n, stack[n], e)
        /\ Popped(SavedRegs(n, e), CallMem) = [CallMem EXCEPT ![a] = Zero]
    BY <1>3, JumpResumes, Zenon
  <2>. QED
    BY Zenon, <2>1, <2>2
<1>6. ResumesSaved(n)
  BY <1>2, <1>5, Zenon DEF ResumesSaved, Waits
<1>7. LeavesCurrent
  <2>1. \E b \in Word \ {CallRsp} : memory' = [CallMem EXCEPT ![b] = Zero]
    BY Zenon, <1>3, <1>5
  <2>. QED
    BY Zenon, <1>1, <2>1, CallLeaves
<1>8. LeavesWords(n)
  <2>. SUFFICES ASSUME NEW t \in Threads \ {current, n}, NEW f \in Depths, magic[t],
                       memory[Pushed(stack[t], f)] = Caller(t)
                PROVE  memory'[Pushed(stack[t], f)] = Caller(t)
    BY Zenon DEF LeavesWords
  <2>1. Pushed(stack[t], f) # a /\ Pushed(stack[t], f) \in Word
    BY OwnWord, Zenon
  <2>2. CallMem[Pushed(stack[t], f)] = Caller(t)
    BY <1>1, CallKeepsWords, Zenon
  <2>3. DOMAIN CallMem = Word
    BY <1>1, CallSaves, Zenon
  <2>. QED
    BY <1>5, <2>1, <2>2, <2>3, Zenon
<1>. QED
  BY <1>6, <1>7, <1>8, Zenon

\* The switch to a new thread.
LEMMA SwitchToNew ==
  ASSUME CInv, InItsCode, current \in Threads, magic[current],
         NEW n \in Threads \ {current}, context[n] = "entry",
         SwitchStacks(current, n)
  PROVE  LeavesCurrent /\ LeavesWords(n) /\ StartsNew(n)
<1>1. PICK d \in Depths : /\ cpu = RunningOn(current, stack[current], d)
                          /\ CallRsp = Pushed(stack[current], d) /\ CallRsp \in Word
  BY CallPushes, Zenon
<1>. DEFINE i == InitialRsp(stack[n][1], stack[n][2])
            regs == Loaded(CallSlots[n])
<1>2. regs = Loaded(EntryContext(i))
  <2>1. CallSlots[n] = slots[n]
    BY <1>1, CallSaves, Zenon
  <2>. QED
    BY <2>1, Zenon DEF CInv, EntriesGood
<1>. HIDE DEF i, regs
<1>3. regs = [r \in Registers |-> IF r = "rsp" THEN <<"rsp", i>>
                                  ELSE IF r = "rip" THEN Trampoline ELSE Zero]
  BY <1>2, LoadEntry, Zenon
<1>4. regs["rip"] # Label1
  BY <1>3, SlotsAgree, Zenon DEF Trampoline, Label1
<1>5. cpu' = regs /\ memory' = CallMem
  BY <1>4, SwitchIs, Zenon DEF JumpTo, Popped, regs
<1>6. StartsNew(n)
  BY <1>3, <1>5, Zenon DEF StartsNew, i
<1>7. LeavesCurrent
  BY <1>1, <1>5, CallLeaves, Zenon
<1>8. LeavesWords(n)
  <2>. SUFFICES ASSUME NEW t \in Threads \ {current, n}, NEW f \in Depths, magic[t],
                       memory[Pushed(stack[t], f)] = Caller(t)
                PROVE  memory'[Pushed(stack[t], f)] = Caller(t)
    BY Zenon DEF LeavesWords
  <2>. QED
    BY <1>1, <1>5, CallKeepsWords, Zenon
<1>. QED
  BY <1>6, <1>7, <1>8, Zenon

\* What ResumesExactly says of one step.
Resumes ==
  current' # current =>
    \/ context[current'] = "saved" /\ cpu' = kept[current']
    \/ /\ context[current'] = "entry"
       /\ cpu'["rip"] = Trampoline
       /\ \A r \in Registers \ {"rip", "rsp"} : cpu'[r] = Zero

\* A step that touches none of the fields keeps the invariant.
LEMMA QuietStep ==
  ASSUME CInv, UNCHANGED <<magic, context, current>>, UNCHANGED cvars
  PROVE  CInv' /\ Resumes
BY Zenon DEF CInv, StacksGood, CpuGood, EntriesGood, SavedGood, Resumes, cvars

\* What the proofs about the scheduler say of a state.
ThreadsOK == /\ current \in Threads /\ magic[current] /\ magic[Boot]
             /\ magic \in [Threads -> BOOLEAN]
             /\ context \in [Threads -> {"zero", "entry", "saved"}]

\* mcsos_thread_prepare has given array a to thread t.
Given(t, a) ==
  /\ memory' = [memory EXCEPT ![InitialRsp(a[1], a[2])] = Zero]
  /\ DOMAIN stack' = Threads /\ DOMAIN slots' = Threads
  /\ stack'[t] = a /\ \A u \in Threads \ {t} : stack'[u] = stack[u]
  /\ slots'[t] = EntryContext(InitialRsp(a[1], a[2]))
  /\ \A u \in Threads \ {t} : slots'[u] = slots[u]
  /\ context'[t] = "entry" /\ \A u \in Threads \ {t} : context'[u] = context[u]
  /\ magic'[t] /\ \A u \in Threads \ {t} : magic'[u] <=> magic[u]
  /\ current' = current /\ cpu' = cpu /\ kept' = kept

\* It refuses, or it gives the array to a thread that had none.
LEMMA PrepareRefused ==
  ASSUME CInv, NEW t \in Threads, NEW a, StackCode(a[1], a[2]) # "good",
         TPrepare(t, a[1], a[2])
  PROVE  CInv' /\ Resumes
<1>1. UNCHANGED <<memory, slots, stack, cpu, kept>>
  BY Zenon DEF TPrepare
<1>2. UNCHANGED <<magic, context, current>>
  BY Zenon DEF TPrepare, Prepare, mcsos_thread_prepare, Fails
<1>. QED
  BY <1>1, <1>2, QuietStep, Zenon DEF cvars

\* mcsos_thread_prepare gives a good array to a thread that does not run.
LEMMA PrepareGives ==
  ASSUME CInv, ThreadsOK, NEW t \in Threads, NEW a \in StacksOf[t],
         StackCode(a[1], a[2]) = "good", TPrepare(t, a[1], a[2])
  PROVE  Given(t, a) /\ t # current /\ a \in GoodStacks(t)
<1>1. /\ Prepare(t, "good") /\ UNCHANGED <<cpu, kept>>
      /\ memory' = [memory EXCEPT ![InitialRsp(a[1], a[2])] = Zero]
      /\ slots' = [slots EXCEPT ![t] = EntryContext(InitialRsp(a[1], a[2]))]
      /\ stack' = [stack EXCEPT ![t] = <<a[1], a[2]>>]
  BY Zenon DEF TPrepare
<1>2. /\ ~magic[t] /\ magic' = [magic EXCEPT ![t] = TRUE]
      /\ context' = [context EXCEPT ![t] = "entry"] /\ current' = current
  BY <1>1, Zenon DEF Prepare, mcsos_thread_prepare
<1>3. t # current /\ t # Boot
  BY <1>2, Zenon DEF ThreadsOK
<1>4. a \in GoodStacks(t) /\ a = <<a[1], a[2]>>
  BY <1>3, ThreadContextAssumption DEF GoodStacks
<1>5. magic'[t] /\ \A u \in Threads \ {t} : magic'[u] <=> magic[u]
  BY Zenon, <1>2 DEF ThreadsOK
<1>6. DOMAIN stack = Threads /\ DOMAIN slots = Threads /\ DOMAIN context = Threads
  BY Zenon DEF CInv, StacksGood, ThreadsOK
<1>7. /\ DOMAIN stack' = Threads /\ DOMAIN slots' = Threads
      /\ stack'[t] = a /\ \A u \in Threads \ {t} : stack'[u] = stack[u]
      /\ slots'[t] = EntryContext(InitialRsp(a[1], a[2]))
      /\ \A u \in Threads \ {t} : slots'[u] = slots[u]
      /\ context'[t] = "entry" /\ \A u \in Threads \ {t} : context'[u] = context[u]
  BY SMTT(30), <1>1, <1>2, <1>4, <1>6
<1>8. Given(t, a)
  BY <1>1, <1>2, <1>5, <1>7, Zenon DEF Given
<1>. QED
  BY <1>3, <1>4, <1>8, Zenon

\* It keeps the stacks good,
LEMMA PrepareStacksGood ==
  ASSUME CInv, NEW t \in Threads, NEW a \in GoodStacks(t), Given(t, a)
  PROVE  StacksGood'
<1>1. /\ DOMAIN kept = Threads /\ DOMAIN memory = Word
      /\ \A u \in Threads : magic[u] => stack[u] \in GoodStacks(u)
      /\ \A u \in Threads : context[u] # "zero" => magic[u]
  BY Zenon DEF CInv, StacksGood
<1>2. /\ DOMAIN stack' = Threads /\ DOMAIN slots' = Threads
      /\ DOMAIN kept' = Threads /\ DOMAIN memory' = Word
  BY <1>1, Zenon DEF Given
<1>3. \A u \in Threads : magic'[u] => stack'[u] \in GoodStacks(u)
  BY <1>1, Zenon DEF Given
<1>4. \A u \in Threads : context'[u] # "zero" => magic'[u]
  BY <1>1, Zenon DEF Given
<1>. QED
  BY <1>2, <1>3, <1>4, Zenon DEF StacksGood, GoodStacks

\* the running thread on its own one, and fills the context of the new thread.
LEMMA PrepareCpuEntries ==
  ASSUME CInv, ThreadsOK, NEW t \in Threads, NEW a, t # current, Given(t, a)
  PROVE  CpuGood' /\ EntriesGood'
<1>1. stack'[current'] = stack[current] /\ cpu' = cpu /\ current' = current
  BY Zenon DEF Given, ThreadsOK
<1>2. CpuGood'
  BY <1>1, Zenon DEF CInv, CpuGood, RunningOn
<1>3. ASSUME NEW u \in Threads, context'[u] = "entry"
      PROVE  slots'[u] = EntryContext(InitialRsp(stack'[u][1], stack'[u][2]))
  <2>1. CASE u = t
    BY <2>1, Zenon DEF Given
  <2>2. CASE u # t
    <3>1. context[u] = "entry" /\ slots'[u] = slots[u] /\ stack'[u] = stack[u]
      BY SMTT(30), <1>3, <2>2 DEF Given
    <3>. QED
      BY <3>1, Zenon DEF CInv, EntriesGood
  <2>. QED
    BY <2>1, <2>2, Zenon
<1>. QED
  BY <1>2, <1>3, Zenon DEF EntriesGood

\* The word that prepare writes is in no stack of another thread.
LEMMA PrepareSavedGood ==
  ASSUME CInv, NEW t \in Threads, NEW a \in GoodStacks(t), t # current, Given(t, a)
  PROVE  SavedGood'
<1>. SUFFICES ASSUME NEW u \in Threads \ {current'}, context'[u] = "saved"
              PROVE  \E d \in Depths : Waits(u, d)'
  BY Zenon DEF SavedGood, Waits, RunningOn, SavedAs, Pushed
<1>1. /\ u # t /\ u # current /\ context[u] = "saved"
      /\ stack'[u] = stack[u] /\ slots'[u] = slots[u] /\ kept'[u] = kept[u]
  BY SMTT(30) DEF Given
<1>2. PICK d \in Depths : Waits(u, d)
  BY <1>1, Zenon DEF CInv, SavedGood, Waits
<1>3. stack[u] \in GoodStacks(u) /\ DOMAIN memory = Word
  BY <1>1, ZenonT(30) DEF CInv, StacksGood
<1>4. /\ InitialRsp(a[1], a[2]) # Pushed(stack[u], d)
      /\ Pushed(stack[u], d) \in Word
  BY SMTT(30), <1>1, <1>3, PushedApart, PushedInside
<1>5. memory'[Pushed(stack[u], d)] = memory[Pushed(stack[u], d)]
  BY <1>3, <1>4, Zenon DEF Given
<1>. QED
  BY <1>1, <1>2, <1>5, Zenon DEF Waits, RunningOn, SavedAs, Pushed

\* mcsos_thread_prepare keeps the invariant.
LEMMA PrepareCInv ==
  ASSUME CInv, ThreadsOK, NEW t \in Threads, NEW a \in StacksOf[t], TPrepare(t, a[1], a[2])
  PROVE  CInv' /\ Resumes
<1>1. CASE StackCode(a[1], a[2]) # "good"
  BY <1>1, PrepareRefused, Zenon
<1>2. CASE StackCode(a[1], a[2]) = "good"
  <2>1. Given(t, a) /\ t # current /\ a \in GoodStacks(t)
    BY <1>2, PrepareGives, Zenon
  <2>2. StacksGood' /\ SavedGood'
    BY <2>1, PrepareStacksGood, PrepareSavedGood, Zenon
  <2>3. CpuGood' /\ EntriesGood'
    BY <2>1, PrepareCpuEntries, Zenon
  <2>4. Resumes
    BY <2>1, Zenon DEF Given, Resumes
  <2>. QED
    BY <2>2, <2>3, <2>4, Zenon DEF CInv
<1>. QED
  BY <1>1, <1>2, Zenon

\* yield and block_current, with the switch they end in: the conjuncts of the
\* invariant one by one.
LEMMA SwitchSavedGood ==
  ASSUME CInv, current \in Threads, NEW n \in Threads \ {current}, current' = n,
         stack' = stack, context' = [context EXCEPT ![current] = "saved"],
         DOMAIN context = Threads, LeavesCurrent, LeavesWords(n)
  PROVE  SavedGood'
<1>. SUFFICES ASSUME NEW t \in Threads \ {n}, context'[t] = "saved"
              PROVE  \E d \in Depths : /\ kept'[t] = RunningOn(t, stack[t], d)
                                       /\ slots'[t] = SavedAs(t, stack[t], d)
                                       /\ memory'[Pushed(stack[t], d)] = Caller(t)
  BY ZenonT(30) DEF SavedGood, RunningOn, SavedAs, Pushed
<1>1. \E d \in Depths : /\ kept'[current] = RunningOn(current, stack[current], d)
                        /\ slots'[current] = SavedAs(current, stack[current], d)
                        /\ memory'[Pushed(stack[current], d)] = Caller(current)
  BY SMTT(30) DEF LeavesCurrent
<1>2. CASE t # current
  <2>1. context[t] = "saved" /\ magic[t]
    BY <1>2, Zenon DEF CInv, StacksGood
  <2>2. PICK d \in Depths : Waits(t, d)
    BY <1>2, <2>1, Zenon DEF CInv, SavedGood, Waits
  <2>3. memory'[Pushed(stack[t], d)] = Caller(t)
    BY <1>2, <2>1, <2>2, Zenon DEF LeavesWords, Waits
  <2>4. slots'[t] = slots[t] /\ kept'[t] = kept[t]
    BY <1>2, Zenon DEF LeavesCurrent
  <2>. QED
    BY <2>2, <2>3, <2>4, Zenon DEF Waits
<1>3. CASE t = current
  BY <1>1, <1>3, Zenon
<1>. QED
  BY <1>2, <1>3, Zenon

\* A switch keeps the stacks good,
LEMMA SwitchStacksGood ==
  ASSUME CInv, current \in Threads, magic[current], magic' = magic, stack' = stack,
         context' = [context EXCEPT ![current] = "saved"],
         DOMAIN context = Threads, LeavesCurrent
  PROVE  StacksGood'
<1>1. /\ DOMAIN stack = Threads
      /\ \A t \in Threads : magic[t] => stack[t] \in GoodStacks(t)
      /\ \A t \in Threads : context[t] # "zero" => magic[t]
  BY Zenon DEF CInv, StacksGood
<1>2. \A t \in Threads : context'[t] # "zero" => magic[t]
  BY <1>1, Zenon
<1>3. DOMAIN slots' = Threads /\ DOMAIN kept' = Threads /\ DOMAIN memory' = Word
  BY Zenon DEF LeavesCurrent
<1>. QED
  BY <1>1, <1>2, <1>3, ZenonT(30) DEF StacksGood, GoodStacks

\* leaves the contexts of threads that have not run,
LEMMA SwitchEntriesGood ==
  ASSUME CInv, current \in Threads, stack' = stack, DOMAIN context = Threads,
         context' = [context EXCEPT ![current] = "saved"], LeavesCurrent
  PROVE  EntriesGood'
<1>. SUFFICES ASSUME NEW t \in Threads, context'[t] = "entry"
              PROVE  slots'[t] = EntryContext(InitialRsp(stack[t][1], stack[t][2]))
  BY Zenon DEF EntriesGood
<1>1. t # current /\ context[t] = "entry"
  BY Zenon
<1>. QED
  BY <1>1, Zenon DEF LeavesCurrent, CInv, EntriesGood

\* and continues with a thread on its own stack.
LEMMA SwitchCpu ==
  ASSUME NEW n, current' = n, stack' = stack,
         \/ context[n] = "saved" /\ ResumesSaved(n)
         \/ context[n] = "entry" /\ StartsNew(n)
  PROVE  CpuGood' /\ Resumes
<1>1. CASE context[n] = "saved" /\ ResumesSaved(n)
  BY <1>1, Zenon DEF ResumesSaved, CpuGood, Resumes, RunningOn
<1>2. CASE context[n] = "entry" /\ StartsNew(n)
  <2>1. /\ cpu'["rip"] = Trampoline
        /\ \A r \in Registers \ {"rip", "rsp"} : cpu'[r] = Zero
    BY <1>2, SlotsAgree, Zenon DEF StartsNew
  <2>. QED
    BY <1>2, <2>1, Zenon DEF CpuGood, Resumes
<1>. QED
  BY <1>1, <1>2, Zenon

\* yield and block_current keep the invariant, and resume what they switch to.
LEMMA SwitchCInv ==
  ASSUME CInv, ThreadsOK, InItsCode, Yield \/ BlockCurrent, TSwitch,
         current' \in Threads, current' # current => context[current'] # "zero"
  PROVE  CInv' /\ Resumes
<1>1. /\ magic' = magic /\ stack' = stack
      /\ current' = current => context' = context
      /\ current' # current => context' = [context EXCEPT ![current] = "saved"]
  BY SwitchEffect, Zenon DEF TSwitch
<1>2. CASE current' = current
  BY <1>1, <1>2, QuietStep, Zenon DEF TSwitch, cvars
<1>3. CASE current' # current
  <2>1. PICK n \in Threads \ {current} : n = current'
    BY <1>3, Zenon
  <2>2. SwitchStacks(current, n)
    BY <1>3, <2>1, Zenon DEF TSwitch
  <2>3. /\ context[n] \in {"entry", "saved"} /\ DOMAIN context = Threads
        /\ current \in Threads /\ magic[current]
    BY <1>3, <2>1, Zenon DEF ThreadsOK
  <2>4. magic[n]
    BY <2>3, Zenon DEF CInv, StacksGood
  <2>5. /\ LeavesCurrent /\ LeavesWords(n)
        /\ \/ context[n] = "saved" /\ ResumesSaved(n)
           \/ context[n] = "entry" /\ StartsNew(n)
    BY <2>2, <2>3, <2>4, SwitchToSaved, SwitchToNew, ZenonT(30)
  <2>6. context' = [context EXCEPT ![current] = "saved"]
    BY <1>1, <1>3, Zenon
  <2>7. SavedGood' /\ EntriesGood'
    BY <1>1, <2>1, <2>3, <2>5, <2>6, SwitchSavedGood, SwitchEntriesGood, ZenonT(30)
  <2>8. StacksGood'
    BY <1>1, <2>3, <2>5, <2>6, SwitchStacksGood, ZenonT(30)
  <2>9. CpuGood' /\ Resumes
    BY <1>1, <2>1, <2>5, SwitchCpu, ZenonT(30)
  <2>. QED
    BY <2>7, <2>8, <2>9, Zenon DEF CInv
<1>. QED
  BY <1>2, <1>3, Zenon

\* The running thread's own work leaves everything but its registers alone.
LEMMA ComputeCInv ==
  ASSUME CInv, NEW d \in Depths, Compute(d)
  PROVE  UNCHANGED hvars /\ CInv' /\ Resumes
<1>1. /\ UNCHANGED <<magic, context, current, stack, slots, memory, kept>>
      /\ UNCHANGED hvars
      /\ cpu' = RunningOn(current, stack[current], d)
  BY ZenonT(60) DEF Compute, RunningOn, hvars, vars
<1>2. CpuGood'
  BY <1>1, Zenon DEF CpuGood, RunningOn
<1>. QED
  BY ZenonT(60), <1>1, <1>2 DEF CInv, StacksGood, EntriesGood, SavedGood, Resumes

\* Every step keeps the invariant, if the scheduler goes to a thread that has a
\* context.
LEMMA TNextCInv ==
  ASSUME CInv, ThreadsOK, [TNext]_tvars,
         current' \in Threads, current' # current => context[current'] # "zero"
  PROVE  CInv' /\ Resumes
<1>1. CASE UNCHANGED tvars
  <2>1. UNCHANGED hvars /\ UNCHANGED cvars
    BY <1>1, Zenon DEF tvars
  <2>2. UNCHANGED <<magic, context, current>>
    BY <2>1, Zenon DEF hvars, vars
  <2>. QED
    BY <2>1, <2>2, QuietStep, ZenonT(30)
<1>2. ASSUME NEW t \in Threads, NEW a \in StacksOf[t], TPrepare(t, a[1], a[2])
      PROVE  CInv' /\ Resumes
  BY <1>2, PrepareCInv, Zenon
<1>3. ASSUME NEW t \in Threads, EnqueueThread(t) \/ MarkReady(t), UNCHANGED cvars
      PROVE  CInv' /\ Resumes
  BY <1>3, QuietEffect, QuietStep, Zenon
<1>4. CASE TYield
  BY <1>4, SwitchCInv, Zenon DEF TYield
<1>5. CASE Tick /\ UNCHANGED cvars
  BY <1>5, QuietEffect, QuietStep, Zenon
<1>6. CASE TBlockCurrent
  BY <1>6, SwitchCInv, Zenon DEF TBlockCurrent
<1>7. CASE Start \/ Work
  BY <1>7, ComputeCInv, ThreadContextAssumption, Zenon DEF Start, Work
<1>. QED
  BY <1>1, <1>2, <1>3, <1>4, <1>5, <1>6, <1>7, ZenonT(30) DEF TNext

\* Every step is one of the scheduler.
LEMMA TNextIsHNext == [TNext]_tvars => [HNext]_hvars
<1>1. ASSUME NEW t \in Threads, NEW a, TPrepare(t, a[1], a[2])
      PROVE  HNext
  <2>1. StackCode(a[1], a[2]) \in StackArgs
    BY Zenon DEF StackCode, StackArgs
  <2>. QED
    BY <1>1, <2>1, Zenon DEF TPrepare, HNext
<1>2. Yield \/ BlockCurrent \/ Tick => HNext
  BY Zenon DEF HNext
<1>3. (\E t \in Threads : EnqueueThread(t) \/ MarkReady(t)) => HNext
  BY Zenon DEF HNext
<1>4. Start \/ Work => UNCHANGED hvars
  BY Zenon DEF Start, Work, Compute
<1>5. UNCHANGED tvars => UNCHANGED hvars
  BY Zenon DEF tvars
<1>. QED
  BY <1>1, <1>2, <1>3, <1>4, <1>5, ZenonT(30) DEF TNext, TYield, TBlockCurrent

\* The checks of prepare make every entry stack sound.
LEMMA EntriesSound == CInv => EntryStackSound
<1>. SUFFICES ASSUME CInv, NEW t \in Threads, context[t] = "entry"
              PROVE  LET rsp == slots[t][1][2] IN
                     /\ slots[t][1] = <<"rsp", rsp>>
                     /\ stack[t][1] <= rsp /\ rsp + SizeofWord <= stack[t][1] + stack[t][2]
                     /\ rsp % StackAlign = SizeofWord
  BY Zenon DEF EntryStackSound
<1>. DEFINE i == InitialRsp(stack[t][1], stack[t][2])
<1>1. stack[t] \in GoodStacks(t)
  BY ZenonT(30) DEF CInv, StacksGood
<1>2. /\ stack[t][1] <= i /\ i + SizeofWord <= stack[t][1] + stack[t][2]
      /\ i % StackAlign = SizeofWord
  <2>1. /\ stack[t][1] \in Word /\ stack[t][2] \in Word
        /\ StackCode(stack[t][1], stack[t][2]) = "good" /\ stack[t][1] <= i
    BY SMTT(60), <1>1, PushedInside, ThreadContextAssumption
  <2>. QED
    BY SMTT(60), <2>1, GoodStackFacts
<1>3. slots[t] = EntryContext(i)
  BY SMTT(60) DEF CInv, EntriesGood
<1>. HIDE DEF i
<1>4. slots[t][1] = <<"rsp", i>>
  <2>1. mcsos_context[1] = "rsp"
    BY Zenon DEF mcsos_context
  <2>. QED
    BY <1>3, <2>1, SMTT(30) DEF EntryContext
<1>. QED
  BY <1>2, <1>4, SMTT(30)

-----------------------------------------------------------------------------
(* The ready list.                                                         *)

\* The type of the ready queue.
RQ == [head : Threads \cup {NULL}, tail : Threads \cup {NULL},
       next : [Threads -> Threads \cup {NULL}], count : Nat]

\* Thread t stands in the queue s.
InQueue(s, t) == \E i \in 1 .. Len(s) : s[i] = t

\* The queue without its first element, if it has one.
Rem(s) == IF s = <<>> THEN <<>> ELSE Tail(s)

-----------------------------------------------------------------------------
\* Linking a thread that is not in the list behind ready_tail appends it to the
\* sequence the list represents.
LEMMA EnqueueRepresents ==
  ASSUME NEW q \in RQ, NEW s \in Seq(Threads), Represents(q, s),
         NEW t \in Threads, ~InQueue(s, t)
  PROVE  /\ Enqueued(q, t) \in RQ
         /\ Append(s, t) \in Seq(Threads)
         /\ Represents(Enqueued(q, t), Append(s, t))
         /\ \A u \in Threads : InQueue(Append(s, t), u) <=> InQueue(s, u) \/ u = t
<1>. DEFINE r == Append(s, t)
            e == Enqueued(q, t)
            n == Len(s)
<1>1. /\ n \in Nat
      /\ r \in Seq(Threads) /\ Len(r) = n + 1
      /\ r[n + 1] = t
      /\ \A i \in 1 .. n : r[i] = s[i] /\ s[i] \in Threads /\ s[i] # t
  BY DEF InQueue
<1>2. /\ q.count = n
      /\ q.head = IF s = <<>> THEN NULL ELSE s[1]
      /\ q.tail = IF s = <<>> THEN NULL ELSE s[n]
      /\ \A i \in 1 .. n : q.next[s[i]] = IF i = n THEN NULL ELSE s[i + 1]
      /\ \A i, j \in 1 .. n : s[i] = s[j] => i = j
  BY Zenon DEF Represents
<1>3. /\ q.head \in Threads \cup {NULL} /\ q.tail \in Threads \cup {NULL}
      /\ q.next \in [Threads -> Threads \cup {NULL}] /\ q.count \in Nat
  BY Zenon DEF RQ
<1>4. (s = <<>>) <=> n = 0
  BY SMTT(30)
<1>5. (q.tail = NULL) <=> n = 0
  BY <1>1, <1>2, <1>4, SMTT(30)
<1>6. /\ e.count = n + 1
      /\ e.head = IF n = 0 THEN t ELSE q.head
      /\ e.tail = t
      /\ e.next \in [Threads -> Threads \cup {NULL}]
      /\ e.next[t] = NULL
      /\ n # 0 => e.next[s[n]] = t
      /\ \A u \in Threads \ {t} : (n # 0 => u # s[n]) => e.next[u] = q.next[u]
  BY <1>1, <1>2, <1>3, <1>4, <1>5, SMTT(30) DEF Enqueued, TailAfter
<1>7. e \in RQ
  BY SMTT(60), <1>1, <1>3, <1>6 DEF RQ, Enqueued, TailAfter
<1>. HIDE DEF r, e, n
<1>8. \A u \in Threads : InQueue(r, u) <=> InQueue(s, u) \/ u = t
  <2>1. \A i \in 1 .. Len(r) : i = n + 1 \/ i \in 1 .. n
    BY ONLY <1>1
  <2>2. n + 1 \in 1 .. Len(r) /\ \A i \in 1 .. n : i \in 1 .. Len(r)
    BY ONLY <1>1
  <2>. QED
    BY <1>1, <2>1, <2>2, Zenon DEF InQueue, n
<1>9. Represents(e, r)
  <2>1. e.count = Len(r)
    BY ONLY <1>1, <1>6, Zenon
  <2>2. r # <<>>
    BY ONLY <1>1
  <2>3. e.head = r[1]
    <3>1. CASE n = 0
      BY <3>1, <1>1, <1>6, SMTT(30)
    <3>2. CASE n # 0
      <4>1. 1 \in 1 .. n
        BY ONLY <3>2, <1>1, SMTT(30)
      <4>. QED
        BY <3>2, <4>1, <1>1, <1>2, <1>4, <1>6, ZenonT(30)
    <3>. QED
      BY <3>1, <3>2, ZenonT(30)
  <2>4. e.tail = r[Len(r)]
    BY <1>1, <1>6, ZenonT(30)
  <2>5. ASSUME NEW i \in 1 .. Len(r)
        PROVE  e.next[r[i]] = IF i = Len(r) THEN NULL ELSE r[i + 1]
    <3>1. CASE i = n + 1
      BY <3>1, <1>1, <1>6, ZenonT(30)
    <3>2. CASE i = n /\ n # 0
      BY <3>2, <1>1, <1>6, SMTT(30)
    <3>3. CASE i \in 1 .. n /\ i # n
      <4>1. /\ i + 1 \in 1 .. n /\ n \in 1 .. n /\ n # 0 /\ i # Len(r)
        BY ONLY <3>3, <1>1
      <4>2. s[i] # s[n] /\ s[i] # t /\ s[i] \in Threads
        BY <3>3, <4>1, <1>1, <1>2, ZenonT(30)
      <4>3. e.next[s[i]] = q.next[s[i]]
        BY <4>1, <4>2, <1>6, Zenon
      <4>4. q.next[s[i]] = s[i + 1]
        BY <3>3, <1>2, Zenon
      <4>5. r[i] = s[i] /\ r[i + 1] = s[i + 1]
        BY <3>3, <4>1, <1>1, ZenonT(30)
      <4>. QED
        BY <4>1, <4>3, <4>4, <4>5, ZenonT(30)
    <3>4. i = n + 1 \/ (i = n /\ n # 0) \/ (i \in 1 .. n /\ i # n)
      BY ONLY <1>1, i \in 1 .. Len(r), SMTT(30)
    <3>. QED
      BY <3>1, <3>2, <3>3, <3>4, ZenonT(30)
  <2>6. ASSUME NEW i \in 1 .. Len(r), NEW j \in 1 .. Len(r), r[i] = r[j]
        PROVE  i = j
    <3>1. (i = n + 1 \/ i \in 1 .. n) /\ (j = n + 1 \/ j \in 1 .. n)
      BY ONLY <1>1, i \in 1 .. Len(r), j \in 1 .. Len(r), SMTT(30)
    <3>. QED
      BY <2>6, <3>1, <1>1, <1>2, SMTT(30)
  <2>. QED
    BY <2>1, <2>2, <2>3, <2>4, <2>5, <2>6, ZenonT(30) DEF Represents
<1>. QED
  BY <1>1, <1>7, <1>8, <1>9, ZenonT(30) DEF r, e

\* Unlinking ready_head takes the first element off the sequence the list
\* represents; an empty list stays as it is.
LEMMA RestRepresents ==
  ASSUME NEW q \in RQ, NEW s \in Seq(Threads), Represents(q, s)
  PROVE  /\ Rest(q) \in RQ
         /\ Rem(s) \in Seq(Threads)
         /\ Represents(Rest(q), Rem(s))
         /\ Picked(q) = IF s = <<>> THEN Boot ELSE s[1]
         /\ \A u \in Threads :
               InQueue(Rem(s), u) <=> InQueue(s, u) /\ ~(s # <<>> /\ u = s[1])
<1>. DEFINE n == Len(s)
            r == Tail(s)
            d == Dequeued(q)
<1>2. /\ n \in Nat
      /\ \A i \in 1 .. n : s[i] \in Threads
      /\ q.count = n
      /\ q.head = IF s = <<>> THEN NULL ELSE s[1]
      /\ q.tail = IF s = <<>> THEN NULL ELSE s[n]
      /\ \A i \in 1 .. n : q.next[s[i]] = IF i = n THEN NULL ELSE s[i + 1]
      /\ \A i, j \in 1 .. n : s[i] = s[j] => i = j
  BY DEF Represents
<1>3. /\ q.head \in Threads \cup {NULL} /\ q.tail \in Threads \cup {NULL}
      /\ q.next \in [Threads -> Threads \cup {NULL}] /\ q.count \in Nat
  BY Zenon DEF RQ
<1>4. CASE s = <<>>
  BY <1>2, <1>4, ZenonT(30) DEF Rest, Rem, Picked, InQueue
<1>5. CASE s # <<>>
  <2>1. /\ 1 \in 1 .. n /\ n \in 1 .. n
        /\ r \in Seq(Threads) /\ Len(r) = n - 1 /\ Len(r) \in Nat
        /\ \A i \in 1 .. n - 1 : r[i] = s[i + 1]
    BY SMTT(60), <1>5
  <2>2. q.head = s[1] /\ s[1] \in Threads /\ q.head # NULL /\ q.tail = s[n]
    <3>1. q.head = s[1] /\ q.tail = s[n]
      BY ZenonT(30), <1>2, <1>5
    <3>2. s[1] \in Threads
      BY ZenonT(30), <1>2, <2>1
    <3>. QED
      BY <3>1, <3>2, Zenon
  <2>3. q.next[s[1]] = IF n = 1 THEN NULL ELSE s[2]
    <3>1. q.next[s[1]] = IF 1 = n THEN NULL ELSE s[1 + 1]
      BY ZenonT(30), <1>2, <2>1
    <3>. QED
      BY <3>1
  <2>4. n # 1 => s[2] \in Threads /\ s[2] # NULL
    <3>1. n # 1 => 2 \in 1 .. n
      BY <2>1, SMTT(30)
    <3>. QED
      BY <3>1, <1>2, SMTT(30)
  <2>5. /\ d.count = n - 1
        /\ d.head = IF n = 1 THEN NULL ELSE s[2]
        /\ d.tail = IF n = 1 THEN NULL ELSE s[n]
        /\ d.next \in [Threads -> Threads \cup {NULL}]
        /\ \A u \in Threads \ {s[1]} : d.next[u] = q.next[u]
    <3>. DEFINE rest == q.next[q.head]
    <3>1. rest = IF n = 1 THEN NULL ELSE s[2]
      BY <2>2, <2>3, ZenonT(30)
    <3>2. (rest = NULL) <=> n = 1
      BY <2>4, <3>1, ZenonT(30)
    <3>3. q.count = n /\ n > 0
      <4>1. n > 0
        BY <2>1
      <4>. QED
        BY <1>2, <4>1, ZenonT(30)
    <3>. HIDE DEF rest, n
    <3>4. d = [head |-> rest, tail |-> IF rest = NULL THEN NULL ELSE q.tail,
               next |-> [q.next EXCEPT ![q.head] = NULL], count |-> n - 1]
      BY <3>3, ZenonT(30) DEF Dequeued, rest
    <3>. QED
      BY <1>3, <2>2, <3>1, <3>2, <3>4, SMTT(30)
  <2>6. d \in RQ
    <3>1. s[n] \in Threads
      BY Zenon, <1>2, <2>1
    <3>2. n - 1 \in Nat
      BY <2>1, Zenon
    <3>. QED
      BY SMTT(60), <2>4, <2>5, <3>1, <3>2 DEF RQ, Dequeued
  <2>7. Rest(q) = d /\ Picked(q) = s[1] /\ Rem(s) = r
    BY <1>5, <2>2, ZenonT(30) DEF Rest, Picked, Rem
  <2>. HIDE DEF r, d, n
  <2>8. \A i \in 1 .. n - 1 : i + 1 \in 1 .. n /\ i + 1 # 1
    BY ONLY <1>2, SMTT(30)
  <2>9. \A i \in 1 .. n : i # 1 => i - 1 \in 1 .. n - 1 /\ (i - 1) + 1 = i
    BY ONLY <1>2
  <2>10. \A u \in Threads : InQueue(r, u) <=> InQueue(s, u) /\ u # s[1]
    <3>1. ASSUME NEW u \in Threads, InQueue(r, u) PROVE InQueue(s, u) /\ u # s[1]
      <4>1. PICK i \in 1 .. n - 1 : r[i] = u
        BY <2>1, <3>1, Zenon DEF InQueue
      <4>. QED
        BY <1>2, <2>1, <2>8, <4>1, SMTT(30) DEF InQueue, n
    <3>2. ASSUME NEW u \in Threads, InQueue(s, u), u # s[1] PROVE InQueue(r, u)
      <4>1. PICK i \in 1 .. n : s[i] = u
        BY <3>2, Zenon DEF InQueue, n
      <4>2. i # 1
        BY <3>2, <4>1, ZenonT(30)
      <4>3. r[i - 1] = u /\ i - 1 \in 1 .. Len(r)
        BY <2>1, <2>9, <4>1, <4>2, ZenonT(30)
      <4>. QED
        BY <4>3, Zenon DEF InQueue
    <3>. QED
      BY <3>1, <3>2, ZenonT(30)
  <2>11. Represents(d, r)
    <3>1. (r = <<>>) <=> n = 1
      BY <1>2, <2>1, SMTT(30)
    <3>2. d.head = IF r = <<>> THEN NULL ELSE r[1]
      <4>1. n # 1 => r[1] = s[2]
        <5>1. n # 1 => 1 \in 1 .. n - 1
          BY ONLY <1>2, <2>1, SMTT(30)
        <5>2. n # 1 => r[1] = s[1 + 1]
          BY <5>1, <2>1, ZenonT(30)
        <5>. QED
          BY <5>2, SMTT(30)
      <4>. QED
        BY <3>1, <4>1, <2>5, ZenonT(30)
    <3>3. d.tail = IF r = <<>> THEN NULL ELSE r[Len(r)]
      <4>1. n # 1 => n - 1 \in 1 .. n - 1 /\ (n - 1) + 1 = n
        BY ONLY <1>2, <2>1, SMTT(30)
      <4>2. n # 1 => r[n - 1] = s[n]
        BY <4>1, <2>1, ZenonT(30)
      <4>. QED
        BY <3>1, <4>2, <2>1, <2>5, ZenonT(30)
    <3>4. ASSUME NEW i \in 1 .. Len(r)
          PROVE  d.next[r[i]] = IF i = Len(r) THEN NULL ELSE r[i + 1]
      <4>1. i \in 1 .. n - 1 /\ i + 1 \in 1 .. n /\ i + 1 # 1
        BY <2>1, <2>8, Zenon
      <4>2. r[i] = s[i + 1] /\ s[i + 1] # s[1] /\ s[i + 1] \in Threads
        BY <4>1, <1>2, <2>1, ZenonT(30)
      <4>3. d.next[r[i]] = IF i + 1 = n THEN NULL ELSE s[(i + 1) + 1]
        <5>1. q.next[s[i + 1]] = IF i + 1 = n THEN NULL ELSE s[(i + 1) + 1]
          BY <4>1, <1>2, ZenonT(30)
        <5>. QED
          BY <4>2, <5>1, <2>5, ZenonT(30)
      <4>4. (i + 1 = n) <=> i = Len(r)
        BY ONLY <4>1, <1>2, <2>1, SMTT(30)
      <4>5. i + 1 # n => i + 1 \in 1 .. n - 1
        BY ONLY <4>1, <1>2, SMTT(30)
      <4>6. i + 1 # n => r[i + 1] = s[(i + 1) + 1]
        BY <4>5, <2>1, ZenonT(30)
      <4>. QED
        BY <4>3, <4>4, <4>6, ZenonT(30)
    <3>5. ASSUME NEW i \in 1 .. Len(r), NEW j \in 1 .. Len(r), r[i] = r[j]
          PROVE  i = j
      <4>1. i \in 1 .. n - 1 /\ j \in 1 .. n - 1
        BY <2>1, ZenonT(30)
      <4>2. s[i + 1] = s[j + 1] /\ i + 1 \in 1 .. n /\ j + 1 \in 1 .. n
        BY <3>5, <4>1, <2>1, <2>8, ZenonT(30)
      <4>3. i + 1 = j + 1
        BY <4>2, <1>2, ZenonT(30)
      <4>. QED
        BY ONLY <4>1, <4>3, <1>2, SMTT(30)
    <3>6. d.count = Len(r)
      BY <2>1, <2>5, ZenonT(30)
    <3>. QED
      BY <3>2, <3>3, <3>4, <3>5, <3>6, ZenonT(30) DEF Represents
  <2>. QED
    BY <1>5, <2>1, <2>6, <2>7, <2>10, <2>11, Zenon
<1>. QED
  BY <1>4, <1>5, ZenonT(30)

-----------------------------------------------------------------------------
\* A context that may be switched to has been filled.
ContextsFilled ==
  /\ \A t \in Threads : magic[t] /\ t # Boot => context[t] # "zero"
  /\ current # Boot => context[Boot] # "zero"

\* The inductive invariant.
IInv == TypeOK /\ ReadyQueueExact /\ ContextsFilled

\* The invariant, taken apart for the lemmas below.
LEMMA IInvFacts ==
  IInv => /\ rq \in RQ /\ queue \in Seq(Threads) /\ Represents(rq, queue)
          /\ magic \in [Threads -> BOOLEAN]
          /\ state \in [Threads -> State]
          /\ context \in [Threads -> {"zero", "entry", "saved"}]
          /\ current \in Threads /\ Boot \in Threads
          /\ \A t \in Threads : state[t] = "READY" <=> InQueue(queue, t)
          /\ \A t \in Threads : state[t] = "RUNNING" <=> t = current \/ t = Boot
          /\ \A t \in Threads : state[t] # "NEW" => magic[t]
          /\ \A t \in Threads : magic[t] /\ t # Boot => context[t] # "zero"
          /\ current # Boot => context[Boot] # "zero"
BY Zenon DEF IInv, TypeOK, ReadyQueueExact, QueueRepresented, StatesMatchQueue,
       ContextsFilled, InQueue, RQ

\* The same facts, of the state after a step, make the invariant.
LEMMA TypeNext ==
  ASSUME rq' \in RQ, magic' \in [Threads -> BOOLEAN], state' \in [Threads -> State],
         context' \in [Threads -> {"zero", "entry", "saved"}],
         current' \in Threads, rc' \in {"OK", "EINVAL", "ESTATE", "ESTACK"}
  PROVE  TypeOK'
BY Zenon DEF TypeOK, RQ

\* The queue and the states agree after a step, if their parts do.
LEMMA QueueNext ==
  ASSUME queue' \in Seq(Threads), Represents(rq', queue'),
         \A t \in Threads : state'[t] = "READY" <=> InQueue(queue', t),
         \A t \in Threads : state'[t] = "RUNNING" <=> t = current' \/ t = Boot,
         \A t \in Threads : state'[t] # "NEW" => magic'[t]
  PROVE  ReadyQueueExact'
<1>1. QueueRepresented'
  BY Zenon DEF QueueRepresented, Represents
<1>2. StatesMatchQueue'
  BY Zenon DEF StatesMatchQueue, InQueue
<1>. QED
  BY <1>1, <1>2, Zenon DEF ReadyQueueExact

\* Likewise for the contexts.
LEMMA FilledNext ==
  ASSUME \A t \in Threads : magic'[t] /\ t # Boot => context'[t] # "zero",
         current' # Boot => context'[Boot] # "zero"
  PROVE  ContextsFilled'
BY ZenonT(30) DEF ContextsFilled

\* mcsos_scheduler_init establishes the invariant.
LEMMA InitIInv == HInit => IInv
<1>. SUFFICES ASSUME HInit PROVE IInv
  BY Zenon
<1>1. rq \in RQ /\ queue = <<>>
  BY ZenonT(30) DEF HInit, Init, RQ
<1>2. Represents(rq, queue) /\ \A t \in Threads : ~InQueue(queue, t)
  BY <1>1, SMTT(30) DEF HInit, Init, Represents, InQueue
<1>3. /\ magic = [t \in Threads |-> t = Boot]
      /\ state = [t \in Threads |-> IF t = Boot THEN "RUNNING" ELSE "NEW"]
      /\ context = [t \in Threads |-> "zero"]
      /\ current = Boot /\ rc = "OK"
  BY Zenon DEF HInit, Init
<1>4. magic \in [Threads -> BOOLEAN]
  BY <1>3, Zenon
<1>5. \A t \in Threads : state[t] # "NEW" => t = Boot
  BY <1>3, ZenonT(30)
<1>6. \A t \in Threads : magic[t] <=> t = Boot
  BY <1>3, Zenon
<1>7. \A t \in Threads : state[t] # "READY" /\ (state[t] = "RUNNING" <=> t = Boot)
  BY <1>3, Zenon
<1>. QED
  BY <1>1, <1>2, <1>3, <1>4, <1>5, <1>6, <1>7, SMTT(30)
  DEF IInv, TypeOK, ReadyQueueExact, QueueRepresented, StatesMatchQueue,
      ContextsFilled, InQueue, RQ, State

\* What mcsos_sched_yield does: the first thread of the queue, or the idle
\* thread, runs, and the running thread, unless it is the idle one, goes last.
LEMMA YieldEffect ==
  ASSUME IInv, Yield
  PROVE  /\ current' = IF queue = <<>> THEN Boot ELSE queue[1]
         /\ queue' = IF current = Boot THEN Rem(queue) ELSE Append(Rem(queue), current)
         /\ rq' \in RQ /\ queue' \in Seq(Threads) /\ Represents(rq', queue')
         /\ \A u \in Threads : InQueue(queue', u) <=>
               \/ InQueue(queue, u) /\ u # current'
               \/ u = current /\ u # Boot
         /\ state' = [state EXCEPT ![current] = IF @ = "RUNNING" /\ current # Boot
                                                THEN "READY" ELSE @,
                                   ![current'] = "RUNNING"]
         /\ context' = IF current' = current THEN context
                       ELSE [context EXCEPT ![current] = "saved"]
         /\ magic' = magic /\ rc' = "OK"
<1>. DEFINE nxt == IF queue = <<>> THEN Boot ELSE queue[1]
<1>1. /\ rq \in RQ /\ queue \in Seq(Threads) /\ Represents(rq, queue)
      /\ state \in [Threads -> State] /\ current \in Threads
      /\ \A t \in Threads : state[t] = "READY" <=> InQueue(queue, t)
      /\ \A t \in Threads : state[t] = "RUNNING" <=> t = current \/ t = Boot
  BY IInvFacts, Zenon
<1>2. /\ Rest(rq) \in RQ /\ Rem(queue) \in Seq(Threads)
      /\ Represents(Rest(rq), Rem(queue))
      /\ Picked(rq) = nxt
      /\ \A u \in Threads :
            InQueue(Rem(queue), u) <=> InQueue(queue, u) /\ ~(queue # <<>> /\ u = queue[1])
  BY <1>1, RestRepresents, ZenonT(30)
<1>3. /\ queue # <<>> => queue[1] \in Threads /\ InQueue(queue, queue[1])
      /\ queue = <<>> => \A u \in Threads : ~InQueue(queue, u)
  <2>1. queue # <<>> => 1 \in 1 .. Len(queue)
    BY <1>1
  <2>. QED
    BY <1>1, <2>1, SMTT(30) DEF InQueue
<1>4. nxt \in Threads /\ (nxt = current => queue = <<>> /\ current = Boot)
  BY <1>1, <1>3, Zenon
<1>5. \A u \in Threads : InQueue(Rem(queue), u) <=> InQueue(queue, u) /\ u # nxt
  BY <1>1, <1>2, <1>3, ZenonT(30)
<1>6. state[current] = "RUNNING" /\ ~InQueue(Rem(queue), current)
  BY <1>1, <1>5, ZenonT(30)
<1>7. queue' = IF current = Boot THEN Rem(queue) ELSE Append(Rem(queue), current)
  BY Zenon DEF Yield, Others, Rem
<1>8. magic' = magic /\ rc' = "OK"
  BY Zenon DEF Yield, mcsos_sched_yield, YieldFrom
<1>. HIDE DEF nxt
<1>9. CASE nxt = current
  <2>1. /\ state' = [state EXCEPT ![current] = "RUNNING"]
        /\ rq' = Rest(rq) /\ UNCHANGED <<context, current>>
    BY <1>2, <1>9, ZenonT(30) DEF Yield, mcsos_sched_yield, YieldFrom
  <2>2. queue = <<>> /\ current = Boot /\ queue' = Rem(queue)
    BY <1>4, <1>7, <1>9, ZenonT(30)
  <2>3. state' = [state EXCEPT ![current] = IF @ = "RUNNING" /\ current # Boot
                                            THEN "READY" ELSE @,
                               ![current'] = "RUNNING"]
    BY ZenonT(30), <1>1, <1>6, <2>1, <2>2
  <2>. QED
    BY ZenonT(30), <1>2, <1>3, <1>5, <1>8, <1>9, <2>1, <2>2, <2>3 DEF nxt
<1>10. CASE nxt # current
  <2>1. Switch(state, current, nxt)
    BY <1>2, <1>10, Zenon DEF Yield, mcsos_sched_yield, YieldFrom
  <2>2. Requeues(state, current) <=> current # Boot
    BY <1>6, Zenon DEF Requeues
  <2>3. /\ current' = nxt
        /\ context' = [context EXCEPT ![current] = "saved"]
        /\ rq' = IF current # Boot THEN Enqueued(Rest(rq), current) ELSE Rest(rq)
        /\ state' = [state EXCEPT ![current] = IF current # Boot THEN "READY" ELSE @,
                                  ![nxt] = "RUNNING"]
    BY ZenonT(30), <2>1, <2>2 DEF Switch, mcsos_context_switch
  <2>4. state' = [state EXCEPT ![current] = IF @ = "RUNNING" /\ current # Boot
                                            THEN "READY" ELSE @,
                               ![current'] = "RUNNING"]
    BY <1>6, <2>3, ZenonT(30)
  <2>5. current # Boot =>
          /\ Enqueued(Rest(rq), current) \in RQ
          /\ Append(Rem(queue), current) \in Seq(Threads)
          /\ Represents(Enqueued(Rest(rq), current), Append(Rem(queue), current))
          /\ \A u \in Threads : InQueue(Append(Rem(queue), current), u)
                                  <=> InQueue(Rem(queue), u) \/ u = current
    BY <1>1, <1>2, <1>6, EnqueueRepresents, SMTT(30)
  <2>6. rq' \in RQ /\ queue' \in Seq(Threads) /\ Represents(rq', queue')
    BY <1>2, <1>7, <2>3, <2>5, ZenonT(30)
  <2>7. \A u \in Threads : InQueue(queue', u) <=>
           \/ InQueue(queue, u) /\ u # current'
           \/ u = current /\ u # Boot
    BY <1>5, <1>7, <2>3, <2>5, ZenonT(30)
  <2>. QED
    BY ZenonT(30), <1>7, <1>8, <1>10, <2>3, <2>4, <2>6, <2>7 DEF nxt
<1>. QED
  BY <1>9, <1>10, ZenonT(30)

\* mcsos_sched_yield keeps the invariant and is a rotation of the round robin.
LEMMA YieldStep ==
  ASSUME IInv, Yield
  PROVE  IInv' /\ RR!Rotate /\ (current' # current => context[current'] # "zero")
<1>1. /\ magic \in [Threads -> BOOLEAN]
      /\ state \in [Threads -> State]
      /\ context \in [Threads -> {"zero", "entry", "saved"}]
      /\ current \in Threads /\ queue \in Seq(Threads)
      /\ \A t \in Threads : state[t] = "READY" <=> InQueue(queue, t)
      /\ \A t \in Threads : state[t] = "RUNNING" <=> t = current \/ t = Boot
      /\ \A t \in Threads : state[t] # "NEW" => magic[t]
      /\ \A t \in Threads : magic[t] /\ t # Boot => context[t] # "zero"
      /\ current # Boot => context[Boot] # "zero"
  BY IInvFacts, ZenonT(30)
<1>2. /\ current' = IF queue = <<>> THEN Boot ELSE queue[1]
      /\ queue' = IF current = Boot THEN Rem(queue) ELSE Append(Rem(queue), current)
      /\ rq' \in RQ /\ queue' \in Seq(Threads) /\ Represents(rq', queue')
      /\ \A u \in Threads : InQueue(queue', u) <=>
            \/ InQueue(queue, u) /\ u # current'
            \/ u = current /\ u # Boot
      /\ state' = [state EXCEPT ![current] = IF @ = "RUNNING" /\ current # Boot
                                             THEN "READY" ELSE @,
                                ![current'] = "RUNNING"]
      /\ context' = IF current' = current THEN context
                    ELSE [context EXCEPT ![current] = "saved"]
      /\ magic' = magic /\ rc' = "OK"
  BY YieldEffect, ZenonT(30)
<1>3. queue # <<>> => queue[1] \in Threads /\ InQueue(queue, queue[1])
  <2>1. queue # <<>> => 1 \in 1 .. Len(queue)
    BY <1>1
  <2>. QED
    BY <1>1, <2>1, SMTT(30) DEF InQueue
<1>4. current' \in Threads /\ (current' # Boot => state[current'] = "READY")
  BY <1>1, <1>2, <1>3, ZenonT(30)
<1>5. \A t \in Threads :
         state'[t] = IF t = current' THEN "RUNNING"
                     ELSE IF t = current /\ t # Boot THEN "READY" ELSE state[t]
  BY <1>1, <1>2, <1>4, SMTT(30)
<1>6. state' \in [Threads -> State]
  BY <1>1, <1>2, <1>4, ZenonT(30) DEF State
<1>7. \A t \in Threads : state'[t] = "READY" <=> InQueue(queue', t)
  <2>. TAKE t \in Threads
  <2>1. InQueue(queue', t) <=>
            \/ InQueue(queue, t) /\ t # current'
            \/ t = current /\ t # Boot
    BY <1>2, ZenonT(30)
  <2>2. state'[t] = IF t = current' THEN "RUNNING"
                    ELSE IF t = current /\ t # Boot THEN "READY" ELSE state[t]
    BY <1>5, Zenon
  <2>3. /\ state[t] = "READY" <=> InQueue(queue, t)
        /\ state[t] = "RUNNING" <=> t = current \/ t = Boot
    BY <1>1, ZenonT(30)
  <2>. QED
    BY <1>4, <2>1, <2>2, <2>3, ZenonT(30)
<1>8. \A t \in Threads : state'[t] = "RUNNING" <=> t = current' \/ t = Boot
  BY <1>1, <1>4, <1>5, SMTT(30)
<1>9. \A t \in Threads : state'[t] # "NEW" => magic[t]
  BY <1>1, <1>4, <1>5, ZenonT(30)
<1>10. /\ context' \in [Threads -> {"zero", "entry", "saved"}]
       /\ \A t \in Threads : context[t] # "zero" => context'[t] # "zero"
       /\ current' # current => context'[current] = "saved"
  BY <1>1, <1>2, SMTT(30)
<1>11. current' # current => context[current'] # "zero"
  BY <1>1, <1>4, SMTT(30)
<1>12. \A t \in Threads : magic[t] /\ t # Boot => context'[t] # "zero"
  BY <1>1, <1>10, ZenonT(30)
<1>13. current' # Boot => context'[Boot] # "zero"
  BY SMTT(30), <1>1, <1>10
<1>14. IInv'
  <2>1. TypeOK'
    BY <1>1, <1>2, <1>4, <1>6, <1>10, TypeNext, ZenonT(30)
  <2>2. ReadyQueueExact'
    BY ZenonT(30), <1>2, <1>7, <1>8, <1>9, QueueNext
  <2>3. ContextsFilled'
    BY <1>2, <1>12, <1>13, FilledNext, ZenonT(30)
  <2>. QED
    BY <2>1, <2>2, <2>3, ZenonT(30) DEF IInv
<1>15. parked' = parked
  BY <1>1, <1>4, <1>5, SMTT(30) DEF parked
<1>16. queue # <<>> => queue[1] = Head(queue)
  BY <1>1, SMTT(30)
<1>17. RR!Rotate
  BY <1>2, <1>15, <1>16, Zenon DEF RR!Rotate, RR!First, RR!Others, Rem
<1>. QED
  BY <1>11, <1>14, <1>17, ZenonT(30)

\* A step that changes nothing but rc keeps the invariant.
LEMMA FailStep ==
  ASSUME IInv, UNCHANGED <<magic, state, context, rq, current, queue>>,
         rc' \in {"OK", "EINVAL", "ESTATE", "ESTACK"}
  PROVE  IInv' /\ UNCHANGED <<current, queue, parked>>
<1>1. TypeOK'
  BY IInvFacts, TypeNext, Zenon
<1>2. ReadyQueueExact'
  BY IInvFacts, QueueNext, Zenon
<1>3. ContextsFilled'
  BY IInvFacts, FilledNext, ZenonT(30)
<1>. QED
  BY <1>1, <1>2, <1>3, ZenonT(30) DEF IInv, parked

\* mcsos_thread_block_current keeps the invariant; it parks the running thread,
\* or fails because that is the idle one.
LEMMA BlockStep ==
  ASSUME IInv, BlockCurrent
  PROVE  /\ IInv'
         /\ RR!Park \/ UNCHANGED <<current, queue, parked>>
         /\ current' # current => context[current'] # "zero"
<1>1. /\ magic \in [Threads -> BOOLEAN]
      /\ state \in [Threads -> State]
      /\ context \in [Threads -> {"zero", "entry", "saved"}]
      /\ rq \in RQ /\ Represents(rq, queue)
      /\ current \in Threads /\ queue \in Seq(Threads)
      /\ \A t \in Threads : state[t] = "READY" <=> InQueue(queue, t)
      /\ \A t \in Threads : state[t] = "RUNNING" <=> t = current \/ t = Boot
      /\ \A t \in Threads : state[t] # "NEW" => magic[t]
      /\ \A t \in Threads : magic[t] /\ t # Boot => context[t] # "zero"
      /\ current # Boot => context[Boot] # "zero"
  BY IInvFacts, ZenonT(30)
<1>2. CASE current = Boot
  <2>1. UNCHANGED <<magic, state, context, rq, current, queue>> /\ rc' = "ESTATE"
    BY <1>2, Zenon DEF BlockCurrent, mcsos_thread_block_current, Fails
  <2>2. IInv'
    BY <2>1, FailStep, ZenonT(30)
  <2>. QED
    BY <2>1, <2>2, ZenonT(30) DEF parked
<1>3. CASE current # Boot
  <2>. DEFINE nxt == IF queue = <<>> THEN Boot ELSE queue[1]
              st  == [state EXCEPT ![current] = "BLOCKED"]
  <2>1. /\ Rest(rq) \in RQ /\ Rem(queue) \in Seq(Threads)
        /\ Represents(Rest(rq), Rem(queue))
        /\ Picked(rq) = nxt
        /\ \A u \in Threads :
              InQueue(Rem(queue), u) <=> InQueue(queue, u) /\ ~(queue # <<>> /\ u = queue[1])
    BY <1>1, RestRepresents, ZenonT(30)
  <2>2. /\ queue # <<>> => queue[1] \in Threads /\ InQueue(queue, queue[1])
        /\ queue = <<>> => \A u \in Threads : ~InQueue(queue, u)
    <3>1. queue # <<>> => 1 \in 1 .. Len(queue)
      BY <1>1
    <3>. QED
      BY <1>1, <3>1, SMTT(30) DEF InQueue
  <2>3. nxt \in Threads /\ nxt # current /\ (nxt # Boot => state[nxt] = "READY")
    BY <1>1, <1>3, <2>2, Zenon
  <2>4. \A u \in Threads : InQueue(Rem(queue), u) <=> InQueue(queue, u) /\ u # nxt
    BY <1>1, <2>1, <2>2, ZenonT(30)
  <2>5. queue' = Rem(queue)
    BY <1>3, ZenonT(30) DEF BlockCurrent, Others, Rem
  <2>. HIDE DEF nxt
  <2>6. Switch(st, current, nxt) /\ rc' = "OK" /\ magic' = magic
    BY <1>3, <2>1, <2>3, ZenonT(30) DEF BlockCurrent, mcsos_thread_block_current, YieldFrom
  <2>7. st[current] = "BLOCKED" /\ ~Requeues(st, current)
    BY <1>1, ZenonT(30) DEF Requeues
  <2>8. /\ current' = nxt /\ rq' = Rest(rq)
        /\ context' = [context EXCEPT ![current] = "saved"]
        /\ state' = [st EXCEPT ![current] = @, ![nxt] = "RUNNING"]
    BY <2>6, <2>7, Zenon DEF Switch, mcsos_context_switch
  <2>9. /\ state' \in [Threads -> State]
        /\ \A t \in Threads :
              state'[t] = IF t = nxt THEN "RUNNING"
                          ELSE IF t = current THEN "BLOCKED" ELSE state[t]
    BY <1>1, <2>3, <2>8, ZenonT(30) DEF State
  <2>10. \A t \in Threads : state'[t] = "READY" <=> InQueue(queue', t)
    <3>. TAKE t \in Threads
    <3>1. InQueue(queue', t) <=> InQueue(queue, t) /\ t # nxt
      BY <2>4, <2>5, ZenonT(30)
    <3>2. state'[t] = IF t = nxt THEN "RUNNING"
                      ELSE IF t = current THEN "BLOCKED" ELSE state[t]
      BY <2>9, Zenon
    <3>3. /\ state[t] = "READY" <=> InQueue(queue, t)
          /\ state[t] = "RUNNING" <=> t = current \/ t = Boot
      BY <1>1, ZenonT(30)
    <3>. QED
      BY <3>1, <3>2, <3>3, ZenonT(30)
  <2>11. \A t \in Threads : state'[t] = "RUNNING" <=> t = nxt \/ t = Boot
    BY <1>1, <1>3, <2>3, <2>9, SMTT(30)
  <2>12. \A t \in Threads : state'[t] # "NEW" => magic[t]
    BY <1>1, <2>3, <2>9, ZenonT(30)
  <2>13. /\ context' \in [Threads -> {"zero", "entry", "saved"}]
         /\ \A t \in Threads : context[t] # "zero" => context'[t] # "zero"
    BY <1>1, <2>8, ZenonT(30)
  <2>14. /\ \A t \in Threads : magic[t] /\ t # Boot => context'[t] # "zero"
         /\ context'[Boot] # "zero"
    BY <1>1, <1>3, <2>13, ZenonT(30)
  <2>15. context[nxt] # "zero"
    BY SMTT(60), <1>1, <1>3, <2>3
  <2>16. IInv'
    <3>1. TypeOK'
      BY SMTT(30), <1>1, <2>1, <2>3, <2>6, <2>8, <2>9, <2>13, TypeNext
    <3>2. ReadyQueueExact'
      <4>1. queue' \in Seq(Threads) /\ Represents(rq', queue') /\ current' = nxt
        BY <2>1, <2>5, <2>8, ZenonT(30)
      <4>. QED
        BY <2>6, <2>10, <2>11, <2>12, <4>1, QueueNext, ZenonT(30)
    <3>3. ContextsFilled'
      BY <2>6, <2>14, FilledNext, ZenonT(30)
    <3>. QED
      BY <3>1, <3>2, <3>3, Zenon DEF IInv
  <2>17. parked' = parked \cup {current}
    BY <1>1, <1>3, <2>3, <2>9, SMTT(30) DEF parked
  <2>18. queue # <<>> => queue[1] = Head(queue)
    BY <1>1, SMTT(30)
  <2>19. RR!Park
    BY <1>3, <2>5, <2>8, <2>17, <2>18, ZenonT(30) DEF RR!Park, RR!First, RR!Others, Rem, nxt
  <2>. QED
    BY <2>8, <2>15, <2>16, <2>19, ZenonT(30)
<1>. QED
  BY <1>2, <1>3, Zenon

\* Linking a prepared thread that is neither READY nor RUNNING, the common part
\* of enqueue and mark_ready, keeps the invariant and admits the thread.
LEMMA AdmitStep ==
  ASSUME IInv, NEW t \in Threads, magic[t], state[t] \in {"NEW", "BLOCKED"},
         state' = [state EXCEPT ![t] = "READY"], rq' = Enqueued(rq, t),
         queue' = Append(queue, t), rc' = "OK",
         UNCHANGED <<magic, context, current>>
  PROVE  IInv' /\ RR!Admit(t)
<1>1. /\ magic \in [Threads -> BOOLEAN]
      /\ state \in [Threads -> State]
      /\ context \in [Threads -> {"zero", "entry", "saved"}]
      /\ rq \in RQ /\ Represents(rq, queue)
      /\ current \in Threads /\ queue \in Seq(Threads)
      /\ \A u \in Threads : state[u] = "READY" <=> InQueue(queue, u)
      /\ \A u \in Threads : state[u] = "RUNNING" <=> u = current \/ u = Boot
      /\ \A u \in Threads : state[u] # "NEW" => magic[u]
      /\ \A u \in Threads : magic[u] /\ u # Boot => context[u] # "zero"
      /\ current # Boot => context[Boot] # "zero"
  BY IInvFacts, Zenon
<1>2. ~InQueue(queue, t) /\ t # current /\ t # Boot
  BY <1>1, Zenon
<1>3. /\ rq' \in RQ /\ queue' \in Seq(Threads) /\ Represents(rq', queue')
      /\ \A u \in Threads : InQueue(queue', u) <=> InQueue(queue, u) \/ u = t
  BY <1>1, <1>2, EnqueueRepresents, ZenonT(30)
<1>4. /\ state' \in [Threads -> State]
      /\ \A u \in Threads : state'[u] = IF u = t THEN "READY" ELSE state[u]
  BY <1>1, ZenonT(30) DEF State
<1>5. \A u \in Threads : state'[u] = "READY" <=> InQueue(queue', u)
  BY <1>1, <1>3, <1>4, SMTT(30)
<1>6. \A u \in Threads : state'[u] = "RUNNING" <=> u = current \/ u = Boot
  BY <1>1, <1>2, <1>4, ZenonT(30)
<1>7. \A u \in Threads : state'[u] # "NEW" => magic[u]
  BY SMTT(30), <1>1, <1>4
<1>8. IInv'
  <2>1. TypeOK'
    BY <1>1, <1>3, <1>4, TypeNext, ZenonT(30)
  <2>2. ReadyQueueExact'
    BY <1>3, <1>5, <1>6, <1>7, QueueNext, ZenonT(30)
  <2>3. ContextsFilled'
    BY <1>1, FilledNext, ZenonT(30)
  <2>. QED
    BY <2>1, <2>2, <2>3, ZenonT(30) DEF IInv
<1>9. t \in parked /\ parked' = parked \ {t}
  BY <1>1, <1>4, SMTT(30) DEF parked
<1>. QED
  BY <1>8, <1>9, Zenon DEF RR!Admit

\* mcsos_sched_enqueue and mcsos_thread_mark_ready admit the thread or fail.
LEMMA EnqueueStep ==
  ASSUME IInv, NEW t \in Threads, EnqueueThread(t) \/ MarkReady(t)
  PROVE  /\ IInv'
         /\ RR!Admit(t) \/ UNCHANGED <<current, queue, parked>>
         /\ UNCHANGED current
<1>1. \/ /\ magic[t] /\ state[t] \in {"NEW", "BLOCKED"}
         /\ state' = [state EXCEPT ![t] = "READY"] /\ rq' = Enqueued(rq, t)
         /\ rc' = "OK"
         /\ UNCHANGED <<magic, context, current>>
      \/ /\ rc' \in {"EINVAL", "ESTATE"}
         /\ UNCHANGED <<magic, state, context, rq, current>>
  BY ZenonT(30) DEF EnqueueThread, MarkReady, mcsos_thread_mark_ready, mcsos_sched_enqueue, Fails
<1>2. queue' = IF rc' = "OK" THEN Append(queue, t) ELSE queue
  BY ZenonT(30) DEF EnqueueThread, MarkReady, Admitted
<1>3. CASE rc' = "OK"
  <2>1. /\ magic[t] /\ state[t] \in {"NEW", "BLOCKED"}
        /\ state' = [state EXCEPT ![t] = "READY"] /\ rq' = Enqueued(rq, t)
        /\ UNCHANGED <<magic, context, current>>
    BY <1>1, <1>3, ZenonT(30)
  <2>. QED
    BY ZenonT(30), <1>2, <1>3, <2>1, AdmitStep
<1>4. CASE rc' # "OK"
  <2>1. /\ rc' \in {"EINVAL", "ESTATE"}
        /\ UNCHANGED <<magic, state, context, rq, current, queue>>
    BY <1>1, <1>2, <1>4, ZenonT(30)
  <2>. QED
    BY <2>1, FailStep, Zenon
<1>. QED
  BY <1>3, <1>4, ZenonT(30)

\* mcsos_thread_prepare of an object never prepared before: it is NEW, in no
\* list, and stays parked.
LEMMA PrepareStep ==
  ASSUME IInv, NEW t \in Threads, NEW args \in StackArgs, Prepare(t, args)
  PROVE  IInv' /\ UNCHANGED <<current, queue, parked>>
<1>1. /\ magic \in [Threads -> BOOLEAN]
      /\ state \in [Threads -> State]
      /\ context \in [Threads -> {"zero", "entry", "saved"}]
      /\ rq \in RQ /\ Represents(rq, queue)
      /\ current \in Threads /\ queue \in Seq(Threads)
      /\ \A u \in Threads : state[u] = "READY" <=> InQueue(queue, u)
      /\ \A u \in Threads : state[u] = "RUNNING" <=> u = current \/ u = Boot
      /\ \A u \in Threads : state[u] # "NEW" => magic[u]
      /\ \A u \in Threads : magic[u] /\ u # Boot => context[u] # "zero"
      /\ current # Boot => context[Boot] # "zero"
  BY IInvFacts, Zenon
<1>2. CASE args = "good"
  <2>1. /\ ~magic[t]
        /\ magic' = [magic EXCEPT ![t] = TRUE]
        /\ state' = [state EXCEPT ![t] = "NEW"]
        /\ context' = [context EXCEPT ![t] = "entry"]
        /\ rq' = [rq EXCEPT !.next[t] = NULL]
        /\ rc' = "OK"
        /\ UNCHANGED <<current, queue>>
    BY <1>2, ZenonT(30) DEF Prepare, mcsos_thread_prepare
  <2>2. state[t] = "NEW" /\ ~InQueue(queue, t)
    BY <1>1, <2>1, ZenonT(30)
  <2>3. state' = state
    BY <1>1, <2>1, <2>2, ZenonT(30)
  <2>4. rq' \in RQ /\ Represents(rq', queue')
    <3>1. \A i \in 1 .. Len(queue) : queue[i] \in Threads /\ queue[i] # t
      BY <1>1, <2>2, SMTT(30) DEF InQueue
    <3>2. /\ rq' \in RQ
          /\ rq'.head = rq.head /\ rq'.tail = rq.tail /\ rq'.count = rq.count
          /\ \A u \in Threads : u # t => rq'.next[u] = rq.next[u]
      <4>1. /\ rq.head \in Threads \cup {NULL} /\ rq.tail \in Threads \cup {NULL}
            /\ rq.next \in [Threads -> Threads \cup {NULL}] /\ rq.count \in Nat
            /\ rq = [head |-> rq.head, tail |-> rq.tail, next |-> rq.next, count |-> rq.count]
        BY <1>1, Zenon DEF RQ
      <4>2. rq' = [head |-> rq.head, tail |-> rq.tail,
                   next |-> [rq.next EXCEPT ![t] = NULL], count |-> rq.count]
        BY <2>1, <4>1, Zenon
      <4>. QED
        BY <4>1, <4>2, ZenonT(30) DEF RQ
    <3>. QED
      BY <1>1, <2>1, <3>1, <3>2, SMTT(30) DEF Represents
  <2>5. /\ magic' \in [Threads -> BOOLEAN]
        /\ \A u \in Threads : magic'[u] <=> magic[u] \/ u = t
    BY <1>1, <2>1, ZenonT(30)
  <2>6. /\ context' \in [Threads -> {"zero", "entry", "saved"}]
        /\ context'[t] = "entry"
        /\ \A u \in Threads : u # t => context'[u] = context[u]
    BY <1>1, <2>1, ZenonT(30)
  <2>7. \A u \in Threads : state'[u] # "NEW" => magic'[u]
    BY <1>1, <2>3, <2>5, ZenonT(30)
  <2>8. \A u \in Threads : magic'[u] /\ u # Boot => context'[u] # "zero"
    BY <1>1, <2>5, <2>6, ZenonT(30)
  <2>9. current # Boot => context'[Boot] # "zero"
    BY <1>1, <2>6, ZenonT(30)
  <2>10. IInv'
    <3>1. TypeOK'
      BY <1>1, <2>1, <2>3, <2>4, <2>5, <2>6, TypeNext, SMTT(30)
    <3>2. ReadyQueueExact'
      BY <1>1, <2>1, <2>3, <2>4, <2>7, QueueNext, SMTT(30)
    <3>3. ContextsFilled'
      BY <2>1, <2>8, <2>9, FilledNext, ZenonT(30)
    <3>. QED
      BY <3>1, <3>2, <3>3, ZenonT(30) DEF IInv
  <2>. QED
    BY <2>1, <2>3, <2>10, ZenonT(30) DEF parked
<1>3. CASE args # "good"
  <2>1. /\ rc' \in {"EINVAL", "ESTACK"}
        /\ UNCHANGED <<magic, state, context, rq, current, queue>>
    BY <1>3, ZenonT(30) DEF Prepare, mcsos_thread_prepare, Fails
  <2>. QED
    BY <2>1, FailStep, Zenon
<1>. QED
  BY <1>2, <1>3, ZenonT(30)

-----------------------------------------------------------------------------
\* Every step of the scheduler keeps the invariant, loads only a filled context
\* and is a step of the round robin or leaves it alone.
LEMMA NextStep ==
  ASSUME IInv, [HNext]_hvars
  PROVE  /\ IInv'
         /\ RR!Next \/ UNCHANGED <<current, queue, parked>>
         /\ current' # current => context[current'] # "zero"
<1>1. CASE UNCHANGED hvars
  <2>1. UNCHANGED <<magic, state, context, rq, current, queue, rc>>
    BY <1>1, Zenon DEF hvars, vars
  <2>2. rc \in {"OK", "EINVAL", "ESTATE", "ESTACK"}
    BY Zenon DEF IInv, TypeOK
  <2>. QED
    BY <2>1, <2>2, FailStep, Zenon
<1>2. ASSUME NEW t \in Threads, NEW args \in StackArgs, Prepare(t, args)
      PROVE  IInv' /\ UNCHANGED <<current, queue, parked>>
  BY <1>2, PrepareStep, Zenon
<1>3. ASSUME NEW t \in Threads, EnqueueThread(t) \/ MarkReady(t)
      PROVE  IInv' /\ (RR!Next \/ UNCHANGED <<current, queue, parked>>) /\ UNCHANGED current
  BY <1>3, EnqueueStep, Zenon DEF RR!Next
<1>4. CASE Yield
  BY <1>4, YieldStep, ZenonT(30) DEF RR!Next
<1>5. CASE Tick
  <2>1. UNCHANGED <<magic, state, context, rq, current, queue>> /\ rc' = "OK"
    BY <1>5, Zenon DEF Tick, mcsos_sched_tick
  <2>. QED
    BY <2>1, FailStep, ZenonT(30)
<1>6. CASE BlockCurrent
  BY <1>6, BlockStep, Zenon DEF RR!Next
<1>. QED
  BY <1>1, <1>2, <1>3, <1>4, <1>5, <1>6, ZenonT(30) DEF HNext

\* For any set of threads and any sequence of calls, the linked ready list is
\* the queue of the enqueued threads and every thread is where its state says.
THEOREM SchedulerQueueExact == HSpec => [](TypeOK /\ ReadyQueueExact)
<1>1. IInv /\ [HNext]_hvars => IInv'
  BY NextStep, Zenon
<1>2. IInv => TypeOK /\ ReadyQueueExact
  BY Zenon DEF IInv
<1>. QED
  BY InitIInv, <1>1, <1>2, PTL DEF HSpec

\* The scheduler implements the abstract round-robin queue.
THEOREM SchedulerRefinesRoundRobin == HSpec => RefinesRoundRobin
<1>1. HInit => RR!Init
  <2>. SUFFICES ASSUME HInit PROVE RR!Init
    BY Zenon
  <2>1. state = [t \in Threads |-> IF t = Boot THEN "RUNNING" ELSE "NEW"]
    BY Zenon DEF HInit, Init
  <2>2. parked = Threads \ {Boot}
    BY <2>1, ZenonT(30) DEF parked
  <2>. QED
    BY <2>2, ZenonT(30) DEF HInit, Init, RR!Init
<1>2. IInv /\ [HNext]_hvars => IInv'
  BY NextStep, Zenon
<1>3. IInv /\ [HNext]_hvars => [RR!Next]_<<current, queue, parked>>
  BY NextStep, ZenonT(30)
<1>. QED
  BY InitIInv, <1>1, <1>2, <1>3, PTL DEF HSpec, RefinesRoundRobin, RR!Spec

-----------------------------------------------------------------------------
(* The threads.                                                            *)

\* Every step keeps the invariants of the scheduler and of the registers.
LEMMA TNextStep ==
  ASSUME IInv, CInv, [TNext]_tvars
  PROVE  IInv' /\ CInv' /\ Resumes
<1>1. IInv' /\ (current' # current => context[current'] # "zero")
  BY TNextIsHNext, NextStep, ZenonT(30)
<1>2. ThreadsOK
  BY IInvFacts, ZenonT(30) DEF ThreadsOK
<1>3. current' \in Threads
  BY <1>1, Zenon DEF IInv, TypeOK
<1>. QED
  BY <1>1, <1>2, <1>3, TNextCInv, ZenonT(30)

\* Every new thread starts inside its own stack with an aligned stack pointer,
\* whatever base and size mcsos_thread_prepare was called with.
THEOREM ThreadEntryStackSound == TSpec => []EntryStackSound
<1>1. TInit => IInv /\ CInv
  BY InitIInv, InitCInv, ZenonT(30) DEF TInit
<1>2. IInv /\ CInv /\ [TNext]_tvars => IInv' /\ CInv'
  BY TNextStep, ZenonT(30)
<1>. QED
  BY <1>1, <1>2, EntriesSound, PTL DEF TSpec

\* A switch gives a thread back exactly the registers it was left with, or
\* starts it in the trampoline with empty ones.
THEOREM ThreadResumesExactly == TSpec => ResumesExactly
<1>1. TInit => IInv /\ CInv
  BY InitIInv, InitCInv, Zenon DEF TInit
<1>2. IInv /\ CInv /\ [TNext]_tvars => IInv' /\ CInv'
  BY TNextStep, Zenon
<1>3. IInv /\ CInv /\ [TNext]_tvars =>
        [current' # current =>
           \/ context[current'] = "saved" /\ cpu' = kept[current']
           \/ /\ context[current'] = "entry"
              /\ cpu'["rip"] = Trampoline
              /\ \A r \in Registers \ {"rip", "rsp"} : cpu'[r] = Zero]_tvars
  BY TNextStep, Zenon DEF Resumes
<1>. QED
  BY <1>1, <1>2, <1>3, PTL DEF TSpec, ResumesExactly

-----------------------------------------------------------------------------
(* The walks of the ready list, also when callers have broken it.          *)

\* What the walks rest on of numbers and of counting: a least element, the size
\* of an interval, and that a list without repetition is no longer than Threads.
Counting ==
  /\ \A S \in SUBSET Nat : S # {} => \E m \in S : \A k \in S : m <= k
  /\ \A k \in Nat : Cardinality(0 .. k - 1) = k
  /\ Cardinality(Threads) \in Nat
  /\ \A k \in Nat : \A s \in [1 .. k -> Threads] :
        (\A i, j \in 1 .. k : s[i] = s[j] => i = j) => k <= Cardinality(Threads)

\* Induction up to n: a set that has 0 and, with k below n, also k + 1.
LEMMA UpTo ==
  ASSUME Counting, NEW n \in Nat, NEW S, 0 \in S, \A k \in 0 .. n - 1 : k \in S => k + 1 \in S
  PROVE  0 .. n \subseteq S
<1>. SUFFICES ASSUME NEW x \in 0 .. n, x \notin S PROVE FALSE
  BY Zenon
<1>. DEFINE T == {k \in 0 .. n : k \notin S}
<1>1. T \in SUBSET Nat /\ T # {}
  OBVIOUS
<1>2. PICK m \in T : \A k \in T : m <= k
  BY <1>1, Zenon DEF Counting
<1>3. m \in 0 .. n /\ m \notin S /\ m # 0
  BY <1>2, ZenonT(30)
<1>4. m - 1 \in 0 .. n - 1 /\ m - 1 \in 0 .. n /\ ~(m <= m - 1) /\ m - 1 + 1 = m
  BY <1>3, SMTT(30)
<1>5. m - 1 \in S
  BY <1>2, <1>4, ZenonT(30)
<1>. QED
  BY <1>3, <1>4, <1>5, ZenonT(30)

\* f is the cursor of a walk of n steps.
IsCursor(n, f) ==
  f = [i \in 0 .. n |-> IF i = 0 THEN rq.head
                        ELSE IF f[i - 1] = NULL THEN NULL ELSE rq.next[f[i - 1]]]

\* A walk of one step more.
LEMMA CursorNext ==
  ASSUME NEW n \in Nat, NEW f, IsCursor(n, f)
  PROVE  \E g : IsCursor(n + 1, g)
<1>. DEFINE g == [i \in 0 .. n + 1 |-> IF i <= n THEN f[i]
                                      ELSE IF f[n] = NULL THEN NULL ELSE rq.next[f[n]]]
            h == [i \in 0 .. n + 1 |-> IF i = 0 THEN rq.head
                                      ELSE IF g[i - 1] = NULL THEN NULL ELSE rq.next[g[i - 1]]]
<1>1. ASSUME NEW i \in 0 .. n + 1 PROVE g[i] = h[i]
  <2>1. CASE i = 0
    <3>1. 0 \in 0 .. n /\ 0 \in 0 .. n + 1 /\ 0 <= n
      BY SMTT(30)
    <3>2. g[0] = f[0] /\ h[0] = rq.head
      BY <3>1, ZenonT(30)
    <3>3. f[0] = rq.head
      BY <3>1, ZenonT(30) DEF IsCursor
    <3>. QED
      BY <2>1, <3>2, <3>3, ZenonT(30)
  <2>2. CASE i # 0 /\ i <= n
    <3>1. i \in 0 .. n /\ i - 1 \in 0 .. n + 1 /\ i - 1 <= n
      BY <2>2, SMTT(30)
    <3>2. g[i] = f[i] /\ g[i - 1] = f[i - 1]
      BY <2>2, <3>1, ZenonT(30)
    <3>3. f[i] = IF f[i - 1] = NULL THEN NULL ELSE rq.next[f[i - 1]]
      BY <2>2, <3>1, ZenonT(30) DEF IsCursor
    <3>4. h[i] = IF g[i - 1] = NULL THEN NULL ELSE rq.next[g[i - 1]]
      BY <2>2, ZenonT(30)
    <3>. QED
      BY <3>2, <3>3, <3>4, ZenonT(30)
  <2>3. CASE i = n + 1
    <3>1. i # 0 /\ i - 1 = n /\ n \in 0 .. n + 1 /\ n <= n /\ ~(i <= n)
      BY <2>3, SMTT(30)
    <3>2. g[n] = f[n]
      BY <3>1, Zenon
    <3>3. g[i] = IF f[n] = NULL THEN NULL ELSE rq.next[f[n]]
      BY <3>1, Zenon
    <3>4. h[i] = IF g[n] = NULL THEN NULL ELSE rq.next[g[n]]
      BY <3>1, ZenonT(30)
    <3>. QED
      BY <3>2, <3>3, <3>4, ZenonT(30)
  <2>4. i <= n \/ i = n + 1
    OBVIOUS
  <2>. QED
    BY <2>1, <2>2, <2>3, <2>4, ZenonT(30)
<1>2. g = h
  BY <1>1, Zenon
<1>3. IsCursor(n + 1, g)
  BY <1>2, Zenon DEF IsCursor
<1>. QED
  BY <1>3, Zenon

\* A walk goes on with the next fields until it meets NULL.
LEMMA CursorIs ==
  ASSUME Counting, NEW n \in Nat
  PROVE  /\ Cursor(n)[0] = rq.head
         /\ \A i \in 1 .. n : Cursor(n)[i] = IF Cursor(n)[i - 1] = NULL THEN NULL
                                              ELSE rq.next[Cursor(n)[i - 1]]
<1>. DEFINE S == {k \in Nat : \E f : IsCursor(k, f)}
<1>1. 0 \in S
  <2>1. [i \in 0 .. 0 |-> rq.head] =
           [i \in 0 .. 0 |-> IF i = 0 THEN rq.head
              ELSE IF [j \in 0 .. 0 |-> rq.head][i - 1] = NULL THEN NULL
                   ELSE rq.next[[j \in 0 .. 0 |-> rq.head][i - 1]]]
    OBVIOUS
  <2>2. IsCursor(0, [i \in 0 .. 0 |-> rq.head])
    BY <2>1, ZenonT(30) DEF IsCursor
  <2>. QED
    BY <2>2, ZenonT(30)
<1>2. \A k \in 0 .. n - 1 : k \in S => k + 1 \in S
  <2>. TAKE k \in 0 .. n - 1
  <2>1. k \in Nat /\ k + 1 \in Nat
    OBVIOUS
  <2>. QED
    BY <2>1, CursorNext, ZenonT(30)
<1>3. n \in S
  <2>1. 0 .. n \subseteq S
    BY <1>1, <1>2, UpTo, ZenonT(30)
  <2>2. n \in 0 .. n
    BY SMTT(30)
  <2>. QED
    BY <2>1, <2>2, ZenonT(30)
<1>4. IsCursor(n, Cursor(n))
  BY <1>3, ZenonT(30) DEF Cursor, IsCursor
<1>5. /\ 0 \in 0 .. n
      /\ \A i \in 1 .. n : i \in 0 .. n /\ i # 0
  OBVIOUS
<1>. HIDE DEF S
<1>. QED
  BY <1>4, <1>5, ZenonT(30) DEF IsCursor

\* The cursor is a thread or NULL, and stays NULL.
LEMMA CursorTyped ==
  ASSUME Counting, rq \in RQ, NEW n \in Nat
  PROVE  /\ \A i \in 0 .. n : Cursor(n)[i] \in Threads \cup {NULL}
         /\ \A i \in 0 .. n : Cursor(n)[i] = NULL => \A j \in i .. n : Cursor(n)[j] = NULL
<1>. DEFINE c == Cursor(n)
<1>1. /\ c[0] = rq.head
      /\ \A i \in 1 .. n : c[i] = IF c[i - 1] = NULL THEN NULL ELSE rq.next[c[i - 1]]
  BY CursorIs, Zenon
<1>. HIDE DEF c
<1>2. rq.head \in Threads \cup {NULL} /\ rq.next \in [Threads -> Threads \cup {NULL}]
  BY Zenon DEF RQ
<1>3. \A i \in 0 .. n : c[i] \in Threads \cup {NULL}
  <2>. DEFINE S == {k \in Nat : c[k] \in Threads \cup {NULL}}
  <2>1. 0 \in S
    BY <1>1, <1>2, ZenonT(30)
  <2>2. ASSUME NEW k \in 0 .. n - 1, k \in S PROVE k + 1 \in S
    <3>1. k + 1 \in 1 .. n /\ k + 1 - 1 = k /\ k + 1 \in Nat
      BY SMTT(30)
    <3>2. c[k + 1] = IF c[k] = NULL THEN NULL ELSE rq.next[c[k]]
      BY <1>1, <3>1, SMTT(30)
    <3>. QED
      BY <1>2, <2>2, <3>1, <3>2, ZenonT(30)
  <2>3. 0 .. n \subseteq S
    BY <2>1, <2>2, UpTo, ZenonT(30)
  <2>. QED
    BY <2>3, ZenonT(30)
<1>4. ASSUME NEW i \in 0 .. n, c[i] = NULL, NEW j \in i .. n PROVE c[j] = NULL
  <2>. DEFINE S == {k \in Nat : i <= k => c[k] = NULL}
  <2>1. 0 \in S
    BY <1>4, SMTT(30)
  <2>2. ASSUME NEW k \in 0 .. n - 1, k \in S PROVE k + 1 \in S
    <3>1. k + 1 \in 1 .. n /\ k + 1 - 1 = k /\ k + 1 \in Nat
      BY SMTT(30)
    <3>2. c[k + 1] = IF c[k] = NULL THEN NULL ELSE rq.next[c[k]]
      BY <1>1, <3>1, SMTT(30)
    <3>3. i <= k + 1 => i <= k \/ i = k + 1
      OBVIOUS
    <3>. QED
      BY <1>4, <2>2, <3>1, <3>2, <3>3, ZenonT(30)
  <2>3. 0 .. n \subseteq S
    BY <2>1, <2>2, UpTo, ZenonT(30)
  <2>4. j \in 0 .. n /\ i <= j
    OBVIOUS
  <2>. QED
    BY <2>3, <2>4, ZenonT(30)
<1>. QED
  BY <1>3, <1>4, ZenonT(30) DEF c

\* A walk visits its first m positions, for some m.
LEMMA Visited ==
  ASSUME Counting, rq \in RQ, NEW n \in Nat
  PROVE  \E m \in 0 .. n + 1 :
           /\ {i \in 0 .. n : Cursor(n)[i] # NULL} = 0 .. m - 1
           /\ Cardinality({i \in 0 .. n : Cursor(n)[i] # NULL}) = m
<1>. DEFINE c == Cursor(n)
            V == {i \in 0 .. n : c[i] # NULL}
            E == {i \in 0 .. n : c[i] = NULL}
<1>1. \A i \in 0 .. n : c[i] = NULL => \A j \in i .. n : c[j] = NULL
  BY CursorTyped, Zenon
<1>. HIDE DEF c
<1>2. ASSUME NEW m \in 0 .. n + 1, V = 0 .. m - 1 PROVE Cardinality(V) = m
  <2>1. Cardinality(0 .. m - 1) = m
    BY DEF Counting
  <2>. QED
    BY <1>2, <2>1, ZenonT(30)
<1>3. \E m \in 0 .. n + 1 : V = 0 .. m - 1
  <2>1. CASE E = {}
    <3>1. V = 0 .. (n + 1) - 1 /\ n + 1 \in 0 .. n + 1
      BY <2>1, SMTT(30)
    <3>. QED
      BY <3>1, ZenonT(30)
  <2>2. CASE E # {}
    <3>1. E \in SUBSET Nat
      OBVIOUS
    <3>2. PICK m \in E : \A k \in E : m <= k
      BY <2>2, <3>1, ZenonT(30) DEF Counting
    <3>3. ASSUME NEW i \in 0 .. n PROVE i \in V <=> i \in 0 .. m - 1
      <4>1. CASE i < m
        BY <3>2, <4>1, SMTT(30)
      <4>2. CASE i >= m
        <5>1. i \in m .. n /\ i \notin 0 .. m - 1
          BY <3>2, <4>2, SMTT(30)
        <5>2. c[i] = NULL
          BY <1>1, <3>2, <5>1, ZenonT(30)
        <5>. QED
          BY <5>1, <5>2, ZenonT(30)
      <4>. QED
        BY <3>2, <4>1, <4>2, SMTT(30)
    <3>4. 0 .. m - 1 \subseteq 0 .. n /\ m \in 0 .. n + 1
      BY <3>2, SMTT(30)
    <3>5. V = 0 .. m - 1
      BY <3>3, <3>4, ZenonT(30)
    <3>. QED
      BY <3>4, <3>5, ZenonT(30)
  <2>. QED
    BY <2>1, <2>2, ZenonT(30)
<1>. QED
  BY <1>2, <1>3, ZenonT(30) DEF c

\* A walk of a proper queue visits its threads in order.
LEMMA WalkOfQueue ==
  ASSUME Counting, rq \in RQ, NEW n \in Nat, NEW K \in Nat, NEW s \in [1 .. K -> Threads],
         Len(s) = K, Represents(rq, s)
  PROVE  \A i \in 0 .. n : Cursor(n)[i] = IF i < K THEN s[i + 1] ELSE NULL
<1>. DEFINE c == Cursor(n)
            S == {k \in Nat : c[k] = IF k < K THEN s[k + 1] ELSE NULL}
<1>1. /\ c[0] = rq.head
      /\ \A i \in 1 .. n : c[i] = IF c[i - 1] = NULL THEN NULL ELSE rq.next[c[i - 1]]
  BY CursorIs, ZenonT(30)
<1>. HIDE DEF c
<1>2. /\ rq.head = IF s = <<>> THEN NULL ELSE s[1]
      /\ \A i \in 1 .. K : rq.next[s[i]] = IF i = K THEN NULL ELSE s[i + 1]
  BY Zenon DEF Represents
<1>3. s = <<>> <=> K = 0
  BY SMTT(30)
<1>4. 0 \in S
  BY <1>1, <1>2, <1>3, SMTT(30)
<1>5. ASSUME NEW k \in 0 .. n - 1, k \in S PROVE k + 1 \in S
  <2>1. k + 1 \in 1 .. n /\ k + 1 - 1 = k /\ k + 1 \in Nat
    BY SMTT(30)
  <2>2. c[k + 1] = IF c[k] = NULL THEN NULL ELSE rq.next[c[k]]
    BY <1>1, <2>1, SMTT(30)
  <2>3. CASE k < K
    <3>1. k + 1 \in 1 .. K /\ (k + 1 = K <=> ~(k + 1 < K))
      BY <2>3, SMTT(30)
    <3>2. c[k] = s[k + 1] /\ s[k + 1] # NULL
      BY <1>5, <2>3, <3>1, ZenonT(30)
    <3>3. rq.next[s[k + 1]] = IF k + 1 = K THEN NULL ELSE s[k + 1 + 1]
      BY <1>2, <3>1, ZenonT(30)
    <3>4. c[k + 1] = IF k + 1 < K THEN s[k + 1 + 1] ELSE NULL
      BY <2>2, <3>1, <3>2, <3>3, ZenonT(30)
    <3>. QED
      BY <2>1, <3>4, ZenonT(30)
  <2>4. CASE ~(k < K)
    <3>1. c[k] = NULL /\ ~(k + 1 < K)
      BY <1>5, <2>4, SMTT(30)
    <3>. QED
      BY <2>1, <2>2, <3>1, ZenonT(30)
  <2>. QED
    BY <2>3, <2>4, ZenonT(30)
<1>6. 0 .. n \subseteq S
  BY <1>4, <1>5, UpTo, ZenonT(30)
<1>. QED
  BY <1>6, Zenon DEF c

\* Where a walk meets the same thread twice, it goes on alike from both places.
LEMMA WalkShift ==
  ASSUME Counting, rq \in RQ, NEW n \in Nat, NEW a \in 0 .. n, NEW b \in 0 .. n,
         a <= b, Cursor(n)[a] = Cursor(n)[b], NEW d \in 0 .. n - b
  PROVE  Cursor(n)[a + d] = Cursor(n)[b + d]
<1>. DEFINE c == Cursor(n)
            S == {k \in Nat : c[a + k] = c[b + k]}
<1>1. \A i \in 1 .. n : c[i] = IF c[i - 1] = NULL THEN NULL ELSE rq.next[c[i - 1]]
  BY CursorIs, ZenonT(30)
<1>2. c[a] = c[b]
  BY Zenon
<1>. HIDE DEF c
<1>3. 0 \in S
  BY <1>2, SMTT(30)
<1>4. ASSUME NEW k \in 0 .. (n - b) - 1, k \in S PROVE k + 1 \in S
  <2>1. /\ a + (k + 1) \in 1 .. n /\ b + (k + 1) \in 1 .. n
        /\ a + (k + 1) - 1 = a + k /\ b + (k + 1) - 1 = b + k /\ k + 1 \in Nat
    BY SMTT(30)
  <2>2. /\ c[a + (k + 1)] = IF c[a + k] = NULL THEN NULL ELSE rq.next[c[a + k]]
        /\ c[b + (k + 1)] = IF c[b + k] = NULL THEN NULL ELSE rq.next[c[b + k]]
    BY <1>1, <2>1, SMTT(30)
  <2>. QED
    BY <1>4, <2>1, <2>2, ZenonT(30)
<1>5. n - b \in Nat
  BY SMTT(30)
<1>6. 0 .. n - b \subseteq S
  BY <1>3, <1>4, <1>5, UpTo, ZenonT(30)
<1>. QED
  BY <1>6, ZenonT(30) DEF c

\* The threads that may wait in the list.
Waiting == {t \in Threads : magic[t] /\ state[t] = "READY" /\ t # current}

\* The list is a proper queue of waiting threads.
ProperList(s, k) ==
  k \in 0 .. Cardinality(Threads) /\ s \in [1 .. k -> Waiting] /\ Represents(rq, s)

\* What validate accepts is a proper queue.
LEMMA AcceptsOnlyProper ==
  ASSUME Counting, TypeOK, mcsos_sched_validate = "OK"
  PROVE  \E s, k : ProperList(s, k)
<1>. DEFINE K == rq.count
            n == K + 1
            c == Cursor(n)
            V == {i \in 0 .. n : c[i] # NULL}
            s == [i \in 1 .. K |-> c[i - 1]]
<1>1. rq \in RQ /\ K \in Nat
  BY ZenonT(30) DEF TypeOK, RQ
<1>2. n \in Nat
  BY <1>1, SMTT(30)
<1>3. /\ \A i \in V : ~Corrupt(c[i])
      /\ rq.tail = IF Cardinality(V) = 0 THEN NULL ELSE c[Cardinality(V) - 1]
      /\ Cardinality(V) = K
  BY Zenon DEF mcsos_sched_validate
<1>4. V = 0 .. K - 1
  <2>1. PICK m \in 0 .. n + 1 : V = 0 .. m - 1 /\ Cardinality(V) = m
    BY <1>1, <1>2, Visited, ZenonT(30)
  <2>. QED
    BY <1>3, <2>1, ZenonT(30)
<1>5. /\ \A i \in 0 .. n : c[i] \in Threads \cup {NULL}
      /\ c[0] = rq.head
      /\ \A i \in 1 .. n : c[i] = IF c[i - 1] = NULL THEN NULL ELSE rq.next[c[i - 1]]
  BY <1>1, <1>2, CursorTyped, CursorIs, ZenonT(30)
<1>6. \A a, b \in 0 .. n : a <= b /\ c[a] = c[b] => \A d \in 0 .. n - b : c[a + d] = c[b + d]
  BY <1>1, <1>2, WalkShift, ZenonT(30)
<1>. HIDE DEF c, K
<1>7. \A i \in 0 .. n : c[i] # NULL <=> i \in 0 .. K - 1
  BY <1>4, ZenonT(30)
<1>8. ASSUME NEW i \in 1 .. K
      PROVE  s[i] = c[i - 1] /\ s[i] \in Waiting /\ s[i] # NULL
  <2>1. i - 1 \in 0 .. K - 1 /\ i - 1 \in 0 .. n
    BY <1>1, SMTT(30)
  <2>2. c[i - 1] # NULL /\ c[i - 1] \in Threads /\ ~Corrupt(c[i - 1])
    BY <1>3, <1>5, <1>7, <2>1, ZenonT(30)
  <2>. QED
    BY <2>2, ZenonT(30) DEF Waiting, Corrupt
<1>9. s \in [1 .. K -> Waiting] /\ Len(s) = K
  BY <1>1, <1>8, SMTT(30)
<1>10. ASSUME NEW a \in 0 .. K - 1, NEW b \in 0 .. K - 1, a < b PROVE c[a] # c[b]
  <2>1. /\ a \in 0 .. n /\ b \in 0 .. n /\ a <= b /\ K - b \in 0 .. n - b
        /\ a + (K - b) \in 0 .. K - 1 /\ b + (K - b) = K
        /\ a + (K - b) \in 0 .. n /\ K \in 0 .. n /\ K \notin 0 .. K - 1
    BY <1>1, <1>10, SMTT(30)
  <2>2. c[a + (K - b)] # NULL /\ c[K] = NULL
    BY <1>7, <2>1, ZenonT(30)
  <2>3. c[a] = c[b] => c[a + (K - b)] = c[b + (K - b)]
    BY <1>6, <2>1, ZenonT(30)
  <2>. QED
    BY <2>1, <2>2, <2>3, ZenonT(50)
<1>11. ASSUME NEW i \in 1 .. K, NEW j \in 1 .. K, s[i] = s[j] PROVE i = j
  <2>1. i - 1 \in 0 .. K - 1 /\ j - 1 \in 0 .. K - 1
    BY <1>1, SMTT(30)
  <2>2. c[i - 1] = c[j - 1]
    BY <1>8, <1>11, ZenonT(30)
  <2>3. ~(i - 1 < j - 1) /\ ~(j - 1 < i - 1)
    BY <1>10, <2>1, <2>2, ZenonT(30)
  <2>. QED
    BY <1>1, <2>3, SMTT(30)
<1>12. K \in 0 .. Cardinality(Threads)
  <2>1. s \in [1 .. K -> Threads]
    BY <1>9, ZenonT(30) DEF Waiting
  <2>. HIDE DEF s
  <2>2. K <= Cardinality(Threads)
    BY <1>1, <1>11, <2>1, ZenonT(30) DEF Counting
  <2>. QED
    BY <1>1, <2>2, SMTT(30) DEF Counting
<1>13. ASSUME NEW i \in 1 .. K
       PROVE  rq.next[s[i]] = IF i = K THEN NULL ELSE s[i + 1]
  <2>1. i \in 1 .. n /\ i \in 0 .. n
    BY <1>1, SMTT(30)
  <2>2. c[i] = rq.next[s[i]]
    BY <1>5, <1>8, <2>1, ZenonT(50)
  <2>3. CASE i = K
    BY <1>1, <1>7, <2>1, <2>2, <2>3, SMTT(30)
  <2>4. CASE i # K
    <3>1. i + 1 \in 1 .. K /\ i + 1 - 1 = i
      BY <1>1, <2>4, SMTT(30)
    <3>. QED
      BY <1>8, <2>2, <2>4, <3>1, SMTT(30)
  <2>. QED
    BY <2>3, <2>4, ZenonT(30)
<1>14. rq.head = IF s = <<>> THEN NULL ELSE s[1]
  <2>1. CASE K = 0
    BY <1>1, <1>5, <1>7, <1>9, <2>1, SMTT(30)
  <2>2. CASE K # 0
    <3>1. 1 \in 1 .. K /\ 1 - 1 = 0 /\ s # <<>>
      BY <1>1, <1>9, <2>2, SMTT(30)
    <3>2. s[1] = c[1 - 1]
      BY <1>8, <3>1, ZenonT(30)
    <3>. QED
      BY <1>5, <3>1, <3>2, ZenonT(30)
  <2>. QED
    BY <2>1, <2>2, ZenonT(30)
<1>15. rq.tail = IF s = <<>> THEN NULL ELSE s[K]
  <2>1. CASE K = 0
    BY <1>3, <1>9, <2>1, SMTT(30)
  <2>2. CASE K # 0
    <3>1. K \in 1 .. K /\ s # <<>>
      BY <1>1, <1>9, <2>2, SMTT(30)
    <3>2. s[K] = c[K - 1]
      BY <1>8, <3>1, ZenonT(30)
    <3>. QED
      BY <1>3, <2>2, <3>1, <3>2, ZenonT(30)
  <2>. QED
    BY <2>1, <2>2, ZenonT(30)
<1>16. Represents(rq, s)
  <2>1. rq.count = Len(s)
    BY <1>9, ZenonT(30) DEF K
  <2>. HIDE DEF s
  <2>. QED
    BY <1>9, <1>11, <1>13, <1>14, <1>15, <2>1, ZenonT(30) DEF Represents
<1>. HIDE DEF s
<1>. QED
  BY <1>9, <1>12, <1>16, ZenonT(30) DEF ProperList

\* A walk long enough for a proper queue visits exactly its places.
LEMMA WalkOfProper ==
  ASSUME Counting, TypeOK, NEW s, NEW k, ProperList(s, k), NEW n \in Nat, k <= n
  PROVE  /\ {i \in 0 .. n : Cursor(n)[i] # NULL} = 0 .. k - 1
         /\ Cardinality({i \in 0 .. n : Cursor(n)[i] # NULL}) = k
         /\ \A i \in 0 .. k - 1 : Cursor(n)[i] = s[i + 1] /\ s[i + 1] \in Waiting
<1>. DEFINE c == Cursor(n)
<1>1. k \in Nat /\ s \in [1 .. k -> Waiting] /\ Represents(rq, s)
  <2>1. Cardinality(Threads) \in Nat
    BY ZenonT(30) DEF Counting
  <2>. QED
    BY <2>1, SMTT(30) DEF ProperList
<1>2. s \in [1 .. k -> Threads] /\ Len(s) = k
  BY <1>1, SMTT(30) DEF Waiting
<1>3. rq \in RQ
  BY Zenon DEF TypeOK, RQ
<1>4. \A i \in 0 .. n : c[i] = IF i < k THEN s[i + 1] ELSE NULL
  BY <1>1, <1>2, <1>3, WalkOfQueue, ZenonT(30)
<1>. HIDE DEF c
<1>5. ASSUME NEW i \in 0 .. n PROVE c[i] # NULL <=> i \in 0 .. k - 1
  <2>1. CASE i < k
    <3>1. i + 1 \in 1 .. k /\ i \in 0 .. k - 1
      BY <1>1, <2>1, SMTT(30)
    <3>2. s[i + 1] \in Threads
      BY <1>2, <3>1, ZenonT(30)
    <3>. QED
      BY <1>4, <2>1, <3>1, <3>2, SchedulerAssumption, ZenonT(30)
  <2>2. CASE ~(i < k)
    BY <1>1, <1>4, <2>2, SMTT(30)
  <2>. QED
    BY <2>1, <2>2, ZenonT(30)
<1>6. {i \in 0 .. n : c[i] # NULL} = 0 .. k - 1
  <2>1. 0 .. k - 1 \subseteq 0 .. n
    BY <1>1, SMTT(30)
  <2>. QED
    BY <1>5, <2>1, ZenonT(30)
<1>7. Cardinality(0 .. k - 1) = k
  BY <1>1, ZenonT(30) DEF Counting
<1>8. ASSUME NEW i \in 0 .. k - 1 PROVE c[i] = s[i + 1] /\ s[i + 1] \in Waiting
  <2>1. i \in 0 .. n /\ i < k /\ i + 1 \in 1 .. k
    BY <1>1, SMTT(30)
  <2>. QED
    BY <1>1, <1>4, <2>1, ZenonT(30)
<1>. QED
  BY <1>6, <1>7, <1>8, ZenonT(30) DEF c

\* A proper queue is accepted.
LEMMA AcceptsProper ==
  ASSUME Counting, TypeOK, NEW s, NEW k, ProperList(s, k)
  PROVE  mcsos_sched_validate = "OK"
<1>. DEFINE n == rq.count + 1
            c == Cursor(n)
            V == {i \in 0 .. n : c[i] # NULL}
<1>1. k \in Nat /\ s \in [1 .. k -> Waiting] /\ Represents(rq, s)
  <2>1. Cardinality(Threads) \in Nat
    BY ZenonT(30) DEF Counting
  <2>. QED
    BY <2>1, SMTT(30) DEF ProperList
<1>2. Len(s) = k
  BY <1>1, SMTT(30)
<1>3. /\ rq.count = k
      /\ rq.tail = IF s = <<>> THEN NULL ELSE s[k]
  BY <1>1, <1>2, ZenonT(30) DEF Represents
<1>4. n \in Nat /\ k <= n /\ n \notin 0 .. k - 1 /\ n = k + 1
  BY <1>1, <1>3, SMTT(30)
<1>5. V = 0 .. k - 1 /\ Cardinality(V) = k
      /\ \A i \in 0 .. k - 1 : c[i] = s[i + 1] /\ s[i + 1] \in Waiting
  BY <1>4, WalkOfProper, ZenonT(30)
<1>. HIDE DEF c
<1>6. \A i \in V : ~Corrupt(c[i])
  <2>. SUFFICES ASSUME NEW i \in 0 .. k - 1 PROVE ~Corrupt(c[i])
    BY <1>5, ZenonT(30)
  <2>1. c[i] \in Waiting
    BY <1>5, ZenonT(30)
  <2>. QED
    BY <2>1, ZenonT(30) DEF Waiting, Corrupt
<1>7. (IF Cardinality(V) = 0 THEN NULL ELSE c[Cardinality(V) - 1]) = rq.tail
  <2>1. CASE k = 0
    <3>1. s = <<>>
      BY <1>1, <1>2, <2>1, SMTT(30)
    <3>. QED
      BY <1>3, <1>5, <2>1, <3>1, ZenonT(30)
  <2>2. CASE k # 0
    <3>1. k - 1 \in 0 .. k - 1 /\ k - 1 + 1 = k /\ s # <<>>
      BY <1>1, <1>2, <2>2, SMTT(30)
    <3>2. c[k - 1] = s[k]
      BY <1>5, <3>1, ZenonT(30)
    <3>. QED
      BY <1>3, <1>5, <2>2, <3>1, <3>2, ZenonT(30)
  <2>. QED
    BY <2>1, <2>2, ZenonT(30)
<1>8. n \notin V
  BY <1>4, <1>5, ZenonT(30)
<1>. QED
  BY <1>3, <1>5, <1>6, <1>7, <1>8, ZenonT(30) DEF mcsos_sched_validate, c

\* Of a proper queue, ready_count ends, with runnable_count.
LEMMA CountsProper ==
  ASSUME Counting, TypeOK, NEW s, NEW k, ProperList(s, k)
  PROVE  mcsos_sched_ready_count = rq.count
<1>. DEFINE n == Cardinality(Threads)
            V == {i \in 0 .. n : Cursor(n)[i] # NULL}
<1>1. n \in Nat
  BY ZenonT(30) DEF Counting
<1>. HIDE DEF n
<1>2. k \in 0 .. n /\ s \in [1 .. k -> Waiting] /\ Represents(rq, s)
  BY ZenonT(30) DEF ProperList, n
<1>3. k \in Nat /\ k <= n /\ n \notin 0 .. k - 1 /\ Len(s) = k
  BY <1>1, <1>2, SMTT(30)
<1>4. rq.count = k
  BY <1>2, <1>3, ZenonT(30) DEF Represents
<1>5. V = 0 .. k - 1 /\ Cardinality(V) = k
  BY <1>1, <1>3, WalkOfProper, ZenonT(30)
<1>6. n \notin V
  BY <1>3, <1>5, ZenonT(30)
<1>. QED
  BY <1>4, <1>5, <1>6, ZenonT(30) DEF mcsos_sched_ready_count, n

\* Whatever list the fields hold, the two walks read it exactly.
LEMMA WalksExact == Counting /\ TypeOK => ValidateExact
<1>. SUFFICES ASSUME Counting, TypeOK PROVE ValidateExact
  BY Zenon
<1>. DEFINE ready == UNION {[1 .. n -> Waiting] : n \in 0 .. Cardinality(Threads)}
            proper == \E s \in ready : Represents(rq, s)
<1>1. proper <=> \E s, k : ProperList(s, k)
  BY Zenon DEF ProperList
<1>2. mcsos_sched_validate = "OK" => \E s, k : ProperList(s, k)
  BY AcceptsOnlyProper, ZenonT(30)
<1>3. ASSUME NEW s, NEW k, ProperList(s, k)
      PROVE  mcsos_sched_validate = "OK" /\ mcsos_sched_ready_count = rq.count
  BY <1>3, AcceptsProper, CountsProper, ZenonT(30)
<1>4. /\ (mcsos_sched_validate = "OK") <=> proper
      /\ mcsos_sched_validate = "OK" => mcsos_sched_ready_count = rq.count
  BY <1>1, <1>2, <1>3, ZenonT(30)
<1>. QED
  BY <1>4, ZenonT(30) DEF ValidateExact, Waiting

\* Linking and unlinking keep the fields of the list typed, whatever it is.
LEMMA ListTyped ==
  ASSUME NEW q \in RQ, NEW t \in Threads
  PROVE  Enqueued(q, t) \in RQ /\ Rest(q) \in RQ /\ Picked(q) \in Threads
<1>1. /\ q.head \in Threads \cup {NULL} /\ q.tail \in Threads \cup {NULL}
      /\ q.next \in [Threads -> Threads \cup {NULL}] /\ q.count \in Nat
  BY Zenon DEF RQ
<1>2. Enqueued(q, t) \in RQ
  <2>1. q.count + 1 \in Nat
    BY <1>1, SMTT(30)
  <2>2. [q.next EXCEPT ![t] = NULL] \in [Threads -> Threads \cup {NULL}]
    BY <1>1, ZenonT(30)
  <2>3. [q.next EXCEPT ![t] = NULL, ![q.tail] = t] \in [Threads -> Threads \cup {NULL}]
    BY <1>1, ZenonT(30)
  <2>. QED
    BY <1>1, <2>1, <2>2, <2>3, ZenonT(40) DEF Enqueued, TailAfter, RQ
<1>3. Rest(q) \in RQ
  <2>1. CASE q.head = NULL
    BY <2>1, ZenonT(30) DEF Rest
  <2>2. CASE q.head # NULL
    <3>1. q.head \in Threads /\ q.next[q.head] \in Threads \cup {NULL}
      BY <1>1, <2>2, ZenonT(30)
    <3>2. (IF q.count > 0 THEN q.count - 1 ELSE 0) \in Nat
      BY <1>1, SMTT(30)
    <3>3. [q.next EXCEPT ![q.head] = NULL] \in [Threads -> Threads \cup {NULL}]
      BY <1>1, ZenonT(30)
    <3>. QED
      BY <1>1, <2>2, <3>1, <3>2, <3>3, ZenonT(30) DEF Rest, Dequeued, RQ
  <2>. QED
    BY <2>1, <2>2, ZenonT(30)
<1>4. Picked(q) \in Threads
  BY <1>1, SchedulerAssumption, ZenonT(30) DEF Picked
<1>. QED
  BY <1>2, <1>3, <1>4, ZenonT(30)

\* A yield keeps the types, whatever the list.
LEMMA YieldTyped ==
  ASSUME TypeOK, NEW st \in [Threads -> State], YieldFrom(st)
  PROVE  TypeOK'
<1>1. /\ rq \in RQ /\ magic \in [Threads -> BOOLEAN] /\ current \in Threads
      /\ context \in [Threads -> {"zero", "entry", "saved"}]
  BY Zenon DEF TypeOK, RQ
<1>2. Rest(rq) \in RQ /\ Picked(rq) \in Threads /\ Enqueued(Rest(rq), current) \in RQ
  BY <1>1, ListTyped, ZenonT(30)
<1>3. magic' = magic /\ rc' = "OK"
  BY Zenon DEF YieldFrom
<1>4. "RUNNING" \in State /\ "READY" \in State
  BY ZenonT(30) DEF State
<1>5. CASE Picked(rq) = current
  <2>1. /\ state' = [st EXCEPT ![current] = "RUNNING"] /\ rq' = Rest(rq)
        /\ context' = context /\ current' = current
    BY <1>5, ZenonT(30) DEF YieldFrom
  <2>2. state' \in [Threads -> State]
    BY <1>4, <2>1, ZenonT(30)
  <2>. QED
    BY <1>1, <1>2, <1>3, <2>1, <2>2, TypeNext, ZenonT(30)
<1>6. CASE Picked(rq) # current
  <2>. DEFINE nxt == Picked(rq)
  <2>1. Switch(st, current, nxt)
    BY <1>6, ZenonT(30) DEF YieldFrom
  <2>2. /\ rq' = IF Requeues(st, current) THEN Enqueued(Rest(rq), current) ELSE Rest(rq)
        /\ state' = [st EXCEPT ![current] = IF Requeues(st, current) THEN "READY" ELSE @,
                               ![nxt] = "RUNNING"]
        /\ current' = nxt
        /\ context' = [context EXCEPT ![current] = "saved"]
    BY <2>1, ZenonT(30) DEF Switch, mcsos_context_switch
  <2>3. rq' \in RQ /\ current' \in Threads
    BY <1>2, <2>2, ZenonT(30)
  <2>4. context' \in [Threads -> {"zero", "entry", "saved"}]
    BY <1>1, <2>2, ZenonT(30)
  <2>5. state' \in [Threads -> State]
    <3>. DEFINE v == IF Requeues(st, current) THEN "READY" ELSE st[current]
    <3>1. v \in State
      BY <1>1, <1>4, ZenonT(30)
    <3>2. state' = [[st EXCEPT ![current] = v] EXCEPT ![nxt] = "RUNNING"]
      BY <2>2, Zenon
    <3>. HIDE DEF v
    <3>. QED
      BY <1>1, <1>2, <1>4, <3>1, <3>2, ZenonT(30)
  <2>. QED
    BY <1>1, <1>3, <2>3, <2>4, <2>5, TypeNext, ZenonT(30)
<1>. QED
  BY <1>5, <1>6, ZenonT(30)

\* So does a call that fails, and an enqueue.
LEMMA EnqueueTyped ==
  ASSUME TypeOK, NEW t \in Threads, mcsos_sched_enqueue(t)
  PROVE  TypeOK'
<1>1. /\ rq \in RQ /\ magic \in [Threads -> BOOLEAN] /\ current \in Threads
      /\ context \in [Threads -> {"zero", "entry", "saved"}] /\ state \in [Threads -> State]
  BY ZenonT(30) DEF TypeOK, RQ
<1>2. ASSUME NEW code \in {"EINVAL", "ESTATE"}, Fails(code) PROVE TypeOK'
  BY <1>2, ZenonT(30) DEF Fails, TypeOK
<1>3. CASE /\ state' = [state EXCEPT ![t] = "READY"]
           /\ rq' = Enqueued(rq, t) /\ rc' = "OK"
           /\ UNCHANGED <<magic, context, current>>
  <2>1. rq' \in RQ
    BY <1>1, <1>3, ListTyped, ZenonT(30)
  <2>2. state' \in [Threads -> State]
    BY <1>1, <1>3, ZenonT(30) DEF State
  <2>. QED
    BY <1>1, <1>3, <2>1, <2>2, TypeNext, ZenonT(30)
<1>. QED
  BY <1>2, <1>3, ZenonT(30) DEF mcsos_sched_enqueue

\* Every step of callers that do as they like keeps the types.
LEMMA AnyTyped == TypeOK /\ [AnyNext]_vars => TypeOK'
<1>. SUFFICES ASSUME TypeOK, [AnyNext]_vars PROVE TypeOK'
  BY Zenon
<1>1. /\ rq \in RQ /\ magic \in [Threads -> BOOLEAN] /\ current \in Threads
      /\ context \in [Threads -> {"zero", "entry", "saved"}] /\ state \in [Threads -> State]
  BY Zenon DEF TypeOK, RQ
<1>2. ASSUME NEW code \in {"EINVAL", "ESTATE", "ESTACK"}, Fails(code) PROVE TypeOK'
  BY <1>2, ZenonT(30) DEF Fails, TypeOK
<1>3. ASSUME NEW t \in Threads, NEW args \in StackArgs, mcsos_thread_prepare(t, args)
      PROVE  TypeOK'
  <2>1. CASE /\ magic' = [magic EXCEPT ![t] = TRUE]
             /\ state' = [state EXCEPT ![t] = "NEW"]
             /\ context' = [context EXCEPT ![t] = "entry"]
             /\ rq' = [rq EXCEPT !.next[t] = NULL]
             /\ rc' = "OK" /\ current' = current
    <3>1. rq' \in RQ
      <4>1. [rq.next EXCEPT ![t] = NULL] \in [Threads -> Threads \cup {NULL}]
        BY <1>1, ZenonT(30) DEF RQ
      <4>2. rq' = [rq EXCEPT !.next = [rq.next EXCEPT ![t] = NULL]]
        BY <2>1, ZenonT(30)
      <4>. QED
        BY <1>1, <4>1, <4>2, ZenonT(30) DEF RQ
    <3>2. magic' \in [Threads -> BOOLEAN] /\ context' \in [Threads -> {"zero", "entry", "saved"}]
      BY <1>1, <2>1, ZenonT(30)
    <3>3. state' \in [Threads -> State]
      BY <1>1, <2>1, ZenonT(30) DEF State
    <3>. QED
      BY <1>1, <2>1, <3>1, <3>2, <3>3, TypeNext, ZenonT(30)
  <2>. QED
    BY <1>2, <1>3, <2>1, ZenonT(30) DEF mcsos_thread_prepare
<1>4. ASSUME NEW t \in Threads, mcsos_thread_mark_ready(t) PROVE TypeOK'
  BY <1>2, <1>4, EnqueueTyped, ZenonT(30) DEF mcsos_thread_mark_ready
<1>5. CASE mcsos_sched_pick_next
  <2>1. rq' = Rest(rq) /\ rc' = "OK" /\ UNCHANGED <<magic, state, context, current>>
    BY <1>5, ZenonT(30) DEF mcsos_sched_pick_next
  <2>2. rq' \in RQ
    BY <1>1, <2>1, ListTyped, ZenonT(30)
  <2>. QED
    BY <1>1, <2>1, <2>2, TypeNext, ZenonT(30)
<1>6. CASE mcsos_sched_yield
  BY <1>1, <1>6, YieldTyped, ZenonT(30) DEF mcsos_sched_yield
<1>7. CASE mcsos_sched_tick
  BY <1>7, ZenonT(30) DEF mcsos_sched_tick, TypeOK
<1>8. CASE mcsos_thread_block_current
  <2>1. [state EXCEPT ![current] = "BLOCKED"] \in [Threads -> State]
    BY <1>1, ZenonT(30) DEF State
  <2>. QED
    BY <1>2, <1>8, <2>1, YieldTyped, ZenonT(30) DEF mcsos_thread_block_current
<1>9. CASE UNCHANGED vars
  BY <1>9, ZenonT(30) DEF vars, TypeOK
<1>. QED
  BY <1>3, <1>4, <1>5, <1>6, <1>7, <1>8, <1>9, EnqueueTyped, ZenonT(30) DEF AnyNext

INSTANCE FiniteSetTheorems

\* A set of numbers that is not empty has a least one.
LEMMA Least ==
  ASSUME NEW S \in SUBSET Nat, S # {}
  PROVE  \E m \in S : \A k \in S : m <= k
<1>. DEFINE R == OpToRel(<, Nat)
<1>1. PICK m \in S : \A k \in S : <<k, m>> \notin R
  <2>1. IsWellFoundedOn(R, Nat)
    BY NatLessThanWellFounded, ZenonT(30)
  <2>. QED
    BY <2>1, WFMin, ZenonT(40)
<1>2. ASSUME NEW k \in S PROVE m <= k
  <2>1. ~(k < m)
    BY <1>1, ZenonT(40) DEF OpToRel
  <2>. QED
    BY <2>1, SMTT(30)
<1>. QED
  BY <1>2, ZenonT(30)

\* A list without repetition is no longer than the set of its elements.
LEMMA NoLongerThanThreads ==
  ASSUME NEW k \in Nat, NEW s \in [1 .. k -> Threads],
         \A i, j \in 1 .. k : s[i] = s[j] => i = j
  PROVE  k <= Cardinality(Threads)
<1>1. s \in Injection(1 .. k, Threads)
  BY ZenonT(30) DEF Injection, IsInjective
<1>2. Cardinality(1 .. k) <= Cardinality(Threads)
  BY <1>1, ThreadsFinite, FS_Injection, ZenonT(40)
<1>3. Cardinality(1 .. k) = k
  BY FS_Interval, SMTT(60)
<1>. QED
  BY <1>2, <1>3, ZenonT(30)

\* The facts about counting hold.
LEMMA CountingHolds == Counting
<1>1. \A k \in Nat : Cardinality(0 .. k - 1) = k
  BY FS_Interval, SMTT(30)
<1>2. Cardinality(Threads) \in Nat
  BY ThreadsFinite, FS_CardinalityType, ZenonT(30)
<1>. QED
  BY <1>1, <1>2, Least, NoLongerThanThreads, ZenonT(40) DEF Counting

\* mcsos_sched_validate accepts exactly the proper queues, whatever callers have
\* done to the list (a second enqueue or prepare, a pick_next of their own), and
\* mcsos_sched_ready_count then ends with runnable_count.
THEOREM SchedulerValidateExact == AnySpec => []ValidateExact
<1>1. Init => TypeOK
  <2>1. Init => /\ rq \in RQ /\ magic \in [Threads -> BOOLEAN] /\ current \in Threads
                /\ context \in [Threads -> {"zero", "entry", "saved"}]
                /\ state \in [Threads -> State] /\ rc = "OK"
    BY SchedulerAssumption, SMTT(60) DEF Init, RQ, State
  <2>. QED
    BY <2>1, ZenonT(30) DEF TypeOK, RQ
<1>2. TypeOK /\ [AnyNext]_vars => TypeOK'
  BY AnyTyped, ZenonT(30)
<1>3. TypeOK => ValidateExact
  BY CountingHolds, WalksExact, ZenonT(30)
<1>. QED
  BY <1>1, <1>2, <1>3, PTL DEF AnySpec
=============================================================================
