# A verification of MCSOS in TLA+

MCSOS is a teaching kernel for x86-64, written in C in stages (M2 to M13). This directory
models its components in TLA+, checks them with TLC on small instances, and proves the
most important properties with TLAPS for every value of the constants.

## The system

| part | code | module |
|---|---|---|
| cooperative scheduler | `mcsos/kernel/mcsos_thread.c` | `Scheduler`, `SchedulerHistory`, `RoundRobin`, `SchedulerProofs` |
| thread stacks, context switch | the same, `mcsos/arch/x86_64/context_switch.S` | `ThreadContext`, `SchedulerProofs` |
| spinlock | `mcsos/kernel/sync/spinlock.c` | `Spinlock`, `AbstractLock`, `LockProofs` |
| mutex | `mcsos/kernel/sync/mutex.c` | `Mutex`, `AbstractLock`, `LockProofs` |
| lock-order checker | `mcsos/kernel/sync/lockdep.c`, `selftest.c` | `LockOrder`, `LockProofs` |
| physical memory manager, boot memory map | `src/pmm.c`, `kernel/kernel.c` | `Pmm`, `FrameAllocator`, `PmmProofs` |
| virtual memory manager | `src/vmm.c` | `Vmm`, `VmmProofs` |
| kernel heap | `kernel/mm/kmem.c` | `Kmem`, `AbstractHeap`, `KmemProofs` |
| RAM file system, descriptors | `mcsos/kernel/vfs/ramfs.c`, `fd.c` | `Vfs`, `VfsProofs` |
| ELF loader | `mcsos/kernel/user/m11_elf_loader.c` | `Elf`, `ElfProofs` |
| system calls | `mcsos/kernel/syscall/` | `Syscall`, `KernelEntry`, `KernelEntryProofs` |
| exceptions | `src/kernel/arch/x86_64/`, `mcsos/kernel/arch/x86_64/`, `mcsos/kernel/core/trap.c` | `Trap`, `KernelEntry`, `KernelEntryProofs` |
| PIC, PIT | `src/pic.c`, `src/pit.c` | not modelled |
| serial, logging, panic, start-up | `kernel/`, `kmain.c`, `mcsos/kernel/kmain.c` | not modelled |

Paths are relative to the root of the repository.

The components are libraries that the two `kmain.c` files, `kernel.c` and the host tests call.
Where the code lets them interact they are composed here: the scheduler with the stacks and
registers of its threads, the system calls with the exceptions that may hit them, the locks
with the checker that threads ask before they spin, descriptors with the RAM file system, and
the frame allocator with the memory map of the boot code. The virtual memory manager gets its
frames through function pointers that nothing in the repository connects to the physical
memory manager; `Vmm` has an allocator of its own that may fail at any time.

In most modules one action is one call of an exported function, from its argument checks to
its last assignment, because nothing in those components can be interrupted by another caller
(there is one CPU and no preemption). There are three exceptions. In `Mutex` and `Spinlock`,
whose whole point is concurrent access, one action is one memory access. In `Elf` one action
is one iteration of the loop over the program headers, so that what holds of a half-finished
plan can be stated. In `Trap` and `KernelEntry` one action is a stretch of assembly code up to
or from the call of a C function, or that function, and an exception may come between any two.
An operator with the name of a C function models that function; the other operators name a few
lines of one. The `MC` modules only give constants their values.

Each module also contains a few operators that differ from a definition of the code by one
plausible mistake (a dropped guard, a wrong order, an off-by-one). No specification uses
them. Putting one of them in the place of the definition that follows it makes TLC report
the property that `PROJECT.json` lists for it: every property can fail.

## The modules

**Scheduler.** The ready queue is the code's intrusive list: head, tail, a next pointer per
thread and the count. `Next` is the scheduler driven as `kmain.c` and `test_scheduler.c`
drive it: objects are prepared once, a READY thread is not enqueued again. `AnyNext` lifts
this and adds the exported `pick_next`, so that lists are cut and closed into cycles.
`context` says whether a thread's saved registers are still zero, an entry frame or saved.
`SchedulerHistory` adds a history variable `queue`, the threads in the order in which they
were enqueued; `RoundRobin` is the abstract scheduler. The switch and tick counters, which
nothing reads, are left out, and so are two error returns of yield that no call reaches
(the comment at `YieldFrom` says why).

**ThreadContext.** Every action is one of `SchedulerHistory` together with what it does to the
machine: `prepare` computes a stack pointer with wrapping sums, writes the word there and
fills the eight slots; yield and block_current end with the switch, which pushes a return
address, stores the registers in the order of the assembly code, loads those of the next
thread, jumps, and pops a return address. Between two calls a thread runs with any stack
pointer of its own (`Work`). `kept` is history: the registers of a thread when it was left.
The trampoline of the repository only halts; that a thread then runs its entry (`Start`) is
what the host test plays, and a step that may but need not happen. The switch is compiled in
only without `MCSOS_HOST_TEST`, which `mcsos/Makefile` defines for the kernel it links.

**Mutex, Spinlock.** The memory is that of x86-64, the only target: locked instructions wait
for the CPU's store buffer to drain, the release stores are plain moves that other CPUs see
late, in order. `Spinlock` includes the counter of the host test and the selftest, whose
increment is a load and a store. `AbstractLock` is a lock with one holder; a lock is held
until the unlocking store is visible.

**LockOrder.** Threads call the checker before they spin, as `m12_sync_selftest` does, and
give up when it refuses. A thread may hold several locks and unlock them in any order;
`untidy` is history, the threads that have once released another lock than the last one, for
which the checker keeps classes that are no longer held. Some locks share a class and one has
class 0, which the checker rejects.

**Pmm.** The bitmap, the counters and the hint, with wrapping addresses. `entries` is the list
of the boot loader, chosen initially, and `map` what `kernel_memory_init` makes of it: at most
`MaxRegions` regions, unknown types reserved. `held` and `withheld` are history: the frames
handed out, and the frames that the map or a reservation withholds. `FrameAllocator` is a set
of free frames with lowest-first allocation.

**Vmm.** Tables are frames in memory. A frame that has never been cleared holds entries that
look present. A map may allocate up to three tables and fail between them: the rest of the
kernel takes frames from the same allocator, and one frame has no virtual address
(`phys_to_virt` returns 0). Callers may ask for flags that an entry does not take, the
accessed, dirty and huge bits. `free_frame` may be a null pointer (the code tests it), and then
a frame without an address is lost. The CPU may use any translation at any time (`Access`): it
caches it, sets the accessed bit in every entry on the way and, on a write, the dirty bit in the
last one. `asked` is history: what was mapped, and how the CPU has used it since.

**Kmem.** Headers at addresses in an arena, with the code's header size, alignment and
minimal split. An address is in `blocks` when it holds a valid magic. The loops over the list
are `Walk`, the block they are at after each number of rounds; an arena has room for `Rounds`
headers, so that no loop over a sound list is longer. `live` is history. `AbstractHeap` hands
out disjoint aligned parts of the arena. A `kmem_init` that succeeds is the first one, as in
`kernel.c`, or comes when everything has been freed and begins at the same address, as in
`tests/test_kmem.c` (`Vacant`); one that is refused may come at any time.

**Vfs.** The node table, the data area and a descriptor table per process. `contents` is
history: what was written to each file. `lseek` has its signed sum, whose overflow, upwards or
downwards, is undefined and here a choice of two outcomes (the comparison with 0 sees the true
sum, or the one that has wrapped around), and the cut of its result to an `int`.

**Elf.** The image is what the loader reads of it: its size, the set of header fields that do
not have their required value, the entry point, and the program headers with offsets,
addresses and sizes. Sums wrap around at `WordSize`. `plan` is the caller's plan, which may
hold anything before the call.

**Syscall.** The pointers to the installed operations and the user region; a system call is
an operator that says which operation is called and what is returned. Addresses and lengths
wrap around at `WordSize`.

**Trap.** The gates with their offsets in three parts, the registers, and the stack as a
sequence of words. The CPU's part (aligning, pushing five words and maybe an error code,
`iretq`) is modelled from the architecture; the stubs, pushes, pops and the frame's structure
from the code. The two kernels have the same code; their one difference that matters, the
kind of gate of vector 3, is a choice in `x86_64_idt_init`. `calls` is history: the exceptions
being handled and the state of what they hit. Device interrupts, which `kernel_main` enables,
find a descriptor of zeros, which is no gate, and become a general protection exception (13).

**KernelEntry.** Both ways into the kernel on one stack. Nothing in the repository installs
`x86_64_syscall_int80_stub`; the module assumes an interrupt gate that leads to it.

## Runs

| run | instance | shows |
|---|---|---|
| `threads` | boot thread and three others, 64 bytes, words of 2 | The list is the FIFO queue of the READY threads and implements round robin; every READY thread runs as long as threads keep yielding; the first stack pointer is sound; a thread that was switched out gets back what it had. |
| `scheduler_misuse` | two threads, up to 4 enqueues | `validate` accepts exactly the proper lists, and then `ready_count` ends and is right. |
| `mutex` | three owners | Truthful replies, sound observers, refinement of the lock, and an unlock takes effect. |
| `spinlock` | three workers, two rounds | No lost increment, refinement of the lock, everybody finishes. |
| `lock_order` | three threads, five locks, depth 2 | No deadlock; the checker knows every lock held or waited for; for threads that release the last lock first it is exact. |
| `pmm` | lists of up to three entries over 8 pages of 3 bytes, at most two handed over, every free, many reservations | Exactly the right frames are free initially, also when the list is cut off or has unknown types; counters, hint, no frame in use is free, refinement of the allocator. |
| `vmm` | tables of two entries, four pages, six frames | Queries are exact, the CPU's marks included; no frame is lost, tables are not shared, the TLB is coherent. |
| `kmem` | arenas for up to five blocks, one of them set up again in the place of another, words of 10 bits | The blocks tile the arena, fully coalesced; live blocks are intact and the statistics add up; alloc, free and validate accept exactly what they should; refinement of the heap. |
| `vfs_limits` | one process, one descriptor, four nodes, three names | Structure and failures at every limit, with seeks that overflow. |
| `vfs_contents` | one process, two descriptors | What reads return, appending. |
| `elf` | words of 3 bits, two segments | Exactly the loadable images are accepted; the plan lies in the file and in the region; a refused plan is empty. |
| `kernel_entry` | all exceptions, two inside each other, all system calls, words of 3 bits | The dispatcher's frame is true; a breakpoint leaves no trace; nothing else is returned from; system calls get their arguments and answers; the range check is exact. |

Bounds. Three contenders are enough to see a third party interfere with a hand-over between
two. Lists and queues of up to three or four elements have a first, an inner and a last one,
which is all that the list operations tell apart; the arena and the pages are chosen so that a
block has a left and a right neighbour and pages share none, one or three tables. Each limit
(descriptors, nodes, data, frames, depth, regions) is small enough to be hit. Words are so
narrow that every sum that can wrap around does; a page has three bytes, because with two the
last page of the address space behaves like the others. Stacks are adjacent, so that one word
too many hits a neighbour. An exception inside an exception (`MaxDepth`) is all it takes to see
one disturb the other; the ones that hit handlers are one with and one without an error code.
`MaxRunnable`, `MaxReserved` and `MaxOthers` only bound what callers do. `MaxViolations` is
where the count of violations wraps around, at once in the run, because no property and no
decision of the checker depends on it. `LongMax` and `IntMax` stand for the limits of `long`
and `int`. Deadlock is not checked where the system really stops: `elf`, when the plan is done,
and `kernel_entry`, when the kernel has panicked.

Fairness. `Spinlock` assumes that each worker goes on executing and that store buffers drain;
`Mutex` that a call that has begun goes on and buffers drain, never that anybody begins a
call. The scheduler is cooperative, so `ReadyThreadRuns` is a property of threads that keep
calling yield (`WF` of `TYield`). Nothing makes a new thread leave the trampoline, so the
property allows the CPU to stay there for good; as long as it keeps coming back to threads that
run code of their own, every READY thread has its turn.

## Proofs

Each proof module states an inductive invariant for each component (`IInv` or a name of its
own), shows that the initial states have it and that each action keeps it, in a lemma of its
own, and concludes with temporal logic. `LockProofs` is about three components, so that the
specifications of `Spinlock` and `LockOrder` have names that differ from those of `Mutex`
(`SpinSpec`, `LockdepSpec`).

| theorem | says | for every |
|---|---|---|
| `SchedulerQueueExact` | `TypeOK` and `ReadyQueueExact` | set of threads with an idle one |
| `SchedulerRefinesRoundRobin` | `RefinesRoundRobin` | the same |
| `SchedulerValidateExact` | `ValidateExact` | finite set of threads, also for callers that break the list |
| `ThreadEntryStackSound` | `EntryStackSound` | word width, alignment and stacks that do not overlap |
| `ThreadResumesExactly` | `ResumesExactly` | the same, and set of threads |
| `SpinlockSafety` | `CounterExact`, `OneInSection` | finite set of workers, number of iterations |
| `SpinlockRefinesLock` | `SpinRefinesLock` | the same |
| `MutexSafety` | `TypeOK`, `MutualExclusion`, `AnswersSound` | set of owners without 0 |
| `MutexRefinesLock` | `RefinesLock` | the same |
| `LockOrderInvariant` | `LockdepTypeOK`, `CheckerSound`, `OneHolder` | threads, locks, classes and depth |
| `LockOrderNoDeadlock` | `NoDeadlock` | the same |
| `LockOrderLifoExact` | `LifoExact` | the same |
| `PmmSafety`, `PmmNeverFreeWhileInUse` | `AccountsExact`, `NeverFreeWhileInUse` | address width, page size, lists and arguments |
| `PmmRefinesAllocator` | `RefinesAllocator` | the same |
| `PmmInitExact` | `InitExact` | the same |
| `PmmBootMapSound` | `BootMapSound` | the same, and number of regions handed over |
| `KmemHeapTiled` | `HeapTiled` | header size, alignment, minimal split, word width, arenas and requests |
| `KmemLiveBlocksIntact` | `LiveBlocksIntact` | the same |
| `KmemCallsExact` | `CallsExact` | the same, and limit of `kmem_validate` |
| `KmemRefinesHeap` | `RefinesHeap` | the same |
| `VmmQueryExact` | `QueryExact` | table size, frames, addresses and mappings |
| `VmmFramesAreTables` | `FramesAreTables` | the same |
| `VmmTlbCoherent` | `TlbCoherent` | the same |
| `SyscallTypes` | the types | word width and operations |
| `SyscallRangeExact`, `EntryRangeExact` | `RangeExact` | the same |
| `SyscallReadsInsideRegion`, `EntryReadsInsideRegion` | `ReadsInsideRegion` | the same |
| `EntryStack` | the layout of the kernel stack | depth of nesting, stub addresses, registers, system calls |
| `EntryFrameFaithful` | `FrameFaithful` | the same |
| `EntryBreakpointResumes` | `BreakpointResumes` | the same |
| `EntryFailClosed` | `FailClosed` | the same |
| `EntrySyscallAnswered` | `SyscallAnswered` | the same |
| `EntryImplementsSyscall` | `SyscallSpec` | the same |
| `ElfPlanSound` | `TypeOK` and `PlanSound` | word width, images, regions and number of segments |
| `ElfPlanComplete` | `PlanComplete` | the same |
| `VfsWellFormed` | `FsWellFormed` | limits, processes, paths, flags, writes and seeks |
| `VfsReadsReturnWhatWasWritten` | `ReadsReturnWhatWasWritten` | the same |
| `VfsFailureIsHarmless` | `FailureIsHarmless` | the same |
| `VfsAppendersNeverOverwrite` | `AppendersNeverOverwrite` | the same |

The assumptions are the named `ASSUME`s of the modules, which TLC evaluates in each run. They
give the constants their types; beyond that, threads are finitely many (`ThreadsFinite`),
stacks do not overlap, stubs have different addresses (`TrapAssumption`), a file's capacity
fits into a `long` (`VfsAssumption`), the size of a header and the number of addresses are
multiples of the alignment and an arena does not wrap around (`KmemAssumption`), and the root
table is not a frame of the pool (`VmmAssumption`). The
type invariants of `Mutex`, `LockOrder` and `Elf` are proved and not checked in a run of their
own; `Spinlock`, `Pmm`, `Kmem`, `Vmm` and `Vfs` have theirs as a conjunct of a checked invariant.

*Scheduler.* The argument rests on two lemmas about the list: linking a thread that is not in
it appends to the sequence it represents (`EnqueueRepresents`), and unlinking the head leaves
the tail of that sequence (`RestRepresents`). Then yield and block_current have a closed form
in terms of the queue, because the running thread is never in it. `ReadyQueueExact` is
inductive with `TypeOK`; `ContextsFilled` (every prepared thread, and the boot thread once it
has been left, has a filled context) is added for the switches, and `ResumesExactly` needs it.
The refinement follows step by step from the same lemmas. `ValidateExact` is about `AnySpec`,
where callers may cut the list or close it into a cycle, so that it rests on the types alone:
in any state, the walk that validate makes (`IsCursor`) accepts only lists of different threads
that end at the tail (`AcceptsOnlyProper`), and every such list (`AcceptsProper`), on which
`ready_count` makes the same walk (`CountsProper`). A walk that sees no thread twice is no
longer than the number of threads, which is where they have to be finite; the facts about
finite sets that this takes are collected in `Counting`, which is proved at the end of the
module.

*ThreadContext.* The invariant `CInv` rides on that of the scheduler. It says that every
prepared thread has a good stack (`StacksGood`), that the registers are those of the running
thread somewhere on its stack or of a new one (`CpuGood`), that a new thread's slots are the
entry context (`EntriesGood`), and that the slots of a thread that was left are its registers
with the return address still in the word below its stack pointer (`SavedGood`). The last one
needs that no push of another thread hits that word (`PushedApart`), which follows from the
stacks being apart and from each pushed word lying inside its stack (`PushedInside`); the
128 bytes that `prepare` insists on are the room for the pushes. Storing and loading agree
because the two lists of slots are the same (`SlotsAgree`).

*Spinlock.* As for the mutex, what a worker may do depends on its buffered stores
(`StoresMatchAt`). The number of increments done is the cardinality of a set with one
element for each finished iteration, so that an unlock adds one element (`CountUp`) and the
whole set is a product when everybody has finished (`CountNat`); the counter has that value
whenever the lock is free, and is one behind or ahead of it at known places otherwise.

*Mutex.* Mutual exclusion is not inductive: what an owner may do next depends on which of its
stores are still in its buffer. `BufferMatchesPc` lists the contents of the buffer and of
`owner` for each place in the code.

*LockOrder.* `ClassesApart` adds that the locks a thread holds have different classes and that
the class it waits for is on top of its stack and above them all. Deadlock freedom follows by
taking the thread that waits for the lock of the highest class in a supposed cycle.
`LifoExact` has its own invariant, `TidyInv`, for the threads that are not in `untidy`.

*Elf.* A sum that wraps around is smaller than its first summand (`WrappedSum`), so that
`m11_add_overflow_u64` notices it (`PlusExact`) and an accepted segment fits in unbounded
arithmetic (`AcceptedFits`). `IInv` says that of all segments planned so far. For
`PlanComplete`, `CInv` says that inside the loop the header was good and the plan lists exactly
the loadable segments among the headers already seen, in their order, all of which fit; the
error exits then show that the image is not loadable.

*Pmm.* `mark_free` and `mark_used` keep the counters equal to the cardinalities of the clear
and set bits (`MarkFree`, `MarkUsed`, `MarkRangeUsed`), and the hint at or below the lowest
clear one. Rounding an address up or down is compared with the bytes a range covers
(`Rounded`, `InsideExact`, `TouchedExact`, `CoversExact`), with the condition under which the
wrapping sum does not wrap. `FreeAfterInit` then says which frames are free after init, and
`InitExact` and `BootMapSound` follow from it; the latter also needs that usable entries
overlap nothing, so that entries that were cut off cannot matter.

*KernelEntry.* The first theorems are about `SyscallSpec`, any sequence of
`mcsos_syscall_init` and `mcsos_syscall_set_user_region`. A last byte that wraps around is
smaller than the address, which the code tests. `EntryImplementsSyscall` carries them over to
the composed module. The others rest on `EntryInv`, a description of the whole stack: for each
block of handler code, what the block finds above the words that the CPU pushed
(`StubSound` to `Int80RetSound`, joined in `StageSound`), for the entry that runs (`Current`)
and, with the registers it was interrupted with and the stack as high as it was then, for every
entry below it (`Levels`). The second part is needed because a return makes the entry below the
current one; it is kept because nothing writes below the stack pointer of the code that was
hit.

*Vfs.* `IInv` numbers the nodes in the order of their regions, so that disjointness is one
inequality between neighbours, says that only the root is a directory, and compares the history
of each file with the bytes of its region. Names stay apart because `create_file` makes a node
only where a lookup of the same path has just failed in the same directory (`SplitAnswers`,
`CreatedIs`); both walk the path with `Descend`, whose values are found by induction on the
number of segments (`DescendIs`). A write then changes one region and the text of one file
(`Written`, `TextReplaced`). Each action is shown to keep `IInv` and to satisfy the two action
properties in one lemma (`GoodStep`); `GrowStep` and `ReplaceStep` are the two shapes a step can
have, and an `open` that creates and truncates has both.

*Kmem.* `KmemInv` says that the heap either has not been set up or is `Ready`: the headers are
a chain that tiles the arena (`Chain`: each block ends where the next begins, both links agree,
all addresses are aligned, and blocks are in order), no two neighbours are free
(`NoTwoFreeBut`), and the used blocks are what callers hold (`Owned`). `HeapTiled` alone is not
inductive: it does not say that blocks are aligned, without which rounding the end of a block
up need not give the next one, nor that they do not overlap. These are predicates of values, so
that they can be said of the headers between the steps of a free. A split and an absorption
keep the chain (`SplitChain`, `AbsorbChain`), and the loop of `kmem_coalesce_forward` then
absorbs at most one block, because no free pair follows the one it merges (`CoalesceOnce`,
`CoalesceForward`); so a free ends with no two free neighbours (`FreeBlock`). That a request
rounded up has not wrapped around, and is what the code thinks it is, comes from `AlignUp`. For
the loops, an induction over the rounds shows that the walk visits the blocks in the order of
their addresses, each of them, and ends (`WalkAtAll`, `WalkEnds`): `kmem_alloc` then finds the
lowest block that fits, `kmem_validate` finds no fault, and the totals of `kmem_get_stats` are
those of all blocks (`TallyStep`, `StatsExact`).

*Vmm.* `VmmInv` says that the frames the space has taken are a tree: there is a map `place`
from frames to the paths of at most three indices that lead to them, one frame for each path,
every present entry of an upper table leads to the frame whose path is one longer, and every
frame has such an entry (`Layout`); and that the present entries of the lowest tables are
exactly the mappings asked for, each with the marks of its uses (`Mapped`, `NoOther`).
`QueryExact` says nothing about frames that no mapping uses yet, which a map that failed
half-way leaves behind and a later one builds on. Linking a cleared frame keeps the tree
(`LinkKeepsTree`), and so does each of the three levels that a map may add before it fails
(`BuildStep`, `BuiltAt`); an address is found again because a path has one frame (`ReachedAt`).
For `FramesAreTables` the links and the tables are put in a bijection (`LinkedOnce`), and every
frame is at one of three depths (`LevelBelow`). The marks that an access leaves change no link
(`MarksKeepTree`) and, because a path has one frame, exactly one entry of a lowest table
(`MarksOfLowest`, `LeafMarked`). A map that meets a frame without an address gives it back or,
without `free_frame`, forgets it; that is all it may lose (`BuildForgets`).

Only model-checked: the liveness properties `ReadyThreadRuns`, `UnlockTakesEffect` and
`EveryWorkerFinishes`. They need fairness, which is outside the prover's reach. Every other
property of the runs is also a theorem. Recursive functions (`Descend`, the walks of
`Scheduler`, the loops of `Kmem`) are inside it: each proof first shows that the function
exists, by an induction with a set instead of a predicate (`UpTo`).

## What the checks leave out

- `Pmm`: a range whose end cannot be rounded up to a page boundary is outside the promise.
  There `align_up` wraps around: a usable region that begins in the last page of the address
  space counts from frame 0, and a reserved range that ends there is ignored. `BootMapSound`
  is about lists whose usable entries overlap no other, which the boot protocol promises.
- `Pmm`: reserving a frame that somebody holds succeeds, and the holder's free cancels the
  reservation.
- `Pmm`: a second `pmm_init_from_map`. It would start from the map again and forget which frames
  are in use; `kernel_memory_init`, its only caller, runs once.
- `Kmem`: a second `kmem_init` that succeeds while something is allocated, or with a first
  header elsewhere. It would not clear the headers of the first heap, so that an old pointer may
  look like an allocation of the new one; nothing in the repository does this.
- `Vfs`: bytes in a hole (a write beyond the end of a truncated file) may be old ones. A
  failed append moves the descriptor's offset. `open` may leave an empty file behind when it
  fails with `ENFILE`.
- `Vmm`: access rights. Tables are linked without the user bit, so that a page mapped with
  `VMM_PTE_USER` is not accessible from user mode; nothing in the repository says it should
  be, and nothing maps such a page.
- `Elf`: the loader accepts segments that overlap each other and an entry point outside all of
  them. An image without a loadable segment is refused with the entry point left in the plan.
- `ThreadContext`: two threads that are given overlapping stacks, and a thread that pushes
  more than the 128 bytes that `prepare` insists on. The code checks neither.
- `Syscall`: a system call before `mcsos_syscall_init`, which would call a null pointer.
- `KernelEntry`: the int80 stub does not restore the registers that a C function may change,
  and calls the dispatcher with a stack pointer that is not aligned as the calling convention
  asks (`isr_common` is aligned, which `FrameFaithful` includes). Nothing in the repository
  says otherwise, and callers are only promised the others here.
- `Trap`: the stack is never too small, and `lidt` has loaded the table that was filled.
- Null arguments and calls before initialisation return at once in the code and are left out,
  except where a module says otherwise.

## Not modelled

- `src/pic.c` and `src/pit.c` are sequences of port writes. No code calls them, no gate leads
  to `timer_on_irq0`, and nothing connects it to `mcsos_sched_tick`: there is no protocol to
  check until they are used. `Trap` shows what happens now when an interrupt arrives.
- Start-up code calls each component once in a fixed order, which the models allow among all
  other orders. Its memory map is part of `Pmm`.
- Serial output, logging and the wording of panics; `m11_error_name`; the VFS test hook, which
  stores a pointer nobody reads; `limine.h`, which is a vendored header; the frame structure of
  `include/idt.h`, which has another order of registers and which no code uses.
- `mcsos/src/`, where the C files are empty and `boot.s` is straight-line start-up code.
- The bytes inside heap blocks, and with them the clearing in `kmem_calloc`.
