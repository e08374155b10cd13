--------------------------------- MODULE Pmm ---------------------------------
(***************************************************************************)
(* The physical memory manager of src/pmm.c: a bitmap with one bit per     *)
(* page frame, three counters and a search hint; and the memory map that   *)
(* kernel_memory_init (kernel/kernel.c) makes for it out of the list of    *)
(* the boot loader.                                                        *)
(*                                                                         *)
(* Addresses are machine words, 0 .. AddrMax, and the arithmetic wraps     *)
(* where the code's does.  The loops over a range of frames are written as *)
(* their effect on the whole set of frames, which does not depend on the   *)
(* order.                                                                  *)
(***************************************************************************)
EXTENDS Integers, FiniteSets, Sequences

CONSTANTS
  AddrMax,       \* UINT64_MAX
  PageSize,      \* PMM_PAGE_SIZE
  INVALID,       \* PMM_INVALID_FRAME
  MaxRegions,    \* 128, the regions kernel_memory_init has room for
  Lists,         \* the memory maps a boot loader may present
  InitArgs,      \* the (max_phys_bytes, bitmap_storage_bytes) init is called with
  ReserveArgs,   \* the (base, length) reserve_range is called with
  MaxReserved    \* bound on reserved_frames, which nothing ever lowers or reads

Word == 0 .. AddrMax

\* The types of LIMINE_MEMMAP_ entries that kernel.c knows, and one it does not.
KnownTypes == {"USABLE", "RESERVED", "BOOTLOADER_RECLAIMABLE", "KERNEL_AND_MODULES",
               "FRAMEBUFFER", "ACPI_RECLAIMABLE", "ACPI_NVS", "BAD_MEMORY"}
Entries == [base : Word, length : Word, type : KnownTypes \cup {"UNKNOWN"}]

ASSUME PmmAssumption ==
  /\ AddrMax \in Nat /\ PageSize \in Nat \ {0}
  /\ (AddrMax + 1) % PageSize = 0 /\ 2 * PageSize <= AddrMax + 1
  /\ MaxRegions \in Nat /\ Lists \subseteq Seq(Entries)
  /\ InitArgs \subseteq Word \X Word
  /\ ReserveArgs \subseteq Word \X Word
  /\ MaxReserved \in Nat
  /\ INVALID \notin Nat

VARIABLES
  pmm,           \* struct pmm_state; bitmap[f] is TRUE when the bit is set (used)
  entries,       \* the list of the boot loader, until the map has been used
  held,          \* history: frames alloc returned and nobody has freed since
  withheld,      \* history: frames reserved, and not freed by a caller since
  result         \* what the last alloc returned, as a frame

vars == <<pmm, entries, held, withheld, result>>

-----------------------------------------------------------------------------
align_down(v) == (v \div PageSize) * PageSize
align_up(v)   == align_down((v + PageSize - 1) % (AddrMax + 1))

checked_add_u64(a, b) == AddrMax - a >= b

\* The frames of p whose address lies between two page boundaries.
Frames(p, start, stop) ==
  {f \in 0 .. p.frame_count - 1 : start <= f * PageSize /\ f * PageSize < stop}

\* The frames the loop of mark_range_free visits: the range is rounded inwards.
RoundedOutwards(p, base, length) ==
  IF length = 0 \/ ~checked_add_u64(base, length) THEN {}
  ELSE Frames(p, align_down(base), align_up(base + length))

InsideRange(p, base, length) ==
  IF length = 0 \/ ~checked_add_u64(base, length) THEN {}
  ELSE Frames(p, align_up(base), align_down(base + length))

\* The frames the loop of mark_range_used visits: the range is rounded outwards.
RoundedInwards(p, base, length) ==
  IF length = 0 \/ ~checked_add_u64(base, length) THEN {}
  ELSE Frames(p, align_up(base), align_down(base + length))

TouchedByRange(p, base, length) ==
  IF length = 0 \/ ~checked_add_u64(base, length) THEN {}
  ELSE Frames(p, align_down(base), align_up(base + length))

HintNotMoved(p, freed) == p.next_hint

\* next_hint after mark_frame_free of the frames in freed.
HintAfter(p, freed) ==
  CHOOSE h \in freed \cup {p.next_hint} : \A f \in freed \cup {p.next_hint} : h <= f

\* mark_frame_free for every frame of S.
mark_free(p, S) ==
  LET freed == {f \in S : p.bitmap[f]}
      n == Cardinality(freed)
  IN [p EXCEPT !.bitmap = [f \in DOMAIN @ |-> f \notin S /\ @[f]],
               !.free_frames = @ + n,
               !.used_frames = IF @ >= n THEN @ - n ELSE 0,
               !.next_hint = HintAfter(p, freed)]

CountAll(p, S) ==
  LET n == Cardinality(S)
  IN [p EXCEPT !.bitmap = [f \in DOMAIN @ |-> f \in S \/ @[f]],
               !.free_frames = IF @ >= n THEN @ - n ELSE 0,
               !.used_frames = @ + n]

\* mark_frame_used for every frame of S.
mark_used(p, S) ==
  LET n == Cardinality({f \in S : ~p.bitmap[f]})
  IN [p EXCEPT !.bitmap = [f \in DOMAIN @ |-> f \in S \/ @[f]],
               !.free_frames = IF @ >= n THEN @ - n ELSE 0,
               !.used_frames = @ + n]

\* mark_range_used also counts the frames that were free.
mark_range_used(p, S) ==
  [mark_used(p, S) EXCEPT
     !.reserved_frames = @ + Cardinality({f \in S : ~p.bitmap[f]})]

-----------------------------------------------------------------------------
pmm_zero_state ==
  [initialized |-> FALSE, frame_count |-> 0, bitmap |-> [f \in {} |-> TRUE],
   free_frames |-> 0, used_frames |-> 0, reserved_frames |-> 0, next_hint |-> 0]

UnknownIsUsable(t) == IF t \in KnownTypes THEN t ELSE "USABLE"

\* Lines 32-42 of kernel.c.
BootType(t) == IF t \in KnownTypes THEN t ELSE "RESERVED"

\* The loop of kernel_memory_init: the regions it hands over.
map ==
  {[base |-> entries[i].base, length |-> entries[i].length,
    usable |-> BootType(entries[i].type) = "USABLE"] :
   i \in {j \in DOMAIN entries : j <= MaxRegions}}

\* The frames reserved by the regions of the map that are not usable.
UnusableFrames(p) ==
  UNION {TouchedByRange(p, r.base, r.length) : r \in {s \in map : ~s.usable}}

UsableFrames(p) ==
  UNION {InsideRange(p, r.base, r.length) : r \in {s \in map : s.usable}}

\* The state init builds, frame count given: everything used, then the usable
\* ranges free, then page 0 and the other ranges used.
BuiltFromMap(n) ==
  LET all   == [pmm_zero_state EXCEPT !.frame_count = n, !.used_frames = n,
                                      !.bitmap = [f \in 0 .. n - 1 |-> TRUE]]
      freed == mark_free(all, UsableFrames(all))
      low   == mark_range_used(freed, TouchedByRange(freed, 0, PageSize))
  IN [mark_range_used(low, UnusableFrames(low)) EXCEPT !.initialized = TRUE]

\* The arguments init refuses.
BadInitArgs(max_phys, storage) ==
  \/ map = {}
  \/ max_phys = 0
  \/ max_phys % PageSize # 0
  \/ storage < (max_phys \div PageSize + 7) \div 8

\* The frames whose bytes a range really covers.
Covers(n, base, length) ==
  {f \in 0 .. n - 1 : \E a \in base .. base + length - 1 : a \div PageSize = f}

\* A range whose end can be rounded up to a page boundary.
Representable(base, length) == base + length + PageSize - 1 <= AddrMax

\* The kernel calls it once; the code does not refuse a second call, which would
\* forget the frames that are in use.
pmm_init_from_map(max_phys, storage) ==
  /\ ~pmm.initialized
  /\ IF BadInitArgs(max_phys, storage) THEN UNCHANGED <<pmm, entries, withheld>>
     ELSE LET n == max_phys \div PageSize IN
          /\ pmm' = BuiltFromMap(n)
          /\ entries' = <<>>
          /\ withheld' = UNION {Covers(n, r.base, r.length) :
               r \in {s \in map : ~s.usable /\ Representable(s.base, s.length)}}
  /\ UNCHANGED <<held, result>>

\* The frame alloc takes: the first clear bit from next_hint on, or else the
\* first clear bit below it.
FoundFrame ==
  LET clear  == {f \in 0 .. pmm.frame_count - 1 : ~pmm.bitmap[f]}
      ahead  == {f \in clear : f >= pmm.next_hint}
      search == IF ahead # {} THEN ahead ELSE clear
  IN IF search = {} THEN INVALID
     ELSE CHOOSE f \in search : \A g \in search : f <= g

pmm_alloc_frame ==
  LET f == IF pmm.initialized /\ pmm.free_frames # 0 THEN FoundFrame ELSE INVALID
  IN /\ result' = f
     /\ IF f = INVALID THEN UNCHANGED <<pmm, held>>
        ELSE /\ pmm' = [mark_used(pmm, {f}) EXCEPT !.next_hint = f + 1]
             /\ held' = held \cup {f}
     /\ UNCHANGED <<entries, withheld>>

\* What pmm_free_frame accepts: also a frame nobody has allocated.
Freeable(addr) ==
  /\ pmm.initialized
  /\ addr % PageSize = 0 /\ addr # 0 /\ addr < pmm.frame_count * PageSize
  /\ pmm.bitmap[addr \div PageSize]

pmm_free_frame(addr) ==
  /\ IF Freeable(addr)
     THEN LET f == addr \div PageSize IN
          /\ pmm' = mark_free(pmm, {f})
          /\ held' = held \ {f}
          /\ withheld' = withheld \ {f}
     ELSE UNCHANGED <<pmm, held, withheld>>
  /\ UNCHANGED <<entries, result>>

pmm_reserve_range(base, length) ==
  /\ IF pmm.initialized /\ length # 0
     THEN /\ pmm' = mark_range_used(pmm, TouchedByRange(pmm, base, length))
          /\ withheld' = IF Representable(base, length)
                         THEN withheld \cup Covers(pmm.frame_count, base, length)
                         ELSE withheld
     ELSE UNCHANGED <<pmm, withheld>>
  /\ UNCHANGED <<entries, held, result>>

-----------------------------------------------------------------------------
Init ==
  /\ pmm = pmm_zero_state
  /\ entries \in Lists
  /\ held = {} /\ withheld = {}
  /\ result = INVALID

Next ==
  \/ \E a \in InitArgs : pmm_init_from_map(a[1], a[2])
  \/ pmm_alloc_frame
  \/ \E addr \in Word : pmm_free_frame(addr)
  \/ /\ pmm.reserved_frames < MaxReserved
     /\ \E a \in ReserveArgs : pmm_reserve_range(a[1], a[2])

Spec == Init /\ [][Next]_vars

-----------------------------------------------------------------------------
FreeSet == {f \in 0 .. pmm.frame_count - 1 : ~pmm.bitmap[f]}

\* Every field holds a value of its C type.
TypeOK ==
  /\ pmm.initialized \in BOOLEAN
  /\ pmm.frame_count \in Nat
  /\ pmm.bitmap \in [0 .. pmm.frame_count - 1 -> BOOLEAN]
  /\ pmm.free_frames \in Nat /\ pmm.used_frames \in Nat
  /\ pmm.reserved_frames \in Nat /\ pmm.next_hint \in Nat
  /\ entries \in Seq(Entries)
  /\ held \subseteq 0 .. pmm.frame_count - 1
  /\ withheld \subseteq 0 .. pmm.frame_count - 1
  /\ result \in Nat \cup {INVALID}

\* free_frames is the number of clear bits and used_frames that of the set ones,
\* so that the saturating decrements in mark_frame_free and mark_frame_used
\* never hide an underflow and alloc's test of free_frames is exact.
CountersExact ==
  /\ pmm.free_frames = Cardinality(FreeSet)
  /\ pmm.free_frames + pmm.used_frames = pmm.frame_count

\* No frame below next_hint is free: the second search loop of alloc is never
\* needed, and alloc always returns the lowest free frame.
HintSound == \A f \in FreeSet : pmm.next_hint <= f

\* The fields have their types, and the counters and the hint agree with the
\* bitmap, after any sequence of mark_frame_used and mark_frame_free.
AccountsExact == TypeOK /\ CountersExact /\ HintSound

\* A frame that alloc handed out, or that the map or reserve_range withholds,
\* does not become free before somebody frees it.
NeverFreeWhileInUse == (held \cup withheld) \cap FreeSet = {}

\* What init makes of a map whose ranges end below the last page of the address
\* space: a frame is free exactly if it is not frame 0, all its bytes are in one
\* usable region, and none of them is in a region of another type, in whatever
\* order the map lists overlapping regions.
InitExact ==
  [][LET sane == \A r \in map : Representable(r.base, r.length)
         page(f) == f * PageSize .. (f + 1) * PageSize - 1
         bytes(r) == r.base .. r.base + r.length - 1
     IN pmm'.initialized /\ ~pmm.initialized /\ sane =>
          \A f \in 0 .. pmm'.frame_count - 1 :
             ~pmm'.bitmap[f] <=>
               /\ f # 0
               /\ \E r \in map : r.usable /\ page(f) \subseteq bytes(r)
               /\ \A r \in map : ~r.usable => page(f) \cap bytes(r) = {}]_vars

\* Do the usable entries of the list overlap no other entry?  (The boot loader
\* promises that.)
UsableApart(list) ==
  \A i, j \in DOMAIN list :
     i # j /\ list[i].type = "USABLE" =>
       (list[i].base .. list[i].base + list[i].length - 1) \cap
       (list[j].base .. list[j].base + list[j].length - 1) = {}

\* kernel_memory_init stops after MaxRegions entries and turns types it does not
\* know into RESERVED.  Although the list may go on, with a boot loader that
\* keeps its promise no frame becomes free that holds a byte of an entry of
\* another type, known or unknown, early or late in the list.  (As in InitExact
\* the usable ranges end below the last page of the address space.)
BootMapSound ==
  [][LET sane == /\ UsableApart(entries)
                 /\ \A r \in map : r.usable => Representable(r.base, r.length)
     IN pmm'.initialized /\ ~pmm.initialized /\ sane =>
       \A f \in 0 .. pmm'.frame_count - 1 : ~pmm'.bitmap[f] =>
          \A i \in DOMAIN entries : entries[i].type # "USABLE" =>
             \A b \in f * PageSize .. (f + 1) * PageSize - 1 :
                ~(entries[i].base <= b /\ b < entries[i].base + entries[i].length)]_vars

Allocator == INSTANCE FrameAllocator WITH
  Exhausted <- INVALID, ready <- pmm.initialized, free <- FreeSet, last <- result

\* The bitmap, its counters and its hint implement the set of free frames with
\* lowest-first allocation.
RefinesAllocator == Allocator!Spec
=============================================================================
