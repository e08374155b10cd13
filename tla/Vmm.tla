--------------------------------- MODULE Vmm ---------------------------------
(***************************************************************************)
(* The four-level page tables of src/vmm.c, in physical memory, with the   *)
(* frame allocator they take their tables from and the TLB of the CPU.     *)
(*                                                                         *)
(* A virtual address is its four table indices, its upper 16 bits and its  *)
(* offset in the page.  A physical address is a page number and an offset; *)
(* only the page number modulo PhysPages fits into an entry                *)
(* (VMM_PTE_ADDR_MASK).                                                    *)
(***************************************************************************)
EXTENDS Naturals, FiniteSets

CONSTANTS
  Entries,      \* VMM_ENTRIES_PER_TABLE
  PhysPages,    \* number of physical page numbers an entry can hold
  Root,         \* the frame of the top-level table
  Pool,         \* the frames alloc_frame may return
  MaxOthers,    \* bound: how many frames the rest of the kernel holds at a time
  Unmapped,     \* the frames phys_to_virt knows no address for
  VAddrs,       \* the virtual addresses callers use
  Mappings      \* the physical addresses and flags they ask for

Index == 0 .. Entries - 1

\* The flags vmm_map_page accepts, the ones the CPU sets, and all of them.
Settable == {"W", "U", "WT", "CD", "G", "NX"}
CpuFlags == {"ACCESSED", "DIRTY"}
PteFlags == Settable \cup CpuFlags \cup {"HUGE"}

ASSUME VmmAssumption ==
  /\ Entries \in Nat \ {0} /\ PhysPages \in Nat \ {0}
  /\ Pool \cup {Root} \subseteq 0 .. PhysPages - 1
  /\ Root \notin Pool \cup Unmapped
  /\ VAddrs \subseteq [idx : [1 .. 4 -> Index], offset : Nat,
                       upper : {"zeros", "ones", "other"}]
  /\ Mappings \subseteq [paddr : [page : Nat, offset : Nat], flags : SUBSET PteFlags]

VARIABLES
  mem,         \* the frames seen as tables
  free,        \* the frames the allocator has
  others,      \* the frames the rest of the kernel has taken from it
  free_frame,  \* is the pointer space->free_frame set?
  tlb,         \* the translations the CPU has cached
  asked,       \* history: the mappings the successful calls asked for, and how
               \* the CPU has used each of them since
  rc           \* what the last call returned

vars == <<mem, free, others, free_frame, tlb, asked, rc>>

-----------------------------------------------------------------------------
NoEntry == [present |-> FALSE, huge |-> FALSE, page |-> 0, flags |-> {}]

\* What a frame holds before it is cleared: anything, and in particular a
\* present entry.
Garbage == [present |-> TRUE, huge |-> FALSE, page |-> Root, flags |-> {"W"}]

Table(e) == [i \in Index |-> e]

vmm_is_aligned_4k(addr) == addr.offset = 0

\* The upper 16 bits repeat the highest bit of the top-level index.
vmm_is_canonical(v) ==
  v.upper = IF v.idx[1] >= Entries \div 2 THEN "ones" ELSE "zeros"

\* alloc_frame and free_frame, modelled after the physical memory manager.
alloc_frame(fs) == CHOOSE f \in fs : \A g \in fs : f <= g

-----------------------------------------------------------------------------
(* Walking and building the tables.  A walk is at the table in frame       *)
(* w.table, with memory w.mem and the allocator at w.free, or it has       *)
(* stopped with the code w.rc.                                             *)

Walk == [mem |-> mem, free |-> free, table |-> Root, rc |-> "OK"]

Stop(w, code) == [w EXCEPT !.rc = code]

ForgetFrame(w, f) == [w EXCEPT !.free = @ \ {f}, !.rc = "INVAL"]

\* Lines 44-47: a frame without an address goes back to the allocator, or is lost
\* if vmm_space_init was given no free_frame.
GiveBack(w, f) == IF free_frame THEN Stop(w, "INVAL") ELSE ForgetFrame(w, f)

KeepGarbage(m, f) == m

vmm_zero_page(m, f) == [m EXCEPT ![f] = Table(NoEntry)]

\* Lines 40-51: a new table is linked at index i.
NewTable(w, i) ==
  IF w.free = {} THEN Stop(w, "NOMEM")
  ELSE LET f == alloc_frame(w.free) IN
       IF f \in Unmapped THEN GiveBack(w, f)
       ELSE [w EXCEPT
               !.mem = [vmm_zero_page(@, f) EXCEPT ![w.table][i] =
                          [present |-> TRUE, huge |-> FALSE, page |-> f, flags |-> {"W"}]],
               !.free = @ \ {f},
               !.table = f]

get_or_alloc_next_table(w, i) ==
  IF w.rc # "OK" THEN w
  ELSE LET e == w.mem[w.table][i] IN
       IF ~e.present THEN NewTable(w, i)
       ELSE IF e.huge THEN Stop(w, "EXISTS")
       ELSE IF e.page \in Unmapped THEN Stop(w, "INVAL")
       ELSE [w EXCEPT !.table = e.page]

\* One level of the walks of vmm_query_page and vmm_unmap_page.
NextTable(w, i) ==
  IF w.rc # "OK" THEN w
  ELSE LET e == w.mem[w.table][i] IN
       IF ~e.present \/ e.huge THEN Stop(w, "NOT_FOUND")
       ELSE IF e.page \in Unmapped THEN Stop(w, "INVAL")
       ELSE [w EXCEPT !.table = e.page]

Built(v) ==
  get_or_alloc_next_table(
    get_or_alloc_next_table(get_or_alloc_next_table(Walk, v.idx[1]), v.idx[2]), v.idx[3])

Reached(v) == NextTable(NextTable(NextTable(Walk, v.idx[1]), v.idx[2]), v.idx[3])

\* The entry the CPU, and vmm_query_page, end at.
Translation(v) ==
  LET w == Reached(v) IN
  IF w.rc = "OK" THEN mem[w.table][v.idx[4]] ELSE NoEntry

-----------------------------------------------------------------------------
\* Line 78.
Taken(e) == e.present

\* Lines 79-81.
Allowed(flags) == flags \cap Settable

vmm_map_page(v, p, flags) ==
  /\ IF ~vmm_is_canonical(v) \/ ~vmm_is_aligned_4k(v) \/ ~vmm_is_aligned_4k(p)
     THEN rc' = "INVAL" /\ UNCHANGED <<mem, free, asked>>
     ELSE LET w == Built(v)
              i == v.idx[4]
              e == [present |-> TRUE, huge |-> "HUGE" \in Allowed(flags),
                    page |-> p.page % PhysPages, flags |-> Allowed(flags)]
          IN /\ free' = w.free
             /\ IF w.rc # "OK"
                THEN rc' = w.rc /\ mem' = w.mem /\ UNCHANGED asked
                ELSE IF Taken(w.mem[w.table][i])
                THEN rc' = "EXISTS" /\ mem' = w.mem /\ UNCHANGED asked
                ELSE /\ rc' = "OK"
                     /\ mem' = [w.mem EXCEPT ![w.table][i] = e]
                     /\ asked' = [u \in DOMAIN asked \cup {v} |->
                                    IF u = v
                                    THEN [page |-> p.page, flags |-> flags, used |-> {}]
                                    ELSE asked[u]]
  /\ UNCHANGED <<others, free_frame, tlb>>

NoInvalidation(v) == tlb

vmm_invalidate_page(v) == {t \in tlb : t[1] # v}

vmm_unmap_page(v) ==
  /\ IF ~vmm_is_canonical(v) \/ ~vmm_is_aligned_4k(v)
     THEN rc' = "INVAL" /\ UNCHANGED <<mem, tlb, asked>>
     ELSE LET w == Reached(v)
              i == v.idx[4]
          IN IF w.rc # "OK" THEN rc' = w.rc /\ UNCHANGED <<mem, tlb, asked>>
             ELSE IF ~mem[w.table][i].present
             THEN rc' = "NOT_FOUND" /\ UNCHANGED <<mem, tlb, asked>>
             ELSE /\ rc' = "OK"
                  /\ mem' = [mem EXCEPT ![w.table][i] = NoEntry]
                  /\ tlb' = vmm_invalidate_page(v)
                  /\ asked' = [u \in DOMAIN asked \ {v} |-> asked[u]]
  /\ UNCHANGED <<free, others, free_frame>>

\* The code of vmm_query_page, and the mapping it reports.
vmm_query_page(v) ==
  IF ~vmm_is_canonical(v) \/ ~vmm_is_aligned_4k(v) THEN [rc |-> "INVAL"]
  ELSE IF Reached(v).rc # "OK" THEN [rc |-> Reached(v).rc]
  ELSE IF ~Translation(v).present THEN [rc |-> "NOT_FOUND"]
  ELSE [rc |-> "OK", page |-> Translation(v).page, flags |-> Translation(v).flags]

\* The tables that the CPU walks for v, from the root to the lowest one.
TablesOf(v) ==
  LET second == NextTable(Walk, v.idx[1])
      third  == NextTable(second, v.idx[2])
  IN <<Root, second.table, third.table, Reached(v).table>>

\* The flags the CPU sets in entry i of table f when it walks the tables way
\* for v.
Marks(way, v, how, f, i) ==
  IF f = way[4] /\ i = v.idx[4] THEN how
  ELSE IF \E n \in 1 .. 3 : f = way[n] /\ i = v.idx[n] THEN {"ACCESSED"}
  ELSE {}

\* The CPU may use, and then cache, the translation of a page at any time.  It
\* sets the accessed flag in each entry on the way, and on a write the dirty
\* flag in the last one.
Access(v, how) ==
  /\ vmm_is_canonical(v) /\ vmm_is_aligned_4k(v)
  /\ Translation(v).present
  /\ LET way == TablesOf(v) IN
     mem' = [f \in DOMAIN mem |-> [i \in Index |->
               [mem[f][i] EXCEPT !.flags = @ \cup Marks(way, v, how, f, i)]]]
  /\ tlb' = tlb \cup {<<v, Translation(v).page>>}
  /\ asked' = [asked EXCEPT ![v].used = @ \cup how]
  /\ UNCHANGED <<free, others, free_frame, rc>>

\* The rest of the kernel takes frames from the same allocator, and returns them.
OthersAlloc ==
  /\ free # {} /\ Cardinality(others) < MaxOthers
  /\ others' = others \cup {alloc_frame(free)}
  /\ free' = free \ {alloc_frame(free)}
  /\ UNCHANGED <<mem, free_frame, tlb, asked, rc>>

OthersFree ==
  \E f \in others :
    /\ others' = others \ {f}
    /\ free' = free \cup {f}
    /\ UNCHANGED <<mem, free_frame, tlb, asked, rc>>

-----------------------------------------------------------------------------
Init ==   \* after vmm_space_init with a cleared top-level table
  /\ mem = [f \in Pool \cup {Root} |-> Table(IF f = Root THEN NoEntry ELSE Garbage)]
  /\ free = Pool
  /\ others = {}
  /\ free_frame \in BOOLEAN
  /\ tlb = {}
  /\ asked = [v \in {} |-> v]
  /\ rc = "OK"

Next ==
  \/ \E v \in VAddrs, m \in Mappings : vmm_map_page(v, m.paddr, m.flags)
  \/ \E v \in VAddrs : vmm_unmap_page(v)
  \/ \E v \in VAddrs, how \in {{"ACCESSED"}, {"ACCESSED", "DIRTY"}} : Access(v, how)
  \/ OthersAlloc
  \/ OthersFree

Spec == Init /\ [][Next]_vars

-----------------------------------------------------------------------------
Pages == {v \in VAddrs : vmm_is_canonical(v) /\ vmm_is_aligned_4k(v)}

\* Every field holds a value of its type.
TypeOK ==
  /\ mem \in [Pool \cup {Root} ->
                [Index -> [present : BOOLEAN, huge : BOOLEAN,
                           page : 0 .. PhysPages - 1,
                           flags : SUBSET (Settable \cup CpuFlags)]]]
  /\ free \subseteq Pool /\ others \subseteq Pool /\ free_frame \in BOOLEAN
  /\ \A t \in tlb : t[1] \in VAddrs
  /\ DOMAIN asked \subseteq Pages
  /\ rc \in {"OK", "INVAL", "NOMEM", "EXISTS", "NOT_FOUND"}

\* vmm_query_page reports for every page exactly what the last successful map
\* asked for (the part of the physical address that fits into an entry, and the
\* flags vmm_map_page accepts) and how the CPU has used the page since that map,
\* and finds nothing where nothing is mapped: also after maps that ran out of
\* memory half-way, and with no mark left from an earlier mapping of the page.
QueryExact ==
  \A v \in VAddrs :
    LET q == vmm_query_page(v) IN
    /\ (q.rc = "OK") <=> v \in DOMAIN asked
    /\ q.rc = "OK" => /\ q.page = asked[v].page % PhysPages
                      /\ q.flags \ CpuFlags = asked[v].flags \ {"ACCESSED", "DIRTY", "HUGE"}
                      /\ q.flags \cap CpuFlags = asked[v].used

Links(f) == {mem[f][i].page : i \in {j \in Index : mem[f][j].present}}

\* The frames of the three upper levels below the root.
Second == Links(Root)
Third  == UNION {Links(f) : f \in Second}
Lowest == UNION {Links(f) : f \in Third}

\* Every field has its type, and every frame the address space has taken from
\* the allocator is a table that is linked exactly once: none is lost when a
\* call fails half-way, and no two entries share a table.  The one exception is
\* a frame without an address, which is lost if there is no free_frame to
\* return it with.
FramesAreTables ==
  LET tables == Second \cup Third \cup Lowest
      links == UNION {{<<f, i>> : i \in {j \in Index : mem[f][j].present}} :
                        f \in {Root} \cup Second \cup Third}
  IN /\ TypeOK
     /\ tables = (Pool \ Unmapped) \ (free \cup others)
     /\ free_frame => Pool \cap Unmapped \subseteq free \cup others
     /\ Cardinality(links) = Cardinality(tables)

\* The TLB never holds a translation that the tables no longer have.
TlbCoherent == \A t \in tlb : Translation(t[1]).present /\ Translation(t[1]).page = t[2]
=============================================================================
