--------------------------------- MODULE Kmem ---------------------------------
(***************************************************************************)
(* The kernel heap of kernel/mm/kmem.c: a doubly linked list of blocks,    *)
(* each a header followed by its payload, with first-fit allocation,       *)
(* splitting and coalescing.                                               *)
(*                                                                         *)
(* Addresses and sizes are byte counts with the code's header size and     *)
(* alignment.  blocks maps every address that holds a header whose magic   *)
(* is KMEM_MAGIC to the rest of that header: writing a header puts its     *)
(* address into the domain, clearing the magic takes it out.  The payloads *)
(* are written by their owners only, who never forge a header.             *)
(***************************************************************************)
EXTENDS Integers, FiniteSets, Functions

CONSTANTS
  WordMax,      \* largest value of a size_t and of a pointer
  Header,       \* sizeof(kmem_block_t)
  Align,        \* KMEM_ALIGN
  MinSplit,     \* KMEM_MIN_SPLIT
  MaxBlocks,    \* the blocks kmem_validate is prepared to visit
  Arenas,       \* the (base, bytes) kmem_init is called with
  Requests,     \* the sizes kmem_alloc is called with
  Callocs       \* the (count, bytes) kmem_calloc is called with

Word == 0 .. WordMax
NULL == 0

\* kmem_align_up_ptr and kmem_align_up_size, which wrap around.
align_up(v) == (((v + Align - 1) % (WordMax + 1)) \div Align) * Align

\* The arena kmem_init makes of its arguments, or what makes it refuse them.
Usable(base, bytes) ==
  ((bytes - (align_up(base) - base)) \div Align) * Align

BadArena(base, bytes) ==
  \/ base = NULL \/ bytes < Header + MinSplit
  \/ align_up(base) = 0 \/ align_up(base) < base
  \/ bytes <= (align_up(base) - base) + Header + MinSplit
  \/ Usable(base, bytes) <= Header + MinSplit

\* An arena that is not refused is memory that exists: it does not wrap around.
ASSUME KmemAssumption ==
  /\ WordMax \in Nat /\ Header \in Nat \ {0} /\ Align \in Nat \ {0}
  /\ MinSplit \in Nat /\ MaxBlocks \in Nat
  /\ Header % Align = 0 /\ (WordMax + 1) % Align = 0
  /\ Arenas \subseteq Word \X Word
  /\ \A a \in Arenas : BadArena(a[1], a[2]) \/ a[1] + a[2] <= WordMax
  /\ Requests \subseteq Word
  /\ Callocs \subseteq Word \X Word

VARIABLES
  heap,     \* g_heap_base and g_heap_end; both 0 until g_initialized
  blocks,   \* the headers; g_head is always heap.base
  live,     \* history: the payloads handed out and not freed |-> bytes asked for
  result    \* what the last call returned

vars == <<heap, blocks, live, result>>

-----------------------------------------------------------------------------
Payload(b) == b + Header

\* Where the block after b begins.
After(b, size) == align_up(Payload(b) + size)

InHeap(p) == heap.base <= p /\ p < heap.end

\* The headers the arena has room for: no loop over the list goes on longer.
Rounds == (heap.end - heap.base) \div Header

\* The block after b, or NULL at the end of the list or at a bad header.
Following(b) == IF b \in DOMAIN blocks THEN blocks[b].next ELSE NULL

\* The loops over the list: cur from g_head on, after i rounds.
Walk ==
  LET cur[i \in 0 .. Rounds] == IF i = 0 THEN heap.base ELSE Following(cur[i - 1])
  IN cur

Relink(bs, b, p) == IF b = NULL THEN bs ELSE [bs EXCEPT ![b].prev = p]

-----------------------------------------------------------------------------
\* Lines 50-52: is the rest of b after wanted bytes worth a block of its own?
TooSmallToSplit(bs, b, wanted) ==
  LET new == align_up(Payload(b) + wanted) IN
  \/ new + Header >= heap.end
  \/ bs[b].size <= (new - Payload(b)) + Header + MinSplit

kmem_split_if_useful(bs, b, wanted) ==
  IF TooSmallToSplit(bs, b, wanted) THEN bs
  ELSE LET new  == align_up(Payload(b) + wanted)
           rest == [size |-> bs[b].size - (new - Payload(b)) - Header,
                    free |-> TRUE, prev |-> b, next |-> bs[b].next]
           old  == Relink(bs, bs[b].next, new)
       IN [a \in DOMAIN bs \cup {new} |->
             IF a = new THEN rest
             ELSE IF a = b THEN [old[b] EXCEPT !.next = new, !.size = wanted]
             ELSE old[a]]

NoHeaderGained(bs, b) ==
  LET n == bs[b].next
      merged == [bs EXCEPT ![b].size = @ + bs[n].size, ![b].next = bs[n].next]
  IN Restrict(Relink(merged, bs[n].next, b), DOMAIN bs \ {n})

\* One round of the loop of coalesce_forward: b swallows its neighbour.
Absorb(bs, b) ==
  LET n == bs[b].next
      merged == [bs EXCEPT ![b].size = @ + Header + bs[n].size, ![b].next = bs[n].next]
  IN Restrict(Relink(merged, bs[n].next, b), DOMAIN bs \ {n})

\* The conditions of that loop.
Joins(bs, b) ==
  LET n == bs[b].next IN n # NULL /\ bs[n].free /\ After(b, bs[b].size) = n

Round(bs, b) == IF Joins(bs, b) THEN Absorb(bs, b) ELSE bs

kmem_coalesce_forward(bs, b) ==
  LET after[k \in 0 .. Rounds] == IF k = 0 THEN bs ELSE Round(after[k - 1], b)
  IN after[Rounds]

MergeForwardOnly(bs, b) == kmem_coalesce_forward(bs, b)

\* Lines 133-134.
MergeNeighbours(bs, b) ==
  LET forward == kmem_coalesce_forward(bs, b)
      p == forward[b].prev
  IN IF p # NULL /\ forward[p].free THEN kmem_coalesce_forward(forward, p)
     ELSE forward

-----------------------------------------------------------------------------
\* The checks of kmem_validate on block b, which it reaches in round i after
\* block prev, expecting it at cursor.  It does not ask where the last block ends.
BlockValid(b, i, prev, cursor) ==
  /\ i < MaxBlocks /\ b = cursor
  /\ b + Header <= heap.end /\ b \in DOMAIN blocks
  /\ blocks[b].prev = prev
  /\ blocks[b].size <= heap.end - Payload(b)
  /\ After(b, blocks[b].size) # 0 /\ After(b, blocks[b].size) <= heap.end

kmem_validate ==
  LET cur == Walk IN
  /\ heap.base # 0 /\ heap.base < heap.end
  /\ BlockValid(cur[0], 0, NULL, heap.base)
  /\ \A i \in 1 .. Rounds :
       LET prev == cur[i - 1] IN
       cur[i] # NULL => BlockValid(cur[i], i, prev, After(prev, blocks[prev].size))

kmem_init(base, bytes) ==
  IF BadArena(base, bytes)
  THEN result' = "refused" /\ UNCHANGED <<heap, blocks, live>>
  ELSE LET start == align_up(base) IN
       /\ heap' = [base |-> start, end |-> start + Usable(base, bytes)]
       /\ blocks' = [b \in {start} |->
             [size |-> Usable(base, bytes) - Header, free |-> TRUE,
              prev |-> NULL, next |-> NULL]]
       /\ live' = [p \in {} |-> 0]
       /\ result' = IF kmem_validate' THEN "ok" ELSE "corrupt"

\* The first block of the list that is free and large enough.
FirstFit(wanted) ==
  LET cur == Walk
      fits == {i \in 0 .. Rounds : cur[i] \in DOMAIN blocks
                 /\ blocks[cur[i]].free /\ blocks[cur[i]].size >= wanted}
  IN IF fits = {} THEN NULL
     ELSE cur[CHOOSE i \in fits : \A j \in fits : i <= j]

\* The payload size for a request; 0 if rounding it up wraps around.
Wanted(bytes) == align_up(bytes)

\* The block kmem_alloc takes, or NULL.
Chosen(bytes) ==
  IF heap.base = 0 \/ bytes = 0 \/ Wanted(bytes) = 0 THEN NULL
  ELSE FirstFit(Wanted(bytes))

\* The caller asked for this many bytes; after arithmetic it is bytes.
AllocFor(asked, bytes) ==
  LET b == Chosen(bytes)
  IN IF b = NULL
     THEN result' = "null" /\ UNCHANGED <<heap, blocks, live>>
     ELSE /\ blocks' = [kmem_split_if_useful(blocks, b, Wanted(bytes)) EXCEPT ![b].free = FALSE]
          /\ live' = [p \in DOMAIN live \cup {Payload(b)} |->
                        IF p = Payload(b) THEN asked ELSE live[p]]
          /\ result' = "pointer"
          /\ UNCHANGED heap

kmem_alloc(bytes) == AllocFor(bytes, bytes)

NeverOverflows(count, bytes) == FALSE

\* Line 118.
ProductOverflows(count, bytes) == count # 0 /\ bytes > WordMax \div count

kmem_calloc(count, bytes) ==
  IF ProductOverflows(count, bytes)
  THEN result' = "null" /\ UNCHANGED <<heap, blocks, live>>
  ELSE AllocFor(count * bytes, (count * bytes) % (WordMax + 1))

NoDoubleFreeTest(p) == InHeap(p) /\ p % Align = 0 /\ p - Header \in DOMAIN blocks

\* What kmem_free_checked takes for a payload to be freed.
Freeable(p) ==
  /\ InHeap(p) /\ p % Align = 0
  /\ p >= Header /\ InHeap(p - Header) /\ p - Header \in DOMAIN blocks
  /\ ~blocks[p - Header].free

kmem_free_checked(p) ==
  IF p = NULL THEN result' = "ok" /\ UNCHANGED <<heap, blocks, live>>
  ELSE IF ~Freeable(p) THEN result' = "refused" /\ UNCHANGED <<heap, blocks, live>>
  ELSE LET b == p - Header IN
       /\ blocks' = MergeNeighbours([blocks EXCEPT ![b].free = TRUE], b)
       /\ live' = Restrict(live, DOMAIN live \ {p})
       /\ UNCHANGED heap
       /\ result' = IF kmem_validate' THEN "ok" ELSE "corrupt"

\* One round of the loop of kmem_get_stats.
Counted(st, b) ==
  IF b \notin DOMAIN blocks THEN st
  ELSE IF blocks[b].free
  THEN [st EXCEPT !.block_count = @ + 1, !.free_count = @ + 1,
                  !.free_bytes = @ + blocks[b].size,
                  !.largest_free = IF blocks[b].size > @ THEN blocks[b].size ELSE @]
  ELSE [st EXCEPT !.block_count = @ + 1, !.used_bytes = @ + blocks[b].size]

kmem_get_stats ==
  LET cur == Walk
      st[i \in 0 .. Rounds] ==
        IF i = 0 THEN [total_bytes |-> heap.end - heap.base, block_count |-> 0, free_count |-> 0,
                       free_bytes |-> 0, used_bytes |-> 0, largest_free |-> 0]
        ELSE Counted(st[i - 1], cur[i - 1])
  IN st[Rounds]

-----------------------------------------------------------------------------
Init ==
  /\ heap = [base |-> 0, end |-> 0]
  /\ blocks = [b \in {} |-> 0]
  /\ live = [p \in {} |-> 0]
  /\ result = "ok"

\* Every pointer that could be a payload, and one that is not aligned.
Pointers == {NULL, heap.base + Header + 1} \cup
            {p \in heap.base .. heap.end : p % Align = 0}

\* The memory at start holds no header but perhaps the first one, and nobody
\* holds a block: before the first kmem_init (kernel/kernel.c:75), and after
\* everything was freed, when tests/test_kmem.c calls it again.
Vacant(start) == DOMAIN blocks \subseteq {start} /\ live = [p \in {} |-> 0]

\* A kmem_init that is refused may come at any time.
Next ==
  \/ \E a \in Arenas : /\ BadArena(a[1], a[2]) \/ Vacant(align_up(a[1]))
                       /\ kmem_init(a[1], a[2])
  \/ \E n \in Requests : kmem_alloc(n)
  \/ \E c \in Callocs : kmem_calloc(c[1], c[2])
  \/ \E p \in Pointers : kmem_free_checked(p)

Spec == Init /\ [][Next]_vars

-----------------------------------------------------------------------------
\* Every field holds a value of its C type.
TypeOK ==
  /\ heap \in [base : Word, end : Word]
  /\ DOMAIN blocks \subseteq Word
  /\ \A b \in DOMAIN blocks :
        blocks[b] \in [size : Word, free : BOOLEAN, prev : Word, next : Word]
  /\ DOMAIN live \subseteq Word
  /\ \A p \in DOMAIN live : live[p] \in Nat
  /\ result \in {"ok", "refused", "corrupt", "null", "pointer"}

\* Every field has its type and the list tiles the arena: each block begins
\* where the one before it ends, both links agree, no header exists outside the
\* list, and (which kmem_validate does not ask) the last block ends at
\* g_heap_end, so that no byte is ever lost.  Freeing coalesces completely: no
\* two neighbouring blocks are both free, so that one block is left when
\* everything has been freed, as tests/test_kmem.c expects after one pattern of
\* frees.
HeapTiled ==
  LET end(b) == Payload(b) + blocks[b].size IN
  /\ TypeOK
  /\ heap.base # 0 =>
       /\ heap.base \in DOMAIN blocks /\ blocks[heap.base].prev = NULL
       /\ \A b \in DOMAIN blocks :
            /\ end(b) <= heap.end
            /\ blocks[b].next = IF end(b) = heap.end THEN NULL ELSE end(b)
            /\ blocks[b].next # NULL =>
                 /\ blocks[b].next \in DOMAIN blocks /\ blocks[blocks[b].next].prev = b
                 /\ ~(blocks[b].free /\ blocks[blocks[b].next].free)
            /\ b # heap.base =>
                 blocks[b].prev \in DOMAIN blocks /\ blocks[blocks[b].prev].next = b

\* The used blocks are the live allocations, each with room for what was asked,
\* and the numbers of kmem_get_stats account for them and for every byte of the
\* arena.
LiveBlocksIntact ==
  LET st == kmem_get_stats IN
  /\ DOMAIN live = {Payload(b) : b \in {c \in DOMAIN blocks : ~blocks[c].free}}
  /\ \A p \in DOMAIN live : live[p] <= blocks[p - Header].size
  /\ heap.base # 0 =>
       /\ st.free_bytes + st.used_bytes + st.block_count * Header = st.total_bytes
       /\ st.block_count = st.free_count + Cardinality(DOMAIN live)
       /\ \A b \in DOMAIN blocks : blocks[b].free => blocks[b].size <= st.largest_free

\* kmem_alloc takes the free block with the lowest address that has room for
\* the bytes asked for, and returns NULL only if there is none, nothing was
\* asked for, or rounding the request up wraps around.
AllocExact ==
  \A n \in Requests :
    LET fits == {b \in DOMAIN blocks : blocks[b].free /\ blocks[b].size >= n}
    IN IF fits = {} \/ n = 0 \/ n + Align - 1 > WordMax THEN Chosen(n) = NULL
       ELSE Chosen(n) \in fits /\ \A b \in fits : Chosen(n) <= b

\* kmem_free_checked accepts exactly the live allocations (and NULL): not a
\* block that was freed and then merged, split or reused, not a pointer into a
\* block, not an unaligned one.
FreeExact == {p \in Pointers : Freeable(p)} = DOMAIN live

\* kmem_validate finds no fault with any heap that has no more blocks than it
\* is prepared to visit.
ValidateAccepts == heap.base # 0 /\ Rounds <= MaxBlocks => kmem_validate

\* After any history of splits, merges and reuse, kmem_alloc and
\* kmem_free_checked accept exactly the requests they should, and kmem_validate
\* accepts the heap.
CallsExact == AllocExact /\ FreeExact /\ ValidateAccepts

Heap == INSTANCE AbstractHeap WITH arena <- heap.base .. heap.end - 1

\* The heap implements the abstract one.
RefinesHeap == Heap!Spec
=============================================================================
