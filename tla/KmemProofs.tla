------------------------------ MODULE KmemProofs ------------------------------
(***************************************************************************)
(* That the kernel heap stays a tiling of its arena, accepts exactly the   *)
(* calls it should, keeps the live payloads and the statistics true, and   *)
(* implements the abstract heap, for any header size, alignment, arenas    *)
(* and requests.                                                           *)
(***************************************************************************)
EXTENDS Kmem, WellFoundedInduction, TLAPS

-----------------------------------------------------------------------------
(* The invariant, as a predicate of values, so that it can also be said of *)
(* the headers between two merges.                                         *)

Aligned(v) == v % Align = 0

BlockT == [size : Nat, free : BOOLEAN, prev : Nat, next : Nat]

\* Where the payload of b ends.
EndOf(bs, b) == Payload(b) + bs[b].size

\* Block b has its place in the list that tiles base .. end - 1.
Linked(bs, base, end, b) ==
  /\ bs[b] \in BlockT
  /\ b \in Nat /\ base <= b /\ Aligned(b)
  /\ EndOf(bs, b) <= end
  /\ bs[b].next = IF EndOf(bs, b) = end THEN NULL ELSE EndOf(bs, b)
  /\ bs[b].next # NULL => bs[b].next \in DOMAIN bs /\ bs[bs[b].next].prev = b
  /\ b # base => bs[b].prev \in DOMAIN bs /\ bs[bs[b].prev].next = b

\* A block ends before any later one begins.
InOrder(bs) == \A b, c \in DOMAIN bs : b < c => EndOf(bs, b) <= c

Chain(bs, base, end) ==
  /\ base \in DOMAIN bs /\ bs[base].prev = NULL
  /\ \A b \in DOMAIN bs : Linked(bs, base, end, b)
  /\ InOrder(bs)

\* No block, except perhaps those of X, is free together with the next one.
NoTwoFreeBut(bs, X) ==
  \A b \in DOMAIN bs \ X :
    bs[b].next # NULL => ~(bs[b].free /\ bs[bs[b].next].free)

Used(bs) == {b \in DOMAIN bs : ~bs[b].free}

\* The used blocks are what callers hold, each large enough.
Owned(bs, lv) ==
  /\ DOMAIN lv = {Payload(b) : b \in Used(bs)}
  /\ \A b \in Used(bs) : /\ lv[Payload(b)] \in Nat \ {0}
                         /\ lv[Payload(b)] <= bs[b].size

ArenaOK(h) ==
  /\ h \in [base : Word, end : Word]
  /\ h.base # 0 /\ Aligned(h.base) /\ Aligned(h.end) /\ h.base + Header < h.end

\* A heap in use.
Ready(h, bs, lv) ==
  /\ ArenaOK(h)
  /\ Chain(bs, h.base, h.end)
  /\ NoTwoFreeBut(bs, {})
  /\ Owned(bs, lv)

\* The heap before the first kmem_init that is not refused.
Unborn(h, bs, lv) ==
  /\ h = [base |-> 0, end |-> 0]
  /\ bs = [b \in {} |-> 0] /\ lv = [p \in {} |-> 0]

Results == {"ok", "refused", "corrupt", "null", "pointer"}

KmemInv ==
  /\ result \in Results
  /\ Unborn(heap, blocks, live) \/ Ready(heap, blocks, live)

-----------------------------------------------------------------------------
(* Numbers.                                                                *)

\* A set of numbers that is not empty has a least one.
LEMMA Least ==
  ASSUME NEW S \in SUBSET Nat, S # {}
  PROVE  \E m \in S : \A k \in S : m <= k
<1>. DEFINE R == OpToRel(<, Nat)
<1>1. PICK m \in S : \A k \in S : <<k, m>> \notin R
  <2>1. IsWellFoundedOn(R, Nat)
    BY NatLessThanWellFounded, Zenon
  <2>. QED
    BY <2>1, WFMin, Zenon
<1>2. ASSUME NEW k \in S PROVE m <= k
  <2>1. ~(k < m)
    BY <1>1, Zenon DEF OpToRel
  <2>. QED
    BY <2>1
<1>. QED
  BY <1>2, Zenon

\* Induction up to n: a set that has 0 and, with k below n, also k + 1.
LEMMA UpTo ==
  ASSUME NEW n \in Nat, NEW S, 0 \in S, \A k \in 0 .. n - 1 : k \in S => k + 1 \in S
  PROVE  0 .. n \subseteq S
<1>. SUFFICES ASSUME NEW x \in 0 .. n, x \notin S PROVE FALSE
  BY Zenon
<1>. DEFINE T == {k \in 0 .. n : k \notin S}
<1>1. T \in SUBSET Nat /\ T # {}
  OBVIOUS
<1>2. PICK m \in T : \A k \in T : m <= k
  BY <1>1, Least, Zenon
<1>3. m \in 0 .. n /\ m \notin S /\ m # 0
  BY <1>2, Zenon
<1>4. m - 1 \in 0 .. n - 1 /\ m - 1 \in 0 .. n /\ ~(m <= m - 1) /\ m - 1 + 1 = m
  BY <1>3
<1>5. m - 1 \in S
  BY <1>2, <1>4, Zenon
<1>. QED
  BY <1>3, <1>4, <1>5

\* The constants.
LEMMA Sizes ==
  /\ WordMax \in Nat /\ Header \in Nat \ {0} /\ Align \in Nat \ {0} /\ MinSplit \in Nat
  /\ MaxBlocks \in Nat /\ Aligned(Header) /\ Aligned(WordMax + 1)
BY KmemAssumption, Zenon DEF Aligned

\* Division with remainder.
LEMMA Quotient ==
  ASSUME NEW A \in Nat \ {0}, NEW v \in Nat
  PROVE  /\ v \div A \in Nat
         /\ (v \div A) * A <= v /\ v < (v \div A) * A + A
OBVIOUS

\* The multiples are the numbers that leave no remainder.
LEMMA Multiple ==
  ASSUME NEW A \in Nat \ {0}, NEW q \in Nat
  PROVE  q * A \in Nat /\ (q * A) % A = 0
OBVIOUS

\* A number that leaves no remainder is a multiple.
LEMMA NoRemainder ==
  ASSUME NEW A \in Nat \ {0}, NEW v \in Nat, v % A = 0
  PROVE  v = (v \div A) * A
OBVIOUS

\* Multiples lie a whole period apart.
LEMMA Periods ==
  ASSUME NEW A \in Nat \ {0}, NEW p \in Nat, NEW q \in Nat
  PROVE  /\ p * A + q * A = (p + q) * A
         /\ p < q => p * A + A <= q * A
         /\ p * A < q * A => p < q
         /\ p <= q => q * A - p * A = (q - p) * A /\ q - p \in Nat
<1>1. p * A + q * A = (p + q) * A
  OBVIOUS
<1>2. p < q => p * A + A <= q * A
  OBVIOUS
<1>3. q <= p => q * A <= p * A
  OBVIOUS
<1>4. p * A \in Nat /\ q * A \in Nat
  OBVIOUS
<1>5. p * A < q * A => p < q
  BY ONLY <1>3, <1>4, p \in Nat, q \in Nat
<1>6. p <= q => q * A - p * A = (q - p) * A /\ q - p \in Nat
  OBVIOUS
<1>. QED
  BY <1>1, <1>2, <1>5, <1>6, Zenon

\* An aligned number, as a multiple of the alignment.
LEMMA AsMultiple ==
  ASSUME NEW v \in Nat, Aligned(v)
  PROVE  \E q \in Nat : v = q * Align
BY Sizes, Quotient, NoRemainder, Zenon DEF Aligned

\* Every multiple of the alignment is aligned.
LEMMA MultipleAligned ==
  ASSUME NEW q \in Nat
  PROVE  q * Align \in Nat /\ Aligned(q * Align)
BY Sizes, Multiple, Zenon DEF Aligned

\* Sums and differences of aligned numbers are aligned, and of two different
\* ones the larger is larger by a whole period.
LEMMA AlignedSum ==
  ASSUME NEW v \in Nat, NEW w \in Nat, Aligned(v), Aligned(w)
  PROVE  /\ Aligned(v + w)
         /\ v < w => v + Align <= w
         /\ v <= w => Aligned(w - v)
<1>1. PICK p \in Nat : v = p * Align
  BY AsMultiple, Zenon
<1>2. PICK q \in Nat : w = q * Align
  BY AsMultiple, Zenon
<1>3. Align \in Nat \ {0}
  BY Sizes, Zenon
<1>4. p + q \in Nat /\ (p < q \/ q <= p)
  OBVIOUS
<1>5. /\ v + w = (p + q) * Align
      /\ p < q => v + Align <= w
      /\ v < w => p < q
      /\ p <= q => w - v = (q - p) * Align /\ q - p \in Nat
  BY Periods, <1>1, <1>2, <1>3, Zenon
<1>6. v <= w => p <= q
  <2>1. q < p => w + Align <= v
    BY Periods, <1>1, <1>2, <1>3, Zenon
  <2>. QED
    BY ONLY <2>1, <1>3, v \in Nat, w \in Nat, p \in Nat, q \in Nat
<1>. QED
  BY <1>4, <1>5, <1>6, MultipleAligned, Zenon

\* kmem_align_up_ptr: the least aligned number that is not smaller, or 0 if
\* the sum wraps around.
LEMMA AlignUp ==
  ASSUME NEW v \in Nat
  PROVE  /\ v + Align - 1 <= WordMax =>
              /\ align_up(v) \in Word /\ Aligned(align_up(v))
              /\ v <= align_up(v) /\ align_up(v) < v + Align
         /\ v <= WordMax /\ WordMax < v + Align - 1 => align_up(v) = 0
<1>. DEFINE s == v + Align - 1
            q == s \div Align
<1>1. /\ Align \in Nat \ {0} /\ WordMax \in Nat /\ s \in Nat
  BY Sizes
<1>2. ASSUME s <= WordMax
      PROVE  /\ align_up(v) \in Word /\ Aligned(align_up(v))
             /\ v <= align_up(v) /\ align_up(v) < v + Align
  <2>1. s % (WordMax + 1) = s
    BY ONLY <1>1, <1>2
  <2>2. align_up(v) = q * Align
    BY <2>1, Zenon DEF align_up
  <2>3. q \in Nat /\ q * Align <= s /\ s < q * Align + Align
    BY <1>1, Quotient, Zenon
  <2>. HIDE DEF q
  <2>4. q * Align \in Nat /\ Aligned(q * Align)
    BY <2>3, MultipleAligned, Zenon
  <2>5. q * Align <= WordMax /\ v <= q * Align /\ q * Align < v + Align
    BY <1>1, <1>2, <2>3, <2>4
  <2>6. q * Align \in Word
    BY ONLY <1>1, <2>4, <2>5 DEF Word
  <2>. QED
    BY <2>2, <2>4, <2>5, <2>6, Zenon
<1>3. ASSUME v <= WordMax, WordMax < s PROVE align_up(v) = 0
  <2>0. Align <= WordMax + 1
    <3>1. 0 \in Nat /\ WordMax + 1 \in Nat /\ 0 < WordMax + 1 /\ 0 % Align = 0
      BY <1>1
    <3>2. 0 + Align <= WordMax + 1
      BY <3>1, Sizes, AlignedSum, Zenon DEF Aligned
    <3>. QED
      BY <1>1, <3>2
  <2>1. s - (WordMax + 1) \in 0 .. Align - 1 /\ s - (WordMax + 1) < WordMax + 1
    BY <1>1, <1>3, <2>0
  <2>2. s % (WordMax + 1) = s - (WordMax + 1)
    BY ONLY <1>1, <2>1, <1>3
  <2>3. (s - (WordMax + 1)) \div Align = 0
    BY ONLY <1>1, <2>1
  <2>4. 0 * Align = 0
    BY <1>1
  <2>. QED
    BY <2>2, <2>3, <2>4, Zenon DEF align_up
<1>. QED
  BY <1>2, <1>3, Zenon

\* An aligned word stays where it is.
LEMMA AlignedStays ==
  ASSUME NEW v \in Word, Aligned(v)
  PROVE  align_up(v) = v
<1>1. /\ Align \in Nat \ {0} /\ WordMax \in Nat /\ Aligned(WordMax + 1)
      /\ v \in Nat /\ WordMax + 1 \in Nat /\ v < WordMax + 1
  BY Sizes DEF Word
<1>2. v + Align <= WordMax + 1
  BY <1>1, AlignedSum, Zenon
<1>3. v + Align - 1 <= WordMax
  BY ONLY <1>1, <1>2
<1>4. /\ align_up(v) \in Word /\ Aligned(align_up(v))
      /\ v <= align_up(v) /\ align_up(v) < v + Align
  BY <1>1, <1>3, AlignUp, Zenon
<1>5. align_up(v) \in Nat /\ (v < align_up(v) => v + Align <= align_up(v))
  <2>1. align_up(v) \in Nat
    BY <1>1, <1>4 DEF Word
  <2>. QED
    BY <1>1, <1>4, <2>1, AlignedSum, Zenon
<1>. QED
  BY ONLY <1>1, <1>4, <1>5

-----------------------------------------------------------------------------
(* What the operations do to the fields of the headers.                    *)

\* The fields of a header.
LEMMA Fields ==
  ASSUME NEW r \in BlockT
  PROVE  r.size \in Nat /\ r.free \in BOOLEAN /\ r.prev \in Nat /\ r.next \in Nat
BY DEF BlockT

\* cs is bs with block b marked free or used.
IsMarked(cs, bs, b, f) ==
  /\ DOMAIN cs = DOMAIN bs
  /\ \A a \in DOMAIN bs :
       /\ cs[a] \in BlockT
       /\ cs[a].size = bs[a].size /\ cs[a].prev = bs[a].prev /\ cs[a].next = bs[a].next
       /\ a # b => cs[a].free = bs[a].free
  /\ cs[b].free = f

\* Setting the free mark of a header (kmem_alloc, kmem_free_checked) changes
\* nothing else.
LEMMA Marked ==
  ASSUME NEW bs, \A a \in DOMAIN bs : bs[a] \in BlockT, NEW b \in DOMAIN bs, NEW f \in BOOLEAN
  PROVE  IsMarked([bs EXCEPT ![b].free = f], bs, b, f)
<1>. DEFINE cs == [bs EXCEPT ![b].free = f]
<1>1. DOMAIN cs = DOMAIN bs
  BY Zenon
<1>2. cs[b] = [bs[b] EXCEPT !.free = f] /\ \A a \in DOMAIN bs : a # b => cs[a] = bs[a]
  BY Zenon
<1>. HIDE DEF cs
<1>3. ASSUME NEW r \in BlockT
      PROVE  /\ [r EXCEPT !.free = f] \in BlockT /\ [r EXCEPT !.free = f].free = f
             /\ [r EXCEPT !.free = f].size = r.size /\ [r EXCEPT !.free = f].prev = r.prev
             /\ [r EXCEPT !.free = f].next = r.next
  BY DEF BlockT
<1>. QED
  BY <1>1, <1>2, <1>3, ZenonT(30) DEF IsMarked, cs

\* r is the header at a after block b has swallowed the next one.
IsAbsorbedAt(r, bs, b, a) ==
  LET n == bs[b].next IN
  /\ r \in BlockT /\ r.free = bs[a].free
  /\ a # b => r.size = bs[a].size /\ r.next = bs[a].next
  /\ a = b => r.size = bs[b].size + Header + bs[n].size /\ r.next = bs[n].next
  /\ a # bs[n].next => r.prev = bs[a].prev
  /\ a = bs[n].next => r.prev = b

IsAbsorbed(cs, bs, b) ==
  /\ DOMAIN cs = DOMAIN bs \ {bs[b].next}
  /\ \A a \in DOMAIN bs \ {bs[b].next} : IsAbsorbedAt(cs[a], bs, b, a)

\* Header r is header s of block a, except that m is given the previous block p.
IsRelinked(r, s, a, m, p) ==
  /\ r \in BlockT /\ r.size = s.size /\ r.free = s.free /\ r.next = s.next
  /\ a # m => r.prev = s.prev
  /\ a = m => r.prev = p

\* Relink sets one back pointer, or nothing when there is no next block.
LEMMA Relinked ==
  ASSUME NEW bs, \A a \in DOMAIN bs : bs[a] \in BlockT, NULL \notin DOMAIN bs, NEW m, NEW p \in Nat
  PROVE  /\ DOMAIN Relink(bs, m, p) = DOMAIN bs
         /\ \A a \in DOMAIN bs : IsRelinked(Relink(bs, m, p)[a], bs[a], a, m, p)
<1>. DEFINE cs == [bs EXCEPT ![m].prev = p]
<1>1. CASE m = NULL
  BY <1>1, Zenon DEF Relink, IsRelinked
<1>2. CASE m # NULL
  <2>1. Relink(bs, m, p) = cs
    BY <1>2, Zenon DEF Relink
  <2>2. /\ DOMAIN cs = DOMAIN bs
        /\ m \in DOMAIN bs => cs[m] = [bs[m] EXCEPT !.prev = p]
        /\ \A a \in DOMAIN bs : a # m => cs[a] = bs[a]
    BY Zenon
  <2>. HIDE DEF cs
  <2>3. ASSUME NEW r \in BlockT
        PROVE  IsRelinked([r EXCEPT !.prev = p], r, m, m, p)
    BY Zenon DEF BlockT, IsRelinked
  <2>4. ASSUME NEW a \in DOMAIN bs
        PROVE  IsRelinked(cs[a], bs[a], a, m, p)
    <3>1. CASE a = m
      <4>1. cs[m] = [bs[m] EXCEPT !.prev = p] /\ bs[m] \in BlockT
        BY <2>2, <3>1, Zenon
      <4>. QED
        BY <2>3, <3>1, <4>1, Zenon
    <3>2. CASE a # m
      BY <2>2, <3>2, Zenon DEF IsRelinked
    <3>. QED
      BY <3>1, <3>2, Zenon
  <2>. QED
    BY <2>1, <2>2, <2>4, Zenon
<1>. QED
  BY <1>1, <1>2, Zenon

\* Header r is header s with another size and another next block.
IsResized(r, s, size, n) ==
  r \in BlockT /\ r.size = size /\ r.next = n /\ r.free = s.free /\ r.prev = s.prev

\* Setting size and next of a header keeps its other two fields.
LEMMA Resized ==
  ASSUME NEW r \in BlockT, NEW x \in Nat, NEW y \in Nat
  PROVE  IsResized([r EXCEPT !.size = x, !.next = y], r, x, y)
BY Zenon DEF BlockT, IsResized

\* What one round of kmem_coalesce_forward leaves in the headers.
LEMMA Absorbed ==
  ASSUME NEW bs, \A a \in DOMAIN bs : bs[a] \in BlockT, NULL \notin DOMAIN bs,
         NEW b \in DOMAIN bs, b \in Nat, bs[b].next \in DOMAIN bs, bs[b].next # b
  PROVE  IsAbsorbed(Absorb(bs, b), bs, b)
<1>. DEFINE n == bs[b].next
            grown == bs[b].size + Header + bs[n].size
            merged == [bs EXCEPT ![b].size = @ + Header + bs[n].size, ![b].next = bs[n].next]
            m == bs[n].next
            cs == Relink(merged, m, b)
            header == [bs[b] EXCEPT !.size = grown, !.next = m]
<1>1. /\ bs[b].size \in Nat /\ bs[n].size \in Nat /\ m \in Nat /\ Header \in Nat
  BY Fields, Sizes, Zenon
<1>2. grown \in Nat
  BY ONLY <1>1
<1>3. /\ DOMAIN merged = DOMAIN bs
      /\ \A a \in DOMAIN bs : a # b => merged[a] = bs[a]
  BY Zenon
<1>4. merged[b] = header
  OBVIOUS
<1>5. IsResized(header, bs[b], grown, m)
  BY <1>1, <1>2, Resized, Zenon
<1>6. /\ header \in BlockT /\ header.size = grown /\ header.next = m
      /\ header.free = bs[b].free /\ header.prev = bs[b].prev
  BY <1>5, Zenon DEF IsResized
<1>. HIDE DEF merged, header, grown
<1>7. \A a \in DOMAIN merged : merged[a] \in BlockT
  BY <1>3, <1>4, <1>6, Zenon
<1>8. NULL \notin DOMAIN merged
  BY <1>3, Zenon
<1>9. /\ DOMAIN cs = DOMAIN merged
      /\ \A a \in DOMAIN merged : IsRelinked(cs[a], merged[a], a, m, b)
  BY <1>7, <1>8, Relinked, Zenon
<1>10. Absorb(bs, b) = Restrict(cs, DOMAIN bs \ {n})
  BY Zenon DEF Absorb, merged
<1>. HIDE DEF cs, n
<1>11. /\ DOMAIN Absorb(bs, b) = DOMAIN bs \ {n}
       /\ \A a \in DOMAIN bs \ {n} : Absorb(bs, b)[a] = cs[a]
  BY <1>10, Zenon DEF Restrict
<1>12. b \in DOMAIN bs \ {n}
  BY Zenon DEF n
<1>13. ASSUME NEW a \in DOMAIN bs \ {n}
       PROVE  IsAbsorbedAt(cs[a], bs, b, a)
  <2>1. CASE a = b
    BY <1>3, <1>4, <1>6, <1>9, <2>1, Zenon DEF IsRelinked, IsAbsorbedAt, grown, n
  <2>2. CASE a # b
    <3>1. IsRelinked(cs[a], bs[a], a, m, b)
      BY <1>3, <1>9, <2>2, Zenon
    <3>. QED
      BY <2>2, <3>1, Zenon DEF IsRelinked, IsAbsorbedAt, n
  <2>. QED
    BY <2>1, <2>2, Zenon
<1>14. \A a \in DOMAIN bs \ {n} : IsAbsorbedAt(Absorb(bs, b)[a], bs, b, a)
  BY <1>11, <1>13, Zenon
<1>. QED
  BY <1>11, <1>14, Zenon DEF IsAbsorbed, n

\* r is the header at a after the rest of block b has become a block at new.
IsSplitAt(r, bs, b, new, wanted, a) ==
  /\ r \in BlockT /\ r.free = bs[a].free
  /\ a # b => r.size = bs[a].size /\ r.next = bs[a].next
  /\ a = b => r.size = wanted /\ r.next = new
  /\ a # bs[b].next => r.prev = bs[a].prev
  /\ a = bs[b].next => r.prev = new

IsSplit(cs, bs, b, new, wanted) ==
  /\ DOMAIN cs = DOMAIN bs \cup {new}
  /\ cs[new] = [size |-> bs[b].size - wanted - Header, free |-> TRUE,
                prev |-> b, next |-> bs[b].next]
  /\ \A a \in DOMAIN bs : IsSplitAt(cs[a], bs, b, new, wanted, a)

\* Lines 53-62, when wanted is aligned.
LEMMA Split ==
  ASSUME NEW bs, \A a \in DOMAIN bs : bs[a] \in BlockT, NULL \notin DOMAIN bs,
         NEW b \in DOMAIN bs, b \in Nat, NEW wanted \in Nat, Payload(b) + wanted \notin DOMAIN bs,
         align_up(Payload(b) + wanted) = Payload(b) + wanted, ~TooSmallToSplit(bs, b, wanted)
  PROVE  IsSplit(kmem_split_if_useful(bs, b, wanted), bs, b, Payload(b) + wanted, wanted)
<1>. DEFINE new == Payload(b) + wanted
            m == bs[b].next
            old == Relink(bs, m, new)
            rest == [size |-> bs[b].size - (new - Payload(b)) - Header,
                     free |-> TRUE, prev |-> b, next |-> m]
            header == [old[b] EXCEPT !.next = new, !.size = wanted]
            cs == kmem_split_if_useful(bs, b, wanted)
<1>1. Header \in Nat
  BY Sizes, Zenon
<1>2. new \in Nat /\ new - Payload(b) = wanted
  BY <1>1 DEF Payload
<1>. HIDE DEF new
<1>3. cs = [a \in DOMAIN bs \cup {new} |-> IF a = new THEN rest
                                            ELSE IF a = b THEN header ELSE old[a]]
  BY Zenon DEF kmem_split_if_useful, new
<1>. HIDE DEF cs, old
<1>4. \A a \in DOMAIN bs : IsRelinked(old[a], bs[a], a, m, new)
  BY <1>2, Relinked, Zenon DEF old
<1>5. ASSUME NEW r \in BlockT
      PROVE  IsResized([r EXCEPT !.next = new, !.size = wanted], r, wanted, new)
  BY <1>2, Zenon DEF BlockT, IsResized
<1>6. IsResized(header, old[b], wanted, new)
  BY <1>4, <1>5, Zenon DEF IsRelinked
<1>. HIDE DEF header
<1>7. ASSUME NEW a \in DOMAIN bs
      PROVE  IsSplitAt(cs[a], bs, b, new, wanted, a)
  <2>1. a # new
    BY Zenon DEF new
  <2>2. CASE a = b
    <3>1. cs[a] = header
      BY <1>3, <2>1, <2>2, Zenon
    <3>. QED
      BY <1>4, <1>6, <2>2, <3>1, Zenon DEF IsRelinked, IsResized, IsSplitAt
  <2>3. CASE a # b
    <3>1. cs[a] = old[a]
      BY <1>3, <2>1, <2>3, Zenon
    <3>. QED
      BY <1>4, <2>3, <3>1, Zenon DEF IsRelinked, IsSplitAt
  <2>. QED
    BY <2>2, <2>3, Zenon
<1>8. DOMAIN cs = DOMAIN bs \cup {new} /\ cs[new] = rest
  BY <1>3, Zenon
<1>. QED
  BY <1>2, <1>7, <1>8, Zenon DEF IsSplit, cs, new

-----------------------------------------------------------------------------
(* The list.                                                               *)

\* What being in the list says of a block and of the ones around it.
Placed(bs, base, end, b) ==
  /\ bs[b] \in BlockT /\ b \in Nat \ {0} /\ base <= b /\ Aligned(b)
  /\ bs[b].size \in Nat /\ EndOf(bs, b) \in Nat /\ b < EndOf(bs, b) /\ EndOf(bs, b) <= end
  /\ bs[b].next # NULL =>
       /\ bs[b].next = EndOf(bs, b) /\ bs[b].next \in DOMAIN bs
       /\ bs[bs[b].next].prev = b
  /\ bs[b].next = NULL => EndOf(bs, b) = end
  /\ b # base => bs[b].prev \in DOMAIN bs /\ bs[bs[b].prev].next = b

\* Every block of a well-formed chain is placed as its neighbours say.
LEMMA InChain ==
  ASSUME NEW bs, NEW base \in Nat \ {0}, NEW end \in Nat, Chain(bs, base, end),
         NEW b \in DOMAIN bs
  PROVE  Placed(bs, base, end, b)
<1>1. Linked(bs, base, end, b)
  BY Zenon DEF Chain
<1>2. bs[b] \in BlockT /\ b \in Nat /\ base <= b /\ EndOf(bs, b) <= end /\ Aligned(b)
  BY <1>1, Zenon DEF Linked
<1>3. bs[b].size \in Nat /\ Header \in Nat \ {0}
  BY <1>2, Fields, Sizes, Zenon
<1>4. b # 0 /\ EndOf(bs, b) \in Nat /\ b < EndOf(bs, b) /\ EndOf(bs, b) # NULL
  BY <1>2, <1>3 DEF EndOf, Payload, NULL
<1>5. bs[b].next = NULL => EndOf(bs, b) = end
  BY <1>1, <1>4, Zenon DEF Linked
<1>6. bs[b].next # NULL => bs[b].next = EndOf(bs, b)
  BY <1>1, Zenon DEF Linked
<1>7. /\ bs[b].next # NULL => bs[b].next \in DOMAIN bs /\ bs[bs[b].next].prev = b
      /\ b # base => bs[b].prev \in DOMAIN bs /\ bs[bs[b].prev].next = b
  BY <1>1, Zenon DEF Linked
<1>8. b \in Nat \ {0}
  BY <1>2, <1>4, Zenon
<1>. QED
  BY <1>2, <1>3, <1>4, <1>5, <1>6, <1>7, <1>8, Zenon DEF Placed

\* The blocks as a list of a heap: typed headers, none at address 0, two
\* blocks that follow each other in the right order.
LEMMA ChainOrder ==
  ASSUME NEW bs, NEW base \in Nat \ {0}, NEW end \in Nat, Chain(bs, base, end)
  PROVE  /\ \A a \in DOMAIN bs : bs[a] \in BlockT
         /\ NULL \notin DOMAIN bs
         /\ \A a, c \in DOMAIN bs : a < c => EndOf(bs, a) <= c
         /\ \A a \in DOMAIN bs : bs[a].next # NULL => a < bs[a].next
         /\ bs[base].prev = NULL /\ base \in DOMAIN bs
<1>1. \A a \in DOMAIN bs : bs[a] \in BlockT /\ a \in Nat \ {0} /\ a < EndOf(bs, a)
                           /\ (bs[a].next # NULL => bs[a].next = EndOf(bs, a))
  <2>1. \A a \in DOMAIN bs : Placed(bs, base, end, a)
    BY InChain, Zenon
  <2>. QED
    BY <2>1, Zenon DEF Placed
<1>2. NULL \notin DOMAIN bs
  BY <1>1, Zenon DEF NULL
<1>. QED
  BY <1>1, <1>2, Zenon DEF Chain, InOrder

\* Every block ends at an aligned address of the machine, so that the code's
\* rounding finds the neighbour where it is.
LEMMA EndAligned ==
  ASSUME NEW bs, NEW base \in Nat \ {0}, NEW end \in Word, Aligned(end), Chain(bs, base, end),
         NEW b \in DOMAIN bs
  PROVE  Aligned(EndOf(bs, b)) /\ EndOf(bs, b) \in Word /\ After(b, bs[b].size) = EndOf(bs, b)
<1>1. end \in Nat /\ WordMax \in Nat /\ end <= WordMax
  BY Sizes DEF Word
<1>2. \A a \in DOMAIN bs : Placed(bs, base, end, a)
  BY <1>1, InChain, Zenon
<1>3. Aligned(EndOf(bs, b)) /\ EndOf(bs, b) \in Nat /\ EndOf(bs, b) <= end
  BY <1>2, ZenonT(30) DEF Placed
<1>4. EndOf(bs, b) \in Word
  BY ONLY <1>1, <1>3 DEF Word
<1>. QED
  BY <1>3, <1>4, AlignedStays, Zenon DEF After, EndOf

\* Marking a block leaves the list alone.
LEMMA MarkChain ==
  ASSUME NEW bs, NEW base \in Nat \ {0}, NEW end \in Nat, Chain(bs, base, end),
         NEW b \in DOMAIN bs, NEW f, NEW cs, IsMarked(cs, bs, b, f)
  PROVE  Chain(cs, base, end)
<1>1. \A a \in DOMAIN bs : EndOf(cs, a) = EndOf(bs, a)
  BY Zenon DEF IsMarked, EndOf
<1>2. InOrder(cs)
  BY <1>1, Zenon DEF Chain, InOrder, IsMarked
<1>3. base \in DOMAIN cs /\ cs[base].prev = NULL
  BY Zenon DEF Chain, IsMarked
<1>4. ASSUME NEW a \in DOMAIN cs PROVE Linked(cs, base, end, a)
  <2>1. a \in DOMAIN bs /\ Linked(bs, base, end, a)
    BY Zenon DEF Chain, IsMarked
  <2>2. /\ cs[a] \in BlockT /\ cs[a].prev = bs[a].prev /\ cs[a].next = bs[a].next
        /\ EndOf(cs, a) = EndOf(bs, a)
    BY <1>1, <2>1, Zenon DEF IsMarked
  <2>3. bs[a].next \in DOMAIN bs => cs[bs[a].next].prev = bs[bs[a].next].prev
    BY Zenon DEF IsMarked
  <2>4. bs[a].prev \in DOMAIN bs => cs[bs[a].prev].next = bs[bs[a].prev].next
    BY Zenon DEF IsMarked
  <2>5. DOMAIN cs = DOMAIN bs
    BY Zenon DEF IsMarked
  <2>. QED
    BY <2>1, <2>2, <2>3, <2>4, <2>5, Zenon DEF Linked
<1>. QED
  BY <1>2, <1>3, <1>4, Zenon DEF Chain

\* A block that swallows the next one leaves a list.
LEMMA AbsorbChain ==
  ASSUME NEW bs, NEW base \in Nat \ {0}, NEW end \in Nat, Chain(bs, base, end),
         NEW b \in DOMAIN bs, bs[b].next # NULL, NEW cs, IsAbsorbed(cs, bs, b)
  PROVE  Chain(cs, base, end)
<1>. DEFINE n == bs[b].next
            m == bs[n].next
<1>1. \A a \in DOMAIN bs : Placed(bs, base, end, a)
  BY InChain, Zenon
<1>2. /\ n \in DOMAIN bs /\ n = EndOf(bs, b) /\ bs[n].prev = b
      /\ m # NULL => m \in DOMAIN bs /\ m = EndOf(bs, n) /\ bs[m].prev = n
      /\ m = NULL => EndOf(bs, n) = end
  BY <1>1, Zenon DEF Placed
<1>3. /\ b \in Nat \ {0} /\ base <= b /\ b < n /\ n \in Nat \ {0} /\ n < EndOf(bs, n)
      /\ EndOf(bs, n) \in Nat /\ EndOf(bs, n) <= end
  BY <1>1, <1>2, ZenonT(30) DEF Placed
<1>4. /\ b # n /\ base # n
      /\ m # b /\ m # n /\ m # base
  <2>1. m # NULL => m = EndOf(bs, n)
    BY <1>2, Zenon
  <2>. HIDE DEF m, n
  <2>. QED
    BY <1>3, <2>1 DEF NULL
<1>5. /\ DOMAIN cs = DOMAIN bs \ {n}
      /\ \A a \in DOMAIN bs \ {n} : IsAbsorbedAt(cs[a], bs, b, a)
  BY Zenon DEF IsAbsorbed
<1>6. /\ b \in DOMAIN cs /\ base \in DOMAIN cs /\ (m # NULL => m \in DOMAIN cs)
      /\ base \in DOMAIN bs /\ bs[base].prev = NULL
  BY <1>2, <1>4, <1>5, Zenon DEF Chain
<1>7. /\ EndOf(cs, b) = EndOf(bs, n)
      /\ \A a \in DOMAIN cs : a # b => EndOf(cs, a) = EndOf(bs, a)
  <2>1. cs[b].size = bs[b].size + Header + bs[n].size
    BY <1>5, <1>6, Zenon DEF IsAbsorbedAt
  <2>2. bs[b].size \in Nat /\ bs[n].size \in Nat /\ Header \in Nat
    BY <1>1, <1>2, Sizes, Zenon DEF Placed
  <2>3. n = b + Header + bs[b].size
    BY <1>2, Zenon DEF EndOf, Payload
  <2>4. EndOf(cs, b) = EndOf(bs, n)
    <3>. HIDE DEF n
    <3>. QED
      BY <1>3, <2>1, <2>2, <2>3, SMTT(30) DEF EndOf, Payload
  <2>5. \A a \in DOMAIN cs : a # b => cs[a].size = bs[a].size
    BY <1>5, Zenon DEF IsAbsorbedAt
  <2>. QED
    BY <2>4, <2>5, Zenon DEF EndOf
<1>8. cs[base].prev = NULL
  BY <1>4, <1>5, <1>6, Zenon DEF IsAbsorbedAt
<1>9. InOrder(cs)
  <2>. SUFFICES ASSUME NEW a \in DOMAIN cs, NEW c \in DOMAIN cs, a < c PROVE EndOf(cs, a) <= c
    BY Zenon DEF InOrder
  <2>1. a \in DOMAIN bs /\ c \in DOMAIN bs /\ c # n /\ c \in Nat
    BY <1>1, <1>5, Zenon DEF Placed
  <2>2. \A x, y \in DOMAIN bs : x < y => EndOf(bs, x) <= y
    BY ChainOrder, Zenon
  <2>3. CASE a = b
    <3>1. n <= c
      BY <1>2, <2>1, <2>2, <2>3, Zenon
    <3>2. n < c
      <4>. HIDE DEF n
      <4>. QED
        BY <1>3, <2>1, <3>1
    <3>. QED
      BY <1>2, <1>7, <2>1, <2>2, <2>3, <3>2, ZenonT(30)
  <2>4. CASE a # b
    BY <1>7, <2>1, <2>2, <2>4, Zenon
  <2>. QED
    BY <2>3, <2>4, Zenon
<1>10. ASSUME NEW a \in DOMAIN cs PROVE Linked(cs, base, end, a)
  <2>1. a \in DOMAIN bs /\ a # n /\ Linked(bs, base, end, a) /\ Placed(bs, base, end, a)
    BY <1>1, <1>5, Zenon DEF Chain
  <2>2. IsAbsorbedAt(cs[a], bs, b, a)
    BY <1>5, <2>1, Zenon
  <2>3. cs[a] \in BlockT /\ a \in Nat /\ base <= a /\ Aligned(a)
    BY <2>1, <2>2, Zenon DEF IsAbsorbedAt, Placed
  <2>4. EndOf(cs, a) <= end
    BY <1>3, <1>7, <2>1, Zenon DEF Placed
  <2>5. cs[a].next = IF EndOf(cs, a) = end THEN NULL ELSE EndOf(cs, a)
    <3>1. Linked(bs, base, end, n)
      BY <1>2, Zenon DEF Chain
    <3>2. CASE a = b
      BY <1>7, <2>2, <3>1, <3>2, Zenon DEF IsAbsorbedAt, Linked
    <3>3. CASE a # b
      BY <1>7, <2>1, <2>2, <3>3, Zenon DEF IsAbsorbedAt, Linked
    <3>. QED
      BY <3>2, <3>3, Zenon
  <2>6. ASSUME cs[a].next # NULL
        PROVE  cs[a].next \in DOMAIN cs /\ cs[cs[a].next].prev = a
    <3>1. CASE a = b
      <4>1. cs[a].next = m
        BY <2>2, <3>1, Zenon DEF IsAbsorbedAt
      <4>2. IsAbsorbedAt(cs[m], bs, b, m)
        BY <1>5, <1>6, <2>6, <4>1, Zenon
      <4>. QED
        BY <1>6, <2>6, <3>1, <4>1, <4>2, Zenon DEF IsAbsorbedAt
    <3>2. CASE a # b
      <4>. DEFINE x == bs[a].next
      <4>1. cs[a].next = x
        BY <2>2, <3>2, Zenon DEF IsAbsorbedAt
      <4>2. x \in DOMAIN bs /\ bs[x].prev = a
        BY <2>1, <2>6, <4>1, Zenon DEF Placed
      <4>3. x # n /\ x # m
        BY <1>2, <2>1, <2>6, <3>2, <4>1, <4>2, ZenonT(30)
      <4>4. IsAbsorbedAt(cs[x], bs, b, x) /\ x \in DOMAIN cs
        BY <1>5, <4>2, <4>3, Zenon
      <4>. QED
        BY <4>1, <4>2, <4>3, <4>4, Zenon DEF IsAbsorbedAt
    <3>. QED
      BY <3>1, <3>2, Zenon
  <2>7. ASSUME a # base
        PROVE  cs[a].prev \in DOMAIN cs /\ cs[cs[a].prev].next = a
    <3>1. CASE a = m
      BY <1>5, <1>6, <2>2, <3>1, ZenonT(30) DEF IsAbsorbedAt
    <3>2. CASE a # m
      <4>. DEFINE x == bs[a].prev
      <4>1. cs[a].prev = x
        BY <2>2, <3>2, Zenon DEF IsAbsorbedAt
      <4>2. x \in DOMAIN bs /\ bs[x].next = a
        BY <2>1, <2>7, Zenon DEF Placed
      <4>3. x # n /\ x # b
        BY <2>1, <3>2, <4>2, Zenon
      <4>4. IsAbsorbedAt(cs[x], bs, b, x) /\ x \in DOMAIN cs
        BY <1>5, <4>2, <4>3, Zenon
      <4>. QED
        BY <4>1, <4>2, <4>3, <4>4, Zenon DEF IsAbsorbedAt
    <3>. QED
      BY <3>1, <3>2, Zenon
  <2>. QED
    BY <2>3, <2>4, <2>5, <2>6, <2>7, Zenon DEF Linked
<1>. QED
  BY <1>6, <1>8, <1>9, <1>10, Zenon DEF Chain

\* A block of which the rest becomes a block of its own leaves a list.
LEMMA SplitChain ==
  ASSUME NEW bs, NEW base \in Nat \ {0}, NEW end \in Nat, Chain(bs, base, end),
         NEW b \in DOMAIN bs, NEW wanted \in Nat, NEW new, new = Payload(b) + wanted,
         Aligned(new), wanted + Header < bs[b].size, NEW cs, IsSplit(cs, bs, b, new, wanted)
  PROVE  Chain(cs, base, end) /\ new \notin DOMAIN bs
<1>. DEFINE m == bs[b].next
<1>1. \A a \in DOMAIN bs : Placed(bs, base, end, a)
  BY InChain, Zenon
<1>2. /\ b \in Nat \ {0} /\ base <= b /\ bs[b].size \in Nat /\ Header \in Nat \ {0}
      /\ EndOf(bs, b) = b + Header + bs[b].size /\ EndOf(bs, b) <= end /\ EndOf(bs, b) \in Nat
      /\ new = b + Header + wanted
  BY <1>1, Sizes, Zenon DEF Placed, EndOf, Payload
<1>3. /\ new \in Nat /\ b < new /\ new < EndOf(bs, b) /\ new # NULL /\ base < new /\ new < end
      /\ bs[b].size - wanted - Header \in Nat
      /\ new + Header + (bs[b].size - wanted - Header) = EndOf(bs, b)
  BY <1>2 DEF NULL
<1>4. \A x, y \in DOMAIN bs : x < y => EndOf(bs, x) <= y
  BY ChainOrder, Zenon
<1>5. new \notin DOMAIN bs
  <2>1. new \in DOMAIN bs => EndOf(bs, b) <= new
    BY <1>3, <1>4, Zenon
  <2>. QED
    BY <1>2, <1>3, <2>1
<1>6. /\ DOMAIN cs = DOMAIN bs \cup {new}
      /\ \A a \in DOMAIN bs : IsSplitAt(cs[a], bs, b, new, wanted, a)
  BY Zenon DEF IsSplit
<1>7. /\ cs[new] \in BlockT /\ cs[new].size = bs[b].size - wanted - Header
      /\ cs[new].prev = b /\ cs[new].next = m
  <2>1. cs[new] = [size |-> bs[b].size - wanted - Header, free |-> TRUE, prev |-> b, next |-> m]
    BY Zenon DEF IsSplit
  <2>2. m \in Nat
    BY <1>1, Fields, Zenon DEF Placed
  <2>. QED
    <3>. DEFINE rest == bs[b].size - wanted - Header
    <3>1. rest \in Nat /\ b \in Nat
      BY <1>2, <1>3, Zenon
    <3>2. cs[new] = [size |-> rest, free |-> TRUE, prev |-> b, next |-> m]
      BY <2>1, Zenon
    <3>. HIDE DEF m, rest
    <3>3. /\ cs[new] \in BlockT /\ cs[new].size = rest
          /\ cs[new].prev = b /\ cs[new].next = m
      BY <2>2, <3>1, <3>2 DEF BlockT
    <3>. QED
      BY <3>3, Zenon DEF rest, m
<1>8. /\ EndOf(cs, new) = EndOf(bs, b) /\ EndOf(cs, b) = new
      /\ \A a \in DOMAIN bs : a # b => EndOf(cs, a) = EndOf(bs, a)
  <2>1. EndOf(cs, new) = EndOf(bs, b)
    BY <1>3, <1>7, Zenon DEF EndOf, Payload
  <2>2. cs[b].size = wanted /\ \A a \in DOMAIN bs : a # b => cs[a].size = bs[a].size
    BY <1>6, Zenon DEF IsSplitAt
  <2>. QED
    BY <2>1, <2>2, Zenon DEF EndOf
<1>9. /\ m # NULL => m \in DOMAIN bs /\ m = EndOf(bs, b) /\ bs[m].prev = b
      /\ m # b /\ m # base /\ m # new
      /\ base \in DOMAIN bs /\ bs[base].prev = NULL
  <2>1. m # NULL => m \in DOMAIN bs /\ m = EndOf(bs, b) /\ bs[m].prev = b
    BY <1>1, Zenon DEF Placed
  <2>2. m # b /\ m # base /\ m # new
    <3>. HIDE DEF m
    <3>. QED
      BY <1>2, <1>3, <2>1, SMTT(30) DEF NULL
  <2>. QED
    BY <2>1, <2>2, Zenon DEF Chain
<1>10. base \in DOMAIN cs /\ cs[base].prev = NULL
  BY <1>6, <1>9, Zenon DEF IsSplitAt
<1>11. InOrder(cs)
  <2>. SUFFICES ASSUME NEW a \in DOMAIN cs, NEW c \in DOMAIN cs, a < c PROVE EndOf(cs, a) <= c
    BY Zenon DEF InOrder
  <2>1. a \in Nat /\ c \in Nat
    BY <1>1, <1>3, <1>6, Zenon DEF Placed
  <2>2. CASE a = new
    <3>1. c \in DOMAIN bs /\ b < c
      <4>1. b < c /\ c # new
        BY <1>2, <1>3, <2>1, <2>2, SMTT(30)
      <4>. QED
        BY <4>1, <1>6, Zenon
    <3>. QED
      BY <1>4, <1>8, <2>2, <3>1, Zenon
  <2>3. CASE a = b /\ c = new
    BY <1>3, <1>8, <2>3, SMTT(30)
  <2>4. CASE a = b /\ c # new
    <3>1. EndOf(bs, b) <= c
      BY <1>4, <1>6, <2>4, Zenon
    <3>2. new <= c
      BY <1>2, <1>3, <2>1, <3>1, SMTT(30)
    <3>. QED
      BY <1>8, <2>4, <3>2, Zenon
  <2>5. CASE a # b /\ a # new /\ c = new
    <3>1. a \in DOMAIN bs
      BY <1>6, <2>5, Zenon
    <3>2. /\ a < b => EndOf(bs, a) <= b
          /\ b < a => EndOf(bs, b) <= a
          /\ EndOf(bs, a) \in Nat
      BY <1>1, <1>4, <3>1, Zenon DEF Placed
    <3>3. EndOf(bs, a) <= new
      BY <1>2, <1>3, <2>1, <2>5, <3>2, SMTT(30)
    <3>. QED
      BY <1>8, <2>5, <3>1, <3>3, Zenon
  <2>6. CASE a # b /\ a # new /\ c # new
    BY <1>4, <1>6, <1>8, <2>6, Zenon
  <2>. QED
    BY <2>2, <2>3, <2>4, <2>5, <2>6, ZenonT(30)
<1>12. Linked(bs, base, end, b)
  BY Zenon DEF Chain
<1>13. Linked(cs, base, end, new)
  <2>1. base <= new
    BY <1>2, <1>3
  <2>2. m # NULL => cs[m].prev = new
    BY <1>6, <1>9, Zenon DEF IsSplitAt
  <2>3. cs[b].next = new
    BY <1>6, Zenon DEF IsSplitAt
  <2>4. cs[new].next = IF EndOf(cs, new) = end THEN NULL ELSE EndOf(cs, new)
    BY <1>7, <1>8, <1>12, Zenon DEF Linked
  <2>. QED
    BY <1>2, <1>3, <1>6, <1>7, <1>8, <1>9, <2>1, <2>2, <2>3, <2>4, ZenonT(30) DEF Linked
<1>14. ASSUME NEW a \in DOMAIN bs PROVE Linked(cs, base, end, a)
  <2>1. Linked(bs, base, end, a) /\ Placed(bs, base, end, a) /\ IsSplitAt(cs[a], bs, b, new, wanted, a)
    BY <1>1, <1>6, Zenon DEF Chain
  <2>2. cs[a] \in BlockT /\ a \in Nat /\ base <= a /\ Aligned(a)
    BY <2>1, Zenon DEF IsSplitAt, Placed
  <2>3. EndOf(cs, a) <= end
    <3>1. new <= end
      BY <1>3
    <3>. QED
      BY <1>8, <2>1, <3>1, Zenon DEF Placed
  <2>4. cs[a].next = IF EndOf(cs, a) = end THEN NULL ELSE EndOf(cs, a)
    <3>1. CASE a = b
      <4>1. new # end
        BY <1>3
      <4>. QED
        BY <1>8, <2>1, <3>1, <4>1, ZenonT(30) DEF IsSplitAt
    <3>2. CASE a # b
      BY <1>8, <2>1, <3>2, Zenon DEF IsSplitAt, Linked
    <3>. QED
      BY <3>1, <3>2, Zenon
  <2>5. ASSUME cs[a].next # NULL
        PROVE  cs[a].next \in DOMAIN cs /\ cs[cs[a].next].prev = a
    <3>1. CASE a = b
      BY <1>6, <1>7, <2>1, <3>1, Zenon DEF IsSplitAt
    <3>2. CASE a # b
      <4>. DEFINE x == bs[a].next
      <4>1. cs[a].next = x
        BY <2>1, <3>2, Zenon DEF IsSplitAt
      <4>2. x \in DOMAIN bs /\ bs[x].prev = a
        BY <2>1, <2>5, <4>1, Zenon DEF Placed
      <4>3. x # m
        BY <1>9, <2>5, <3>2, <4>1, <4>2, ZenonT(30)
      <4>4. IsSplitAt(cs[x], bs, b, new, wanted, x) /\ x \in DOMAIN cs
        BY <1>6, <4>2, Zenon
      <4>. QED
        BY <4>1, <4>2, <4>3, <4>4, Zenon DEF IsSplitAt
    <3>. QED
      BY <3>1, <3>2, Zenon
  <2>6. ASSUME a # base
        PROVE  cs[a].prev \in DOMAIN cs /\ cs[cs[a].prev].next = a
    <3>1. CASE a = m
      BY <1>6, <1>7, <2>1, <3>1, Zenon DEF IsSplitAt
    <3>2. CASE a # m
      <4>. DEFINE x == bs[a].prev
      <4>1. cs[a].prev = x
        BY <2>1, <3>2, Zenon DEF IsSplitAt
      <4>2. x \in DOMAIN bs /\ bs[x].next = a
        BY <2>1, <2>6, Zenon DEF Placed
      <4>3. x # b
        BY <3>2, <4>2, Zenon
      <4>4. IsSplitAt(cs[x], bs, b, new, wanted, x) /\ x \in DOMAIN cs
        BY <1>6, <4>2, Zenon
      <4>. QED
        BY <4>1, <4>2, <4>3, <4>4, Zenon DEF IsSplitAt
    <3>. QED
      BY <3>1, <3>2, Zenon
  <2>. QED
    BY <2>2, <2>3, <2>4, <2>5, <2>6, Zenon DEF Linked
<1>. QED
  BY <1>5, <1>6, <1>10, <1>11, <1>13, <1>14, ZenonT(30) DEF Chain

-----------------------------------------------------------------------------
(* Coalescing.                                                             *)

\* The loop of coalesce_forward, when it cannot go round a second time.
LEMMA CoalesceOnce ==
  ASSUME NEW bs, NEW b, Rounds \in Nat \ {0}, ~Joins(Round(bs, b), b)
  PROVE  kmem_coalesce_forward(bs, b) = Round(bs, b)
<1>. DEFINE c == Round(bs, b)
            f == [k \in 0 .. Rounds |-> IF k = 0 THEN bs ELSE c]
            g == CHOOSE h : h = [k \in 0 .. Rounds |-> IF k = 0 THEN bs ELSE Round(h[k - 1], b)]
<1>1. Round(c, b) = c
  BY Zenon DEF Round
<1>. HIDE DEF c
<1>2. f = [k \in 0 .. Rounds |-> IF k = 0 THEN bs ELSE Round(f[k - 1], b)]
  <2>1. ASSUME NEW k \in 0 .. Rounds, k # 0 PROVE Round(f[k - 1], b) = c
    <3>1. k - 1 \in 0 .. Rounds
      BY ONLY Rounds \in Nat \ {0}, k \in 0 .. Rounds, k # 0
    <3>2. CASE k - 1 = 0
      <4>1. f[k - 1] = bs
        BY <3>1, <3>2, Zenon
      <4>. QED
        BY <4>1, Zenon DEF c
    <3>3. CASE k - 1 # 0
      <4>1. f[k - 1] = c
        BY <3>1, <3>3, Zenon
      <4>. QED
        BY <1>1, <4>1, Zenon
    <3>. QED
      BY <3>2, <3>3, Zenon
  <2>. QED
    BY <2>1, Zenon
<1>. HIDE DEF f
<1>3. g = [k \in 0 .. Rounds |-> IF k = 0 THEN bs ELSE Round(g[k - 1], b)]
  BY <1>2, Zenon
<1>4. kmem_coalesce_forward(bs, b) = g[Rounds]
  BY Zenon DEF kmem_coalesce_forward
<1>. HIDE DEF g
<1>0. g[0] = bs /\ \A k \in 1 .. Rounds : g[k] = Round(g[k - 1], b)
  <2>1. 0 \in 0 .. Rounds /\ \A k \in 1 .. Rounds : k \in 0 .. Rounds /\ k # 0
    BY ONLY Rounds \in Nat \ {0}
  <2>. QED
    BY <1>3, <2>1, Zenon
<1>. DEFINE S == {k \in 0 .. Rounds : k # 0 => g[k] = c}
<1>5. 0 \in S
  OBVIOUS
<1>6. ASSUME NEW k \in 0 .. Rounds - 1, k \in S PROVE k + 1 \in S
  <2>1. k + 1 \in 0 .. Rounds /\ k + 1 \in 1 .. Rounds /\ k + 1 # 0 /\ k + 1 - 1 = k
    BY ONLY Rounds \in Nat \ {0}, k \in 0 .. Rounds - 1
  <2>2. g[k + 1] = Round(g[k], b)
    <3>1. g[k + 1] = Round(g[k + 1 - 1], b)
      BY ONLY <1>0, <2>1
    <3>. QED
      BY <2>1, <3>1, Zenon
  <2>3. CASE k = 0
    <3>1. g[k + 1] = c
      BY ONLY <1>0, <2>2, <2>3, Zenon DEF c
    <3>. QED
      BY <2>1, <3>1, Zenon
  <2>4. CASE k # 0
    BY <1>1, <1>6, <2>1, <2>2, <2>4, Zenon
  <2>. QED
    BY <2>3, <2>4, Zenon
<1>7. Rounds \in S
  <2>1. Rounds \in Nat /\ Rounds \in 0 .. Rounds
    OBVIOUS
  <2>2. 0 .. Rounds \subseteq S
    <3>. HIDE DEF S
    <3>. QED
      BY <1>5, <1>6, <2>1, UpTo, Zenon
  <2>. QED
    BY <2>1, <2>2, Zenon
<1>. QED
  BY <1>4, <1>7, Zenon DEF c

\* What merging leaves as it is: the used blocks and their sizes.
SameUsed(cs, bs) ==
  /\ Used(cs) = Used(bs)
  /\ \A a \in Used(bs) : cs[a].size = bs[a].size

\* cs is bs after the free block b has been merged with the next one, if free.
Merged(cs, bs, base, end, X, b) ==
  /\ Chain(cs, base, end) /\ NoTwoFreeBut(cs, X) /\ SameUsed(cs, bs)
  /\ b \in DOMAIN cs /\ cs[b].free /\ cs[b].prev = bs[b].prev

\* coalesce_forward on a free block merges it with the next one if that is
\* free, and then stops, if no other two neighbours after b are free.
LEMMA CoalesceForward ==
  ASSUME NEW bs, NEW base \in Nat \ {0}, NEW end \in Word, Aligned(end), Chain(bs, base, end),
         NEW b \in DOMAIN bs, bs[b].free, NEW X, NoTwoFreeBut(bs, X \cup {b}),
         bs[b].next # NULL => bs[b].next \notin X, Rounds \in Nat \ {0}
  PROVE  Merged(kmem_coalesce_forward(bs, b), bs, base, end, X, b)
<1>. DEFINE n == bs[b].next
            m == bs[n].next
            cs == Round(bs, b)
<1>1. end \in Nat
  BY Sizes DEF Word
<1>2. \A a \in DOMAIN bs : Placed(bs, base, end, a)
  BY <1>1, InChain, Zenon
<1>3. n # NULL => n \in DOMAIN bs /\ After(b, bs[b].size) = n
  <2>1. After(b, bs[b].size) = EndOf(bs, b)
    BY EndAligned, Zenon
  <2>. QED
    BY <1>2, <2>1, Zenon DEF Placed
<1>4. CASE n = NULL \/ ~bs[n].free
  <2>1. ~Joins(bs, b)
    BY <1>4, Zenon DEF Joins
  <2>2. cs = bs
    BY <2>1, Zenon DEF Round
  <2>3. kmem_coalesce_forward(bs, b) = bs
    BY <2>1, <2>2, CoalesceOnce, Zenon
  <2>4. NoTwoFreeBut(bs, X)
    BY <1>4, Zenon DEF NoTwoFreeBut
  <2>. QED
    BY <2>3, <2>4, Zenon DEF Merged, SameUsed
<1>5. CASE n # NULL /\ bs[n].free
  <2>1. Joins(bs, b)
    BY <1>3, <1>5, Zenon DEF Joins
  <2>2. cs = Absorb(bs, b)
    BY <2>1, Zenon DEF Round
  <2>3. b \in Nat /\ n # b
    <3>0. Placed(bs, base, end, b) /\ Placed(bs, base, end, n)
      BY <1>2, <1>3, <1>5, Zenon
    <3>1. b \in Nat /\ b < n
      BY <1>5, <3>0, Zenon DEF Placed
    <3>2. n \in Nat
      BY <3>0, Zenon DEF Placed
    <3>. HIDE DEF n
    <3>. QED
      BY <3>1, <3>2
  <2>4. IsAbsorbed(cs, bs, b)
    <3>1. (\A a \in DOMAIN bs : bs[a] \in BlockT) /\ NULL \notin DOMAIN bs
      BY <1>1, ChainOrder, Zenon
    <3>. QED
      BY <1>3, <1>5, <2>2, <2>3, <3>1, Absorbed, Zenon
  <2>. HIDE DEF cs
  <2>5. Chain(cs, base, end)
    BY <1>1, <1>5, <2>4, AbsorbChain, Zenon
  <2>6. /\ DOMAIN cs = DOMAIN bs \ {n}
        /\ \A a \in DOMAIN bs \ {n} : IsAbsorbedAt(cs[a], bs, b, a)
    BY <2>4, Zenon DEF IsAbsorbed
  <2>7. b \in DOMAIN cs /\ \A a \in DOMAIN cs : cs[a].free = bs[a].free
    BY <2>3, <2>6, Zenon DEF IsAbsorbedAt
  <2>8. m # NULL => m \in DOMAIN bs /\ bs[m].prev = n /\ ~bs[m].free
    <3>1. m # NULL => m \in DOMAIN bs /\ bs[m].prev = n
      BY <1>2, <1>3, <1>5, Zenon DEF Placed
    <3>2. n \in DOMAIN bs \ (X \cup {b})
      BY <1>3, <1>5, <2>3, Zenon
    <3>. QED
      BY <1>5, <3>1, <3>2, Zenon DEF NoTwoFreeBut
  <2>9. \A a \in DOMAIN cs : cs[a].next # NULL => cs[a].next \in DOMAIN cs
    BY <2>5, Zenon DEF Chain, Linked
  <2>10. cs[b].next = m /\ \A a \in DOMAIN cs : a # b => cs[a].next = bs[a].next
    BY <2>6, <2>7, Zenon DEF IsAbsorbedAt
  <2>11. ~Joins(cs, b)
    <3>1. m # NULL => cs[m].free = bs[m].free
      BY <2>7, <2>9, <2>10, Zenon
    <3>. QED
      BY <2>8, <2>10, <3>1, Zenon DEF Joins
  <2>12. NoTwoFreeBut(cs, X)
    <3>. SUFFICES ASSUME NEW a \in DOMAIN cs \ X, cs[a].next # NULL
                  PROVE  ~(cs[a].free /\ cs[cs[a].next].free)
      BY Zenon DEF NoTwoFreeBut
    <3>1. cs[a].free = bs[a].free /\ cs[cs[a].next].free = bs[cs[a].next].free
      BY <2>7, <2>9, Zenon
    <3>2. CASE a = b
      BY <2>8, <2>10, <3>1, <3>2, Zenon
    <3>3. CASE a # b
      <4>1. a \in DOMAIN bs \ (X \cup {b}) /\ cs[a].next = bs[a].next
        BY <2>6, <2>10, <3>3, Zenon
      <4>. QED
        BY <3>1, <4>1, Zenon DEF NoTwoFreeBut
    <3>. QED
      BY <3>2, <3>3, Zenon
  <2>13. SameUsed(cs, bs)
    <3>1. \A a : a \in Used(cs) <=> a \in Used(bs)
      BY <1>5, <2>6, <2>7, Zenon DEF Used
    <3>2. \A a \in Used(bs) : a # b /\ a \in DOMAIN bs \ {n}
      BY <1>5, Zenon DEF Used
    <3>3. \A a \in Used(bs) : cs[a].size = bs[a].size
      BY <2>6, <3>2, Zenon DEF IsAbsorbedAt
    <3>4. Used(cs) = Used(bs)
      BY <3>1, Zenon
    <3>. QED
      BY <3>3, <3>4, Zenon DEF SameUsed
  <2>14. cs[b].free /\ cs[b].prev = bs[b].prev
    <3>1. b # m
      <4>0. /\ Placed(bs, base, end, b) /\ Placed(bs, base, end, n)
            /\ m # NULL => Placed(bs, base, end, m)
        BY <1>2, <1>3, <1>5, <2>8, Zenon
      <4>1. m # NULL => n < m
        BY <4>0, Zenon DEF Placed
      <4>2. b < n /\ n \in Nat /\ b \in Nat \ {0}
        BY <1>5, <4>0, Zenon DEF Placed
      <4>3. m # NULL => m \in Nat
        BY <4>0, Zenon DEF Placed
      <4>. HIDE DEF n, m
      <4>. QED
        BY <4>1, <4>2, <4>3, SMTT(30) DEF NULL
    <3>. QED
      BY <2>6, <2>7, <3>1, Zenon DEF IsAbsorbedAt
  <2>15. kmem_coalesce_forward(bs, b) = cs
    BY <2>11, CoalesceOnce, Zenon DEF cs
  <2>. QED
    BY <2>5, <2>7, <2>12, <2>13, <2>14, <2>15, Zenon DEF Merged
<1>. QED
  BY <1>4, <1>5, Zenon

-----------------------------------------------------------------------------
(* The operations.                                                         *)

\* The headers the arena has room for.
LEMMA RoundsPositive ==
  ASSUME ArenaOK(heap)
  PROVE  /\ Rounds \in Nat \ {0}
         /\ heap.base \in Nat \ {0} /\ heap.end \in Nat /\ heap.end \in Word
         /\ Aligned(heap.base) /\ Aligned(heap.end) /\ heap.base + Header < heap.end
<1>1. /\ heap.base \in Word /\ heap.end \in Word /\ heap.base # 0
      /\ Aligned(heap.base) /\ Aligned(heap.end) /\ heap.base + Header < heap.end
  BY Zenon DEF ArenaOK
<1>2. Header \in Nat \ {0} /\ WordMax \in Nat
  BY Sizes, Zenon
<1>3. heap.base \in Nat \ {0} /\ heap.end \in Nat
  BY <1>1, <1>2 DEF Word
<1>. DEFINE v == heap.end - heap.base
<1>4. v \in Nat /\ Header < v
  BY <1>1, <1>2, <1>3, SMTT(30)
<1>. HIDE DEF v
<1>5. v \div Header \in Nat /\ v < (v \div Header) * Header + Header
  BY <1>2, <1>4, Quotient, Zenon
<1>6. v \div Header # 0
  BY <1>2, <1>4, <1>5, SMTT(30)
<1>. QED
  BY <1>1, <1>3, <1>5, <1>6, Zenon DEF Rounds, v

\* What freeing block b makes of the headers.
Freed(cs, bs, base, end, b) ==
  /\ Chain(cs, base, end) /\ NoTwoFreeBut(cs, {})
  /\ Used(cs) = Used(bs) \ {b}
  /\ \A a \in Used(cs) : cs[a].size = bs[a].size

\* kmem_free_checked gives back one block and no other: the chain stays well
\* formed, no two free blocks touch, and the allocated blocks keep their sizes.
LEMMA FreeBlock ==
  ASSUME ArenaOK(heap), NEW bs, Chain(bs, heap.base, heap.end), NoTwoFreeBut(bs, {}),
         NEW b \in Used(bs)
  PROVE  Freed(MergeNeighbours([bs EXCEPT ![b].free = TRUE], b), bs, heap.base, heap.end, b)
<1>. DEFINE base == heap.base
            end == heap.end
            ms == [bs EXCEPT ![b].free = TRUE]
            fs == kmem_coalesce_forward(ms, b)
            p == bs[b].prev
            gs == kmem_coalesce_forward(fs, p)
<1>1. /\ Rounds \in Nat \ {0} /\ base \in Nat \ {0} /\ end \in Nat /\ end \in Word /\ Aligned(end)
  BY RoundsPositive, Zenon
<1>. HIDE DEF base, end
<1>2. b \in DOMAIN bs /\ ~bs[b].free
  BY Zenon DEF Used
<1>3. Chain(bs, base, end)
  BY Zenon DEF base, end
<1>4. IsMarked(ms, bs, b, TRUE)
  <2>1. \A a \in DOMAIN bs : bs[a] \in BlockT
    BY <1>1, <1>3, ChainOrder, Zenon
  <2>. QED
    BY <1>2, <2>1, Marked, Zenon
<1>. HIDE DEF ms, fs, gs
<1>5. Chain(ms, base, end)
  BY <1>1, <1>2, <1>3, <1>4, MarkChain, ZenonT(30)
<1>6. /\ DOMAIN ms = DOMAIN bs /\ ms[b].free
      /\ \A a \in DOMAIN bs : /\ ms[a].size = bs[a].size /\ ms[a].prev = bs[a].prev
                              /\ ms[a].next = bs[a].next
                              /\ a # b => ms[a].free = bs[a].free
  BY <1>4, Zenon DEF IsMarked
<1>7. \A a \in DOMAIN bs : Placed(bs, base, end, a)
  BY <1>1, <1>3, InChain, Zenon
<1>8. NoTwoFreeBut(ms, {p} \cup {b})
  <2>. SUFFICES ASSUME NEW a \in DOMAIN ms \ ({p} \cup {b}), ms[a].next # NULL
                PROVE  ~(ms[a].free /\ ms[ms[a].next].free)
    BY Zenon DEF NoTwoFreeBut
  <2>1. a \in DOMAIN bs /\ a # p /\ a # b /\ ms[a].next = bs[a].next /\ ms[a].free = bs[a].free
    BY <1>6, Zenon
  <2>2. bs[a].next \in DOMAIN bs /\ bs[bs[a].next].prev = a
    BY <1>7, <2>1, Zenon DEF Placed
  <2>3. bs[a].next # b
    BY <2>1, <2>2, Zenon
  <2>4. ms[bs[a].next].free = bs[bs[a].next].free
    BY <1>6, <2>2, <2>3, Zenon
  <2>. QED
    BY <2>1, <2>4, Zenon DEF NoTwoFreeBut
<1>9. p \in DOMAIN bs => p < b /\ p \in Nat /\ bs[p].next = b
  <2>1. b = base => p = NULL
    BY <1>3, Zenon DEF Chain
  <2>2. NULL \notin DOMAIN bs /\ b # NULL
    BY <1>1, <1>2, <1>3, ChainOrder, Zenon
  <2>3. b # base => bs[p].next = b
    BY <1>2, <1>7, Zenon DEF Placed
  <2>4. p \in DOMAIN bs => bs[p].next = b
    BY <2>1, <2>2, <2>3, Zenon
  <2>5. p \in DOMAIN bs => /\ p \in Nat \ {0} /\ p < EndOf(bs, p)
                           /\ bs[p].next # NULL => bs[p].next = EndOf(bs, p)
    BY <1>7, Zenon DEF Placed
  <2>6. \A x \in Nat \ {0} : x \in Nat
    OBVIOUS
  <2>. QED
    BY <2>2, <2>4, <2>5, <2>6, Zenon
<1>10. b # base => p \in DOMAIN bs
  BY <1>2, <1>7, Zenon DEF Placed
<1>11. b = base => p = NULL
  BY <1>3, Zenon DEF Chain
<1>12. ms[b].next # NULL => ms[b].next \notin {p}
  <2>. DEFINE n == bs[b].next
  <2>1. /\ b \in Nat \ {0}
        /\ n # NULL => n = EndOf(bs, b) /\ b < EndOf(bs, b) /\ EndOf(bs, b) \in Nat
    BY <1>2, <1>7, Zenon DEF Placed
  <2>2. ms[b].next = n
    BY <1>2, <1>6, Zenon
  <2>3. n # NULL => n # p
    <3>. HIDE DEF n, p
    <3>1. p = NULL \/ (p \in Nat /\ p < b)
      BY <1>9, <1>10, <1>11, Zenon
    <3>. QED
      BY <2>1, <3>1
  <2>. QED
    BY <2>2, <2>3, Zenon
<1>13. Merged(fs, ms, base, end, {p}, b)
  BY <1>1, <1>2, <1>5, <1>6, <1>8, <1>12, CoalesceForward, ZenonT(30) DEF fs
<1>14. /\ Chain(fs, base, end) /\ NoTwoFreeBut(fs, {p}) /\ SameUsed(fs, ms)
       /\ b \in DOMAIN fs /\ fs[b].free /\ fs[b].prev = p
  BY <1>2, <1>6, <1>13, Zenon DEF Merged
<1>15. Used(ms) = Used(bs) \ {b} /\ \A a \in Used(ms) : ms[a].size = bs[a].size
  <2>1. \A a : a \in Used(ms) <=> a \in Used(bs) \ {b}
    BY <1>2, <1>6, Zenon DEF Used
  <2>2. \A a \in Used(ms) : ms[a].size = bs[a].size
    BY <1>6, Zenon DEF Used
  <2>3. Used(ms) = Used(bs) \ {b}
    BY <2>1, Zenon
  <2>. QED
    BY <2>2, <2>3, Zenon
<1>16. CASE p # NULL /\ fs[p].free
  <2>1. MergeNeighbours(ms, b) = gs
    BY <1>14, <1>16, Zenon DEF MergeNeighbours, fs, gs
  <2>2. p \in DOMAIN fs
    <3>1. Placed(fs, base, end, b)
      BY <1>1, <1>14, InChain, Zenon
    <3>2. b # base
      BY <1>11, <1>16, Zenon
    <3>. QED
      BY <1>14, <3>1, <3>2, Zenon DEF Placed
  <2>3. NoTwoFreeBut(fs, {} \cup {p})
    <3>1. {} \cup {p} = {p}
      OBVIOUS
    <3>. QED
      BY <1>14, <3>1, Zenon
  <2>4. fs[p].next # NULL => fs[p].next \notin {}
    BY Zenon
  <2>5. Merged(gs, fs, base, end, {}, p)
    BY <1>1, <1>14, <1>16, <2>2, <2>3, <2>4, CoalesceForward, ZenonT(30) DEF gs
  <2>6. Chain(gs, base, end) /\ NoTwoFreeBut(gs, {}) /\ SameUsed(gs, fs)
    BY <2>5, Zenon DEF Merged
  <2>. QED
    BY <1>14, <1>15, <2>1, <2>6, Zenon DEF Freed, SameUsed, base, end, ms
<1>17. CASE ~(p # NULL /\ fs[p].free)
  <2>1. MergeNeighbours(ms, b) = fs
    BY <1>14, <1>17, Zenon DEF MergeNeighbours, fs
  <2>2. NULL \notin DOMAIN fs
    BY <1>1, <1>14, ChainOrder, Zenon
  <2>3. NoTwoFreeBut(fs, {})
    BY <1>14, <1>17, <2>2, Zenon DEF NoTwoFreeBut
  <2>. QED
    BY <1>14, <1>15, <2>1, <2>3, Zenon DEF Freed, SameUsed, base, end, ms
<1>. QED
  BY <1>16, <1>17, Zenon

\* What taking block b for wanted bytes makes of the headers.
Taken(cs, bs, base, end, b, wanted) ==
  /\ Chain(cs, base, end) /\ NoTwoFreeBut(cs, {})
  /\ Used(cs) = Used(bs) \cup {b}
  /\ cs[b].size >= wanted
  /\ \A a \in Used(bs) : cs[a].size = bs[a].size

\* kmem_alloc takes one free block, split or whole, and no other: the chain
\* stays well formed and the blocks that were allocated keep their sizes.
LEMMA TakeBlock ==
  ASSUME ArenaOK(heap), NEW bs, Chain(bs, heap.base, heap.end), NoTwoFreeBut(bs, {}),
         NEW b \in DOMAIN bs, bs[b].free, NEW wanted \in Nat, Aligned(wanted), bs[b].size >= wanted
  PROVE  Taken([kmem_split_if_useful(bs, b, wanted) EXCEPT ![b].free = FALSE],
               bs, heap.base, heap.end, b, wanted)
<1>. DEFINE base == heap.base
            end == heap.end
            new == Payload(b) + wanted
            ss == kmem_split_if_useful(bs, b, wanted)
            cs == [ss EXCEPT ![b].free = FALSE]
            m == bs[b].next
<1>1. /\ base \in Nat \ {0} /\ end \in Nat /\ end \in Word
  BY RoundsPositive, Zenon
<1>. HIDE DEF base, end
<1>2. Chain(bs, base, end)
  BY Zenon DEF base, end
<1>3. \A a \in DOMAIN bs : Placed(bs, base, end, a)
  BY <1>1, <1>2, InChain, Zenon
<1>4. /\ b \in Nat \ {0} /\ bs[b].size \in Nat /\ Aligned(b) /\ EndOf(bs, b) <= end
      /\ EndOf(bs, b) = b + Header + bs[b].size /\ Header \in Nat \ {0} /\ Aligned(Header)
      /\ new = b + Header + wanted /\ MinSplit \in Nat /\ WordMax \in Nat
  BY <1>3, Sizes, Zenon DEF Placed, EndOf, Payload
<1>. HIDE DEF new
<1>5. new \in Word
  BY <1>1, <1>4, SMTT(30) DEF Word
<1>6. align_up(new) = new /\ Aligned(new)
  <2>1. b + Header \in Nat /\ b \in Nat /\ Header \in Nat
    BY <1>4
  <2>2. Aligned(b + Header)
    BY <1>4, <2>1, AlignedSum, Zenon
  <2>3. Aligned(new)
    BY <1>4, <2>1, <2>2, AlignedSum, Zenon
  <2>. QED
    BY <1>5, <2>3, AlignedStays, ZenonT(30)
<1>7. /\ \A a \in DOMAIN bs : bs[a] \in BlockT
      /\ NULL \notin DOMAIN bs
  BY <1>1, <1>2, ChainOrder, Zenon
<1>8. m # NULL => m \in DOMAIN bs /\ ~bs[m].free /\ bs[m].prev = b
  BY <1>3, Zenon DEF Placed, NoTwoFreeBut
<1>9. CASE TooSmallToSplit(bs, b, wanted)
  <2>1. ss = bs
    BY <1>9, Zenon DEF kmem_split_if_useful
  <2>2. IsMarked(cs, bs, b, FALSE)
    BY <1>7, <2>1, Marked, Zenon
  <2>. HIDE DEF cs, ss
  <2>3. Chain(cs, base, end)
    BY <1>1, <1>2, <2>2, MarkChain, Zenon
  <2>4. /\ DOMAIN cs = DOMAIN bs /\ ~cs[b].free
        /\ \A a \in DOMAIN bs : /\ cs[a].size = bs[a].size /\ cs[a].next = bs[a].next
                                /\ a # b => cs[a].free = bs[a].free
    BY <2>2, Zenon DEF IsMarked
  <2>5. NoTwoFreeBut(cs, {})
    <3>1. \A a \in DOMAIN bs : cs[a].free => bs[a].free
      BY <2>4, Zenon
    <3>2. \A a \in DOMAIN bs : bs[a].next # NULL => bs[a].next \in DOMAIN bs
      BY <1>3, Zenon DEF Placed
    <3>. QED
      BY <2>4, <3>1, <3>2, Zenon DEF NoTwoFreeBut
  <2>6. Used(cs) = Used(bs) \cup {b}
    <3>1. \A a : a \in Used(cs) <=> a \in Used(bs) \cup {b}
      BY <2>4, Zenon DEF Used
    <3>. QED
      BY <3>1, Zenon
  <2>7. cs[b].size >= wanted /\ \A a \in Used(bs) : cs[a].size = bs[a].size
    BY <2>4, Zenon DEF Used
  <2>. QED
    BY <2>3, <2>5, <2>6, <2>7, ZenonT(30) DEF Taken, base, end, cs, ss
<1>10. CASE ~TooSmallToSplit(bs, b, wanted)
  <2>1. wanted + Header < bs[b].size
    <3>1. ~(bs[b].size <= (new - Payload(b)) + Header + MinSplit)
      BY <1>6, <1>10, Zenon DEF TooSmallToSplit, new
    <3>. QED
      BY <1>4, <3>1 DEF Payload
  <2>2. new \notin DOMAIN bs
    <3>1. \A x, y \in DOMAIN bs : x < y => EndOf(bs, x) <= y
      BY <1>1, <1>2, ChainOrder, ZenonT(30)
    <3>2. b < new /\ ~(EndOf(bs, b) <= new)
      BY <1>4, <2>1, SMTT(30)
    <3>. QED
      BY <3>1, <3>2, Zenon
  <2>3. IsSplit(ss, bs, b, new, wanted)
    <3>1. b \in Nat
      BY <1>4
    <3>. QED
      BY <1>6, <1>7, <1>10, <2>2, <3>1, Split, ZenonT(30) DEF new
  <2>4. Chain(ss, base, end)
    BY <1>1, <1>2, <1>6, <2>1, <2>3, SplitChain, ZenonT(30) DEF new
  <2>5. b \in DOMAIN ss /\ \A a \in DOMAIN ss : ss[a] \in BlockT
    <3>1. \A a \in DOMAIN ss : ss[a] \in BlockT
      BY <1>1, <2>4, ChainOrder, Zenon
    <3>. QED
      BY <2>3, <3>1, Zenon DEF IsSplit
  <2>6. IsMarked(cs, ss, b, FALSE)
    BY <2>5, Marked, Zenon
  <2>. HIDE DEF cs, ss
  <2>7. Chain(cs, base, end)
    BY <1>1, <2>4, <2>5, <2>6, MarkChain, ZenonT(30)
  <2>8. /\ DOMAIN ss = DOMAIN bs \cup {new} /\ ss[new].free /\ ss[new].next = m
        /\ \A a \in DOMAIN bs : IsSplitAt(ss[a], bs, b, new, wanted, a)
    <3>1. /\ ss[new] = [size |-> bs[b].size - wanted - Header, free |-> TRUE,
                        prev |-> b, next |-> m]
          /\ DOMAIN ss = DOMAIN bs \cup {new}
          /\ \A a \in DOMAIN bs : IsSplitAt(ss[a], bs, b, new, wanted, a)
      BY <2>3, Zenon DEF IsSplit
    <3>2. ss[new].free = TRUE /\ ss[new].next = m
      BY ONLY <3>1
    <3>. QED
      BY <3>1, <3>2, Zenon
  <2>9. /\ DOMAIN cs = DOMAIN bs \cup {new} /\ ~cs[b].free /\ cs[new].free /\ cs[new].next = m
        /\ cs[b].size = wanted
        /\ \A a \in DOMAIN bs : a # b => /\ cs[a].size = bs[a].size /\ cs[a].next = bs[a].next
                                         /\ cs[a].free = bs[a].free
    <3>1. /\ DOMAIN cs = DOMAIN ss /\ ~cs[b].free
          /\ \A a \in DOMAIN ss : /\ cs[a].size = ss[a].size /\ cs[a].next = ss[a].next
                                  /\ a # b => cs[a].free = ss[a].free
      BY <2>6, Zenon DEF IsMarked
    <3>2. cs[new].free /\ cs[new].next = m
      BY <2>2, <2>8, <3>1, Zenon
    <3>3. cs[b].size = wanted
      BY <2>8, <3>1, Zenon DEF IsSplitAt
    <3>4. \A a \in DOMAIN bs : a # b => /\ ss[a].size = bs[a].size /\ ss[a].next = bs[a].next
                                        /\ ss[a].free = bs[a].free
      BY <2>8, Zenon DEF IsSplitAt
    <3>. QED
      BY <2>8, <3>1, <3>2, <3>3, <3>4, ZenonT(30)
  <2>10. NoTwoFreeBut(cs, {})
    <3>. SUFFICES ASSUME NEW a \in DOMAIN cs, cs[a].next # NULL
                  PROVE  ~(cs[a].free /\ cs[cs[a].next].free)
      BY Zenon DEF NoTwoFreeBut
    <3>1. \A x \in DOMAIN bs : cs[x].free => bs[x].free
      BY <2>9, Zenon
    <3>2. CASE a = new
      BY <1>8, <2>9, <3>1, <3>2, ZenonT(30)
    <3>3. CASE a = b
      BY <2>9, <3>3, Zenon
    <3>4. CASE a # new /\ a # b
      <4>1. a \in DOMAIN bs /\ cs[a].next = bs[a].next /\ cs[a].free = bs[a].free
        BY <2>9, <3>4, Zenon
      <4>2. bs[a].next \in DOMAIN bs
        BY <1>3, <4>1, ZenonT(30) DEF Placed
      <4>. QED
        BY <3>1, <4>1, <4>2, Zenon DEF NoTwoFreeBut
    <3>. QED
      BY <3>2, <3>3, <3>4, Zenon
  <2>11. Used(cs) = Used(bs) \cup {b}
    <3>1. \A a : a \in Used(cs) <=> a \in Used(bs) \cup {b}
      BY <2>9, Zenon DEF Used
    <3>. QED
      BY <3>1, Zenon
  <2>12. cs[b].size >= wanted
    BY <2>9
  <2>13. \A a \in Used(bs) : cs[a].size = bs[a].size
    BY <2>9, Zenon DEF Used
  <2>. QED
    BY <2>7, <2>10, <2>11, <2>12, <2>13, ZenonT(30) DEF Taken, base, end, cs, ss
<1>. QED
  BY <1>9, <1>10, Zenon

-----------------------------------------------------------------------------
(* The allocations.                                                        *)

\* Two payloads are apart.
LEMMA PayloadsApart ==
  \A x, y \in Nat : Payload(x) = Payload(y) => x = y
<1>1. Header \in Nat
  BY Sizes, Zenon
<1>. QED
  BY <1>1 DEF Payload

\* Freeing a block takes its payload, and no other, from the callers.
LEMMA OwnedFreed ==
  ASSUME NEW bs, NEW lv, Owned(bs, lv), DOMAIN bs \subseteq Nat, NEW b \in Used(bs),
         NEW cs, NEW base, NEW end, Freed(cs, bs, base, end, b)
  PROVE  Owned(cs, Restrict(lv, DOMAIN lv \ {Payload(b)}))
<1>. DEFINE l == Restrict(lv, DOMAIN lv \ {Payload(b)})
<1>1. /\ DOMAIN l = DOMAIN lv \ {Payload(b)}
      /\ \A p \in DOMAIN lv \ {Payload(b)} : l[p] = lv[p]
  BY Zenon DEF Restrict
<1>. HIDE DEF l
<1>2. /\ Used(cs) = Used(bs) \ {b}
      /\ \A a \in Used(cs) : cs[a].size = bs[a].size
  BY Zenon DEF Freed
<1>3. \A a \in Used(bs) : Payload(a) = Payload(b) => a = b
  <2>1. \A a \in Used(bs) : a \in Nat
    BY Zenon DEF Used
  <2>. QED
    BY <2>1, PayloadsApart, Zenon
<1>4. DOMAIN lv = {Payload(a) : a \in Used(bs)}
  BY Zenon DEF Owned
<1>5. \A p : p \in DOMAIN l <=> p \in {Payload(a) : a \in Used(cs)}
  BY <1>1, <1>2, <1>3, <1>4, Zenon
<1>6. DOMAIN l = {Payload(a) : a \in Used(cs)}
  BY <1>5, Zenon
<1>7. ASSUME NEW a \in Used(cs)
      PROVE  l[Payload(a)] \in Nat \ {0} /\ l[Payload(a)] <= cs[a].size
  <2>1. a \in Used(bs) /\ a # b /\ cs[a].size = bs[a].size
    BY <1>2, Zenon
  <2>2. Payload(a) \in DOMAIN lv \ {Payload(b)}
    BY <1>3, <1>4, <2>1, Zenon
  <2>3. l[Payload(a)] = lv[Payload(a)]
    BY <1>1, <2>2, Zenon
  <2>. QED
    BY <2>1, <2>3, Zenon DEF Owned
<1>. QED
  BY <1>6, <1>7, Zenon DEF Owned, l

\* Taking a block gives its payload to a caller.
LEMMA OwnedTaken ==
  ASSUME NEW bs, NEW lv, Owned(bs, lv), DOMAIN bs \subseteq Nat, NEW b \in DOMAIN bs, bs[b].free,
         NEW cs, NEW base, NEW end, NEW wanted, Taken(cs, bs, base, end, b, wanted),
         NEW n \in Nat \ {0}, n <= cs[b].size
  PROVE  /\ Owned(cs, Heap!With(lv, Payload(b), n)) /\ Payload(b) \notin DOMAIN lv
         /\ Heap!With(lv, Payload(b), n)[Payload(b)] = n
<1>. DEFINE l == Heap!With(lv, Payload(b), n)
<1>1. /\ Used(cs) = Used(bs) \cup {b}
      /\ \A a \in Used(bs) : cs[a].size = bs[a].size
  BY Zenon DEF Taken
<1>2. \A a \in Used(bs) : Payload(a) # Payload(b)
  <2>1. \A a \in Used(bs) : a \in Nat /\ a # b
    BY Zenon DEF Used
  <2>. QED
    BY <2>1, PayloadsApart, Zenon
<1>3. DOMAIN lv = {Payload(a) : a \in Used(bs)}
  BY Zenon DEF Owned
<1>4. /\ DOMAIN l = DOMAIN lv \cup {Payload(b)} /\ l[Payload(b)] = n
      /\ \A p \in DOMAIN lv : p # Payload(b) => l[p] = lv[p]
  BY Zenon DEF Heap!With
<1>. HIDE DEF l
<1>5. \A p : p \in DOMAIN l <=> p \in {Payload(a) : a \in Used(cs)}
  BY <1>1, <1>3, <1>4, Zenon
<1>6. DOMAIN l = {Payload(a) : a \in Used(cs)}
  BY <1>5, Zenon
<1>7. ASSUME NEW a \in Used(cs)
      PROVE  l[Payload(a)] \in Nat \ {0} /\ l[Payload(a)] <= cs[a].size
  <2>1. CASE a = b
    BY <1>4, <2>1, Zenon
  <2>2. CASE a # b
    <3>1. a \in Used(bs) /\ cs[a].size = bs[a].size
      BY <1>1, <2>2, Zenon
    <3>2. l[Payload(a)] = lv[Payload(a)]
      BY <1>2, <1>3, <1>4, <3>1, Zenon
    <3>. QED
      BY <3>1, <3>2, Zenon DEF Owned
  <2>. QED
    BY <2>1, <2>2, Zenon
<1>. QED
  BY <1>2, <1>3, <1>4, <1>6, <1>7, ZenonT(30) DEF Owned, l

\* The allocations lie aligned in the arena and do not overlap.
LiveApart(h, lv) ==
  /\ \A p \in DOMAIN lv : /\ p \in Nat /\ Aligned(p) /\ lv[p] \in Nat \ {0}
                          /\ p .. p + lv[p] - 1 \subseteq h.base .. h.end - 1
  /\ \A p, q \in DOMAIN lv : p # q => (p .. p + lv[p] - 1) \cap (q .. q + lv[q] - 1) = {}

\* In a heap that is set up, the live payloads are aligned, lie in the arena and
\* are pairwise disjoint.
LEMMA ReadyApart ==
  ASSUME NEW h, NEW bs, NEW lv, Ready(h, bs, lv)
  PROVE  LiveApart(h, lv)
<1>1. /\ h.base \in Nat \ {0} /\ h.end \in Nat /\ Header \in Nat \ {0} /\ Aligned(Header)
  <2>1. h.base \in Word /\ h.end \in Word /\ h.base # 0
    BY Zenon DEF Ready, ArenaOK
  <2>2. WordMax \in Nat /\ Header \in Nat \ {0} /\ Aligned(Header)
    BY Sizes, Zenon
  <2>. QED
    BY <2>1, <2>2 DEF Word
<1>2. \A a \in DOMAIN bs : Placed(bs, h.base, h.end, a)
  BY <1>1, InChain, Zenon DEF Ready
<1>3. \A x, y \in DOMAIN bs : x < y => EndOf(bs, x) <= y
  BY <1>1, ChainOrder, Zenon DEF Ready
<1>4. ASSUME NEW p \in DOMAIN lv
      PROVE  \E a \in DOMAIN bs :
               /\ a \in Nat /\ p = a + Header /\ lv[p] \in Nat \ {0} /\ Aligned(a)
               /\ h.base <= a /\ p + lv[p] <= EndOf(bs, a) /\ EndOf(bs, a) <= h.end
               /\ EndOf(bs, a) \in Nat
  <2>1. PICK a \in Used(bs) : p = Payload(a)
    BY Zenon DEF Ready, Owned
  <2>2. a \in DOMAIN bs /\ Placed(bs, h.base, h.end, a)
    BY <1>2, Zenon DEF Used
  <2>3. lv[p] \in Nat \ {0} /\ lv[p] <= bs[a].size
    BY <2>1, Zenon DEF Ready, Owned
  <2>4. /\ a \in Nat \ {0} /\ bs[a].size \in Nat /\ Aligned(a) /\ h.base <= a
        /\ EndOf(bs, a) <= h.end /\ EndOf(bs, a) = a + Header + bs[a].size
    BY <2>2, Zenon DEF Placed, EndOf, Payload
  <2>5. a \in Nat /\ p = a + Header /\ p + lv[p] <= EndOf(bs, a) /\ EndOf(bs, a) \in Nat
    BY <1>1, <2>1, <2>3, <2>4, SMTT(30) DEF Payload
  <2>. QED
    BY <2>2, <2>3, <2>4, <2>5, Zenon
<1>5. ASSUME NEW p \in DOMAIN lv
      PROVE  /\ p \in Nat /\ Aligned(p) /\ lv[p] \in Nat \ {0}
             /\ p .. p + lv[p] - 1 \subseteq h.base .. h.end - 1
  <2>1. PICK a \in DOMAIN bs :
               /\ a \in Nat /\ p = a + Header /\ lv[p] \in Nat \ {0} /\ Aligned(a)
               /\ h.base <= a /\ p + lv[p] <= EndOf(bs, a) /\ EndOf(bs, a) <= h.end
               /\ EndOf(bs, a) \in Nat
    BY <1>4, Zenon
  <2>2. Header \in Nat
    BY <1>1
  <2>3. Aligned(p)
    BY <1>1, <2>1, <2>2, AlignedSum, ZenonT(30)
  <2>. QED
    BY <1>1, <2>1, <2>3, SMTT(30)
<1>6. ASSUME NEW p \in DOMAIN lv, NEW q \in DOMAIN lv, p # q
      PROVE  (p .. p + lv[p] - 1) \cap (q .. q + lv[q] - 1) = {}
  <2>1. PICK a \in DOMAIN bs :
               /\ a \in Nat /\ p = a + Header /\ lv[p] \in Nat \ {0} /\ Aligned(a)
               /\ h.base <= a /\ p + lv[p] <= EndOf(bs, a) /\ EndOf(bs, a) <= h.end
               /\ EndOf(bs, a) \in Nat
    BY <1>4, Zenon
  <2>2. PICK c \in DOMAIN bs :
               /\ c \in Nat /\ q = c + Header /\ lv[q] \in Nat \ {0} /\ Aligned(c)
               /\ h.base <= c /\ q + lv[q] <= EndOf(bs, c) /\ EndOf(bs, c) <= h.end
               /\ EndOf(bs, c) \in Nat
    BY <1>4, Zenon
  <2>3. (a < c => EndOf(bs, a) <= c) /\ (c < a => EndOf(bs, c) <= a)
    BY <1>3, Zenon
  <2>4. a # c
    BY <1>6, <2>1, <2>2, ZenonT(30)
  <2>5. p + lv[p] <= q \/ q + lv[q] <= p
    BY <1>1, <2>1, <2>2, <2>3, <2>4, SMTT(30)
  <2>. QED
    BY <2>1, <2>2, <1>1, <2>5, SMTT(30)
<1>. QED
  BY <1>5, <1>6, Zenon DEF LiveApart

-----------------------------------------------------------------------------
(* The steps.                                                              *)

\* kmem_init makes one free block of its arena.
LEMMA InitStep ==
  ASSUME NEW a \in Arenas, ~BadArena(a[1], a[2]), Vacant(align_up(a[1])),
         kmem_init(a[1], a[2])
  PROVE  Ready(heap', blocks', live') /\ Heap!Setup
<1>. DEFINE x == a[1]
            n == a[2]
            start == align_up(x)
            usable == Usable(x, n)
            end == start + usable
            size == usable - Header
<1>1. x \in Word /\ n \in Word /\ x + n <= WordMax
  BY KmemAssumption DEF Word
<1>2. /\ WordMax \in Nat /\ Align \in Nat \ {0} /\ Header \in Nat \ {0} /\ MinSplit \in Nat
  BY Sizes, Zenon
<1>3. /\ start # 0 /\ ~(start < x) /\ ~(n <= (start - x) + Header + MinSplit)
      /\ ~(usable <= Header + MinSplit)
  BY Zenon DEF BadArena
<1>4. x \in Nat /\ n \in Nat /\ x <= WordMax
  BY <1>1, <1>2, SMTT(30) DEF Word
<1>5. start \in Word /\ Aligned(start) /\ x <= start
  <2>1. x + Align - 1 <= WordMax \/ WordMax < x + Align - 1
    BY <1>2, <1>4, SMTT(30)
  <2>. QED
    BY <1>3, <1>4, <2>1, AlignUp, ZenonT(30)
<1>6. start \in Nat \ {0}
  BY <1>2, <1>3, <1>5, SMTT(30) DEF Word
<1>. HIDE DEF start
<1>. DEFINE left == n - (start - x)
            q == left \div Align
<1>7. left \in Nat /\ start + left = x + n
  BY <1>2, <1>3, <1>4, <1>5, <1>6, SMTT(30)
<1>8. usable = q * Align
  BY Zenon DEF Usable, start
<1>9. q \in Nat /\ q * Align <= left
  BY <1>2, <1>7, Quotient, Zenon
<1>. HIDE DEF usable, left, q
<1>10. usable \in Nat /\ Aligned(usable)
  BY <1>8, <1>9, MultipleAligned, Zenon
<1>11. usable <= left
  BY <1>8, <1>9, Zenon
<1>12. /\ end \in Word /\ end \in Nat /\ start + Header < end /\ size \in Nat
       /\ start + Header + size = end
  BY <1>1, <1>2, <1>3, <1>4, <1>6, <1>7, <1>10, <1>11, SMTT(30) DEF Word
<1>13. Aligned(end)
  <2>1. start \in Nat
    BY <1>6
  <2>. QED
    BY <1>5, <1>10, <2>1, AlignedSum, ZenonT(30)
<1>. DEFINE block == [size |-> size, free |-> TRUE, prev |-> NULL, next |-> NULL]
<1>14. /\ heap' = [base |-> start, end |-> end]
       /\ blocks' = [b \in {start} |-> block]
       /\ live' = [p \in {} |-> 0]
  BY Zenon DEF kmem_init, start, usable
<1>. HIDE DEF end, size
<1>15. heap'.base = start /\ heap'.end = end
  BY <1>14
<1>16. ArenaOK(heap')
  <2>1. heap' \in [base : Word, end : Word]
    BY <1>5, <1>12, <1>14, SMTT(30)
  <2>. QED
    BY <1>3, <1>5, <1>12, <1>13, <1>15, <2>1, ZenonT(30) DEF ArenaOK
<1>17. /\ block \in BlockT /\ block.size = size /\ block.free = TRUE /\ block.prev = NULL
       /\ block.next = NULL
  BY <1>12 DEF BlockT, NULL
<1>. HIDE DEF block
<1>18. DOMAIN blocks' = {start} /\ blocks'[start] = block
  BY <1>14, Zenon
<1>19. EndOf(blocks', start) = end
  BY <1>12, <1>17, <1>18, Zenon DEF EndOf, Payload
<1>20. Linked(blocks', start, end, start)
  <2>1. start <= start /\ end <= end /\ start \in Nat
    BY <1>6, <1>12, SMTT(30)
  <2>. QED
    BY <1>5, <1>17, <1>18, <1>19, <2>1, ZenonT(30) DEF Linked
<1>21. InOrder(blocks')
  <2>1. ~(start < start)
    BY <1>6
  <2>. QED
    BY <1>18, <2>1, Zenon DEF InOrder
<1>22. Chain(blocks', start, end)
  BY <1>17, <1>18, <1>20, <1>21, ZenonT(30) DEF Chain
<1>23. NoTwoFreeBut(blocks', {})
  BY <1>17, <1>18, Zenon DEF NoTwoFreeBut
<1>24. Owned(blocks', live')
  <2>1. \A b : b \notin Used(blocks')
    BY <1>17, <1>18, Zenon DEF Used
  <2>2. DOMAIN live' = {}
    BY <1>14, Zenon
  <2>. QED
    BY <2>1, <2>2, Zenon DEF Owned
<1>25. Heap!Setup
  <2>1. live = [p \in {} |-> 0]
    BY Zenon DEF Vacant
  <2>2. DOMAIN live = {}
    BY <2>1, Zenon
  <2>. QED
    BY <1>14, <2>1, <2>2, ZenonT(30) DEF Heap!Setup
<1>. QED
  BY <1>15, <1>16, <1>22, <1>23, <1>24, <1>25, ZenonT(30) DEF Ready

\* The block that kmem_alloc takes is free and large enough.
LEMMA ChosenIs ==
  ASSUME NEW n, Chosen(n) # NULL
  PROVE  /\ Chosen(n) \in DOMAIN blocks /\ blocks[Chosen(n)].free
         /\ blocks[Chosen(n)].size >= Wanted(n)
         /\ n # 0 /\ Wanted(n) # 0 /\ heap.base # 0
<1>. DEFINE fits == {i \in 0 .. Rounds : Walk[i] \in DOMAIN blocks
                       /\ blocks[Walk[i]].free /\ blocks[Walk[i]].size >= Wanted(n)}
            least == CHOOSE i \in fits : \A j \in fits : i <= j
<1>1. n # 0 /\ Wanted(n) # 0 /\ heap.base # 0 /\ Chosen(n) = FirstFit(Wanted(n))
  BY Zenon DEF Chosen
<1>2. fits # {} /\ Chosen(n) = Walk[least]
  BY <1>1, Zenon DEF FirstFit
<1>3. fits \in SUBSET Nat
  <2>1. \A i \in 0 .. Rounds : i \in Nat
    OBVIOUS
  <2>. QED
    BY <2>1, Zenon
<1>4. least \in fits
  <2>1. \E i \in fits : \A j \in fits : i <= j
    <3>. HIDE DEF fits
    <3>. QED
      BY <1>2, <1>3, Least, Zenon
  <2>. HIDE DEF fits
  <2>. QED
    BY <2>1, Zenon
<1>. HIDE DEF least
<1>. QED
  BY <1>1, <1>2, <1>4, Zenon

\* A request, rounded up.
LEMMA WantedIs ==
  ASSUME NEW n \in Word, n # 0, Wanted(n) # 0
  PROVE  Wanted(n) \in Nat /\ Aligned(Wanted(n)) /\ n <= Wanted(n) /\ n + Align - 1 <= WordMax
<1>1. n \in Nat /\ n <= WordMax /\ WordMax \in Nat /\ Align \in Nat \ {0}
  BY Sizes DEF Word
<1>2. n + Align - 1 <= WordMax \/ WordMax < n + Align - 1
  BY <1>1
<1>3. n + Align - 1 <= WordMax /\ align_up(n) \in Word /\ Aligned(align_up(n)) /\ n <= align_up(n)
  BY <1>1, <1>2, AlignUp, ZenonT(30) DEF Wanted
<1>4. align_up(n) \in Nat
  BY <1>1, <1>3, SMTT(30) DEF Word
<1>. QED
  BY <1>3, <1>4, Zenon DEF Wanted

\* kmem_alloc hands out a part of the arena that nobody holds.
LEMMA AllocStep ==
  ASSUME Ready(heap, blocks, live), NEW n \in Word, Chosen(n) # NULL, AllocFor(n, n)
  PROVE  Ready(heap', blocks', live') /\ Heap!Alloc
<1>. DEFINE b == Chosen(n)
            wanted == Wanted(n)
<1>1. /\ b \in DOMAIN blocks /\ blocks[b].free /\ blocks[b].size >= wanted
      /\ n # 0 /\ wanted # 0
  BY ChosenIs, Zenon
<1>2. wanted \in Nat /\ Aligned(wanted) /\ n <= wanted
  BY <1>1, WantedIs, Zenon
<1>3. /\ blocks' = [kmem_split_if_useful(blocks, b, wanted) EXCEPT ![b].free = FALSE]
      /\ live' = Heap!With(live, Payload(b), n)
      /\ heap' = heap
  BY Zenon DEF AllocFor, Heap!With
<1>. HIDE DEF b, wanted
<1>4. /\ ArenaOK(heap) /\ Chain(blocks, heap.base, heap.end) /\ NoTwoFreeBut(blocks, {})
      /\ Owned(blocks, live)
  BY Zenon DEF Ready
<1>5. Taken(blocks', blocks, heap.base, heap.end, b, wanted)
  BY <1>1, <1>2, <1>3, <1>4, TakeBlock, ZenonT(30)
<1>6. /\ Chain(blocks', heap.base, heap.end) /\ NoTwoFreeBut(blocks', {})
      /\ blocks'[b].size >= wanted /\ Used(blocks') = Used(blocks) \cup {b}
  BY <1>5, Zenon DEF Taken
<1>7. heap.base \in Nat \ {0} /\ heap.end \in Nat
  BY <1>4, RoundsPositive, ZenonT(30)
<1>8. n \in Nat \ {0} /\ n <= blocks'[b].size
  <2>1. b \in DOMAIN blocks'
    BY <1>6, Zenon DEF Used
  <2>2. blocks'[b].size \in Nat
    BY <1>6, <1>7, <2>1, ChainOrder, Fields, ZenonT(30)
  <2>3. WordMax \in Nat
    BY Sizes, Zenon
  <2>. QED
    BY <1>1, <1>2, <1>6, <2>2, <2>3, SMTT(30) DEF Word
<1>9. DOMAIN blocks \subseteq Nat
  <2>1. \A x \in DOMAIN blocks : Placed(blocks, heap.base, heap.end, x)
    BY <1>4, <1>7, InChain, Zenon
  <2>2. \A x \in DOMAIN blocks : x \in Nat
    BY <2>1, Zenon DEF Placed
  <2>. QED
    BY <2>2, Zenon
<1>10. Owned(blocks', live') /\ Payload(b) \notin DOMAIN live /\ live'[Payload(b)] = n
  <2>1. b \in DOMAIN blocks /\ blocks[b].free /\ Owned(blocks, live)
    BY <1>1, <1>4, ZenonT(30)
  <2>2. /\ Owned(blocks', Heap!With(live, Payload(b), n)) /\ Payload(b) \notin DOMAIN live
        /\ Heap!With(live, Payload(b), n)[Payload(b)] = n
    BY ONLY <2>1, <1>5, <1>8, <1>9, OwnedTaken, SMTT(30)
  <2>. QED
    BY <1>3, <2>2, Zenon
<1>11. Ready(heap', blocks', live')
  BY <1>3, <1>4, <1>6, <1>10, ZenonT(30) DEF Ready
<1>12. Heap!Alloc
  <2>. DEFINE p == Payload(b)
  <2>1. LiveApart(heap', live')
    BY <1>11, ReadyApart, Zenon
  <2>2. /\ DOMAIN live' = DOMAIN live \cup {p} /\ p \in DOMAIN live' \ DOMAIN live
        /\ \A q \in DOMAIN live : live'[q] = live[q]
    BY <1>3, <1>10, Zenon DEF Heap!With
  <2>3. live' = Heap!With(live, p, live'[p])
    BY <1>3, <1>10, Zenon
  <2>4. /\ p % Align = 0 /\ p .. p + live'[p] - 1 \subseteq heap.base .. heap.end - 1
        /\ \A q \in DOMAIN live : (p .. p + live'[p] - 1) \cap (q .. q + live[q] - 1) = {}
    <3>1. /\ p % Align = 0 /\ p .. p + live'[p] - 1 \subseteq heap.base .. heap.end - 1
      BY <1>3, <2>1, <2>2, ZenonT(30) DEF LiveApart, Aligned
    <3>2. ASSUME NEW q \in DOMAIN live
          PROVE  (p .. p + live'[p] - 1) \cap (q .. q + live[q] - 1) = {}
      <4>1. q # p /\ p \in DOMAIN live' /\ q \in DOMAIN live' /\ live'[q] = live[q]
        BY <2>2, Zenon
      <4>. HIDE DEF p
      <4>2. (p .. p + live'[p] - 1) \cap (q .. q + live'[q] - 1) = {}
        BY <2>1, <4>1, ZenonT(30) DEF LiveApart
      <4>. QED
        BY <4>1, <4>2, Zenon
    <3>. QED
      BY <3>1, <3>2, Zenon
  <2>5. live'[p] > 0
    BY <1>8, <1>10, SMTT(30)
  <2>6. (heap.base .. heap.end - 1)' = heap.base .. heap.end - 1
    BY <1>3, Zenon
  <2>. QED
    BY <2>2, <2>3, <2>4, <2>5, <2>6, ZenonT(30) DEF Heap!Alloc, Heap!Bytes
<1>. QED
  BY <1>11, <1>12, Zenon

\* kmem_free_checked takes back the allocation it is given and no other.
LEMMA FreeStep ==
  ASSUME Ready(heap, blocks, live), NEW p, p \in Nat, p # NULL, Freeable(p), kmem_free_checked(p)
  PROVE  Ready(heap', blocks', live') /\ Heap!Free
<1>. DEFINE b == p - Header
<1>1. /\ blocks' = MergeNeighbours([blocks EXCEPT ![b].free = TRUE], b)
      /\ live' = Restrict(live, DOMAIN live \ {p})
      /\ heap' = heap
  BY Zenon DEF kmem_free_checked
<1>2. b \in Used(blocks)
  BY Zenon DEF Freeable, Used
<1>3. Payload(b) = p
  <2>1. Header \in Nat
    BY Sizes, Zenon
  <2>. QED
    BY <2>1 DEF Payload
<1>. HIDE DEF b
<1>4. /\ ArenaOK(heap) /\ Chain(blocks, heap.base, heap.end) /\ NoTwoFreeBut(blocks, {})
      /\ Owned(blocks, live)
  BY Zenon DEF Ready
<1>5. Freed(blocks', blocks, heap.base, heap.end, b)
  BY <1>1, <1>2, <1>4, FreeBlock, ZenonT(30)
<1>6. heap.base \in Nat \ {0} /\ heap.end \in Nat
  BY <1>4, RoundsPositive, Zenon
<1>7. DOMAIN blocks \subseteq Nat
  <2>1. \A x \in DOMAIN blocks : Placed(blocks, heap.base, heap.end, x)
    BY <1>4, <1>6, InChain, ZenonT(30)
  <2>2. \A x \in DOMAIN blocks : x \in Nat
    BY <2>1, Zenon DEF Placed
  <2>. QED
    BY <2>2, Zenon
<1>8. Owned(blocks', live')
  BY <1>1, <1>2, <1>3, <1>4, <1>5, <1>7, OwnedFreed, ZenonT(30)
<1>9. p \in DOMAIN live
  BY <1>2, <1>3, <1>4, Zenon DEF Owned
<1>10. live' = Heap!Without(live, p)
  BY <1>1, Zenon DEF Heap!Without, Restrict
<1>11. (heap.base .. heap.end - 1)' = heap.base .. heap.end - 1
  BY <1>1, Zenon
<1>12. Ready(heap', blocks', live')
  BY <1>1, <1>4, <1>5, <1>8, ZenonT(30) DEF Ready, Freed
<1>. QED
  BY <1>9, <1>10, <1>11, <1>12, ZenonT(30) DEF Heap!Free

-----------------------------------------------------------------------------
(* The theorems.                                                           *)

\* kmem_calloc multiplies only what does not overflow.
LEMMA ProductFits ==
  ASSUME NEW count \in Word, NEW bytes \in Word, ~ProductOverflows(count, bytes)
  PROVE  count * bytes \in Word /\ (count * bytes) % (WordMax + 1) = count * bytes
<1>1. WordMax \in Nat /\ count \in Nat /\ bytes \in Nat
  BY Sizes DEF Word
<1>2. count * bytes \in Nat /\ count * bytes <= WordMax
  <2>1. CASE count = 0
    BY <1>1, <2>1, SMTT(30)
  <2>2. CASE count # 0
    <3>. DEFINE q == WordMax \div count
    <3>1. count \in Nat \ {0} /\ ~(bytes > q)
      BY <1>1, <2>2, Zenon DEF ProductOverflows
    <3>2. q \in Nat /\ q * count <= WordMax
      BY <1>1, <3>1, Quotient, ZenonT(30)
    <3>. HIDE DEF q
    <3>3. bytes <= q
      BY <1>1, <3>1, <3>2, SMTT(30)
    <3>4. count * bytes <= q * count /\ count * bytes \in Nat /\ q * count \in Nat
      BY ONLY <1>1, <3>2, <3>3, SMTT(30)
    <3>. QED
      BY ONLY <1>1, <3>2, <3>4, SMTT(30)
  <2>. QED
    BY <2>1, <2>2, Zenon
<1>. DEFINE t == count * bytes
<1>3. t \in Nat /\ t <= WordMax
  BY <1>2, Zenon
<1>. HIDE DEF t
<1>4. t \in Word /\ t % (WordMax + 1) = t
  BY ONLY <1>1, <1>3, SMTT(30) DEF Word
<1>. QED
  BY <1>4, Zenon DEF t

\* What a step may do.
Maps == [Heap!Next]_<<heap.base .. heap.end - 1, live>>

\* A call that only returns an answer keeps the invariant and is a stuttering
\* step of the abstract heap.
LEMMA Stutter ==
  ASSUME KmemInv, heap' = heap, blocks' = blocks, live' = live, result' \in Results
  PROVE  KmemInv' /\ Maps
<1>1. KmemInv'
  BY Zenon DEF KmemInv
<1>2. (heap.base .. heap.end - 1)' = heap.base .. heap.end - 1
  BY Zenon
<1>. QED
  BY <1>1, <1>2, Zenon DEF Maps

\* The allocation that kmem_alloc and kmem_calloc share keeps the invariant and
\* is a step of the abstract heap.
LEMMA AllocKeeps ==
  ASSUME KmemInv, NEW n \in Word, AllocFor(n, n)
  PROVE  KmemInv' /\ Maps
<1>1. CASE Chosen(n) = NULL
  <2>1. heap' = heap /\ blocks' = blocks /\ live' = live /\ result' \in Results
    BY <1>1, Zenon DEF AllocFor, Results
  <2>. QED
    BY <2>1, Stutter, Zenon
<1>2. CASE Chosen(n) # NULL
  <2>1. result' \in Results
    BY <1>2, Zenon DEF AllocFor, Results
  <2>2. Ready(heap, blocks, live)
    <3>1. heap.base # 0
      BY <1>2, ChosenIs, Zenon
    <3>2. ~Unborn(heap, blocks, live)
      BY <3>1 DEF Unborn
    <3>. QED
      BY <3>2, Zenon DEF KmemInv
  <2>3. Ready(heap', blocks', live') /\ Heap!Alloc
    BY <1>2, <2>2, AllocStep, ZenonT(30)
  <2>. QED
    BY <2>1, <2>3, Zenon DEF KmemInv, Maps, Heap!Next
<1>. QED
  BY <1>1, <1>2, Zenon

\* Every step keeps the invariant and is a step of the abstract heap.
LEMMA NextKmemInv ==
  ASSUME KmemInv, [Next]_vars
  PROVE  KmemInv' /\ Maps
<1>1. CASE UNCHANGED vars
  <2>1. heap' = heap /\ blocks' = blocks /\ live' = live /\ result' \in Results
    BY <1>1, Zenon DEF vars, KmemInv
  <2>. QED
    BY <2>1, Stutter, Zenon
<1>2. ASSUME NEW a \in Arenas, BadArena(a[1], a[2]) \/ Vacant(align_up(a[1])),
             kmem_init(a[1], a[2])
      PROVE  KmemInv' /\ Maps
  <2>1. CASE BadArena(a[1], a[2])
    <3>1. heap' = heap /\ blocks' = blocks /\ live' = live /\ result' \in Results
      BY <1>2, <2>1, Zenon DEF kmem_init, Results
    <3>. QED
      BY <3>1, Stutter, Zenon
  <2>2. CASE ~BadArena(a[1], a[2])
    <3>1. Vacant(align_up(a[1]))
      BY <1>2, <2>2, Zenon
    <3>2. Ready(heap', blocks', live') /\ Heap!Setup
      BY <1>2, <2>2, <3>1, InitStep, ZenonT(30)
    <3>3. result' \in Results
      BY <1>2, <2>2, Zenon DEF kmem_init, Results
    <3>. QED
      BY <3>2, <3>3, Zenon DEF KmemInv, Maps, Heap!Next
  <2>. QED
    BY <2>1, <2>2, Zenon
<1>3. ASSUME NEW n \in Requests, kmem_alloc(n)
      PROVE  KmemInv' /\ Maps
  <2>1. n \in Word
    BY KmemAssumption, Zenon
  <2>. QED
    BY <1>3, <2>1, AllocKeeps, Zenon DEF kmem_alloc
<1>4. ASSUME NEW c \in Callocs, kmem_calloc(c[1], c[2])
      PROVE  KmemInv' /\ Maps
  <2>1. c[1] \in Word /\ c[2] \in Word
    BY KmemAssumption, SMTT(30)
  <2>2. CASE ProductOverflows(c[1], c[2])
    <3>1. heap' = heap /\ blocks' = blocks /\ live' = live /\ result' \in Results
      BY <1>4, <2>2, Zenon DEF kmem_calloc, Results
    <3>. QED
      BY <3>1, Stutter, Zenon
  <2>3. CASE ~ProductOverflows(c[1], c[2])
    <3>1. c[1] * c[2] \in Word /\ (c[1] * c[2]) % (WordMax + 1) = c[1] * c[2]
      BY <2>1, <2>3, ProductFits, Zenon
    <3>2. AllocFor(c[1] * c[2], (c[1] * c[2]) % (WordMax + 1))
      BY <1>4, <2>3, Zenon DEF kmem_calloc
    <3>3. AllocFor(c[1] * c[2], c[1] * c[2])
      BY <3>1, <3>2, Zenon
    <3>. QED
      BY <3>1, <3>3, AllocKeeps, ZenonT(30)
  <2>. QED
    BY <2>2, <2>3, Zenon
<1>5. ASSUME NEW p \in Pointers, kmem_free_checked(p)
      PROVE  KmemInv' /\ Maps
  <2>1. CASE p = NULL \/ ~Freeable(p)
    <3>1. heap' = heap /\ blocks' = blocks /\ live' = live /\ result' \in Results
      BY <1>5, <2>1, Zenon DEF kmem_free_checked, Results
    <3>. QED
      BY <3>1, Stutter, Zenon
  <2>2. CASE p # NULL /\ Freeable(p)
    <3>1. Ready(heap, blocks, live)
      <4>1. p - Header \in DOMAIN blocks
        BY <2>2, Zenon DEF Freeable
      <4>2. ~Unborn(heap, blocks, live)
        BY <4>1, Zenon DEF Unborn
      <4>. QED
        BY <4>2, Zenon DEF KmemInv
    <3>2. p \in Nat
      <4>1. heap.base \in Nat /\ heap.end \in Nat /\ Header \in Nat
        <5>1. ArenaOK(heap)
          BY <3>1, Zenon DEF Ready
        <5>2. heap.base \in Nat \ {0} /\ heap.end \in Nat /\ Header \in Nat \ {0}
          BY <5>1, RoundsPositive, Sizes, Zenon
        <5>. QED
          BY <5>2
      <4>. QED
        BY <4>1 DEF Pointers, NULL
    <3>3. Ready(heap', blocks', live') /\ Heap!Free
      BY <1>5, <2>2, <3>1, <3>2, FreeStep, ZenonT(30)
    <3>4. result' \in Results
      BY <1>5, <2>2, Zenon DEF kmem_free_checked, Results
    <3>. QED
      BY <3>3, <3>4, Zenon DEF KmemInv, Maps, Heap!Next
  <2>. QED
    BY <2>1, <2>2, Zenon
<1>. QED
  BY <1>1, <1>2, <1>3, <1>4, <1>5, ZenonT(30) DEF Next

\* The invariant holds before kmem_init.
LEMMA InitKmemInv == Init => KmemInv
BY Zenon DEF Init, KmemInv, Unborn, Results

\* In every reachable state the heap is set up and in order, or not set up.
THEOREM KmemInvariant == Spec => []KmemInv
<1>1. KmemInv /\ [Next]_vars => KmemInv'
  BY NextKmemInv, Zenon
<1>. QED
  BY InitKmemInv, <1>1, PTL DEF Spec

\* The heap implements the abstract one: what kmem_alloc hands out is aligned,
\* lies in the arena and overlaps nothing that somebody holds, and only what is
\* freed disappears.
THEOREM KmemRefinesHeap == Spec => RefinesHeap
<1>1. KmemInv /\ [Next]_vars => KmemInv'
  BY NextKmemInv, Zenon
<1>2. KmemInv /\ [Next]_vars => [Heap!Next]_<<heap.base .. heap.end - 1, live>>
  BY NextKmemInv, Zenon DEF Maps
<1>3. Init => Heap!Init
  <2>1. ASSUME Init PROVE heap.base .. heap.end - 1 = {}
    <3>1. heap.base = 0 /\ heap.end = 0
      BY <2>1 DEF Init
    <3>. QED
      BY <3>1, SMTT(30)
  <2>. QED
    BY <2>1, Zenon DEF Init, Heap!Init
<1>. QED
  BY InitKmemInv, <1>1, <1>2, <1>3, PTL DEF Spec, RefinesHeap, Heap!Spec

\* The fields stay words.
LEMMA InvTypes ==
  ASSUME KmemInv
  PROVE  TypeOK
<1>1. 0 \in Word /\ WordMax \in Nat /\ Header \in Nat \ {0}
  BY Sizes DEF Word
<1>2. CASE Unborn(heap, blocks, live)
  <2>1. heap \in [base : Word, end : Word]
    BY <1>1, <1>2, SMTT(30) DEF Unborn
  <2>2. DOMAIN blocks = {} /\ DOMAIN live = {}
    BY <1>2, Zenon DEF Unborn
  <2>. QED
    BY <2>1, <2>2, Zenon DEF TypeOK, KmemInv, Results
<1>3. CASE Ready(heap, blocks, live)
  <2>1. /\ heap \in [base : Word, end : Word] /\ Chain(blocks, heap.base, heap.end)
        /\ heap.base \in Nat \ {0} /\ heap.end \in Nat /\ heap.end \in Word
    BY <1>3, RoundsPositive, Zenon DEF Ready, ArenaOK
  <2>2. \A b \in DOMAIN blocks : Placed(blocks, heap.base, heap.end, b)
    BY <2>1, InChain, ZenonT(30)
  <2>3. ASSUME NEW b \in DOMAIN blocks
        PROVE  b \in Word /\ blocks[b].size \in Word /\ EndOf(blocks, b) \in Word
    <3>1. /\ b \in Nat \ {0} /\ blocks[b].size \in Nat /\ EndOf(blocks, b) <= heap.end
          /\ EndOf(blocks, b) = b + Header + blocks[b].size
      BY <2>2, Zenon DEF Placed, EndOf, Payload
    <3>. QED
      BY <1>1, <2>1, <3>1, SMTT(30) DEF Word
  <2>4. ASSUME NEW b \in DOMAIN blocks
        PROVE  blocks[b] \in [size : Word, free : BOOLEAN, prev : Word, next : Word]
    <3>1. blocks[b].next \in Word
      BY <1>1, <2>2, <2>3, ZenonT(30) DEF Placed, NULL
    <3>2. blocks[b].prev \in Word
      <4>1. CASE b = heap.base
        BY <1>1, <2>1, <4>1, ZenonT(30) DEF Chain, NULL
      <4>2. CASE b # heap.base
        BY <2>2, <2>3, <4>2, ZenonT(30) DEF Placed
      <4>. QED
        BY <4>1, <4>2, Zenon
    <3>3. blocks[b].size \in Word /\ blocks[b] \in BlockT
      BY <2>2, <2>3, ZenonT(30) DEF Placed
    <3>. QED
      BY <3>1, <3>2, <3>3, SMTT(30) DEF BlockT
  <2>5. ASSUME NEW p \in DOMAIN live
        PROVE  p \in Word /\ live[p] \in Nat
    <3>1. PICK b \in Used(blocks) : p = Payload(b)
      BY <1>3, Zenon DEF Ready, Owned
    <3>2. live[p] \in Nat \ {0}
      BY <1>3, <3>1, Zenon DEF Ready, Owned
    <3>3. b \in DOMAIN blocks
      BY Zenon DEF Used
    <3>4. /\ b \in Nat \ {0} /\ blocks[b].size \in Nat /\ EndOf(blocks, b) <= heap.end
          /\ EndOf(blocks, b) = b + Header + blocks[b].size
      BY <2>2, <3>3, Zenon DEF Placed, EndOf, Payload
    <3>. QED
      BY <1>1, <2>1, <3>1, <3>2, <3>4, SMTT(30) DEF Word, Payload
  <2>. QED
    BY <2>1, <2>3, <2>4, <2>5, ZenonT(30) DEF TypeOK, KmemInv, Results
<1>. QED
  BY <1>2, <1>3, Zenon DEF KmemInv

\* The invariant implies that the blocks tile the arena.
LEMMA InvTiled ==
  ASSUME KmemInv
  PROVE  HeapTiled
<1>1. TypeOK
  BY InvTypes, Zenon
<1>2. ASSUME heap.base # 0, NEW b \in DOMAIN blocks
      PROVE  /\ heap.base \in DOMAIN blocks /\ blocks[heap.base].prev = NULL
             /\ Linked(blocks, heap.base, heap.end, b)
             /\ blocks[b].next # NULL => ~(blocks[b].free /\ blocks[blocks[b].next].free)
  <2>1. ~Unborn(heap, blocks, live)
    BY <1>2 DEF Unborn
  <2>2. Ready(heap, blocks, live)
    BY <2>1, Zenon DEF KmemInv
  <2>. QED
    BY <2>2, Zenon DEF Ready, Chain, NoTwoFreeBut
<1>3. heap.base # 0 => heap.base \in DOMAIN blocks
  <2>1. heap.base # 0 => ~Unborn(heap, blocks, live)
    BY DEF Unborn
  <2>. QED
    BY <2>1, Zenon DEF KmemInv, Ready, Chain
<1>. QED
  BY <1>1, <1>2, <1>3, ZenonT(30) DEF HeapTiled, Linked, EndOf

\* The list of blocks tiles the arena, and no two neighbours are free.
THEOREM KmemHeapTiled == Spec => []HeapTiled
<1>1. KmemInv => HeapTiled
  BY InvTiled, ZenonT(30)
<1>. QED
  BY KmemInvariant, <1>1, PTL

\* kmem_free_checked accepts exactly the live allocations.
LEMMA InvFreeExact ==
  ASSUME KmemInv
  PROVE  FreeExact
<1>1. CASE Unborn(heap, blocks, live)
  <2>1. DOMAIN blocks = {} /\ DOMAIN live = {}
    BY <1>1, Zenon DEF Unborn
  <2>. QED
    BY <2>1, ZenonT(30) DEF FreeExact, Freeable
<1>2. CASE Ready(heap, blocks, live)
  <2>1. /\ heap.base \in Nat \ {0} /\ heap.end \in Nat /\ Chain(blocks, heap.base, heap.end)
        /\ Header \in Nat \ {0} /\ DOMAIN live = {Payload(b) : b \in Used(blocks)}
    BY <1>2, RoundsPositive, Sizes, ZenonT(30) DEF Ready, Owned
  <2>2. \A b \in DOMAIN blocks : Placed(blocks, heap.base, heap.end, b)
    BY <2>1, InChain, Zenon
  <2>3. ASSUME NEW p \in Pointers, Freeable(p) PROVE p \in DOMAIN live
    <3>1. p - Header \in Used(blocks)
      BY <2>3, Zenon DEF Freeable, Used
    <3>2. p \in Int
      BY <2>1, SMTT(30) DEF Pointers, NULL
    <3>3. Payload(p - Header) = p
      BY <2>1, <3>2, SMTT(30) DEF Payload
    <3>. QED
      BY <2>1, <3>1, <3>3, ZenonT(30)
  <2>4. ASSUME NEW p \in DOMAIN live PROVE p \in Pointers /\ Freeable(p)
    <3>1. PICK b \in Used(blocks) : p = Payload(b)
      BY <2>1, Zenon
    <3>2. b \in DOMAIN blocks /\ ~blocks[b].free
      BY Zenon DEF Used
    <3>3. /\ b \in Nat \ {0} /\ blocks[b].size \in Nat /\ EndOf(blocks, b) <= heap.end
          /\ EndOf(blocks, b) = b + Header + blocks[b].size /\ heap.base <= b
      BY <2>2, <3>2, Zenon DEF Placed, EndOf, Payload
    <3>4. live[p] \in Nat \ {0} /\ live[p] <= blocks[b].size
      BY <1>2, <3>1, ZenonT(30) DEF Ready, Owned
    <3>5. /\ p \in Nat /\ p - Header = b /\ p >= Header /\ p \in heap.base .. heap.end
          /\ heap.base <= p /\ p < heap.end /\ b < heap.end
      BY <2>1, <3>1, <3>3, <3>4, SMTT(30) DEF Payload
    <3>6. p % Align = 0
      <4>1. LiveApart(heap, live)
        BY <1>2, ReadyApart, Zenon
      <4>. QED
        BY <4>1, Zenon DEF LiveApart, Aligned
    <3>7. p \in Pointers
      BY <3>5, <3>6, Zenon DEF Pointers
    <3>. QED
      BY <3>2, <3>3, <3>5, <3>6, <3>7, ZenonT(30) DEF Freeable, InHeap
  <2>5. \A p : p \in {x \in Pointers : Freeable(x)} <=> p \in DOMAIN live
    BY <2>3, <2>4, Zenon
  <2>6. {x \in Pointers : Freeable(x)} = DOMAIN live
    BY <2>5, Zenon
  <2>. QED
    BY <2>6, Zenon DEF FreeExact
<1>. QED
  BY <1>1, <1>2, Zenon DEF KmemInv

-----------------------------------------------------------------------------
(* The loops over the list.                                                *)

\* f is the walk along the list, for n rounds.
IsWalk(n, f) ==
  f = [i \in 0 .. n |-> IF i = 0 THEN heap.base ELSE Following(f[i - 1])]

\* A walk of one round more.
LEMMA WalkNext ==
  ASSUME NEW n \in Nat, NEW f, IsWalk(n, f)
  PROVE  \E g : IsWalk(n + 1, g)
<1>. DEFINE g == [i \in 0 .. n + 1 |-> IF i <= n THEN f[i] ELSE Following(f[n])]
            h == [i \in 0 .. n + 1 |-> IF i = 0 THEN heap.base ELSE Following(g[i - 1])]
<1>1. ASSUME NEW i \in 0 .. n + 1 PROVE g[i] = h[i]
  <2>1. CASE i = 0
    <3>1. 0 \in 0 .. n /\ 0 \in 0 .. n + 1 /\ 0 <= n
      OBVIOUS
    <3>2. f[0] = heap.base
      BY <3>1, Zenon DEF IsWalk
    <3>3. g[0] = f[0] /\ h[0] = heap.base
      BY <3>1, Zenon
    <3>. QED
      BY <2>1, <3>2, <3>3, ZenonT(30)
  <2>2. CASE i \in 1 .. n
    <3>1. i \in 0 .. n /\ i # 0 /\ i <= n /\ i - 1 \in 0 .. n + 1 /\ i - 1 <= n
      BY <2>2
    <3>2. f[i] = Following(f[i - 1])
      BY <3>1, Zenon DEF IsWalk
    <3>3. g[i] = f[i] /\ g[i - 1] = f[i - 1] /\ h[i] = Following(g[i - 1])
      BY <3>1, Zenon
    <3>. QED
      BY <3>2, <3>3, ZenonT(30)
  <2>3. CASE i = n + 1
    <3>1. i # 0 /\ i - 1 = n /\ n \in 0 .. n + 1 /\ n <= n /\ ~(i <= n)
      BY <2>3
    <3>2. g[n] = f[n] /\ g[i] = Following(f[n]) /\ h[i] = Following(g[n])
      BY <3>1, Zenon
    <3>. QED
      BY <3>2, Zenon
  <2>4. i = 0 \/ i \in 1 .. n \/ i = n + 1
    OBVIOUS
  <2>. QED
    BY <2>1, <2>2, <2>3, <2>4, ZenonT(30)
<1>2. g = h
  BY <1>1, Zenon
<1>3. IsWalk(n + 1, g)
  BY <1>2, Zenon DEF IsWalk
<1>. QED
  BY <1>3, Zenon

\* The walk, round by round.
LEMMA WalkIs ==
  ASSUME NEW R \in Nat, R = Rounds
  PROVE  /\ Walk[0] = heap.base
         /\ \A i \in 1 .. R : Walk[i] = Following(Walk[i - 1])
<1>. DEFINE S == {k \in Nat : \E f : IsWalk(k, f)}
<1>1. 0 \in S
  <2>. DEFINE f == [i \in 0 .. 0 |-> heap.base]
  <2>1. \A i \in 0 .. 0 : i = 0
    OBVIOUS
  <2>2. f = [i \in 0 .. 0 |-> IF i = 0 THEN heap.base ELSE Following(f[i - 1])]
    BY <2>1, Zenon
  <2>3. IsWalk(0, f)
    BY <2>2, Zenon DEF IsWalk
  <2>. QED
    BY <2>3, Zenon
<1>2. \A k \in 0 .. R - 1 : k \in S => k + 1 \in S
  <2>. TAKE k \in 0 .. R - 1
  <2>1. k \in Nat /\ k + 1 \in Nat
    BY ONLY R \in Nat, k \in 0 .. R - 1, SMTT(30)
  <2>. QED
    BY <2>1, WalkNext, ZenonT(30)
<1>3. R \in S
  <2>1. 0 .. R \subseteq S
    BY ONLY R \in Nat, <1>1, <1>2, UpTo, ZenonT(30)
  <2>2. R \in 0 .. R
    BY ONLY R \in Nat
  <2>. QED
    BY <2>1, <2>2, ZenonT(30)
<1>4. IsWalk(R, Walk)
  BY <1>3, Zenon DEF Walk, IsWalk
<1>5. /\ 0 \in 0 .. R
      /\ \A i \in 1 .. R : i \in 0 .. R /\ i # 0
  BY ONLY R \in Nat, SMTT(30)
<1>. HIDE DEF S
<1>. QED
  BY <1>4, <1>5, Zenon DEF IsWalk

\* Multiples of the header size.
LEMMA OneMore ==
  ASSUME NEW k \in Nat
  PROVE  k * Header \in Nat /\ (k + 1) * Header = k * Header + Header
<1>1. Header \in Nat
  BY Sizes, ZenonT(30)
<1>. QED
  BY <1>1, SMTT(30)

\* Where the walk is after i rounds: at a block that has i headers before it,
\* all of them visited, or at the end.
WalkAt(i) ==
  /\ Walk[i] = NULL \/ (Walk[i] \in DOMAIN blocks /\ heap.base + i * Header <= Walk[i])
  /\ \A j \in 0 .. i - 1 :
       Walk[i] # NULL => Walk[j] \in DOMAIN blocks /\ Walk[j] < Walk[i]
  /\ \A b \in DOMAIN blocks :
       (\E j \in 0 .. i : Walk[j] = b) \/ (Walk[i] # NULL /\ Walk[i] < b)

\* The walk of the block list, at every index.
LEMMA WalkAtAll ==
  ASSUME Ready(heap, blocks, live)
  PROVE  \A i \in 0 .. Rounds : WalkAt(i)
<1>. DEFINE base == heap.base
            end == heap.end
<1>1. /\ Rounds \in Nat \ {0} /\ base \in Nat \ {0} /\ end \in Nat
      /\ Chain(blocks, base, end) /\ Header \in Nat \ {0}
  BY RoundsPositive, Sizes, ZenonT(30) DEF Ready
<1>2. PICK R \in Nat : R = Rounds
  BY <1>1, SMTT(30)
<1>3. /\ Walk[0] = base
      /\ \A i \in 1 .. R : Walk[i] = Following(Walk[i - 1])
  BY <1>2, WalkIs, Zenon
<1>4. \A b \in DOMAIN blocks : Placed(blocks, base, end, b)
  BY <1>1, InChain, ZenonT(30)
<1>5. \A x, y \in DOMAIN blocks : x < y => EndOf(blocks, x) <= y
  BY <1>1, ChainOrder, Zenon
<1>6. NULL \notin DOMAIN blocks /\ base \in DOMAIN blocks
  BY <1>1, ChainOrder, Zenon
<1>. HIDE DEF base, end
<1>. DEFINE S == {i \in Nat : WalkAt(i)}
<1>7. 0 \in S
  <2>1. 0 * Header = 0 /\ base + 0 * Header <= base
    BY <1>1, SMTT(30)
  <2>2. 0 .. 0 - 1 = {} /\ 0 \in 0 .. 0 /\ 0 \in Nat
    OBVIOUS
  <2>3. ASSUME NEW b \in DOMAIN blocks PROVE b = base \/ base < b
    <3>1. b \in Nat \ {0} /\ base <= b
      BY <1>4, Zenon DEF Placed
    <3>. QED
      BY <1>1, <3>1, SMTT(30)
  <2>4. Walk[0] # NULL
    BY <1>3, <1>6, Zenon
  <2>. QED
    BY <1>3, <1>6, <2>1, <2>2, <2>3, <2>4, ZenonT(30) DEF WalkAt, base
<1>8. ASSUME NEW i \in 0 .. R - 1, i \in S PROVE i + 1 \in S
  <2>1. /\ i \in Nat /\ i + 1 \in Nat /\ i + 1 \in 1 .. R /\ i + 1 - 1 = i /\ (i + 1) - 1 = i
        /\ 0 .. (i + 1) - 1 = 0 .. i /\ 0 .. i = (0 .. i - 1) \cup {i}
        /\ 0 .. i \subseteq 0 .. i + 1 /\ i + 1 \in 0 .. i + 1
    BY ONLY R \in Nat, i \in 0 .. R - 1, SMTT(30)
  <2>2. WalkAt(i)
    BY <1>8, Zenon
  <2>. DEFINE c == Walk[i]
              d == Walk[i + 1]
  <2>3. d = Following(c)
    <3>1. d = Following(Walk[i + 1 - 1])
      BY ONLY <1>3, <2>1, SMTT(30)
    <3>. QED
      BY <2>1, <3>1, ZenonT(30)
  <2>4. CASE c = NULL
    <3>1. d = NULL
      BY <1>6, <2>3, <2>4, ZenonT(30) DEF Following
    <3>2. \A b \in DOMAIN blocks : \E j \in 0 .. i : Walk[j] = b
      BY <2>2, <2>4, Zenon DEF WalkAt
    <3>3. WalkAt(i + 1)
      BY <2>1, <3>1, <3>2, ZenonT(30) DEF WalkAt
    <3>. QED
      BY <2>1, <3>3, ZenonT(30)
  <2>5. CASE c # NULL
    <3>1. c \in DOMAIN blocks /\ base + i * Header <= c
      BY <2>2, <2>5, Zenon DEF WalkAt, base
    <3>2. d = blocks[c].next
      BY <2>3, <3>1, ZenonT(30) DEF Following
    <3>3. Placed(blocks, base, end, c)
      BY <1>4, <3>1, ZenonT(30)
    <3>4. /\ c \in Nat \ {0} /\ EndOf(blocks, c) = c + Header + blocks[c].size
          /\ blocks[c].size \in Nat /\ EndOf(blocks, c) \in Nat /\ c < EndOf(blocks, c)
          /\ d # NULL => d = EndOf(blocks, c) /\ d \in DOMAIN blocks
          /\ d = NULL => EndOf(blocks, c) = end
      BY <3>2, <3>3, ZenonT(30) DEF Placed, EndOf, Payload
    <3>5. d # NULL => base + (i + 1) * Header <= d
      <4>1. i * Header \in Nat /\ (i + 1) * Header = i * Header + Header
        BY <2>1, OneMore, Zenon
      <4>. HIDE DEF c, d
      <4>. QED
        BY <1>1, <3>1, <3>4, <4>1, SMTT(30)
    <3>6. ASSUME d # NULL, NEW j \in 0 .. i PROVE Walk[j] \in DOMAIN blocks /\ Walk[j] < d
      <4>1. c < d
        BY <3>4, <3>6, Zenon
      <4>2. CASE j = i
        BY <3>1, <4>1, <4>2, ZenonT(30)
      <4>3. CASE j # i
        <5>1. j \in 0 .. i - 1
          BY <2>1, <4>3, ZenonT(30)
        <5>2. Walk[j] \in DOMAIN blocks /\ Walk[j] < c
          BY <2>2, <2>5, <5>1, ZenonT(30) DEF WalkAt
        <5>3. Walk[j] \in Nat \ {0} /\ d \in Nat
          BY <1>4, <3>4, <3>6, <5>2, ZenonT(30) DEF Placed
        <5>4. Walk[j] < d
          <6>. DEFINE x == Walk[j]
          <6>. HIDE DEF x, c, d
          <6>1. x \in Nat \ {0} /\ x < c
            BY <5>2, <5>3, ZenonT(30) DEF x
          <6>2. x < d
            BY <3>4, <4>1, <5>3, <6>1, SMTT(30)
          <6>. QED
            BY <6>2, Zenon DEF x
        <5>. QED
          BY <5>2, <5>4, ZenonT(30)
      <4>. QED
        BY <4>2, <4>3, ZenonT(30)
    <3>7. ASSUME NEW b \in DOMAIN blocks
          PROVE  (\E j \in 0 .. i + 1 : Walk[j] = b) \/ (d # NULL /\ d < b)
      <4>1. CASE \E j \in 0 .. i : Walk[j] = b
        BY <2>1, <4>1, ZenonT(30)
      <4>2. CASE c < b
        <5>1. EndOf(blocks, c) <= b
          BY <1>5, <3>1, <4>2, ZenonT(30)
        <5>2. b \in Nat \ {0} /\ EndOf(blocks, b) \in Nat /\ b < EndOf(blocks, b) /\ EndOf(blocks, b) <= end
          BY <1>4, ZenonT(30) DEF Placed
        <5>. HIDE DEF c, d
        <5>3. d # NULL
          BY <1>1, <3>4, <5>1, <5>2, SMTT(30)
        <5>4. d = b \/ d < b
          BY <3>4, <5>1, <5>2, <5>3, SMTT(30)
        <5>. QED
          BY <2>1, <5>3, <5>4, ZenonT(30) DEF d
      <4>. QED
        BY <2>2, <2>5, <4>1, <4>2, ZenonT(30) DEF WalkAt
    <3>8. WalkAt(i + 1)
      <4>1. d = NULL \/ (d \in DOMAIN blocks /\ heap.base + (i + 1) * Header <= d)
        BY <3>4, <3>5, ZenonT(30) DEF base
      <4>2. \A j \in 0 .. (i + 1) - 1 : d # NULL => Walk[j] \in DOMAIN blocks /\ Walk[j] < d
        BY <2>1, <3>6, Zenon
      <4>3. \A b \in DOMAIN blocks : (\E j \in 0 .. i + 1 : Walk[j] = b) \/ (d # NULL /\ d < b)
        BY <3>7, Zenon
      <4>. QED
        BY ONLY <4>1, <4>2, <4>3, ZenonT(30) DEF WalkAt
    <3>. QED
      BY <2>1, <3>8, Zenon
  <2>. QED
    BY <2>4, <2>5, ZenonT(30)
<1>. HIDE DEF S
<1>9. 0 .. R \subseteq S
  BY ONLY R \in Nat, <1>7, <1>8, UpTo, ZenonT(30)
<1>. QED
  BY <1>2, <1>9, ZenonT(30) DEF S

\* The walk visits every block, in the order of their addresses, and ends.
LEMMA WalkEnds ==
  ASSUME Ready(heap, blocks, live)
  PROVE  /\ Rounds \in Nat \ {0} /\ Walk[0] = heap.base /\ Walk[Rounds] = NULL
         /\ \A i \in 1 .. Rounds : Walk[i] = Following(Walk[i - 1])
         /\ \A i \in 0 .. Rounds : Walk[i] = NULL \/ Walk[i] \in DOMAIN blocks
         /\ \A i \in 0 .. Rounds : \A j \in 0 .. i - 1 :
              Walk[i] # NULL => Walk[j] \in DOMAIN blocks /\ Walk[j] < Walk[i]
         /\ \A b \in DOMAIN blocks : \E j \in 0 .. Rounds : Walk[j] = b
<1>1. /\ Rounds \in Nat \ {0} /\ heap.base \in Nat \ {0} /\ heap.end \in Nat
      /\ Chain(blocks, heap.base, heap.end) /\ Header \in Nat \ {0}
  BY RoundsPositive, Sizes, Zenon DEF Ready
<1>2. PICK R \in Nat : R = Rounds
  BY <1>1
<1>3. /\ Walk[0] = heap.base
      /\ \A i \in 1 .. R : Walk[i] = Following(Walk[i - 1])
  BY <1>2, WalkIs, Zenon
<1>4. \A i \in 0 .. R : WalkAt(i)
  BY <1>2, WalkAtAll, ZenonT(30)
<1>5. R \in 0 .. R
  BY SMTT(30)
<1>6. WalkAt(R)
  BY <1>4, <1>5, ZenonT(30)
<1>7. ASSUME Walk[R] # NULL PROVE FALSE
  <2>. DEFINE b == Walk[R]
  <2>1. b \in DOMAIN blocks /\ heap.base + R * Header <= b
    BY <1>6, <1>7, ZenonT(30) DEF WalkAt
  <2>2. Placed(blocks, heap.base, heap.end, b)
    BY <1>1, <2>1, InChain, ZenonT(30)
  <2>3. /\ b \in Nat \ {0} /\ blocks[b].size \in Nat
        /\ b + Header + blocks[b].size <= heap.end
    BY <2>2, Zenon DEF Placed, EndOf, Payload
  <2>. DEFINE v == heap.end - heap.base
  <2>4. v \in Nat
    BY <1>1 , RoundsPositive, SMTT(30) DEF Ready
  <2>5. R = v \div Header
    BY <1>2, Zenon DEF Rounds
  <2>6. v < R * Header + Header
    BY <1>1, <2>4, <2>5, Quotient, ZenonT(30)
  <2>7. R * Header \in Nat
    BY OneMore, Zenon
  <2>. HIDE DEF b
  <2>. QED
    BY <1>1, <2>1, <2>3, <2>6, <2>7, SMTT(30)
<1>8. \A b \in DOMAIN blocks : \E j \in 0 .. R : Walk[j] = b
  BY <1>6, <1>7, Zenon DEF WalkAt
<1>9. /\ \A i \in 0 .. R : Walk[i] = NULL \/ Walk[i] \in DOMAIN blocks
      /\ \A i \in 0 .. R : \A j \in 0 .. i - 1 :
              Walk[i] # NULL => Walk[j] \in DOMAIN blocks /\ Walk[j] < Walk[i]
  BY <1>4, Zenon DEF WalkAt
<1>. QED
  BY <1>1, <1>2, <1>3, <1>7, <1>8, <1>9, ZenonT(30)

\* kmem_alloc takes the first block in memory that fits.
LEMMA InvAllocExact ==
  ASSUME KmemInv
  PROVE  AllocExact
<1>. SUFFICES ASSUME NEW n \in Requests
              PROVE  LET fits == {b \in DOMAIN blocks : blocks[b].free /\ blocks[b].size >= n}
                     IN IF fits = {} \/ n = 0 \/ n + Align - 1 > WordMax THEN Chosen(n) = NULL
                        ELSE Chosen(n) \in fits /\ \A b \in fits : Chosen(n) <= b
  BY Zenon DEF AllocExact
<1>. DEFINE fits == {b \in DOMAIN blocks : blocks[b].free /\ blocks[b].size >= n}
<1>1. /\ n \in Word /\ n \in Nat /\ n <= WordMax /\ WordMax \in Nat /\ Align \in Nat \ {0}
      /\ Header \in Nat \ {0} /\ Aligned(Header)
  <2>1. n \in Word
    BY KmemAssumption, Zenon
  <2>2. WordMax \in Nat /\ Align \in Nat \ {0} /\ Header \in Nat \ {0} /\ Aligned(Header)
    BY Sizes, Zenon
  <2>. QED
    BY <2>1, <2>2, SMTT(30) DEF Word
<1>2. ASSUME Chosen(n) # NULL
      PROVE  n # 0 /\ ~(n + Align - 1 > WordMax) /\ Chosen(n) \in fits /\ Ready(heap, blocks, live)
  <2>1. /\ Chosen(n) \in DOMAIN blocks /\ blocks[Chosen(n)].free
        /\ blocks[Chosen(n)].size >= Wanted(n) /\ n # 0 /\ Wanted(n) # 0 /\ heap.base # 0
    BY <1>2, ChosenIs, Zenon
  <2>2. Wanted(n) \in Nat /\ n <= Wanted(n) /\ n + Align - 1 <= WordMax
    BY <1>1, <2>1, WantedIs, ZenonT(30)
  <2>3. Ready(heap, blocks, live)
    <3>1. ~Unborn(heap, blocks, live)
      BY <2>1 DEF Unborn
    <3>. QED
      BY <3>1, Zenon DEF KmemInv
  <2>4. blocks[Chosen(n)].size \in Nat
    <3>1. Chain(blocks, heap.base, heap.end) /\ heap.base \in Nat \ {0} /\ heap.end \in Nat
      BY <2>3, RoundsPositive, ZenonT(30) DEF Ready
    <3>. QED
      BY <2>1, <3>1, ChainOrder, Fields, ZenonT(30)
  <2>. DEFINE s == blocks[Chosen(n)].size
              w == Wanted(n)
  <2>5. s >= n /\ ~(n + Align - 1 > WordMax)
    <3>1. s \in Nat /\ w \in Nat /\ s >= w /\ n <= w /\ n + Align - 1 <= WordMax
      BY <2>1, <2>2, <2>4, ZenonT(30)
    <3>. HIDE DEF s, w
    <3>. QED
      BY <1>1, <3>1, SMTT(30)
  <2>. QED
    BY <2>1, <2>3, <2>5, ZenonT(30)
<1>3. ASSUME n # 0, ~(n + Align - 1 > WordMax), NEW b \in fits
      PROVE  Chosen(n) # NULL /\ Chosen(n) <= b
  <2>. DEFINE w == Wanted(n)
              good == {i \in 0 .. Rounds : Walk[i] \in DOMAIN blocks
                         /\ blocks[Walk[i]].free /\ blocks[Walk[i]].size >= w}
              least == CHOOSE i \in good : \A j \in good : i <= j
  <2>1. n + Align - 1 <= WordMax
    BY <1>1, <1>3, SMTT(30)
  <2>2. w \in Word /\ Aligned(w) /\ n <= w /\ w < n + Align
    BY <1>1, <2>1, AlignUp, ZenonT(30) DEF Wanted
  <2>3. w \in Nat /\ w # 0
    BY <1>1, <1>3, <2>2, SMTT(30) DEF Word
  <2>. HIDE DEF w
  <2>4. b \in DOMAIN blocks /\ blocks[b].free /\ blocks[b].size >= n
    BY Zenon
  <2>5. Ready(heap, blocks, live)
    <3>1. ~Unborn(heap, blocks, live)
      BY <2>4, Zenon DEF Unborn
    <3>. QED
      BY <3>1, Zenon DEF KmemInv
  <2>6. /\ Chain(blocks, heap.base, heap.end) /\ heap.base \in Nat \ {0} /\ heap.end \in Nat
        /\ heap.end \in Word /\ Aligned(heap.end)
    BY <2>5, RoundsPositive, Zenon DEF Ready
  <2>7. \A x \in DOMAIN blocks : Placed(blocks, heap.base, heap.end, x)
    BY <2>6, InChain, Zenon
  <2>8. blocks[b].size >= w
    <3>. DEFINE s == blocks[b].size
                p == b + Header
                e == EndOf(blocks, b)
    <3>1. b \in Nat \ {0} /\ s \in Nat /\ e = p + s /\ Aligned(b) /\ e \in Nat
      BY <2>4, <2>7, ZenonT(30) DEF Placed, EndOf, Payload
    <3>2. p \in Nat /\ b \in Nat /\ Header \in Nat
      BY <1>1, <3>1, SMTT(30)
    <3>3. Aligned(p)
      BY <1>1, <3>1, <3>2, AlignedSum, ZenonT(30)
    <3>4. Aligned(e)
      BY <2>4, <2>6, EndAligned, ZenonT(30)
    <3>. HIDE DEF p, e, s
    <3>5. p <= e /\ e - p = s
      BY <3>1, <3>2, SMTT(30)
    <3>6. Aligned(s)
      <4>1. Aligned(e - p)
        BY <3>1, <3>2, <3>3, <3>4, <3>5, AlignedSum, ZenonT(30)
      <4>. QED
        BY <3>5, <4>1, ZenonT(30)
    <3>7. s < w => s + Align <= w
      BY <2>2, <2>3, <3>1, <3>6, AlignedSum, ZenonT(30)
    <3>8. s >= n
      BY <2>4, ZenonT(30) DEF s
    <3>9. s >= w
      BY <1>1, <2>2, <2>3, <3>1, <3>7, <3>8, SMTT(30)
    <3>. QED
      BY <3>9, Zenon DEF s
  <2>9. PICK k \in 0 .. Rounds : Walk[k] = b
    BY <2>4, <2>5, WalkEnds, ZenonT(30)
  <2>10. k \in good
    BY <2>4, <2>8, <2>9, ZenonT(30)
  <2>11. good \in SUBSET Nat
    <3>1. \A i \in 0 .. Rounds : i \in Nat
      OBVIOUS
    <3>. QED
      BY <3>1, ZenonT(30)
  <2>12. least \in good /\ \A j \in good : least <= j
    <3>1. \E i \in good : \A j \in good : i <= j
      <4>. HIDE DEF good
      <4>. QED
        BY <2>10, <2>11, Least, ZenonT(30)
    <3>. HIDE DEF good
    <3>. QED
      BY <3>1, ZenonT(30)
  <2>13. Chosen(n) = Walk[least]
    <3>1. Chosen(n) = FirstFit(w)
      <4>1. heap.base # 0
        BY <2>6, SMTT(30)
      <4>. QED
        BY <1>3, <2>3, <4>1, ZenonT(30) DEF Chosen, w
    <3>. QED
      BY <2>10, <3>1, ZenonT(30) DEF FirstFit
  <2>. HIDE DEF least
  <2>14. Walk[least] \in DOMAIN blocks /\ least \in 0 .. Rounds /\ least <= k
    BY <2>10, <2>12, Zenon
  <2>15. Walk[least] # NULL
    BY <2>6, <2>14, ChainOrder, ZenonT(30)
  <2>16. Walk[least] <= b
    <3>1. CASE least = k
      <4>1. b \in Nat \ {0}
        BY <2>4, <2>7, ZenonT(30) DEF Placed
      <4>2. b <= b
        BY <4>1, SMTT(30)
      <4>. QED
        BY <2>9, <3>1, <4>2, ZenonT(30)
    <3>2. CASE least # k
      <4>1. least \in 0 .. k - 1
        BY <2>14, <3>2, SMTT(30)
      <4>2. b # NULL
        BY <2>4, <2>6, ChainOrder, ZenonT(30)
      <4>3. Walk[least] < b
        BY <2>5, <2>9, <4>1, <4>2, WalkEnds, ZenonT(30)
      <4>4. b \in Nat \ {0} /\ Walk[least] \in Nat \ {0}
        BY <2>4, <2>7, <2>14, ZenonT(30) DEF Placed
      <4>. QED
        BY <4>3, <4>4, SMTT(30)
    <3>. QED
      BY <3>1, <3>2, ZenonT(30)
  <2>. QED
    BY <2>13, <2>15, <2>16, ZenonT(30)
<1>. HIDE DEF fits
<1>4. CASE fits = {} \/ n = 0 \/ n + Align - 1 > WordMax
  <2>1. Chosen(n) = NULL
    BY <1>2, <1>4, Zenon
  <2>. QED
    BY <1>4, <2>1, Zenon DEF fits
<1>5. CASE ~(fits = {} \/ n = 0 \/ n + Align - 1 > WordMax)
  <2>1. PICK c \in fits : TRUE
    BY <1>5, Zenon
  <2>2. Chosen(n) \in fits /\ \A b \in fits : Chosen(n) <= b
    BY <1>2, <1>3, <1>5, <2>1, ZenonT(30)
  <2>. QED
    BY <1>5, <2>2, Zenon DEF fits
<1>. QED
  BY <1>4, <1>5, Zenon

\* kmem_validate finds no fault.
LEMMA InvValidate ==
  ASSUME KmemInv
  PROVE  ValidateAccepts
<1>. SUFFICES ASSUME heap.base # 0, Rounds <= MaxBlocks PROVE kmem_validate
  BY Zenon DEF ValidateAccepts
<1>1. Ready(heap, blocks, live)
  <2>1. ~Unborn(heap, blocks, live)
    BY DEF Unborn
  <2>. QED
    BY <2>1, ZenonT(30) DEF KmemInv
<1>2. /\ Chain(blocks, heap.base, heap.end) /\ heap.base \in Nat \ {0} /\ heap.end \in Nat
      /\ heap.end \in Word /\ Aligned(heap.end) /\ Rounds \in Nat \ {0} /\ Header \in Nat \ {0}
      /\ heap.base + Header < heap.end /\ MaxBlocks \in Nat
  BY <1>1, RoundsPositive, Sizes, ZenonT(30) DEF Ready
<1>3. \A x \in DOMAIN blocks : Placed(blocks, heap.base, heap.end, x)
  BY <1>2, InChain, ZenonT(30)
<1>4. \A x \in DOMAIN blocks : After(x, blocks[x].size) = EndOf(blocks, x)
  BY <1>2, EndAligned, ZenonT(30)
<1>5. ASSUME NEW b \in DOMAIN blocks, NEW i \in 0 .. Rounds, i # Rounds
      PROVE  BlockValid(b, i, blocks[b].prev, b)
  <2>1. /\ b \in Nat \ {0} /\ blocks[b].size \in Nat /\ EndOf(blocks, b) <= heap.end
        /\ EndOf(blocks, b) = b + Header + blocks[b].size
    BY <1>3, ZenonT(30) DEF Placed, EndOf, Payload
  <2>2. /\ i < MaxBlocks /\ b + Header <= heap.end
        /\ blocks[b].size <= heap.end - (b + Header) /\ EndOf(blocks, b) # 0
    BY <1>2, <1>5, <2>1, SMTT(30)
  <2>. QED
    BY <1>4, <2>1, <2>2, ZenonT(30) DEF BlockValid, Payload
<1>6. heap.base \in DOMAIN blocks /\ blocks[heap.base].prev = NULL /\ heap.base < heap.end
  <2>1. heap.base < heap.end
    BY <1>2, SMTT(30)
  <2>. QED
    BY <1>2, <2>1, ZenonT(30) DEF Chain
<1>7. Walk[0] = heap.base /\ Walk[Rounds] = NULL
  BY <1>1, WalkEnds, Zenon
<1>8. BlockValid(Walk[0], 0, NULL, heap.base)
  <2>1. 0 \in 0 .. Rounds /\ 0 # Rounds
    BY <1>2, SMTT(30)
  <2>. QED
    BY <1>5, <1>6, <1>7, <2>1, ZenonT(30)
<1>9. ASSUME NEW i \in 1 .. Rounds, Walk[i] # NULL
      PROVE  BlockValid(Walk[i], i, Walk[i - 1], After(Walk[i - 1], blocks[Walk[i - 1]].size))
  <2>. DEFINE b == Walk[i]
              p == Walk[i - 1]
  <2>1. i \in 0 .. Rounds /\ i # Rounds /\ i - 1 \in 0 .. i - 1
    <3>1. i # Rounds
      BY <1>7, <1>9, ZenonT(30)
    <3>. QED
      BY <1>2, <3>1, SMTT(30)
  <2>2. b \in DOMAIN blocks /\ p \in DOMAIN blocks /\ b = Following(p)
    BY <1>1, <1>9, <2>1, WalkEnds, ZenonT(30)
  <2>3. b = blocks[p].next
    BY <2>2, Zenon DEF Following
  <2>4. b = EndOf(blocks, p) /\ blocks[b].prev = p
    <3>1. Placed(blocks, heap.base, heap.end, p)
      BY <1>3, <2>2, ZenonT(30)
    <3>. QED
      BY <1>9, <2>3, <3>1, ZenonT(30) DEF Placed
  <2>5. BlockValid(b, i, blocks[b].prev, b)
    BY <1>5, <2>1, <2>2, ZenonT(30)
  <2>6. After(p, blocks[p].size) = b
    BY <1>4, <2>2, <2>4, ZenonT(30)
  <2>. HIDE DEF b, p
  <2>7. BlockValid(b, i, p, After(p, blocks[p].size))
    BY <2>4, <2>5, <2>6, ZenonT(30)
  <2>. QED
    BY <2>7, ZenonT(30) DEF b, p
<1>. QED
  BY <1>6, <1>8, <1>9, ZenonT(30) DEF kmem_validate

\* After any history, kmem_alloc and kmem_free_checked accept exactly the
\* requests they should, and kmem_validate accepts the heap.
THEOREM KmemCallsExact == Spec => []CallsExact
<1>1. KmemInv => CallsExact
  BY InvAllocExact, InvFreeExact, InvValidate, ZenonT(30) DEF CallsExact
<1>. QED
  BY KmemInvariant, <1>1, PTL

-----------------------------------------------------------------------------
(* The statistics.                                                         *)

StatsT == [total_bytes : Nat, block_count : Nat, free_count : Nat,
           free_bytes : Nat, used_bytes : Nat, largest_free : Nat]

NothingCounted ==
  [total_bytes |-> heap.end - heap.base, block_count |-> 0, free_count |-> 0,
   free_bytes |-> 0, used_bytes |-> 0, largest_free |-> 0]

\* f is what kmem_get_stats has counted, round by round, for n rounds.
IsTally(n, f) ==
  f = [i \in 0 .. n |-> IF i = 0 THEN NothingCounted ELSE Counted(f[i - 1], Walk[i - 1])]

\* A tally of one round more.
LEMMA TallyNext ==
  ASSUME NEW n \in Nat, NEW f, IsTally(n, f)
  PROVE  \E g : IsTally(n + 1, g)
<1>. DEFINE g == [i \in 0 .. n + 1 |-> IF i <= n THEN f[i] ELSE Counted(f[n], Walk[n])]
            h == [i \in 0 .. n + 1 |->
                    IF i = 0 THEN NothingCounted ELSE Counted(g[i - 1], Walk[i - 1])]
<1>1. ASSUME NEW i \in 0 .. n + 1 PROVE g[i] = h[i]
  <2>1. CASE i = 0
    <3>1. 0 \in 0 .. n /\ 0 \in 0 .. n + 1 /\ 0 <= n
      OBVIOUS
    <3>2. f[0] = NothingCounted
      BY <3>1, ZenonT(30) DEF IsTally
    <3>3. g[0] = f[0] /\ h[0] = NothingCounted
      BY <3>1, ZenonT(30)
    <3>. QED
      BY <2>1, <3>2, <3>3, ZenonT(30)
  <2>2. CASE i \in 1 .. n
    <3>1. i \in 0 .. n /\ i # 0 /\ i <= n /\ i - 1 \in 0 .. n + 1 /\ i - 1 <= n
      BY <2>2
    <3>2. f[i] = Counted(f[i - 1], Walk[i - 1])
      BY <3>1, ZenonT(30) DEF IsTally
    <3>3. g[i] = f[i] /\ g[i - 1] = f[i - 1] /\ h[i] = Counted(g[i - 1], Walk[i - 1])
      BY <3>1, ZenonT(30)
    <3>. QED
      BY <3>2, <3>3, ZenonT(30)
  <2>3. CASE i = n + 1
    <3>1. i # 0 /\ i - 1 = n /\ n \in 0 .. n + 1 /\ n <= n /\ ~(i <= n)
      BY <2>3
    <3>2. g[n] = f[n] /\ g[i] = Counted(f[n], Walk[n]) /\ h[i] = Counted(g[n], Walk[n])
      BY <3>1, ZenonT(30)
    <3>. QED
      BY <3>2, ZenonT(30)
  <2>4. i = 0 \/ i \in 1 .. n \/ i = n + 1
    OBVIOUS
  <2>. QED
    BY <2>1, <2>2, <2>3, <2>4, ZenonT(30)
<1>2. g = h
  BY <1>1, ZenonT(30)
<1>3. IsTally(n + 1, g)
  BY <1>2, ZenonT(30) DEF IsTally
<1>. QED
  BY <1>3, ZenonT(30)

\* What kmem_get_stats returns, as the last of its rounds.
LEMMA TallyIs ==
  ASSUME NEW R \in Nat, R = Rounds
  PROVE  \E f : /\ f[0] = NothingCounted /\ kmem_get_stats = f[R]
                /\ \A i \in 1 .. R : f[i] = Counted(f[i - 1], Walk[i - 1])
<1>. DEFINE S == {k \in Nat : \E f : IsTally(k, f)}
<1>1. 0 \in S
  <2>. DEFINE f == [i \in 0 .. 0 |-> NothingCounted]
  <2>1. \A i \in 0 .. 0 : i = 0
    OBVIOUS
  <2>2. f = [i \in 0 .. 0 |-> IF i = 0 THEN NothingCounted ELSE Counted(f[i - 1], Walk[i - 1])]
    BY <2>1, ZenonT(30)
  <2>3. IsTally(0, f)
    BY <2>2, ZenonT(40) DEF IsTally
  <2>. QED
    BY <2>3, ZenonT(30)
<1>2. \A k \in 0 .. R - 1 : k \in S => k + 1 \in S
  <2>. TAKE k \in 0 .. R - 1
  <2>1. k \in Nat /\ k + 1 \in Nat
    BY ONLY R \in Nat, k \in 0 .. R - 1
  <2>. QED
    BY <2>1, TallyNext, Zenon
<1>3. R \in S
  <2>1. 0 .. R \subseteq S
    BY ONLY R \in Nat, <1>1, <1>2, UpTo, Zenon
  <2>2. R \in 0 .. R
    BY ONLY R \in Nat
  <2>. QED
    BY <2>1, <2>2, Zenon
<1>. DEFINE st == CHOOSE f : IsTally(R, f)
<1>4. IsTally(R, st)
  BY <1>3, ZenonT(30)
<1>5. kmem_get_stats = st[R]
  BY ZenonT(30) DEF kmem_get_stats, IsTally, NothingCounted
<1>6. /\ 0 \in 0 .. R
      /\ \A i \in 1 .. R : i \in 0 .. R /\ i # 0
  BY ONLY R \in Nat
<1>. HIDE DEF S, st
<1>7. /\ st[0] = NothingCounted
      /\ \A i \in 1 .. R : st[i] = Counted(st[i - 1], Walk[i - 1])
  BY <1>4, <1>6, ZenonT(30) DEF IsTally
<1>. QED
  BY <1>5, <1>7, ZenonT(30)

\* Setting one field of the statistics, in five lemmas.
LEMMA SetBlockCount ==
  ASSUME NEW s \in StatsT, NEW v \in Nat
  PROVE  LET t == [s EXCEPT !.block_count = v] IN
         /\ t \in StatsT /\ t.total_bytes = s.total_bytes /\ t.block_count = v /\ t.free_count = s.free_count
         /\ t.free_bytes = s.free_bytes /\ t.used_bytes = s.used_bytes /\ t.largest_free = s.largest_free
BY SMTT(30) DEF StatsT

\* One counter of the statistics is set: free_block_count.
LEMMA SetFreeCount ==
  ASSUME NEW s \in StatsT, NEW v \in Nat
  PROVE  LET t == [s EXCEPT !.free_count = v] IN
         /\ t \in StatsT /\ t.total_bytes = s.total_bytes /\ t.block_count = s.block_count /\ t.free_count = v
         /\ t.free_bytes = s.free_bytes /\ t.used_bytes = s.used_bytes /\ t.largest_free = s.largest_free
BY SMTT(30) DEF StatsT

\* One counter of the statistics is set: free_bytes.
LEMMA SetFreeBytes ==
  ASSUME NEW s \in StatsT, NEW v \in Nat
  PROVE  LET t == [s EXCEPT !.free_bytes = v] IN
         /\ t \in StatsT /\ t.total_bytes = s.total_bytes /\ t.block_count = s.block_count /\ t.free_count = s.free_count
         /\ t.free_bytes = v /\ t.used_bytes = s.used_bytes /\ t.largest_free = s.largest_free
BY SMTT(30) DEF StatsT

\* One counter of the statistics is set: used_bytes.
LEMMA SetUsedBytes ==
  ASSUME NEW s \in StatsT, NEW v \in Nat
  PROVE  LET t == [s EXCEPT !.used_bytes = v] IN
         /\ t \in StatsT /\ t.total_bytes = s.total_bytes /\ t.block_count = s.block_count /\ t.free_count = s.free_count
         /\ t.free_bytes = s.free_bytes /\ t.used_bytes = v /\ t.largest_free = s.largest_free
BY SMTT(30) DEF StatsT

\* One counter of the statistics is set: largest_free_block.
LEMMA SetLargestFree ==
  ASSUME NEW s \in StatsT, NEW v \in Nat
  PROVE  LET t == [s EXCEPT !.largest_free = v] IN
         /\ t \in StatsT /\ t.total_bytes = s.total_bytes /\ t.block_count = s.block_count /\ t.free_count = s.free_count
         /\ t.free_bytes = s.free_bytes /\ t.used_bytes = s.used_bytes /\ t.largest_free = v
BY SMTT(30) DEF StatsT

\* One round, at a free block.
LEMMA CountedFree ==
  ASSUME NEW s \in StatsT, NEW b \in DOMAIN blocks, blocks[b].free, blocks[b].size \in Nat
  PROVE  LET t == Counted(s, b) IN
         /\ t \in StatsT /\ t.total_bytes = s.total_bytes /\ t.used_bytes = s.used_bytes
         /\ t.block_count = s.block_count + 1 /\ t.free_count = s.free_count + 1
         /\ t.free_bytes = s.free_bytes + blocks[b].size
         /\ blocks[b].size <= t.largest_free /\ s.largest_free <= t.largest_free
<1>. DEFINE z == blocks[b].size
            most == IF z > s.largest_free THEN z ELSE s.largest_free
            t == [s EXCEPT !.block_count = @ + 1, !.free_count = @ + 1,
                           !.free_bytes = @ + z, !.largest_free = most]
<1>1. Counted(s, b) = t
  BY SMTT(30) DEF Counted
<1>2. z \in Nat
  BY SMTT(30)
<1>. HIDE DEF z
<1>3. most \in Nat /\ z <= most /\ s.largest_free <= most
  BY <1>2, SMTT(30) DEF StatsT
<1>. HIDE DEF most
<1>4. /\ t \in StatsT /\ t.total_bytes = s.total_bytes /\ t.used_bytes = s.used_bytes
      /\ t.block_count = s.block_count + 1 /\ t.free_count = s.free_count + 1
      /\ t.free_bytes = s.free_bytes + z /\ t.largest_free = most
  <2>1. s.block_count + 1 \in Nat /\ s.free_count + 1 \in Nat /\ s.free_bytes + z \in Nat
    BY <1>2, SMTT(30) DEF StatsT
  <2>. DEFINE t1 == [s EXCEPT !.block_count = s.block_count + 1]
              t2 == [t1 EXCEPT !.free_count = s.free_count + 1]
              t3 == [t2 EXCEPT !.free_bytes = s.free_bytes + z]
              t4 == [t3 EXCEPT !.largest_free = most]
  <2>2. t = t4
    BY ZenonT(30)
  <2>3. /\ t1 \in StatsT /\ t1.total_bytes = s.total_bytes /\ t1.used_bytes = s.used_bytes
        /\ t1.block_count = s.block_count + 1
    BY <2>1, SetBlockCount, ZenonT(30)
  <2>. HIDE DEF t1
  <2>4. /\ t2 \in StatsT /\ t2.total_bytes = s.total_bytes /\ t2.used_bytes = s.used_bytes
        /\ t2.block_count = s.block_count + 1 /\ t2.free_count = s.free_count + 1
    BY <2>1, <2>3, SetFreeCount, ZenonT(30)
  <2>. HIDE DEF t2
  <2>5. /\ t3 \in StatsT /\ t3.total_bytes = s.total_bytes /\ t3.used_bytes = s.used_bytes
        /\ t3.block_count = s.block_count + 1 /\ t3.free_count = s.free_count + 1
        /\ t3.free_bytes = s.free_bytes + z
    BY <2>1, <2>4, SetFreeBytes, ZenonT(40)
  <2>. HIDE DEF t3
  <2>6. /\ t4 \in StatsT /\ t4.total_bytes = s.total_bytes /\ t4.used_bytes = s.used_bytes
        /\ t4.block_count = s.block_count + 1 /\ t4.free_count = s.free_count + 1
        /\ t4.free_bytes = s.free_bytes + z /\ t4.largest_free = most
    BY <1>3, <2>5, SetLargestFree, ZenonT(30)
  <2>. HIDE DEF t, t4
  <2>. QED
    BY <2>2, <2>6, ZenonT(40)
<1>. HIDE DEF t
<1>. QED
  BY <1>1, <1>3, <1>4, ZenonT(30) DEF z

\* One round, at a used block.
LEMMA CountedUsed ==
  ASSUME NEW s \in StatsT, NEW b \in DOMAIN blocks, ~blocks[b].free, blocks[b].size \in Nat
  PROVE  LET t == Counted(s, b) IN
         /\ t \in StatsT /\ t.total_bytes = s.total_bytes /\ t.free_bytes = s.free_bytes
         /\ t.block_count = s.block_count + 1 /\ t.free_count = s.free_count
         /\ t.used_bytes = s.used_bytes + blocks[b].size
         /\ t.largest_free = s.largest_free
<1>. DEFINE z == blocks[b].size
            t == [s EXCEPT !.block_count = @ + 1, !.used_bytes = @ + z]
<1>1. Counted(s, b) = t
  BY SMTT(30) DEF Counted
<1>2. z \in Nat
  BY SMTT(30)
<1>. HIDE DEF z
<1>4. /\ t \in StatsT /\ t.total_bytes = s.total_bytes /\ t.free_bytes = s.free_bytes
      /\ t.block_count = s.block_count + 1 /\ t.free_count = s.free_count
      /\ t.used_bytes = s.used_bytes + z /\ t.largest_free = s.largest_free
  <2>1. s.block_count + 1 \in Nat /\ s.used_bytes + z \in Nat
    BY <1>2, SMTT(30) DEF StatsT
  <2>. DEFINE t1 == [s EXCEPT !.block_count = s.block_count + 1]
              t2 == [t1 EXCEPT !.used_bytes = s.used_bytes + z]
  <2>2. t = t2
    BY ZenonT(30)
  <2>3. /\ t1 \in StatsT /\ t1.total_bytes = s.total_bytes /\ t1.free_bytes = s.free_bytes
        /\ t1.block_count = s.block_count + 1 /\ t1.free_count = s.free_count
        /\ t1.largest_free = s.largest_free
    BY <2>1, SetBlockCount, ZenonT(30)
  <2>. HIDE DEF t1
  <2>4. /\ t2 \in StatsT /\ t2.total_bytes = s.total_bytes /\ t2.free_bytes = s.free_bytes
        /\ t2.block_count = s.block_count + 1 /\ t2.free_count = s.free_count
        /\ t2.used_bytes = s.used_bytes + z /\ t2.largest_free = s.largest_free
    BY <2>1, <2>3, SetUsedBytes, ZenonT(30)
  <2>. HIDE DEF t, t2
  <2>. QED
    BY <2>2, <2>4, ZenonT(30)
<1>. HIDE DEF t
<1>. QED
  BY <1>1, <1>4, ZenonT(30) DEF z

\* Where the bytes seen in the first i rounds end, and the allocations among them.
SeenTo(i) == IF Walk[i] = NULL THEN heap.end ELSE Walk[i]
SeenLive(i) == {p \in DOMAIN live : \E j \in 0 .. i - 1 : p = Payload(Walk[j])}

\* The numbers after i rounds account for the bytes, the allocations and the
\* free blocks seen so far.
TallyBytes(i, s) ==
  /\ s \in StatsT /\ s.total_bytes = heap.end - heap.base
  /\ heap.base + s.free_bytes + s.used_bytes + s.block_count * Header = SeenTo(i)
TallyLive(i, s) ==
  IsFiniteSet(SeenLive(i)) /\ s.block_count = s.free_count + Cardinality(SeenLive(i))
TallyFree(i, s) ==
  \A j \in 0 .. i - 1 :
    Walk[j] \in DOMAIN blocks /\ blocks[Walk[j]].free => blocks[Walk[j]].size <= s.largest_free
TallyAt(i, s) == TallyBytes(i, s) /\ TallyLive(i, s) /\ TallyFree(i, s)

\* What the next round may add to the allocations seen.
LEMMA SeenNext ==
  ASSUME NEW i \in Nat
  PROVE  SeenLive(i + 1) = SeenLive(i) \cup ({Payload(Walk[i])} \cap DOMAIN live)
<1>1. 0 .. (i + 1) - 1 = (0 .. i - 1) \cup {i}
  BY SMTT(30)
<1>. QED
  BY <1>1, ZenonT(30) DEF SeenLive

\* The byte account after one round at a block of size z that ends at e.
LEMMA BytesNext ==
  ASSUME NEW base \in Nat, NEW f \in Nat, NEW u \in Nat, NEW k \in Nat, NEW z \in Nat,
         NEW c \in Nat, base + f + u + k * Header = c
  PROVE  base + f + u + z + (k + 1) * Header = c + Header + z
<1>1. k * Header \in Nat /\ (k + 1) * Header = k * Header + Header /\ Header \in Nat
  BY OneMore, Sizes, ZenonT(30)
<1>. DEFINE x == k * Header
            y == (k + 1) * Header
<1>2. x \in Nat /\ y = x + Header /\ base + f + u + x = c
  BY <1>1, SMTT(30)
<1>. HIDE DEF x, y
<1>3. base + f + u + z + y = c + Header + z
  BY <1>1, <1>2, SMTT(30)
<1>. QED
  BY <1>3, ZenonT(30) DEF y

INSTANCE FiniteSetTheorems

\* One round of kmem_get_stats.
LEMMA TallyStep ==
  ASSUME Ready(heap, blocks, live), NEW i \in Nat, i + 1 <= Rounds, NEW s, TallyAt(i, s)
  PROVE  TallyAt(i + 1, Counted(s, Walk[i]))
<1>. DEFINE c == Walk[i]
            d == Walk[i + 1]
            t == Counted(s, c)
<1>1. /\ Rounds \in Nat /\ heap.base \in Nat \ {0} /\ heap.end \in Nat
      /\ Chain(blocks, heap.base, heap.end) /\ Owned(blocks, live)
      /\ Header \in Nat \ {0}
  BY RoundsPositive, Sizes, ZenonT(30) DEF Ready
<1>2. /\ i \in 0 .. Rounds /\ i + 1 \in 1 .. Rounds /\ (i + 1) - 1 = i
      /\ 0 .. (i + 1) - 1 = (0 .. i - 1) \cup {i}
  BY <1>1, SMTT(30)
<1>3. d = Following(c)
  <2>1. d = Following(Walk[(i + 1) - 1])
    BY <1>2, WalkEnds, ZenonT(30)
  <2>. QED
    BY <1>2, <2>1, ZenonT(30)
<1>4. \A b \in DOMAIN blocks : Placed(blocks, heap.base, heap.end, b)
  BY <1>1, InChain, ZenonT(30)
<1>5. c = NULL \/ c \in DOMAIN blocks
  BY <1>2, WalkEnds, ZenonT(40)
<1>6. NULL \notin DOMAIN blocks /\ NULL \in Nat
  <2>1. NULL \in Nat /\ NULL \notin Nat \ {0}
    BY SMTT(30) DEF NULL
  <2>. QED
    BY <1>4, <2>1, ZenonT(30) DEF Placed
<1>7. SeenLive(i + 1) = SeenLive(i) \cup ({Payload(c)} \cap DOMAIN live)
  BY SeenNext, ZenonT(30)
<1>8. ASSUME NEW x \in Nat, Payload(x) \in DOMAIN live PROVE x \in Used(blocks)
  <2>1. PICK b \in Used(blocks) : Payload(x) = Payload(b)
    <3>1. DOMAIN live = {Payload(b) : b \in Used(blocks)}
      BY <1>1, ZenonT(30) DEF Owned
    <3>. QED
      BY ONLY <1>8, <3>1, ZenonT(40)
  <2>2. b \in Nat
    BY <1>4, ZenonT(30) DEF Used, Placed
  <2>. QED
    BY <2>1, <2>2, PayloadsApart, ZenonT(40)
<1>9. CASE c = NULL
  <2>1. t = s /\ d = NULL
    BY <1>3, <1>6, <1>9, ZenonT(40) DEF Counted, Following
  <2>2. SeenTo(i + 1) = SeenTo(i)
    BY <1>9, <2>1, ZenonT(30) DEF SeenTo
  <2>3. Payload(c) \notin DOMAIN live
    BY <1>6, <1>8, <1>9, ZenonT(30) DEF Used
  <2>4. SeenLive(i + 1) = SeenLive(i)
    BY <1>7, <2>3, ZenonT(30)
  <2>5. TallyFree(i + 1, s)
    BY <1>2, <1>6, <1>9, ZenonT(30) DEF TallyAt, TallyFree
  <2>6. TallyBytes(i + 1, s)
    BY <2>2, ZenonT(30) DEF TallyAt, TallyBytes
  <2>7. TallyLive(i + 1, s)
    BY <2>4, ZenonT(30) DEF TallyAt, TallyLive
  <2>. HIDE DEF t
  <2>8. TallyAt(i + 1, t)
    BY <2>1, <2>5, <2>6, <2>7, ZenonT(30) DEF TallyAt
  <2>. QED
    BY <2>8, ZenonT(30) DEF t
<1>10. CASE c # NULL
  <2>. DEFINE z == blocks[c].size
  <2>1. /\ c \in DOMAIN blocks /\ c \in Nat \ {0} /\ z \in Nat
        /\ SeenTo(i) = c /\ d = blocks[c].next
    <3>1. c \in DOMAIN blocks
      BY <1>5, <1>10, ZenonT(30)
    <3>. QED
      BY <1>3, <1>4, <1>10, <3>1, ZenonT(30) DEF Placed, SeenTo, Following
  <2>2. SeenTo(i + 1) = c + Header + z
    <3>1. Placed(blocks, heap.base, heap.end, c)
      BY <1>4, <2>1, ZenonT(30)
    <3>2. SeenTo(i + 1) = EndOf(blocks, c)
      BY <2>1, <3>1, ZenonT(30) DEF Placed, SeenTo
    <3>. QED
      BY <3>2, ZenonT(30) DEF EndOf, Payload
  <2>3. /\ s \in StatsT /\ s.total_bytes = heap.end - heap.base
        /\ heap.base + s.free_bytes + s.used_bytes + s.block_count * Header = c
        /\ IsFiniteSet(SeenLive(i)) /\ s.block_count = s.free_count + Cardinality(SeenLive(i))
        /\ TallyFree(i, s)
    BY <2>1, ZenonT(30) DEF TallyAt, TallyBytes, TallyLive
  <2>4. /\ s.free_bytes \in Nat /\ s.used_bytes \in Nat /\ s.block_count \in Nat
        /\ s.free_count \in Nat /\ s.largest_free \in Nat
    BY <2>3, SMTT(30) DEF StatsT
  <2>5. heap.base + s.free_bytes + s.used_bytes + z + (s.block_count + 1) * Header = c + Header + z
    <3>1. heap.base \in Nat /\ c \in Nat
      BY <1>1, <2>1, SMTT(30)
    <3>. HIDE DEF c, z
    <3>. QED
      BY ONLY <2>1, <2>3, <2>4, <3>1, BytesNext, SMTT(40)
  <2>6. Cardinality(SeenLive(i)) \in Nat
    BY <2>3, FS_CardinalityType, ZenonT(40)
  <2>7. CASE blocks[c].free
    <3>1. /\ t \in StatsT /\ t.total_bytes = s.total_bytes /\ t.used_bytes = s.used_bytes
          /\ t.block_count = s.block_count + 1 /\ t.free_count = s.free_count + 1
          /\ t.free_bytes = s.free_bytes + z
          /\ z <= t.largest_free /\ s.largest_free <= t.largest_free
      BY <2>1, <2>3, <2>7, CountedFree, ZenonT(40)
    <3>2. t.largest_free \in Nat
      BY <3>1, SMTT(30) DEF StatsT
    <3>. HIDE DEF t, z, c, d
    <3>3. TallyBytes(i + 1, t)
      <4>. DEFINE y == (s.block_count + 1) * Header
      <4>1. y \in Nat
        BY <1>1, <2>4, OneMore, SMTT(30)
      <4>2. heap.base + s.free_bytes + s.used_bytes + z + y = c + Header + z
        BY <2>5, ZenonT(30)
      <4>. HIDE DEF y
      <4>3. heap.base + (s.free_bytes + z) + s.used_bytes + y = c + Header + z
        BY <1>1, <2>1, <2>4, <4>1, <4>2, SMTT(40)
      <4>. QED
        BY <2>2, <2>3, <3>1, <4>3, ZenonT(40) DEF TallyBytes, y
    <3>4. SeenLive(i + 1) = SeenLive(i)
      <4>1. Payload(c) \notin DOMAIN live
        BY <1>8, <2>1, <2>7, ZenonT(30) DEF Used
      <4>. QED
        BY <1>7, <4>1, ZenonT(30)
    <3>5. TallyLive(i + 1, t)
      <4>1. s.block_count + 1 = s.free_count + 1 + Cardinality(SeenLive(i))
        BY <2>3, <2>4, <2>6, SMTT(60)
      <4>. QED
        BY <2>3, <3>1, <3>4, <4>1, ZenonT(40) DEF TallyLive
    <3>6. TallyFree(i + 1, t)
      <4>1. ASSUME NEW j \in 0 .. i - 1, Walk[j] \in DOMAIN blocks, blocks[Walk[j]].free
            PROVE  blocks[Walk[j]].size <= t.largest_free
        <5>1. blocks[Walk[j]].size <= s.largest_free
          BY <2>3, <4>1, ZenonT(30) DEF TallyFree
        <5>2. blocks[Walk[j]].size \in Nat
          BY <1>4, <4>1, ZenonT(30) DEF Placed
        <5>. QED
          BY <2>4, <3>1, <3>2, <5>1, <5>2, SMTT(40)
      <4>. QED
        BY <1>2, <3>1, <4>1, ZenonT(40) DEF TallyFree, z, c
    <3>7. TallyAt(i + 1, t)
      BY <3>3, <3>5, <3>6, ZenonT(40) DEF TallyAt
    <3>. QED
      BY <3>7, Zenon DEF t, c
  <2>8. CASE ~blocks[c].free
    <3>1. /\ t \in StatsT /\ t.total_bytes = s.total_bytes /\ t.free_bytes = s.free_bytes
          /\ t.block_count = s.block_count + 1 /\ t.free_count = s.free_count
          /\ t.used_bytes = s.used_bytes + z /\ t.largest_free = s.largest_free
      BY <2>1, <2>3, <2>8, CountedUsed, ZenonT(40)
    <3>2. c \in Used(blocks)
      BY <2>1, <2>8, ZenonT(30) DEF Used
    <3>3. Payload(c) \in DOMAIN live /\ Payload(c) \notin SeenLive(i)
      <4>1. Payload(c) \in DOMAIN live
        BY <1>1, <3>2, ZenonT(30) DEF Owned
      <4>2. ASSUME NEW j \in 0 .. i - 1, Payload(c) = Payload(Walk[j]) PROVE FALSE
        <5>1. Walk[j] \in DOMAIN blocks /\ Walk[j] < c
          BY <1>2, <1>10, WalkEnds, ZenonT(30)
        <5>2. Walk[j] \in Nat \ {0}
          BY <1>4, <5>1, ZenonT(30) DEF Placed
        <5>3. Walk[j] = c
          BY <2>1, <4>2, <5>2, PayloadsApart, ZenonT(40)
        <5>. HIDE DEF c
        <5>4. c < c
          BY <5>1, <5>3, ZenonT(30)
        <5>. QED
          BY <2>1, <5>4, SMTT(30)
      <4>. QED
        BY <4>1, <4>2, ZenonT(30) DEF SeenLive
    <3>. HIDE DEF t, z, c, d
    <3>4. TallyBytes(i + 1, t)
      <4>. DEFINE y == (s.block_count + 1) * Header
      <4>1. y \in Nat
        BY <1>1, <2>4, OneMore
      <4>2. heap.base + s.free_bytes + s.used_bytes + z + y = c + Header + z
        BY <2>5, Zenon
      <4>. HIDE DEF y
      <4>3. heap.base + s.free_bytes + (s.used_bytes + z) + y = c + Header + z
        BY <1>1, <2>1, <2>4, <4>1, <4>2, SMTT(60)
      <4>. QED
        BY <2>2, <2>3, <3>1, <4>3, ZenonT(40) DEF TallyBytes, y
    <3>5. TallyLive(i + 1, t)
      <4>1. SeenLive(i + 1) = SeenLive(i) \cup {Payload(c)}
        BY <1>7, <3>3, ZenonT(30)
      <4>2. /\ IsFiniteSet(SeenLive(i + 1))
            /\ Cardinality(SeenLive(i + 1)) = Cardinality(SeenLive(i)) + 1
        <5>1. /\ IsFiniteSet(SeenLive(i) \cup {Payload(c)})
              /\ Cardinality(SeenLive(i) \cup {Payload(c)}) =
                   IF Payload(c) \in SeenLive(i) THEN Cardinality(SeenLive(i))
                   ELSE Cardinality(SeenLive(i)) + 1
          BY ONLY <2>3, FS_AddElement, ZenonT(30)
        <5>. QED
          BY ONLY <3>3, <4>1, <5>1, ZenonT(40)
      <4>3. s.block_count + 1 = s.free_count + (Cardinality(SeenLive(i)) + 1)
        BY <2>3, <2>4, <2>6, SMTT(60)
      <4>. QED
        BY <3>1, <4>2, <4>3, ZenonT(40) DEF TallyLive
    <3>6. TallyFree(i + 1, t)
      BY <1>2, <2>3, <2>8, <3>1, ZenonT(30) DEF TallyFree, c
    <3>7. TallyAt(i + 1, t)
      BY <3>4, <3>5, <3>6, Zenon DEF TallyAt
    <3>. QED
      BY <3>7, Zenon DEF t, c
  <2>. QED
    BY <2>7, <2>8, ZenonT(30)
<1>. QED
  BY <1>9, <1>10, ZenonT(30)

\* The numbers of kmem_get_stats, at the end of the list.
LEMMA StatsExact ==
  ASSUME Ready(heap, blocks, live)
  PROVE  TallyAt(Rounds, kmem_get_stats)
<1>1. /\ Rounds \in Nat \ {0} /\ heap.base \in Nat \ {0} /\ heap.end \in Nat
      /\ heap.base + Header < heap.end /\ Header \in Nat \ {0}
  BY RoundsPositive, Sizes, ZenonT(30) DEF Ready
<1>2. PICK R \in Nat : R = Rounds
  BY <1>1, SMTT(30)
<1>3. PICK f : /\ f[0] = NothingCounted /\ kmem_get_stats = f[R]
               /\ \A i \in 1 .. R : f[i] = Counted(f[i - 1], Walk[i - 1])
  BY <1>2, TallyIs, ZenonT(30)
<1>. DEFINE S == {i \in Nat : TallyAt(i, f[i])}
<1>4. 0 \in S
  <2>. DEFINE s == NothingCounted
  <2>1. /\ s \in StatsT /\ s.total_bytes = heap.end - heap.base
        /\ heap.base + s.free_bytes + s.used_bytes + s.block_count * Header = heap.base
        /\ s.block_count = 0 /\ s.free_count = 0
    <3>. DEFINE all == heap.end - heap.base
    <3>1. all \in Nat
      BY <1>1, SMTT(30)
    <3>. HIDE DEF all
    <3>2. /\ s \in StatsT /\ s.total_bytes = all /\ s.free_bytes = 0 /\ s.used_bytes = 0
          /\ s.block_count = 0 /\ s.free_count = 0
      BY <3>1, ZenonT(30) DEF StatsT, NothingCounted, all
    <3>3. heap.base + 0 + 0 + 0 * Header = heap.base
      BY <1>1, SMTT(30)
    <3>. HIDE DEF s
    <3>. QED
      BY <3>2, <3>3, ZenonT(30) DEF all
  <2>. HIDE DEF s
  <2>2. SeenTo(0) = heap.base
    BY <1>1, WalkEnds, ZenonT(30) DEF SeenTo, NULL
  <2>3. SeenLive(0) = {} /\ 0 .. 0 - 1 = {}
    <3>1. 0 .. 0 - 1 = {}
      BY SMTT(30)
    <3>. QED
      BY <3>1, ZenonT(30) DEF SeenLive
  <2>4. IsFiniteSet(SeenLive(0)) /\ Cardinality(SeenLive(0)) = 0 /\ 0 = 0 + 0
    <3>1. IsFiniteSet({}) /\ Cardinality({}) = 0
      BY ONLY FS_EmptySet, ZenonT(30)
    <3>2. 0 = 0 + 0
      BY SMTT(30)
    <3>. QED
      BY ONLY <2>3, <3>1, <3>2, ZenonT(30)
  <2>5. TallyAt(0, s)
    BY <2>1, <2>2, <2>3, <2>4, ZenonT(30) DEF TallyAt, TallyBytes, TallyLive, TallyFree
  <2>. QED
    BY <1>3, <2>5, ZenonT(30) DEF s
<1>5. \A i \in 0 .. R - 1 : i \in S => i + 1 \in S
  <2>. SUFFICES ASSUME NEW i \in 0 .. R - 1, i \in S PROVE i + 1 \in S
    BY ZenonT(30)
  <2>1. i \in Nat /\ i + 1 \in Nat /\ i + 1 <= Rounds /\ i + 1 \in 1 .. R /\ (i + 1) - 1 = i
    BY <1>2, SMTT(30)
  <2>2. f[i + 1] = Counted(f[i], Walk[i])
    <3>1. f[i + 1] = Counted(f[(i + 1) - 1], Walk[(i + 1) - 1])
      BY ONLY <1>3, <2>1, SMTT(30)
    <3>. QED
      BY <2>1, <3>1, ZenonT(30)
  <2>3. TallyAt(i, f[i])
    BY ZenonT(30)
  <2>4. TallyAt(i + 1, Counted(f[i], Walk[i]))
    BY <2>1, <2>3, TallyStep, ZenonT(30)
  <2>. QED
    BY <2>1, <2>2, <2>4, ZenonT(30)
<1>. HIDE DEF S
<1>6. 0 .. R \subseteq S
  BY ONLY R \in Nat, <1>4, <1>5, UpTo, ZenonT(30)
<1>7. R \in 0 .. R
  OBVIOUS
<1>. QED
  BY <1>2, <1>3, <1>6, <1>7, ZenonT(30) DEF S

\* The used blocks are the live allocations and the statistics account for them.
LEMMA InvLiveBlocks ==
  ASSUME KmemInv
  PROVE  LiveBlocksIntact
<1>1. /\ DOMAIN live = {Payload(b) : b \in {c \in DOMAIN blocks : ~blocks[c].free}}
      /\ \A p \in DOMAIN live : live[p] <= blocks[p - Header].size
  <2>1. CASE Unborn(heap, blocks, live)
    <3>1. DOMAIN live = {} /\ DOMAIN blocks = {}
      BY <2>1, ZenonT(30) DEF Unborn
    <3>. QED
      BY <3>1, ZenonT(30)
  <2>2. CASE Ready(heap, blocks, live)
    <3>1. DOMAIN live = {Payload(b) : b \in {c \in DOMAIN blocks : ~blocks[c].free}}
      BY <2>2, ZenonT(30) DEF Ready, Owned, Used
    <3>2. ASSUME NEW p \in DOMAIN live PROVE live[p] <= blocks[p - Header].size
      <4>1. PICK b \in Used(blocks) : p = Payload(b)
        BY <2>2, Zenon DEF Ready, Owned
      <4>2. live[Payload(b)] <= blocks[b].size
        BY <2>2, <4>1, ZenonT(30) DEF Ready, Owned
      <4>3. b \in Nat /\ Header \in Nat
        <5>1. Chain(blocks, heap.base, heap.end) /\ b \in DOMAIN blocks
          BY <2>2, ZenonT(30) DEF Ready, Used
        <5>. QED
          BY <5>1, Sizes, ZenonT(30) DEF Chain, Linked
      <4>4. p - Header = b
        BY <4>1, <4>3, SMTT(30) DEF Payload
      <4>. QED
        BY <4>1, <4>2, <4>4, ZenonT(40)
    <3>. QED
      BY <3>1, <3>2, ZenonT(30)
  <2>. QED
    BY <2>1, <2>2, ZenonT(30) DEF KmemInv
<1>2. ASSUME heap.base # 0
      PROVE  LET st == kmem_get_stats IN
             /\ st.free_bytes + st.used_bytes + st.block_count * Header = st.total_bytes
             /\ st.block_count = st.free_count + Cardinality(DOMAIN live)
             /\ \A b \in DOMAIN blocks : blocks[b].free => blocks[b].size <= st.largest_free
  <2>. DEFINE st == kmem_get_stats
  <2>1. ~Unborn(heap, blocks, live)
    BY <1>2, SMTT(30) DEF Unborn
  <2>2. Ready(heap, blocks, live)
    BY <2>1, ZenonT(30) DEF KmemInv
  <2>3. TallyAt(Rounds, st) /\ Walk[Rounds] = NULL /\ Rounds \in Nat
    BY <2>2, StatsExact, WalkEnds, ZenonT(30)
  <2>4. /\ heap.base \in Nat \ {0} /\ heap.end \in Nat /\ Header \in Nat
        /\ Chain(blocks, heap.base, heap.end)
    BY <2>2, RoundsPositive, Sizes, ZenonT(30) DEF Ready
  <2>5. \A b \in DOMAIN blocks : \E j \in 0 .. Rounds - 1 : Walk[j] = b
    <3>. SUFFICES ASSUME NEW b \in DOMAIN blocks PROVE \E j \in 0 .. Rounds - 1 : Walk[j] = b
      BY ZenonT(30)
    <3>1. PICK j \in 0 .. Rounds : Walk[j] = b
      BY <2>2, WalkEnds, ZenonT(30)
    <3>2. b # NULL
      <4>1. b \in Nat \ {0}
        BY <2>4, InChain, ZenonT(30) DEF Placed
      <4>. QED
        BY <4>1, SMTT(30) DEF NULL
    <3>3. j # Rounds
      BY <2>3, <3>1, <3>2, ZenonT(30)
    <3>4. j \in 0 .. Rounds - 1
      BY ONLY <2>3, <3>3, j \in 0 .. Rounds, SMTT(60)
    <3>. QED
      BY <3>1, <3>4, ZenonT(30)
  <2>6. SeenLive(Rounds) = DOMAIN live
    <3>1. ASSUME NEW p \in DOMAIN live PROVE \E j \in 0 .. Rounds - 1 : p = Payload(Walk[j])
      <4>1. PICK b \in Used(blocks) : p = Payload(b)
        BY <2>2, ZenonT(30) DEF Ready, Owned
      <4>. QED
        BY <2>5, <4>1, ZenonT(30) DEF Used
    <3>. QED
      BY <3>1, ZenonT(30) DEF SeenLive
  <2>7. /\ st \in StatsT /\ st.total_bytes = heap.end - heap.base
        /\ heap.base + st.free_bytes + st.used_bytes + st.block_count * Header = heap.end
    BY <2>3, ZenonT(30) DEF TallyAt, TallyBytes, SeenTo
  <2>8. st.block_count = st.free_count + Cardinality(DOMAIN live)
    BY <2>3, <2>6, ZenonT(30) DEF TallyAt, TallyLive
  <2>9. ASSUME NEW b \in DOMAIN blocks, blocks[b].free PROVE blocks[b].size <= st.largest_free
    <3>1. PICK j \in 0 .. Rounds - 1 : Walk[j] = b
      BY <2>5, ZenonT(30)
    <3>. QED
      BY <2>3, <2>9, <3>1, ZenonT(30) DEF TallyAt, TallyFree
  <2>. HIDE DEF st
  <2>10. st.free_bytes + st.used_bytes + st.block_count * Header = st.total_bytes
    <3>1. st.free_bytes \in Nat /\ st.used_bytes \in Nat /\ st.block_count \in Nat
      BY <2>7, SMTT(30) DEF StatsT
    <3>. DEFINE x == st.block_count * Header
    <3>2. x \in Nat
      BY <3>1, OneMore, SMTT(30)
    <3>3. heap.base + st.free_bytes + st.used_bytes + x = heap.end
      BY <2>7, ZenonT(30)
    <3>. HIDE DEF x
    <3>4. st.free_bytes + st.used_bytes + x = heap.end - heap.base
      BY <2>4, <3>1, <3>2, <3>3, SMTT(40)
    <3>. QED
      BY <2>7, <3>4, ZenonT(30) DEF x
  <2>. QED
    BY <2>8, <2>9, <2>10, ZenonT(30) DEF st
<1>. QED
  BY <1>1, <1>2, ZenonT(30) DEF LiveBlocksIntact

\* The used blocks are the live allocations, each with room for what was asked,
\* and kmem_get_stats accounts for them and for every byte of the arena.
THEOREM KmemLiveBlocksIntact == Spec => []LiveBlocksIntact
<1>1. KmemInv => LiveBlocksIntact
  BY InvLiveBlocks, Zenon
<1>. QED
  BY KmemInvariant, <1>1, PTL

=============================================================================
