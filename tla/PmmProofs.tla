------------------------------ MODULE PmmProofs ------------------------------
(***************************************************************************)
(* That the counters and the search hint of the physical memory manager    *)
(* always agree with its bitmap, that no frame in use is free, that init   *)
(* frees exactly the right frames and that the whole implements the set of *)
(* free frames, for any page size, any amount of memory and any memory     *)
(* map.                                                                    *)
(***************************************************************************)
EXTENDS Pmm, FiniteSetTheorems, WellFoundedInduction, TLAPS

Bitmaps == UNION {[0 .. n - 1 -> BOOLEAN] : n \in Nat}

Clear(p) == {f \in 0 .. p.frame_count - 1 : ~p.bitmap[f]}

\* A pmm_state whose fields have their types.
StateOK(p) ==
  /\ p \in [initialized : BOOLEAN, frame_count : Nat, bitmap : Bitmaps,
            free_frames : Nat, used_frames : Nat, reserved_frames : Nat,
            next_hint : Nat]
  /\ p.bitmap \in [0 .. p.frame_count - 1 -> BOOLEAN]

\* ... and whose counters and hint agree with the bitmap.
Accounts(p) ==
  /\ StateOK(p)
  /\ p.free_frames = Cardinality(Clear(p))
  /\ p.free_frames + p.used_frames = p.frame_count
  /\ \A f \in Clear(p) : p.next_hint <= f

-----------------------------------------------------------------------------
\* A set of frames that is not empty has a lowest one.
LEMMA Lowest ==
  ASSUME NEW S \in SUBSET Nat, S # {}
  PROVE  \E x \in S : \A y \in S : x <= y
<1>. DEFINE less == {ss \in Nat \X Nat : ss[1] < ss[2]}
<1>1. IsWellFoundedOn(less, Nat)
  <2>1. less = OpToRel(<, Nat)
    BY Zenon DEF OpToRel
  <2>. QED
    BY Zenon, <2>1, NatLessThanWellFounded
<1>. HIDE DEF less
<1>2. PICK x \in S : \A y \in S : ~(<<y, x>> \in less)
  BY Zenon, <1>1, WFMin
<1>3. ASSUME NEW y \in S PROVE x <= y
  <2>1. x \in Nat /\ y \in Nat
    BY Zenon
  <2>2. y < x => <<y, x>> \in less
    BY <2>1, Zenon DEF less
  <2>. QED
    BY <1>2, <2>1, <2>2
<1>. QED
  BY <1>3, Zenon

\* The set of the clear bits is finite.
LEMMA ClearFinite ==
  ASSUME NEW p, StateOK(p)
  PROVE  /\ IsFiniteSet(Clear(p)) /\ Clear(p) \subseteq 0 .. p.frame_count - 1
         /\ IsFiniteSet(0 .. p.frame_count - 1)
         /\ Cardinality(0 .. p.frame_count - 1) = p.frame_count
         /\ Cardinality(Clear(p)) \in Nat /\ Cardinality(Clear(p)) <= p.frame_count
<1>1. p.frame_count \in Nat
  BY Zenon DEF StateOK
<1>2. /\ IsFiniteSet(0 .. p.frame_count - 1)
      /\ Cardinality(0 .. p.frame_count - 1) = p.frame_count
  <2>. DEFINE m == p.frame_count - 1
  <2>1. m \in Int /\ p.frame_count = m + 1 /\ (0 > m => m = -1)
    BY <1>1
  <2>. HIDE DEF m
  <2>2. IsFiniteSet(0 .. m) /\ Cardinality(0 .. m) = IF 0 > m THEN 0 ELSE m - 0 + 1
    BY <2>1, FS_Interval
  <2>3. Cardinality(0 .. m) = m + 1
    BY <2>1, <2>2
  <2>. QED
    BY <2>1, <2>2, <2>3, Zenon DEF m
<1>3. Clear(p) \subseteq 0 .. p.frame_count - 1
  BY Zenon DEF Clear
<1>. QED
  BY <1>2, <1>3, FS_Subset, FS_CardinalityType, SMTT(30)

\* mark_frame_free on a set of frames: they become free, and the counters and
\* the hint follow.
LEMMA MarkFree ==
  ASSUME NEW p, Accounts(p), NEW S \in SUBSET (0 .. p.frame_count - 1)
  PROVE  /\ Accounts(mark_free(p, S))
         /\ Clear(mark_free(p, S)) = Clear(p) \cup S
         /\ mark_free(p, S).frame_count = p.frame_count
         /\ mark_free(p, S).initialized = p.initialized
         /\ mark_free(p, S).reserved_frames = p.reserved_frames
<1>. DEFINE freed == {f \in S : p.bitmap[f]}
            n == Cardinality(freed)
            bits == [f \in DOMAIN p.bitmap |-> f \notin S /\ p.bitmap[f]]
            q == mark_free(p, S)
            N == p.frame_count
<1>1. StateOK(p)
  BY Zenon DEF Accounts
<1>2. /\ N \in Nat /\ p.bitmap \in [0 .. N - 1 -> BOOLEAN]
      /\ p.free_frames \in Nat /\ p.used_frames \in Nat
      /\ p.reserved_frames \in Nat /\ p.next_hint \in Nat /\ p.initialized \in BOOLEAN
  BY <1>1, Zenon DEF StateOK
<1>3. q = [initialized |-> p.initialized, frame_count |-> N, bitmap |-> bits,
           free_frames |-> p.free_frames + n,
           used_frames |-> IF p.used_frames >= n THEN p.used_frames - n ELSE 0,
           reserved_frames |-> p.reserved_frames, next_hint |-> HintAfter(p, freed)]
  <2>1. q = [p EXCEPT !.bitmap = bits, !.free_frames = @ + n,
                      !.used_frames = IF @ >= n THEN @ - n ELSE 0,
                      !.next_hint = HintAfter(p, freed)]
    BY Zenon DEF mark_free
  <2>. HIDE DEF q, bits, n, freed
  <2>. QED
    BY Zenon, <1>1, <2>1 DEF StateOK
<1>4. bits \in [0 .. N - 1 -> BOOLEAN]
  BY <1>2, Zenon
<1>5. \A f \in 0 .. N - 1 : bits[f] <=> f \notin S /\ p.bitmap[f]
  BY <1>2, Zenon
<1>6. freed \subseteq 0 .. N - 1 /\ freed \cap Clear(p) = {}
  BY Zenon DEF Clear
<1>7. Clear(p) \cup freed = Clear(p) \cup S
  BY Zenon DEF Clear
<1>. HIDE DEF bits, freed, q
<1>8. q.frame_count = N /\ q.bitmap = bits
  BY <1>3, Zenon
<1>9. Clear(q) = Clear(p) \cup S
  BY <1>5, <1>8, Zenon DEF Clear
<1>10. /\ n \in Nat /\ IsFiniteSet(freed)
       /\ Cardinality(Clear(p) \cup freed) = Cardinality(Clear(p)) + n
       /\ Cardinality(Clear(p) \cup freed) <= N
  <2>1. IsFiniteSet(freed) /\ IsFiniteSet(Clear(p)) /\ IsFiniteSet(0 .. N - 1)
    BY ZenonT(30), <1>1, <1>6, ClearFinite, FS_Subset
  <2>2. n \in Nat /\ Cardinality(Clear(p)) \in Nat
    BY <2>1, FS_CardinalityType, Zenon
  <2>3. Cardinality(Clear(p) \cup freed) = Cardinality(Clear(p)) + n - Cardinality(Clear(p) \cap freed)
    BY <2>1, FS_Union, Zenon
  <2>4. Clear(p) \cap freed = {}
    BY <1>6, Zenon
  <2>5. Cardinality(Clear(p) \cap freed) = 0
    BY <2>4, FS_EmptySet, Zenon
  <2>6. Clear(p) \cup freed \in SUBSET (0 .. N - 1)
    BY Zenon, <1>6 DEF Clear
  <2>7. Cardinality(Clear(p) \cup freed) <= Cardinality(0 .. N - 1)
    BY Zenon, <2>1, <2>6, FS_Subset
  <2>. QED
    BY <1>1, <2>1, <2>2, <2>3, <2>5, <2>7, ClearFinite, SMTT(30)
<1>11. HintAfter(p, freed) \in freed \cup {p.next_hint}
       /\ \A f \in freed \cup {p.next_hint} : HintAfter(p, freed) <= f
  <2>1. freed \cup {p.next_hint} \in SUBSET Nat
    <3>1. \A f \in 0 .. N - 1 : f \in Nat
      BY <1>2
    <3>. QED
      BY Zenon, <1>2, <1>6, <3>1
  <2>2. \E h \in freed \cup {p.next_hint} : \A f \in freed \cup {p.next_hint} : h <= f
    BY <2>1, Lowest, Zenon
  <2>. QED
    BY <2>2, Zenon DEF HintAfter
<1>12. HintAfter(p, freed) \in Nat
  <2>1. \A f \in freed : f \in Nat
    <3>1. \A f \in 0 .. N - 1 : f \in Nat
      BY <1>2
    <3>. QED
      BY <1>6, <3>1, Zenon
  <2>. QED
    BY <1>2, <1>11, <2>1, Zenon
<1>13. \A f \in Clear(p) \cup S : HintAfter(p, freed) <= f
  <2>1. ASSUME NEW f \in Clear(p) PROVE HintAfter(p, freed) <= f
    <3>1. p.next_hint <= f /\ f \in Nat
      BY <1>2, SMTT(30) DEF Accounts, Clear
    <3>2. HintAfter(p, freed) <= p.next_hint
      BY <1>11, Zenon
    <3>. QED
      BY <1>2, <1>12, <3>1, <3>2, SMTT(30)
  <2>. QED
    BY <1>7, <1>11, <2>1, Zenon
<1>14. /\ p.free_frames = Cardinality(Clear(p)) /\ p.free_frames + p.used_frames = N
  BY Zenon DEF Accounts
<1>15. p.used_frames >= n
  BY <1>2, <1>10, <1>14, SMTT(30)
<1>16. /\ q.free_frames = p.free_frames + n /\ q.used_frames = p.used_frames - n
       /\ q.next_hint = HintAfter(p, freed) /\ q.initialized = p.initialized
       /\ q.reserved_frames = p.reserved_frames
  BY <1>3, <1>15, ZenonT(30)
<1>17. StateOK(q)
  <2>1. bits \in Bitmaps
    BY SMTT(70), <1>2, <1>4 DEF Bitmaps
  <2>. HIDE DEF n, N
  <2>. QED
    BY SMTT(60), <1>2, <1>3, <1>4, <1>10, <1>12, <1>15, <2>1 DEF StateOK
<1>18. Accounts(q)
  <2>1. q.free_frames = Cardinality(Clear(q))
    BY Zenon, <1>7, <1>9, <1>10, <1>14, <1>16
  <2>2. q.free_frames + q.used_frames = q.frame_count
    BY <1>2, <1>8, <1>10, <1>14, <1>16, SMTT(30)
  <2>. QED
    BY <1>9, <1>13, <1>16, <1>17, <2>1, <2>2, Zenon DEF Accounts
<1>. QED
  BY <1>8, <1>9, <1>16, <1>18, Zenon DEF q

\* mark_frame_used on a set of frames: they are no longer free, and the counters
\* follow.
LEMMA MarkUsed ==
  ASSUME NEW p, Accounts(p), NEW S \in SUBSET (0 .. p.frame_count - 1)
  PROVE  /\ Accounts(mark_used(p, S))
         /\ Clear(mark_used(p, S)) = Clear(p) \ S
         /\ mark_used(p, S).frame_count = p.frame_count
         /\ mark_used(p, S).initialized = p.initialized
         /\ mark_used(p, S).reserved_frames = p.reserved_frames
         /\ Cardinality({f \in S : ~p.bitmap[f]}) \in Nat
<1>. DEFINE taken == {f \in S : ~p.bitmap[f]}
            n == Cardinality(taken)
            bits == [f \in DOMAIN p.bitmap |-> f \in S \/ p.bitmap[f]]
            q == mark_used(p, S)
            N == p.frame_count
<1>1. StateOK(p)
  BY Zenon DEF Accounts
<1>2. /\ N \in Nat /\ p.bitmap \in [0 .. N - 1 -> BOOLEAN]
      /\ p.free_frames \in Nat /\ p.used_frames \in Nat
      /\ p.reserved_frames \in Nat /\ p.next_hint \in Nat /\ p.initialized \in BOOLEAN
  BY <1>1, Zenon DEF StateOK
<1>3. q = [initialized |-> p.initialized, frame_count |-> N, bitmap |-> bits,
           free_frames |-> IF p.free_frames >= n THEN p.free_frames - n ELSE 0,
           used_frames |-> p.used_frames + n,
           reserved_frames |-> p.reserved_frames, next_hint |-> p.next_hint]
  <2>1. q = [p EXCEPT !.bitmap = bits,
                      !.free_frames = IF @ >= n THEN @ - n ELSE 0,
                      !.used_frames = @ + n]
    BY Zenon DEF mark_used
  <2>. HIDE DEF q, bits, n, taken
  <2>. QED
    BY Zenon, <1>1, <2>1 DEF StateOK
<1>4. bits \in [0 .. N - 1 -> BOOLEAN]
  BY <1>2, Zenon
<1>5. \A f \in 0 .. N - 1 : bits[f] <=> f \in S \/ p.bitmap[f]
  BY <1>2, Zenon
<1>6. taken = Clear(p) \cap S
  BY Zenon DEF Clear
<1>. HIDE DEF bits, taken, q
<1>7. q.frame_count = N /\ q.bitmap = bits
  BY <1>3, Zenon
<1>8. Clear(q) = Clear(p) \ S
  BY <1>5, <1>7, Zenon DEF Clear
<1>9. /\ n \in Nat /\ n <= Cardinality(Clear(p)) /\ Cardinality(Clear(p)) \in Nat
      /\ Cardinality(Clear(p) \ S) = Cardinality(Clear(p)) - n
  <2>1. IsFiniteSet(Clear(p)) /\ Cardinality(Clear(p)) \in Nat
    BY <1>1, ClearFinite, Zenon
  <2>2. taken \in SUBSET Clear(p)
    BY <1>6, Zenon
  <2>3. IsFiniteSet(taken) /\ n <= Cardinality(Clear(p))
    BY <2>1, <2>2, FS_Subset, Zenon
  <2>. QED
    BY Zenon, <1>6, <2>1, <2>3, FS_CardinalityType, FS_Difference
<1>10. p.free_frames = Cardinality(Clear(p)) /\ p.free_frames + p.used_frames = N
  BY Zenon DEF Accounts
<1>11. /\ q.free_frames = p.free_frames - n /\ q.used_frames = p.used_frames + n
       /\ q.next_hint = p.next_hint /\ q.initialized = p.initialized
       /\ q.reserved_frames = p.reserved_frames
  BY <1>3, <1>9, <1>10, Zenon
<1>12. StateOK(q)
  <2>1. bits \in Bitmaps
    BY <1>2, <1>4, Zenon DEF Bitmaps
  <2>. HIDE DEF n, N
  <2>. QED
    BY <1>2, <1>3, <1>4, <1>9, <1>10, <2>1, SMTT(30) DEF StateOK
<1>13. \A f \in Clear(q) : q.next_hint <= f
  BY <1>8, <1>11, Zenon DEF Accounts
<1>14. Accounts(q)
  BY <1>2, <1>7, <1>8, <1>9, <1>10, <1>11, <1>12, <1>13, SMTT(30) DEF Accounts
<1>. QED
  BY <1>7, <1>8, <1>9, <1>11, <1>14, Zenon DEF q, taken

\* mark_range_used: as mark_frame_used, with one more counter.
LEMMA MarkRangeUsed ==
  ASSUME NEW p, Accounts(p), NEW S \in SUBSET (0 .. p.frame_count - 1)
  PROVE  /\ Accounts(mark_range_used(p, S))
         /\ Clear(mark_range_used(p, S)) = Clear(p) \ S
         /\ mark_range_used(p, S).frame_count = p.frame_count
         /\ mark_range_used(p, S).initialized = p.initialized
<1>. DEFINE u == mark_used(p, S)
            n == Cardinality({f \in S : ~p.bitmap[f]})
            q == mark_range_used(p, S)
<1>1. /\ Accounts(u) /\ Clear(u) = Clear(p) \ S /\ n \in Nat
      /\ u.frame_count = p.frame_count /\ u.initialized = p.initialized
  BY Zenon, MarkUsed
<1>2. q = [u EXCEPT !.reserved_frames = @ + n]
  BY Zenon DEF mark_range_used
<1>. HIDE DEF u, n, q
<1>3. StateOK(u)
  BY <1>1, Zenon DEF Accounts
<1>4. /\ q.initialized = u.initialized /\ q.frame_count = u.frame_count
      /\ q.bitmap = u.bitmap /\ q.free_frames = u.free_frames
      /\ q.used_frames = u.used_frames /\ q.next_hint = u.next_hint
      /\ StateOK(q)
  <2>1. /\ u \in [initialized : BOOLEAN, frame_count : Nat, bitmap : Bitmaps,
                  free_frames : Nat, used_frames : Nat, reserved_frames : Nat,
                  next_hint : Nat]
        /\ u.bitmap \in [0 .. u.frame_count - 1 -> BOOLEAN]
    BY Zenon, <1>3 DEF StateOK
  <2>2. u.reserved_frames + n \in Nat
    BY <1>1, <2>1, SMTT(30)
  <2>3. /\ q \in [initialized : BOOLEAN, frame_count : Nat, bitmap : Bitmaps,
                  free_frames : Nat, used_frames : Nat, reserved_frames : Nat,
                  next_hint : Nat]
        /\ q.initialized = u.initialized /\ q.frame_count = u.frame_count
        /\ q.bitmap = u.bitmap /\ q.free_frames = u.free_frames
        /\ q.used_frames = u.used_frames /\ q.next_hint = u.next_hint
    BY ONLY SMTT(30), <1>2, <2>1, <2>2
  <2>. QED
    BY <2>1, <2>3, Zenon DEF StateOK
<1>5. Clear(q) = Clear(u)
  BY <1>4, Zenon DEF Clear
<1>. QED
  BY <1>1, <1>4, <1>5, Zenon DEF Accounts, q

-----------------------------------------------------------------------------
(* Page boundaries.                                                        *)

\* Multiplication by the page size keeps the order.
LEMMA PageOrder ==
  ASSUME NEW P \in Nat \ {0}, NEW a \in Int, NEW b \in Int
  PROVE  /\ a < b => a * P + P <= b * P
         /\ a <= b => a * P <= b * P
         /\ (a + 1) * P = a * P + P
OBVIOUS

\* Division with remainder.
LEMMA PageOf ==
  ASSUME NEW P \in Nat \ {0}, NEW v \in Nat
  PROVE  /\ v \div P \in Nat
         /\ (v \div P) * P <= v /\ v < (v \div P) * P + P
OBVIOUS

\* An address lies on page f exactly if it is between the boundaries of f.
LEMMA OnPage ==
  ASSUME NEW P \in Nat \ {0}, NEW v \in Nat, NEW f \in Nat
  PROVE  /\ (v \div P = f) <=> (f * P <= v /\ v < f * P + P)
         /\ ((v \div P) * P <= f * P) <=> v < f * P + P
<1>. DEFINE q == v \div P
<1>1. q \in Nat /\ q * P <= v /\ v < q * P + P
  BY PageOf, Zenon
<1>. HIDE DEF q
<1>2. /\ q < f => q * P + P <= f * P
      /\ f < q => f * P + P <= q * P
      /\ q * P \in Int /\ f * P \in Int
  BY <1>1, PageOrder, SMTT(30)
<1>3. q < f \/ q = f \/ f < q
  BY <1>1
<1>. HIDE DEF q
<1>4. (q = f) <=> (f * P <= v /\ v < f * P + P)
  <2>1. CASE q < f
    BY <1>1, <1>2, <2>1
  <2>2. CASE q = f
    BY <1>1, <2>2, Zenon
  <2>3. CASE f < q
    BY <1>1, <1>2, <2>3
  <2>. QED
    BY <1>3, <2>1, <2>2, <2>3, ZenonT(30)
<1>5. (q * P <= f * P) <=> v < f * P + P
  <2>1. CASE q < f
    BY <1>1, <1>2, <2>1
  <2>2. CASE q = f
    BY <1>1, <1>2, <2>2, SMTT(30)
  <2>3. CASE f < q
    BY <1>1, <1>2, <2>3, SMTT(30)
  <2>. QED
    BY <1>3, <2>1, <2>2, <2>3, Zenon
<1>. QED
  BY <1>4, <1>5, Zenon DEF q

Page(f)        == f * PageSize .. (f + 1) * PageSize - 1
Bytes(base, l) == base .. base + l - 1

\* A page as the code sees it.
LEMMA PageBounds ==
  ASSUME NEW f \in Nat
  PROVE  /\ f * PageSize \in Nat /\ PageSize \in Nat \ {0}
         /\ (f + 1) * PageSize = f * PageSize + PageSize
         /\ Page(f) = f * PageSize .. f * PageSize + PageSize - 1
<1>1. PageSize \in Nat \ {0}
  BY PmmAssumption, Zenon
<1>2. f * PageSize \in Nat /\ (f + 1) * PageSize = f * PageSize + PageSize
  BY ONLY <1>1, f \in Nat, SMTT(30)
<1>. QED
  BY <1>1, <1>2 DEF Page

\* Rounding the ends of a range, when nothing wraps around.
LEMMA Rounded ==
  ASSUME NEW v \in Nat, NEW f \in Nat
  PROVE  /\ align_down(v) <= f * PageSize <=> v < f * PageSize + PageSize
         /\ align_down(v) \in Int
         /\ v + PageSize - 1 <= AddrMax =>
              (align_up(v) <= f * PageSize <=> v <= f * PageSize) /\ align_up(v) \in Int
<1>1. /\ PageSize \in Nat \ {0} /\ f * PageSize \in Nat /\ AddrMax \in Nat
  BY PageBounds, PmmAssumption, Zenon
<1>2. ASSUME NEW w \in Nat
      PROVE  /\ align_down(w) <= f * PageSize <=> w < f * PageSize + PageSize
             /\ align_down(w) \in Int
  <2>1. ((w \div PageSize) * PageSize <= f * PageSize) <=> w < f * PageSize + PageSize
    BY Zenon, <1>1, OnPage
  <2>2. (w \div PageSize) * PageSize \in Int
    BY ONLY <1>1, w \in Nat
  <2>. QED
    BY <2>1, <2>2, Zenon DEF align_down
<1>3. ASSUME v + PageSize - 1 <= AddrMax
      PROVE  (align_up(v) <= f * PageSize <=> v <= f * PageSize) /\ align_up(v) \in Int
  <2>. DEFINE w == v + PageSize - 1
  <2>1. w \in Nat /\ w <= AddrMax
    BY <1>1, <1>3
  <2>2. w % (AddrMax + 1) = w
    BY ONLY <1>1, <2>1
  <2>3. align_up(v) = align_down(w)
    BY <2>2, Zenon DEF align_up
  <2>. HIDE DEF w
  <2>4. (align_down(w) <= f * PageSize <=> w < f * PageSize + PageSize) /\ align_down(w) \in Int
    BY <1>2, <2>1, Zenon
  <2>5. w < f * PageSize + PageSize <=> v <= f * PageSize
    BY <1>1, SMTT(30) DEF w
  <2>. QED
    BY <2>3, <2>4, <2>5, Zenon
<1>. QED
  BY <1>2, <1>3, Zenon

\* The frames a loop visits are frames.
LEMMA RangesInside ==
  ASSUME NEW p, NEW base, NEW length
  PROVE  /\ InsideRange(p, base, length) \subseteq 0 .. p.frame_count - 1
         /\ TouchedByRange(p, base, length) \subseteq 0 .. p.frame_count - 1
BY Zenon DEF InsideRange, TouchedByRange, Frames

\* mark_range_free visits exactly the frames that lie in the range as a whole.
LEMMA InsideExact ==
  ASSUME NEW p, p.frame_count \in Nat, NEW base \in Nat, NEW length \in Nat,
         Representable(base, length), NEW f \in 0 .. p.frame_count - 1
  PROVE  f \in InsideRange(p, base, length) <=> Page(f) \subseteq Bytes(base, length)
<1>. DEFINE a == f * PageSize
            e == base + length
<1>1. /\ f \in Nat /\ a \in Nat /\ PageSize \in Nat \ {0} /\ AddrMax \in Nat
      /\ Page(f) = a .. a + PageSize - 1 /\ e \in Nat
      /\ base + PageSize - 1 <= AddrMax
  BY PageBounds, PmmAssumption, SMTT(30) DEF Representable
<1>2. checked_add_u64(base, length)
  BY <1>1, SMTT(30) DEF checked_add_u64, Representable
<1>3. /\ align_up(base) <= a <=> base <= a
      /\ align_down(e) <= a <=> e < a + PageSize
      /\ align_down(e) \in Int /\ align_up(base) \in Int
  BY SMTT(90), <1>1, Rounded
<1>4. f \in InsideRange(p, base, length) <=> length # 0 /\ align_up(base) <= a /\ a < align_down(e)
  BY <1>2, Zenon DEF InsideRange, Frames
<1>. HIDE DEF a
<1>5. f \in InsideRange(p, base, length) <=> length # 0 /\ base <= a /\ a + PageSize <= e
  BY <1>1, <1>3, <1>4, SMTT(30)
<1>6. Page(f) \subseteq Bytes(base, length) <=> base <= a /\ a + PageSize <= e
  <2>1. ASSUME Page(f) \subseteq Bytes(base, length) PROVE base <= a /\ a + PageSize <= e
    <3>1. a \in Page(f) /\ a + PageSize - 1 \in Page(f)
      BY <1>1
    <3>2. a \in Bytes(base, length) /\ a + PageSize - 1 \in Bytes(base, length)
      BY <2>1, <3>1, Zenon
    <3>. QED
      BY <1>1, <3>2 DEF Bytes
  <2>2. ASSUME base <= a, a + PageSize <= e PROVE Page(f) \subseteq Bytes(base, length)
    BY <1>1, <2>2 DEF Bytes
  <2>. QED
    BY <2>1, <2>2, Zenon
<1>7. base <= a /\ a + PageSize <= e => length # 0
  BY <1>1
<1>. QED
  BY <1>5, <1>6, <1>7, ZenonT(30)

\* mark_range_used visits exactly the frames that have a byte in the range.
LEMMA TouchedExact ==
  ASSUME NEW p, p.frame_count \in Nat, NEW base \in Nat, NEW length \in Nat,
         Representable(base, length), NEW f \in 0 .. p.frame_count - 1
  PROVE  f \in TouchedByRange(p, base, length) <=> Page(f) \cap Bytes(base, length) # {}
<1>. DEFINE a == f * PageSize
            e == base + length
<1>1. /\ f \in Nat /\ a \in Nat /\ PageSize \in Nat \ {0} /\ AddrMax \in Nat
      /\ Page(f) = a .. a + PageSize - 1 /\ e \in Nat /\ e + PageSize - 1 <= AddrMax
  BY PageBounds, PmmAssumption, SMTT(30) DEF Representable
<1>2. checked_add_u64(base, length)
  BY <1>1, SMTT(30) DEF checked_add_u64, Representable
<1>3. /\ align_down(base) <= a <=> base < a + PageSize
      /\ align_up(e) <= a <=> e <= a
      /\ align_down(base) \in Int /\ align_up(e) \in Int
  BY SMTT(60), <1>1, Rounded
<1>4. f \in TouchedByRange(p, base, length) <=> length # 0 /\ align_down(base) <= a /\ a < align_up(e)
  BY <1>2, Zenon DEF TouchedByRange, Frames
<1>. HIDE DEF a
<1>5. f \in TouchedByRange(p, base, length) <=> length # 0 /\ base < a + PageSize /\ a < e
  BY <1>1, <1>3, <1>4
<1>6. ASSUME length # 0, base < a + PageSize, a < e
      PROVE  Page(f) \cap Bytes(base, length) # {}
  <2>1. CASE a <= base
    <3>1. base \in Page(f) /\ base \in Bytes(base, length)
      BY <1>1, <1>6, <2>1, SMTT(30) DEF Bytes
    <3>. QED
      BY <3>1, ZenonT(30)
  <2>2. CASE base < a
    <3>1. a \in Page(f) /\ a \in Bytes(base, length)
      BY <1>1, <1>6, <2>2, SMTT(30) DEF Bytes
    <3>. QED
      BY <3>1, Zenon
  <2>. QED
    BY <1>1, <2>1, <2>2, SMTT(30)
<1>7. ASSUME NEW b \in Page(f) \cap Bytes(base, length)
      PROVE  length # 0 /\ base < a + PageSize /\ a < e
  BY <1>1, SMTT(30) DEF Bytes
<1>. QED
  BY <1>5, <1>6, <1>7, Zenon

\* Covers, the frames a range is on, said with pages.
LEMMA CoversExact ==
  ASSUME NEW n \in Nat, NEW base \in Nat, NEW length \in Nat, NEW f \in 0 .. n - 1
  PROVE  f \in Covers(n, base, length) <=> Page(f) \cap Bytes(base, length) # {}
<1>1. /\ f \in Nat /\ PageSize \in Nat \ {0} /\ f * PageSize \in Nat
      /\ Page(f) = f * PageSize .. f * PageSize + PageSize - 1
  BY PageBounds
<1>2. ASSUME NEW b \in Nat PROVE (b \div PageSize = f) <=> b \in Page(f)
  <2>1. (b \div PageSize = f) <=> (f * PageSize <= b /\ b < f * PageSize + PageSize)
    BY Zenon, <1>1, OnPage
  <2>. DEFINE a == f * PageSize
  <2>. HIDE DEF a
  <2>2. (a <= b /\ b < a + PageSize) <=> b \in a .. a + PageSize - 1
    BY <1>1 DEF a
  <2>. QED
    BY <1>1, <2>1, <2>2, Zenon DEF a
<1>3. \A b \in Bytes(base, length) : b \in Nat
  BY DEF Bytes
<1>4. f \in Covers(n, base, length) <=> \E b \in Bytes(base, length) : b \div PageSize = f
  BY Zenon DEF Covers, Bytes
<1>. QED
  BY <1>2, <1>3, <1>4, Zenon

\* Page 0, which init reserves, is frame 0.
LEMMA LowPage ==
  ASSUME NEW p, p.frame_count \in Nat, NEW f \in 0 .. p.frame_count - 1
  PROVE  f \in TouchedByRange(p, 0, PageSize) <=> f = 0
<1>1. /\ f \in Nat /\ PageSize \in Nat \ {0} /\ f * PageSize \in Nat
      /\ Page(f) = f * PageSize .. f * PageSize + PageSize - 1
      /\ 2 * PageSize <= AddrMax + 1 /\ AddrMax \in Nat
  BY PageBounds, PmmAssumption, SMTT(30)
<1>2. Representable(0, PageSize)
  BY <1>1, SMTT(30) DEF Representable
<1>3. f \in TouchedByRange(p, 0, PageSize) <=> Page(f) \cap Bytes(0, PageSize) # {}
  BY <1>1, <1>2, TouchedExact, ZenonT(30)
<1>4. f # 0 => PageSize <= f * PageSize
  <2>1. f # 0 => 0 * PageSize + PageSize <= f * PageSize
    BY <1>1, PageOrder
  <2>. QED
    BY <1>1, <2>1, SMTT(30)
<1>5. ASSUME f = 0 PROVE Page(f) \cap Bytes(0, PageSize) # {}
  <2>1. 0 \in Page(f) /\ 0 \in Bytes(0, PageSize)
    BY <1>1, <1>5, SMTT(30) DEF Bytes
  <2>. QED
    BY <2>1, ZenonT(30)
<1>6. ASSUME NEW b \in Page(f) \cap Bytes(0, PageSize) PROVE f = 0
  <2>. DEFINE a == f * PageSize
  <2>1. a \in Nat /\ b \in a .. a + PageSize - 1 /\ b \in 0 .. 0 + PageSize - 1
    BY <1>1, ZenonT(30) DEF Bytes
  <2>. HIDE DEF a
  <2>2. ~(PageSize <= a)
    BY <1>1, <2>1, SMTT(30)
  <2>. QED
    BY <1>4, <2>2, ZenonT(30) DEF a
<1>. QED
  BY <1>3, <1>5, <1>6, ZenonT(30)

-----------------------------------------------------------------------------
(* Initialisation.                                                         *)

\* Of the state the ranges depend only on the number of frames.
LEMMA RangesSame ==
  ASSUME NEW p, NEW q, p.frame_count = q.frame_count
  PROVE  /\ \A base, length : InsideRange(p, base, length) = InsideRange(q, base, length)
         /\ \A base, length : TouchedByRange(p, base, length) = TouchedByRange(q, base, length)
         /\ UsableFrames(p) = UsableFrames(q) /\ UnusableFrames(p) = UnusableFrames(q)
<1>1. /\ \A base, length : InsideRange(p, base, length) = InsideRange(q, base, length)
      /\ \A base, length : TouchedByRange(p, base, length) = TouchedByRange(q, base, length)
  BY Zenon DEF InsideRange, TouchedByRange, Frames
<1>. QED
  BY <1>1, SMTT(30) DEF UsableFrames, UnusableFrames

\* The state before any usable range is looked at.
LEMMA AllUsed ==
  ASSUME NEW n \in Nat
  PROVE  LET all == [pmm_zero_state EXCEPT !.frame_count = n, !.used_frames = n,
                                           !.bitmap = [f \in 0 .. n - 1 |-> TRUE]]
         IN Accounts(all) /\ Clear(all) = {} /\ all.frame_count = n
<1>. DEFINE bits == [f \in 0 .. n - 1 |-> TRUE]
            all == [pmm_zero_state EXCEPT !.frame_count = n, !.used_frames = n,
                                          !.bitmap = bits]
<1>1. bits \in [0 .. n - 1 -> BOOLEAN] /\ \A f \in 0 .. n - 1 : bits[f]
  BY Zenon
<1>2. bits \in Bitmaps
  BY <1>1, Zenon DEF Bitmaps
<1>. HIDE DEF bits
<1>. DEFINE no == FALSE
<1>3. all = [initialized |-> no, frame_count |-> n, bitmap |-> bits,
             free_frames |-> 0, used_frames |-> n, reserved_frames |-> 0, next_hint |-> 0]
  <2>. DEFINE none == [f \in {} |-> TRUE]
  <2>1. pmm_zero_state =
          [initialized |-> no, frame_count |-> 0, bitmap |-> none, free_frames |-> 0,
           used_frames |-> 0, reserved_frames |-> 0, next_hint |-> 0]
    BY Zenon DEF pmm_zero_state
  <2>. HIDE DEF none, no
  <2>2. pmm_zero_state \in [initialized : {no}, frame_count : Nat, bitmap : {none},
                            free_frames : {0}, used_frames : Nat, reserved_frames : {0},
                            next_hint : {0}]
    BY <2>1, Zenon
  <2>3. all = [pmm_zero_state EXCEPT !.frame_count = n, !.used_frames = n, !.bitmap = bits]
    BY Zenon
  <2>. HIDE DEF all
  <2>. QED
    BY ZenonT(30), <2>2, <2>3
<1>. HIDE DEF all, no
<1>. no \in BOOLEAN
  BY Zenon DEF no
<1>4. StateOK(all)
  BY <1>1, <1>2, <1>3, ZenonT(30) DEF StateOK
<1>5. Clear(all) = {} /\ all.frame_count = n
  BY <1>1, <1>3, Zenon DEF Clear
<1>6. Accounts(all)
  <2>1. /\ all.free_frames = 0 /\ all.used_frames = n
    BY <1>3, Zenon
  <2>2. all.free_frames = Cardinality(Clear(all)) /\ all.free_frames + all.used_frames = n
    BY <1>5, <2>1, FS_EmptySet, SMTT(30)
  <2>. QED
    BY <1>4, <1>5, <2>2, Zenon DEF Accounts
<1>. QED
  BY <1>5, <1>6, ZenonT(30) DEF all, bits

\* What pmm_init_from_map builds.
LEMMA Built ==
  ASSUME NEW n \in Nat
  PROVE  /\ Accounts(BuiltFromMap(n))
         /\ BuiltFromMap(n).initialized = TRUE
         /\ BuiltFromMap(n).frame_count = n
         /\ Clear(BuiltFromMap(n)) =
              (UsableFrames(BuiltFromMap(n)) \ TouchedByRange(BuiltFromMap(n), 0, PageSize))
                \ UnusableFrames(BuiltFromMap(n))
<1>. DEFINE all == [pmm_zero_state EXCEPT !.frame_count = n, !.used_frames = n,
                                          !.bitmap = [f \in 0 .. n - 1 |-> TRUE]]
            freed == mark_free(all, UsableFrames(all))
            low == mark_range_used(freed, TouchedByRange(freed, 0, PageSize))
            high == mark_range_used(low, UnusableFrames(low))
            q == BuiltFromMap(n)
<1>1. Accounts(all) /\ Clear(all) = {} /\ all.frame_count = n
  BY Zenon, AllUsed
<1>2. q = [high EXCEPT !.initialized = TRUE]
  BY Zenon DEF BuiltFromMap
<1>. HIDE DEF all
<1>3. /\ UsableFrames(all) \in SUBSET (0 .. all.frame_count - 1)
      /\ \A p : UnusableFrames(p) \in SUBSET (0 .. p.frame_count - 1)
      /\ \A p : TouchedByRange(p, 0, PageSize) \in SUBSET (0 .. p.frame_count - 1)
  BY RangesInside DEF UsableFrames, UnusableFrames
<1>4. /\ Accounts(freed) /\ Clear(freed) = UsableFrames(all) /\ freed.frame_count = n
  <2>1. Accounts(freed) /\ Clear(freed) = Clear(all) \cup UsableFrames(all)
        /\ freed.frame_count = all.frame_count
    BY <1>1, <1>3, MarkFree, Zenon
  <2>. QED
    BY <1>1, <2>1, Zenon
<1>. HIDE DEF freed
<1>5. /\ Accounts(low) /\ Clear(low) = Clear(freed) \ TouchedByRange(freed, 0, PageSize)
      /\ low.frame_count = n
  BY <1>3, <1>4, MarkRangeUsed, ZenonT(30)
<1>. HIDE DEF low
<1>6. /\ Accounts(high) /\ Clear(high) = Clear(low) \ UnusableFrames(low)
      /\ high.frame_count = n
  BY <1>3, <1>5, MarkRangeUsed, Zenon
<1>. HIDE DEF high, q
<1>7. StateOK(high)
  BY <1>6, Zenon DEF Accounts
<1>8. /\ q.initialized = TRUE /\ q.frame_count = high.frame_count
      /\ q.bitmap = high.bitmap /\ q.free_frames = high.free_frames
      /\ q.used_frames = high.used_frames /\ q.next_hint = high.next_hint
      /\ StateOK(q)
  BY Zenon, <1>2, <1>7 DEF StateOK
<1>9. Clear(q) = Clear(high)
  BY <1>8, Zenon DEF Clear
<1>10. Accounts(q)
  BY <1>6, <1>8, <1>9, ZenonT(30) DEF Accounts
<1>11. /\ UsableFrames(all) = UsableFrames(q)
       /\ TouchedByRange(freed, 0, PageSize) = TouchedByRange(q, 0, PageSize)
       /\ UnusableFrames(low) = UnusableFrames(q)
  BY <1>1, <1>4, <1>5, <1>6, <1>8, RangesSame, SMTT(30)
<1>12. q.frame_count = n /\ Clear(q) = (UsableFrames(q) \ TouchedByRange(q, 0, PageSize)) \ UnusableFrames(q)
  BY <1>4, <1>5, <1>6, <1>8, <1>9, <1>11, ZenonT(30)
<1>. QED
  BY SMTT(60), <1>8, <1>10, <1>12 DEF q

\* The map that kernel_memory_init makes has words in it.
LEMMA MapTypes ==
  ASSUME entries \in Seq(Entries)
  PROVE  \A r \in map : r.base \in Nat /\ r.length \in Nat
<1>1. ASSUME NEW i \in DOMAIN entries
      PROVE  entries[i].base \in Nat /\ entries[i].length \in Nat
  <2>1. entries[i] \in Entries
    OBVIOUS
  <2>. QED
    BY <2>1, PmmAssumption, SMTT(30) DEF Entries, Word
<1>2. ASSUME NEW r \in map
      PROVE  \E i \in DOMAIN entries : r.base = entries[i].base /\ r.length = entries[i].length
  <2>1. PICK i \in DOMAIN entries :
          r = [base |-> entries[i].base, length |-> entries[i].length,
               usable |-> BootType(entries[i].type) = "USABLE"]
    BY Zenon DEF map
  <2>. DEFINE u == BootType(entries[i].type) = "USABLE"
  <2>2. r = [base |-> entries[i].base, length |-> entries[i].length, usable |-> u]
    BY <2>1, Zenon
  <2>. HIDE DEF u
  <2>. QED
    BY <2>2, Zenon
<1>. QED
  BY <1>1, <1>2, Zenon

\* After init a frame is free exactly if it is not frame 0, a usable region
\* contains it and no other region touches it.
LEMMA FreeAfterInit ==
  ASSUME NEW n \in Nat, NEW f \in 0 .. n - 1
  PROVE  LET q == BuiltFromMap(n) IN
         /\ f \in Clear(q) <=> ~q.bitmap[f]
         /\ f \in Clear(q) <=>
              /\ f # 0
              /\ \E r \in map : r.usable /\ f \in InsideRange(q, r.base, r.length)
              /\ \A r \in map : ~r.usable => f \notin TouchedByRange(q, r.base, r.length)
<1>. DEFINE q == BuiltFromMap(n)
<1>1. /\ q.frame_count = n
      /\ Clear(q) = (UsableFrames(q) \ TouchedByRange(q, 0, PageSize)) \ UnusableFrames(q)
  BY Zenon, Built
<1>. HIDE DEF q
<1>2. f \in TouchedByRange(q, 0, PageSize) <=> f = 0
  BY <1>1, LowPage, Zenon
<1>3. f \in UsableFrames(q) <=>
        \E r \in map : r.usable /\ f \in InsideRange(q, r.base, r.length)
  BY Zenon DEF UsableFrames
<1>4. f \in UnusableFrames(q) <=>
        \E r \in map : ~r.usable /\ f \in TouchedByRange(q, r.base, r.length)
  BY Zenon DEF UnusableFrames
<1>5. f \in Clear(q) <=> ~q.bitmap[f]
  BY <1>1, Zenon DEF Clear
<1>. QED
  BY <1>1, <1>2, <1>3, <1>4, <1>5, ZenonT(30) DEF q

-----------------------------------------------------------------------------
(* The invariant.                                                          *)

IInv ==
  /\ Accounts(pmm)
  /\ entries \in Seq(Entries)
  /\ held \subseteq 0 .. pmm.frame_count - 1
  /\ withheld \subseteq 0 .. pmm.frame_count - 1
  /\ result \in Nat \cup {INVALID}
  /\ (held \cup withheld) \cap Clear(pmm) = {}
  /\ ~pmm.initialized => pmm.frame_count = 0

\* One step of the abstract allocator, or none.
Maps == Allocator!Next \/ UNCHANGED <<pmm.initialized, FreeSet, result>>

\* What the invariant says of the fields the abstract allocator reads.
LEMMA IInvFacts ==
  ASSUME IInv
  PROVE  /\ pmm.frame_count \in Nat /\ pmm.bitmap \in [0 .. pmm.frame_count - 1 -> BOOLEAN]
         /\ pmm.initialized \in BOOLEAN /\ FreeSet = Clear(pmm)
BY Zenon DEF IInv, Accounts, StateOK, FreeSet, Clear

\* The free frames after a step are the clear bits after it.
LEMMA FreeSetNext == FreeSet' = Clear(pmm')
BY Zenon DEF FreeSet, Clear

\* Before pmm_init_from_map the invariant holds and no frame is free.
LEMMA InitIInv == Init => IInv /\ Allocator!Init
<1>. SUFFICES ASSUME Init PROVE IInv /\ Allocator!Init
  BY Zenon
<1>. DEFINE none == [f \in {} |-> TRUE]
            no == FALSE
<1>1. pmm = [initialized |-> no, frame_count |-> 0, bitmap |-> none, free_frames |-> 0,
             used_frames |-> 0, reserved_frames |-> 0, next_hint |-> 0]
  BY Zenon DEF Init, pmm_zero_state
<1>2. /\ entries \in Seq(Entries) /\ held = {} /\ withheld = {} /\ result = INVALID
  BY PmmAssumption, Zenon DEF Init
<1>3. 0 .. 0 - 1 = {}
  OBVIOUS
<1>4. none \in [0 .. 0 - 1 -> BOOLEAN]
  BY <1>3, Zenon
<1>5. none \in Bitmaps /\ no \in BOOLEAN /\ ~no
  BY <1>4, Zenon DEF Bitmaps
<1>. HIDE DEF none, no
<1>6. StateOK(pmm)
  BY <1>1, <1>4, <1>5, Zenon DEF StateOK
<1>7. Clear(pmm) = {}
  BY <1>1, <1>3, Zenon DEF Clear
<1>8. Accounts(pmm)
  <2>1. pmm.free_frames = 0 /\ pmm.used_frames = 0 /\ pmm.frame_count = 0
    BY <1>1, Zenon
  <2>. QED
    BY <1>6, <1>7, <2>1, FS_EmptySet, SMTT(30) DEF Accounts
<1>9. pmm.frame_count = 0 /\ pmm.initialized = no
  BY <1>1, Zenon
<1>10. FreeSet = {}
  BY <1>7, ZenonT(30) DEF FreeSet, Clear
<1>11. pmm.initialized = FALSE
  BY <1>9, ZenonT(30) DEF no
<1>. QED
  BY <1>2, <1>7, <1>8, <1>9, <1>10, <1>11, SMTT(30) DEF IInv, Allocator!Init

\* A call that changes nothing but perhaps the result.
LEMMA NothingStep ==
  ASSUME IInv, UNCHANGED <<pmm, entries, held, withheld>>, result' \in Nat \cup {INVALID}
  PROVE  IInv' /\ FreeSet' = FreeSet
BY ZenonT(30) DEF IInv, Accounts, StateOK, Clear, FreeSet

\* pmm_init_from_map.
LEMMA InitStep ==
  ASSUME IInv, NEW a \in InitArgs, pmm_init_from_map(a[1], a[2])
  PROVE  /\ IInv' /\ Maps
         /\ \/ pmm' = pmm
            \/ \E n \in Nat : pmm' = BuiltFromMap(n)
<1>1. a[1] \in Nat /\ PageSize \in Nat \ {0}
  BY PmmAssumption DEF Word
<1>. DEFINE n == a[1] \div PageSize
<1>2. n \in Nat
  BY <1>1, PageOf, Zenon
<1>3. ~pmm.initialized /\ UNCHANGED <<held, result>>
  BY Zenon DEF pmm_init_from_map
<1>4. CASE BadInitArgs(a[1], a[2])
  <2>1. UNCHANGED <<pmm, entries, held, withheld, result>>
    BY <1>3, <1>4, Zenon DEF pmm_init_from_map
  <2>2. result' \in Nat \cup {INVALID}
    BY <2>1, ZenonT(30) DEF IInv
  <2>. QED
    BY <2>1, <2>2, NothingStep, ZenonT(30) DEF Maps
<1>5. CASE ~BadInitArgs(a[1], a[2])
  <2>1. /\ pmm' = BuiltFromMap(n) /\ entries' = <<>>
        /\ withheld' = UNION {Covers(n, r.base, r.length) :
               r \in {s \in map : ~s.usable /\ Representable(s.base, s.length)}}
    BY <1>5, Zenon DEF pmm_init_from_map
  <2>. HIDE DEF n
  <2>2. Accounts(pmm') /\ pmm'.initialized = TRUE /\ pmm'.frame_count = n
    BY ZenonT(30), <1>2, <2>1, Built
  <2>3. held' = {}
    <3>1. pmm.frame_count = 0 /\ held \subseteq 0 .. pmm.frame_count - 1
      BY <1>3, Zenon DEF IInv
    <3>. QED
      BY <1>3, <3>1, SMTT(30)
  <2>4. withheld' \subseteq 0 .. n - 1
    BY <2>1, ZenonT(30) DEF Covers
  <2>5. ASSUME NEW f \in withheld' PROVE f \notin Clear(pmm')
    <3>1. PICK r \in map : /\ ~r.usable /\ Representable(r.base, r.length)
                           /\ f \in Covers(n, r.base, r.length)
      BY <2>1, Zenon
    <3>2. f \in 0 .. n - 1
      BY <2>4, ZenonT(30)
    <3>3. r.base \in Nat /\ r.length \in Nat
      BY MapTypes, Zenon DEF IInv
    <3>4. Page(f) \cap Bytes(r.base, r.length) # {}
      BY <1>2, <3>1, <3>2, <3>3, CoversExact, ZenonT(30)
    <3>5. f \in TouchedByRange(pmm', r.base, r.length)
      BY <1>2, <2>2, <3>1, <3>2, <3>3, <3>4, TouchedExact, SMTT(30)
    <3>. QED
      BY <1>2, <2>1, <3>1, <3>2, <3>5, FreeAfterInit, SMTT(30)
  <2>6. 0 \notin Clear(pmm') /\ Clear(pmm') \subseteq Nat
    <3>1. \A f \in 0 .. n - 1 : f \in Nat
      BY <1>2, SMTT(30)
    <3>2. Clear(pmm') \subseteq 0 .. n - 1
      BY <2>2, Zenon DEF Clear
    <3>3. \A f \in 0 .. n - 1 : f \in Clear(pmm') => f # 0
      BY <1>2, <2>1, FreeAfterInit, ZenonT(30)
    <3>. QED
      BY <3>1, <3>2, <3>3, ZenonT(30)
  <2>7. result' \in Nat \cup {INVALID}
    BY <1>3, ZenonT(30) DEF IInv
  <2>8. entries' \in Seq(Entries)
    BY <2>1, SMTT(30)
  <2>9. IInv'
    BY ZenonT(30), <2>2, <2>3, <2>4, <2>5, <2>7, <2>8 DEF IInv, Accounts, StateOK, Clear
  <2>10. Allocator!Start
    BY <1>3, <2>2, <2>6, FreeSetNext, ZenonT(30) DEF Allocator!Start
  <2>. QED
    BY <1>2, <2>1, <2>9, <2>10, ZenonT(30) DEF Maps, Allocator!Next
<1>. QED
  BY <1>4, <1>5, Zenon

\* The search of alloc finds the lowest free frame, or there is none.
LEMMA Found ==
  ASSUME IInv
  PROVE  \/ FoundFrame = INVALID /\ Clear(pmm) = {}
         \/ FoundFrame \in Clear(pmm) /\ \A g \in Clear(pmm) : FoundFrame <= g
<1>1. Clear(pmm) = {f \in 0 .. pmm.frame_count - 1 : ~pmm.bitmap[f]}
  BY Zenon DEF Clear
<1>2. \A f \in Clear(pmm) : f \in Nat /\ f >= pmm.next_hint
  <2>1. /\ pmm.next_hint \in Nat /\ pmm.frame_count \in Nat
        /\ \A f \in Clear(pmm) : pmm.next_hint <= f
    BY Zenon DEF IInv, Accounts, StateOK
  <2>2. \A f \in 0 .. pmm.frame_count - 1 : f \in Nat
    BY <2>1, SMTT(30)
  <2>. QED
    BY <1>1, <2>1, <2>2, Zenon
<1>3. {f \in Clear(pmm) : f >= pmm.next_hint} = Clear(pmm)
  BY <1>2, Zenon
<1>4. FoundFrame = IF Clear(pmm) = {} THEN INVALID
                   ELSE CHOOSE f \in Clear(pmm) : \A g \in Clear(pmm) : f <= g
  <2>. DEFINE clear == {f \in 0 .. pmm.frame_count - 1 : ~pmm.bitmap[f]}
              ahead == {f \in clear : f >= pmm.next_hint}
              search == IF ahead # {} THEN ahead ELSE clear
  <2>1. FoundFrame = IF search = {} THEN INVALID
                     ELSE CHOOSE f \in search : \A g \in search : f <= g
    BY Zenon DEF FoundFrame
  <2>2. clear = Clear(pmm)
    BY <1>1, Zenon
  <2>. HIDE DEF clear
  <2>3. ahead = Clear(pmm)
    BY <1>3, <2>2, Zenon
  <2>. HIDE DEF ahead
  <2>4. search = Clear(pmm)
    BY <2>2, <2>3, ZenonT(30)
  <2>. HIDE DEF search
  <2>. QED
    BY <2>1, <2>4, SMTT(30)
<1>5. Clear(pmm) # {} => \E f \in Clear(pmm) : \A g \in Clear(pmm) : f <= g
  <2>1. Clear(pmm) \in SUBSET Nat
    BY <1>2, Zenon
  <2>. QED
    BY <2>1, Lowest, ZenonT(30)
<1>. QED
  BY <1>4, <1>5, ZenonT(30)

\* pmm_alloc_frame.
LEMMA AllocStep ==
  ASSUME IInv, pmm_alloc_frame
  PROVE  IInv' /\ Maps /\ pmm'.initialized = pmm.initialized
<1>. DEFINE f == IF pmm.initialized /\ pmm.free_frames # 0 THEN FoundFrame ELSE INVALID
<1>1. /\ result' = f /\ UNCHANGED <<entries, withheld>>
      /\ f = INVALID => UNCHANGED <<pmm, held>>
      /\ f # INVALID => /\ pmm' = [mark_used(pmm, {f}) EXCEPT !.next_hint = f + 1]
                        /\ held' = held \cup {f}
  BY Zenon DEF pmm_alloc_frame
<1>2. INVALID \notin Nat
  BY PmmAssumption, Zenon
<1>3. FreeSet = Clear(pmm) /\ pmm.frame_count \in Nat /\ pmm.initialized \in BOOLEAN
  BY IInvFacts, Zenon
<1>4. \A g \in Clear(pmm) : g \in Nat
  <2>1. \A g \in 0 .. pmm.frame_count - 1 : g \in Nat
    BY <1>3
  <2>. QED
    BY <2>1, Zenon DEF Clear
<1>5. CASE f = INVALID
  <2>1. IInv' /\ FreeSet' = FreeSet
    BY <1>1, <1>5, NothingStep, Zenon
  <2>2. ~pmm.initialized \/ FreeSet = {}
    <3>1. pmm.free_frames = 0 => Clear(pmm) = {}
      <4>1. pmm.free_frames = Cardinality(Clear(pmm)) /\ IsFiniteSet(Clear(pmm))
        BY ClearFinite, Zenon DEF IInv, Accounts
      <4>. QED
        BY Zenon, <4>1, FS_EmptySet
    <3>2. FoundFrame = INVALID => Clear(pmm) = {}
      BY <1>2, <1>4, Found, Zenon
    <3>. QED
      BY <1>3, <1>5, <3>1, <3>2, ZenonT(30)
  <2>3. Allocator!Alloc
    BY <1>1, <1>5, <2>1, <2>2, ZenonT(30) DEF Allocator!Alloc
  <2>. QED
    BY <1>1, <1>5, <2>1, <2>3, ZenonT(30) DEF Maps, Allocator!Next
<1>6. CASE f # INVALID
  <2>1. /\ pmm.initialized /\ f = FoundFrame
        /\ f \in Clear(pmm) /\ \A g \in Clear(pmm) : f <= g
    BY <1>6, Found, Zenon
  <2>. HIDE DEF f
  <2>. DEFINE u == mark_used(pmm, {f})
  <2>2. {f} \in SUBSET (0 .. pmm.frame_count - 1)
    BY <2>1, ZenonT(30) DEF Clear
  <2>3. /\ Accounts(u) /\ Clear(u) = Clear(pmm) \ {f} /\ u.frame_count = pmm.frame_count
        /\ u.initialized = pmm.initialized
    BY Zenon, <2>2, MarkUsed DEF IInv
  <2>4. pmm' = [u EXCEPT !.next_hint = f + 1]
    BY <1>1, <1>6, ZenonT(30)
  <2>. HIDE DEF u
  <2>5. StateOK(u)
    BY <2>3, ZenonT(30) DEF Accounts
  <2>6. f \in Nat /\ f + 1 \in Nat
    BY <1>4, <2>1, SMTT(30)
  <2>7. /\ pmm'.initialized = u.initialized /\ pmm'.frame_count = u.frame_count
        /\ pmm'.bitmap = u.bitmap /\ pmm'.free_frames = u.free_frames
        /\ pmm'.used_frames = u.used_frames /\ pmm'.next_hint = f + 1
        /\ StateOK(pmm')
    BY SMTT(60), <2>4, <2>5, <2>6 DEF StateOK
  <2>8. Clear(pmm') = Clear(pmm) \ {f}
    BY <2>3, <2>7, Zenon DEF Clear
  <2>9. \A g \in Clear(pmm') : f + 1 <= g
    BY <1>4, <2>1, <2>6, <2>8
  <2>10. Accounts(pmm')
    <3>1. pmm'.free_frames = Cardinality(Clear(pmm'))
      BY <2>3, <2>7, <2>8, Zenon DEF Accounts
    <3>2. pmm'.free_frames + pmm'.used_frames = pmm'.frame_count
      BY <2>3, <2>7, ZenonT(30) DEF Accounts
    <3>. QED
      BY <2>7, <2>9, <3>1, <3>2, Zenon DEF Accounts
  <2>11. IInv'
    <3>1. held' \subseteq 0 .. pmm'.frame_count - 1
      BY <1>1, <1>6, <2>2, <2>3, <2>7, SMTT(30) DEF IInv
    <3>2. withheld' \subseteq 0 .. pmm'.frame_count - 1
      BY <1>1, <2>3, <2>7, ZenonT(30) DEF IInv
    <3>3. (held' \cup withheld') \cap Clear(pmm') = {}
      BY <1>1, <1>6, <2>8, Zenon DEF IInv
    <3>4. entries' \in Seq(Entries) /\ result' \in Nat \cup {INVALID}
      BY <1>1, <2>6, Zenon DEF IInv
    <3>5. pmm'.initialized
      BY <2>1, <2>3, <2>7, ZenonT(30)
    <3>. QED
      BY ZenonT(30), <2>10, <3>1, <3>2, <3>3, <3>4, <3>5 DEF IInv, Accounts, StateOK, Clear
  <2>12. Allocator!Alloc
    BY <1>1, <1>3, <2>1, <2>3, <2>7, <2>8, FreeSetNext, ZenonT(30) DEF Allocator!Alloc
  <2>. QED
    BY <2>3, <2>7, <2>11, <2>12, ZenonT(30) DEF Maps, Allocator!Next
<1>. QED
  BY <1>5, <1>6, Zenon

\* pmm_free_frame.
LEMMA FreeStep ==
  ASSUME IInv, NEW addr \in Word, pmm_free_frame(addr)
  PROVE  IInv' /\ Maps /\ pmm'.initialized = pmm.initialized
<1>1. UNCHANGED <<entries, result>>
  BY Zenon DEF pmm_free_frame
<1>2. result' \in Nat \cup {INVALID} /\ entries' \in Seq(Entries)
  BY <1>1, Zenon DEF IInv
<1>3. CASE ~Freeable(addr)
  <2>1. UNCHANGED <<pmm, held, withheld>>
    BY <1>3, Zenon DEF pmm_free_frame
  <2>. QED
    BY <1>1, <1>2, <2>1, NothingStep, ZenonT(30) DEF Maps
<1>4. CASE Freeable(addr)
  <2>. DEFINE f == addr \div PageSize
  <2>1. /\ pmm' = mark_free(pmm, {f}) /\ held' = held \ {f} /\ withheld' = withheld \ {f}
    BY <1>4, Zenon DEF pmm_free_frame
  <2>2. /\ pmm.initialized /\ addr % PageSize = 0 /\ addr # 0
        /\ addr < pmm.frame_count * PageSize /\ pmm.bitmap[f]
    BY <1>4, Zenon DEF Freeable
  <2>3. /\ addr \in Nat /\ PageSize \in Nat \ {0} /\ pmm.frame_count \in Nat
        /\ FreeSet = Clear(pmm)
    BY IInvFacts, PmmAssumption, SMTT(30) DEF Word
  <2>4. /\ f \in Nat /\ f * PageSize = addr
    BY ONLY <2>2, <2>3, PageOf, SMTT(30)
  <2>. HIDE DEF f
  <2>5. f # 0 /\ f \in 0 .. pmm.frame_count - 1
    <3>1. f # 0
      BY <2>2, <2>3, <2>4, SMTT(30)
    <3>2. pmm.frame_count <= f => pmm.frame_count * PageSize <= f * PageSize
      BY <2>3, <2>4, PageOrder, SMTT(30)
    <3>. DEFINE m == pmm.frame_count * PageSize
    <3>3. m \in Nat
      BY ONLY <2>3, SMTT(30)
    <3>. HIDE DEF m
    <3>4. ~(m <= f * PageSize)
      BY <2>2, <2>3, <2>4, <3>3, SMTT(30) DEF m
    <3>5. ~(pmm.frame_count <= f)
      BY <3>2, <3>4, Zenon DEF m
    <3>. QED
      BY <2>3, <2>4, <3>1, <3>5, SMTT(30)
  <2>6. /\ Accounts(pmm') /\ Clear(pmm') = Clear(pmm) \cup {f}
        /\ pmm'.frame_count = pmm.frame_count /\ pmm'.initialized = pmm.initialized
    <3>1. {f} \in SUBSET (0 .. pmm.frame_count - 1) /\ Accounts(pmm)
      BY <2>5, Zenon DEF IInv
    <3>. QED
      BY <2>1, <3>1, MarkFree, Zenon
  <2>7. f \notin Clear(pmm)
    BY <2>2, Zenon DEF Clear
  <2>8. IInv'
    <3>1. /\ held' \subseteq 0 .. pmm'.frame_count - 1
          /\ withheld' \subseteq 0 .. pmm'.frame_count - 1
      BY Zenon, <2>1, <2>6 DEF IInv
    <3>2. (held' \cup withheld') \cap Clear(pmm') = {}
      BY Zenon, <2>1, <2>6 DEF IInv
    <3>3. pmm'.initialized
      BY <2>2, <2>6, Zenon
    <3>. QED
      BY ZenonT(30), <1>2, <2>6, <3>1, <3>2, <3>3 DEF IInv, Accounts, StateOK, Clear
  <2>9. Allocator!Free
    <3>1. FreeSet' = FreeSet \cup {f} /\ f \notin FreeSet
      BY <2>3, <2>6, <2>7, FreeSetNext, ZenonT(30)
    <3>2. f \in FreeSet' \ FreeSet
      BY <3>1, Zenon
    <3>. QED
      BY <1>1, <2>2, <2>5, <2>6, <3>1, <3>2, ZenonT(30) DEF Allocator!Free
  <2>. QED
    BY <2>6, <2>8, <2>9, Zenon DEF Maps, Allocator!Next
<1>. QED
  BY <1>3, <1>4, Zenon

\* pmm_reserve_range.
LEMMA ReserveStep ==
  ASSUME IInv, NEW a \in ReserveArgs, pmm_reserve_range(a[1], a[2])
  PROVE  IInv' /\ Maps /\ pmm'.initialized = pmm.initialized
<1>1. UNCHANGED <<entries, held, result>>
  BY Zenon DEF pmm_reserve_range
<1>2. result' \in Nat \cup {INVALID} /\ entries' \in Seq(Entries)
  BY <1>1, Zenon DEF IInv
<1>3. CASE ~(pmm.initialized /\ a[2] # 0)
  <2>1. UNCHANGED <<pmm, withheld>>
    BY <1>3, Zenon DEF pmm_reserve_range
  <2>. QED
    BY <1>1, <1>2, <2>1, NothingStep, ZenonT(30) DEF Maps
<1>4. CASE pmm.initialized /\ a[2] # 0
  <2>. DEFINE S == TouchedByRange(pmm, a[1], a[2])
              C == Covers(pmm.frame_count, a[1], a[2])
  <2>1. /\ pmm' = mark_range_used(pmm, S)
        /\ withheld' = IF Representable(a[1], a[2]) THEN withheld \cup C ELSE withheld
    BY <1>4, Zenon DEF pmm_reserve_range
  <2>2. /\ a[1] \in Nat /\ a[2] \in Nat /\ pmm.frame_count \in Nat
        /\ FreeSet = Clear(pmm)
    BY IInvFacts, PmmAssumption, SMTT(30) DEF Word
  <2>3. S \in SUBSET (0 .. pmm.frame_count - 1) /\ C \subseteq 0 .. pmm.frame_count - 1
    BY RangesInside, Zenon DEF Covers
  <2>4. Representable(a[1], a[2]) => C \subseteq S
    <3>1. ASSUME Representable(a[1], a[2]), NEW f \in C PROVE f \in S
      <4>1. f \in 0 .. pmm.frame_count - 1
        BY <2>3, Zenon
      <4>2. Page(f) \cap Bytes(a[1], a[2]) # {}
        BY <2>2, <4>1, CoversExact, Zenon
      <4>. QED
        BY <2>2, <3>1, <4>1, <4>2, TouchedExact, ZenonT(30)
    <3>. QED
      BY <3>1, Zenon
  <2>. HIDE DEF S, C
  <2>5. /\ Accounts(pmm') /\ Clear(pmm') = Clear(pmm) \ S
        /\ pmm'.frame_count = pmm.frame_count /\ pmm'.initialized = pmm.initialized
    BY <2>1, <2>3, MarkRangeUsed, Zenon DEF IInv
  <2>6. IInv'
    <3>1. /\ held' \subseteq 0 .. pmm'.frame_count - 1
          /\ withheld' \subseteq 0 .. pmm'.frame_count - 1
      BY <1>1, <2>1, <2>3, <2>5, Zenon DEF IInv
    <3>2. (held' \cup withheld') \cap Clear(pmm') = {}
      BY <1>1, <2>1, <2>4, <2>5, ZenonT(30) DEF IInv
    <3>3. pmm'.initialized
      BY <1>4, <2>5, Zenon
    <3>. QED
      BY ZenonT(30), <1>2, <2>5, <3>1, <3>2, <3>3 DEF IInv, Accounts, StateOK, Clear
  <2>7. Allocator!Reserve
    BY <1>1, <1>4, <2>2, <2>5, FreeSetNext, ZenonT(30) DEF Allocator!Reserve
  <2>. QED
    BY <2>5, <2>6, <2>7, Zenon DEF Maps, Allocator!Next
<1>. QED
  BY <1>3, <1>4, Zenon

\* Every step keeps the invariant and is a step of the allocator; only init makes
\* an initialised manager out of one that is not.
LEMMA NextStep ==
  ASSUME IInv, [Next]_vars
  PROVE  /\ IInv' /\ Maps
         /\ pmm'.initialized /\ ~pmm.initialized => \E n \in Nat : pmm' = BuiltFromMap(n)
<1>1. CASE UNCHANGED vars
  <2>1. UNCHANGED <<pmm, entries, held, withheld, result>> /\ result' \in Nat \cup {INVALID}
    BY <1>1, Zenon DEF vars, IInv
  <2>. QED
    BY <2>1, NothingStep, Zenon DEF Maps
<1>2. ASSUME NEW a \in InitArgs, pmm_init_from_map(a[1], a[2])
      PROVE  /\ IInv' /\ Maps
             /\ pmm'.initialized /\ ~pmm.initialized => \E n \in Nat : pmm' = BuiltFromMap(n)
  <2>1. pmm' = pmm => ~(pmm'.initialized /\ ~pmm.initialized)
    BY Zenon
  <2>. QED
    BY <1>2, <2>1, InitStep, Zenon
<1>3. CASE pmm_alloc_frame
  BY <1>3, AllocStep, Zenon
<1>4. ASSUME NEW addr \in Word, pmm_free_frame(addr)
      PROVE  IInv' /\ Maps /\ pmm'.initialized = pmm.initialized
  BY <1>4, FreeStep, Zenon
<1>5. ASSUME NEW a \in ReserveArgs, pmm_reserve_range(a[1], a[2])
      PROVE  IInv' /\ Maps /\ pmm'.initialized = pmm.initialized
  BY <1>5, ReserveStep, Zenon
<1>. QED
  BY <1>1, <1>2, <1>3, <1>4, <1>5, ZenonT(30) DEF Next

-----------------------------------------------------------------------------
\* The counters and the hint agree with the bitmap, and no frame that alloc
\* handed out or that is withheld is free, after any sequence of calls.
THEOREM PmmSafety == Spec => [](AccountsExact /\ NeverFreeWhileInUse)
<1>1. IInv /\ [Next]_vars => IInv'
  BY NextStep, Zenon
<1>2. IInv => AccountsExact /\ NeverFreeWhileInUse
  <2>. SUFFICES ASSUME IInv PROVE AccountsExact /\ NeverFreeWhileInUse
    BY Zenon
  <2>1. FreeSet = Clear(pmm)
    BY IInvFacts, Zenon
  <2>2. TypeOK
    BY Zenon DEF IInv, Accounts, StateOK, TypeOK
  <2>3. CountersExact /\ HintSound
    BY <2>1, Zenon DEF IInv, Accounts, CountersExact, HintSound
  <2>. QED
    BY <2>1, <2>2, <2>3, Zenon DEF IInv, AccountsExact, NeverFreeWhileInUse
<1>. QED
  BY InitIInv, <1>1, <1>2, PTL DEF Spec

\* No frame that is in use, or that was never to be handed out, is free: alloc
\* cannot return it a second time, whatever was freed or reserved before.
THEOREM PmmNeverFreeWhileInUse == Spec => []NeverFreeWhileInUse
BY PmmSafety, PTL

\* The bitmap with its hint implements the set of free frames with lowest-first
\* allocation.
THEOREM PmmRefinesAllocator == Spec => RefinesAllocator
<1>1. IInv /\ [Next]_vars => IInv'
  BY NextStep, Zenon
<1>2. IInv /\ [Next]_vars => [Allocator!Next]_<<pmm.initialized, FreeSet, result>>
  BY NextStep, Zenon DEF Maps
<1>. QED
  BY InitIInv, <1>1, <1>2, PTL DEF Spec, RefinesAllocator, Allocator!Spec

\* pmm_init_from_map frees exactly the frames that lie in a usable region as a
\* whole and on no byte of another region, except frame 0.
THEOREM PmmInitExact == Spec => InitExact
<1>. DEFINE sane == \A r \in map : Representable(r.base, r.length)
            page(f) == f * PageSize .. (f + 1) * PageSize - 1
            bytes(r) == r.base .. r.base + r.length - 1
            exact == pmm'.initialized /\ ~pmm.initialized /\ sane =>
                       \A f \in 0 .. pmm'.frame_count - 1 :
                          ~pmm'.bitmap[f] <=>
                            /\ f # 0
                            /\ \E r \in map : r.usable /\ page(f) \subseteq bytes(r)
                            /\ \A r \in map : ~r.usable => page(f) \cap bytes(r) = {}
<1>1. IInv /\ [Next]_vars => IInv'
  BY NextStep, Zenon
<1>2. ASSUME IInv, [Next]_vars PROVE exact
  <2>. SUFFICES ASSUME pmm'.initialized, ~pmm.initialized, sane,
                       NEW f \in 0 .. pmm'.frame_count - 1
                PROVE  ~pmm'.bitmap[f] <=>
                         /\ f # 0
                         /\ \E r \in map : r.usable /\ page(f) \subseteq bytes(r)
                         /\ \A r \in map : ~r.usable => page(f) \cap bytes(r) = {}
    BY Zenon
  <2>1. PICK n \in Nat : pmm' = BuiltFromMap(n)
    BY <1>2, NextStep, Zenon
  <2>2. pmm'.frame_count = n
    BY Zenon, <2>1, Built
  <2>3. ASSUME NEW r \in map
        PROVE  /\ f \in InsideRange(pmm', r.base, r.length) <=> page(f) \subseteq bytes(r)
               /\ f \notin TouchedByRange(pmm', r.base, r.length) <=> page(f) \cap bytes(r) = {}
    <3>1. r.base \in Nat /\ r.length \in Nat /\ Representable(r.base, r.length)
      BY <1>2, MapTypes, Zenon DEF IInv
    <3>2. /\ f \in InsideRange(pmm', r.base, r.length) <=> Page(f) \subseteq Bytes(r.base, r.length)
          /\ f \in TouchedByRange(pmm', r.base, r.length)
               <=> Page(f) \cap Bytes(r.base, r.length) # {}
      BY <2>2, <3>1, InsideExact, TouchedExact, SMTT(30)
    <3>. QED
      BY <3>2, Zenon DEF Page, Bytes
  <2>. HIDE DEF page, bytes
  <2>4. ~pmm'.bitmap[f] <=>
          /\ f # 0
          /\ \E r \in map : r.usable /\ f \in InsideRange(pmm', r.base, r.length)
          /\ \A r \in map : ~r.usable => f \notin TouchedByRange(pmm', r.base, r.length)
    BY <2>1, <2>2, FreeAfterInit, Zenon
  <2>. QED
    BY <2>3, <2>4, Zenon
<1>3. IInv /\ [Next]_vars => [exact]_vars
  BY <1>2, Zenon
<1>. QED
  BY InitIInv, <1>1, <1>3, PTL DEF Spec, InitExact

\* The map that kernel_memory_init makes of any list of a boot loader, however
\* long and with whatever types, never frees a byte of an entry that is not
\* usable.
THEOREM PmmBootMapSound == Spec => BootMapSound
<1>. DEFINE sane == /\ UsableApart(entries)
                    /\ \A r \in map : r.usable => Representable(r.base, r.length)
            sound == pmm'.initialized /\ ~pmm.initialized /\ sane =>
                       \A f \in 0 .. pmm'.frame_count - 1 : ~pmm'.bitmap[f] =>
                          \A i \in DOMAIN entries : entries[i].type # "USABLE" =>
                             \A b \in f * PageSize .. (f + 1) * PageSize - 1 :
                                ~(entries[i].base <= b /\ b < entries[i].base + entries[i].length)
<1>1. IInv /\ [Next]_vars => IInv'
  BY NextStep, Zenon
<1>2. ASSUME IInv, [Next]_vars PROVE sound
  <2>. SUFFICES ASSUME pmm'.initialized, ~pmm.initialized, sane,
                       NEW f \in 0 .. pmm'.frame_count - 1, ~pmm'.bitmap[f],
                       NEW i \in DOMAIN entries, entries[i].type # "USABLE",
                       NEW b \in f * PageSize .. (f + 1) * PageSize - 1
                PROVE  ~(entries[i].base <= b /\ b < entries[i].base + entries[i].length)
    BY Zenon
  <2>1. PICK n \in Nat : pmm' = BuiltFromMap(n)
    BY <1>2, NextStep, Zenon
  <2>2. pmm'.frame_count = n
    BY Zenon, <2>1, Built
  <2>3. PICK r \in map : r.usable /\ f \in InsideRange(pmm', r.base, r.length)
    BY <2>1, <2>2, FreeAfterInit, Zenon
  <2>4. r.base \in Nat /\ r.length \in Nat /\ Representable(r.base, r.length)
    BY <1>2, <2>3, MapTypes, Zenon DEF IInv
  <2>5. b \in Bytes(r.base, r.length)
    <3>1. Page(f) \subseteq Bytes(r.base, r.length)
      BY <2>2, <2>3, <2>4, InsideExact, Zenon
    <3>. QED
      BY <3>1, Zenon DEF Page
  <2>6. PICK j \in DOMAIN entries : /\ r.base = entries[j].base /\ r.length = entries[j].length
                                    /\ entries[j].type = "USABLE"
    <3>1. PICK j \in DOMAIN entries :
            r = [base |-> entries[j].base, length |-> entries[j].length,
                 usable |-> BootType(entries[j].type) = "USABLE"]
      BY Zenon, <2>3 DEF map
    <3>. DEFINE u == BootType(entries[j].type) = "USABLE"
    <3>2. r = [base |-> entries[j].base, length |-> entries[j].length, usable |-> u]
      BY <3>1, Zenon
    <3>. HIDE DEF u
    <3>3. r.base = entries[j].base /\ r.length = entries[j].length /\ r.usable = u
      BY <3>2, Zenon
    <3>4. u
      BY Zenon, <2>3, <3>3
    <3>5. entries[j].type = "USABLE"
      BY <3>4, Zenon DEF u, BootType
    <3>. QED
      BY <3>3, <3>5, Zenon
  <2>7. i # j
    BY <2>6, Zenon
  <2>8. (entries[j].base .. entries[j].base + entries[j].length - 1) \cap
        (entries[i].base .. entries[i].base + entries[i].length - 1) = {}
    BY SMTT(60), <2>6, <2>7 DEF UsableApart
  <2>9. b \notin entries[i].base .. entries[i].base + entries[i].length - 1
    BY SMTT(60), <2>5, <2>6, <2>8 DEF Bytes
  <2>10. /\ entries[i].base \in Nat /\ entries[i].length \in Nat
    <3>1. entries[i] \in Entries
      BY <1>2, SMTT(30) DEF IInv
    <3>. QED
      BY <3>1, PmmAssumption, SMTT(30) DEF Entries, Word
  <2>11. b \in Int
    OBVIOUS
  <2>. QED
    BY <2>9, <2>10, <2>11, SMTT(30)
<1>3. IInv /\ [Next]_vars => [sound]_vars
  BY <1>2, Zenon
<1>. QED
  BY InitIInv, <1>1, <1>3, PTL DEF Spec, BootMapSound
=============================================================================
