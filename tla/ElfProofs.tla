------------------------------ MODULE ElfProofs ------------------------------
(***************************************************************************)
(* That the ELF loader accepts exactly the images it can load, and that    *)
(* its plan lies in the file and in the region, for words of any width and *)
(* images of any size.                                                     *)
(***************************************************************************)
EXTENDS Elf, FiniteSetTheorems, TLAPS

USE ElfAssumption

-----------------------------------------------------------------------------
\* A sum of two numbers below W that wraps around is below both of them.
LEMMA WrappedSum ==
  ASSUME NEW W \in Nat, NEW a \in 0 .. W - 1, NEW b \in 0 .. W - 1,
         ~((a + b) % W < a)
  PROVE  (a + b) % W = a + b
<1>1. CASE a + b < W
  BY <1>1
<1>2. CASE a + b >= W
  <2>1. (a + b - W) \in 0 .. W - 1
    BY <1>2
  <2>2. (a + b) % W = a + b - W
    BY <1>2, <2>1
  <2>. QED
    BY <2>2
<1>. QED
  BY <1>1, <1>2

\* m11_add_overflow_u64 notices every sum that does not fit.
LEMMA PlusExact ==
  ASSUME NEW a \in Word, NEW b \in Word, ~m11_add_overflow_u64(a, b)
  PROVE  Plus(a, b) = a + b
BY WrappedSum, Zenon DEF Word, Plus, m11_add_overflow_u64

-----------------------------------------------------------------------------
\* What a plan says of a segment.
SegmentPlan == [file_offset : Word, vaddr : Word, filesz : Word, memsz : Word,
                align : Word, flags : SUBSET {"R", "W", "X", "other"}]

\* A range that m11_validate_user_range accepts lies in the region.
LEMMA UserRange ==
  ASSUME NEW g \in Region, NEW base \in Word, NEW size \in Word,
         m11_validate_user_range(g, base, size) = "OK"
  PROVE  size > 0 /\ g.base <= base /\ base + size <= g.limit
<1>1. /\ size # 0 /\ ~m11_add_overflow_u64(base, size)
      /\ ~(base < g.base) /\ ~(Plus(base, size) > g.limit)
  BY Zenon DEF m11_validate_user_range
<1>2. Plus(base, size) = base + size
  BY <1>1, PlusExact, Zenon
<1>3. g.base \in Word /\ g.limit \in Word
  BY Zenon DEF Region
<1>. QED
  BY <1>1, <1>2, <1>3, SMTT(30) DEF Word

\* A segment that m11_validate_load_segment accepts fits.
LEMMA AcceptedFits ==
  ASSUME image \in Image, region \in Region, NEW ph \in Phdr,
         m11_validate_load_segment(ph, image, region) = "OK"
  PROVE  SegmentFits(Segment(ph))
<1>. DEFINE s == Segment(ph)
<1>1. /\ s.flags = ph.flags /\ s.filesz = ph.filesz /\ s.memsz = ph.memsz
      /\ s.file_offset = ph.offset /\ s.vaddr = ph.vaddr /\ s.align = ph.align
  BY Zenon DEF Segment
<1>2. /\ ph.flags \in SUBSET {"R", "W", "X", "other"}
      /\ ph.filesz \in Word /\ ph.memsz \in Word /\ ph.offset \in Word
      /\ ph.vaddr \in Word /\ ph.align \in Word /\ image.size \in Word
  BY Zenon DEF Phdr, Image
<1>3. /\ "other" \notin ph.flags /\ ~({"W", "X"} \subseteq ph.flags)
      /\ ~(ph.memsz < ph.filesz)
      /\ ~Misaligned(ph)
      /\ ~m11_add_overflow_u64(ph.offset, ph.filesz)
      /\ ~(Plus(ph.offset, ph.filesz) > image.size)
      /\ m11_validate_user_range(region, ph.vaddr, ph.memsz) = "OK"
  BY Zenon DEF m11_validate_load_segment
<1>4. ph.flags \subseteq {"R", "W", "X"}
  BY <1>2, <1>3, Zenon
<1>5. ph.filesz <= ph.memsz
  BY <1>2, <1>3, SMTT(30) DEF Word
<1>6. ph.offset + ph.filesz <= image.size
  <2>1. Plus(ph.offset, ph.filesz) = ph.offset + ph.filesz
    BY <1>2, <1>3, PlusExact, Zenon
  <2>. QED
    BY <1>2, <1>3, <2>1, SMTT(30) DEF Word
<1>7. ph.memsz > 0 /\ region.base <= ph.vaddr /\ ph.vaddr + ph.memsz <= region.limit
  BY <1>2, <1>3, UserRange, Zenon
<1>8. \/ ph.align \in {0, 1}
      \/ /\ \E k \in Word : ph.align = 2 ^ k
         /\ ph.vaddr % ph.align = ph.offset % ph.align
  BY <1>3, Zenon DEF Misaligned, m11_is_power_of_two_u64
<1>. HIDE DEF s
<1>. QED
  BY <1>1, <1>3, <1>4, <1>5, <1>6, <1>7, <1>8, Zenon DEF SegmentFits, s

-----------------------------------------------------------------------------
\* While the loop runs, what has been planned so far fits.
IInv ==
  /\ TypeOK
  /\ PlanSound
  /\ pc = "header" => i = 0
  /\ pc \in {"header", "loop"} => rc = "none"
  /\ pc = "loop" =>
       /\ region.base <= plan.entry /\ plan.entry < region.limit
       /\ \A k \in 1 .. Len(plan.segments) : SegmentFits(plan.segments[k])

\* The codes the checks of the header return.
LEMMA HeaderCodes ==
  ASSUME NEW m \in Image, NEW g \in Region
  PROVE  HeaderCode(m, g) \in Codes
<1>1. IdentCode(m) \in Codes
  <2>. DEFINE bad == {k \in DOMAIN IdentFields : IdentFields[k] \in m.wrong}
  <2>1. CASE bad = {}
    BY SMTT(60), <2>1 DEF IdentCode, Codes
  <2>2. CASE bad # {}
    <3>1. bad \subseteq 1 .. 7
      BY DEF IdentFields
    <3>2. \E k \in bad : \A j \in bad : k <= j
      BY <2>2, <3>1, SMTT(30)
    <3>3. (CHOOSE k \in bad : \A j \in bad : k <= j) \in bad
      BY <3>2, Zenon
    <3>. QED
      BY Zenon, <2>2, <3>1, <3>3 DEF IdentCode, Codes, Fields, IdentFields
  <2>. QED
    BY <2>1, <2>2, Zenon
<1>2. m11_validate_phdr_bounds(m) \in Codes
  BY Zenon DEF m11_validate_phdr_bounds, Codes, Fields
<1>. QED
  BY <1>1, <1>2, Zenon DEF HeaderCode, Codes

\* The codes the checks of a segment return.
LEMMA SegmentCodes ==
  ASSUME NEW m, NEW g, NEW ph
  PROVE  m11_validate_load_segment(ph, m, g) \in Codes
BY Zenon DEF m11_validate_load_segment, m11_validate_user_range, Codes

\* The types of the parts of an image.
LEMMA ImageParts ==
  ASSUME NEW m \in Image
  PROVE  /\ m.entry \in Word /\ m.size \in Word
         /\ m.ph \in Seq(Phdr) /\ Len(m.ph) \in Nat
BY DEF Image

\* Before the call, nothing is planned.
LEMMA InitIInv == Init => IInv
<1>. SUFFICES ASSUME Init PROVE IInv
  BY Zenon
<1>1. image \in Image /\ region \in Region /\ plan \in Plan
      /\ Len(plan.segments) <= MaxSegments
  BY Zenon DEF Init
<1>2. i = 0 /\ pc = "header" /\ rc = "none"
  BY Zenon DEF Init
<1>3. i \in 0 .. Len(image.ph)
  BY <1>1, <1>2, ImageParts, SMTT(30)
<1>4. TypeOK
  BY <1>1, <1>2, <1>3, Zenon DEF TypeOK
<1>. QED
  BY <1>2, <1>4, Zenon DEF IInv, PlanSound

\* A call that returns an error after it has cleared the plan.
LEMMA AbortIInv ==
  ASSUME IInv, NEW code \in Codes, code # "OK", Abort(code),
         UNCHANGED <<image, region>>, i' \in 0 .. Len(image.ph)
  PROVE  IInv'
<1>1. pc' = "done" /\ rc' = code /\ plan' = [entry |-> 0, segments |-> <<>>]
  BY Zenon DEF Abort, Return, m11_zero_plan
<1>2. image \in Image /\ region \in Region
  BY Zenon DEF IInv, TypeOK
<1>3. 0 \in Word
  BY <1>2, ImageParts, SMTT(30) DEF Word
<1>4. plan' \in Plan /\ plan'.segments = <<>> /\ Len(plan'.segments) <= MaxSegments
  BY <1>1, <1>3, SMTT(30) DEF Plan
<1>5. TypeOK'
  BY <1>1, <1>2, <1>4, Zenon DEF TypeOK
<1>6. PlanSound'
  BY <1>1, <1>4, Zenon DEF PlanSound
<1>. QED
  BY <1>1, <1>5, <1>6, Zenon DEF IInv

\* The code before the loop.
LEMMA BeginIInv == IInv /\ Begin => IInv'
<1>. SUFFICES ASSUME IInv, Begin PROVE IInv'
  BY Zenon
<1>1. image \in Image /\ region \in Region /\ plan \in Plan
      /\ Len(plan.segments) <= MaxSegments /\ i \in 0 .. Len(image.ph) /\ rc = "none"
  BY Zenon DEF IInv, TypeOK, Begin
<1>2. UNCHANGED <<image, region, i>>
  BY Zenon DEF Begin
<1>3. CASE Return("NULL") /\ UNCHANGED plan
  <2>1. pc' = "done" /\ rc' = "NULL" /\ plan' = plan
    BY <1>3, Zenon DEF Return
  <2>2. TypeOK'
    BY <1>1, <1>2, <2>1, ZenonT(30) DEF TypeOK, Codes
  <2>. QED
    BY <2>1, <2>2, Zenon DEF IInv, PlanSound
<1>4. CASE HeaderCode(image, region) # "OK" /\ Abort(HeaderCode(image, region))
  BY <1>1, <1>2, <1>4, HeaderCodes, AbortIInv, ZenonT(30)
<1>5. CASE /\ HeaderCode(image, region) = "OK"
           /\ plan' = [m11_zero_plan EXCEPT !.entry = image.entry]
           /\ pc' = "loop" /\ rc' = rc
  <2>1. plan' = [entry |-> image.entry, segments |-> <<>>]
    BY <1>5, Zenon DEF m11_zero_plan
  <2>2. image.entry \in Word /\ 1 \in Word
    <3>1. m11_validate_user_range(region, image.entry, 1) = "OK"
      BY <1>5, Zenon DEF HeaderCode
    <3>2. ~(region.base >= region.limit) /\ region.base \in Word /\ region.limit \in Word
      BY <1>1, <3>1, Zenon DEF m11_validate_user_range, Region
    <3>. QED
      BY <1>1, <3>2, ImageParts, SMTT(30) DEF Word
  <2>3. region.base <= image.entry /\ image.entry < region.limit
    <3>1. m11_validate_user_range(region, image.entry, 1) = "OK"
      BY <1>5, Zenon DEF HeaderCode
    <3>2. region.base <= image.entry /\ image.entry + 1 <= region.limit
      BY <1>1, <2>2, <3>1, UserRange, Zenon
    <3>. QED
      BY <1>1, <2>2, <3>2, SMTT(30) DEF Region, Word
  <2>4. plan' \in Plan /\ plan'.segments = <<>> /\ plan'.entry = image.entry
        /\ Len(plan'.segments) = 0
    BY <2>1, <2>2, SMTT(30) DEF Plan
  <2>5. TypeOK'
    BY <1>1, <1>2, <1>5, <2>4 DEF TypeOK
  <2>6. PlanSound'
    BY <1>1, <1>5, Zenon DEF PlanSound
  <2>. QED
    BY <1>1, <1>2, <1>5, <2>3, <2>4, <2>5, <2>6, SMTT(30) DEF IInv
<1>. QED
  BY <1>3, <1>4, <1>5, Zenon DEF Begin, Abort

\* One iteration of the loop.
LEMMA IterateIInv == IInv /\ Iterate => IInv'
<1>. SUFFICES ASSUME IInv, Iterate PROVE IInv'
  BY Zenon
<1>. DEFINE ph   == image.ph[i + 1]
            code == m11_validate_load_segment(ph, image, region)
            n    == Len(plan.segments)
<1>1. /\ image \in Image /\ region \in Region /\ plan \in Plan
      /\ n <= MaxSegments /\ i \in 0 .. Len(image.ph)
      /\ pc = "loop" /\ i < Len(image.ph) /\ rc = "none"
      /\ region.base <= plan.entry /\ plan.entry < region.limit
      /\ \A k \in 1 .. n : SegmentFits(plan.segments[k])
  BY Zenon DEF IInv, TypeOK, Iterate
<1>2. UNCHANGED <<image, region>> /\ i' = i + 1
  BY Zenon DEF Iterate
<1>3. i' \in 0 .. Len(image.ph) /\ ph \in Phdr
  BY <1>1, <1>2, ImageParts
<1>4. ASSUME NEW s PROVE SegmentFits(s)' <=> SegmentFits(s)
  BY <1>2, Zenon DEF SegmentFits
<1>5. CASE UNCHANGED <<plan, pc, rc>>
  <2>1. TypeOK'
    BY <1>1, <1>2, <1>3, <1>5, Zenon DEF TypeOK
  <2>2. PlanSound'
    BY <1>1, <1>5, Zenon DEF PlanSound
  <2>3. \A k \in 1 .. Len(plan'.segments) : SegmentFits(plan.segments[k])'
    BY <1>1, <1>4, <1>5, Zenon
  <2>. QED
    BY <1>1, <1>2, <1>5, <2>1, <2>2, <2>3, Zenon DEF IInv
<1>6. CASE Abort("SEGCOUNT")
  <2>1. "SEGCOUNT" \in Codes
    BY Zenon DEF Codes
  <2>. QED
    BY <1>2, <1>3, <1>6, <2>1, AbortIInv, Zenon
<1>7. CASE code # "OK" /\ Abort(code)
  BY <1>2, <1>3, <1>7, SegmentCodes, AbortIInv, Zenon
<1>8. CASE /\ Room /\ code = "OK"
           /\ plan' = [plan EXCEPT !.segments = Append(@, Segment(ph))]
           /\ UNCHANGED <<pc, rc>>
  <2>1. SegmentFits(Segment(ph))
    BY <1>1, <1>3, <1>8, AcceptedFits, ZenonT(30)
  <2>2. Segment(ph) \in SegmentPlan
    BY <1>3, Zenon DEF Segment, SegmentPlan, Phdr
  <2>3. plan.segments \in Seq(SegmentPlan) /\ plan.entry \in Word
    BY <1>1, Zenon DEF Plan, SegmentPlan
  <2>. HIDE DEF ph, code
  <2>4. /\ plan'.segments = Append(plan.segments, Segment(ph))
        /\ plan'.entry = plan.entry
    BY <1>1, <1>8, ZenonT(30) DEF Plan
  <2>5. /\ plan'.segments \in Seq(SegmentPlan) /\ Len(plan'.segments) = n + 1
        /\ n \in Nat
        /\ plan'.segments[n + 1] = Segment(ph)
        /\ \A k \in 1 .. n : plan'.segments[k] = plan.segments[k]
    BY <2>2, <2>3, <2>4
  <2>6. plan' \in Plan
    <3>1. plan' = [entry |-> plan.entry, segments |-> plan'.segments]
      BY Zenon, <1>1, <1>8, <2>4 DEF Plan
    <3>. QED
      BY <2>3, <2>5, <3>1 DEF Plan, SegmentPlan
  <2>7. n + 1 <= MaxSegments
    BY <1>8, <2>5 DEF Room
  <2>8. TypeOK'
    BY <1>1, <1>2, <1>3, <1>8, <2>5, <2>6, <2>7, ZenonT(30) DEF TypeOK
  <2>9. PlanSound'
    BY <1>1, <1>8, Zenon DEF PlanSound
  <2>10. \A k \in 1 .. Len(plan'.segments) : SegmentFits(plan'.segments[k])
    <3>. TAKE k \in 1 .. Len(plan'.segments)
    <3>1. k \in 1 .. n \/ k = n + 1
      BY <2>5
    <3>. QED
      BY <1>1, <2>1, <2>5, <3>1, Zenon
  <2>11. (\A k \in 1 .. Len(plan.segments) : SegmentFits(plan.segments[k]))'
    BY <1>2, <2>10, Zenon DEF SegmentFits
  <2>. QED
    BY <1>1, <1>2, <1>8, <2>4, <2>8, <2>9, <2>11, Zenon DEF IInv
<1>. QED
  BY <1>5, <1>6, <1>7, <1>8, Zenon DEF Iterate

\* The code after the loop.
LEMMA FinishIInv == IInv /\ Finish => IInv'
<1>. SUFFICES ASSUME IInv, Finish PROVE IInv'
  BY Zenon
<1>1. UNCHANGED <<image, region, plan, i>> /\ pc = "loop" /\ pc' = "done"
  BY Zenon DEF Finish, Return
<1>2. rc' = IF plan.segments = <<>> THEN "SEGCOUNT" ELSE "OK"
  BY Zenon DEF Finish, Return
<1>3. TypeOK'
  BY <1>1, <1>2, Zenon DEF IInv, TypeOK, Codes
<1>4. PlanSound'
  <2>1. /\ region.base <= plan.entry /\ plan.entry < region.limit
        /\ \A k \in 1 .. Len(plan.segments) : SegmentFits(plan.segments[k])
    BY <1>1, Zenon DEF IInv
  <2>2. (\A k \in 1 .. Len(plan.segments) : SegmentFits(plan.segments[k]))'
    BY <1>1, <2>1, ZenonT(30) DEF SegmentFits
  <2>. QED
    BY <1>1, <1>2, <2>1, <2>2, Zenon DEF PlanSound
<1>. QED
  BY <1>1, <1>3, <1>4, Zenon DEF IInv

\* A step that changes nothing keeps the invariant.
LEMMA StutterIInv == IInv /\ UNCHANGED vars => IInv'
BY DEF IInv, TypeOK, PlanSound, SegmentFits, vars

\* For words of any width, any image and any region: a plan that
\* m11_elf64_plan_load accepts has every segment in the file and in the region,
\* and a plan it refuses is empty.
THEOREM ElfPlanSound == Spec => [](TypeOK /\ PlanSound)
<1>1. IInv /\ [Next]_vars => IInv'
  BY BeginIInv, IterateIInv, FinishIInv, StutterIInv, Zenon DEF Next
<1>2. IInv => TypeOK /\ PlanSound
  BY Zenon DEF IInv
<1>. QED
  BY InitIInv, <1>1, <1>2, PTL DEF Spec

-----------------------------------------------------------------------------
(* The loader refuses nothing that it could load.                          *)

\* A sum that fits is noticed as one.
LEMMA PlusFits ==
  ASSUME NEW a \in Word, NEW b \in Word, a + b \in Word
  PROVE  Plus(a, b) = a + b /\ ~m11_add_overflow_u64(a, b)
BY DEF Word, Plus, m11_add_overflow_u64

\* A range in the region is accepted.
LEMMA RangeAccepted ==
  ASSUME NEW g \in Region, NEW base \in Word, NEW size \in Word,
         size > 0, g.base <= base, base + size <= g.limit
  PROVE  m11_validate_user_range(g, base, size) = "OK"
<1>1. g.base \in Word /\ g.limit \in Word
  BY Zenon DEF Region
<1>2. base + size \in Word
  BY <1>1 DEF Word
<1>3. Plus(base, size) = base + size /\ ~m11_add_overflow_u64(base, size)
  BY <1>2, PlusFits, Zenon
<1>4. /\ ~(g.base >= g.limit) /\ size # 0 /\ ~(base < g.base) /\ ~(base + size > g.limit)
      /\ ~(base + size <= base)
  BY <1>1 DEF Word
<1>. QED
  BY <1>3, <1>4, Zenon DEF m11_validate_user_range

\* A segment that fits is accepted.
LEMMA FitsAccepted ==
  ASSUME image \in Image, region \in Region, NEW ph \in Phdr, SegmentFits(Segment(ph))
  PROVE  m11_validate_load_segment(ph, image, region) = "OK"
<1>1. /\ ph.flags \in SUBSET {"R", "W", "X", "other"}
      /\ ph.filesz \in Word /\ ph.memsz \in Word /\ ph.offset \in Word
      /\ ph.vaddr \in Word /\ ph.align \in Word /\ image.size \in Word
  BY Zenon DEF Phdr, Image
<1>2. /\ ph.flags \subseteq {"R", "W", "X"} /\ ~({"W", "X"} \subseteq ph.flags)
      /\ ph.filesz <= ph.memsz /\ ph.memsz > 0
      /\ ph.offset + ph.filesz <= image.size
      /\ region.base <= ph.vaddr /\ ph.vaddr + ph.memsz <= region.limit
      /\ \/ ph.align \in {0, 1}
         \/ /\ \E k \in Word : ph.align = 2 ^ k
            /\ ph.vaddr % ph.align = ph.offset % ph.align
  BY Zenon DEF SegmentFits, Segment
<1>3. ~("other" \in ph.flags \/ {"W", "X"} \subseteq ph.flags)
  BY <1>2, Zenon
<1>4. ~(ph.memsz < ph.filesz)
  BY <1>1, <1>2, SMTT(30) DEF Word
<1>5. ~Misaligned(ph)
  BY <1>2, Zenon DEF Misaligned, m11_is_power_of_two_u64
<1>6. ph.offset + ph.filesz \in Word /\ ph.offset <= image.size
  BY <1>1, <1>2, SMTT(30) DEF Word
<1>7. Plus(ph.offset, ph.filesz) = ph.offset + ph.filesz
      /\ ~m11_add_overflow_u64(ph.offset, ph.filesz)
  BY <1>1, <1>6, PlusFits, Zenon
<1>8. ~(\/ m11_add_overflow_u64(ph.offset, ph.filesz)
        \/ Plus(ph.offset, ph.filesz) > image.size \/ ph.offset > image.size)
  BY <1>1, <1>2, <1>6, <1>7, SMTT(30) DEF Word
<1>9. m11_validate_user_range(region, ph.vaddr, ph.memsz) = "OK"
  BY <1>1, <1>2, RangeAccepted, ZenonT(30)
<1>. QED
  BY <1>3, <1>4, <1>5, <1>8, <1>9, Zenon DEF m11_validate_load_segment

\* The checks before the loop accept exactly a good header with a table.
LEMMA HeaderExact ==
  ASSUME image \in Image, region \in Region
  PROVE  HeaderCode(image, region) = "OK" <=> HeaderGood /\ Len(image.ph) # 0
<1>. DEFINE bytes == PhdrSize * Len(image.ph)
<1>1. /\ image.entry \in Word /\ image.size \in Word /\ image.phoff \in Word
      /\ image.wrong \subseteq Fields /\ bytes \in Word
      /\ region.base \in Word /\ region.limit \in Word
  BY Zenon DEF Image, Region
<1>. HIDE DEF bytes
<1>2. IdentCode(image) = "OK" <=> \A k \in 1 .. 7 : IdentFields[k] \notin image.wrong
  <2>. DEFINE bad == {k \in DOMAIN IdentFields : IdentFields[k] \in image.wrong}
  <2>1. DOMAIN IdentFields = 1 .. 7 /\ \A k \in 1 .. 7 : IdentFields[k] # "OK"
    BY DEF IdentFields
  <2>2. CASE bad = {}
    BY <2>1, <2>2, Zenon DEF IdentCode
  <2>3. CASE bad # {}
    <3>1. bad \subseteq 1 .. 7
      BY <2>1, Zenon
    <3>2. \E k \in bad : \A j \in bad : k <= j
      BY <2>3, <3>1
    <3>3. (CHOOSE k \in bad : \A j \in bad : k <= j) \in bad
      BY <3>2, Zenon
    <3>4. IdentCode(image) # "OK"
      BY <2>1, <2>3, <3>1, <3>3, Zenon DEF IdentCode
    <3>. QED
      BY <2>1, <2>3, <3>4, Zenon
  <2>. QED
    BY <2>2, <2>3, Zenon
<1>3. image.wrong = {} <=> /\ \A k \in 1 .. 7 : IdentFields[k] \notin image.wrong
                           /\ "PHENTSIZE" \notin image.wrong
  <2>1. DOMAIN IdentFields = 1 .. 7
    BY DEF IdentFields
  <2>. QED
    BY <1>1, <2>1, Zenon DEF Fields
<1>4. m11_validate_phdr_bounds(image) = "OK" <=>
        /\ Len(image.ph) # 0 /\ "PHENTSIZE" \notin image.wrong
        /\ image.phoff + bytes <= image.size
  <2>1. (/\ ~m11_add_overflow_u64(image.phoff, bytes)
         /\ ~(Plus(image.phoff, bytes) > image.size)
         /\ ~(image.phoff > image.size))
        <=> image.phoff + bytes <= image.size
    <3>1. CASE image.phoff + bytes <= image.size
      <4>1. image.phoff + bytes \in Word
        BY <1>1, <3>1, SMTT(30) DEF Word
      <4>2. Plus(image.phoff, bytes) = image.phoff + bytes
            /\ ~m11_add_overflow_u64(image.phoff, bytes)
        BY <1>1, <4>1, PlusFits, Zenon
      <4>. QED
        BY <1>1, <3>1, <4>2, SMTT(30) DEF Word
    <3>2. CASE ~m11_add_overflow_u64(image.phoff, bytes)
      <4>1. Plus(image.phoff, bytes) = image.phoff + bytes
        BY <1>1, <3>2, PlusExact, Zenon
      <4>. QED
        BY <1>1, <3>2, <4>1, SMTT(30) DEF Word
    <3>. QED
      BY <3>1, <3>2, Zenon
  <2>. QED
    BY <2>1, Zenon DEF m11_validate_phdr_bounds, bytes
<1>5. m11_validate_user_range(region, image.entry, 1) = "OK" <=>
        region.base <= image.entry /\ image.entry < region.limit
  <2>1. CASE 1 \in Word
    <3>1. image.entry < region.limit <=> image.entry + 1 <= region.limit
      BY <1>1, SMTT(30) DEF Word
    <3>. QED
      BY <1>1, <2>1, <3>1, UserRange, RangeAccepted, SMTT(30)
  <2>2. CASE 1 \notin Word
    <3>1. region.limit = 0 /\ region.base = 0
      BY <1>1, <2>2 DEF Word
    <3>. QED
      BY <1>1, <3>1, SMTT(30) DEF m11_validate_user_range, Word
  <2>. QED
    BY <2>1, <2>2, Zenon
<1>6. image.size < EhdrSize <=> ~(image.size >= EhdrSize)
  BY <1>1, SMTT(30) DEF Word
<1>. QED
  BY <1>2, <1>3, <1>4, <1>5, <1>6, Zenon DEF HeaderCode, HeaderGood, bytes

\* Counting the loadable headers, one header at a time.
LEMMA LoadsCount ==
  ASSUME image \in Image, NEW n \in Nat, n <= Len(image.ph)
  PROVE  /\ IsFiniteSet(Loads(n)) /\ Cardinality(Loads(n)) \in Nat
         /\ Loads(n) \subseteq 1 .. n
         /\ Loads(n) \subseteq Loads(Len(image.ph))
         /\ Cardinality(Loads(n)) <= Cardinality(Loads(Len(image.ph)))
<1>1. Len(image.ph) \in Nat
  BY ImageParts, Zenon
<1>2. ASSUME NEW m \in Nat PROVE IsFiniteSet(Loads(m)) /\ Loads(m) \subseteq 1 .. m
  <2>1. Loads(m) \in SUBSET (1 .. m)
    BY Zenon DEF Loads
  <2>2. IsFiniteSet(1 .. m)
    BY FS_Interval
  <2>. QED
    BY <2>1, <2>2, FS_Subset, Zenon
<1>3. Loads(n) \subseteq Loads(Len(image.ph))
  BY <1>1 DEF Loads
<1>4. IsFiniteSet(Loads(n)) /\ IsFiniteSet(Loads(Len(image.ph)))
  BY <1>1, <1>2, Zenon
<1>5. Cardinality(Loads(n)) \in Nat /\ Cardinality(Loads(n)) <= Cardinality(Loads(Len(image.ph)))
  BY <1>3, <1>4, FS_Subset, FS_CardinalityType, Zenon
<1>. QED
  BY <1>2, <1>3, <1>4, <1>5, Zenon

\* The next header is one more, or none.
LEMMA LoadsNext ==
  ASSUME image \in Image, NEW n \in Nat, n < Len(image.ph)
  PROVE  /\ ~image.ph[n + 1].load => Loads(n + 1) = Loads(n)
         /\ image.ph[n + 1].load =>
              /\ Loads(n + 1) = Loads(n) \cup {n + 1} /\ n + 1 \notin Loads(n)
              /\ Cardinality(Loads(n + 1)) = Cardinality(Loads(n)) + 1
<1>1. Len(image.ph) \in Nat
  BY ImageParts, Zenon
<1>2. ~image.ph[n + 1].load => Loads(n + 1) = Loads(n)
  BY DEF Loads
<1>3. image.ph[n + 1].load => Loads(n + 1) = Loads(n) \cup {n + 1}
  BY DEF Loads
<1>4. n + 1 \notin Loads(n)
  BY DEF Loads
<1>5. IsFiniteSet(Loads(n))
  <2>1. n <= Len(image.ph)
    BY <1>1
  <2>. QED
    BY <2>1, LoadsCount, Zenon
<1>6. Cardinality(Loads(n) \cup {n + 1}) = Cardinality(Loads(n)) + 1
  BY <1>4, <1>5, FS_AddElement, Zenon
<1>. QED
  BY <1>2, <1>3, <1>4, <1>6, Zenon

\* While the loop runs, the header is good and the plan lists the loadable ones
\* of the headers seen so far, all of which fit.
CInv ==
  /\ pc = "loop" =>
       /\ HeaderGood /\ Len(image.ph) # 0
       /\ Lists(i)
       /\ \A k \in Loads(i) : SegmentFits(Segment(image.ph[k]))
  /\ PlanComplete

\* What the invariant says does not change with the image and the region.
LEMMA SameImage ==
  ASSUME image' = image, region' = region
  PROVE  /\ HeaderGood' <=> HeaderGood
         /\ Loadable' <=> Loadable
         /\ \A n : Loads(n)' = Loads(n)
         /\ \A s : SegmentFits(s)' <=> SegmentFits(s)
<1>1. HeaderGood' <=> HeaderGood
  BY Zenon DEF HeaderGood
<1>2. \A n : Loads(n)' = Loads(n)
  BY Zenon DEF Loads
<1>3. \A s : SegmentFits(s)' <=> SegmentFits(s)
  BY Zenon DEF SegmentFits
<1>4. Loadable' <=> Loadable
  BY <1>1, ZenonT(40) DEF Loadable, Loads, SegmentFits
<1>. QED
  BY <1>1, <1>2, <1>3, <1>4, Zenon

\* A call that refuses an image that cannot be loaded.
LEMMA RefuseCInv ==
  ASSUME image' = image, region' = region, pc' = "done", rc' # "OK",
         rc' = "NULL" \/ ~Loadable
  PROVE  CInv'
<1>1. Loadable' <=> Loadable
  BY SameImage, Zenon
<1>2. pc' # "loop"
  BY Zenon
<1>. QED
  BY <1>1, <1>2, Zenon DEF CInv, PlanComplete

\* The code before the loop.
LEMMA BeginCInv == IInv /\ Begin => CInv'
<1>. SUFFICES ASSUME IInv, Begin PROVE CInv'
  BY Zenon
<1>1. /\ image \in Image /\ region \in Region /\ pc = "header" /\ i = 0
      /\ UNCHANGED <<image, region, i>>
  BY Zenon DEF IInv, TypeOK, Begin
<1>2. CASE Return("NULL")
  BY <1>1, <1>2, RefuseCInv, Zenon DEF Return
<1>3. CASE HeaderCode(image, region) # "OK" /\ Return(HeaderCode(image, region))
  <2>1. ~(HeaderGood /\ Len(image.ph) # 0)
    BY <1>1, <1>3, HeaderExact, ZenonT(30)
  <2>2. ~Loadable
    <3>. SUFFICES ASSUME Loadable PROVE FALSE
      BY Zenon
    <3>1. HeaderGood /\ Cardinality(Loads(Len(image.ph))) \in 1 .. MaxSegments
      BY Zenon DEF Loadable
    <3>2. Len(image.ph) = 0
      BY <2>1, <3>1, Zenon
    <3>3. Loads(Len(image.ph)) = {}
      BY <3>2 DEF Loads
    <3>4. Cardinality(Loads(Len(image.ph))) = 0
      BY <3>3, FS_EmptySet, Zenon
    <3>. QED
      BY <3>1, <3>4, SMTT(30)
  <2>3. rc' # "OK" /\ pc' = "done"
    BY <1>3, Zenon DEF Return
  <2>. QED
    BY <1>1, <2>2, <2>3, RefuseCInv, ZenonT(30)
<1>4. CASE /\ HeaderCode(image, region) = "OK"
           /\ plan' = [m11_zero_plan EXCEPT !.entry = image.entry]
           /\ pc' = "loop"
  <2>1. HeaderGood /\ Len(image.ph) # 0
    BY <1>1, <1>4, HeaderExact, Zenon
  <2>2. plan'.entry = image.entry /\ Len(plan'.segments) = 0
    BY <1>4, Zenon DEF m11_zero_plan
  <2>3. Loads(0) = {} /\ Cardinality(Loads(0)) = 0
    <3>1. Loads(0) = {}
      BY DEF Loads
    <3>. QED
      BY <3>1, FS_EmptySet, Zenon
  <2>4. Loads(i)' = {} /\ Cardinality(Loads(i)') = 0
    BY <1>1, <2>3, Zenon DEF Loads
  <2>5. Lists(i)'
    BY <1>1, <2>2, <2>4, Zenon DEF Lists
  <2>6. HeaderGood' /\ Len(image'.ph) # 0
    BY <1>1, <2>1, SameImage, Zenon
  <2>7. pc' # "done"
    BY <1>4, Zenon
  <2>. QED
    BY <2>4, <2>5, <2>6, <2>7, Zenon DEF CInv, PlanComplete
<1>. QED
  BY <1>2, <1>3, <1>4, Zenon DEF Begin

\* One iteration of the loop.
LEMMA IterateCInv == IInv /\ CInv /\ Iterate => CInv'
<1>. SUFFICES ASSUME IInv, CInv, Iterate PROVE CInv'
  BY Zenon
<1>. DEFINE ph   == image.ph[i + 1]
            code == m11_validate_load_segment(ph, image, region)
            c    == Cardinality(Loads(i))
<1>1. /\ image \in Image /\ region \in Region /\ plan \in Plan
      /\ i \in 0 .. Len(image.ph) /\ pc = "loop" /\ i < Len(image.ph)
      /\ image' = image /\ region' = region /\ i' = i + 1
      /\ Len(plan.segments) <= MaxSegments
  BY Zenon DEF IInv, TypeOK, Iterate
<1>2. /\ HeaderGood /\ Len(image.ph) # 0 /\ Lists(i)
      /\ \A k \in Loads(i) : SegmentFits(Segment(image.ph[k]))
  BY <1>1, Zenon DEF CInv
<1>3. Len(image.ph) \in Nat /\ i \in Nat /\ ph \in Phdr /\ i + 1 <= Len(image.ph) /\ i + 1 \in Nat
      /\ i <= Len(image.ph)
  BY <1>1, ImageParts
<1>4. HeaderGood' /\ Len(image'.ph) # 0
  BY <1>1, <1>2, SameImage, Zenon
<1>5. /\ Len(plan.segments) = c /\ plan.entry = image.entry /\ c \in Nat
      /\ \A k \in Loads(i) : plan.segments[Cardinality(Loads(k))] = Segment(image.ph[k])
  BY <1>1, <1>2, <1>3, LoadsCount, Zenon DEF Lists
<1>. HIDE DEF ph, code, c
<1>6. CASE ~ph.load /\ UNCHANGED <<plan, pc, rc>>
  <2>1. Loads(i + 1) = Loads(i)
    BY <1>1, <1>3, <1>6, LoadsNext, Zenon DEF ph
  <2>2. Lists(i)' /\ \A k \in Loads(i') : SegmentFits(Segment(image.ph[k]))
    BY <1>1, <1>2, <1>6, <2>1, Zenon DEF Lists, Loads
  <2>3. (\A k \in Loads(i) : SegmentFits(Segment(image.ph[k])))'
    BY <1>1, <2>2, ZenonT(30) DEF Loads, SegmentFits
  <2>4. pc' = "loop" /\ pc' # "done"
    BY <1>1, <1>6, Zenon
  <2>. QED
    BY <1>4, <2>2, <2>3, <2>4, Zenon DEF CInv, PlanComplete
<1>7. CASE ph.load /\ ~Room /\ Abort("SEGCOUNT")
  <2>1. c = MaxSegments
    BY <1>1, <1>5, <1>7 DEF Room
  <2>2. Cardinality(Loads(i + 1)) = c + 1
    BY <1>1, <1>3, <1>7, LoadsNext, ZenonT(30) DEF ph, c
  <2>3. Cardinality(Loads(i + 1)) <= Cardinality(Loads(Len(image.ph)))
        /\ Cardinality(Loads(Len(image.ph))) \in Nat
    BY <1>1, <1>3, LoadsCount, SMTT(30)
  <2>4. Cardinality(Loads(Len(image.ph))) \notin 1 .. MaxSegments
    BY <1>5, <2>1, <2>2, <2>3, SMTT(30)
  <2>5. ~Loadable
    BY <2>4, Zenon DEF Loadable
  <2>6. pc' = "done" /\ rc' = "SEGCOUNT" /\ rc' # "OK"
    BY <1>7, Zenon DEF Abort, Return
  <2>. QED
    BY <1>1, <2>5, <2>6, RefuseCInv, Zenon
<1>8. CASE ph.load /\ code # "OK" /\ Abort(code)
  <2>1. ~SegmentFits(Segment(ph))
    BY <1>1, <1>3, <1>8, FitsAccepted, Zenon DEF code
  <2>2. i + 1 \in Loads(Len(image.ph))
    BY <1>3, <1>8, SMTT(30) DEF Loads, ph
  <2>3. ~Loadable
    BY <2>1, <2>2, ZenonT(30) DEF Loadable, ph
  <2>4. pc' = "done" /\ rc' # "OK"
    BY <1>8, Zenon DEF Abort, Return
  <2>. QED
    BY <1>1, <2>3, <2>4, RefuseCInv, Zenon
<1>9. CASE /\ ph.load /\ code = "OK"
           /\ plan' = [plan EXCEPT !.segments = Append(@, Segment(ph))]
           /\ UNCHANGED <<pc, rc>>
  <2>1. SegmentFits(Segment(ph))
    BY <1>1, <1>3, <1>9, AcceptedFits, Zenon DEF code
  <2>2. /\ Loads(i + 1) = Loads(i) \cup {i + 1}
        /\ Cardinality(Loads(i + 1)) = c + 1
    BY <1>1, <1>3, <1>9, LoadsNext, Zenon DEF ph, c
  <2>3. Segment(ph) \in SegmentPlan /\ plan.segments \in Seq(SegmentPlan)
    BY <1>1, <1>3, Zenon DEF Segment, SegmentPlan, Phdr, Plan
  <2>4. plan'.segments = Append(plan.segments, Segment(ph)) /\ plan'.entry = plan.entry
    BY <1>1, <1>9, ZenonT(30) DEF Plan
  <2>5. /\ Len(plan'.segments) = c + 1 /\ plan'.segments[c + 1] = Segment(ph)
        /\ \A k \in 1 .. c : plan'.segments[k] = plan.segments[k]
    BY <1>5, <2>3, <2>4, SMTT(30)
  <2>6. ASSUME NEW k \in Loads(i) PROVE Cardinality(Loads(k)) \in 1 .. c
    <3>1. k \in 1 .. i /\ k \in Nat /\ k <= Len(image.ph) /\ k - 1 \in Nat
          /\ k - 1 < Len(image.ph) /\ k - 1 + 1 = k /\ k - 1 <= Len(image.ph)
      BY <1>3, SMTT(30) DEF Loads
    <3>2. image.ph[k].load
      BY Zenon DEF Loads
    <3>3. Cardinality(Loads(k)) = Cardinality(Loads(k - 1)) + 1
          /\ Cardinality(Loads(k - 1)) \in Nat
      BY <1>1, <3>1, <3>2, LoadsNext, LoadsCount, Zenon
    <3>4. Loads(k) \in SUBSET Loads(i)
      BY <1>3, <3>1, SMTT(30) DEF Loads
    <3>5. IsFiniteSet(Loads(i))
      BY <1>1, <1>3, LoadsCount, Zenon
    <3>6. Cardinality(Loads(k)) <= c
      BY <3>4, <3>5, FS_Subset, Zenon DEF c
    <3>. QED
      BY <1>5, <3>3, <3>6, SMTT(30)
  <2>7. ASSUME NEW k \in Loads(i + 1)
        PROVE  /\ plan'.segments[Cardinality(Loads(k))] = Segment(image.ph[k])
               /\ SegmentFits(Segment(image.ph[k]))
    <3>1. CASE k \in Loads(i)
      BY <1>2, <1>5, <2>5, <2>6, <3>1, ZenonT(30)
    <3>2. CASE k = i + 1
      BY <2>1, <2>2, <2>5, <3>2, ZenonT(30) DEF ph
    <3>. QED
      BY <2>2, <3>1, <3>2, Zenon
  <2>8. Lists(i)'
    BY <1>1, <1>5, <2>2, <2>4, <2>5, <2>7, ZenonT(40) DEF Lists, Loads
  <2>9. (\A k \in Loads(i) : SegmentFits(Segment(image.ph[k])))'
    BY <1>1, <2>7, ZenonT(30) DEF Loads, SegmentFits
  <2>10. pc' = "loop" /\ pc' # "done"
    BY <1>1, <1>9, Zenon
  <2>. QED
    BY <1>4, <2>8, <2>9, <2>10, ZenonT(30) DEF CInv, PlanComplete
<1>. QED
  BY <1>6, <1>7, <1>8, <1>9, Zenon DEF Iterate, ph, code

\* The code after the loop.
LEMMA FinishCInv == IInv /\ CInv /\ Finish => CInv'
<1>. SUFFICES ASSUME IInv, CInv, Finish PROVE CInv'
  BY Zenon
<1>1. /\ image \in Image /\ plan \in Plan /\ pc = "loop" /\ i = Len(image.ph)
      /\ UNCHANGED <<image, region, plan, i>> /\ pc' = "done"
      /\ rc' = IF plan.segments = <<>> THEN "SEGCOUNT" ELSE "OK"
      /\ Len(plan.segments) <= MaxSegments
  BY Zenon DEF IInv, TypeOK, Finish, Return
<1>2. /\ HeaderGood /\ Lists(Len(image.ph))
      /\ \A k \in Loads(Len(image.ph)) : SegmentFits(Segment(image.ph[k]))
  BY <1>1, Zenon DEF CInv
<1>3. Len(plan.segments) = Cardinality(Loads(Len(image.ph))) /\ plan.segments \in Seq(SegmentPlan)
  BY <1>1, <1>2, Zenon DEF Lists, Plan, SegmentPlan
<1>4. plan.segments = <<>> <=> Cardinality(Loads(Len(image.ph))) \notin 1 .. MaxSegments
  BY <1>1, <1>3
<1>5. rc' = "OK" <=> Loadable
  BY <1>1, <1>2, <1>4, Zenon DEF Loadable
<1>6. Loadable' <=> Loadable
  BY <1>1, SameImage, Zenon
<1>7. Lists(Len(image.ph))'
  BY <1>1, <1>2, Zenon DEF Lists, Loads
<1>8. pc' # "loop"
  BY <1>1, Zenon
<1>. QED
  BY <1>5, <1>6, <1>7, <1>8, Zenon DEF CInv, PlanComplete

\* For words of any width, any image and any region: unless it was given a null
\* pointer, m11_elf64_plan_load accepts exactly the loadable images, and its plan
\* lists all their loadable segments in order.
THEOREM ElfPlanComplete == Spec => []PlanComplete
<1>1. Init => CInv
  BY Zenon DEF Init, CInv, PlanComplete
<1>2. IInv /\ CInv /\ [Next]_vars => IInv' /\ CInv'
  <2>1. IInv /\ CInv /\ UNCHANGED vars => CInv'
    <3>. SUFFICES ASSUME CInv, UNCHANGED vars PROVE CInv'
      BY Zenon
    <3>1. /\ image' = image /\ region' = region /\ plan' = plan /\ i' = i /\ pc' = pc /\ rc' = rc
      BY Zenon DEF vars
    <3>2. (HeaderGood' <=> HeaderGood) /\ (Loadable' <=> Loadable)
      BY <3>1, SameImage, Zenon
    <3>3. (Lists(i)' <=> Lists(i)) /\ (Lists(Len(image.ph))' <=> Lists(Len(image.ph)))
      BY <3>1, ZenonT(30) DEF Lists, Loads
    <3>4. (\A k \in Loads(i) : SegmentFits(Segment(image.ph[k])))
            <=> (\A k \in Loads(i) : SegmentFits(Segment(image.ph[k])))'
      BY <3>1, ZenonT(30) DEF Loads, SegmentFits
    <3>. QED
      BY <3>1, <3>2, <3>3, <3>4, Zenon DEF CInv, PlanComplete
  <2>. QED
    BY <2>1, BeginIInv, IterateIInv, FinishIInv, StutterIInv, BeginCInv, IterateCInv, FinishCInv,
       Zenon DEF Next
<1>3. CInv => PlanComplete
  BY Zenon DEF CInv
<1>. QED
  BY InitIInv, <1>1, <1>2, <1>3, PTL DEF Spec
=============================================================================
