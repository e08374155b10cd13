--------------------------------- MODULE Elf ---------------------------------
(***************************************************************************)
(* The ELF loader of mcsos/kernel/user/m11_elf_loader.c: m11_elf64_plan_   *)
(* load checks an image and lists its loadable segments in *out_plan.      *)
(*                                                                         *)
(* A step is the code before the loop, one iteration of the loop or the    *)
(* code after it.  Numbers are words and sums wrap around.                 *)
(* The image is what the code reads of it: the header fields that must     *)
(* have a fixed value are one set, those that do not have it.              *)
(***************************************************************************)
EXTENDS Integers, Sequences, FiniteSets

CONSTANTS
  WordSize,      \* the number of values of a uint64_t
  EhdrSize,      \* sizeof(struct m11_elf64_ehdr)
  PhdrSize,      \* sizeof(struct m11_elf64_phdr)
  MaxSegments,   \* M11_MAX_LOAD_SEGMENTS
  Images,        \* the images, with their size
  Regions,       \* the regions: records of base and limit
  Stale          \* what a plan may hold before the call

Word == 0 .. WordSize - 1

\* The checks of header fields against a fixed value, in the order of the code.
IdentFields == <<"MAGIC", "CLASS", "ENDIAN", "VERSION", "TYPE", "MACHINE", "EHSIZE">>

Fields == {IdentFields[i] : i \in DOMAIN IdentFields} \cup {"PHENTSIZE"}

Phdr == [load : BOOLEAN, flags : SUBSET {"R", "W", "X", "other"}, offset : Word,
         vaddr : Word, filesz : Word, memsz : Word, align : Word]

\* e_phnum and e_phentsize have 16 bits: the size of the table fits in a word.
Image == {m \in [size : Word, wrong : SUBSET Fields, entry : Word, phoff : Word,
                 ph : Seq(Phdr)] : PhdrSize * Len(m.ph) \in Word}

Region == [base : Word, limit : Word]

Plan == [entry : Word,
         segments : Seq([file_offset : Word, vaddr : Word, filesz : Word, memsz : Word,
                         align : Word, flags : SUBSET {"R", "W", "X", "other"}])]

ASSUME ElfAssumption ==
  /\ WordSize \in Nat /\ EhdrSize \in Nat /\ PhdrSize \in Nat /\ MaxSegments \in Nat
  /\ Images \subseteq Image
  /\ Regions \subseteq Region
  /\ Stale \subseteq {p \in Plan : Len(p.segments) <= MaxSegments}

VARIABLES
  image,    \* *image and image_size
  region,
  plan,     \* *out_plan: the entry and the segments that count
  i,        \* the loop counter
  pc,       \* the step that comes next
  rc        \* what the call returned

vars == <<image, region, plan, i, pc, rc>>

-----------------------------------------------------------------------------
Plus(a, b) == (a + b) % WordSize

NoOverflowTest(a, b) == FALSE

m11_add_overflow_u64(a, b) == Plus(a, b) < a

m11_is_power_of_two_u64(v) == \E k \in Word : v = 2 ^ k

m11_validate_user_range(g, base, size) ==
  IF \/ g.base >= g.limit
     \/ size = 0
     \/ m11_add_overflow_u64(base, size)
     \/ base < g.base
     \/ Plus(base, size) > g.limit
     \/ Plus(base, size) <= base
  THEN "SEGRANGE" ELSE "OK"

\* m11_validate_ident and the three checks after it: the first wrong field.
IdentCode(m) ==
  LET bad == {k \in DOMAIN IdentFields : IdentFields[k] \in m.wrong}
  IN IF bad = {} THEN "OK"
     ELSE IdentFields[CHOOSE k \in bad : \A j \in bad : k <= j]

m11_validate_phdr_bounds(m) ==
  LET bytes == PhdrSize * Len(m.ph) IN
  IF Len(m.ph) = 0 THEN "PHBOUNDS"
  ELSE IF "PHENTSIZE" \in m.wrong THEN "PHENTSIZE"
  ELSE IF \/ m11_add_overflow_u64(m.phoff, bytes)
          \/ Plus(m.phoff, bytes) > m.size
          \/ m.phoff > m.size
  THEN "PHBOUNDS" ELSE "OK"

\* Lines 96-103.
Misaligned(ph) ==
  /\ ph.align \notin {0, 1}
  /\ \/ ~m11_is_power_of_two_u64(ph.align)
     \/ ph.vaddr % ph.align # ph.offset % ph.align

m11_validate_load_segment(ph, m, g) ==
  IF "other" \in ph.flags \/ {"W", "X"} \subseteq ph.flags THEN "FLAGS"
  ELSE IF ph.memsz < ph.filesz THEN "SEGBOUNDS"
  ELSE IF Misaligned(ph) THEN "ALIGN"
  ELSE IF \/ m11_add_overflow_u64(ph.offset, ph.filesz)
          \/ Plus(ph.offset, ph.filesz) > m.size
          \/ ph.offset > m.size
  THEN "SEGBOUNDS"
  ELSE m11_validate_user_range(g, ph.vaddr, ph.memsz)

\* Lines 122-145, before the plan is touched.
HeaderCode(m, g) ==
  IF m.size < EhdrSize THEN "SIZE"
  ELSE IF IdentCode(m) # "OK" THEN IdentCode(m)
  ELSE IF m11_validate_phdr_bounds(m) # "OK" THEN m11_validate_phdr_bounds(m)
  ELSE IF m11_validate_user_range(g, m.entry, 1) # "OK" THEN "ENTRY" ELSE "OK"

m11_zero_plan == [entry |-> 0, segments |-> <<>>]

\* Lines 168-176.
Segment(ph) ==
  [file_offset |-> ph.offset, vaddr |-> ph.vaddr, filesz |-> ph.filesz,
   memsz |-> ph.memsz, align |-> ph.align, flags |-> ph.flags]

-----------------------------------------------------------------------------
Init ==
  /\ image \in Images
  /\ region \in Regions
  /\ plan \in Stale
  /\ i = 0
  /\ pc = "header"
  /\ rc = "none"

Return(code) == pc' = "done" /\ rc' = code

\* Lines 118-150.  A null pointer is refused before the plan is touched.
Begin ==
  /\ pc = "header"
  /\ \/ Return("NULL") /\ UNCHANGED plan
     \/ /\ HeaderCode(image, region) # "OK"
        /\ plan' = m11_zero_plan
        /\ Return(HeaderCode(image, region))
     \/ /\ HeaderCode(image, region) = "OK"
        /\ plan' = [m11_zero_plan EXCEPT !.entry = image.entry]
        /\ pc' = "loop"
        /\ UNCHANGED rc
  /\ UNCHANGED <<image, region, i>>

KeepPlan(code) == Return(code) /\ UNCHANGED plan

\* Lines 158-159 and 164-165.
Abort(code) == Return(code) /\ plan' = m11_zero_plan

\* The test of line 157.
Room == Len(plan.segments) < MaxSegments

\* Lines 153-178, for one program header.
Iterate ==
  /\ pc = "loop"
  /\ i < Len(image.ph)
  /\ LET ph   == image.ph[i + 1]
         code == m11_validate_load_segment(ph, image, region)
     IN \/ ~ph.load /\ UNCHANGED <<plan, pc, rc>>
        \/ ph.load /\ ~Room /\ Abort("SEGCOUNT")
        \/ ph.load /\ Room /\ code # "OK" /\ Abort(code)
        \/ /\ ph.load /\ Room /\ code = "OK"
           /\ plan' = [plan EXCEPT !.segments = Append(@, Segment(ph))]
           /\ UNCHANGED <<pc, rc>>
  /\ i' = i + 1
  /\ UNCHANGED <<image, region>>

\* Lines 181-185.
Finish ==
  /\ pc = "loop"
  /\ i = Len(image.ph)
  /\ Return(IF plan.segments = <<>> THEN "SEGCOUNT" ELSE "OK")
  /\ UNCHANGED <<image, region, plan, i>>

Next == Begin \/ Iterate \/ Finish

Spec == Init /\ [][Next]_vars

-----------------------------------------------------------------------------
Codes == Fields \cup {"OK", "NULL", "SIZE", "PHBOUNDS", "ALIGN", "SEGBOUNDS",
                      "SEGRANGE", "SEGCOUNT", "ENTRY", "FLAGS"}

\* Every variable has its type, and the plan never overruns its array.
TypeOK ==
  /\ image \in Image /\ region \in Region /\ plan \in Plan
  /\ Len(plan.segments) <= MaxSegments
  /\ i \in 0 .. Len(image.ph)
  /\ pc \in {"header", "loop", "done"}
  /\ rc \in Codes \cup {"none"}

\* In unbounded arithmetic: the bytes of a segment come from the file and go to
\* the region, no segment is both writable and executable, and a page of memory
\* is a page of the file.
SegmentFits(s) ==
  /\ s.flags \subseteq {"R", "W", "X"} /\ ~({"W", "X"} \subseteq s.flags)
  /\ s.filesz <= s.memsz /\ s.memsz > 0
  /\ s.file_offset + s.filesz <= image.size
  /\ region.base <= s.vaddr /\ s.vaddr + s.memsz <= region.limit
  /\ \/ s.align \in {0, 1}
     \/ /\ \E k \in Word : s.align = 2 ^ k
        /\ s.vaddr % s.align = s.file_offset % s.align

\* A plan that m11_elf64_plan_load accepts can be carried out: every segment
\* lies in the file and in the user region and the entry point in the region,
\* whatever sums wrap around on the way.  A plan it refuses lists no segment of
\* the image, however many were accepted before.
PlanSound ==
  /\ rc = "OK" =>
       /\ plan.segments # <<>>
       /\ region.base <= plan.entry /\ plan.entry < region.limit
       /\ \A k \in 1 .. Len(plan.segments) : SegmentFits(plan.segments[k])
  /\ rc \notin {"none", "NULL", "OK"} => plan.segments = <<>>

\* The loadable ones among the first n program headers.
Loads(n) == {k \in 1 .. n : image.ph[k].load}

\* No field is wrong, the table lies in the file and the entry in the region.
HeaderGood ==
  /\ image.wrong = {}
  /\ image.size >= EhdrSize
  /\ image.phoff + PhdrSize * Len(image.ph) <= image.size
  /\ region.base <= image.entry /\ image.entry < region.limit

\* There is a segment, there are no more than there is room for, and all fit.
Loadable ==
  /\ HeaderGood
  /\ Cardinality(Loads(Len(image.ph))) \in 1 .. MaxSegments
  /\ \A k \in Loads(Len(image.ph)) : SegmentFits(Segment(image.ph[k]))

\* The plan lists the loadable ones of the first n headers in their order: each
\* at the place that is the number of loadable headers up to it.
Lists(n) ==
  /\ plan.entry = image.entry
  /\ Len(plan.segments) = Cardinality(Loads(n))
  /\ \A k \in Loads(n) : plan.segments[Cardinality(Loads(k))] = Segment(image.ph[k])

\* Unless it was given a null pointer, m11_elf64_plan_load accepts exactly the
\* loadable images, with the loadable segments of the program header table in
\* its order.
PlanComplete ==
  pc = "done" =>
    /\ rc = "NULL" \/ (rc = "OK" <=> Loadable)
    /\ rc = "OK" => Lists(Len(image.ph))
=============================================================================
