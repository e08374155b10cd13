-------------------------------- MODULE MCElf --------------------------------
(***************************************************************************)
(* Module Elf with words of 3 bits, a file header of 1 byte and program    *)
(* headers of 1 byte.                                                      *)
(***************************************************************************)
EXTENDS Elf

Ph(l, f, o, v, fs, ms, a) ==
  [load |-> l, flags |-> f, offset |-> o, vaddr |-> v, filesz |-> fs, memsz |-> ms,
   align |-> a]

Good == Ph(TRUE, {"R", "X"}, 1, 3, 1, 2, 2)

\* One segment anywhere in the file and in memory.
AnyPlace == {<<Ph(TRUE, {"R"}, o, v, fs, ms, a)>> :
               o \in Word, v \in Word, fs \in {0, 1, 2, 7}, ms \in {0, 1, 2, 5, 7},
               a \in {0, 2}}

\* Every alignment and every set of flags.
AnyKind == {<<Ph(TRUE, f, o, v, 1, 1, a)>> :
              f \in SUBSET {"R", "W", "X", "other"}, o \in {1, 2}, v \in {2, 3, 5},
              a \in {0, 1, 2, 3, 4}}

\* Up to four headers, of which one is no segment and one does not fit.
AFew == {Good, [Good EXCEPT !.load = FALSE], [Good EXCEPT !.vaddr = 7],
         Ph(TRUE, {"R", "W"}, 2, 4, 0, 1, 1)}
Tables == UNION {[1 .. n -> AFew] : n \in 0 .. 4}

Img(sz, w, e, o, ph) == [size |-> sz, wrong |-> w, entry |-> e, phoff |-> o, ph |-> ph]

MCImages ==
  {Img(sz, {}, 2, 1, ph) : sz \in {2, 5, 7}, ph \in AnyPlace \cup AnyKind \cup Tables}
  \cup {Img(sz, {}, e, o, ph) : sz \in Word, e \in Word, o \in Word,
                                ph \in {<<Good>>, <<Good, Good>>}}
  \cup {Img(5, w, 2, 1, <<Good>>) : w \in SUBSET Fields}

MCRegions == [base : {0, 2, 6}, limit : {0, 5, 7}]

\* A plan that is still zero, and one that an earlier call has left.
MCStale == {m11_zero_plan, [entry |-> 1, segments |-> <<Segment(Good)>>]}
=============================================================================
