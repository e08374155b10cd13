-------------------------------- MODULE MCVfs --------------------------------
(***************************************************************************)
(* Module Vfs with room for two files, of one byte in one run and of two   *)
(* in the other, where a rest of the data area is too small for a third.   *)
(***************************************************************************)
EXTENDS Vfs, TLC

CONSTANTS Names, Empty, Long   \* good path segments, an empty and a long one

Path(segs) == [absolute |-> TRUE, toolong |-> FALSE, segs |-> segs]

MCBadSegments == {Empty, Long}

\* The root, files in it, paths through a file, bad segments, a relative path
\* and one that is too long.
AllPaths == {Path(<<>>), Path(<<Empty>>), Path(<<Long>>),
             [Path(<<Long>>) EXCEPT !.absolute = FALSE],
             [Path(<<Long>>) EXCEPT !.toolong = TRUE]}
            \cup {Path(<<n>>) : n \in Names} \cup {Path(<<n, n>>) : n \in Names}
FilePaths == {Path(<<n>>) : n \in Names}

AllFlagSets == {{}, {"RDWR", "CREAT"}, {"WRONLY", "APPEND"}, {"RDWR", "TRUNC"},
                {"CREAT", "TRUNC"}}
WriterFlagSets == {{"RDWR", "CREAT"}, {"RDWR", "APPEND"}, {"RDWR", "TRUNC"}}

\* Writes that fit into an empty file, and one that never fits.
SomeBuffers == {<<1>>, <<1, 0>>}
LargeBuffers == {<<1>>, <<1, 1>>}

\* Nowhere, and as far as a long goes, both ways.
FarSeekOffsets == {-LongMax, 0, LongMax}

\* The names of files are never compared but for equality.
NameSymmetry == Permutations(Names)
=============================================================================
