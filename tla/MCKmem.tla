-------------------------------- MODULE MCKmem --------------------------------
(***************************************************************************)
(* Module Kmem with the code's header size, alignment and split limit, in  *)
(* an address space of 1024 bytes.                                         *)
(***************************************************************************)
EXTENDS Kmem

\* An arena of 320 bytes after alignment (five blocks at most), one of 144 in the
\* same place and one of 128 elsewhere; a null base, too few bytes before and
\* after alignment, and a base that wraps around when it is aligned.
MCArenas == {<<8, 330>>, <<3, 170>>, <<40, 150>>, <<0, 200>>, <<16, 79>>, <<16, 81>>,
             <<24, 88>>, <<24, 90>>, <<1020, 100>>}

MCRequests == {0, 1, 17, 40, 100, 1015}

\* The products are 17, 0 and, wrapped around, 16.
MCCallocs == {<<1, 17>>, <<0, 8>>, <<520, 2>>}
=============================================================================
