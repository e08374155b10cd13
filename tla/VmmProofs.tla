------------------------------ MODULE VmmProofs ------------------------------
(***************************************************************************)
(* That the frames the address space has taken are a tree of tables whose  *)
(* leaves are exactly the mappings that callers asked for, for tables of   *)
(* any size, any pool of frames and any addresses; what vmm_query_page     *)
(* reports, where the frames are and what the TLB may hold follow from it. *)
(***************************************************************************)
EXTENDS Vmm, Sequences, WellFoundedInduction, TLAPS

-----------------------------------------------------------------------------
(* The tree of tables.                                                     *)

\* The frames that are tables below the root.
Used == (Pool \ Unmapped) \ (free \cup others)

PageEntry == [present : BOOLEAN, huge : BOOLEAN, page : 0 .. PhysPages - 1,
              flags : SUBSET (Settable \cup CpuFlags)]

Memory == [Pool \cup {Root} -> [Index -> PageEntry]]

\* The first n indices of an address.
Prefix(v, n) == [k \in 1 .. n |-> v.idx[k]]

\* A path of at most three indices leads to each table, and its entries to the
\* tables on the path that is one longer.
PlacesOK(U, place) ==
  /\ \A f \in U \cup {Root} :
       /\ place[f] \in Seq(Index) /\ Len(place[f]) <= 3
       /\ place[f] = <<>> <=> f = Root
  /\ \A f, g \in U \cup {Root} : place[f] = place[g] => f = g

\* The tables of the three upper levels.
Upper(U, place) == {f \in U \cup {Root} : Len(place[f]) < 3}

LinksOK(m, U, place) ==
  \A f \in Upper(U, place), i \in Index : m[f][i].present =>
    /\ ~m[f][i].huge /\ m[f][i].page \in U
    /\ place[m[f][i].page] = Append(place[f], i)

ParentsOK(m, U, place) ==
  \A g \in U : \E f \in Upper(U, place), i \in Index :
    m[f][i].present /\ m[f][i].page = g

Layout(m, U, place) ==
  /\ U \in SUBSET Pool /\ U \cap Unmapped = {}
  /\ PlacesOK(U, place) /\ LinksOK(m, U, place) /\ ParentsOK(m, U, place)

\* The entry of a page that was mapped as asked.
Leaf(a) == [present |-> TRUE, huge |-> FALSE, page |-> a.page % PhysPages,
            flags |-> Allowed(a.flags) \cup a.used]

\* Every page that was asked for has its entry in the table its address leads to.
Mapped(m, U, place, ask) ==
  \A v \in DOMAIN ask : \E f \in U :
    place[f] = Prefix(v, 3) /\ m[f][v.idx[4]] = Leaf(ask[v])

\* There is no other entry in the tables of the lowest level.
NoOther(m, U, place, ask) ==
  \A f \in U, i \in Index : Len(place[f]) = 3 /\ m[f][i].present =>
    \E v \in DOMAIN ask : Prefix(v, 3) = place[f] /\ v.idx[4] = i

Tree(m, U, place, ask) ==
  Layout(m, U, place) /\ Mapped(m, U, place, ask) /\ NoOther(m, U, place, ask)

Request == [page : Nat, flags : SUBSET PteFlags, used : SUBSET CpuFlags]

\* The mappings asked for.
Asked(ask) == DOMAIN ask \subseteq Pages /\ \A v \in DOMAIN ask : ask[v] \in Request

\* The translations the CPU has cached.
CacheOK(cache, ask) ==
  \A t \in cache : t[1] \in DOMAIN ask /\ t[2] = ask[t[1]].page % PhysPages

\* With a free_frame to return them, the frames without an address are not lost.
Returned(fr) == free_frame => Pool \cap Unmapped \subseteq fr \cup others

\* The tables are a tree, for some places of the frames, and its leaves are the
\* mappings asked for.
VmmInv ==
  /\ TypeOK /\ free \cap others = {} /\ Returned(free) /\ Asked(asked)
  /\ \E place : Tree(mem, Used, place, asked)
  /\ CacheOK(tlb, asked)

-----------------------------------------------------------------------------
(* Paths.                                                                  *)

\* A path and its continuations.
LEMMA PathStep ==
  ASSUME NEW s \in Seq(Index), NEW i \in Index
  PROVE  /\ Append(s, i) \in Seq(Index) /\ Len(Append(s, i)) = Len(s) + 1
         /\ Append(s, i) # <<>> /\ Len(s) \in Nat
  OBVIOUS

\* Different paths have different continuations.
LEMMA PathParts ==
  ASSUME NEW s \in Seq(Index), NEW i \in Index, NEW t \in Seq(Index), NEW j \in Index,
         Append(s, i) = Append(t, j)
  PROVE  s = t /\ i = j
<1>1. Len(s) = Len(t)
  OBVIOUS
<1>2. i = j
  BY <1>1
<1>3. \A k \in 1 .. Len(s) : s[k] = t[k]
  BY <1>1
<1>. QED
  BY <1>1, <1>2, <1>3

\* The fields of an address.
LEMMA AddressFields ==
  ASSUME NEW v \in VAddrs
  PROVE  v.idx \in [1 .. 4 -> Index] /\ \A k \in 1 .. 4 : v.idx[k] \in Index
<1>1. v \in [idx : [1 .. 4 -> Index], offset : Nat, upper : {"zeros", "ones", "other"}]
  BY VmmAssumption, Zenon
<1>. QED
  BY <1>1, Zenon

\* The paths to the tables that an address leads to.
LEMMA PrefixIs ==
  ASSUME NEW v \in VAddrs
  PROVE  /\ Prefix(v, 0) = <<>>
         /\ \A n \in 0 .. 3 : Prefix(v, n) \in Seq(Index) /\ Len(Prefix(v, n)) = n
         /\ \A n \in 0 .. 2 : Prefix(v, n + 1) = Append(Prefix(v, n), v.idx[n + 1])
<1>1. \A k \in 1 .. 4 : v.idx[k] \in Index
  BY AddressFields, Zenon
<1>2. ASSUME NEW n \in 0 .. 3 PROVE Prefix(v, n) \in Seq(Index) /\ Len(Prefix(v, n)) = n
  BY <1>1 DEF Prefix
<1>3. Prefix(v, 0) = <<>>
  BY <1>2
<1>4. ASSUME NEW n \in 0 .. 2 PROVE Prefix(v, n + 1) = Append(Prefix(v, n), v.idx[n + 1])
  BY <1>1, <1>2 DEF Prefix
<1>. QED
  BY <1>2, <1>3, <1>4, Zenon

\* Two pages with the same four indices are the same page.
LEMMA SamePage ==
  ASSUME NEW u \in Pages, NEW v \in Pages, Prefix(u, 3) = Prefix(v, 3), u.idx[4] = v.idx[4]
  PROVE  u = v
<1>1. /\ u \in [idx : [1 .. 4 -> Index], offset : Nat, upper : {"zeros", "ones", "other"}]
      /\ v \in [idx : [1 .. 4 -> Index], offset : Nat, upper : {"zeros", "ones", "other"}]
  BY VmmAssumption, Zenon DEF Pages
<1>2. u.idx \in [1 .. 4 -> Index] /\ v.idx \in [1 .. 4 -> Index]
  BY <1>1, Zenon
<1>3. \A k \in 1 .. 3 : u.idx[k] = v.idx[k]
  BY Zenon DEF Prefix
<1>4. \A k \in 1 .. 4 : k \in 1 .. 3 \/ k = 4
  OBVIOUS
<1>5. u.idx = v.idx
  <2>1. \A k \in 1 .. 4 : u.idx[k] = v.idx[k]
    BY <1>3, <1>4, Zenon
  <2>. QED
    BY <1>2, <2>1
<1>6. u.offset = v.offset /\ u.upper = v.upper
  BY <1>5, Zenon DEF Pages, vmm_is_canonical, vmm_is_aligned_4k
<1>. QED
  BY <1>1, <1>5, <1>6

-----------------------------------------------------------------------------
(* Following an address.                                                   *)

\* No table is behind an entry that is not present.
LEMMA NothingBehind ==
  ASSUME NEW m, NEW U, NEW place, Layout(m, U, place),
         NEW f \in Upper(U, place), NEW i \in Index, ~m[f][i].present
  PROVE  \A g \in U \cup {Root} : place[g] # Append(place[f], i)
<1>. SUFFICES ASSUME NEW g \in U \cup {Root}, place[g] = Append(place[f], i) PROVE FALSE
  BY Zenon
<1>1. f \in U \cup {Root} /\ place[f] \in Seq(Index)
  BY Zenon DEF Layout, PlacesOK, Upper
<1>2. place[g] # <<>>
  BY <1>1, PathStep, Zenon
<1>3. g \in U
  BY <1>2, Zenon DEF Layout, PlacesOK
<1>4. PICK h \in Upper(U, place), j \in Index : m[h][j].present /\ m[h][j].page = g
  BY <1>3, Zenon DEF Layout, ParentsOK
<1>5. place[g] = Append(place[h], j)
  BY <1>4, Zenon DEF Layout, LinksOK
<1>6. h \in U \cup {Root} /\ place[h] \in Seq(Index)
  BY Zenon DEF Layout, PlacesOK, Upper
<1>7. place[f] = place[h] /\ i = j
  <2>1. Append(place[f], i) = Append(place[h], j)
    BY <1>5, Zenon
  <2>2. place[f] \in Seq(Index) /\ place[h] \in Seq(Index) /\ i \in Index /\ j \in Index
    BY <1>1, <1>6, Zenon
  <2>. QED
    BY ONLY <2>1, <2>2, PathParts, SMTT(30)
<1>8. f = h
  BY <1>1, <1>6, <1>7, Zenon DEF Layout, PlacesOK
<1>. QED
  BY <1>4, <1>7, <1>8, Zenon

\* The path of v has no table after its first n indices.
Without(U, place, v, n) == \A g \in U \cup {Root} : place[g] # Prefix(v, n)

\* A table on the path of an address has the tables before it above it.
LEMMA NoDeeper ==
  ASSUME NEW m, NEW U, NEW place, Layout(m, U, place), NEW v \in VAddrs, NEW n \in 0 .. 2,
         Without(U, place, v, n)
  PROVE  Without(U, place, v, n + 1)
<1>. SUFFICES ASSUME NEW g \in U \cup {Root}, place[g] = Prefix(v, n + 1) PROVE FALSE
  BY Zenon DEF Without
<1>. DEFINE s == Prefix(v, n)
            i == v.idx[n + 1]
<1>1. s \in Seq(Index) /\ place[g] = Append(s, i)
  <2>1. n \in 0 .. 3
    OBVIOUS
  <2>. QED
    BY <2>1, PrefixIs, Zenon
<1>2. i \in Index
  <2>1. n + 1 \in 1 .. 4
    OBVIOUS
  <2>. QED
    BY <2>1, AddressFields, Zenon
<1>. HIDE DEF s, i
<1>3. place[g] # <<>>
  BY <1>1, <1>2, PathStep, Zenon
<1>4. g \in U
  BY <1>3, Zenon DEF Layout, PlacesOK
<1>5. PICK h \in Upper(U, place), j \in Index : m[h][j].present /\ m[h][j].page = g
  BY <1>4, Zenon DEF Layout, ParentsOK
<1>6. place[g] = Append(place[h], j)
  BY <1>5, Zenon DEF Layout, LinksOK
<1>7. h \in U \cup {Root} /\ place[h] \in Seq(Index)
  BY Zenon DEF Layout, PlacesOK, Upper
<1>8. s = place[h]
  BY <1>1, <1>2, <1>6, <1>7, PathParts, Zenon
<1>. QED
  BY <1>7, <1>8, Zenon DEF s, Without

\* If the path of an address ends early, the address has no lowest table.
LEMMA NoLowest ==
  ASSUME NEW m, NEW U, NEW place, Layout(m, U, place), NEW v \in VAddrs, NEW n \in 0 .. 3,
         Without(U, place, v, n)
  PROVE  Without(U, place, v, 3)
<1>1. ASSUME NEW k \in 0 .. 2, Without(U, place, v, k) PROVE Without(U, place, v, k + 1)
  BY <1>1, NoDeeper, Zenon
<1>. QED
  BY <1>1

\* Where a walk along v is after n levels of the tables m: at the table on the
\* path, or stopped because there is none.
WalkAt(w, m, U, place, v, n) ==
  /\ w.mem = m
  /\ w.rc \in {"OK", "NOT_FOUND", "INVAL"}
  /\ w.rc = "OK" => w.table \in U \cup {Root} /\ place[w.table] = Prefix(v, n)
  /\ w.rc # "OK" => Without(U, place, v, 3)

\* A walk is a record of these fields.
IsWalk(w) == w = [mem |-> w.mem, free |-> w.free, table |-> w.table, rc |-> w.rc]

WalkIs(w, m, fr, t, c) ==
  IsWalk(w) /\ w.mem = m /\ w.free = fr /\ w.table = t /\ w.rc = c

\* A walk goes on to the table in frame f.
Go(w, f) == [w EXCEPT !.table = f]

\* Stopping a walk.
LEMMA StopFields ==
  ASSUME NEW w, IsWalk(w), NEW c
  PROVE  WalkIs(Stop(w, c), w.mem, w.free, w.table, c)
<1>1. PICK m, fr, t, x : w = [mem |-> m, free |-> fr, table |-> t, rc |-> x]
  BY Zenon DEF IsWalk
<1>. QED
  BY <1>1 DEF Stop, IsWalk, WalkIs

\* Going on with a walk.
LEMMA GoFields ==
  ASSUME NEW w, IsWalk(w), NEW f
  PROVE  WalkIs(Go(w, f), w.mem, w.free, f, w.rc)
<1>1. PICK m, fr, t, x : w = [mem |-> m, free |-> fr, table |-> t, rc |-> x]
  BY Zenon DEF IsWalk
<1>. QED
  BY <1>1 DEF Go, IsWalk, WalkIs

\* One level of the walks of vmm_query_page and vmm_unmap_page.
LEMMA NextTableAt ==
  ASSUME NEW m, NEW U, NEW place, Layout(m, U, place), NEW v \in VAddrs, NEW n \in 0 .. 2,
         NEW w, IsWalk(w), WalkAt(w, m, U, place, v, n)
  PROVE  LET x == NextTable(w, v.idx[n + 1]) IN IsWalk(x) /\ WalkAt(x, m, U, place, v, n + 1)
<1>. DEFINE i == v.idx[n + 1]
            x == NextTable(w, i)
            e == m[w.table][i]
<1>1. CASE w.rc # "OK"
  <2>1. x = w
    BY <1>1, Zenon DEF NextTable
  <2>. QED
    BY <1>1, <2>1, Zenon DEF WalkAt
<1>2. CASE w.rc = "OK"
  <2>1. w.table \in U \cup {Root} /\ place[w.table] = Prefix(v, n) /\ w.mem = m
    BY <1>2, Zenon DEF WalkAt
  <2>2. i \in Index
    <3>1. n + 1 \in 1 .. 4
      OBVIOUS
    <3>. QED
      BY <3>1, AddressFields, Zenon
  <2>3. n \in 0 .. 3 /\ n + 1 \in 0 .. 3 /\ n < 3
    OBVIOUS
  <2>4. Len(Prefix(v, n)) = n /\ Prefix(v, n + 1) = Append(Prefix(v, n), i)
    BY <2>3, PrefixIs, Zenon
  <2>5. w.table \in Upper(U, place)
    BY <2>1, <2>3, <2>4, Zenon DEF Upper
  <2>. HIDE DEF i
  <2>6. CASE ~e.present
    <3>1. Without(U, place, v, n + 1)
      <4>1. ~m[w.table][i].present
        BY <2>6, Zenon
      <4>2. \A g \in U \cup {Root} : place[g] # Append(place[w.table], i)
        BY ONLY <2>2, <2>5, <4>1, Layout(m, U, place), NothingBehind, Zenon
      <4>. QED
        BY <2>1, <2>4, <4>2, Zenon DEF Without
    <3>2. Without(U, place, v, 3)
      BY ONLY <2>3, <3>1, Layout(m, U, place), v \in VAddrs, NoLowest, Zenon
    <3>3. x = Stop(w, "NOT_FOUND")
      BY <1>2, <2>1, <2>6, Zenon DEF NextTable
    <3>. HIDE DEF x
    <3>4. IsWalk(x) /\ x.mem = m /\ x.rc = "NOT_FOUND"
      <4>1. WalkIs(x, w.mem, w.free, w.table, "NOT_FOUND")
        BY <3>3, StopFields, Zenon
      <4>. QED
        BY <2>1, <4>1, Zenon DEF WalkIs
    <3>5. WalkAt(x, m, U, place, v, n + 1)
      BY <3>2, <3>4, Zenon DEF WalkAt
    <3>. QED
      BY <3>4, <3>5, Zenon DEF x, i
  <2>7. CASE e.present
    <3>1. ~e.huge /\ e.page \in U /\ place[e.page] = Append(place[w.table], i)
      BY <2>2, <2>5, <2>7, Zenon DEF Layout, LinksOK
    <3>2. e.page \notin Unmapped
      BY <3>1, Zenon DEF Layout
    <3>3. x = Go(w, e.page)
      BY <1>2, <2>1, <2>7, <3>1, <3>2, Zenon DEF NextTable, Go
    <3>. HIDE DEF x, e
    <3>4. IsWalk(x) /\ x.mem = m /\ x.rc = "OK" /\ x.table = e.page
      <4>1. w.mem = m
        BY <2>1, Zenon
      <4>2. WalkIs(x, w.mem, w.free, e.page, w.rc)
        BY <3>3, GoFields, Zenon
      <4>. QED
        BY <1>2, <4>1, <4>2, Zenon DEF WalkIs
    <3>5. WalkAt(x, m, U, place, v, n + 1)
      BY <2>1, <2>4, <3>1, <3>4, Zenon DEF WalkAt
    <3>. QED
      BY <3>4, <3>5, Zenon DEF x, i
  <2>. QED
    BY <2>6, <2>7, Zenon
<1>. QED
  BY <1>1, <1>2, Zenon

\* vmm_query_page and vmm_unmap_page get to the lowest table on the path of the
\* address, if there is one.
LEMMA ReachedAt ==
  ASSUME NEW U, NEW place, Layout(mem, U, place), NEW v \in VAddrs
  PROVE  WalkAt(Reached(v), mem, U, place, v, 3)
<1>. DEFINE w1 == NextTable(Walk, v.idx[1])
            w2 == NextTable(w1, v.idx[2])
<1>1. IsWalk(Walk) /\ WalkAt(Walk, mem, U, place, v, 0)
  <2>1. /\ Walk.mem = mem /\ Walk.free = free /\ Walk.table = Root
        /\ Walk.rc = "OK"
    BY DEF Walk
  <2>2. IsWalk(Walk)
    BY <2>1, Zenon DEF IsWalk, Walk
  <2>3. place[Root] = Prefix(v, 0)
    BY PrefixIs, Zenon DEF Layout, PlacesOK
  <2>. QED
    BY <2>1, <2>2, <2>3, Zenon DEF WalkAt
<1>2. 0 \in 0 .. 2 /\ 0 + 1 = 1 /\ 1 \in 0 .. 2 /\ 1 + 1 = 2 /\ 2 \in 0 .. 2 /\ 2 + 1 = 3
  OBVIOUS
<1>3. IsWalk(w1) /\ WalkAt(w1, mem, U, place, v, 1)
  BY <1>1, <1>2, NextTableAt, Zenon
<1>. HIDE DEF w1
<1>4. IsWalk(w2) /\ WalkAt(w2, mem, U, place, v, 2)
  BY <1>2, <1>3, NextTableAt, Zenon
<1>. HIDE DEF w2
<1>5. WalkAt(NextTable(w2, v.idx[3]), mem, U, place, v, 3)
  BY <1>2, <1>4, NextTableAt, Zenon
<1>. QED
  BY <1>5, Zenon DEF Reached, w1, w2

-----------------------------------------------------------------------------
(* Building tables.                                                        *)

\* The tables m2 are m with a cleared table in frame f, linked at index i of t.
LinkedAt(m2, m, f, t, i) ==
  /\ \A j \in Index : m2[f][j] = NoEntry
  /\ m2[t][i].present /\ ~m2[t][i].huge /\ m2[t][i].page = f
  /\ \A j \in Index \ {i} : m2[t][j] = m[t][j]
  /\ \A g \in (Pool \cup {Root}) \ {f, t} : m2[g] = m[g]

\* The place of the new table is one index below the place of t.
PlaceWith(place, U, f, t, i) ==
  [g \in U \cup {f, Root} |-> IF g = f THEN Append(place[t], i) ELSE place[g]]

\* A new table is on the tree, and the mappings are as before.
LEMMA LinkKeepsTree ==
  ASSUME NEW m, NEW m2, NEW U, NEW place, NEW ask, Tree(m, U, place, ask), Asked(ask),
         NEW t \in Upper(U, place), NEW i \in Index, ~m[t][i].present,
         NEW f \in Pool \ U, f \notin Unmapped, LinkedAt(m2, m, f, t, i)
  PROVE  Tree(m2, U \cup {f}, PlaceWith(place, U, f, t, i), ask)
<1>. DEFINE U2 == U \cup {f}
            p2 == PlaceWith(place, U, f, t, i)
<1>1. /\ U \in SUBSET Pool /\ U \cap Unmapped = {}
      /\ PlacesOK(U, place) /\ LinksOK(m, U, place) /\ ParentsOK(m, U, place)
  BY Zenon DEF Tree, Layout
<1>2. f # Root /\ f \notin U /\ t # f /\ t \in U \cup {Root} /\ Root \notin U
  BY <1>1, VmmAssumption, Zenon DEF Upper
<1>3. p2[f] = Append(place[t], i) /\ \A g \in U \cup {Root} : p2[g] = place[g]
  BY <1>2, Zenon DEF PlaceWith
<1>4. /\ place[t] \in Seq(Index) /\ Len(place[t]) < 3 /\ Len(place[t]) # 3
      /\ Len(place[t]) \in Nat
  <2>1. place[t] \in Seq(Index) /\ Len(place[t]) < 3
    BY <1>1, <1>2, Zenon DEF PlacesOK, Upper
  <2>2. Len(place[t]) \in Nat
    BY <2>1, PathStep, Zenon
  <2>3. \A n \in Nat : n < 3 => n # 3
    OBVIOUS
  <2>. QED
    BY <2>1, <2>2, <2>3, Zenon
<1>5. p2[f] \in Seq(Index) /\ Len(p2[f]) <= 3 /\ p2[f] # <<>>
  <2>1. p2[f] \in Seq(Index) /\ Len(p2[f]) = Len(place[t]) + 1 /\ p2[f] # <<>>
    BY <1>3, <1>4, PathStep, ZenonT(30)
  <2>. HIDE DEF p2
  <2>. QED
    BY <1>4, <2>1
<1>6. \A g \in U \cup {Root} : p2[g] # p2[f]
  <2>1. Layout(m, U, place)
    BY Zenon DEF Tree
  <2>2. \A g \in U \cup {Root} : place[g] # Append(place[t], i)
    BY ONLY <2>1, t \in Upper(U, place), i \in Index, ~m[t][i].present, NothingBehind, Zenon
  <2>. QED
    BY <1>3, <2>2, Zenon
<1>. HIDE DEF p2
<1>7. \A g \in U2 \cup {Root} : g = f \/ g \in U \cup {Root}
  BY Zenon
<1>8. PlacesOK(U2, p2)
  <2>1. ASSUME NEW g \in U2 \cup {Root}
        PROVE  /\ p2[g] \in Seq(Index) /\ Len(p2[g]) <= 3
               /\ p2[g] = <<>> <=> g = Root
    <3>1. CASE g = f
      BY <1>2, <1>5, <3>1, Zenon
    <3>2. CASE g \in U \cup {Root}
      BY <1>1, <1>3, <3>2, Zenon DEF PlacesOK
    <3>. QED
      BY <1>7, <3>1, <3>2, Zenon
  <2>2. ASSUME NEW g \in U2 \cup {Root}, NEW h \in U2 \cup {Root}, p2[g] = p2[h]
        PROVE  g = h
    <3>1. CASE g = f
      BY <1>6, <1>7, <2>2, <3>1, Zenon
    <3>2. CASE h = f
      BY <1>6, <1>7, <2>2, <3>2, Zenon
    <3>3. CASE g \in U \cup {Root} /\ h \in U \cup {Root}
      BY <1>1, <1>3, <2>2, <3>3, Zenon DEF PlacesOK
    <3>. QED
      BY <1>7, <3>1, <3>2, <3>3, Zenon
  <2>. QED
    BY <2>1, <2>2, Zenon DEF PlacesOK
<1>9. \A g \in Upper(U2, p2) : g = f \/ g \in Upper(U, place)
  BY <1>3, <1>7, Zenon DEF Upper
<1>10. Upper(U, place) \subseteq Upper(U2, p2) /\ Upper(U, place) \subseteq U \cup {Root}
  BY <1>3, Zenon DEF Upper
<1>11. \A j \in Index : ~m2[f][j].present
  <2>1. ~NoEntry.present
    BY DEF NoEntry
  <2>. QED
    BY <2>1, Zenon DEF LinkedAt
<1>12. \A h \in U \cup {Root}, j \in Index : m2[h][j] = m[h][j] \/ (h = t /\ j = i)
  <2>1. \A h \in U \cup {Root} : h \in Pool \cup {Root} /\ h # f
    BY <1>1, <1>2, Zenon
  <2>. QED
    BY <2>1, ZenonT(30) DEF LinkedAt
<1>13. LinksOK(m2, U2, p2)
  <2>1. ASSUME NEW h \in Upper(U2, p2), NEW j \in Index, m2[h][j].present
        PROVE  /\ ~m2[h][j].huge /\ m2[h][j].page \in U2
               /\ p2[m2[h][j].page] = Append(p2[h], j)
    <3>1. h \in Upper(U, place) /\ h \in U \cup {Root}
      BY <1>9, <1>10, <1>11, <2>1, Zenon
    <3>2. CASE h = t /\ j = i
      <4>1. p2[t] = place[t]
        BY <1>2, <1>3, Zenon
      <4>2. p2[f] = Append(p2[t], i)
        BY <1>3, <4>1, Zenon
      <4>3. m2[t][i].page = f /\ ~m2[t][i].huge
        BY Zenon DEF LinkedAt
      <4>. QED
        BY <3>2, <4>2, <4>3, Zenon
    <3>3. CASE m2[h][j] = m[h][j]
      <4>1. /\ ~m[h][j].huge /\ m[h][j].page \in U
            /\ place[m[h][j].page] = Append(place[h], j)
        BY <1>1, <2>1, <3>1, <3>3, Zenon DEF LinksOK
      <4>2. p2[h] = place[h] /\ p2[m[h][j].page] = place[m[h][j].page]
        BY <1>3, <3>1, <4>1, Zenon
      <4>. QED
        BY <3>3, <4>1, <4>2, Zenon
    <3>. QED
      BY <1>12, <3>1, <3>2, <3>3, Zenon
  <2>. QED
    BY <2>1, Zenon DEF LinksOK
<1>14. ParentsOK(m2, U2, p2)
  <2>1. ASSUME NEW g \in U2
        PROVE  \E h \in Upper(U2, p2), j \in Index : m2[h][j].present /\ m2[h][j].page = g
    <3>1. CASE g = f
      BY <1>10, <3>1, Zenon DEF LinkedAt
    <3>2. CASE g \in U
      <4>1. PICK h \in Upper(U, place), j \in Index : m[h][j].present /\ m[h][j].page = g
        BY <1>1, <3>2, Zenon DEF ParentsOK
      <4>2. m2[h][j] = m[h][j]
        BY <1>10, <1>12, <4>1, Zenon
      <4>. QED
        BY <1>10, <4>1, <4>2, Zenon
    <3>. QED
      BY <3>1, <3>2, Zenon
  <2>. QED
    BY <2>1, Zenon DEF ParentsOK
<1>15. Layout(m2, U2, p2)
  BY <1>1, <1>8, <1>13, <1>14, Zenon DEF Layout
<1>16. Mapped(m2, U2, p2, ask)
  <2>1. ASSUME NEW v \in DOMAIN ask
        PROVE  \E g \in U2 : p2[g] = Prefix(v, 3) /\ m2[g][v.idx[4]] = Leaf(ask[v])
    <3>1. PICK g \in U : place[g] = Prefix(v, 3) /\ m[g][v.idx[4]] = Leaf(ask[v])
      BY Zenon DEF Tree, Mapped
    <3>2. v \in VAddrs
      BY Zenon DEF Asked, Pages
    <3>3. v.idx[4] \in Index /\ Len(Prefix(v, 3)) = 3
      <4>1. 4 \in 1 .. 4 /\ 3 \in 0 .. 3
        OBVIOUS
      <4>. QED
        BY <3>2, <4>1, AddressFields, PrefixIs, ZenonT(30)
    <3>4. g # t
      BY <1>4, <3>1, <3>3, Zenon
    <3>5. m2[g][v.idx[4]] = m[g][v.idx[4]] /\ p2[g] = place[g]
      BY <1>3, <1>12, <3>3, <3>4, Zenon
    <3>. QED
      BY <3>1, <3>5, Zenon
  <2>. QED
    BY <2>1, Zenon DEF Mapped
<1>17. NoOther(m2, U2, p2, ask)
  <2>1. ASSUME NEW g \in U2, NEW j \in Index, Len(p2[g]) = 3, m2[g][j].present
        PROVE  \E v \in DOMAIN ask : Prefix(v, 3) = p2[g] /\ v.idx[4] = j
    <3>1. g \in U
      BY <1>11, <2>1, Zenon
    <3>2. p2[g] = place[g]
      BY <1>3, <3>1, Zenon
    <3>3. g # t
      BY <1>4, <2>1, <3>2, Zenon
    <3>4. m[g][j].present
      BY <1>12, <2>1, <3>1, <3>3, Zenon
    <3>. QED
      <4>1. NoOther(m, U, place, ask)
        BY Zenon DEF Tree
      <4>. QED
        BY ONLY <2>1, <3>1, <3>2, <3>4, <4>1 DEF NoOther
  <2>. QED
    BY ONLY <2>1 DEF NoOther
<1>. QED
  BY <1>15, <1>16, <1>17, Zenon DEF Tree, p2

\* A set of frames that is not empty has a lowest one.
LEMMA LowestFrame ==
  ASSUME NEW S \in SUBSET Nat, S # {}
  PROVE  \E x \in S : \A y \in S : x <= y
<1>. DEFINE less == {ss \in Nat \X Nat : ss[1] < ss[2]}
<1>1. IsWellFoundedOn(less, Nat)
  <2>1. less = OpToRel(<, Nat)
    BY Zenon DEF OpToRel
  <2>. QED
    BY Zenon, <2>1, NatLessThanWellFounded
<1>. HIDE DEF less
<1>2. PICK x \in S : \A y \in S : ~(<<y, x>> \in less)
  BY Zenon, <1>1, WFMin
<1>3. ASSUME NEW y \in S PROVE x <= y
  <2>1. x \in Nat /\ y \in Nat
    BY Zenon
  <2>2. y < x => <<y, x>> \in less
    BY <2>1, Zenon DEF less
  <2>. QED
    BY <1>2, <2>1, <2>2
<1>. QED
  BY <1>3, Zenon

\* The frame the allocator gives is one of its frames.
LEMMA AllocFrame ==
  ASSUME NEW fs \in SUBSET Pool, fs # {}
  PROVE  alloc_frame(fs) \in fs
<1>1. fs \in SUBSET Nat
  BY VmmAssumption
<1>2. \E f \in fs : \A g \in fs : f <= g
  BY <1>1, LowestFrame, Zenon
<1>. QED
  BY <1>2, Zenon DEF alloc_frame

\* The entry that links a table.
Link(f) == [present |-> TRUE, huge |-> FALSE, page |-> f, flags |-> {"W"}]

\* Entries have their type.
LEMMA EntriesTyped ==
  /\ NoEntry \in PageEntry /\ ~NoEntry.present
  /\ \A f \in Pool : Link(f) \in PageEntry /\ Link(f).present /\ ~Link(f).huge /\ Link(f).page = f
  /\ \A a \in Request : Leaf(a) \in PageEntry /\ Leaf(a).present
<1>1. NoEntry \in PageEntry /\ ~NoEntry.present
  BY VmmAssumption DEF NoEntry, PageEntry
<1>2. ASSUME NEW f \in Pool
      PROVE  Link(f) \in PageEntry /\ Link(f).present /\ ~Link(f).huge /\ Link(f).page = f
  <2>1. f \in 0 .. PhysPages - 1
    BY VmmAssumption, Zenon
  <2>2. {"W"} \in SUBSET (Settable \cup CpuFlags)
    BY Zenon DEF Settable
  <2>. QED
    BY <2>1, <2>2 DEF Link, PageEntry
<1>3. ASSUME NEW a \in Request
      PROVE  Leaf(a) \in PageEntry /\ Leaf(a).present
  <2>. a.page \in Nat /\ a.used \in SUBSET CpuFlags
    BY DEF Request
  <2>1. a.page % PhysPages \in 0 .. PhysPages - 1
    BY VmmAssumption
  <2>2. Allowed(a.flags) \cup a.used \in SUBSET (Settable \cup CpuFlags)
    BY Zenon DEF Allowed
  <2>. QED
    BY <2>1, <2>2 DEF Leaf, PageEntry
<1>. QED
  BY <1>1, <1>2, <1>3, Zenon

\* The tables m with entry e at index i of t.
PutEntry(m, t, i, e) == [m EXCEPT ![t][i] = e]

\* m2 is m but for entry i of t.
Written(m2, m, t, i, e) ==
  /\ m2[t][i] = e
  /\ \A j \in Index \ {i} : m2[t][j] = m[t][j]
  /\ \A g \in (Pool \cup {Root}) \ {t} : m2[g] = m[g]

\* Writing one entry.
LEMMA EntryWritten ==
  ASSUME NEW m \in Memory, NEW t \in Pool \cup {Root}, NEW i \in Index, NEW e \in PageEntry
  PROVE  PutEntry(m, t, i, e) \in Memory /\ Written(PutEntry(m, t, i, e), m, t, i, e)
<1>. DEFINE m2 == PutEntry(m, t, i, e)
<1>1. m \in [Pool \cup {Root} -> [Index -> PageEntry]]
  BY Zenon DEF Memory
<1>2. m2 = [m EXCEPT ![t] = [m[t] EXCEPT ![i] = e]]
  BY <1>1, Zenon DEF PutEntry
<1>. HIDE DEF m2
<1>3. m[t] \in [Index -> PageEntry]
  BY <1>1, Zenon
<1>. DEFINE r == [m[t] EXCEPT ![i] = e]
<1>4. r \in [Index -> PageEntry] /\ r[i] = e /\ \A j \in Index \ {i} : r[j] = m[t][j]
  BY <1>3, Zenon
<1>. HIDE DEF r
<1>5. m2 \in [Pool \cup {Root} -> [Index -> PageEntry]]
  BY <1>1, <1>2, <1>4, Zenon DEF r
<1>6. m2[t] = r /\ \A g \in (Pool \cup {Root}) \ {t} : m2[g] = m[g]
  BY <1>1, <1>2, Zenon DEF r
<1>. QED
  BY <1>4, <1>5, <1>6, Zenon DEF Memory, Written, m2

\* Clearing a frame and linking it.
LEMMA FrameLinked ==
  ASSUME NEW m \in Memory, NEW t \in Pool \cup {Root}, NEW i \in Index, NEW f \in Pool, f # t,
         NEW m2, m2 = [vmm_zero_page(m, f) EXCEPT ![t][i] = Link(f)]
  PROVE  m2 \in Memory /\ LinkedAt(m2, m, f, t, i)
<1>. DEFINE z == vmm_zero_page(m, f)
<1>1. m \in [Pool \cup {Root} -> [Index -> PageEntry]]
  BY Zenon DEF Memory
<1>2. Table(NoEntry) \in [Index -> PageEntry] /\ \A j \in Index : Table(NoEntry)[j] = NoEntry
  BY EntriesTyped, Zenon DEF Table
<1>3. /\ z \in [Pool \cup {Root} -> [Index -> PageEntry]] /\ z[f] = Table(NoEntry)
      /\ \A g \in (Pool \cup {Root}) \ {f} : z[g] = m[g]
  BY <1>1, <1>2, Zenon DEF vmm_zero_page
<1>. HIDE DEF z
<1>4. m2 = PutEntry(z, t, i, Link(f)) /\ z \in Memory
  BY <1>3, Zenon DEF z, Memory, PutEntry
<1>5. Link(f) \in PageEntry /\ Link(f).present /\ ~Link(f).huge /\ Link(f).page = f
  BY EntriesTyped, Zenon
<1>6. /\ m2 \in Memory /\ m2[t][i] = Link(f)
      /\ \A j \in Index \ {i} : m2[t][j] = z[t][j]
      /\ \A g \in (Pool \cup {Root}) \ {t} : m2[g] = z[g]
  <2>. DEFINE e == Link(f)
  <2>1. z \in Memory /\ e \in PageEntry
    BY <1>4, <1>5, Zenon
  <2>. HIDE DEF e
  <2>2. PutEntry(z, t, i, e) \in Memory /\ Written(PutEntry(z, t, i, e), z, t, i, e)
    BY <2>1, EntryWritten, Zenon
  <2>3. m2 \in Memory /\ Written(m2, z, t, i, e)
    BY <1>4, <2>2, Zenon DEF e
  <2>. QED
    BY <2>3, Zenon DEF Written, e
<1>7. m2[f] = Table(NoEntry)
  BY <1>3, <1>6, Zenon
<1>8. z[t] = m[t]
  BY <1>3, Zenon
<1>9. \A g \in (Pool \cup {Root}) \ {f, t} : m2[g] = m[g]
  BY <1>3, <1>6, Zenon
<1>. QED
  BY <1>2, <1>5, <1>6, <1>7, <1>8, <1>9, ZenonT(30) DEF LinkedAt

\* The tables when the allocator has the frames fr.
TablesWith(fr) == (Pool \ Unmapped) \ (fr \cup others)

\* Where vmm_map_page is after n levels: the tree has the mappings it had.
BuildAt(w, v, n, place) ==
  /\ IsWalk(w) /\ w.mem \in Memory /\ w.free \in SUBSET Pool /\ w.free \cap others = {}
  /\ Returned(w.free)
  /\ Tree(w.mem, TablesWith(w.free), place, asked)
  /\ w.rc \in {"OK", "NOMEM", "INVAL", "EXISTS"}
  /\ w.rc = "OK" => /\ w.table \in TablesWith(w.free) \cup {Root}
                    /\ place[w.table] = Prefix(v, n)

CanBuild(w, v, n) == \E place : BuildAt(w, v, n, place)

\* A walk that has linked the table in frame f goes on to it.
GoNew(w, m, f) == [w EXCEPT !.mem = m, !.free = @ \ {f}, !.table = f]

\* A walk that links a table in frame f.
LEMMA LinkFields ==
  ASSUME NEW w, IsWalk(w), NEW m, NEW f
  PROVE  WalkIs(GoNew(w, m, f), m, w.free \ {f}, f, w.rc)
<1>1. PICK m1, fr, t, c : w = [mem |-> m1, free |-> fr, table |-> t, rc |-> c]
  BY Zenon DEF IsWalk
<1>. DEFINE rest == w.free \ {f}
<1>2. GoNew(w, m, f) = [w EXCEPT !.mem = m, !.free = rest, !.table = f]
  BY Zenon DEF GoNew
<1>. HIDE DEF rest
<1>3. GoNew(w, m, f) = [mem |-> m, free |-> rest, table |-> f, rc |-> c]
  BY <1>1, <1>2, Zenon
<1>4. WalkIs(GoNew(w, m, f), m, rest, f, w.rc)
  BY <1>1, <1>3 DEF IsWalk, WalkIs
<1>. QED
  BY <1>4, Zenon DEF rest

\* A walk that stops leaves the tree alone.
LEMMA BuildStops ==
  ASSUME NEW w, NEW v, NEW n, NEW k, NEW place, BuildAt(w, v, n, place),
         NEW c \in {"NOMEM", "INVAL", "EXISTS"}
  PROVE  BuildAt(Stop(w, c), v, k, place)
<1>. DEFINE x == Stop(w, c)
<1>1. IsWalk(x) /\ x.mem = w.mem /\ x.free = w.free /\ x.rc = c
  <2>1. IsWalk(w)
    BY Zenon DEF BuildAt
  <2>2. WalkIs(x, w.mem, w.free, w.table, c)
    BY <2>1, StopFields, Zenon
  <2>. QED
    BY <2>2, Zenon DEF WalkIs
<1>2. c # "OK" /\ c \in {"OK", "NOMEM", "INVAL", "EXISTS"}
  OBVIOUS
<1>. HIDE DEF x
<1>3. BuildAt(x, v, k, place)
  BY <1>1, <1>2, Zenon DEF BuildAt
<1>. QED
  BY <1>3, Zenon DEF x

\* A walk that loses a frame without an address leaves the tree alone, too.
LEMMA BuildForgets ==
  ASSUME NEW w, NEW v, NEW n, NEW k, NEW place, BuildAt(w, v, n, place),
         NEW f \in Unmapped, ~free_frame
  PROVE  BuildAt(ForgetFrame(w, f), v, k, place)
<1>. DEFINE x == ForgetFrame(w, f)
            rest == w.free \ {f}
<1>1. IsWalk(x) /\ x.mem = w.mem /\ x.free = rest /\ x.rc = "INVAL"
  <2>1. PICK m, fr, t, c : w = [mem |-> m, free |-> fr, table |-> t, rc |-> c]
    BY Zenon DEF BuildAt, IsWalk
  <2>2. x = [w EXCEPT !.free = rest, !.rc = "INVAL"]
    BY Zenon DEF ForgetFrame
  <2>. HIDE DEF rest, x
  <2>3. x = [mem |-> m, free |-> rest, table |-> t, rc |-> "INVAL"]
    BY <2>1, <2>2, Zenon
  <2>. QED
    BY <2>1, <2>3 DEF IsWalk
<1>2. TablesWith(rest) = TablesWith(w.free)
  BY Zenon DEF TablesWith
<1>3. rest \in SUBSET Pool /\ rest \cap others = {} /\ Returned(rest)
  BY Zenon DEF BuildAt, Returned
<1>4. "INVAL" # "OK"
  OBVIOUS
<1>. HIDE DEF x, rest
<1>5. BuildAt(x, v, k, place)
  BY <1>1, <1>2, <1>3, <1>4, Zenon DEF BuildAt
<1>. QED
  BY <1>5, Zenon DEF x

\* Lines 40-51 of get_or_alloc_next_table.
LEMMA NewTableStep ==
  ASSUME NEW v \in VAddrs, NEW n \in 0 .. 2, NEW w, NEW place, BuildAt(w, v, n, place),
         Asked(asked), w.rc = "OK", NEW i, i = v.idx[n + 1], ~w.mem[w.table][i].present
  PROVE  CanBuild(NewTable(w, i), v, n + 1)
<1>. DEFINE f == alloc_frame(w.free)
            x == NewTable(w, i)
            U == TablesWith(w.free)
            t == w.table
<1>1. CASE w.free = {}
  <2>1. x = Stop(w, "NOMEM")
    BY <1>1, Zenon DEF NewTable
  <2>. QED
    BY <2>1, BuildStops, Zenon DEF CanBuild
<1>2. CASE w.free # {} /\ f \in Unmapped
  <2>1. CASE free_frame
    <3>1. x = Stop(w, "INVAL")
      BY <1>2, <2>1, Zenon DEF NewTable, GiveBack
    <3>. QED
      BY <3>1, BuildStops, Zenon DEF CanBuild
  <2>2. CASE ~free_frame
    <3>1. x = ForgetFrame(w, f)
      BY <1>2, <2>2, Zenon DEF NewTable, GiveBack
    <3>. QED
      BY <1>2, <2>2, <3>1, BuildForgets, Zenon DEF CanBuild
  <2>. QED
    BY <2>1, <2>2, Zenon
<1>3. CASE w.free # {} /\ f \notin Unmapped
  <2>1. /\ IsWalk(w) /\ w.mem \in Memory /\ w.free \in SUBSET Pool /\ w.free \cap others = {}
        /\ Tree(w.mem, U, place, asked) /\ Returned(w.free)
        /\ t \in U \cup {Root} /\ place[t] = Prefix(v, n)
    BY Zenon DEF BuildAt
  <2>2. f \in w.free
    BY <1>3, <2>1, AllocFrame, Zenon
  <2>. DEFINE m2 == [vmm_zero_page(w.mem, f) EXCEPT ![t][i] = Link(f)]
  <2>3. x = GoNew(w, m2, f)
    <3>1. x = [w EXCEPT
               !.mem = [vmm_zero_page(@, f) EXCEPT ![w.table][i] =
                          [present |-> TRUE, huge |-> FALSE, page |-> f, flags |-> {"W"}]],
               !.free = @ \ {f},
               !.table = f]
      BY <1>3, ZenonT(30) DEF NewTable
    <3>. QED
      BY <3>1, Zenon DEF Link, GoNew
  <2>. HIDE DEF x, f
  <2>4. m2 = [vmm_zero_page(w.mem, f) EXCEPT ![w.table][i] = Link(f)]
    OBVIOUS
  <2>. HIDE DEF m2
  <2>5. IsWalk(x) /\ x.mem = m2 /\ x.free = w.free \ {f} /\ x.table = f /\ x.rc = "OK"
    <3>1. IsWalk(w)
      BY <2>1, Zenon
    <3>2. WalkIs(x, m2, w.free \ {f}, f, w.rc)
      BY <2>3, <3>1, LinkFields, ZenonT(30)
    <3>. QED
      BY <3>2, Zenon DEF WalkIs
  <2>6. n + 1 \in 1 .. 4 /\ n \in 0 .. 3 /\ n < 3
    OBVIOUS
  <2>7. i \in Index /\ Len(place[t]) < 3 /\ Prefix(v, n + 1) = Append(place[t], i)
    BY <2>1, <2>6, AddressFields, PrefixIs, Zenon
  <2>8. t \in Upper(U, place)
    BY <2>1, <2>7, Zenon DEF Upper
  <2>9. f \in Pool \ U /\ f \in Pool /\ f # Root /\ Root \notin U /\ U \subseteq Pool
    BY <2>1, <2>2, VmmAssumption, Zenon DEF TablesWith
  <2>10. f # t /\ t \in Pool \cup {Root}
    BY <2>1, <2>9, Zenon
  <2>11. m2 \in Memory /\ LinkedAt(m2, w.mem, f, t, i)
    BY <2>1, <2>4, <2>7, <2>9, <2>10, FrameLinked, Zenon
  <2>12. TablesWith(x.free) = U \cup {f}
    <3>1. f \in Pool /\ f \notin Unmapped /\ f \notin others
      BY <1>3, <2>1, <2>2, Zenon DEF f
    <3>. QED
      BY <2>2, <2>5, <3>1, Zenon DEF TablesWith
  <2>. DEFINE p2 == PlaceWith(place, U, f, t, i)
  <2>13. p2[f] = Prefix(v, n + 1)
    BY <2>7, Zenon DEF PlaceWith
  <2>14. Tree(m2, U \cup {f}, p2, asked)
    <3>1. f \notin Unmapped
      BY <1>3, Zenon DEF f
    <3>. QED
      BY <2>1, <2>7, <2>8, <2>9, <2>11, <3>1, LinkKeepsTree, ZenonT(30)
  <2>. HIDE DEF p2
  <2>15. x.free \in SUBSET Pool /\ x.free \cap others = {} /\ Returned(x.free)
    <3>1. f \notin Unmapped
      BY <1>3, Zenon DEF f
    <3>. QED
      BY <2>1, <2>5, <3>1, Zenon DEF Returned
  <2>16. BuildAt(x, v, n + 1, p2)
    <3>1. x.rc \in {"OK", "NOMEM", "INVAL", "EXISTS"}
      BY <2>5, Zenon
    <3>2. x.table \in TablesWith(x.free) \cup {Root} /\ p2[x.table] = Prefix(v, n + 1)
      BY <2>5, <2>12, <2>13, Zenon
    <3>3. Tree(x.mem, TablesWith(x.free), p2, asked)
      BY <2>5, <2>12, <2>14, Zenon
    <3>. QED
      BY <2>5, <2>11, <2>15, <3>1, <3>2, <3>3, ZenonT(30) DEF BuildAt
  <2>. QED
    BY <2>16, Zenon DEF x, CanBuild
<1>. QED
  BY <1>1, <1>2, <1>3, Zenon

\* One level of vmm_map_page.
LEMMA BuildStep ==
  ASSUME NEW v \in VAddrs, NEW n \in 0 .. 2, NEW w, CanBuild(w, v, n), Asked(asked)
  PROVE  CanBuild(get_or_alloc_next_table(w, v.idx[n + 1]), v, n + 1)
<1>. DEFINE i == v.idx[n + 1]
            x == get_or_alloc_next_table(w, i)
            e == w.mem[w.table][i]
            U == TablesWith(w.free)
<1>. PICK place : BuildAt(w, v, n, place)
  BY Zenon DEF CanBuild
<1>1. CASE w.rc # "OK"
  <2>1. x = w
    BY <1>1, Zenon DEF get_or_alloc_next_table
  <2>2. BuildAt(w, v, n + 1, place)
    BY <1>1, Zenon DEF BuildAt
  <2>. QED
    BY <2>1, <2>2, Zenon DEF CanBuild
<1>2. CASE w.rc = "OK" /\ ~e.present
  <2>1. x = NewTable(w, i)
    BY <1>2, Zenon DEF get_or_alloc_next_table
  <2>. QED
    BY <1>2, <2>1, NewTableStep, Zenon
<1>3. CASE w.rc = "OK" /\ e.present
  <2>1. /\ IsWalk(w) /\ w.mem \in Memory /\ w.free \in SUBSET Pool /\ w.free \cap others = {}
        /\ Tree(w.mem, U, place, asked) /\ Returned(w.free)
        /\ w.table \in U \cup {Root} /\ place[w.table] = Prefix(v, n)
    BY <1>3, Zenon DEF BuildAt
  <2>2. n + 1 \in 1 .. 4 /\ n \in 0 .. 3 /\ n < 3
    OBVIOUS
  <2>3. i \in Index /\ Len(place[w.table]) < 3 /\ Prefix(v, n + 1) = Append(place[w.table], i)
    BY <2>1, <2>2, AddressFields, PrefixIs, Zenon
  <2>4. w.table \in Upper(U, place)
    BY <2>1, <2>3, Zenon DEF Upper
  <2>5. ~e.huge /\ e.page \in U /\ place[e.page] = Append(place[w.table], i) /\ e.page \notin Unmapped
    BY <1>3, <2>1, <2>3, <2>4, Zenon DEF Tree, Layout, LinksOK
  <2>6. x = Go(w, e.page)
    BY <1>3, <2>5, Zenon DEF get_or_alloc_next_table, Go
  <2>. HIDE DEF x, e
  <2>7. IsWalk(x) /\ x.mem = w.mem /\ x.free = w.free /\ x.table = e.page /\ x.rc = w.rc
    <3>1. IsWalk(w)
      BY <2>1, Zenon
    <3>2. WalkIs(x, w.mem, w.free, e.page, w.rc)
      BY <2>6, <3>1, GoFields, Zenon
    <3>. QED
      BY <3>2, Zenon DEF WalkIs
  <2>8. BuildAt(x, v, n + 1, place)
    <3>1. x.rc \in {"OK", "NOMEM", "INVAL", "EXISTS"}
      BY <1>3, <2>7, Zenon
    <3>2. x.table \in TablesWith(x.free) \cup {Root} /\ place[x.table] = Prefix(v, n + 1)
      BY <2>3, <2>5, <2>7, Zenon
    <3>3. Tree(x.mem, TablesWith(x.free), place, asked)
      BY <2>1, <2>7, Zenon
    <3>. QED
      BY <2>1, <2>7, <3>1, <3>2, <3>3, Zenon DEF BuildAt
  <2>. QED
    BY <2>8, Zenon DEF x, CanBuild
<1>. QED
  BY <1>1, <1>2, <1>3, Zenon

\* vmm_map_page gets to a lowest table on the path of the address, or stops; the
\* tree it leaves has the mappings it had.
LEMMA BuiltAt ==
  ASSUME VmmInv, NEW v \in VAddrs
  PROVE  CanBuild(Built(v), v, 3)
<1>. DEFINE w1 == get_or_alloc_next_table(Walk, v.idx[1])
            w2 == get_or_alloc_next_table(w1, v.idx[2])
            w3 == get_or_alloc_next_table(w2, v.idx[3])
<1>1. PICK place : Tree(mem, Used, place, asked)
  BY Zenon DEF VmmInv
<1>2. CanBuild(Walk, v, 0)
  <2>1. /\ Walk.mem = mem /\ Walk.free = free /\ Walk.table = Root
        /\ Walk.rc = "OK"
    BY DEF Walk
  <2>2. IsWalk(Walk)
    BY <2>1, Zenon DEF IsWalk, Walk
  <2>3. place[Root] = Prefix(v, 0)
    BY <1>1, PrefixIs, Zenon DEF Tree, Layout, PlacesOK
  <2>4. mem \in Memory /\ free \in SUBSET Pool /\ free \cap others = {} /\ Returned(free)
    BY Zenon DEF VmmInv, TypeOK, Memory, PageEntry
  <2>5. Used = TablesWith(free)
    BY Zenon DEF Used, TablesWith
  <2>. QED
    BY <1>1, <2>1, <2>2, <2>3, <2>4, <2>5, Zenon DEF BuildAt, CanBuild
<1>3. Asked(asked)
  BY Zenon DEF VmmInv
<1>4. 0 \in 0 .. 2 /\ 0 + 1 = 1 /\ 1 \in 0 .. 2 /\ 1 + 1 = 2 /\ 2 \in 0 .. 2 /\ 2 + 1 = 3
  OBVIOUS
<1>5. CanBuild(w1, v, 1)
  BY <1>2, <1>3, <1>4, BuildStep, Zenon
<1>. HIDE DEF w1
<1>6. CanBuild(w2, v, 2)
  BY <1>3, <1>4, <1>5, BuildStep, Zenon
<1>. HIDE DEF w2
<1>7. CanBuild(w3, v, 3)
  BY <1>3, <1>4, <1>6, BuildStep, Zenon
<1>. QED
  BY <1>7, Zenon DEF Built, w1, w2

-----------------------------------------------------------------------------
(* The lowest tables.                                                      *)

\* The entry of page v is in table t, which is of the lowest level.
AtLowest(U, place, v, t) ==
  /\ t \in U /\ t \in Pool /\ t \notin Upper(U, place) /\ v.idx[4] \in Index
  /\ Len(place[t]) = 3

\* The table of a page is not one of the upper levels.
LEMMA LowestTable ==
  ASSUME NEW m, NEW U, NEW place, Layout(m, U, place), NEW v \in VAddrs,
         NEW t \in U \cup {Root}, place[t] = Prefix(v, 3)
  PROVE  AtLowest(U, place, v, t)
<1>1. 4 \in 1 .. 4 /\ 3 \in 0 .. 3 /\ ~(3 < 3) /\ 3 # 0
  OBVIOUS
<1>2. v.idx[4] \in Index /\ Len(place[t]) = 3 /\ Prefix(v, 0) = <<>> /\ Len(Prefix(v, 0)) = 0
  BY <1>1, AddressFields, PrefixIs, SMTT(30)
<1>3. place[t] # <<>>
  BY <1>1, <1>2, Zenon
<1>4. t \in U
  BY <1>3, Zenon DEF Layout, PlacesOK
<1>. QED
  BY <1>1, <1>2, <1>4, Zenon DEF Layout, Upper, AtLowest

\* A write to a lowest table leaves the tree of tables alone.
LEMMA LowestWrite ==
  ASSUME NEW m, NEW U, NEW place, Layout(m, U, place), NEW t \in U, t \notin Upper(U, place),
         NEW m2, NEW i, NEW e, Written(m2, m, t, i, e)
  PROVE  Layout(m2, U, place)
<1>1. \A f \in Upper(U, place) : m2[f] = m[f]
  BY Zenon DEF Written, Upper, Layout
<1>2. LinksOK(m2, U, place)
  <2>1. ASSUME NEW f \in Upper(U, place), NEW j \in Index, m2[f][j].present
        PROVE  /\ ~m2[f][j].huge /\ m2[f][j].page \in U
               /\ place[m2[f][j].page] = Append(place[f], j)
    <3>1. m2[f] = m[f]
      BY <1>1, Zenon
    <3>. QED
      BY <2>1, <3>1, Zenon DEF Layout, LinksOK
  <2>. QED
    BY <2>1, Zenon DEF LinksOK
<1>3. ParentsOK(m2, U, place)
  <2>1. ASSUME NEW g \in U
        PROVE  \E f \in Upper(U, place), j \in Index : m2[f][j].present /\ m2[f][j].page = g
    <3>1. PICK f \in Upper(U, place), j \in Index : m[f][j].present /\ m[f][j].page = g
      BY Zenon DEF Layout, ParentsOK
    <3>2. m2[f] = m[f]
      BY <1>1, Zenon
    <3>. QED
      BY <3>1, <3>2, Zenon
  <2>. QED
    BY <2>1, Zenon DEF ParentsOK
<1>. QED
  BY <1>2, <1>3, Zenon DEF Layout

\* The mappings asked for, with a new one.
AskedWith(ask, v, a) == [u \in DOMAIN ask \cup {v} |-> IF u = v THEN a ELSE ask[u]]

\* A mapping in a lowest table.
LEMMA LeafAdded ==
  ASSUME NEW m, NEW U, NEW place, NEW ask, Tree(m, U, place, ask), Asked(ask),
         NEW v \in Pages, NEW t \in U \cup {Root}, place[t] = Prefix(v, 3),
         NEW a, NEW m2, Written(m2, m, t, v.idx[4], Leaf(a))
  PROVE  Tree(m2, U, place, AskedWith(ask, v, a))
<1>. DEFINE k2 == AskedWith(ask, v, a)
            i == v.idx[4]
<1>1. Layout(m, U, place) /\ Mapped(m, U, place, ask) /\ NoOther(m, U, place, ask)
  BY Zenon DEF Tree
<1>2. v \in VAddrs
  BY Zenon DEF Pages
<1>3. t \in U /\ t \in Pool /\ t \notin Upper(U, place) /\ i \in Index /\ Len(place[t]) = 3
  <2>1. AtLowest(U, place, v, t)
    BY <1>1, <1>2, LowestTable, Zenon
  <2>. QED
    BY <2>1, Zenon DEF AtLowest
<1>4. Layout(m2, U, place)
  BY <1>1, <1>3, LowestWrite, Zenon
<1>5. /\ m2[t][i] = Leaf(a)
      /\ \A f \in U, j \in Index : m2[f][j] = m[f][j] \/ (f = t /\ j = i)
  BY <1>1, Zenon DEF Written, Layout
<1>6. DOMAIN k2 = DOMAIN ask \cup {v} /\ k2[v] = a /\ \A u \in DOMAIN ask \ {v} : k2[u] = ask[u]
  BY Zenon DEF AskedWith
<1>. HIDE DEF k2
<1>7. Mapped(m2, U, place, k2)
  <2>1. ASSUME NEW u \in DOMAIN k2
        PROVE  \E f \in U : place[f] = Prefix(u, 3) /\ m2[f][u.idx[4]] = Leaf(k2[u])
    <3>1. CASE u = v
      BY <1>3, <1>5, <1>6, <3>1, Zenon
    <3>2. CASE u # v
      <4>1. u \in DOMAIN ask /\ u \in Pages /\ u \in VAddrs /\ k2[u] = ask[u]
        BY <1>6, <3>2, Zenon DEF Asked, Pages
      <4>2. PICK f \in U : place[f] = Prefix(u, 3) /\ m[f][u.idx[4]] = Leaf(ask[u])
        BY <1>1, <4>1, Zenon DEF Mapped
      <4>3. u.idx[4] \in Index
        <5>1. 4 \in 1 .. 4
          OBVIOUS
        <5>. QED
          BY <4>1, <5>1, AddressFields, Zenon
      <4>4. ~(f = t /\ u.idx[4] = i)
        BY <3>2, <4>1, <4>2, SamePage, Zenon
      <4>5. m2[f][u.idx[4]] = m[f][u.idx[4]]
        BY <1>5, <4>3, <4>4, Zenon
      <4>. QED
        BY <4>1, <4>2, <4>5, Zenon
    <3>. QED
      BY <3>1, <3>2, Zenon
  <2>. QED
    BY <2>1, Zenon DEF Mapped
<1>8. NoOther(m2, U, place, k2)
  <2>1. ASSUME NEW f \in U, NEW j \in Index, Len(place[f]) = 3, m2[f][j].present
        PROVE  \E u \in DOMAIN k2 : Prefix(u, 3) = place[f] /\ u.idx[4] = j
    <3>1. CASE f = t /\ j = i
      BY <1>6, <3>1, Zenon
    <3>2. CASE m2[f][j] = m[f][j]
      <4>1. \E u \in DOMAIN ask : Prefix(u, 3) = place[f] /\ u.idx[4] = j
        BY ONLY <1>1, <2>1, <3>2, SMTT(30) DEF NoOther
      <4>. QED
        BY <1>6, <4>1, Zenon
    <3>. QED
      BY <1>5, <3>1, <3>2, Zenon
  <2>. QED
    BY ONLY <2>1 DEF NoOther
<1>. QED
  BY <1>4, <1>7, <1>8, Zenon DEF Tree, k2

\* The mappings asked for, without one.
AskedWithout(ask, v) == [u \in DOMAIN ask \ {v} |-> ask[u]]

\* A mapping removed from a lowest table.
LEMMA LeafRemoved ==
  ASSUME NEW m, NEW U, NEW place, NEW ask, Tree(m, U, place, ask), Asked(ask),
         NEW v \in Pages, NEW t \in U \cup {Root}, place[t] = Prefix(v, 3),
         NEW m2, Written(m2, m, t, v.idx[4], NoEntry)
  PROVE  Tree(m2, U, place, AskedWithout(ask, v))
<1>. DEFINE k2 == AskedWithout(ask, v)
            i == v.idx[4]
<1>1. Layout(m, U, place) /\ Mapped(m, U, place, ask) /\ NoOther(m, U, place, ask)
  BY Zenon DEF Tree
<1>2. v \in VAddrs
  BY Zenon DEF Pages
<1>3. t \in U /\ t \in Pool /\ t \notin Upper(U, place) /\ i \in Index /\ Len(place[t]) = 3
  <2>1. AtLowest(U, place, v, t)
    BY <1>1, <1>2, LowestTable, Zenon
  <2>. QED
    BY <2>1, Zenon DEF AtLowest
<1>4. Layout(m2, U, place)
  BY <1>1, <1>3, LowestWrite, Zenon
<1>5. /\ ~m2[t][i].present
      /\ \A f \in U, j \in Index : m2[f][j] = m[f][j] \/ (f = t /\ j = i)
  BY <1>1, EntriesTyped, ZenonT(30) DEF Written, Layout
<1>6. DOMAIN k2 = DOMAIN ask \ {v} /\ \A u \in DOMAIN k2 : k2[u] = ask[u]
  BY Zenon DEF AskedWithout
<1>. HIDE DEF k2
<1>7. Mapped(m2, U, place, k2)
  <2>1. ASSUME NEW u \in DOMAIN k2
        PROVE  \E f \in U : place[f] = Prefix(u, 3) /\ m2[f][u.idx[4]] = Leaf(k2[u])
    <3>1. u \in DOMAIN ask /\ u \in Pages /\ u \in VAddrs /\ k2[u] = ask[u] /\ u # v
      BY <1>6, Zenon DEF Asked, Pages
    <3>2. PICK f \in U : place[f] = Prefix(u, 3) /\ m[f][u.idx[4]] = Leaf(ask[u])
      BY <1>1, <3>1, Zenon DEF Mapped
    <3>3. u.idx[4] \in Index
      <4>1. 4 \in 1 .. 4
        OBVIOUS
      <4>. QED
        BY <3>1, <4>1, AddressFields, ZenonT(30)
    <3>4. ~(f = t /\ u.idx[4] = i)
      BY <3>1, <3>2, SamePage, Zenon
    <3>5. m2[f][u.idx[4]] = m[f][u.idx[4]]
      BY <1>5, <3>3, <3>4, Zenon
    <3>. QED
      BY <3>1, <3>2, <3>5, Zenon
  <2>. QED
    BY <2>1, Zenon DEF Mapped
<1>8. NoOther(m2, U, place, k2)
  <2>1. ASSUME NEW f \in U, NEW j \in Index, Len(place[f]) = 3, m2[f][j].present
        PROVE  \E u \in DOMAIN k2 : Prefix(u, 3) = place[f] /\ u.idx[4] = j
    <3>1. ~(f = t /\ j = i) /\ m2[f][j] = m[f][j]
      BY <1>5, <2>1, Zenon
    <3>2. PICK u \in DOMAIN ask : Prefix(u, 3) = place[f] /\ u.idx[4] = j
      BY ONLY <1>1, <2>1, <3>1, SMTT(30) DEF NoOther
    <3>3. u # v
      <4>1. u = v => place[f] = place[t] /\ j = i
        BY <3>2, Zenon
      <4>2. place[f] = place[t] => f = t
        BY <1>1, Zenon DEF Layout, PlacesOK
      <4>. QED
        BY <3>1, <4>1, <4>2, Zenon
    <3>. QED
      BY <1>6, <3>2, <3>3, Zenon
  <2>. QED
    BY ONLY <2>1 DEF NoOther
<1>. QED
  BY <1>4, <1>7, <1>8, Zenon DEF Tree, k2

\* What vmm_query_page and the CPU find: the entry of a page that is mapped, and
\* no entry for another page.
LEMMA TranslationIs ==
  ASSUME VmmInv, NEW v \in Pages
  PROVE  /\ v \in DOMAIN asked => Reached(v).rc = "OK" /\ Translation(v) = Leaf(asked[v])
         /\ v \notin DOMAIN asked => ~Translation(v).present
<1>. DEFINE w == Reached(v)
            U == Used
<1>1. PICK place : Tree(mem, U, place, asked)
  BY Zenon DEF VmmInv
<1>2. /\ Layout(mem, U, place) /\ Mapped(mem, U, place, asked)
      /\ NoOther(mem, U, place, asked) /\ v \in VAddrs /\ Asked(asked)
  BY <1>1, Zenon DEF Tree, Pages, VmmInv
<1>3. WalkAt(w, mem, U, place, v, 3)
  BY <1>2, ReachedAt, Zenon
<1>4. Translation(v) = IF w.rc = "OK" THEN mem[w.table][v.idx[4]] ELSE NoEntry
  BY Zenon DEF Translation
<1>. HIDE DEF w
<1>5. ASSUME v \in DOMAIN asked PROVE w.rc = "OK" /\ Translation(v) = Leaf(asked[v])
  <2>1. PICK f \in U : place[f] = Prefix(v, 3) /\ mem[f][v.idx[4]] = Leaf(asked[v])
    BY <1>2, <1>5, Zenon DEF Mapped
  <2>2. w.rc = "OK"
    BY <1>3, <2>1, Zenon DEF WalkAt, Without
  <2>3. w.table = f
    BY <1>2, <1>3, <2>1, <2>2, Zenon DEF WalkAt, Layout, PlacesOK
  <2>. QED
    BY <1>4, <2>1, <2>2, <2>3, Zenon
<1>6. ASSUME v \notin DOMAIN asked, Translation(v).present PROVE FALSE
  <2>1. w.rc = "OK"
    BY <1>4, <1>6, EntriesTyped, Zenon
  <2>2. mem[w.table][v.idx[4]].present
    BY <1>4, <1>6, <2>1, Zenon
  <2>3. w.table \in U \cup {Root} /\ place[w.table] = Prefix(v, 3)
    BY <1>3, <2>1, Zenon DEF WalkAt
  <2>4. w.table \in U /\ v.idx[4] \in Index /\ Len(place[w.table]) = 3
    <3>1. AtLowest(U, place, v, w.table)
      BY <1>2, <2>3, LowestTable, ZenonT(30)
    <3>. QED
      BY <3>1, Zenon DEF AtLowest
  <2>5. PICK u \in DOMAIN asked : Prefix(u, 3) = place[w.table] /\ u.idx[4] = v.idx[4]
    BY ONLY <1>2, <2>2, <2>4, SMTT(30) DEF NoOther
  <2>6. u \in Pages
    BY <1>2, Zenon DEF Asked
  <2>7. u = v
    BY <2>3, <2>5, <2>6, SamePage, Zenon
  <2>. QED
    BY <1>6, <2>7, Zenon
<1>. QED
  BY <1>5, <1>6, Zenon DEF w

-----------------------------------------------------------------------------
(* The steps.                                                              *)

\* The types of the memory, the frames and the codes.
Typed ==
  /\ mem \in Memory /\ free \in SUBSET Pool /\ others \in SUBSET Pool
  /\ free_frame \in BOOLEAN
  /\ rc \in {"OK", "INVAL", "NOMEM", "EXISTS", "NOT_FOUND"}

\* The types follow from the rest of the invariant.
LEMMA TypesFollow ==
  ASSUME Typed, Asked(asked), CacheOK(tlb, asked)
  PROVE  TypeOK
BY Zenon DEF Typed, Asked, CacheOK, TypeOK, Memory, PageEntry, Pages

\* ... and the invariant gives the types.
LEMMA InvTyped ==
  ASSUME VmmInv
  PROVE  /\ Typed /\ Asked(asked) /\ CacheOK(tlb, asked)
         /\ free \cap others = {} /\ Returned(free)
         /\ \E place : Tree(mem, Used, place, asked)
BY Zenon DEF VmmInv, Typed, TypeOK, Memory, PageEntry

\* The invariant after a step.
LEMMA NextInv ==
  ASSUME Typed', free' \cap others' = {}, Asked(asked'), CacheOK(tlb', asked'),
         free_frame' => Pool \cap Unmapped \subseteq free' \cup others',
         NEW place, Tree(mem', Used', place, asked')
  PROVE  VmmInv'
<1>1. TypeOK'
  BY Zenon DEF Typed, Asked, CacheOK, TypeOK, Memory, PageEntry, Pages
<1>. QED
  BY <1>1, Zenon DEF VmmInv, Returned

\* A call that changes nothing but its code.
LEMMA OnlyCode ==
  ASSUME VmmInv, UNCHANGED <<mem, free, others, free_frame, tlb, asked>>,
         rc' \in {"OK", "INVAL", "NOMEM", "EXISTS", "NOT_FOUND"}
  PROVE  VmmInv'
<1>1. PICK place : Tree(mem, Used, place, asked)
  BY Zenon DEF VmmInv
<1>2. Used' = Used
  BY Zenon DEF Used
<1>3. Tree(mem', Used', place, asked')
  BY <1>1, <1>2, Zenon
<1>4. Typed' /\ (free_frame' => Pool \cap Unmapped \subseteq free' \cup others')
  BY InvTyped, Zenon DEF Typed, Returned
<1>. QED
  BY <1>3, <1>4, InvTyped, NextInv, Zenon

\* vmm_map_page.
LEMMA MapStep ==
  ASSUME VmmInv, NEW v \in VAddrs, NEW q \in Mappings, vmm_map_page(v, q.paddr, q.flags)
  PROVE  VmmInv'
<1>. DEFINE w == Built(v)
            i == v.idx[4]
            a == [page |-> q.paddr.page, flags |-> q.flags, used |-> {}]
<1>1. Typed /\ Asked(asked) /\ CacheOK(tlb, asked) /\ UNCHANGED <<others, free_frame, tlb>>
  BY InvTyped, Zenon DEF vmm_map_page
<1>2. CASE ~vmm_is_canonical(v) \/ ~vmm_is_aligned_4k(v) \/ ~vmm_is_aligned_4k(q.paddr)
  <2>1. rc' = "INVAL" /\ UNCHANGED <<mem, free, asked>>
    BY <1>2, Zenon DEF vmm_map_page
  <2>. QED
    BY <1>1, <2>1, OnlyCode, ZenonT(30)
<1>3. CASE ~(~vmm_is_canonical(v) \/ ~vmm_is_aligned_4k(v) \/ ~vmm_is_aligned_4k(q.paddr))
  <2>. DEFINE e == [present |-> TRUE, huge |-> "HUGE" \in Allowed(q.flags),
                    page |-> q.paddr.page % PhysPages, flags |-> Allowed(q.flags)]
  <2>1. /\ free' = w.free
        /\ w.rc # "OK" => rc' = w.rc /\ mem' = w.mem /\ asked' = asked
        /\ w.rc = "OK" /\ w.mem[w.table][i].present =>
             rc' = "EXISTS" /\ mem' = w.mem /\ asked' = asked
        /\ w.rc = "OK" /\ ~w.mem[w.table][i].present =>
             /\ rc' = "OK" /\ mem' = PutEntry(w.mem, w.table, i, e)
             /\ asked' = AskedWith(asked, v, a)
    BY <1>3, Zenon DEF vmm_map_page, Taken, PutEntry, AskedWith
  <2>2. v \in Pages
    BY <1>3, Zenon DEF Pages
  <2>3. PICK place : BuildAt(w, v, 3, place)
    BY BuiltAt, Zenon DEF CanBuild
  <2>. HIDE DEF w, e, a
  <2>. DEFINE U == TablesWith(w.free)
  <2>4. /\ w.mem \in Memory /\ w.free \in SUBSET Pool /\ w.free \cap others = {}
        /\ Tree(w.mem, U, place, asked) /\ Returned(w.free)
        /\ w.rc \in {"OK", "NOMEM", "INVAL", "EXISTS"}
        /\ w.rc = "OK" => w.table \in U \cup {Root} /\ place[w.table] = Prefix(v, 3)
    BY <2>3, Zenon DEF BuildAt
  <2>5. /\ Used' = U /\ free' \in SUBSET Pool /\ others' \in SUBSET Pool
        /\ free' \cap others' = {} /\ free_frame' \in BOOLEAN
        /\ free_frame' => Pool \cap Unmapped \subseteq free' \cup others'
    BY <1>1, <2>1, <2>4, Zenon DEF Used, TablesWith, Typed, Returned
  <2>. HIDE DEF U
  <2>6. CASE w.rc # "OK" \/ w.mem[w.table][i].present
    <3>1. /\ mem' = w.mem /\ asked' = asked
          /\ rc' \in {"OK", "INVAL", "NOMEM", "EXISTS", "NOT_FOUND"}
      BY <2>1, <2>4, <2>6, Zenon
    <3>2. Typed'
      BY <2>4, <2>5, <3>1, Zenon DEF Typed
    <3>3. Asked(asked') /\ CacheOK(tlb', asked')
      BY <1>1, <3>1, Zenon
    <3>4. Tree(mem', Used', place, asked')
      BY <2>4, <2>5, <3>1, Zenon
    <3>. QED
      BY <2>5, <3>2, <3>3, <3>4, NextInv, ZenonT(30)
  <2>7. CASE w.rc = "OK" /\ ~w.mem[w.table][i].present
    <3>1. w.table \in U \cup {Root} /\ place[w.table] = Prefix(v, 3) /\ v \in VAddrs
      BY <2>4, <2>7, Zenon
    <3>2. AtLowest(U, place, v, w.table)
      <4>1. Layout(w.mem, U, place)
        BY <2>4, Zenon DEF Tree
      <4>. QED
        BY <3>1, <4>1, LowestTable, Zenon
    <3>3. w.table \in U /\ w.table \in Pool \cup {Root} /\ i \in Index
      BY <3>2, Zenon DEF AtLowest
    <3>4. q \in [paddr : [page : Nat, offset : Nat], flags : SUBSET PteFlags]
      BY VmmAssumption, Zenon
    <3>5. q.paddr.page \in Nat /\ q.flags \in SUBSET PteFlags
      BY <3>4, SMTT(30)
    <3>6. a.page = q.paddr.page /\ a.flags = q.flags /\ a.used = {} /\ a \in Request
      BY <3>5 DEF a, Request
    <3>7. e = Leaf(a)
      <4>1. "HUGE" \notin Allowed(q.flags)
        BY DEF Allowed, Settable
      <4>2. ("HUGE" \in Allowed(q.flags)) = FALSE
        BY <4>1, SMTT(30)
      <4>3. Allowed(q.flags) \cup {} = Allowed(q.flags)
        BY Zenon
      <4>. QED
        BY <3>6, <4>2, <4>3, ZenonT(30) DEF e, Leaf
    <3>8. Leaf(a) \in PageEntry
      BY <3>6, EntriesTyped, Zenon
    <3>9. rc' = "OK" /\ mem' = PutEntry(w.mem, w.table, i, Leaf(a)) /\ asked' = AskedWith(asked, v, a)
      BY <2>1, <2>7, <3>7, Zenon
    <3>10. mem' \in Memory /\ Written(mem', w.mem, w.table, i, Leaf(a))
      <4>. DEFINE l == Leaf(a)
      <4>. HIDE DEF l
      <4>1. /\ PutEntry(w.mem, w.table, i, l) \in Memory
            /\ Written(PutEntry(w.mem, w.table, i, l), w.mem, w.table, i, l)
        <5>1. l \in PageEntry
          BY <3>8, Zenon DEF l
        <5>. QED
          BY <2>4, <3>3, <5>1, EntryWritten, ZenonT(30)
      <4>. QED
        BY <3>9, <4>1, Zenon DEF l
    <3>11. Tree(mem', U, place, asked')
      BY <1>1, <2>2, <2>4, <3>1, <3>9, <3>10, LeafAdded, ZenonT(30)
    <3>12. v \notin DOMAIN asked
      <4>1. SUFFICES ASSUME v \in DOMAIN asked PROVE FALSE
        BY Zenon
      <4>2. PICK f \in U : place[f] = Prefix(v, 3) /\ w.mem[f][i] = Leaf(asked[v])
        BY <2>4, <4>1, Zenon DEF Tree, Mapped
      <4>3. f = w.table
        BY <2>4, <3>1, <4>2, Zenon DEF Tree, Layout, PlacesOK
      <4>4. Leaf(asked[v]).present
        BY <1>1, <4>1, EntriesTyped, Zenon DEF Asked
      <4>. QED
        BY <2>7, <4>2, <4>3, <4>4, ZenonT(30)
    <3>13. /\ DOMAIN asked' = DOMAIN asked \cup {v} /\ asked'[v] = a
           /\ \A u \in DOMAIN asked : asked'[u] = asked[u]
      BY <3>9, <3>12, Zenon DEF AskedWith
    <3>14. Asked(asked')
      <4>1. DOMAIN asked' \subseteq Pages
        BY <1>1, <2>2, <3>13, Zenon DEF Asked
      <4>2. \A u \in DOMAIN asked' : asked'[u] \in Request
        BY <1>1, <3>6, <3>13, Zenon DEF Asked
      <4>. QED
        BY <4>1, <4>2, Zenon DEF Asked
    <3>15. CacheOK(tlb', asked')
      BY <1>1, <3>13, Zenon DEF CacheOK
    <3>16. Typed'
      BY <2>5, <3>9, <3>10, Zenon DEF Typed
    <3>17. Tree(mem', Used', place, asked')
      BY <2>5, <3>11, Zenon
    <3>. QED
      BY <2>5, <3>14, <3>15, <3>16, <3>17, NextInv, ZenonT(30)
  <2>. QED
    BY <2>6, <2>7, Zenon
<1>. QED
  BY <1>2, <1>3, Zenon

\* vmm_unmap_page.
LEMMA UnmapStep ==
  ASSUME VmmInv, NEW v \in VAddrs, vmm_unmap_page(v)
  PROVE  VmmInv'
<1>. DEFINE w == Reached(v)
            i == v.idx[4]
<1>1. /\ Typed /\ Asked(asked) /\ CacheOK(tlb, asked)
      /\ free \cap others = {} /\ Returned(free)
  BY InvTyped, Zenon
<1>2. UNCHANGED <<free, others, free_frame>>
  BY Zenon DEF vmm_unmap_page
<1>3. CASE ~vmm_is_canonical(v) \/ ~vmm_is_aligned_4k(v)
  <2>1. rc' = "INVAL" /\ UNCHANGED <<mem, tlb, asked>>
    BY <1>3, Zenon DEF vmm_unmap_page
  <2>. QED
    BY <1>2, <2>1, OnlyCode, Zenon
<1>4. CASE ~(~vmm_is_canonical(v) \/ ~vmm_is_aligned_4k(v))
  <2>1. /\ w.rc # "OK" => rc' = w.rc /\ UNCHANGED <<mem, tlb, asked>>
        /\ w.rc = "OK" /\ ~mem[w.table][i].present =>
             rc' = "NOT_FOUND" /\ UNCHANGED <<mem, tlb, asked>>
        /\ w.rc = "OK" /\ mem[w.table][i].present =>
             /\ rc' = "OK" /\ mem' = PutEntry(mem, w.table, i, NoEntry)
             /\ tlb' = {t \in tlb : t[1] # v} /\ asked' = AskedWithout(asked, v)
    BY <1>4, Zenon DEF vmm_unmap_page, PutEntry, AskedWithout, vmm_invalidate_page
  <2>2. v \in Pages
    BY <1>4, Zenon DEF Pages
  <2>3. PICK place : Tree(mem, Used, place, asked)
    BY Zenon DEF VmmInv
  <2>4. Layout(mem, Used, place)
    BY <2>3, Zenon DEF Tree
  <2>5. WalkAt(w, mem, Used, place, v, 3)
    BY <2>4, ReachedAt, Zenon
  <2>. HIDE DEF w
  <2>6. CASE w.rc # "OK"
    <3>1. rc' \in {"OK", "INVAL", "NOMEM", "EXISTS", "NOT_FOUND"}
      BY <2>1, <2>5, <2>6, Zenon DEF WalkAt
    <3>. QED
      BY <1>2, <2>1, <2>6, <3>1, OnlyCode, ZenonT(30)
  <2>7. CASE w.rc = "OK" /\ ~mem[w.table][i].present
    BY <1>2, <2>1, <2>7, OnlyCode, Zenon
  <2>8. CASE w.rc = "OK" /\ mem[w.table][i].present
    <3>1. w.table \in Used \cup {Root} /\ place[w.table] = Prefix(v, 3)
      BY <2>5, <2>8, Zenon DEF WalkAt
    <3>2. AtLowest(Used, place, v, w.table)
      BY <2>4, <3>1, LowestTable, Zenon
    <3>3. w.table \in Pool \cup {Root} /\ i \in Index /\ mem \in Memory
      BY <1>1, <3>2, Zenon DEF AtLowest, Typed
    <3>4. mem' \in Memory /\ Written(mem', mem, w.table, i, NoEntry)
      <4>1. NoEntry \in PageEntry
        BY EntriesTyped, Zenon
      <4>2. /\ PutEntry(mem, w.table, i, NoEntry) \in Memory
            /\ Written(PutEntry(mem, w.table, i, NoEntry), mem, w.table, i, NoEntry)
        BY <3>3, <4>1, EntryWritten, Zenon
      <4>. QED
        BY <2>1, <2>8, <4>2, Zenon
    <3>5. asked' = AskedWithout(asked, v) /\ tlb' = {t \in tlb : t[1] # v} /\ rc' = "OK"
      BY <2>1, <2>8, Zenon
    <3>6. Used' = Used
      BY <1>2, Zenon DEF Used
    <3>7. Tree(mem', Used', place, asked')
      <4>1. Tree(mem', Used, place, AskedWithout(asked, v))
        BY <1>1, <2>2, <2>3, <3>1, <3>4, LeafRemoved, ZenonT(30)
      <4>. QED
        BY <3>5, <3>6, <4>1, Zenon
    <3>8. DOMAIN asked' = DOMAIN asked \ {v} /\ \A u \in DOMAIN asked' : asked'[u] = asked[u]
      BY <3>5, Zenon DEF AskedWithout
    <3>9. Asked(asked')
      BY <1>1, <3>8, Zenon DEF Asked
    <3>10. CacheOK(tlb', asked')
      BY <1>1, <3>5, <3>8, Zenon DEF CacheOK
    <3>11. Typed'
      BY <1>1, <1>2, <3>4, <3>5, ZenonT(30) DEF Typed
    <3>12. /\ free' \cap others' = {}
           /\ free_frame' => Pool \cap Unmapped \subseteq free' \cup others'
      BY <1>1, <1>2, Zenon DEF Returned
    <3>. QED
      BY <3>7, <3>9, <3>10, <3>11, <3>12, NextInv, ZenonT(30)
  <2>. QED
    BY <2>6, <2>7, <2>8, Zenon
<1>. QED
  BY <1>3, <1>4, Zenon

\* The entry of a mapped page.
LEMMA LeafFields ==
  ASSUME NEW a
  PROVE  /\ Leaf(a).present /\ Leaf(a).page = a.page % PhysPages
         /\ Leaf(a).flags = Allowed(a.flags) \cup a.used
BY DEF Leaf

\* The tables that the CPU walks for a mapped page are the ones on its path.
LEMMA WayIs ==
  ASSUME NEW U, NEW place, Layout(mem, U, place), NEW v \in VAddrs, Reached(v).rc = "OK"
  PROVE  \A n \in 1 .. 4 : TablesOf(v)[n] \in U \cup {Root}
                            /\ place[TablesOf(v)[n]] = Prefix(v, n - 1)
<1>. DEFINE w1 == NextTable(Walk, v.idx[1])
            w2 == NextTable(w1, v.idx[2])
            w3 == NextTable(w2, v.idx[3])
<1>1. /\ Walk.mem = mem /\ Walk.free = free /\ Walk.table = Root /\ Walk.rc = "OK"
  BY DEF Walk
<1>2. place[Root] = Prefix(v, 0)
  BY PrefixIs, Zenon DEF Layout, PlacesOK
<1>3. IsWalk(Walk) /\ WalkAt(Walk, mem, U, place, v, 0)
  <2>1. IsWalk(Walk)
    BY <1>1, Zenon DEF IsWalk, Walk
  <2>. QED
    BY <1>1, <1>2, <2>1, Zenon DEF WalkAt
<1>4. 0 \in 0 .. 2 /\ 0 + 1 = 1 /\ 1 \in 0 .. 2 /\ 1 + 1 = 2 /\ 2 \in 0 .. 2 /\ 2 + 1 = 3
  OBVIOUS
<1>5. IsWalk(w1) /\ WalkAt(w1, mem, U, place, v, 1)
  BY <1>3, <1>4, NextTableAt, Zenon
<1>6. Reached(v) = w3 /\ TablesOf(v) = <<Root, w1.table, w2.table, w3.table>>
  BY Zenon DEF Reached, TablesOf
<1>. HIDE DEF w1
<1>7. IsWalk(w2) /\ WalkAt(w2, mem, U, place, v, 2)
  BY <1>4, <1>5, NextTableAt, Zenon
<1>8. w2.rc = "OK" => w1.rc = "OK"
  BY Zenon DEF NextTable
<1>. HIDE DEF w2
<1>9. WalkAt(w3, mem, U, place, v, 3)
  BY <1>4, <1>7, NextTableAt, Zenon
<1>10. w3.rc = "OK" => w2.rc = "OK"
  BY Zenon DEF NextTable
<1>. HIDE DEF w3
<1>11. /\ w1.table \in U \cup {Root} /\ place[w1.table] = Prefix(v, 1)
       /\ w2.table \in U \cup {Root} /\ place[w2.table] = Prefix(v, 2)
       /\ w3.table \in U \cup {Root} /\ place[w3.table] = Prefix(v, 3)
  BY <1>5, <1>6, <1>7, <1>8, <1>9, <1>10, ZenonT(30) DEF WalkAt
<1>12. /\ TablesOf(v)[1] = Root /\ TablesOf(v)[2] = w1.table
       /\ TablesOf(v)[3] = w2.table /\ TablesOf(v)[4] = w3.table
  BY <1>6
<1>13. \A n \in 1 .. 4 : n = 1 \/ n = 2 \/ n = 3 \/ n = 4
  OBVIOUS
<1>14. 1 - 1 = 0 /\ 2 - 1 = 1 /\ 3 - 1 = 2 /\ 4 - 1 = 3
  OBVIOUS
<1>. QED
  BY <1>2, <1>11, <1>12, <1>13, <1>14, ZenonT(30)

\* Of the lowest tables, the CPU marks the entry of the page only.
LEMMA MarksOfLowest ==
  ASSUME NEW U, NEW place, Layout(mem, U, place), NEW v \in VAddrs, Reached(v).rc = "OK",
         NEW how, NEW f \in U, Len(place[f]) = 3, NEW i
  PROVE  LET bits == Marks(TablesOf(v), v, how, f, i) IN
         /\ f = Reached(v).table /\ i = v.idx[4] => bits = how
         /\ ~(f = Reached(v).table /\ i = v.idx[4]) => bits = {}
<1>. DEFINE way == TablesOf(v)
<1>1. way[4] = Reached(v).table
  BY DEF TablesOf
<1>2. ASSUME NEW n \in 1 .. 3 PROVE f # way[n]
  <2>1. n \in 1 .. 4 /\ n - 1 \in 0 .. 3 /\ n - 1 # 3
    OBVIOUS
  <2>2. place[way[n]] = Prefix(v, n - 1)
    BY <2>1, WayIs, ZenonT(60)
  <2>3. Len(place[way[n]]) = n - 1
    BY <2>1, <2>2, PrefixIs, Zenon
  <2>. QED
    BY <2>1, <2>3, Zenon
<1>. HIDE DEF way
<1>3. /\ f = Reached(v).table /\ i = v.idx[4] => Marks(way, v, how, f, i) = how
      /\ ~(f = Reached(v).table /\ i = v.idx[4]) => Marks(way, v, how, f, i) = {}
  BY <1>1, <1>2, Zenon DEF Marks
<1>. QED
  BY <1>3, Zenon DEF way

\* The tables m2 are m, but for flags, and for the entry at index i of t in the
\* lowest tables.
MarkedAt(m2, m, U, place, t, i) ==
  /\ \A f \in U \cup {Root}, j \in Index :
       /\ m2[f][j].present = m[f][j].present /\ m2[f][j].huge = m[f][j].huge
       /\ m2[f][j].page = m[f][j].page
  /\ \A f \in U, j \in Index : Len(place[f]) = 3 /\ ~(f = t /\ j = i) => m2[f][j] = m[f][j]

\* Marks leave the tree of tables alone, and all mappings but one.
LEMMA MarksKeepTree ==
  ASSUME NEW m, NEW U, NEW place, NEW ask, Tree(m, U, place, ask), Asked(ask),
         NEW v \in DOMAIN ask, NEW t \in U \cup {Root}, place[t] = Prefix(v, 3),
         NEW m2, MarkedAt(m2, m, U, place, t, v.idx[4]),
         NEW k2, DOMAIN k2 = DOMAIN ask, \A u \in DOMAIN ask \ {v} : k2[u] = ask[u],
         m2[t][v.idx[4]] = Leaf(k2[v])
  PROVE  Tree(m2, U, place, k2)
<1>. DEFINE i == v.idx[4]
<1>1. Layout(m, U, place) /\ Mapped(m, U, place, ask) /\ NoOther(m, U, place, ask)
  BY Zenon DEF Tree
<1>2. v \in VAddrs /\ v \in Pages
  BY Zenon DEF Asked, Pages
<1>3. t \in U /\ Len(place[t]) = 3
  <2>1. AtLowest(U, place, v, t)
    BY <1>1, <1>2, LowestTable, Zenon
  <2>. QED
    BY <2>1, Zenon DEF AtLowest
<1>4. Layout(m2, U, place)
  <2>1. Upper(U, place) \subseteq U \cup {Root}
    BY Zenon DEF Upper
  <2>2. LinksOK(m2, U, place)
    <3>1. ASSUME NEW f \in Upper(U, place), NEW j \in Index, m2[f][j].present
          PROVE  /\ ~m2[f][j].huge /\ m2[f][j].page \in U
                 /\ place[m2[f][j].page] = Append(place[f], j)
      <4>1. /\ m[f][j].present /\ m2[f][j].huge = m[f][j].huge
            /\ m2[f][j].page = m[f][j].page
        BY <2>1, <3>1, ZenonT(50) DEF MarkedAt
      <4>2. ~m[f][j].huge /\ m[f][j].page \in U /\ place[m[f][j].page] = Append(place[f], j)
        BY <1>1, <4>1, Zenon DEF Layout, LinksOK
      <4>. QED
        BY <4>1, <4>2, Zenon
    <3>. QED
      BY <3>1, Zenon DEF LinksOK
  <2>3. ParentsOK(m2, U, place)
    <3>1. ASSUME NEW g \in U
          PROVE  \E f \in Upper(U, place), j \in Index : m2[f][j].present /\ m2[f][j].page = g
      <4>1. PICK f \in Upper(U, place), j \in Index : m[f][j].present /\ m[f][j].page = g
        BY <1>1, Zenon DEF Layout, ParentsOK
      <4>2. m2[f][j].present /\ m2[f][j].page = g
        BY <2>1, <4>1, ZenonT(30) DEF MarkedAt
      <4>. QED
        BY <4>2, Zenon
    <3>. QED
      BY <3>1, Zenon DEF ParentsOK
  <2>. QED
    BY <1>1, <2>2, <2>3, ZenonT(30) DEF Layout
<1>5. Mapped(m2, U, place, k2)
  <2>1. ASSUME NEW u \in DOMAIN k2
        PROVE  \E f \in U : place[f] = Prefix(u, 3) /\ m2[f][u.idx[4]] = Leaf(k2[u])
    <3>1. CASE u = v
      BY <1>3, <3>1, Zenon
    <3>2. CASE u # v
      <4>1. u \in DOMAIN ask /\ u \in Pages /\ u \in VAddrs /\ k2[u] = ask[u]
        BY <3>2, Zenon DEF Asked, Pages
      <4>2. PICK f \in U : place[f] = Prefix(u, 3) /\ m[f][u.idx[4]] = Leaf(ask[u])
        BY <1>1, <4>1, Zenon DEF Mapped
      <4>3. u.idx[4] \in Index /\ Len(place[f]) = 3
        <5>1. 4 \in 1 .. 4 /\ 3 \in 0 .. 3
          OBVIOUS
        <5>. QED
          BY <4>1, <4>2, <5>1, AddressFields, PrefixIs, ZenonT(30)
      <4>4. ~(f = t /\ u.idx[4] = i)
        BY <1>2, <3>2, <4>1, <4>2, SamePage, Zenon
      <4>5. m2[f][u.idx[4]] = m[f][u.idx[4]]
        BY <4>3, <4>4, Zenon DEF MarkedAt
      <4>. QED
        BY <4>1, <4>2, <4>5, ZenonT(30)
    <3>. QED
      BY <3>1, <3>2, Zenon
  <2>. QED
    BY <2>1, Zenon DEF Mapped
<1>6. NoOther(m2, U, place, k2)
  <2>1. ASSUME NEW f \in U, NEW j \in Index, Len(place[f]) = 3, m2[f][j].present
        PROVE  \E u \in DOMAIN k2 : Prefix(u, 3) = place[f] /\ u.idx[4] = j
    <3>1. m[f][j].present
      BY <2>1, ZenonT(90) DEF MarkedAt
    <3>2. \E u \in DOMAIN ask : Prefix(u, 3) = place[f] /\ u.idx[4] = j
      BY ONLY <1>1, <2>1, <3>1 DEF NoOther
    <3>. QED
      BY <3>2, Zenon
  <2>. QED
    BY ONLY <2>1 DEF NoOther
<1>. QED
  BY <1>4, <1>5, <1>6, Zenon DEF Tree

\* An entry with flags that the CPU has set.
WithMarks(e, bits) == [e EXCEPT !.flags = @ \cup bits]

\* Setting flags in one entry.
LEMMA EntryMarked ==
  ASSUME NEW e \in PageEntry, NEW bits \in SUBSET CpuFlags, NEW x, x = WithMarks(e, bits)
  PROVE  /\ x \in PageEntry /\ x.present = e.present /\ x.huge = e.huge /\ x.page = e.page
         /\ bits = {} => x = e
         /\ x = [present |-> e.present, huge |-> e.huge, page |-> e.page,
                 flags |-> e.flags \cup bits]
<1>1. /\ e = [present |-> e.present, huge |-> e.huge, page |-> e.page, flags |-> e.flags]
      /\ e.present \in BOOLEAN /\ e.huge \in BOOLEAN /\ e.page \in 0 .. PhysPages - 1
      /\ e.flags \in SUBSET (Settable \cup CpuFlags)
  BY DEF PageEntry
<1>. DEFINE fl == e.flags \cup bits
<1>2. fl \in SUBSET (Settable \cup CpuFlags) /\ (bits = {} => fl = e.flags)
  BY <1>1, Zenon
<1>3. x = [e EXCEPT !.flags = fl]
  BY Zenon DEF WithMarks
<1>. HIDE DEF fl
<1>4. x = [present |-> e.present, huge |-> e.huge, page |-> e.page, flags |-> fl]
  BY <1>1, <1>3
<1>5. x \in PageEntry /\ x.present = e.present /\ x.huge = e.huge /\ x.page = e.page
  BY <1>1, <1>2, <1>4 DEF PageEntry
<1>6. bits = {} => x = e
  BY <1>1, <1>2, <1>4, Zenon
<1>. QED
  BY <1>4, <1>5, <1>6, Zenon DEF fl

\* Setting flags in the entry of a page.
LEMMA LeafMarked ==
  ASSUME NEW bits \in SUBSET CpuFlags, NEW a \in Request, NEW b \in Request,
         b.page = a.page, b.flags = a.flags, b.used = a.used \cup bits,
         NEW e, e = Leaf(a), NEW x, x = WithMarks(e, bits)
  PROVE  x = Leaf(b)
<1>1. /\ e.present = TRUE /\ e.huge = FALSE /\ e.page = a.page % PhysPages
      /\ e.flags = Allowed(a.flags) \cup a.used
  BY DEF Leaf
<1>2. e \in PageEntry
  BY EntriesTyped, Zenon
<1>3. x = [present |-> e.present, huge |-> e.huge, page |-> e.page, flags |-> e.flags \cup bits]
  BY ONLY <1>2, bits \in SUBSET CpuFlags, x = WithMarks(e, bits), EntryMarked, ZenonT(30)
<1>4. e.flags \cup bits = Allowed(b.flags) \cup b.used
  <2>1. e.flags \cup bits = Allowed(a.flags) \cup (a.used \cup bits)
    BY <1>1, Zenon
  <2>. QED
    BY <2>1, Zenon
<1>5. b.page % PhysPages = a.page % PhysPages
  BY Zenon
<1>. QED
  BY <1>1, <1>3, <1>4, <1>5, Zenon DEF Leaf

\* The CPU uses a translation.
LEMMA AccessStep ==
  ASSUME VmmInv, NEW v \in VAddrs, NEW how \in SUBSET CpuFlags, Access(v, how)
  PROVE  VmmInv'
<1>. DEFINE way == TablesOf(v)
            t == Reached(v).table
            mark(f, i) == Marks(way, v, how, f, i)
<1>1. /\ v \in Pages /\ Translation(v).present
      /\ mem' = [f \in DOMAIN mem |-> [i \in Index |->
                    [mem[f][i] EXCEPT !.flags = @ \cup mark(f, i)]]]
      /\ tlb' = tlb \cup {<<v, Translation(v).page>>}
      /\ asked' = [asked EXCEPT ![v].used = @ \cup how]
      /\ UNCHANGED <<free, others, free_frame, rc>>
  BY Zenon DEF Access, Pages
<1>2. v \in DOMAIN asked /\ Translation(v) = Leaf(asked[v]) /\ Reached(v).rc = "OK"
  BY <1>1, TranslationIs, ZenonT(30)
<1>3. Translation(v).page = asked[v].page % PhysPages /\ Translation(v) = mem[t][v.idx[4]]
  BY <1>2, LeafFields, Zenon DEF Translation
<1>4. /\ Typed /\ Asked(asked) /\ CacheOK(tlb, asked)
      /\ free \cap others = {} /\ Returned(free)
  BY InvTyped, Zenon
<1>5. PICK place : Tree(mem, Used, place, asked)
  BY Zenon DEF VmmInv
<1>6. Used' = Used /\ Used \subseteq Pool
  BY <1>1, Zenon DEF Used
<1>7. Layout(mem, Used, place)
  BY <1>5, Zenon DEF Tree
<1>8. t \in Used \cup {Root} /\ place[t] = Prefix(v, 3)
  BY <1>2, <1>7, ReachedAt, ZenonT(30) DEF WalkAt
<1>9. AtLowest(Used, place, v, t)
  BY <1>7, <1>8, LowestTable, ZenonT(30)
<1>10. \A f, i : mark(f, i) \in SUBSET CpuFlags
  BY ZenonT(30) DEF Marks, CpuFlags
<1>11. ASSUME NEW f \in Used, NEW i \in Index, Len(place[f]) = 3
       PROVE  /\ f = t /\ i = v.idx[4] => mark(f, i) = how
              /\ ~(f = t /\ i = v.idx[4]) => mark(f, i) = {}
  <2>. DEFINE U == Used
  <2>1. Layout(mem, U, place) /\ f \in U
    BY <1>7, Zenon
  <2>. HIDE DEF U
  <2>. QED
    BY ONLY v \in VAddrs, <1>2, <1>11, <2>1, MarksOfLowest, ZenonT(30)
<1>. HIDE DEF way, mark, t
<1>12. ASSUME NEW f \in Pool \cup {Root}, NEW i \in Index
       PROVE  /\ mem[f][i] \in PageEntry
              /\ mem'[f][i] = WithMarks(mem[f][i], mark(f, i))
  BY <1>1, <1>4, Zenon DEF Typed, Memory, WithMarks
<1>13. ASSUME NEW f \in Pool \cup {Root}, NEW i \in Index
       PROVE  /\ mem'[f][i] \in PageEntry /\ mem'[f][i].present = mem[f][i].present
              /\ mem'[f][i].huge = mem[f][i].huge /\ mem'[f][i].page = mem[f][i].page
              /\ mark(f, i) = {} => mem'[f][i] = mem[f][i]
  <2>. DEFINE e == mem[f][i]
              x == mem'[f][i]
              b == mark(f, i)
  <2>1. e \in PageEntry /\ x = WithMarks(e, b) /\ b \in SUBSET CpuFlags
    BY <1>10, <1>12, ZenonT(30)
  <2>. HIDE DEF e, x, b
  <2>2. /\ x \in PageEntry /\ x.present = e.present /\ x.huge = e.huge /\ x.page = e.page
        /\ b = {} => x = e
    BY <2>1, EntryMarked, ZenonT(100)
  <2>. QED
    BY <2>2, Zenon DEF e, x, b
<1>14. mem' \in Memory
  <2>1. DOMAIN mem = Pool \cup {Root}
    BY <1>4, Zenon DEF Typed, Memory
  <2>. DEFINE row(f) == [i \in Index |-> [mem[f][i] EXCEPT !.flags = @ \cup mark(f, i)]]
  <2>2. mem' = [f \in Pool \cup {Root} |-> row(f)]
    BY <1>1, <2>1, Zenon
  <2>3. ASSUME NEW f \in Pool \cup {Root} PROVE row(f) \in [Index -> PageEntry]
    <3>1. mem'[f] = row(f)
      BY <2>2, Zenon
    <3>2. \A i \in Index : mem'[f][i] \in PageEntry
      BY <1>13, Zenon
    <3>3. row(f) = [i \in Index |-> row(f)[i]]
      BY Zenon
    <3>. HIDE DEF row
    <3>. QED
      BY <3>1, <3>2, <3>3, Zenon
  <2>. HIDE DEF row
  <2>. QED
    BY <2>2, <2>3, Zenon DEF Memory
<1>15. /\ DOMAIN asked' = DOMAIN asked /\ asked'[v] \in Request
       /\ asked'[v].page = asked[v].page /\ asked'[v].flags = asked[v].flags
       /\ asked'[v].used = asked[v].used \cup how
       /\ \A u \in DOMAIN asked \ {v} : asked'[u] = asked[u]
  <2>. DEFINE a == asked[v]
              us == a.used \cup how
              b == [page |-> a.page, flags |-> a.flags, used |-> us]
  <2>1. a \in Request
    BY <1>2, <1>4, ZenonT(30) DEF Asked
  <2>2. /\ a = [page |-> a.page, flags |-> a.flags, used |-> a.used]
        /\ a.page \in Nat /\ a.flags \in SUBSET PteFlags /\ a.used \in SUBSET CpuFlags
    <3>. HIDE DEF a
    <3>. QED
      BY <2>1, SMTT(30) DEF Request
  <2>3. asked' = [asked EXCEPT ![v] = [a EXCEPT !.used = us]]
    BY <1>1, Zenon
  <2>4. us \in SUBSET CpuFlags
    BY <2>2, ZenonT(30)
  <2>. HIDE DEF a, us
  <2>5. [a EXCEPT !.used = us] = b /\ b \in Request
    BY <2>2, <2>4, SMTT(30) DEF Request
  <2>6. b.page = a.page /\ b.flags = a.flags /\ b.used = us
    OBVIOUS
  <2>. HIDE DEF b
  <2>7. /\ DOMAIN asked' = DOMAIN asked /\ asked'[v] = b
        /\ \A u \in DOMAIN asked \ {v} : asked'[u] = asked[u]
    <3>1. asked' = [asked EXCEPT ![v] = b]
      BY <2>3, <2>5, ZenonT(30)
    <3>. QED
      BY <1>2, <3>1, Zenon
  <2>. QED
    BY <2>5, <2>6, <2>7, Zenon DEF a, us
<1>16. mem'[t][v.idx[4]] = Leaf(asked'[v])
  <2>. DEFINE e == mem[t][v.idx[4]]
              x == mem'[t][v.idx[4]]
              a == asked[v]
              b == asked'[v]
  <2>1. t \in Used /\ t \in Pool \cup {Root} /\ v.idx[4] \in Index /\ Len(place[t]) = 3
    BY <1>9, Zenon DEF AtLowest
  <2>2. mark(t, v.idx[4]) = how
    BY <1>11, <2>1, ZenonT(30)
  <2>3. e \in PageEntry /\ x = WithMarks(e, how)
    BY <1>12, <2>1, <2>2, ZenonT(30)
  <2>4. /\ a \in Request /\ b \in Request /\ e = Leaf(a)
        /\ b.page = a.page /\ b.flags = a.flags /\ b.used = a.used \cup how
    BY <1>2, <1>3, <1>4, <1>15, ZenonT(30) DEF Asked
  <2>. HIDE DEF e, x, a, b
  <2>5. x = Leaf(b)
    BY <2>3, <2>4, LeafMarked, ZenonT(30)
  <2>. QED
    BY <2>5, Zenon DEF x, b
<1>17. MarkedAt(mem', mem, Used, place, t, v.idx[4])
  <2>1. ASSUME NEW f \in Used \cup {Root}, NEW j \in Index
        PROVE  /\ mem'[f][j].present = mem[f][j].present /\ mem'[f][j].huge = mem[f][j].huge
               /\ mem'[f][j].page = mem[f][j].page
    BY <1>6, <1>13, ZenonT(30)
  <2>2. ASSUME NEW f \in Used, NEW j \in Index, Len(place[f]) = 3, ~(f = t /\ j = v.idx[4])
        PROVE  mem'[f][j] = mem[f][j]
    <3>1. mark(f, j) = {}
      BY <1>11, <2>2, ZenonT(30)
    <3>. QED
      BY <1>6, <1>13, <3>1, ZenonT(30)
  <2>. QED
    BY <2>1, <2>2, ZenonT(30) DEF MarkedAt
<1>18. Tree(mem', Used', place, asked')
  <2>. DEFINE U == Used
              m2 == mem'
              k2 == asked'
  <2>1. /\ Tree(mem, U, place, asked) /\ Asked(asked) /\ v \in DOMAIN asked
        /\ t \in U \cup {Root} /\ place[t] = Prefix(v, 3)
        /\ MarkedAt(m2, mem, U, place, t, v.idx[4]) /\ DOMAIN k2 = DOMAIN asked
        /\ \A u \in DOMAIN asked \ {v} : k2[u] = asked[u]
        /\ m2[t][v.idx[4]] = Leaf(k2[v])
    BY <1>2, <1>4, <1>5, <1>8, <1>15, <1>16, <1>17, ZenonT(30)
  <2>. HIDE DEF U, m2, k2
  <2>2. Tree(m2, U, place, k2)
    BY ONLY <2>1, MarksKeepTree, ZenonT(110)
  <2>. QED
    BY <1>6, <2>2, Zenon DEF U, m2, k2
<1>19. Asked(asked')
  BY <1>4, <1>15, Zenon DEF Asked
<1>20. CacheOK(tlb', asked')
  <2>1. ASSUME NEW c \in tlb'
        PROVE  c[1] \in DOMAIN asked' /\ c[2] = asked'[c[1]].page % PhysPages
    <3>1. \A u \in DOMAIN asked : asked'[u].page = asked[u].page
      BY <1>15, Zenon
    <3>2. CASE c \in tlb
      BY <1>4, <1>15, <3>1, <3>2, Zenon DEF CacheOK
    <3>3. CASE c = <<v, Translation(v).page>>
      <4>1. c[1] = v /\ c[2] = Translation(v).page
        BY <3>3
      <4>. QED
        BY <1>2, <1>3, <1>15, <4>1, Zenon
    <3>. QED
      BY <1>1, <3>2, <3>3, Zenon
  <2>. QED
    BY <2>1, Zenon DEF CacheOK
<1>21. Typed' /\ (free_frame' => Pool \cap Unmapped \subseteq free' \cup others')
  BY <1>1, <1>4, <1>14, Zenon DEF Typed, Returned
<1>22. free' \cap others' = {}
  BY <1>1, <1>4, Zenon
<1>. QED
  BY <1>18, <1>19, <1>20, <1>21, <1>22, NextInv, ZenonT(30)

\* Frames that the rest of the kernel takes or returns are no tables.
LEMMA OthersStep ==
  ASSUME VmmInv, OthersAlloc \/ OthersFree
  PROVE  VmmInv'
<1>1. /\ Typed /\ Asked(asked) /\ CacheOK(tlb, asked)
      /\ free \cap others = {} /\ Returned(free)
  BY InvTyped, Zenon
<1>2. UNCHANGED <<mem, free_frame, tlb, asked, rc>>
  BY Zenon DEF OthersAlloc, OthersFree
<1>3. /\ free' \cup others' = free \cup others /\ free' \cap others' = {}
      /\ free' \in SUBSET Pool /\ others' \in SUBSET Pool
  <2>1. CASE OthersAlloc
    <3>. DEFINE f == alloc_frame(free)
    <3>1. free # {} /\ others' = others \cup {f} /\ free' = free \ {f}
      BY <2>1, Zenon DEF OthersAlloc
    <3>2. f \in free
      BY <1>1, <3>1, AllocFrame, Zenon DEF Typed
    <3>. HIDE DEF f
    <3>. QED
      BY <1>1, <3>1, <3>2, ZenonT(30) DEF Typed
  <2>2. CASE OthersFree
    <3>1. PICK f \in others : others' = others \ {f} /\ free' = free \cup {f}
      BY <2>2, Zenon DEF OthersFree
    <3>. QED
      BY <1>1, <3>1, Zenon DEF Typed
  <2>. QED
    BY <2>1, <2>2, Zenon
<1>4. Used' = Used
  BY <1>3, Zenon DEF Used
<1>5. PICK place : Tree(mem, Used, place, asked)
  BY Zenon DEF VmmInv
<1>6. Tree(mem', Used', place, asked')
  BY <1>2, <1>4, <1>5, Zenon
<1>7. Typed'
  BY <1>1, <1>2, <1>3, Zenon DEF Typed
<1>8. free_frame' => Pool \cap Unmapped \subseteq free' \cup others'
  BY <1>1, <1>2, <1>3, Zenon DEF Returned
<1>. QED
  BY <1>1, <1>2, <1>3, <1>6, <1>7, <1>8, NextInv, ZenonT(30)

\* A space without tables.
LEMMA VmmInitInv == Init => VmmInv
<1>. SUFFICES ASSUME Init PROVE VmmInv
  OBVIOUS
<1>1. /\ mem = [f \in Pool \cup {Root} |-> Table(IF f = Root THEN NoEntry ELSE Garbage)]
      /\ free = Pool /\ others = {} /\ free_frame \in BOOLEAN /\ tlb = {}
      /\ asked = [v \in {} |-> v] /\ rc = "OK"
  BY Zenon DEF Init
<1>2. Garbage \in PageEntry
  BY VmmAssumption DEF Garbage, PageEntry, Settable
<1>3. mem \in Memory
  BY <1>1, <1>2, EntriesTyped, Zenon DEF Memory, Table
<1>4. DOMAIN asked = {} /\ Used = {}
  BY <1>1, Zenon DEF Used
<1>5. \A i \in Index : ~mem[Root][i].present
  <2>1. mem[Root] = Table(NoEntry)
    BY <1>1, Zenon
  <2>. QED
    BY <2>1, EntriesTyped, Zenon DEF Table
<1>. DEFINE place == [f \in {Root} |-> <<>>]
<1>6. place[Root] = <<>>
  BY Zenon
<1>. HIDE DEF place
<1>7. <<>> \in Seq(Index) /\ Len(<<>>) <= 3
  OBVIOUS
<1>8. PlacesOK({}, place)
  BY <1>6, <1>7, Zenon DEF PlacesOK
<1>9. Layout(mem, {}, place)
  BY <1>5, <1>8, Zenon DEF Layout, LinksOK, ParentsOK, Upper
<1>10. Tree(mem, {}, place, asked)
  BY <1>4, <1>9, Zenon DEF Tree, Mapped, NoOther
<1>11. Asked(asked) /\ CacheOK(tlb, asked)
  BY <1>1, <1>4, Zenon DEF Asked, CacheOK
<1>12. Typed
  BY <1>1, <1>3, Zenon DEF Typed
<1>13. TypeOK
  BY <1>11, <1>12, TypesFollow, ZenonT(30)
<1>14. \E p : Tree(mem, Used, p, asked)
  BY <1>4, <1>10, Zenon
<1>15. free \cap others = {} /\ Returned(free)
  BY <1>1, Zenon DEF Returned
<1>. QED
  BY <1>11, <1>13, <1>14, <1>15, Zenon DEF VmmInv

\* The invariant holds throughout.
LEMMA VmmInvHolds == Spec => []VmmInv
<1>1. VmmInv /\ [Next]_vars => VmmInv'
  <2>. SUFFICES ASSUME VmmInv, [Next]_vars PROVE VmmInv'
    OBVIOUS
  <2>1. CASE UNCHANGED vars
    <3>1. rc \in {"OK", "INVAL", "NOMEM", "EXISTS", "NOT_FOUND"}
      BY InvTyped, Zenon DEF Typed
    <3>. QED
      BY <2>1, <3>1, OnlyCode, Zenon DEF vars
  <2>2. CASE Next
    <3>1. {"ACCESSED"} \in SUBSET CpuFlags /\ {"ACCESSED", "DIRTY"} \in SUBSET CpuFlags
      BY Zenon DEF CpuFlags
    <3>. QED
      BY <2>2, <3>1, MapStep, UnmapStep, AccessStep, OthersStep, ZenonT(30) DEF Next
  <2>. QED
    BY <2>1, <2>2, Zenon
<1>. QED
  BY <1>1, VmmInitInv, PTL DEF Spec

-----------------------------------------------------------------------------
(* The properties.                                                         *)

\* vmm_query_page reports for every page exactly what the last successful
\* vmm_map_page asked for and how the CPU has used the page since, and finds
\* nothing where nothing is mapped, whatever calls failed in between.
THEOREM VmmQueryExact == Spec => []QueryExact
<1>1. VmmInv => QueryExact
  <2>. SUFFICES ASSUME VmmInv, NEW v \in VAddrs
       PROVE  LET q == vmm_query_page(v) IN
              /\ (q.rc = "OK") <=> v \in DOMAIN asked
              /\ q.rc = "OK" => /\ q.page = asked[v].page % PhysPages
                                /\ q.flags \ CpuFlags =
                                     asked[v].flags \ {"ACCESSED", "DIRTY", "HUGE"}
                                /\ q.flags \cap CpuFlags = asked[v].used
    BY Zenon DEF QueryExact
  <2>. DEFINE q == vmm_query_page(v)
  <2>1. Asked(asked)
    BY Zenon DEF VmmInv
  <2>2. CASE v \notin DOMAIN asked
    <3>1. v \in Pages => ~Translation(v).present
      BY <2>2, TranslationIs, Zenon
    <3>2. /\ q = [rc |-> "INVAL"] \/ (Reached(v).rc # "OK" /\ q = [rc |-> Reached(v).rc])
             \/ q = [rc |-> "NOT_FOUND"]
      BY <3>1, Zenon DEF vmm_query_page, Pages
    <3>3. q.rc # "OK"
      BY <3>2
    <3>. QED
      BY <2>2, <3>3, Zenon
  <2>3. CASE v \in DOMAIN asked
    <3>. DEFINE fl == asked[v].flags
                us == asked[v].used
    <3>1. v \in Pages /\ fl \in SUBSET PteFlags /\ us \in SUBSET CpuFlags
      BY <2>1, <2>3, SMTT(30) DEF Asked, Request
    <3>. HIDE DEF fl, us
    <3>2. Reached(v).rc = "OK" /\ Translation(v) = Leaf(asked[v])
      BY <2>3, <3>1, TranslationIs, ZenonT(30)
    <3>3. /\ Translation(v).present /\ Translation(v).page = asked[v].page % PhysPages
          /\ Translation(v).flags = Allowed(fl) \cup us
      BY <3>2, LeafFields, Zenon DEF fl, us
    <3>. DEFINE tr == Translation(v)
    <3>4. q = [rc |-> "OK", page |-> tr.page, flags |-> tr.flags]
      BY <3>1, <3>2, <3>3, ZenonT(30) DEF vmm_query_page, Pages
    <3>. HIDE DEF q, tr
    <3>5. q.rc = "OK" /\ q.page = tr.page /\ q.flags = tr.flags
      BY <3>4, SMTT(30)
    <3>6. /\ (Allowed(fl) \cup us) \ CpuFlags = fl \ {"ACCESSED", "DIRTY", "HUGE"}
          /\ (Allowed(fl) \cup us) \cap CpuFlags = us
      <4>1. \A c \in CpuFlags : c \notin Settable /\ c \in {"ACCESSED", "DIRTY", "HUGE"}
        BY DEF CpuFlags, Settable
      <4>2. \A c \in PteFlags : c \in Settable \/ c \in {"ACCESSED", "DIRTY", "HUGE"}
        BY Zenon DEF CpuFlags, PteFlags
      <4>3. \A c \in Settable : c \notin {"ACCESSED", "DIRTY", "HUGE"}
        BY DEF Settable
      <4>4. (Allowed(fl) \cup us) \ CpuFlags = fl \cap Settable
        BY <3>1, <4>1, Zenon DEF Allowed
      <4>5. (Allowed(fl) \cup us) \cap CpuFlags = us
        BY <3>1, <4>1, Zenon DEF Allowed
      <4>. DEFINE D == {"ACCESSED", "DIRTY", "HUGE"}
      <4>. HIDE DEF D
      <4>6. fl \cap Settable = fl \ D
        BY <3>1, <4>2, <4>3, ZenonT(30) DEF D
      <4>. QED
        BY <4>4, <4>5, <4>6, Zenon DEF D
    <3>. QED
      BY <2>3, <3>3, <3>5, <3>6, ZenonT(30) DEF q, tr, fl, us
  <2>. QED
    BY <2>2, <2>3, Zenon
<1>. QED
  BY <1>1, VmmInvHolds, PTL

\* vmm_unmap_page removes a page from the TLB with its entry, and vmm_map_page
\* never changes an entry that is present, so every translation in the TLB is
\* the one the tables have.
THEOREM VmmTlbCoherent == Spec => []TlbCoherent
<1>1. VmmInv => TlbCoherent
  <2>. SUFFICES ASSUME VmmInv, NEW t \in tlb
       PROVE  Translation(t[1]).present /\ Translation(t[1]).page = t[2]
    BY Zenon DEF TlbCoherent
  <2>. DEFINE v == t[1]
  <2>1. v \in DOMAIN asked /\ t[2] = asked[v].page % PhysPages /\ v \in Pages
    BY Zenon DEF VmmInv, CacheOK, Asked
  <2>. HIDE DEF v
  <2>2. Translation(v) = Leaf(asked[v])
    BY <2>1, TranslationIs, Zenon
  <2>. QED
    BY <2>1, <2>2, LeafFields, ZenonT(30) DEF v
<1>. QED
  BY <1>1, VmmInvHolds, PTL

INSTANCE FiniteSetTheorems

\* The tables at the end of paths of length n, from the root.
AtDepth(place, n) == {f \in Used \cup {Root} : Len(place[f]) = n}

\* The tables of a level are the ones the entries of the level above lead to.
LEMMA LevelBelow ==
  ASSUME NEW place, Layout(mem, Used, place), NEW n \in 0 .. 2
  PROVE  UNION {Links(f) : f \in AtDepth(place, n)} = AtDepth(place, n + 1)
<1>1. \A f \in Used \cup {Root} : place[f] \in Seq(Index) /\ Len(place[f]) \in Nat
  <2>1. \A f \in Used \cup {Root} : place[f] \in Seq(Index)
    BY Zenon DEF Layout, PlacesOK
  <2>2. \A s \in Seq(Index) : Len(s) \in Nat
    OBVIOUS
  <2>. QED
    BY <2>1, <2>2, ZenonT(30)
<1>2. AtDepth(place, n) \subseteq Upper(Used, place)
  <2>1. n < 3
    OBVIOUS
  <2>. QED
    BY <2>1, ZenonT(30) DEF AtDepth, Upper
<1>3. ASSUME NEW g \in UNION {Links(f) : f \in AtDepth(place, n)}
      PROVE  g \in AtDepth(place, n + 1)
  <2>1. PICK f \in AtDepth(place, n), i \in Index : mem[f][i].present /\ mem[f][i].page = g
    BY <1>3, ZenonT(30) DEF Links
  <2>2. g \in Used /\ place[g] = Append(place[f], i)
    BY <1>2, <2>1, ZenonT(30) DEF Layout, LinksOK
  <2>3. place[f] \in Seq(Index) /\ Len(place[f]) = n
    BY <1>1, ZenonT(30) DEF AtDepth
  <2>4. Len(place[g]) = n + 1
    BY <2>2, <2>3, PathStep, ZenonT(30)
  <2>. QED
    BY <2>2, <2>4, ZenonT(30) DEF AtDepth
<1>4. ASSUME NEW g \in AtDepth(place, n + 1)
      PROVE  g \in UNION {Links(f) : f \in AtDepth(place, n)}
  <2>1. g \in Used \cup {Root} /\ Len(place[g]) = n + 1
    BY ZenonT(30) DEF AtDepth
  <2>2. place[g] # <<>>
    <3>1. Len(<<>>) = 0 /\ n + 1 # 0
      BY SMTT(30)
    <3>. QED
      BY <2>1, <3>1, ZenonT(30)
  <2>3. g \in Used
    BY <2>1, <2>2, ZenonT(30) DEF Layout, PlacesOK
  <2>4. PICK f \in Upper(Used, place), i \in Index : mem[f][i].present /\ mem[f][i].page = g
    BY <2>3, ZenonT(30) DEF Layout, ParentsOK
  <2>5. place[g] = Append(place[f], i) /\ f \in Used \cup {Root}
    BY <2>4, ZenonT(30) DEF Layout, LinksOK, Upper
  <2>6. Len(place[f]) + 1 = n + 1 /\ Len(place[f]) \in Nat
    BY <1>1, <2>1, <2>5, PathStep, ZenonT(30)
  <2>7. Len(place[f]) = n
    <3>1. \A k \in Nat : k + 1 = n + 1 => k = n
      OBVIOUS
    <3>. QED
      BY <2>6, <3>1, ZenonT(30)
  <2>8. f \in AtDepth(place, n)
    BY <2>5, <2>7, ZenonT(30) DEF AtDepth
  <2>9. g \in Links(f)
    BY <2>4, ZenonT(30) DEF Links
  <2>. QED
    BY <2>8, <2>9, ZenonT(30)
<1>. QED
  BY <1>3, <1>4, ZenonT(30)

\* The entries of the three upper levels that are present.
UpperLinks(place) ==
  {x \in Upper(Used, place) \X Index : mem[x[1]][x[2]].present}

\* Every table below the root has exactly one such entry.
LEMMA LinkedOnce ==
  ASSUME NEW place, Layout(mem, Used, place), IsFiniteSet(Used)
  PROVE  Cardinality(UpperLinks(place)) = Cardinality(Used)
<1>. DEFINE L == UpperLinks(place)
            to == [x \in L |-> mem[x[1]][x[2]].page]
<1>1. ASSUME NEW x \in L
      PROVE  /\ x[1] \in Upper(Used, place) /\ x[2] \in Index /\ x = <<x[1], x[2]>>
             /\ mem[x[1]][x[2]].present /\ to[x] = mem[x[1]][x[2]].page
  <2>1. x \in Upper(Used, place) \X Index /\ mem[x[1]][x[2]].present
    BY <1>1, ZenonT(30) DEF UpperLinks
  <2>2. to[x] = mem[x[1]][x[2]].page
    BY <1>1, ZenonT(30)
  <2>. HIDE DEF to, L
  <2>. QED
    BY <2>1, <2>2, SMTT(30)
<1>2. ASSUME NEW x \in L
      PROVE  to[x] \in Used /\ place[to[x]] = Append(place[x[1]], x[2])
  <2>. DEFINE f == x[1]
              i == x[2]
  <2>1. f \in Upper(Used, place) /\ i \in Index /\ mem[f][i].present /\ to[x] = mem[f][i].page
    BY <1>1, <1>2, ZenonT(30)
  <2>. HIDE DEF to, L, f, i
  <2>2. mem[f][i].page \in Used /\ place[mem[f][i].page] = Append(place[f], i)
    BY <2>1, ZenonT(30) DEF Layout, LinksOK
  <2>3. to[x] \in Used /\ place[to[x]] = Append(place[f], i)
    BY <2>1, <2>2, ZenonT(30)
  <2>. QED
    BY <2>3, ZenonT(30) DEF f, i
<1>3. DOMAIN to = L /\ to \in [L -> Used]
  BY <1>2, ZenonT(30)
<1>. HIDE DEF to, L
<1>4. ASSUME NEW x \in L, NEW y \in L, to[x] = to[y] PROVE x = y
  <2>1. Append(place[x[1]], x[2]) = Append(place[y[1]], y[2])
    BY <1>2, <1>4, ZenonT(30)
  <2>2. /\ x[1] \in Used \cup {Root} /\ y[1] \in Used \cup {Root}
        /\ x[2] \in Index /\ y[2] \in Index
    BY <1>1, <1>4, ZenonT(30) DEF Upper
  <2>3. place[x[1]] \in Seq(Index) /\ place[y[1]] \in Seq(Index)
    BY <2>2, ZenonT(30) DEF Layout, PlacesOK
  <2>4. place[x[1]] = place[y[1]] /\ x[2] = y[2]
    <3>. DEFINE s == place[x[1]]
                t == place[y[1]]
                i == x[2]
                j == y[2]
    <3>1. /\ s \in Seq(Index) /\ t \in Seq(Index) /\ i \in Index /\ j \in Index
          /\ Append(s, i) = Append(t, j)
      BY <2>1, <2>2, <2>3, ZenonT(30)
    <3>. HIDE DEF s, t, i, j
    <3>2. s = t /\ i = j
      BY ONLY <3>1, PathParts, SMTT(30)
    <3>. QED
      BY <3>2, ZenonT(30) DEF s, t, i, j
  <2>5. x[1] = y[1]
    BY <2>2, <2>4, ZenonT(30) DEF Layout, PlacesOK
  <2>. QED
    BY <1>1, <1>4, <2>4, <2>5, ZenonT(30)
<1>5. ASSUME NEW g \in Used PROVE \E x \in L : to[x] = g
  <2>1. PICK f \in Upper(Used, place), i \in Index : mem[f][i].present /\ mem[f][i].page = g
    BY <1>5, ZenonT(30) DEF Layout, ParentsOK
  <2>. DEFINE x == <<f, i>>
  <2>2. x[1] = f /\ x[2] = i /\ x \in Upper(Used, place) \X Index
    OBVIOUS
  <2>. HIDE DEF x
  <2>3. x \in L
    BY <2>1, <2>2, ZenonT(30) DEF L, UpperLinks
  <2>. QED
    BY <1>1, <2>1, <2>2, <2>3, ZenonT(30)
<1>. DEFINE from == [g \in Used |-> CHOOSE x \in L : to[x] = g]
<1>6. \A g \in Used : from[g] \in L /\ to[from[g]] = g
  BY <1>5, ZenonT(30)
<1>7. DOMAIN from = Used /\ from \in [Used -> L]
  BY <1>6, ZenonT(30)
<1>. HIDE DEF from
<1>8. from \in Injection(Used, L)
  BY <1>6, <1>7, ZenonT(50) DEF Injection, IsInjective
<1>9. \A x \in L : from[to[x]] = x
  BY <1>3, <1>4, <1>6, Zenon
<1>10. from \in Surjection(Used, L)
  BY <1>3, <1>7, <1>9, Zenon DEF Surjection
<1>11. ExistsBijection(Used, L)
  BY <1>8, <1>10, ZenonT(30) DEF Bijection, ExistsBijection
<1>. QED
  BY <1>11, FS_Bijection, ZenonT(30) DEF L

\* Every frame that the address space has taken from the allocator is a table
\* with exactly one entry that leads to it, whatever calls failed half-way
\* through vmm_map_page.
THEOREM VmmFramesAreTables == Spec => []FramesAreTables
<1>1. VmmInv => FramesAreTables
  <2>. SUFFICES ASSUME VmmInv PROVE FramesAreTables
    OBVIOUS
  <2>1. PICK place : Layout(mem, Used, place)
    BY ZenonT(30) DEF VmmInv, Tree
  <2>2. AtDepth(place, 0) = {Root}
    <3>1. \A s \in Seq(Index) : Len(s) = 0 <=> s = <<>>
      OBVIOUS
    <3>. QED
      BY <2>1, <3>1, ZenonT(30) DEF AtDepth, Layout, PlacesOK
  <2>3. Second = AtDepth(place, 1)
    <3>1. 0 \in 0 .. 2 /\ 0 + 1 = 1
      OBVIOUS
    <3>2. UNION {Links(f) : f \in AtDepth(place, 0)} = AtDepth(place, 0 + 1)
      BY <2>1, <3>1, LevelBelow, ZenonT(30)
    <3>3. UNION {Links(f) : f \in {Root}} = AtDepth(place, 1)
      BY <2>2, <3>1, <3>2, ZenonT(30)
    <3>. QED
      BY <3>3, ZenonT(30) DEF Second
  <2>4. Third = AtDepth(place, 2)
    <3>1. 1 \in 0 .. 2 /\ 1 + 1 = 2
      BY SMTT(30)
    <3>2. UNION {Links(f) : f \in AtDepth(place, 1)} = AtDepth(place, 1 + 1)
      BY <2>1, <3>1, LevelBelow, ZenonT(30)
    <3>. QED
      BY <2>3, <3>1, <3>2, ZenonT(30) DEF Third
  <2>5. Lowest = AtDepth(place, 3)
    <3>1. 2 \in 0 .. 2 /\ 2 + 1 = 3
      BY SMTT(30)
    <3>2. UNION {Links(f) : f \in AtDepth(place, 2)} = AtDepth(place, 2 + 1)
      BY <2>1, <3>1, LevelBelow, ZenonT(30)
    <3>. QED
      BY <2>4, <3>1, <3>2, ZenonT(30) DEF Lowest
  <2>6. Used \subseteq Pool /\ Root \notin Used
    BY VmmAssumption, ZenonT(30) DEF Used
  <2>7. \A f \in Used \cup {Root} : f # Root => Len(place[f]) \in {1, 2, 3}
    <3>1. \A s \in Seq(Index) : Len(s) \in Nat /\ (Len(s) = 0 => s = <<>>)
      BY SMTT(30)
    <3>2. \A n \in Nat : n <= 3 /\ n # 0 => n \in {1, 2, 3}
      BY SMTT(30)
    <3>. QED
      BY <2>1, <3>1, <3>2, ZenonT(30) DEF Layout, PlacesOK
  <2>8. Second \cup Third \cup Lowest = Used
    <3>1. Root \notin AtDepth(place, 1) \cup AtDepth(place, 2) \cup AtDepth(place, 3)
      <4>1. Len(place[Root]) = 0
        BY <2>2, ZenonT(30) DEF AtDepth
      <4>2. 0 # 1 /\ 0 # 2 /\ 0 # 3
        BY SMTT(30)
      <4>. QED
        BY <4>1, <4>2, ZenonT(30) DEF AtDepth
    <3>2. Second \cup Third \cup Lowest \subseteq Used
      BY <2>3, <2>4, <2>5, <3>1, ZenonT(30) DEF AtDepth
    <3>3. Used \subseteq Second \cup Third \cup Lowest
      BY <2>3, <2>4, <2>5, <2>6, <2>7, ZenonT(30) DEF AtDepth
    <3>. QED
      BY <3>2, <3>3, ZenonT(30)
  <2>9. {Root} \cup Second \cup Third = Upper(Used, place)
    <3>1. \A s \in Seq(Index) : Len(s) < 3 <=> Len(s) = 0 \/ Len(s) = 1 \/ Len(s) = 2
      <4>1. \A s \in Seq(Index) : Len(s) \in Nat
        BY SMTT(30)
      <4>2. \A n \in Nat : n < 3 <=> n = 0 \/ n = 1 \/ n = 2
        BY SMTT(30)
      <4>. QED
        BY <4>1, <4>2, ZenonT(30)
    <3>2. \A f \in Used \cup {Root} : place[f] \in Seq(Index)
      BY <2>1, ZenonT(30) DEF Layout, PlacesOK
    <3>3. \A f \in Used \cup {Root} :
            f \in Upper(Used, place) <=>
              f \in AtDepth(place, 0) \/ f \in AtDepth(place, 1) \/ f \in AtDepth(place, 2)
      BY <3>1, <3>2, ZenonT(30) DEF Upper, AtDepth
    <3>4. /\ Upper(Used, place) \subseteq Used \cup {Root}
          /\ AtDepth(place, 0) \cup AtDepth(place, 1) \cup AtDepth(place, 2)
               \subseteq Used \cup {Root}
      BY ZenonT(30) DEF Upper, AtDepth
    <3>. QED
      BY <2>2, <2>3, <2>4, <3>3, <3>4, ZenonT(30)
  <2>. DEFINE links == UNION {{<<f, i>> : i \in {j \in Index : mem[f][j].present}} :
                                f \in Upper(Used, place)}
  <2>10. links = UpperLinks(place)
    <3>1. ASSUME NEW x \in links PROVE x \in UpperLinks(place)
      <4>1. PICK f \in Upper(Used, place), i \in Index : mem[f][i].present /\ x = <<f, i>>
        BY <3>1, ZenonT(30)
      <4>2. x \in Upper(Used, place) \X Index /\ x[1] = f /\ x[2] = i
        BY <4>1, SMTT(30)
      <4>. QED
        BY <4>1, <4>2, ZenonT(30) DEF UpperLinks
    <3>2. ASSUME NEW x \in UpperLinks(place) PROVE x \in links
      <4>1. x \in Upper(Used, place) \X Index /\ mem[x[1]][x[2]].present
        BY <3>2, ZenonT(30) DEF UpperLinks
      <4>2. x[1] \in Upper(Used, place) /\ x[2] \in Index /\ x = <<x[1], x[2]>>
        BY <4>1, SMTT(30)
      <4>. DEFINE f == x[1]
                  i == x[2]
                  row == {<<f, k>> : k \in {j \in Index : mem[f][j].present}}
      <4>3. <<f, i>> \in row
        BY <4>1, <4>2, ZenonT(30)
      <4>4. row \in {{<<g, k>> : k \in {j \in Index : mem[g][j].present}} :
                       g \in Upper(Used, place)}
        BY <4>2, ZenonT(30)
      <4>. HIDE DEF row
      <4>5. <<f, i>> \in links
        BY <4>3, <4>4, ZenonT(30)
      <4>. QED
        BY <4>2, <4>5, ZenonT(30)
    <3>. QED
      BY <3>1, <3>2, ZenonT(30)
  <2>11. IsFiniteSet(Used)
    <3>1. IsFiniteSet(0 .. PhysPages - 1)
      <4>1. 0 \in Int /\ PhysPages - 1 \in Int
        BY VmmAssumption, SMTT(30)
      <4>. QED
        BY <4>1, FS_Interval, ZenonT(30)
    <3>2. Used \subseteq 0 .. PhysPages - 1
      BY <2>6, VmmAssumption, ZenonT(30)
    <3>. QED
      BY <3>1, <3>2, FS_Subset, ZenonT(30)
  <2>12. Cardinality(links) = Cardinality(Used)
    <3>. HIDE DEF links
    <3>. QED
      BY <2>1, <2>10, <2>11, LinkedOnce, ZenonT(30)
  <2>13. /\ TypeOK /\ Used = (Pool \ Unmapped) \ (free \cup others)
         /\ free_frame => Pool \cap Unmapped \subseteq free \cup others
    BY Zenon DEF VmmInv, Used, Returned
  <2>. QED
    BY <2>8, <2>9, <2>12, <2>13, ZenonT(30) DEF FramesAreTables
<1>. QED
  BY <1>1, VmmInvHolds, PTL
=============================================================================
