------------------------------ MODULE VfsProofs ------------------------------
(***************************************************************************)
(* That the RAM file system keeps its nodes, regions and names in order,   *)
(* and that what is read is what was written, for any paths, flags, writes *)
(* and seeks of any processes.                                             *)
(***************************************************************************)
EXTENDS Vfs, WellFoundedInduction, TLAPS

-----------------------------------------------------------------------------
(* The invariant, as a predicate of values, so that it can also be said of *)
(* the nodes between the two halves of an open that creates and truncates. *)

Codes == {"OK", "ENOENT", "EBADF", "EACCES", "ENOTDIR", "EISDIR", "EINVAL",
          "ENFILE", "ENOSPC", "ENAMETOOLONG", "cut"}

NodeT == [parent : Nat, dir : BOOLEAN, name : Segments \cup {"/"}, size : Nat,
          data_offset : Nat, data_capacity : Nat]

FileT == [flags : SUBSET Flags, node : Nat, offset : Nat]

\* Node i lies in the data area below used; only the root is a directory.
NodeOK(ns, used, i) ==
  /\ ns[i].parent \in 1 .. Len(ns)
  /\ ns[i].dir <=> i = 1
  /\ ns[i].data_capacity = IF i = 1 THEN 0 ELSE Capacity
  /\ ns[i].size <= ns[i].data_capacity
  /\ ns[i].data_offset + ns[i].data_capacity <= used

\* The regions lie one behind the other, in the order of the nodes.
InOrder(ns) ==
  \A i, j \in 1 .. Len(ns) : i < j =>
    ns[i].data_offset + ns[i].data_capacity <= ns[j].data_offset

\* No directory has two entries of one name.
NamesApart(ns) ==
  \A i, j \in 1 .. Len(ns) : i # j =>
    ns[i].parent # ns[j].parent \/ ns[i].name # ns[j].name

NodesOK(ns, used) ==
  /\ ns \in Seq(NodeT) /\ Len(ns) >= 1
  /\ used \in 0 .. DataBytes
  /\ \A i \in 1 .. Len(ns) : NodeOK(ns, used, i)
  /\ InOrder(ns)
  /\ NamesApart(ns)

\* A descriptor in use, when there are n nodes.
FileOK(f, n) ==
  /\ f \in FileT
  /\ f.node \in 1 .. n
  /\ f.offset <= 2 * LongMax + 1
  /\ can_write(f.flags) => f.node # 1

TableOK(t, n) ==
  /\ DOMAIN t \subseteq 0 .. MaxOpen - 1
  /\ \A fd \in DOMAIN t : FileOK(t[fd], n)

FilesOK(fs, n) ==
  /\ DOMAIN fs = Procs
  /\ \A p \in Procs : TableOK(fs[p], n)

\* text is what node n says, up to holes, when the data area is d.
TextOK(text, n, d) ==
  /\ text \in Seq(Int) /\ Len(text) = n.size
  /\ \A k \in 1 .. n.size : text[k] = Hole \/ text[k] = d[n.data_offset + k - 1]

TextsOK(ts, ns, d) ==
  /\ ts \in Seq(Seq(Int)) /\ Len(ts) = Len(ns)
  /\ \A i \in 1 .. Len(ns) : TextOK(ts[i], ns[i], d)

\* The bytes of the data area.
Area == [0 .. DataBytes - 1 -> Nat]

IInv ==
  /\ NodesOK(nodes, data_used)
  /\ data \in Area
  /\ FilesOK(files, Len(nodes))
  /\ TextsOK(contents, nodes, data)
  /\ rc \in Codes

-----------------------------------------------------------------------------
(* The arithmetic of offsets, apart from the file system it is about.      *)

\* An offset taken from a file's size or from its descriptor is in range.
LEMMA OffsetInRange ==
  ASSUME NEW L \in Nat, NEW s \in Nat, NEW c \in Nat, NEW o \in Nat, NEW at,
         c <= L, s <= c, o <= 2 * L + 1, at = s \/ at = o
  PROVE  at \in Nat /\ at <= 2 * L + 1
OBVIOUS

\* An offset moved behind what was written, and not beyond the capacity.
LEMMA MovedInRange ==
  ASSUME NEW L \in Nat, NEW c \in Nat, NEW at \in Nat, NEW n \in Nat, c <= L,
         ~(at + n > c)
  PROVE  at + n \in Nat /\ at + n <= c /\ at + n <= 2 * L + 1
OBVIOUS

\* A size_t read back as a long is at most the largest long.
LEMMA AsLongInRange ==
  ASSUME NEW o \in Nat, LongMax \in Nat, o <= 2 * LongMax + 1
  PROVE  AsLong(o) \in Int /\ AsLong(o) <= LongMax
BY DEF AsLong

\* A region that ends below used lies within any area that used lies in.
LEMMA RegionWithin ==
  ASSUME NEW d \in Nat, NEW c \in Nat, NEW used \in Nat, NEW N \in Nat,
         d + c <= used, used <= N
  PROVE  d .. d + c - 1 \subseteq (0 .. used - 1) \cap (0 .. N - 1)
OBVIOUS

\* A function on 1 .. m is a sequence of length m.
LEMMA FunctionIsSeq ==
  ASSUME NEW m \in Nat, NEW S, NEW v \in [1 .. m -> S]
  PROVE  v \in Seq(S) /\ Len(v) = m
OBVIOUS

-----------------------------------------------------------------------------
(* Numbers.                                                                *)

\* A set of numbers that is not empty has a least one.
LEMMA Least ==
  ASSUME NEW S \in SUBSET Nat, S # {}
  PROVE  \E m \in S : \A k \in S : m <= k
<1>. DEFINE R == OpToRel(<, Nat)
<1>1. PICK m \in S : \A k \in S : <<k, m>> \notin R
  <2>1. IsWellFoundedOn(R, Nat)
    BY NatLessThanWellFounded, Zenon
  <2>. QED
    BY <2>1, WFMin, Zenon
<1>2. ASSUME NEW k \in S PROVE m <= k
  <2>1. ~(k < m)
    BY <1>1, Zenon DEF OpToRel
  <2>. QED
    BY <2>1
<1>. QED
  BY <1>2, Zenon

\* Induction up to n: a set that has 0 and, with k below n, also k + 1.
LEMMA UpTo ==
  ASSUME NEW n \in Nat, NEW S, 0 \in S, \A k \in 0 .. n - 1 : k \in S => k + 1 \in S
  PROVE  0 .. n \subseteq S
<1>. SUFFICES ASSUME NEW x \in 0 .. n, x \notin S PROVE FALSE
  BY Zenon
<1>. DEFINE T == {k \in 0 .. n : k \notin S}
<1>1. T \in SUBSET Nat /\ T # {}
  OBVIOUS
<1>2. PICK m \in T : \A k \in T : m <= k
  BY <1>1, Least, Zenon
<1>3. m \in 0 .. n /\ m \notin S /\ m # 0
  BY <1>2, Zenon
<1>4. m - 1 \in 0 .. n - 1 /\ m - 1 \in 0 .. n /\ ~(m <= m - 1) /\ m - 1 + 1 = m
  BY <1>3
<1>5. m - 1 \in S
  BY <1>2, <1>4, Zenon
<1>. QED
  BY <1>3, <1>4, <1>5

-----------------------------------------------------------------------------
(* The walk along a path.                                                  *)

\* f is the walk along segs, up to n segments.
IsDescent(segs, n, f) ==
  f = [i \in 0 .. n |-> IF i = 0 THEN Found(1) ELSE Enter(f[i - 1], segs[i])]

\* A walk of one segment more.
LEMMA DescentNext ==
  ASSUME NEW segs, NEW n \in Nat, NEW f, IsDescent(segs, n, f)
  PROVE  \E g : IsDescent(segs, n + 1, g)
<1>. DEFINE g == [i \in 0 .. n + 1 |-> IF i <= n THEN f[i] ELSE Enter(f[n], segs[n + 1])]
            h == [i \in 0 .. n + 1 |-> IF i = 0 THEN Found(1) ELSE Enter(g[i - 1], segs[i])]
<1>1. ASSUME NEW i \in 0 .. n + 1 PROVE g[i] = h[i]
  <2>1. CASE i = 0
    <3>1. 0 \in 0 .. n /\ 0 \in 0 .. n + 1 /\ 0 <= n
      OBVIOUS
    <3>2. f[0] = Found(1)
      BY <3>1, Zenon DEF IsDescent
    <3>3. g[0] = f[0] /\ h[0] = Found(1)
      BY <3>1, Zenon
    <3>. QED
      BY <2>1, <3>2, <3>3, Zenon
  <2>2. CASE i \in 1 .. n
    <3>1. i \in 0 .. n /\ i # 0 /\ i <= n /\ i - 1 \in 0 .. n + 1 /\ i - 1 <= n
      BY <2>2
    <3>2. f[i] = Enter(f[i - 1], segs[i])
      BY <3>1, Zenon DEF IsDescent
    <3>3. g[i] = f[i] /\ g[i - 1] = f[i - 1] /\ h[i] = Enter(g[i - 1], segs[i])
      BY <3>1, Zenon
    <3>. QED
      BY <3>2, <3>3, Zenon
  <2>3. CASE i = n + 1
    <3>1. i # 0 /\ i - 1 = n /\ n \in 0 .. n + 1 /\ n <= n /\ ~(i <= n)
      BY <2>3
    <3>2. g[n] = f[n] /\ g[i] = Enter(f[n], segs[n + 1]) /\ h[i] = Enter(g[n], segs[i])
      BY <3>1, Zenon
    <3>. QED
      BY <2>3, <3>2, Zenon
  <2>4. i = 0 \/ i \in 1 .. n \/ i = n + 1
    OBVIOUS
  <2>. QED
    BY <2>1, <2>2, <2>3, <2>4, Zenon
<1>2. g = h
  BY <1>1, Zenon
<1>3. IsDescent(segs, n + 1, g)
  BY <1>2, Zenon DEF IsDescent
<1>. QED
  BY <1>3, Zenon

\* The loop over the segments, turn by turn.
LEMMA DescendIs ==
  ASSUME NEW segs, Len(segs) \in Nat
  PROVE  /\ Descend(segs)[0] = Found(1)
         /\ \A i \in 1 .. Len(segs) : Descend(segs)[i] = Enter(Descend(segs)[i - 1], segs[i])
<1>. DEFINE n == Len(segs)
            S == {k \in Nat : \E f : IsDescent(segs, k, f)}
<1>1. 0 \in S
  <2>. DEFINE f == [i \in 0 .. 0 |-> Found(1)]
  <2>1. \A i \in 0 .. 0 : i = 0
    OBVIOUS
  <2>2. f = [i \in 0 .. 0 |-> IF i = 0 THEN Found(1) ELSE Enter(f[i - 1], segs[i])]
    BY <2>1, Zenon
  <2>3. IsDescent(segs, 0, f)
    BY <2>2, Zenon DEF IsDescent
  <2>. QED
    BY <2>3, Zenon
<1>2. \A k \in 0 .. n - 1 : k \in S => k + 1 \in S
  <2>. TAKE k \in 0 .. n - 1
  <2>1. k \in Nat /\ k + 1 \in Nat
    OBVIOUS
  <2>. QED
    BY <2>1, DescentNext, Zenon
<1>3. n \in S
  <2>1. 0 .. n \subseteq S
    BY <1>1, <1>2, UpTo, Zenon
  <2>2. n \in 0 .. n
    OBVIOUS
  <2>. QED
    BY <2>1, <2>2, Zenon
<1>4. IsDescent(segs, n, Descend(segs))
  BY <1>3, Zenon DEF Descend, IsDescent
<1>5. /\ 0 \in 0 .. n
      /\ \A i \in 1 .. n : i \in 0 .. n /\ i # 0
  OBVIOUS
<1>. HIDE DEF S
<1>. QED
  BY <1>4, <1>5, Zenon DEF IsDescent

\* The answer of a search: a node there is, or an error.
Answer(r) ==
  /\ r.ok \in BOOLEAN /\ r.code \in Codes
  /\ r.ok => r.node \in 1 .. Len(nodes)
  /\ ~r.ok => r.code # "OK"

\* find_child answers with a child of that name, if there is one.
LEMMA ChildIs ==
  ASSUME nodes \in Seq(NodeT), NEW parent, NEW name
  PROVE  LET r == find_child(parent, name) IN
         /\ Answer(r)
         /\ ~r.ok => \A i \in 1 .. Len(nodes) :
                        nodes[i].parent # parent \/ nodes[i].name # name
<1>. DEFINE hits == {i \in DOMAIN nodes : nodes[i].parent = parent /\ nodes[i].name = name}
            r == find_child(parent, name)
            least(i) == i \in hits /\ \A j \in hits : i <= j
<1>1. DOMAIN nodes = 1 .. Len(nodes) /\ DOMAIN nodes \subseteq Nat
  OBVIOUS
<1>2. CASE hits = {}
  <2>1. r = Failed("ENOENT")
    BY <1>2, Zenon DEF find_child
  <2>2. r.ok = FALSE /\ r.code = "ENOENT"
    BY <2>1 DEF Failed
  <2>3. \A i \in 1 .. Len(nodes) : nodes[i].parent # parent \/ nodes[i].name # name
    BY <1>1, <1>2, Zenon
  <2>. QED
    BY <2>2, <2>3, Zenon DEF Answer, Codes
<1>3. CASE hits # {}
  <2>1. \E i \in hits : \A j \in hits : i <= j
    <3>1. hits \in SUBSET Nat
      BY <1>1, Zenon
    <3>. QED
      BY <1>3, <3>1, Least, Zenon
  <2>. DEFINE m == CHOOSE i \in hits : \A j \in hits : i <= j
  <2>2. m \in hits
    BY <2>1, Zenon
  <2>3. r = Found(m)
    BY <1>3, Zenon DEF find_child
  <2>. HIDE DEF m
  <2>4. r.ok = TRUE /\ r.node = m /\ r.code = "OK"
    BY <2>3 DEF Found
  <2>. QED
    BY <1>1, <2>2, <2>4, Zenon DEF Answer, Codes
<1>. QED
  BY <1>2, <1>3, Zenon

\* Every turn of the loop answers with a node there is, or an error.
LEMMA EnterAnswers ==
  ASSUME nodes \in Seq(NodeT), NEW cur, Answer(cur), NEW seg
  PROVE  Answer(Enter(cur, seg))
<1>1. Answer(Failed("ENOTDIR")) /\ Answer(Failed("EINVAL"))
  BY Zenon DEF Answer, Failed, Codes
<1>2. Answer(find_child(cur.node, seg))
  BY ChildIs, Zenon
<1>. QED
  BY <1>1, <1>2, Zenon DEF Enter

\* So does the loop.
LEMMA DescendAnswers ==
  ASSUME nodes \in Seq(NodeT), Len(nodes) >= 1, NEW segs, Len(segs) \in Nat
  PROVE  \A i \in 0 .. Len(segs) : Answer(Descend(segs)[i])
<1>. DEFINE d == Descend(segs)
            n == Len(segs)
            S == {k \in Nat : Answer(d[k])}
<1>1. d[0] = Found(1) /\ \A i \in 1 .. n : d[i] = Enter(d[i - 1], segs[i])
  BY DescendIs, Zenon
<1>. HIDE DEF d
<1>2. 0 \in S
  <2>1. 1 \in 1 .. Len(nodes)
    OBVIOUS
  <2>2. Answer(Found(1))
    BY <2>1, Zenon DEF Answer, Found, Codes
  <2>. QED
    BY <1>1, <2>2
<1>3. ASSUME NEW k \in 0 .. n - 1, k \in S PROVE k + 1 \in S
  <2>1. k + 1 \in 1 .. n /\ k + 1 - 1 = k /\ k + 1 \in Nat
    OBVIOUS
  <2>2. d[k + 1] = Enter(d[k], segs[k + 1])
    BY <1>1, <2>1
  <2>. QED
    BY <1>3, <2>1, <2>2, EnterAnswers, Zenon
<1>4. 0 .. n \subseteq S
  BY <1>2, <1>3, UpTo, Zenon
<1>. QED
  BY <1>4, Zenon DEF d

-----------------------------------------------------------------------------
(* Creating a file.                                                        *)

\* lookup answers with a node there is, or an error.
LEMMA LookupAnswers ==
  ASSUME NodesOK(nodes, data_used), NEW path \in Paths
  PROVE  Answer(mcs_ramfs_lookup(path))
<1>1. Answer(Failed("EINVAL")) /\ Answer(Failed("ENAMETOOLONG"))
  BY Zenon DEF Answer, Failed, Codes
<1>2. Len(path.segs) \in Nat
  BY VfsAssumption
<1>3. Len(path.segs) \in 0 .. Len(path.segs)
  BY <1>2
<1>4. nodes \in Seq(NodeT) /\ Len(nodes) >= 1
  BY Zenon DEF NodesOK
<1>5. Answer(Descend(path.segs)[Len(path.segs)])
  BY <1>2, <1>3, <1>4, DescendAnswers, Zenon
<1>. QED
  BY <1>1, <1>5, Zenon DEF mcs_ramfs_lookup

\* split_parent_leaf answers with the directory in which a lookup of the same
\* path looks for its last segment, or with an error.
LEMMA SplitAnswers ==
  ASSUME NodesOK(nodes, data_used), NEW path \in Paths
  PROVE  LET d == split_parent_leaf(path)
             n == Len(path.segs)
         IN /\ Answer(d)
            /\ d.ok => /\ n \in 1 .. n
                       /\ mcs_ramfs_lookup(path) = find_child(d.node, path.segs[n])
<1>. DEFINE n == Len(path.segs)
            c == Descend(path.segs)
            d == split_parent_leaf(path)
<1>1. Answer(Failed("EINVAL")) /\ Answer(Failed("ENAMETOOLONG")) /\ Answer(Failed("ENOTDIR"))
  BY Zenon DEF Answer, Failed, Codes
<1>2. n \in Nat
  BY VfsAssumption
<1>3. nodes \in Seq(NodeT) /\ Len(nodes) >= 1
  BY Zenon DEF NodesOK
<1>4. \A i \in 0 .. n : Answer(c[i])
  BY <1>2, <1>3, DescendAnswers, Zenon
<1>5. \A i \in 1 .. n : c[i] = Enter(c[i - 1], path.segs[i])
  BY <1>2, DescendIs, Zenon
<1>6. ~Failed("EINVAL").ok /\ ~Failed("ENAMETOOLONG").ok /\ ~Failed("ENOTDIR").ok
  BY DEF Failed
<1>7. CASE ~path.absolute \/ n = 0
  <2>1. d = Failed("EINVAL")
    BY <1>7, Zenon DEF split_parent_leaf
  <2>. QED
    BY <1>1, <1>6, <2>1, Zenon
<1>8. CASE path.absolute /\ n # 0 /\ path.toolong
  <2>1. d = Failed("ENAMETOOLONG")
    BY <1>8, Zenon DEF split_parent_leaf
  <2>. QED
    BY <1>1, <1>6, <2>1, Zenon
<1>9. CASE path.absolute /\ n # 0 /\ ~path.toolong
  <2>. DEFINE e == c[n - 1]
  <2>1. d = IF ~e.ok THEN e
            ELSE IF ~nodes[e.node].dir THEN Failed("ENOTDIR")
            ELSE IF path.segs[n] \in BadSegments THEN Failed("EINVAL") ELSE e
    BY <1>9, Zenon DEF split_parent_leaf
  <2>2. n \in 1 .. n /\ n - 1 \in 0 .. n
    BY <1>2, <1>9
  <2>3. Answer(e)
    BY <1>4, <2>2, Zenon
  <2>4. mcs_ramfs_lookup(path) = Enter(e, path.segs[n])
    BY <1>5, <1>9, <2>2, Zenon DEF mcs_ramfs_lookup
  <2>. HIDE DEF e, c, n
  <2>5. Answer(d)
    BY <1>1, <2>1, <2>3, ZenonT(30)
  <2>6. ASSUME d.ok PROVE mcs_ramfs_lookup(path) = find_child(d.node, path.segs[n])
    <3>1. d = e /\ e.ok /\ nodes[e.node].dir /\ path.segs[n] \notin BadSegments
      BY <1>6, <2>1, <2>6, Zenon
    <3>. QED
      BY <2>4, <3>1, Zenon DEF Enter
  <2>. QED
    BY <2>2, <2>5, <2>6, Zenon DEF n
<1>. QED
  BY <1>7, <1>8, <1>9, Zenon

\* ns and used are the nodes with one new, empty file.
OneMore(ns, used) ==
  \E dir \in 1 .. Len(nodes), name \in Segments :
    /\ ns = Append(nodes, Node(dir, FALSE, name, data_used, Capacity))
    /\ used = data_used + Capacity /\ used <= DataBytes
    /\ \A i \in 1 .. Len(nodes) : nodes[i].parent # dir \/ nodes[i].name # name

\* create_file finds a file, makes one, or fails.
LEMMA CreatedIs ==
  ASSUME NodesOK(nodes, data_used), NEW path \in Paths
  PROVE  LET c == Created(path) IN
         /\ c.result.ok \in BOOLEAN /\ c.result.code \in Codes
         /\ ~c.result.ok => c.result.code # "OK"
         /\ \/ /\ c.nodes = nodes /\ c.used = data_used
               /\ c.result.ok => c.result.node \in 1 .. Len(nodes) /\ c.result.node # 1
            \/ OneMore(c.nodes, c.used) /\ c.result.ok /\ c.result.node = Len(nodes) + 1
<1>. DEFINE old == mcs_ramfs_lookup(path)
            dir == NewNodeIn(path)
            split == split_parent_leaf(path)
            n == Len(path.segs)
            new == Node(dir.node, FALSE, path.segs[n], data_used, Capacity)
            c == Created(path)
<1>1. Answer(old)
  BY LookupAnswers, Zenon
<1>2. Answer(split) /\ (split.ok => n \in 1 .. n /\ old = find_child(split.node, path.segs[n]))
  BY SplitAnswers, Zenon
<1>3. dir = IF split.ok /\ ~HasRoom THEN Failed("ENOSPC") ELSE split
  BY Zenon DEF NewNodeIn
<1>4. c = IF old.ok THEN [nodes |-> nodes, used |-> data_used, result |->
                            IF nodes[old.node].dir THEN Failed("EISDIR") ELSE old]
          ELSE IF ~dir.ok THEN [nodes |-> nodes, used |-> data_used, result |-> dir]
          ELSE [nodes |-> Append(nodes, new), used |-> data_used + Capacity,
                result |-> Found(Len(nodes) + 1)]
  BY Zenon DEF Created
<1>5. Answer(Failed("EISDIR")) /\ Answer(Failed("ENOSPC"))
  BY Zenon DEF Answer, Failed, Codes
<1>6. ~Failed("EISDIR").ok /\ ~Failed("ENOSPC").ok
  BY DEF Failed
<1>. HIDE DEF old, dir, split, c, n
<1>7. Answer(dir)
  BY <1>2, <1>3, <1>5, Zenon
<1>8. CASE old.ok
  <2>. DEFINE r == IF nodes[old.node].dir THEN Failed("EISDIR") ELSE old
  <2>1. c = [nodes |-> nodes, used |-> data_used, result |-> r]
    BY <1>4, <1>8, Zenon
  <2>2. c.nodes = nodes /\ c.used = data_used /\ c.result = r
    BY <2>1, Zenon
  <2>3. Answer(r)
    BY <1>1, <1>5, Zenon
  <2>4. r.ok => r = old /\ ~nodes[old.node].dir
    BY <1>6, Zenon
  <2>5. 1 \in 1 .. Len(nodes) => nodes[1].dir
    BY Zenon DEF NodesOK, NodeOK
  <2>6. 1 \in 1 .. Len(nodes)
    BY DEF NodesOK
  <2>. HIDE DEF r
  <2>. QED
    BY <2>2, <2>3, <2>4, <2>5, <2>6, Zenon DEF Answer, c
<1>9. CASE ~old.ok /\ ~dir.ok
  <2>1. c = [nodes |-> nodes, used |-> data_used, result |-> dir]
    BY <1>4, <1>9, Zenon
  <2>2. c.nodes = nodes /\ c.used = data_used /\ c.result = dir
    BY <2>1, Zenon
  <2>. QED
    BY <1>7, <1>9, <2>2, Zenon DEF Answer, c
<1>10. CASE ~old.ok /\ dir.ok
  <2>1. c = [nodes |-> Append(nodes, new), used |-> data_used + Capacity,
             result |-> Found(Len(nodes) + 1)]
    BY <1>4, <1>10, Zenon
  <2>2. /\ c.nodes = Append(nodes, new) /\ c.used = data_used + Capacity
        /\ c.result = Found(Len(nodes) + 1)
    BY <2>1, Zenon
  <2>3. c.result.ok = TRUE /\ c.result.node = Len(nodes) + 1 /\ c.result.code = "OK"
    BY <2>2 DEF Found
  <2>4. dir = split /\ split.ok /\ HasRoom
    BY <1>3, <1>6, <1>10, Zenon
  <2>5. dir.node \in 1 .. Len(nodes)
    BY <1>7, <1>10, Zenon DEF Answer
  <2>6. path.segs[n] \in Segments
    <3>1. path.segs \in Seq(Segments)
      BY VfsAssumption, Zenon
    <3>. QED
      BY <1>2, <2>4, <3>1 DEF n
  <2>7. \A i \in 1 .. Len(nodes) :
          nodes[i].parent # dir.node \/ nodes[i].name # path.segs[n]
    <3>1. nodes \in Seq(NodeT)
      BY Zenon DEF NodesOK
    <3>2. ~find_child(dir.node, path.segs[n]).ok
      BY <1>2, <1>10, <2>4, Zenon
    <3>. QED
      BY <3>1, <3>2, ChildIs, Zenon
  <2>8. OneMore(c.nodes, c.used)
    <3>1. c.used <= DataBytes
      BY <2>2, <2>4, Zenon DEF HasRoom
    <3>. DEFINE d == dir.node
                m == path.segs[n]
    <3>2. /\ c.nodes = Append(nodes, Node(d, FALSE, m, data_used, Capacity))
          /\ d \in 1 .. Len(nodes) /\ m \in Segments
          /\ \A i \in 1 .. Len(nodes) : nodes[i].parent # d \/ nodes[i].name # m
      BY <2>2, <2>5, <2>6, <2>7, Zenon
    <3>. HIDE DEF d, m
    <3>. QED
      BY <2>2, <3>1, <3>2, Zenon DEF OneMore
  <2>. QED
    BY <2>3, <2>8, Zenon DEF Codes, c
<1>. QED
  BY <1>8, <1>9, <1>10, Zenon

\* ns are the nodes, with at most one more, which is empty.
Grows(ns, used) ==
  /\ NodesOK(ns, used)
  /\ Len(ns) \in Len(nodes) .. Len(nodes) + 1
  /\ \A i \in 1 .. Len(nodes) : ns[i] = nodes[i]
  /\ \A i \in 1 .. Len(ns) : i > Len(nodes) => ns[i].size = 0

\* A new file takes the region behind the others, under a name of its own.
LEMMA OneMoreGrows ==
  ASSUME NodesOK(nodes, data_used), NEW ns, NEW used, OneMore(ns, used)
  PROVE  Grows(ns, used) /\ Len(ns) = Len(nodes) + 1
<1>. DEFINE L == Len(nodes)
<1>1. PICK dir \in 1 .. L, name \in Segments :
        /\ ns = Append(nodes, Node(dir, FALSE, name, data_used, Capacity))
        /\ used = data_used + Capacity /\ used <= DataBytes
        /\ \A i \in 1 .. L : nodes[i].parent # dir \/ nodes[i].name # name
  BY Zenon DEF OneMore
<1>. DEFINE new == Node(dir, FALSE, name, data_used, Capacity)
<1>2. /\ nodes \in Seq(NodeT) /\ L \in Nat /\ L >= 1
      /\ data_used \in 0 .. DataBytes
      /\ \A i \in 1 .. L : NodeOK(nodes, data_used, i)
      /\ InOrder(nodes) /\ NamesApart(nodes)
  BY DEF NodesOK
<1>3. /\ Capacity \in Nat /\ DataBytes \in Nat
  BY VfsAssumption
<1>4. /\ new.parent = dir /\ new.dir = FALSE /\ new.name = name /\ new.size = 0
      /\ new.data_offset = data_used /\ new.data_capacity = Capacity
  BY DEF Node
<1>5. new \in NodeT
  <2>1. dir \in Nat /\ data_used \in Nat
    BY <1>2, <1>3
  <2>. QED
    BY <1>3, <2>1, Zenon DEF Node, NodeT
<1>6. ns = Append(nodes, new)
  BY <1>1, Zenon
<1>. HIDE DEF new
<1>7. /\ ns \in Seq(NodeT) /\ Len(ns) = L + 1
      /\ \A i \in 1 .. L : ns[i] = nodes[i]
      /\ ns[L + 1] = new
  BY <1>2, <1>5, <1>6, SMTT(30)
<1>8. used \in 0 .. DataBytes /\ data_used <= used
  BY <1>1, <1>2, <1>3
<1>9. \A i \in 1 .. L + 1 : i \in 1 .. L \/ i = L + 1
  BY <1>2
<1>10. ASSUME NEW i \in 1 .. L + 1 PROVE NodeOK(ns, used, i)
  <2>1. CASE i \in 1 .. L
    <3>1. /\ nodes[i].parent \in 1 .. L
          /\ nodes[i].dir <=> i = 1
          /\ nodes[i].data_capacity = IF i = 1 THEN 0 ELSE Capacity
          /\ nodes[i].size <= nodes[i].data_capacity
          /\ nodes[i].data_offset + nodes[i].data_capacity <= data_used
      BY <1>2, <2>1, Zenon DEF NodeOK
    <3>2. nodes[i].data_offset \in Nat /\ nodes[i].data_capacity \in Nat
      <4>1. nodes[i] \in NodeT
        BY <1>2, <2>1
      <4>. QED
        BY <4>1, Zenon DEF NodeT
    <3>3. nodes[i].data_offset + nodes[i].data_capacity <= used
      BY <1>2, <1>8, <3>1, <3>2, SMTT(30)
    <3>4. nodes[i].parent \in 1 .. Len(ns)
      BY <1>2, <1>7, <3>1, SMTT(30)
    <3>. QED
      BY <1>7, <2>1, <3>1, <3>3, <3>4, Zenon DEF NodeOK
  <2>2. CASE i = L + 1
    <3>1. dir \in 1 .. Len(ns) /\ L + 1 # 1 /\ 0 <= Capacity /\ data_used + Capacity <= used
      BY <1>1, <1>2, <1>3, <1>7
    <3>2. ns[i].dir = FALSE /\ i # 1
      BY <1>4, <1>7, <2>2, <3>1, Zenon
    <3>3. ns[i].parent = dir /\ ns[i].data_capacity = Capacity /\ ns[i].size = 0
          /\ ns[i].data_offset = data_used
      BY <1>4, <1>7, <2>2, Zenon
    <3>. QED
      BY <3>1, <3>2, <3>3, ZenonT(30) DEF NodeOK
  <2>. QED
    BY <1>9, <2>1, <2>2, Zenon
<1>11. InOrder(ns)
  <2>. SUFFICES ASSUME NEW i \in 1 .. L + 1, NEW j \in 1 .. L + 1, i < j
                PROVE  ns[i].data_offset + ns[i].data_capacity <= ns[j].data_offset
    BY <1>7, Zenon DEF InOrder
  <2>1. i \in 1 .. L
    BY <1>2
  <2>2. CASE j \in 1 .. L
    BY <1>2, <1>7, <2>1, <2>2, Zenon DEF InOrder
  <2>3. CASE j = L + 1
    BY <1>2, <1>4, <1>7, <2>1, <2>3, Zenon DEF NodeOK
  <2>. QED
    BY <1>9, <2>2, <2>3, Zenon
<1>12. NamesApart(ns)
  <2>. SUFFICES ASSUME NEW i \in 1 .. L + 1, NEW j \in 1 .. L + 1, i # j
                PROVE  ns[i].parent # ns[j].parent \/ ns[i].name # ns[j].name
    BY <1>7, Zenon DEF NamesApart
  <2>1. CASE i \in 1 .. L /\ j \in 1 .. L
    BY <1>2, <1>7, <2>1, ZenonT(30) DEF NamesApart
  <2>2. CASE i \in 1 .. L /\ j = L + 1
    BY <1>1, <1>4, <1>7, <2>2, ZenonT(50)
  <2>3. CASE i = L + 1 /\ j \in 1 .. L
    BY <1>1, <1>4, <1>7, <2>3, ZenonT(30)
  <2>. QED
    BY <1>9, <2>1, <2>2, <2>3, Zenon
<1>13. NodesOK(ns, used)
  <2>1. Len(ns) >= 1
    BY <1>2, <1>7
  <2>. QED
    BY <1>7, <1>8, <1>10, <1>11, <1>12, <2>1, ZenonT(30) DEF NodesOK
<1>14. \A i \in 1 .. Len(ns) : i > L => ns[i].size = 0
  BY <1>2, <1>4, <1>7, SMTT(30)
<1>15. Len(ns) \in L .. L + 1
  BY <1>2, <1>7
<1>. QED
  BY <1>7, <1>13, <1>14, <1>15, Zenon DEF Grows

\* create_file leaves the nodes in order, and answers with a file.
LEMMA CreatedGrows ==
  ASSUME NodesOK(nodes, data_used), NEW path \in Paths
  PROVE  LET c == Created(path) IN
         /\ Grows(c.nodes, c.used)
         /\ c.result.ok \in BOOLEAN /\ c.result.code \in Codes
         /\ ~c.result.ok => c.result.code # "OK"
         /\ c.result.ok => c.result.node \in 1 .. Len(c.nodes) /\ c.result.node # 1
<1>. DEFINE c == Created(path)
<1>1. /\ c.result.ok \in BOOLEAN /\ c.result.code \in Codes
      /\ ~c.result.ok => c.result.code # "OK"
      /\ \/ /\ c.nodes = nodes /\ c.used = data_used
            /\ c.result.ok => c.result.node \in 1 .. Len(nodes) /\ c.result.node # 1
         \/ OneMore(c.nodes, c.used) /\ c.result.ok /\ c.result.node = Len(nodes) + 1
  BY CreatedIs, Zenon
<1>. HIDE DEF c
<1>2. Len(nodes) \in Nat /\ Len(nodes) >= 1
  BY DEF NodesOK
<1>3. Grows(nodes, data_used)
  <2>1. Len(nodes) \in Len(nodes) .. Len(nodes) + 1
        /\ \A i \in 1 .. Len(nodes) : ~(i > Len(nodes))
    BY <1>2
  <2>. QED
    BY <2>1, Zenon DEF Grows
<1>4. CASE OneMore(c.nodes, c.used) /\ c.result.ok /\ c.result.node = Len(nodes) + 1
  <2>1. Grows(c.nodes, c.used) /\ Len(c.nodes) = Len(nodes) + 1
    BY <1>4, OneMoreGrows, Zenon
  <2>2. Len(nodes) + 1 \in 1 .. Len(nodes) + 1 /\ Len(nodes) + 1 # 1
    BY <1>2
  <2>. QED
    BY <1>1, <1>4, <2>1, <2>2, Zenon DEF c
<1>. QED
  BY <1>1, <1>3, <1>4, Zenon DEF c

\* The nodes, with size m in node i.
Sized(ns, i, m) == [ns EXCEPT ![i].size = m]

\* A file may get any size its region has room for.
LEMMA Resized ==
  ASSUME NEW ns, NEW used, NodesOK(ns, used), NEW i \in 1 .. Len(ns),
         NEW m \in Nat, m <= ns[i].data_capacity
  PROVE  LET r == Sized(ns, i, m) IN
         /\ NodesOK(r, used) /\ Len(r) = Len(ns)
         /\ r[i].size = m /\ r[i].data_offset = ns[i].data_offset
         /\ \A j \in 1 .. Len(ns) : j # i => r[j] = ns[j]
<1>. DEFINE r == Sized(ns, i, m)
            L == Len(ns)
<1>1. /\ ns \in Seq(NodeT) /\ L \in Nat /\ L >= 1 /\ used \in 0 .. DataBytes
      /\ \A j \in 1 .. L : NodeOK(ns, used, j)
      /\ InOrder(ns) /\ NamesApart(ns)
  BY DEF NodesOK
<1>2. [ns[i] EXCEPT !.size = m] \in NodeT
  <2>1. ns[i] \in NodeT
    BY <1>1
  <2>. QED
    BY <2>1, SMTT(30) DEF NodeT
<1>3. r = [ns EXCEPT ![i] = [ns[i] EXCEPT !.size = m]]
  BY Zenon DEF Sized
<1>4. /\ r \in Seq(NodeT) /\ Len(r) = L /\ r[i] = [ns[i] EXCEPT !.size = m]
      /\ \A j \in 1 .. L : j # i => r[j] = ns[j]
  BY <1>1, <1>2, <1>3
<1>. HIDE DEF r
<1>5. ASSUME NEW j \in 1 .. L
      PROVE  /\ r[j].parent = ns[j].parent /\ (r[j].dir <=> ns[j].dir)
             /\ r[j].name = ns[j].name
             /\ r[j].data_offset = ns[j].data_offset
             /\ r[j].data_capacity = ns[j].data_capacity
             /\ r[j].size <= ns[j].data_capacity
  <2>1. CASE j = i
    <3>1. ns[i] \in NodeT
      BY <1>1
    <3>2. r[j] = [ns[i] EXCEPT !.size = m]
      BY <1>4, <2>1, Zenon
    <3>. QED
      BY <2>1, <3>1, <3>2 DEF NodeT
  <2>2. CASE j # i
    BY <1>1, <1>4, <2>2, Zenon DEF NodeOK
  <2>. QED
    BY <2>1, <2>2, Zenon
<1>6. ASSUME NEW j \in 1 .. L PROVE NodeOK(r, used, j)
  <2>1. NodeOK(ns, used, j)
    BY <1>1, Zenon
  <2>. QED
    BY <1>4, <1>5, <2>1, SMTT(30) DEF NodeOK
<1>7. InOrder(r)
  BY <1>1, <1>4, <1>5, Zenon DEF InOrder
<1>8. NamesApart(r)
  <2>. SUFFICES ASSUME NEW j \in 1 .. L, NEW k \in 1 .. L, j # k
                PROVE  r[j].parent # r[k].parent \/ r[j].name # r[k].name
    BY <1>4, Zenon DEF NamesApart
  <2>1. ns[j].parent # ns[k].parent \/ ns[j].name # ns[k].name
    BY <1>1, Zenon DEF NamesApart
  <2>. QED
    BY <1>5, <2>1, Zenon
<1>9. r[i].size = m
  <2>1. ns[i] \in NodeT
    BY <1>1
  <2>. QED
    BY <1>4, <2>1, SMTT(30) DEF NodeT
<1>. QED
  BY <1>1, <1>4, <1>5, <1>6, <1>7, <1>8, <1>9, ZenonT(30) DEF NodesOK, r

-----------------------------------------------------------------------------
(* The data area and the texts.                                            *)

\* The fields of a node that is in order.
LEMMA NodeFacts ==
  ASSUME NEW ns, NEW used, NodesOK(ns, used), NEW i \in 1 .. Len(ns)
  PROVE  /\ ns[i] \in NodeT
         /\ ns[i].data_offset \in Nat /\ ns[i].data_capacity \in Nat /\ ns[i].size \in Nat
         /\ ns[i].data_offset + ns[i].data_capacity <= used
         /\ ns[i].size <= ns[i].data_capacity
         /\ used \in Nat /\ used <= DataBytes /\ DataBytes \in Nat
<1>1. ns[i] \in NodeT
  BY DEF NodesOK
<1>2. ns[i].data_offset \in Nat /\ ns[i].data_capacity \in Nat /\ ns[i].size \in Nat
  BY <1>1, Zenon DEF NodeT
<1>3. used \in 0 .. DataBytes /\ DataBytes \in Nat
  BY VfsAssumption, Zenon DEF NodesOK
<1>4. NodeOK(ns, used, i)
  BY Zenon DEF NodesOK
<1>5. used \in Nat /\ used <= DataBytes
  BY <1>3
<1>. QED
  BY <1>1, <1>2, <1>3, <1>4, <1>5, ZenonT(30) DEF NodeOK

\* Two regions do not meet.
LEMMA RegionsApart ==
  ASSUME NEW ns, NEW used, NodesOK(ns, used),
         NEW i \in 1 .. Len(ns), NEW j \in 1 .. Len(ns), i # j
  PROVE  \/ ns[i].data_offset + ns[i].data_capacity <= ns[j].data_offset
         \/ ns[j].data_offset + ns[j].data_capacity <= ns[i].data_offset
<1>1. i < j \/ j < i
  OBVIOUS
<1>. QED
  BY <1>1, Zenon DEF NodesOK, InOrder

\* text is what a file at offset o of the area w says, up to holes.
Says(text, o, w) == \A k \in 1 .. Len(text) : text[k] = Hole \/ text[k] = w[o + k - 1]

\* In the region of cap bytes at offset o, w is d with buf written to offset at.
Wrote(w, d, o, cap, at, buf) ==
  \A k \in 1 .. cap :
    w[o + k - 1] = IF k - 1 \in at .. at + Len(buf) - 1 THEN buf[k - at] ELSE d[o + k - 1]

\* The areas d and w agree on the files other than node i.
OthersKept(ns, i, d, w) ==
  \A j \in 1 .. Len(ns) : j # i => \A k \in 1 .. ns[j].size :
    w[ns[j].data_offset + k - 1] = d[ns[j].data_offset + k - 1]

\* A write into the region of a file changes those bytes and no others.
LEMMA Written ==
  ASSUME NEW ns, NEW used, NodesOK(ns, used), NEW d \in Area,
         NEW i \in 1 .. Len(ns), NEW at \in Nat, NEW buf \in Seq(Nat),
         at + Len(buf) <= ns[i].data_capacity
  PROVE  LET w == WriteAt(d, ns[i].data_offset + at, buf) IN
         /\ w \in Area
         /\ Wrote(w, d, ns[i].data_offset, ns[i].data_capacity, at, buf)
         /\ OthersKept(ns, i, d, w)
<1>. DEFINE o == ns[i].data_offset
            cap == ns[i].data_capacity
            n == Len(buf)
            w == WriteAt(d, o + at, buf)
<1>1. o \in Nat /\ cap \in Nat /\ o + cap <= DataBytes /\ DataBytes \in Nat /\ n \in Nat
  <2>1. /\ o \in Nat /\ cap \in Nat /\ o + cap <= used
        /\ used \in Nat /\ used <= DataBytes /\ DataBytes \in Nat
    BY NodeFacts, Zenon
  <2>2. n \in Nat
    OBVIOUS
  <2>. QED
    BY <2>1, <2>2, SMTT(30)
<1>2. at + n <= cap
  BY Zenon
<1>3. d \in [0 .. DataBytes - 1 -> Nat]
  BY Zenon DEF Area
<1>4. /\ DOMAIN w = 0 .. DataBytes - 1
      /\ \A k \in 0 .. DataBytes - 1 :
           w[k] = IF k \in o + at .. o + at + n - 1 THEN buf[k - (o + at) + 1] ELSE d[k]
  BY <1>3, Zenon DEF WriteAt
<1>5. w = [k \in 0 .. DataBytes - 1 |-> w[k]]
  BY <1>3, <1>4, Zenon DEF WriteAt
<1>. HIDE DEF w, o, cap, n
<1>6. ASSUME NEW k \in 0 .. DataBytes - 1 PROVE w[k] \in Nat
  <2>1. CASE k \in o + at .. o + at + n - 1
    <3>1. k - (o + at) + 1 \in 1 .. n
      BY <1>1, <2>1
    <3>2. buf[k - (o + at) + 1] \in Nat
      BY <3>1, SMTT(60) DEF n
    <3>. QED
      BY <1>4, <2>1, <3>2, ZenonT(30)
  <2>2. CASE k \notin o + at .. o + at + n - 1
    BY <1>3, <1>4, <2>2, Zenon
  <2>. QED
    BY <2>1, <2>2, Zenon
<1>7. w \in Area
  BY <1>5, <1>6, Zenon DEF Area
<1>8. ASSUME NEW k \in 1 .. cap
      PROVE  w[o + k - 1] = IF k - 1 \in at .. at + n - 1 THEN buf[k - at] ELSE d[o + k - 1]
  <2>1. /\ o + k - 1 \in 0 .. DataBytes - 1
        /\ o + k - 1 \in o + at .. o + at + n - 1 <=> k - 1 \in at .. at + n - 1
        /\ (o + k - 1) - (o + at) + 1 = k - at
    BY <1>1
  <2>. QED
    BY <1>4, <2>1, SMTT(30)
<1>9. ASSUME NEW j \in 1 .. Len(ns), j # i, NEW k \in 1 .. ns[j].size
      PROVE  w[ns[j].data_offset + k - 1] = d[ns[j].data_offset + k - 1]
  <2>. DEFINE a == ns[j].data_offset
              b == ns[j].data_capacity
              s == ns[j].size
  <2>1. a \in Nat /\ b \in Nat /\ s \in Nat /\ s <= b /\ a + b <= used
        /\ used \in Nat /\ used <= DataBytes
    BY NodeFacts, Zenon
  <2>2. o + cap <= a \/ a + b <= o
    BY <1>9, RegionsApart, Zenon DEF o, cap
  <2>3. k \in 1 .. s
    BY Zenon
  <2>. HIDE DEF a, b, s
  <2>4. a + k - 1 \in 0 .. DataBytes - 1 /\ a + k - 1 \notin o + at .. o + at + n - 1
    BY <1>1, <1>2, <2>1, <2>2, <2>3, SMTT(30)
  <2>5. w[a + k - 1] = d[a + k - 1]
    BY <1>4, <2>4, Zenon
  <2>. QED
    BY <2>5, Zenon DEF a
<1>10. OthersKept(ns, i, d, w)
  BY <1>9, Zenon DEF OthersKept
<1>11. Wrote(w, d, o, cap, at, buf)
  BY <1>8, Zenon DEF Wrote, n
<1>. QED
  BY <1>7, <1>10, <1>11, Zenon DEF w, o, cap

\* The history of a node can be replaced with what the node now says, if the
\* other nodes say what they said.
LEMMA TextReplaced ==
  ASSUME NEW ns, NEW used, NodesOK(ns, used), NEW d, NEW w, NEW ts, TextsOK(ts, ns, d),
         NEW i \in 1 .. Len(ns), NEW m \in Nat, m <= ns[i].data_capacity, NEW text,
         text \in Seq(Int), Len(text) = m,
         Says(text, ns[i].data_offset, w), OthersKept(ns, i, d, w)
  PROVE  TextsOK([ts EXCEPT ![i] = text], Sized(ns, i, m), w)
<1>. DEFINE r == Sized(ns, i, m)
            us == [ts EXCEPT ![i] = text]
            L == Len(ns)
<1>1. /\ Len(r) = L /\ r[i].size = m /\ r[i].data_offset = ns[i].data_offset
      /\ \A j \in 1 .. L : j # i => r[j] = ns[j]
  BY Resized
<1>2. /\ ts \in Seq(Seq(Int)) /\ Len(ts) = L
      /\ \A j \in 1 .. L : TextOK(ts[j], ns[j], d)
  BY Zenon DEF TextsOK
<1>3. /\ us \in Seq(Seq(Int)) /\ Len(us) = L /\ us[i] = text
      /\ \A j \in 1 .. L : j # i => us[j] = ts[j]
  BY <1>2
<1>. HIDE DEF r, us
<1>4. ASSUME NEW j \in 1 .. L PROVE TextOK(us[j], r[j], w)
  <2>1. CASE j = i
    <3>1. us[j] = text /\ r[j].size = Len(text) /\ r[j].data_offset = ns[i].data_offset
      BY <1>1, <1>3, <2>1, Zenon
    <3>. QED
      BY ONLY <3>1, text \in Seq(Int), Says(text, ns[i].data_offset, w), ZenonT(30) DEF TextOK, Says
  <2>2. CASE j # i
    <3>1. TextOK(ts[j], ns[j], d) /\ us[j] = ts[j] /\ r[j] = ns[j]
      BY <1>1, <1>2, <1>3, <2>2, Zenon
    <3>2. \A k \in 1 .. ns[j].size :
            w[ns[j].data_offset + k - 1] = d[ns[j].data_offset + k - 1]
      BY ONLY <2>2, OthersKept(ns, i, d, w), j \in 1 .. L, Zenon DEF OthersKept
    <3>. QED
      BY ONLY <3>1, <3>2, ZenonT(30) DEF TextOK
  <2>. QED
    BY <2>1, <2>2, Zenon
<1>. QED
  BY <1>1, <1>3, <1>4, ZenonT(30) DEF TextsOK, r, us

\* A new node has an empty history.
LEMMA TextsGrow ==
  ASSUME TextsOK(contents, nodes, data), NEW ns, NEW used, Grows(ns, used)
  PROVE  /\ TextsOK(GrownContents(ns), ns, data)
         /\ Continues(contents, GrownContents(ns))
<1>. DEFINE g == GrownContents(ns)
            L == Len(nodes)
<1>1. /\ NodesOK(ns, used) /\ Len(ns) \in L .. L + 1
      /\ \A i \in 1 .. L : ns[i] = nodes[i]
      /\ \A i \in 1 .. Len(ns) : i > L => ns[i].size = 0
  BY Zenon DEF Grows
<1>2. /\ contents \in Seq(Seq(Int)) /\ Len(contents) = L
      /\ \A i \in 1 .. L : TextOK(contents[i], nodes[i], data)
  BY Zenon DEF TextsOK
<1>3. L \in Nat /\ DOMAIN contents = 1 .. L /\ Len(ns) \in Nat
  BY <1>1, <1>2, SMTT(30)
<1>4. DOMAIN ns = 1 .. Len(ns)
  BY <1>1 DEF NodesOK
<1>5. g = [i \in 1 .. Len(ns) |-> IF i \in 1 .. L THEN contents[i] ELSE <<>>]
  BY <1>3, <1>4, Zenon DEF GrownContents
<1>6. \A i \in 1 .. L : contents[i] \in Seq(Int)
  BY <1>2, SMTT(30)
<1>. HIDE DEF g
<1>7. g \in Seq(Seq(Int)) /\ Len(g) = Len(ns)
  BY <1>3, <1>5, <1>6, SMTT(30)
<1>8. \A i \in 1 .. L : i \in 1 .. Len(ns) /\ g[i] = contents[i]
  BY <1>1, <1>3, <1>5, SMTT(30)
<1>9. ASSUME NEW i \in 1 .. Len(ns) PROVE TextOK(g[i], ns[i], data)
  <2>1. CASE i \in 1 .. L
    BY <1>1, <1>2, <1>8, <2>1, Zenon
  <2>2. CASE i \notin 1 .. L
    <3>1. g[i] = <<>> /\ ns[i].size = 0
      BY <1>1, <1>3, <1>5, <2>2, SMTT(30)
    <3>. QED
      BY <3>1 DEF TextOK
  <2>. QED
    BY <2>1, <2>2, Zenon
<1>10. Continues(contents, g)
  <2>1. Len(contents) <= Len(g)
    BY <1>1, <1>2, <1>3, <1>7, SMTT(30)
  <2>. QED
    BY <1>3, <1>8, <2>1, Zenon DEF Continues
<1>. QED
  BY <1>7, <1>9, <1>10, Zenon DEF TextsOK, g

-----------------------------------------------------------------------------
(* The descriptors.                                                        *)

\* More nodes do not disturb the descriptors.
LEMMA FilesKept ==
  ASSUME NEW fs, NEW n \in Nat, FilesOK(fs, n), NEW m \in Nat, n <= m
  PROVE  FilesOK(fs, m)
<1>1. \A i \in 1 .. n : i \in 1 .. m
  OBVIOUS
<1>. QED
  BY <1>1, ZenonT(30) DEF FilesOK, TableOK, FileOK

\* One table may be replaced with another one that is in order.
LEMMA TableReplaced ==
  ASSUME NEW n, FilesOK(files, n), NEW p \in Procs, NEW t, TableOK(t, n)
  PROVE  FilesOK([files EXCEPT ![p] = t], n)
<1>. DEFINE g == [files EXCEPT ![p] = t]
<1>1. DOMAIN files = Procs /\ \A q \in Procs : TableOK(files[q], n)
  BY Zenon DEF FilesOK
<1>2. DOMAIN g = Procs /\ \A q \in Procs : g[q] = IF q = p THEN t ELSE files[q]
  BY <1>1, Zenon
<1>. HIDE DEF g
<1>3. FilesOK(g, n)
  BY <1>1, <1>2, Zenon DEF FilesOK
<1>. QED
  BY <1>3, Zenon DEF g

\* The descriptors, with fd of process p moved to offset o.
Moved(p, fd, o) == [files EXCEPT ![p][fd].offset = o]

\* The same descriptors are in use in fs.
SameFds(fs) == \A q \in Procs : DOMAIN fs[q] = DOMAIN files[q]

\* A descriptor may be moved to any offset.
LEMMA OffsetMoved ==
  ASSUME NEW n, FilesOK(files, n), NEW p \in Procs, NEW fd \in DOMAIN files[p],
         NEW o \in Nat, o <= 2 * LongMax + 1
  PROVE  FilesOK(Moved(p, fd, o), n) /\ SameFds(Moved(p, fd, o))
<1>. DEFINE f == [files[p][fd] EXCEPT !.offset = o]
            t == [files[p] EXCEPT ![fd] = f]
            g == Moved(p, fd, o)
<1>1. g = [files EXCEPT ![p] = t]
  BY Zenon DEF Moved
<1>2. TableOK(files[p], n) /\ DOMAIN files = Procs
  BY Zenon DEF FilesOK
<1>3. FileOK(f, n)
  <2>1. FileOK(files[p][fd], n)
    BY <1>2, Zenon DEF TableOK
  <2>2. files[p][fd] \in FileT
    BY <2>1, Zenon DEF FileOK
  <2>3. f \in FileT /\ f.node = files[p][fd].node /\ f.flags = files[p][fd].flags /\ f.offset = o
    BY <2>2 DEF FileT
  <2>. HIDE DEF f
  <2>. QED
    BY <2>1, <2>3, Zenon DEF FileOK
<1>. HIDE DEF f
<1>4. DOMAIN t = DOMAIN files[p] /\ \A e \in DOMAIN t : t[e] = IF e = fd THEN f ELSE files[p][e]
  BY Zenon
<1>. HIDE DEF t
<1>5. TableOK(t, n)
  BY <1>2, <1>3, <1>4, Zenon DEF TableOK
<1>6. FilesOK([files EXCEPT ![p] = t], n)
  BY <1>5, TableReplaced, Zenon
<1>7. \A q \in Procs : g[q] = IF q = p THEN t ELSE files[q]
  BY <1>1, <1>2, Zenon
<1>. HIDE DEF g
<1>. QED
  BY <1>1, <1>4, <1>6, <1>7, Zenon DEF g, SameFds

\* A table with one more descriptor.
LEMMA FileAdded ==
  ASSUME NEW n, NEW t, TableOK(t, n), NEW fd \in 0 .. MaxOpen - 1, NEW f, FileOK(f, n)
  PROVE  TableOK(WithFile(t, fd, f), n)
<1>. DEFINE u == WithFile(t, fd, f)
<1>1. DOMAIN u = DOMAIN t \cup {fd} /\ \A e \in DOMAIN u : u[e] = IF e = fd THEN f ELSE t[e]
  BY Zenon DEF WithFile
<1>. HIDE DEF u
<1>2. TableOK(u, n)
  BY <1>1, Zenon DEF TableOK
<1>. QED
  BY <1>2, Zenon DEF u

\* fd_alloc finds a descriptor that is not in use, or none.
LEMMA FreeFdIs ==
  ASSUME NEW n, FilesOK(files, n), NEW p \in Procs
  PROVE  /\ FreeFd(p) \in 0 .. MaxOpen /\ FreeFd(p) \notin DOMAIN files[p]
         /\ FreeFd(p) # MaxOpen => FreeFd(p) \in 0 .. MaxOpen - 1
<1>. DEFINE D == DOMAIN files[p]
            S == {fd \in 0 .. MaxOpen : fd \notin D}
<1>1. MaxOpen \in Nat /\ D \subseteq 0 .. MaxOpen - 1
  BY VfsAssumption, Zenon DEF FilesOK, TableOK
<1>. HIDE DEF D
<1>2. MaxOpen \in S /\ S \in SUBSET Nat
  BY <1>1
<1>3. PICK m \in S : \A k \in S : m <= k
  BY <1>2, Least, Zenon
<1>4. \A e \in 0 .. m - 1 : e \in D
  BY <1>1, <1>3
<1>5. \E fd \in 0 .. MaxOpen : fd \notin D /\ \A e \in 0 .. fd - 1 : e \in D
  BY <1>3, <1>4, Zenon
<1>6. FreeFd(p) \in 0 .. MaxOpen /\ FreeFd(p) \notin D
  BY <1>5, Zenon DEF FreeFd, D
<1>7. \A x \in 0 .. MaxOpen : x # MaxOpen => x \in 0 .. MaxOpen - 1
  BY <1>1
<1>. QED
  BY <1>6, <1>7, Zenon DEF D

-----------------------------------------------------------------------------
(* The steps.                                                              *)

\* What FailureIsHarmless says of a step.
HarmlessStep ==
  rc' # "OK" =>
    /\ \A p \in Procs : DOMAIN files'[p] = DOMAIN files[p]
    /\ Continues(nodes, nodes') /\ Len(nodes') <= Len(nodes) + 1
    /\ Continues(contents, contents')
    /\ data' = data

\* What AppendersNeverOverwrite says of a step.
AppendStep ==
  \A i \in DOMAIN nodes :
    LET appended == \A p \in Procs : \A fd \in DOMAIN files[p] :
          files[p][fd].node = i /\ can_write(files[p][fd].flags) =>
            "APPEND" \in files[p][fd].flags
    IN appended /\ files' # files =>
         contents'[i] = <<>> \/ Continues(contents[i], contents'[i])

GoodStep == IInv' /\ HarmlessStep /\ AppendStep

\* The invariant, taken apart.
LEMMA IInvFacts ==
  IInv => /\ NodesOK(nodes, data_used) /\ data \in Area /\ FilesOK(files, Len(nodes))
          /\ TextsOK(contents, nodes, data) /\ rc \in Codes
          /\ nodes \in Seq(NodeT) /\ Len(nodes) \in Nat /\ DOMAIN nodes = 1 .. Len(nodes)
          /\ contents \in Seq(Seq(Int)) /\ Len(contents) = Len(nodes)
          /\ DOMAIN contents = 1 .. Len(nodes)
          /\ \A i \in 1 .. Len(nodes) : Len(contents[i]) \in Nat
<1>. SUFFICES ASSUME IInv PROVE
          /\ nodes \in Seq(NodeT) /\ Len(nodes) \in Nat /\ DOMAIN nodes = 1 .. Len(nodes)
          /\ contents \in Seq(Seq(Int)) /\ Len(contents) = Len(nodes)
          /\ DOMAIN contents = 1 .. Len(nodes)
          /\ \A i \in 1 .. Len(nodes) : Len(contents[i]) \in Nat
  BY Zenon DEF IInv
<1>1. nodes \in Seq(NodeT) /\ contents \in Seq(Seq(Int)) /\ Len(contents) = Len(nodes)
  BY Zenon DEF IInv, NodesOK, TextsOK
<1>. QED
  BY <1>1

\* The history of a node continues itself.
LEMMA Unchanged ==
  IInv => /\ Continues(nodes, nodes) /\ Continues(contents, contents)
          /\ \A i \in DOMAIN nodes : Continues(contents[i], contents[i])
<1>. SUFFICES ASSUME IInv PROVE
          /\ Len(nodes) <= Len(nodes) /\ Len(contents) <= Len(contents)
          /\ \A i \in DOMAIN nodes : Len(contents[i]) <= Len(contents[i])
  BY Zenon DEF Continues
<1>. QED
  BY IInvFacts

\* A step that touches only descriptors.
LEMMA QuietStep ==
  ASSUME IInv, UNCHANGED <<nodes, data, data_used, contents>>,
         FilesOK(files', Len(nodes)), rc' \in Codes,
         rc' # "OK" => \A p \in Procs : DOMAIN files'[p] = DOMAIN files[p]
  PROVE  GoodStep
<1>1. IInv'
  BY Zenon DEF IInv
<1>2. Len(nodes') <= Len(nodes) + 1
  BY IInvFacts
<1>3. HarmlessStep
  BY <1>2, Unchanged, Zenon DEF HarmlessStep
<1>4. AppendStep
  BY Unchanged, Zenon DEF AppendStep
<1>. QED
  BY <1>1, <1>3, <1>4, Zenon DEF GoodStep

\* A call that fails at once.
LEMMA FailStep ==
  ASSUME IInv, NEW code \in Codes, Fails(code)
  PROVE  GoodStep
<1>1. UNCHANGED <<nodes, data, data_used, files, contents>> /\ rc' = code
  BY Zenon DEF Fails
<1>2. FilesOK(files', Len(nodes))
  BY <1>1, IInvFacts, Zenon
<1>. QED
  BY <1>1, <1>2, QuietStep, Zenon

\* No node need be new.
LEMMA SameGrows ==
  IInv => Grows(nodes, data_used) /\ GrownContents(nodes) = contents
<1>. SUFFICES ASSUME IInv PROVE Grows(nodes, data_used) /\ GrownContents(nodes) = contents
  BY SMTT(30)
<1>1. Len(nodes) \in Len(nodes) .. Len(nodes) + 1
      /\ \A i \in 1 .. Len(nodes) : ~(i > Len(nodes))
  BY IInvFacts, SMTT(30)
<1>2. Grows(nodes, data_used)
  BY <1>1, IInvFacts, ZenonT(30) DEF Grows
<1>3. contents = [i \in 1 .. Len(nodes) |-> contents[i]]
  BY IInvFacts
<1>4. GrownContents(nodes) = [i \in 1 .. Len(nodes) |-> contents[i]]
  BY IInvFacts, Zenon DEF GrownContents
<1>. QED
  BY <1>2, <1>3, <1>4, ZenonT(30)

\* A step that makes at most one node, and writes nothing.
LEMMA GrowStep ==
  ASSUME IInv, NEW ns, NEW used, Grows(ns, used),
         nodes' = ns, data_used' = used, contents' = GrownContents(ns), data' = data,
         FilesOK(files', Len(ns)), rc' \in Codes,
         rc' # "OK" => \A p \in Procs : DOMAIN files'[p] = DOMAIN files[p]
  PROVE  GoodStep
<1>1. TextsOK(contents', nodes', data') /\ Continues(contents, contents')
  BY IInvFacts, TextsGrow, Zenon
<1>2. NodesOK(nodes', data_used') /\ Len(ns) \in Len(nodes) .. Len(nodes) + 1
      /\ \A i \in 1 .. Len(nodes) : ns[i] = nodes[i]
  BY Zenon DEF Grows
<1>3. IInv'
  BY <1>1, <1>2, IInvFacts, ZenonT(30) DEF IInv
<1>4. Len(nodes) <= Len(ns) /\ Len(ns) <= Len(nodes) + 1
  BY <1>2, IInvFacts
<1>5. HarmlessStep
  BY <1>1, <1>2, <1>4, IInvFacts, Zenon DEF HarmlessStep, Continues
<1>6. \A i \in DOMAIN nodes : contents'[i] = contents[i]
  BY <1>1, IInvFacts, Zenon DEF Continues
<1>7. AppendStep
  BY <1>6, Unchanged, Zenon DEF AppendStep
<1>. QED
  BY <1>3, <1>5, <1>7, ZenonT(30) DEF GoodStep

\* Every descriptor that may write to node i appends.
Appended(i) ==
  \A p \in Procs : \A fd \in DOMAIN files[p] :
    files[p][fd].node = i /\ can_write(files[p][fd].flags) =>
      "APPEND" \in files[p][fd].flags

\* A step that replaces what one node says, after it made at most one node.
LEMMA ReplaceStep ==
  ASSUME IInv, NEW ns, NEW used, Grows(ns, used), NEW w \in Area,
         NEW i \in 1 .. Len(ns), NEW m \in Nat, m <= ns[i].data_capacity, NEW text,
         text \in Seq(Int), Len(text) = m,
         Says(text, ns[i].data_offset, w), OthersKept(ns, i, data, w),
         files' = files \/ text = <<>>
           \/ (i \in DOMAIN nodes /\ Appended(i) => Continues(contents[i], text)),
         nodes' = Sized(ns, i, m), data_used' = used, data' = w,
         contents' = [GrownContents(ns) EXCEPT ![i] = text],
         FilesOK(files', Len(ns)), rc' = "OK"
  PROVE  GoodStep
<1>. DEFINE g == GrownContents(ns)
<1>1. NodesOK(ns, used) /\ TextsOK(g, ns, data) /\ Continues(contents, g)
  BY IInvFacts, TextsGrow, Zenon DEF Grows
<1>2. DOMAIN g = 1 .. Len(ns)
  <2>1. DOMAIN g = DOMAIN ns /\ ns \in Seq(NodeT)
    BY <1>1, Zenon DEF NodesOK, GrownContents
  <2>. QED
    BY ONLY <2>1
<1>. HIDE DEF g
<1>3. TextsOK(contents', nodes', data')
  <2>1. contents' = [g EXCEPT ![i] = text]
    BY Zenon DEF g
  <2>2. TextsOK([g EXCEPT ![i] = text], Sized(ns, i, m), w)
    BY ONLY TextReplaced, <1>1, i \in 1 .. Len(ns), m \in Nat, m <= ns[i].data_capacity,
       text \in Seq(Int), Len(text) = m, Says(text, ns[i].data_offset, w),
       OthersKept(ns, i, data, w), ZenonT(30)
  <2>. QED
    BY <2>1, <2>2, Zenon
<1>4. NodesOK(nodes', data_used') /\ Len(nodes') = Len(ns)
  BY <1>1, Resized, SMTT(30)
<1>5. IInv'
  BY <1>3, <1>4, IInvFacts, Zenon DEF IInv, Codes
<1>6. HarmlessStep
  BY Zenon DEF HarmlessStep
<1>7. ASSUME NEW j \in DOMAIN nodes, Appended(j), files' # files
      PROVE  contents'[j] = <<>> \/ Continues(contents[j], contents'[j])
  <2>1. g[j] = contents[j]
    BY <1>1, IInvFacts, Zenon DEF Continues
  <2>2. contents'[j] = IF j = i THEN text ELSE g[j]
    <3>1. j \in DOMAIN g
      BY <1>1, <1>2, IInvFacts, SMTT(30) DEF Continues, TextsOK
    <3>. QED
      BY <3>1, ZenonT(30) DEF g
  <2>. QED
    BY <1>7, <2>1, <2>2, Unchanged, ZenonT(30)
<1>8. AppendStep
  BY <1>7, Zenon DEF AppendStep, Appended
<1>. QED
  BY <1>5, <1>6, <1>8, Zenon DEF GoodStep

\* mcs_vfs_close.
LEMMA CloseStep ==
  ASSUME IInv, NEW p \in Procs, NEW fd, mcs_vfs_close(p, fd)
  PROVE  GoodStep
<1>1. CASE Fails("EBADF")
  BY <1>1, FailStep, Zenon DEF Codes
<1>2. CASE /\ files' = [files EXCEPT ![p] = [e \in DOMAIN files[p] \ {fd} |-> files[p][e]]]
           /\ rc' = "OK" /\ UNCHANGED <<nodes, data, data_used, contents>>
  <2>. DEFINE t == [e \in DOMAIN files[p] \ {fd} |-> files[p][e]]
  <2>1. TableOK(files[p], Len(nodes))
    BY IInvFacts, Zenon DEF FilesOK
  <2>2. TableOK(t, Len(nodes))
    BY <2>1, Zenon DEF TableOK
  <2>. HIDE DEF t
  <2>3. FilesOK([files EXCEPT ![p] = t], Len(nodes))
    BY <2>2, IInvFacts, TableReplaced, ZenonT(30)
  <2>4. FilesOK(files', Len(nodes))
    BY <1>2, <2>3, ZenonT(30) DEF t
  <2>. QED
    BY <1>2, <2>4, QuietStep, ZenonT(30) DEF Codes
<1>. QED
  BY <1>1, <1>2, Zenon DEF mcs_vfs_close

\* mcs_vfs_dup.
LEMMA DupStep ==
  ASSUME IInv, NEW p \in Procs, NEW fd, mcs_vfs_dup(p, fd)
  PROVE  GoodStep
<1>1. CASE Fails("EBADF") \/ Fails("ENFILE")
  BY <1>1, FailStep, Zenon DEF Codes
<1>2. CASE /\ fd \in DOMAIN files[p] /\ FreeFd(p) # MaxOpen
           /\ files' = [files EXCEPT ![p] = WithFile(files[p], FreeFd(p), files[p][fd])]
           /\ rc' = "OK" /\ UNCHANGED <<nodes, data, data_used, contents>>
  <2>1. TableOK(files[p], Len(nodes))
    BY IInvFacts, Zenon DEF FilesOK
  <2>2. FileOK(files[p][fd], Len(nodes))
    BY <1>2, <2>1, Zenon DEF TableOK
  <2>3. FreeFd(p) \in 0 .. MaxOpen - 1
    BY <1>2, FreeFdIs, IInvFacts, Zenon
  <2>4. TableOK(WithFile(files[p], FreeFd(p), files[p][fd]), Len(nodes))
    BY <2>1, <2>2, <2>3, FileAdded, ZenonT(30)
  <2>5. FilesOK(files', Len(nodes))
    BY <1>2, <2>4, IInvFacts, TableReplaced, ZenonT(30)
  <2>. QED
    BY <1>2, <2>5, QuietStep, ZenonT(30) DEF Codes
<1>. QED
  BY <1>1, <1>2, Zenon DEF mcs_vfs_dup

\* A descriptor in use, and its node.
LEMMA OpenFile ==
  ASSUME IInv, NEW p \in Procs, NEW fd \in DOMAIN files[p]
  PROVE  LET f == files[p][fd] IN
         /\ f.node \in 1 .. Len(nodes) /\ f.flags \in SUBSET Flags
         /\ f.offset \in Nat /\ f.offset <= 2 * LongMax + 1
         /\ nodes[f.node].data_offset \in Nat
         /\ nodes[f.node].data_capacity \in Nat /\ nodes[f.node].data_capacity <= LongMax
         /\ nodes[f.node].size \in Nat /\ nodes[f.node].size <= nodes[f.node].data_capacity
         /\ LongMax \in Nat
<1>. DEFINE f == files[p][fd]
            node == nodes[f.node]
<1>1. FileOK(f, Len(nodes))
  BY IInvFacts, Zenon DEF FilesOK, TableOK
<1>2. f \in FileT /\ f.node \in 1 .. Len(nodes) /\ f.offset <= 2 * LongMax + 1
  BY <1>1, Zenon DEF FileOK
<1>3. f.flags \in SUBSET Flags /\ f.offset \in Nat
  BY <1>2, Zenon DEF FileT
<1>4. /\ node.data_offset \in Nat /\ node.data_capacity \in Nat /\ node.size \in Nat
      /\ node.size <= node.data_capacity
  BY <1>2, IInvFacts, NodeFacts, ZenonT(30)
<1>5. node.data_capacity = IF f.node = 1 THEN 0 ELSE Capacity
  BY <1>2, IInvFacts, ZenonT(30) DEF NodesOK, NodeOK
<1>6. node.data_capacity <= LongMax /\ LongMax \in Nat
  BY <1>5, VfsAssumption, SMTT(30)
<1>. QED
  BY <1>2, <1>3, <1>4, <1>6, ZenonT(30)

\* What a read through a descriptor copies.
LEMMA BytesReadIs ==
  ASSUME IInv, NEW p \in Procs, NEW fd \in DOMAIN files[p], NEW len \in Nat
  PROVE  LET f    == files[p][fd]
             node == nodes[f.node]
             left == IF node.size > f.offset THEN node.size - f.offset ELSE 0
             got  == BytesRead(f, len)
         IN /\ left \in Nat /\ Len(got) = IF len < left THEN len ELSE left
            /\ DOMAIN got = 1 .. Len(got)
            /\ \A k \in 1 .. Len(got) : got[k] = data[node.data_offset + f.offset + k - 1]
<1>. DEFINE f == files[p][fd]
            node == nodes[f.node]
            size == node.size
            o == f.offset
            rest == IF o >= size THEN 0 ELSE size - o
            left == IF size > o THEN size - o ELSE 0
            n == IF len < rest THEN len ELSE rest
            got == BytesRead(f, len)
<1>1. size \in Nat /\ o \in Nat
  BY OpenFile, Zenon
<1>2. got = [k \in 1 .. n |-> data[node.data_offset + o + k - 1]]
  BY Zenon DEF BytesRead
<1>. HIDE DEF node, size, o, got, f
<1>3. rest = left /\ left \in Nat /\ n \in Nat
  BY <1>1
<1>. HIDE DEF rest, n
<1>4. Len(got) = n /\ DOMAIN got = 1 .. n
        /\ \A k \in 1 .. n : got[k] = data[node.data_offset + o + k - 1]
  BY <1>2, <1>3, SMTT(30)
<1>5. Len(got) = IF len < left THEN len ELSE left
  BY <1>3, <1>4, ZenonT(30) DEF n
<1>. QED
  BY <1>3, <1>4, <1>5, Zenon DEF node, size, o, got, f

\* The codes of the checks that read and write share.
LEMMA AccessCodeIs ==
  ASSUME NEW p, NEW fd, NEW modes
  PROVE  /\ AccessCode(p, fd, modes) \in Codes
         /\ AccessCode(p, fd, modes) = "OK" =>
              /\ fd \in DOMAIN files[p] /\ files[p][fd].flags \cap modes # {}
              /\ ~nodes[files[p][fd].node].dir
  BY DEF AccessCode, Codes

\* mcs_vfs_read.
LEMMA ReadStep ==
  ASSUME IInv, NEW p \in Procs, NEW fd, NEW len \in ReadLengths, mcs_vfs_read(p, fd, len)
  PROVE  GoodStep
<1>. DEFINE code == AccessCode(p, fd, Readable)
<1>1. CASE code # "OK" /\ Fails(code)
  BY <1>1, AccessCodeIs, FailStep, ZenonT(30)
<1>2. CASE /\ code = "OK"
           /\ files' = [files EXCEPT ![p][fd].offset =
                          files[p][fd].offset + Len(BytesRead(files[p][fd], len))]
           /\ rc' = "OK" /\ UNCHANGED <<nodes, data, data_used, contents>>
  <2>. DEFINE f == files[p][fd]
              size == nodes[f.node].size
              o == f.offset
              n == Len(BytesRead(f, len))
              left == IF size > o THEN size - o ELSE 0
  <2>1. fd \in DOMAIN files[p]
    BY <1>2, AccessCodeIs, Zenon
  <2>2. len \in Nat
    BY VfsAssumption, Zenon
  <2>3. /\ o \in Nat /\ o <= 2 * LongMax + 1 /\ size \in Nat /\ LongMax \in Nat
        /\ nodes[f.node].data_capacity \in Nat /\ nodes[f.node].data_capacity <= LongMax
        /\ size <= nodes[f.node].data_capacity
    BY <2>1, OpenFile, Zenon
  <2>4. left \in Nat /\ n = IF len < left THEN len ELSE left
    BY <2>1, <2>2, BytesReadIs, ZenonT(40)
  <2>5. size <= LongMax
    BY <2>3
  <2>. HIDE DEF f, o, size, n
  <2>6. o + n \in Nat /\ o + n <= 2 * LongMax + 1
    BY <2>2, <2>3, <2>4, <2>5, SMTT(30)
  <2>7. FilesOK(Moved(p, fd, o + n), Len(nodes))
    BY <2>1, <2>6, IInvFacts, OffsetMoved, ZenonT(30)
  <2>8. FilesOK(files', Len(nodes))
    BY <1>2, <2>7, Zenon DEF f, o, n, Moved
  <2>. QED
    BY <1>2, <2>8, QuietStep, ZenonT(30) DEF Codes
<1>. QED
  BY <1>1, <1>2, Zenon DEF mcs_vfs_read

\* mcs_vfs_lseek: the offset may lie beyond the end, but is never negative.
LEMMA SeekStep ==
  ASSUME IInv, NEW p \in Procs, NEW fd, NEW o \in SeekOffsets,
         NEW whence \in {"SET", "CUR", "END", "other"}, mcs_vfs_lseek(p, fd, o, whence)
  PROVE  GoodStep
<1>. DEFINE f == files[p][fd]
            base == SeekBase(f, whence)
            sum == base + o
<1>1. CASE Fails("EBADF") \/ Fails("EISDIR") \/ Fails("EINVAL")
  BY <1>1, FailStep, Zenon DEF Codes
<1>2. ASSUME NEW next \in SeekSums(sum),
             /\ fd \in DOMAIN files[p] /\ whence # "other" /\ next >= 0
             /\ files' = [files EXCEPT ![p][fd].offset = next]
             /\ rc' = IF next <= IntMax THEN "OK" ELSE "cut"
             /\ UNCHANGED <<nodes, data, data_used, contents>>
      PROVE  GoodStep
  <2>1. /\ f.offset \in Nat /\ f.offset <= 2 * LongMax + 1 /\ LongMax \in Nat
        /\ nodes[f.node].size \in Nat /\ nodes[f.node].data_capacity \in Nat
        /\ nodes[f.node].data_capacity <= LongMax
        /\ nodes[f.node].size <= nodes[f.node].data_capacity
    BY <1>2, OpenFile, Zenon
  <2>2. \/ base = 0
        \/ base = AsLong(f.offset)
        \/ base = nodes[f.node].size
    BY Zenon DEF SeekBase
  <2>3. AsLong(f.offset) \in Int /\ AsLong(f.offset) <= LongMax
    BY <2>1, AsLongInRange, ZenonT(30)
  <2>4. base \in Int /\ base <= LongMax
    BY <2>1, <2>2, <2>3, SMTT(30)
  <2>5. o \in -LongMax .. LongMax
    BY VfsAssumption, ZenonT(30)
  <2>. HIDE DEF base
  <2>6. next \in Nat /\ next <= 2 * LongMax + 1
    <3>1. next = sum \/ (sum < -LongMax - 1 /\ next = sum + 2 * (LongMax + 1))
      BY ZenonT(30) DEF SeekSums
    <3>2. sum \in Int /\ sum <= 2 * LongMax
      BY <2>1, <2>4, <2>5, SMTT(30)
    <3>. HIDE DEF sum
    <3>. QED
      BY <1>2, <2>1, <3>1, <3>2, SMTT(30)
  <2>7. FilesOK(Moved(p, fd, next), Len(nodes)) /\ SameFds(Moved(p, fd, next))
    BY <1>2, <2>6, IInvFacts, OffsetMoved, ZenonT(30)
  <2>8. FilesOK(files', Len(nodes)) /\ \A q \in Procs : DOMAIN files'[q] = DOMAIN files[q]
    BY <1>2, <2>7, Zenon DEF Moved, SameFds
  <2>. QED
    BY <1>2, <2>8, QuietStep, Zenon DEF Codes
<1>. QED
  BY <1>1, <1>2, Zenon DEF mcs_vfs_lseek

\* u is text with buf written to offset at.
Replaced(u, text, at, buf) ==
  \A k \in 1 .. Len(u) :
    u[k] = IF k - 1 \in at .. at + Len(buf) - 1 THEN buf[k - at]
           ELSE IF k <= Len(text) THEN text[k] ELSE Hole

\* What a file says after a write.
LEMMA OverwrittenIs ==
  ASSUME NEW text \in Seq(Int), NEW at \in Nat, NEW buf \in Seq(Nat)
  PROVE  LET u == Overwritten(text, at, buf)
             to == at + Len(buf)
         IN /\ u \in Seq(Int) /\ Len(u) = IF to > Len(text) THEN to ELSE Len(text)
            /\ Replaced(u, text, at, buf)
            /\ at = Len(text) => Continues(text, u)
<1>. DEFINE u == Overwritten(text, at, buf)
            l == Len(text)
            b == Len(buf)
            to == at + b
            m == IF l > to THEN l ELSE to
            v == [k \in 1 .. m |-> IF k - 1 \in at .. to - 1 THEN buf[k - at]
                                   ELSE IF k <= l THEN text[k] ELSE Hole]
<1>1. l \in Nat /\ b \in Nat /\ DOMAIN text = 1 .. l
      /\ (\A k \in 1 .. l : text[k] \in Int) /\ \A k \in 1 .. b : buf[k] \in Int
  OBVIOUS
<1>2. u = v
  BY DEF Overwritten
<1>. HIDE DEF u, l, b
<1>3. m \in Nat /\ m = IF to > l THEN to ELSE l
  BY <1>1
<1>4. ASSUME NEW k \in 1 .. m PROVE v[k] \in Int
  <2>1. CASE k - 1 \in at .. to - 1
    <3>1. k - at \in 1 .. b
      BY <1>1, <1>3, <2>1, SMTT(30)
    <3>. QED
      BY <1>1, <2>1, <3>1, ZenonT(30)
  <2>2. CASE k - 1 \notin at .. to - 1 /\ k <= l
    <3>1. k \in 1 .. l
      BY <1>1, <1>3, <2>2, SMTT(30)
    <3>. QED
      BY <1>1, <2>2, <3>1, ZenonT(30)
  <2>3. CASE k - 1 \notin at .. to - 1 /\ ~(k <= l)
    <3>1. Hole \in Int
      BY DEF Hole
    <3>. QED
      BY <2>3, <3>1, Zenon
  <2>. QED
    BY <2>1, <2>2, <2>3, Zenon
<1>5. v \in [1 .. m -> Int]
  BY <1>4, Zenon
<1>. HIDE DEF m
<1>6. /\ u \in Seq(Int) /\ Len(u) = m
      /\ \A k \in 1 .. m : u[k] = IF k - 1 \in at .. to - 1 THEN buf[k - at]
                                  ELSE IF k <= l THEN text[k] ELSE Hole
  <2>1. \A k \in 1 .. m : u[k] = IF k - 1 \in at .. to - 1 THEN buf[k - at]
                                  ELSE IF k <= l THEN text[k] ELSE Hole
    BY <1>2, Zenon
  <2>. HIDE DEF v
  <2>2. u \in Seq(Int) /\ Len(u) = m
    BY <1>2, <1>3, <1>5, FunctionIsSeq, ZenonT(30)
  <2>. QED
    BY <2>1, <2>2, Zenon
<1>. HIDE DEF v
<1>7. ASSUME at = l PROVE Continues(text, u)
  <2>1. l <= m
    BY <1>1, <1>3, SMTT(30)
  <2>2. ASSUME NEW k \in 1 .. l PROVE u[k] = text[k]
    <3>1. k \in 1 .. m /\ k <= l /\ k - 1 \notin at .. to - 1
      BY <1>1, <1>3, <1>7, <2>1, SMTT(30)
    <3>. QED
      BY <1>6, <3>1, Zenon
  <2>. QED
    BY <1>1, <1>6, <2>1, <2>2, ZenonT(30) DEF Continues, l
<1>8. Replaced(u, text, at, buf)
  BY ONLY <1>6 DEF Replaced, l, b
<1>. QED
  BY <1>3, <1>6, <1>7, <1>8, ZenonT(30) DEF u, l, b

\* The write itself, once the checks have passed.
LEMMA WriteDone ==
  ASSUME IInv, NEW i \in 1 .. Len(nodes), NEW at \in Nat, NEW buf \in Seq(Nat),
         at + Len(buf) <= nodes[i].data_capacity,
         Appended(i) => at = nodes[i].size,
         nodes' = [nodes EXCEPT ![i].size =
                     IF at + Len(buf) > nodes[i].size THEN at + Len(buf) ELSE nodes[i].size],
         data' = WriteAt(data, nodes[i].data_offset + at, buf),
         contents' = [contents EXCEPT ![i] = Overwritten(contents[i], at, buf)],
         data_used' = data_used, FilesOK(files', Len(nodes)), rc' = "OK"
  PROVE  GoodStep
<1>. DEFINE o == nodes[i].data_offset
            cap == nodes[i].data_capacity
            size == nodes[i].size
            old == contents[i]
            to == at + Len(buf)
            m == IF to > size THEN to ELSE size
            text == Overwritten(old, at, buf)
            w == WriteAt(data, o + at, buf)
<1>1. /\ NodesOK(nodes, data_used) /\ data \in Area /\ FilesOK(files, Len(nodes))
      /\ TextsOK(contents, nodes, data)
  BY IInvFacts, ZenonT(30)
<1>2. TextOK(old, nodes[i], data)
  BY <1>1, ZenonT(30) DEF TextsOK
<1>3. old \in Seq(Int) /\ Len(old) = size
      /\ \A k \in 1 .. size : old[k] = Hole \/ old[k] = data[o + k - 1]
  BY <1>2, Zenon DEF TextOK
<1>4. o \in Nat /\ cap \in Nat /\ size \in Nat /\ size <= cap
  BY <1>1, NodeFacts, ZenonT(30)
<1>5. Len(buf) \in Nat
  OBVIOUS
<1>6. /\ w \in Area
      /\ Wrote(w, data, o, cap, at, buf)
      /\ OthersKept(nodes, i, data, w)
  BY ONLY <1>1, Written, at \in Nat, buf \in Seq(Nat), i \in 1 .. Len(nodes),
     at + Len(buf) <= nodes[i].data_capacity, ZenonT(30)
<1>7. /\ text \in Seq(Int) /\ Len(text) = m
      /\ Replaced(text, old, at, buf)
      /\ at = size => Continues(old, text)
  BY ONLY <1>3, OverwrittenIs, at \in Nat, buf \in Seq(Nat), ZenonT(30)
<1>8. m \in Nat /\ m <= cap
  BY ONLY <1>4, <1>5, at \in Nat, at + Len(buf) <= cap
<1>9. /\ nodes' = Sized(nodes, i, m) /\ data' = w
      /\ contents' = [GrownContents(nodes) EXCEPT ![i] = text]
  BY SameGrows, Zenon DEF Sized
<1>10. Appended(i) => Continues(contents[i], text)
  BY <1>7, Zenon
<1>. HIDE DEF text, w, m, size, cap, o, old, to
<1>11. ASSUME NEW k \in 1 .. m PROVE text[k] = Hole \/ text[k] = w[o + k - 1]
  <2>1. k \in 1 .. cap /\ (k <= size => k \in 1 .. size)
    BY ONLY <1>4, <1>8, k \in 1 .. m, SMTT(30)
  <2>. QED
    BY ONLY <2>1, <1>3, <1>6, <1>7, k \in 1 .. m, ZenonT(30) DEF Wrote, Replaced
<1>12. Says(text, nodes[i].data_offset, w)
  BY <1>7, <1>11, Zenon DEF Says, o
<1>. QED
  BY ONLY IInv, SameGrows, <1>6, <1>7, <1>8, <1>9, <1>10, <1>12, i \in 1 .. Len(nodes),
     data_used' = data_used, FilesOK(files', Len(nodes)), rc' = "OK", ReplaceStep, ZenonT(30) DEF cap

\* mcs_vfs_write.
LEMMA WriteStep ==
  ASSUME IInv, NEW p \in Procs, NEW fd, NEW buf \in Buffers, mcs_vfs_write(p, fd, buf)
  PROVE  GoodStep
<1>. DEFINE code == AccessCode(p, fd, Writable)
            f == files[p][fd]
            i == f.node
            at == WriteOffset(f)
            to == at + Len(buf)
            wc == WriteCode(nodes[i], at, buf)
            o == IF wc = "OK" THEN to ELSE at
<1>1. CASE code # "OK" /\ Fails(code)
  BY <1>1, AccessCodeIs, FailStep, Zenon
<1>2. CASE /\ code = "OK" /\ rc' = wc /\ data_used' = data_used
           /\ files' = [files EXCEPT ![p][fd].offset = o]
           /\ IF wc = "OK"
              THEN /\ data' = WriteAt(data, nodes[i].data_offset + at, buf)
                   /\ nodes' = [nodes EXCEPT ![i].size =
                                  IF to > nodes[i].size THEN to ELSE nodes[i].size]
                   /\ contents' = [contents EXCEPT ![i] = Overwritten(contents[i], at, buf)]
              ELSE UNCHANGED <<data, nodes, contents>>
  <2>1. fd \in DOMAIN files[p] /\ f.flags \cap Writable # {}
    BY <1>2, AccessCodeIs, Zenon
  <2>2. /\ i \in 1 .. Len(nodes) /\ f.offset \in Nat /\ f.offset <= 2 * LongMax + 1
        /\ LongMax \in Nat
        /\ nodes[i].data_capacity \in Nat /\ nodes[i].data_capacity <= LongMax
        /\ nodes[i].size \in Nat /\ nodes[i].size <= nodes[i].data_capacity
    BY <2>1, OpenFile, ZenonT(30)
  <2>3. at = IF "APPEND" \in f.flags THEN nodes[i].size ELSE f.offset
    BY Zenon DEF WriteOffset
  <2>4. at \in Nat /\ at <= 2 * LongMax + 1
    <3>. HIDE DEF at, f, i
    <3>1. at = nodes[i].size \/ at = f.offset
      BY <2>3, Zenon
    <3>. QED
      BY ONLY <2>2, <3>1, OffsetInRange, Zenon
  <2>5. buf \in Seq(Nat)
    BY VfsAssumption, Zenon
  <2>6. Len(buf) \in Nat
    BY <2>5, SMTT(30)
  <2>. HIDE DEF at
  <2>7. wc \in Codes /\ (wc = "OK" => ~(to > nodes[i].data_capacity))
    BY Zenon DEF WriteCode, Codes
  <2>. HIDE DEF wc
  <2>8. wc = "OK" => to <= nodes[i].data_capacity
    BY <2>2, <2>4, <2>6, <2>7, MovedInRange, ZenonT(30)
  <2>9. o \in Nat /\ o <= 2 * LongMax + 1
    BY <2>2, <2>4, <2>6, <2>7, MovedInRange, ZenonT(30)
  <2>. HIDE DEF o
  <2>10. FilesOK(files', Len(nodes)) /\ \A q \in Procs : DOMAIN files'[q] = DOMAIN files[q]
    <3>1. FilesOK(Moved(p, fd, o), Len(nodes)) /\ SameFds(Moved(p, fd, o))
      BY <2>1, <2>9, IInvFacts, OffsetMoved, ZenonT(30)
    <3>. QED
      BY <1>2, <3>1, ZenonT(30) DEF Moved, SameFds
  <2>11. CASE wc # "OK"
    <3>1. UNCHANGED <<nodes, data, data_used, contents>> /\ rc' \in Codes
      BY <1>2, <2>7, <2>11, ZenonT(30)
    <3>. QED
      BY <2>10, <3>1, QuietStep, Zenon
  <2>12. CASE wc = "OK"
    <3>1. Appended(i) => at = nodes[i].size
      BY <2>1, <2>3, ZenonT(30) DEF Appended, can_write
    <3>2. /\ rc' = "OK" /\ data_used' = data_used
          /\ data' = WriteAt(data, nodes[i].data_offset + at, buf)
          /\ nodes' = [nodes EXCEPT ![i].size =
                         IF at + Len(buf) > nodes[i].size THEN at + Len(buf)
                         ELSE nodes[i].size]
          /\ contents' = [contents EXCEPT ![i] = Overwritten(contents[i], at, buf)]
      BY <1>2, <2>12, Zenon
    <3>3. at + Len(buf) <= nodes[i].data_capacity
      BY <2>8, <2>12, ZenonT(30)
    <3>. HIDE DEF i
    <3>. QED
      BY ONLY IInv, <2>2, <2>4, <2>5, <2>10, <3>1, <3>2, <3>3, WriteDone, ZenonT(30)
  <2>. QED
    BY <2>11, <2>12, Zenon
<1>. QED
  BY <1>1, <1>2, ZenonT(30) DEF mcs_vfs_write

\* mcs_ramfs_seed_file.
LEMMA SeedStep ==
  ASSUME IInv, NEW path \in Paths, NEW buf \in Buffers, mcs_ramfs_seed_file(path, buf)
  PROVE  GoodStep
<1>. DEFINE c == Created(path)
            ns == c.nodes
            used == c.used
            i == c.result.node
            node == ns[i]
            fits == c.result.ok /\ Len(buf) <= node.data_capacity
<1>1. /\ Grows(ns, used) /\ c.result.ok \in BOOLEAN /\ c.result.code \in Codes
      /\ c.result.ok => i \in 1 .. Len(ns)
  BY IInvFacts, CreatedGrows, ZenonT(30)
<1>2. NodesOK(ns, used) /\ Len(ns) \in Nat /\ Len(nodes) <= Len(ns)
  <2>1. NodesOK(ns, used) /\ Len(ns) \in Len(nodes) .. Len(nodes) + 1
    BY <1>1, Zenon DEF Grows
  <2>. QED
    BY ONLY <2>1, IInvFacts, IInv, SMTT(30)
<1>3. FilesOK(files, Len(ns))
  BY <1>2, IInvFacts, FilesKept, Zenon
<1>4. /\ files' = files /\ data_used' = used
      /\ nodes' = IF fits THEN Sized(ns, i, Len(buf)) ELSE ns
      /\ data' = IF fits THEN WriteAt(data, node.data_offset, buf) ELSE data
      /\ contents' = IF fits THEN [GrownContents(ns) EXCEPT ![i] = buf] ELSE GrownContents(ns)
      /\ rc' = IF ~c.result.ok THEN c.result.code
               ELSE IF Len(buf) > node.data_capacity THEN "ENOSPC" ELSE "OK"
  BY Zenon DEF mcs_ramfs_seed_file, Sized
<1>5. buf \in Seq(Nat)
  BY VfsAssumption, Zenon
<1>6. buf \in Seq(Int) /\ Len(buf) \in Nat
  BY <1>5
<1>. HIDE DEF c
<1>7. CASE ~fits
  <2>1. rc' \in Codes
    BY <1>1, <1>4, Zenon DEF Codes
  <2>2. nodes' = ns /\ data' = data /\ contents' = GrownContents(ns)
    BY <1>4, <1>7, Zenon
  <2>. HIDE DEF ns, used
  <2>. QED
    BY ONLY IInv, <1>1, <1>3, <1>4, <2>1, <2>2, GrowStep, ZenonT(30)
<1>8. CASE fits
  <2>1. i \in 1 .. Len(ns) /\ Len(buf) <= node.data_capacity
    BY <1>1, <1>8, Zenon
  <2>2. /\ node.data_offset \in Nat /\ node.data_capacity \in Nat
    BY <1>2, <2>1, NodeFacts, ZenonT(30)
  <2>3. /\ nodes' = Sized(ns, i, Len(buf)) /\ data' = WriteAt(data, node.data_offset, buf)
        /\ contents' = [GrownContents(ns) EXCEPT ![i] = buf]
    BY <1>4, <1>8, ZenonT(30)
  <2>4. rc' = "OK"
    BY <1>4, <1>6, <1>8, <2>2, SMTT(30)
  <2>. HIDE DEF ns, used, i
  <2>. DEFINE o == node.data_offset
              cap == node.data_capacity
              w == WriteAt(data, o, buf)
  <2>5. o + 0 = o /\ 0 + Len(buf) = Len(buf) /\ 0 \in Nat
    BY ONLY <1>6, <2>2, SMTT(30)
  <2>6. data \in Area
    BY IInvFacts, Zenon
  <2>7. w \in Area /\ Wrote(w, data, o, cap, 0, buf) /\ OthersKept(ns, i, data, w)
    <3>1. 0 + Len(buf) <= ns[i].data_capacity
      BY <2>1, <2>5, Zenon
    <3>2. LET v == WriteAt(data, ns[i].data_offset + 0, buf) IN
          v \in Area /\ Wrote(v, data, o, cap, 0, buf) /\ OthersKept(ns, i, data, v)
      BY ONLY <1>2, <1>5, <2>1, <2>5, <2>6, <3>1, Written, ZenonT(30)
    <3>. QED
      BY <2>5, <3>2, ZenonT(30)
  <2>. HIDE DEF w
  <2>8. ASSUME NEW k \in 1 .. Len(buf) PROVE buf[k] = w[o + k - 1]
    <3>1. k \in 1 .. cap /\ k - 1 \in 0 .. 0 + Len(buf) - 1 /\ k - 0 = k
      BY ONLY <1>6, <2>1, <2>2, k \in 1 .. Len(buf), SMTT(30)
    <3>. QED
      BY <2>7, <3>1, ZenonT(30) DEF Wrote
  <2>9. Says(buf, ns[i].data_offset, w)
    BY <2>8, Zenon DEF Says
  <2>10. data' = w /\ FilesOK(files', Len(ns))
    BY <1>3, <1>4, <2>3, ZenonT(30) DEF w
  <2>. QED
    BY ONLY IInv, <1>1, <1>4, <1>6, <2>1, <2>3, <2>4, <2>7, <2>9, <2>10, ReplaceStep, ZenonT(30)
<1>. QED
  BY <1>7, <1>8, Zenon

\* What open has found or made.
Opened(path, flags) ==
  LET old == mcs_ramfs_lookup(path)
  IN IF old.ok \/ "CREAT" \notin flags
     THEN [nodes |-> nodes, used |-> data_used, result |-> old]
     ELSE Created(path)

\* It is in order, and if it is a node, that node exists.
LEMMA OpenedGrows ==
  ASSUME IInv, NEW path \in Paths, NEW flags
  PROVE  LET c == Opened(path, flags) IN
         /\ Grows(c.nodes, c.used)
         /\ c.result.ok \in BOOLEAN /\ c.result.code \in Codes
         /\ ~c.result.ok => c.result.code # "OK"
         /\ c.result.ok => c.result.node \in 1 .. Len(c.nodes)
<1>. DEFINE old == mcs_ramfs_lookup(path)
            c == Opened(path, flags)
<1>1. CASE old.ok \/ "CREAT" \notin flags
  <2>1. Answer(old)
    BY IInvFacts, LookupAnswers, Zenon
  <2>2. c = [nodes |-> nodes, used |-> data_used, result |-> old]
    BY <1>1, Zenon DEF Opened
  <2>. HIDE DEF c, old
  <2>3. c.nodes = nodes /\ c.used = data_used /\ c.result = old
    BY <2>2, Zenon
  <2>. QED
    BY <2>1, <2>3, SameGrows, Zenon DEF Answer, c
<1>2. CASE ~(old.ok \/ "CREAT" \notin flags)
  <2>1. c = Created(path)
    BY <1>2, Zenon DEF Opened
  <2>. QED
    BY <2>1, IInvFacts, CreatedGrows, Zenon
<1>. QED
  BY <1>1, <1>2, Zenon

\* A descriptor that open makes.
LEMMA NewFile ==
  ASSUME NEW ns, NEW used, NodesOK(ns, used), NEW i \in 1 .. Len(ns),
         NEW flags \in SUBSET Flags, ~WriteToDirectory(ns[i], flags),
         NEW o, o = ns[i].size \/ o = 0
  PROVE  FileOK([flags |-> flags \ {"CREAT", "TRUNC"}, node |-> i, offset |-> o], Len(ns))
<1>. DEFINE f == [flags |-> flags \ {"CREAT", "TRUNC"}, node |-> i, offset |-> o]
<1>1. f.flags = flags \ {"CREAT", "TRUNC"} /\ f.node = i /\ f.offset = o
  BY Zenon
<1>2. ns[i].size \in Nat /\ ns[i].data_capacity \in Nat /\ ns[i].size <= ns[i].data_capacity
  BY NodeFacts, Zenon
<1>3. ns[i].data_capacity = IF i = 1 THEN 0 ELSE Capacity
  BY ZenonT(30) DEF NodesOK, NodeOK
<1>4. o \in Nat /\ o <= 2 * LongMax + 1
  BY <1>2, <1>3, VfsAssumption, SMTT(30)
<1>5. ns \in Seq(NodeT)
  BY Zenon DEF NodesOK
<1>6. i \in Nat
  BY <1>5, SMTT(30)
<1>7. f \in FileT
  BY <1>4, <1>6, Zenon DEF FileT
<1>8. can_write(flags) => i # 1
  BY Zenon DEF WriteToDirectory, NodesOK, NodeOK
<1>9. can_write(flags \ {"CREAT", "TRUNC"}) => can_write(flags)
  BY Zenon DEF can_write
<1>. HIDE DEF f
<1>10. FileOK(f, Len(ns))
  BY <1>1, <1>4, <1>7, <1>8, <1>9, ZenonT(30) DEF FileOK
<1>. QED
  BY <1>10, Zenon DEF f

\* mcs_vfs_open.
LEMMA OpenStep ==
  ASSUME IInv, NEW p \in Procs, NEW path \in Paths, NEW given \in FlagSets,
         mcs_vfs_open(p, path, given)
  PROVE  GoodStep
<1>. DEFINE flags == OpenFlags(given)
            c     == Opened(path, flags)
            ns    == c.nodes
            used  == c.used
            i     == c.result.node
            fd    == FreeFd(p)
            trunc == "TRUNC" \in flags
            o     == IF "APPEND" \in flags /\ ~trunc THEN ns[i].size ELSE 0
            file  == [flags |-> flags \ {"CREAT", "TRUNC"}, node |-> i, offset |-> o]
            code  == IF ~c.result.ok THEN c.result.code
                     ELSE IF WriteToDirectory(ns[i], flags) THEN "EISDIR"
                     ELSE IF fd = MaxOpen THEN "ENFILE"
                     ELSE IF trunc /\ ~can_write(flags) THEN "EACCES"
                     ELSE "OK"
            cut   == code = "OK" /\ trunc
<1>1. /\ data_used' = used /\ data' = data /\ rc' = code
      /\ nodes' = IF cut THEN Sized(ns, i, 0) ELSE ns
      /\ contents' = IF cut THEN [GrownContents(ns) EXCEPT ![i] = <<>>] ELSE GrownContents(ns)
      /\ files' = IF code = "OK" THEN [files EXCEPT ![p] = WithFile(files[p], fd, file)]
                  ELSE IF code = "EACCES" THEN [files EXCEPT ![p] = files[p]]
                  ELSE files
  BY Zenon DEF mcs_vfs_open, Opened, Sized, ReleasesTheFd
<1>2. /\ Grows(ns, used) /\ c.result.ok \in BOOLEAN /\ c.result.code \in Codes
      /\ ~c.result.ok => c.result.code # "OK"
      /\ c.result.ok => i \in 1 .. Len(ns)
  BY OpenedGrows, Zenon
<1>3. flags \in SUBSET Flags
  BY VfsAssumption, Zenon DEF OpenFlags, Flags
<1>. HIDE DEF flags, c
<1>4. code \in Codes
  BY <1>2, Zenon DEF Codes
<1>5. code = "OK" => c.result.ok /\ ~WriteToDirectory(ns[i], flags) /\ fd # MaxOpen
  BY <1>2, ZenonT(30)
<1>. HIDE DEF ns, used, i, code
<1>6. NodesOK(ns, used) /\ Len(ns) \in Nat /\ Len(nodes) <= Len(ns)
  <2>1. NodesOK(ns, used) /\ Len(ns) \in Len(nodes) .. Len(nodes) + 1
    BY <1>2, Zenon DEF Grows
  <2>. QED
    BY ONLY <2>1, IInvFacts, IInv, SMTT(30)
<1>7. FilesOK(files, Len(ns))
  BY <1>6, IInvFacts, FilesKept, ZenonT(30)
<1>8. TableOK(files[p], Len(ns)) /\ DOMAIN files = Procs
  BY <1>7, Zenon DEF FilesOK
<1>9. CASE code # "OK"
  <2>1. FilesOK([files EXCEPT ![p] = files[p]], Len(ns))
    BY <1>7, <1>8, TableReplaced, ZenonT(30)
  <2>2. \A q \in Procs : [files EXCEPT ![p] = files[p]][q] = files[q]
    BY <1>8, Zenon
  <2>3. FilesOK(files', Len(ns)) /\ \A q \in Procs : DOMAIN files'[q] = DOMAIN files[q]
    BY <1>1, <1>7, <1>9, <2>1, <2>2, ZenonT(30)
  <2>4. nodes' = ns /\ contents' = GrownContents(ns) /\ data_used' = used /\ data' = data
        /\ rc' \in Codes
    BY <1>1, <1>4, <1>9, ZenonT(30)
  <2>. QED
    BY ONLY IInv, <1>2, <2>3, <2>4, GrowStep, ZenonT(30)
<1>10. CASE code = "OK"
  <2>1. i \in 1 .. Len(ns) /\ ~WriteToDirectory(ns[i], flags) /\ fd # MaxOpen
    BY <1>2, <1>5, <1>10, Zenon
  <2>2. FileOK(file, Len(ns))
    <3>1. o = ns[i].size \/ o = 0
      BY Zenon
    <3>. HIDE DEF o
    <3>. QED
      BY ONLY <1>3, <1>6, <2>1, <3>1, NewFile, ZenonT(30)
  <2>3. fd \in 0 .. MaxOpen - 1
    BY <2>1, FreeFdIs, IInvFacts, ZenonT(30)
  <2>. HIDE DEF file, fd
  <2>4. TableOK(WithFile(files[p], fd, file), Len(ns))
    BY <1>8, <2>2, <2>3, FileAdded, ZenonT(30)
  <2>5. FilesOK(files', Len(ns))
    BY <1>1, <1>7, <1>10, <2>4, TableReplaced, ZenonT(30)
  <2>6. CASE ~trunc
    <3>1. nodes' = ns /\ contents' = GrownContents(ns) /\ data_used' = used /\ data' = data
          /\ rc' = "OK"
      BY <1>1, <1>10, <2>6, ZenonT(30)
    <3>. QED
      BY ONLY IInv, <1>2, <2>5, <3>1, GrowStep, ZenonT(30) DEF Codes
  <2>7. CASE trunc
    <3>1. nodes' = Sized(ns, i, 0) /\ contents' = [GrownContents(ns) EXCEPT ![i] = <<>>]
          /\ data_used' = used /\ data' = data /\ rc' = "OK"
      BY <1>1, <1>10, <2>7, ZenonT(30)
    <3>2. 0 \in Nat /\ 0 <= ns[i].data_capacity
      <4>1. ns[i].data_capacity \in Nat
        BY <1>6, <2>1, NodeFacts, ZenonT(30)
      <4>. QED
        BY ONLY <4>1, SMTT(30)
    <3>3. <<>> \in Seq(Int) /\ Len(<<>>) = 0 /\ Says(<<>>, ns[i].data_offset, data)
      BY ONLY TRUE, SMTT(30) DEF Says
    <3>4. OthersKept(ns, i, data, data)
      BY Zenon DEF OthersKept
    <3>5. data \in Area
      BY IInvFacts, Zenon
    <3>. QED
      BY ONLY IInv, <1>2, <2>1, <2>5, <3>1, <3>2, <3>3, <3>4, <3>5, ReplaceStep, ZenonT(30)
  <2>. QED
    BY <2>6, <2>7, ZenonT(30)
<1>. QED
  BY <1>9, <1>10, ZenonT(30)

-----------------------------------------------------------------------------
(* The theorems.                                                           *)

\* The file system as mcs_ramfs_init leaves it.
LEMMA InitIInv == Init => IInv
<1>. SUFFICES ASSUME Init PROVE IInv
  OBVIOUS
<1>. DEFINE root == Node(1, TRUE, "/", 0, 0)
<1>1. nodes = <<root>> /\ data_used = 0 /\ contents = << <<>> >> /\ rc = "OK"
  BY Zenon DEF Init
<1>2. /\ root.parent = 1 /\ root.dir = TRUE /\ root.size = 0
      /\ root.data_offset = 0 /\ root.data_capacity = 0 /\ root \in NodeT
  BY DEF Node, NodeT
<1>. HIDE DEF root
<1>3. Len(nodes) = 1 /\ nodes \in Seq(NodeT) /\ nodes[1] = root
  BY <1>1, <1>2, SMTT(30)
<1>4. 1 .. 1 = {1} /\ DataBytes \in Nat
  BY VfsAssumption, SMTT(30)
<1>5. NodesOK(nodes, data_used)
  BY <1>1, <1>2, <1>3, <1>4, SMTT(30) DEF NodesOK, NodeOK, InOrder, NamesApart
<1>6. data \in Area
  <2>1. data = [k \in 0 .. DataBytes - 1 |-> 0]
    BY Zenon DEF Init
  <2>. QED
    BY ONLY <2>1, SMTT(30) DEF Area
<1>7. FilesOK(files, Len(nodes))
  BY Zenon DEF Init, FilesOK, TableOK
<1>8. TextsOK(contents, nodes, data)
  <2>1. contents \in Seq(Seq(Int)) /\ Len(contents) = 1 /\ contents[1] = <<>>
    BY ONLY <1>1, SMTT(30)
  <2>2. <<>> \in Seq(Int) /\ Len(<<>>) = 0 /\ 1 .. 0 = {}
    BY ONLY TRUE
  <2>3. TextOK(<<>>, root, data)
    BY <1>2, <2>2, ZenonT(30) DEF TextOK
  <2>. QED
    BY <1>3, <1>4, <2>1, <2>3, ZenonT(30) DEF TextsOK
<1>. QED
  BY <1>1, <1>5, <1>6, <1>7, <1>8, ZenonT(30) DEF IInv, Codes

\* Every step of every process is a good one.
LEMMA NextGood == IInv /\ Next => GoodStep
<1>. SUFFICES ASSUME IInv, Next PROVE GoodStep
  OBVIOUS
<1>1. CASE \E path \in Paths, buf \in Buffers : mcs_ramfs_seed_file(path, buf)
  BY <1>1, SeedStep, ZenonT(30)
<1>2. CASE \E p \in Procs, path \in Paths, flags \in FlagSets : mcs_vfs_open(p, path, flags)
  BY <1>2, OpenStep, Zenon
<1>3. ASSUME NEW p \in Procs, NEW fd \in Fds, NEW len \in ReadLengths, mcs_vfs_read(p, fd, len)
      PROVE  GoodStep
  BY <1>3, ReadStep, Zenon
<1>4. ASSUME NEW p \in Procs, NEW fd \in Fds, NEW buf \in Buffers, mcs_vfs_write(p, fd, buf)
      PROVE  GoodStep
  BY <1>4, WriteStep, Zenon
<1>5. ASSUME NEW p \in Procs, NEW fd \in Fds, NEW o \in SeekOffsets,
             NEW whence \in {"SET", "CUR", "END", "other"}, mcs_vfs_lseek(p, fd, o, whence)
      PROVE  GoodStep
  BY <1>5, SeekStep, Zenon
<1>6. ASSUME NEW p \in Procs, NEW fd \in Fds, mcs_vfs_close(p, fd) \/ mcs_vfs_dup(p, fd)
      PROVE  GoodStep
  BY <1>6, CloseStep, DupStep, ZenonT(30)
<1>. QED
  BY <1>1, <1>2, <1>3, <1>4, <1>5, <1>6, ZenonT(30) DEF Next

\* A step in which nothing changes keeps the invariant.
LEMMA StutterIInv == IInv /\ UNCHANGED vars => IInv'
  BY Zenon DEF IInv, vars

\* The invariant is inductive.
LEMMA IInvInvariant == Spec => []IInv
<1>1. IInv /\ [Next]_vars => IInv'
  BY NextGood, StutterIInv, Zenon DEF GoodStep
<1>. QED
  BY <1>1, InitIInv, PTL DEF Spec

\* The invariant says all that FsWellFormed says.
LEMMA IInvWellFormed == IInv => FsWellFormed
<1>. SUFFICES ASSUME IInv PROVE FsWellFormed
  OBVIOUS
<1>. DEFINE Region(i) == nodes[i].data_offset ..
                         nodes[i].data_offset + nodes[i].data_capacity - 1
            D == 1 .. Len(nodes)
<1>1. DOMAIN nodes = D
  BY IInvFacts, Zenon
<1>2. ASSUME NEW i \in D
      PROVE  /\ nodes[i].parent \in D /\ nodes[i].dir \in BOOLEAN
             /\ nodes[i].data_capacity \in {0, Capacity}
             /\ nodes[i].size \in 0 .. nodes[i].data_capacity
             /\ Region(i) \subseteq (0 .. data_used - 1) \cap DOMAIN data
             /\ nodes[i].dir <=> i = 1
  <2>1. NodeOK(nodes, data_used, i)
    BY IInvFacts, Zenon DEF NodesOK
  <2>2. /\ nodes[i] \in NodeT
        /\ nodes[i].data_offset \in Nat /\ nodes[i].data_capacity \in Nat /\ nodes[i].size \in Nat
        /\ nodes[i].data_offset + nodes[i].data_capacity <= data_used
        /\ nodes[i].size <= nodes[i].data_capacity
        /\ data_used \in Nat /\ data_used <= DataBytes /\ DataBytes \in Nat
    BY IInvFacts, NodeFacts, Zenon
  <2>3. nodes[i].dir \in BOOLEAN
    BY <2>2, Zenon DEF NodeT
  <2>4. nodes[i].parent \in D /\ nodes[i].data_capacity \in {0, Capacity}
        /\ (nodes[i].dir <=> i = 1)
    BY <2>1, Zenon DEF NodeOK
  <2>5. DOMAIN data = 0 .. DataBytes - 1
    BY IInvFacts, ZenonT(30) DEF Area
  <2>6. nodes[i].size \in 0 .. nodes[i].data_capacity
    BY ONLY <2>2
  <2>7. Region(i) \subseteq (0 .. data_used - 1) \cap DOMAIN data
    <3>. DEFINE d == nodes[i].data_offset
                c == nodes[i].data_capacity
    <3>1. d .. d + c - 1 \subseteq (0 .. data_used - 1) \cap (0 .. DataBytes - 1)
      <4>1. d \in Nat /\ c \in Nat /\ d + c <= data_used
        BY <2>2, Zenon
      <4>. HIDE DEF d, c
      <4>. QED
        BY <2>2, <4>1, RegionWithin, ZenonT(30)
    <3>. QED
      BY <2>5, <3>1, Zenon DEF Region
  <2>. QED
    BY <2>3, <2>4, <2>6, <2>7, ZenonT(30)
<1>3. ASSUME NEW i \in D, NEW j \in D, i # j
      PROVE  /\ Region(i) \cap Region(j) = {}
             /\ nodes[i].parent # nodes[j].parent \/ nodes[i].name # nodes[j].name
  <2>. DEFINE a == nodes[i].data_offset
              b == nodes[i].data_capacity
              c == nodes[j].data_offset
              e == nodes[j].data_capacity
  <2>1. a + b <= c \/ c + e <= a
    BY <1>3, IInvFacts, RegionsApart, Zenon
  <2>2. a \in Nat /\ b \in Nat /\ c \in Nat /\ e \in Nat
    BY IInvFacts, NodeFacts, Zenon
  <2>3. Region(i) \cap Region(j) = {}
    <3>. HIDE DEF a, b, c, e
    <3>1. \A x \in a .. a + b - 1 : x \notin c .. c + e - 1
      BY ONLY <2>1, <2>2, SMTT(30)
    <3>. QED
      BY <3>1, Zenon DEF a, b, c, e
  <2>4. nodes[i].parent # nodes[j].parent \/ nodes[i].name # nodes[j].name
    BY <1>3, IInvFacts, Zenon DEF NodesOK, NamesApart
  <2>. QED
    BY <2>3, <2>4, Zenon
<1>4. ASSUME NEW p \in Procs, NEW fd \in DOMAIN files[p]
      PROVE  /\ files[p][fd].node \in D
             /\ can_write(files[p][fd].flags) => ~nodes[files[p][fd].node].dir
             /\ files[p][fd].offset \in 0 .. 2 * LongMax + 1
  <2>1. FileOK(files[p][fd], Len(nodes))
    BY IInvFacts, Zenon DEF FilesOK, TableOK
  <2>2. files[p][fd].node \in D /\ (can_write(files[p][fd].flags) => files[p][fd].node # 1)
    BY <2>1, Zenon DEF FileOK
  <2>3. files[p][fd].offset \in Nat /\ files[p][fd].offset <= 2 * LongMax + 1
    BY OpenFile, ZenonT(30)
  <2>4. files[p][fd].offset \in 0 .. 2 * LongMax + 1
    BY <2>3, VfsAssumption, SMTT(30)
  <2>. QED
    BY <1>2, <2>2, <2>4, ZenonT(30)
<1>5. /\ data_used \in 0 .. DataBytes /\ DOMAIN files = Procs
      /\ \A p \in Procs : DOMAIN files[p] \subseteq 0 .. MaxOpen - 1
      /\ rc \in Codes
  BY IInvFacts, Zenon DEF NodesOK, FilesOK, TableOK
<1>6. TypeOK
  BY <1>1, <1>2, <1>4, <1>5, ZenonT(30) DEF TypeOK, Codes
<1>. QED
  BY <1>1, <1>2, <1>3, <1>4, <1>6, ZenonT(30) DEF FsWellFormed

\* With the invariant, a read returns what the history says.
LEMMA IInvReads == IInv => ReadsReturnWhatWasWritten
<1>. SUFFICES ASSUME IInv, NEW p \in Procs, NEW fd \in DOMAIN files[p], NEW len \in ReadLengths
              PROVE  LET file == files[p][fd]
                         text == contents[file.node]
                         got  == BytesRead(file, len)
                         left == IF Len(text) > file.offset THEN Len(text) - file.offset ELSE 0
                     IN /\ Len(got) = IF len < left THEN len ELSE left
                        /\ \A k \in DOMAIN got : text[file.offset + k] \in {got[k], Hole}
  BY Zenon DEF ReadsReturnWhatWasWritten
<1>. DEFINE f == files[p][fd]
            node == nodes[f.node]
            text == contents[f.node]
            got == BytesRead(f, len)
            o == f.offset
            d == node.data_offset
            size == node.size
            left == IF size > o THEN size - o ELSE 0
<1>1. len \in Nat
  BY VfsAssumption, Zenon
<1>2. f.node \in 1 .. Len(nodes) /\ o \in Nat /\ d \in Nat /\ size \in Nat
  BY OpenFile, Zenon
<1>3. TextOK(text, node, data)
  BY <1>2, IInvFacts, Zenon DEF TextsOK
<1>4. Len(text) = size /\ \A k \in 1 .. size : text[k] = Hole \/ text[k] = data[d + k - 1]
  BY <1>3, Zenon DEF TextOK
<1>5. /\ left \in Nat /\ Len(got) = IF len < left THEN len ELSE left
      /\ DOMAIN got = 1 .. Len(got)
      /\ \A k \in 1 .. Len(got) : got[k] = data[d + o + k - 1]
  BY <1>1, BytesReadIs, ZenonT(30)
<1>. HIDE DEF f, node, text, got, o, d, size
<1>6. ASSUME NEW k \in DOMAIN got PROVE text[o + k] \in {got[k], Hole}
  <2>1. k \in 1 .. Len(got)
    BY <1>5, Zenon
  <2>2. o + k \in 1 .. size /\ d + (o + k) - 1 = d + o + k - 1
    <3>. DEFINE n == Len(got)
    <3>1. n = IF len < left THEN len ELSE left
      BY <1>5, Zenon
    <3>2. k \in 1 .. n
      BY <2>1, Zenon
    <3>3. left = IF size > o THEN size - o ELSE 0
      OBVIOUS
    <3>. HIDE DEF n, left
    <3>. QED
      BY ONLY <1>1, <1>2, <3>1, <3>2, <3>3, SMTT(30)
  <2>3. text[o + k] = Hole \/ text[o + k] = data[d + o + k - 1]
    BY <1>4, <2>2, Zenon
  <2>. QED
    BY <1>5, <2>1, <2>3, Zenon
<1>. QED
  BY <1>4, <1>5, <1>6, ZenonT(30) DEF f, node, text, got, o, d, size

\* For any number of nodes, descriptors, processes and paths, the RAM file system
\* keeps the files' regions apart and in the data area, the names of a directory
\* apart, and every descriptor on a node it may be used on.
THEOREM VfsWellFormed == Spec => []FsWellFormed
  BY IInvInvariant, IInvWellFormed, PTL

\* A read returns the bytes last written at those offsets of that file, whatever
\* has happened in between through other descriptors and to other files.
THEOREM VfsReadsReturnWhatWasWritten == Spec => []ReadsReturnWhatWasWritten
  BY IInvInvariant, IInvReads, PTL

\* A call that fails leaves the descriptors, the files and the data area alone,
\* except for at most one new, empty file.
THEOREM VfsFailureIsHarmless == Spec => FailureIsHarmless
<1>1. IInv /\ [Next]_vars => [HarmlessStep]_vars
  BY NextGood, Zenon DEF GoodStep
<1>2. FailureIsHarmless <=> [][HarmlessStep]_vars
  BY PTL DEF FailureIsHarmless, HarmlessStep
<1>. QED
  BY <1>1, <1>2, IInvInvariant, PTL DEF Spec

\* A file whose writers all append is never overwritten by them.
THEOREM VfsAppendersNeverOverwrite == Spec => AppendersNeverOverwrite
<1>1. IInv /\ [Next]_vars => [AppendStep]_vars
  BY NextGood, Zenon DEF GoodStep
<1>2. AppendersNeverOverwrite <=> [][AppendStep]_vars
  BY PTL DEF AppendersNeverOverwrite, AppendStep
<1>. QED
  BY <1>1, <1>2, IInvInvariant, PTL DEF Spec
=============================================================================
