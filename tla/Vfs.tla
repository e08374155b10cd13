--------------------------------- MODULE Vfs ---------------------------------
(***************************************************************************)
(* The RAM file system of mcsos/kernel/vfs/ramfs.c and the file            *)
(* descriptors of fd.c on top of it, shared by several processes.          *)
(*                                                                         *)
(* Nodes are numbered from 1, node 1 being the root (the code's node 0).   *)
(* There is no operation that makes a directory or removes a node.  A      *)
(* descriptor table maps the descriptors in use to their files; what the   *)
(* code leaves in an entry that is not in use is never read again, and     *)
(* neither are the O_CREAT and O_TRUNC bits of one that is.                *)
(***************************************************************************)
EXTENDS Integers, Sequences

CONSTANTS
  Procs,         \* the processes, each with its own descriptor table
  BadSegments,   \* path segments that are empty or MCS_MAX_NAME characters long
  MaxNodes,      \* MCS_MAX_NODES
  MaxOpen,       \* MCS_MAX_OPEN_FILES
  DataBytes,     \* MCS_RAMFS_DATA_BYTES
  Capacity,      \* what create_file asks for, 256
  Paths,         \* the paths callers use
  FlagSets,      \* the flags they open with
  Buffers,       \* the byte sequences they write
  ReadLengths,   \* the lengths they read
  SeekOffsets,   \* the offsets they seek by
  LongMax,       \* LONG_MAX
  IntMax         \* INT_MAX

\* The names that occur in paths.
Segments == UNION {{path.segs[i] : i \in DOMAIN path.segs} : path \in Paths}

\* The bits of the flags of mcs_vfs_open.
Flags == {"RDONLY", "WRONLY", "RDWR", "CREAT", "TRUNC", "APPEND"}

ASSUME VfsAssumption ==
  /\ MaxNodes \in Nat \ {0} /\ MaxOpen \in Nat /\ DataBytes \in Nat
  /\ LongMax \in Nat /\ Capacity \in 0 .. LongMax
  /\ \A path \in Paths : path.segs \in Seq(Segments)
  /\ FlagSets \subseteq SUBSET Flags
  /\ Buffers \subseteq Seq(Nat)
  /\ ReadLengths \subseteq Nat
  /\ SeekOffsets \subseteq -LongMax .. LongMax

VARIABLES
  nodes,      \* fs->nodes, up to node_count
  data,       \* fs->data
  data_used,  \* fs->data_used
  files,      \* fd_table.files of every process, the used ones
  contents,   \* history: what was written to each node; Hole where a write began
              \* beyond the end of a file
  rc          \* what the last call returned

vars == <<nodes, data, data_used, files, contents, rc>>

Hole == -1   \* not a byte

Node(parent, dir, name, offset, capacity) ==
  [parent |-> parent, dir |-> dir, name |-> name, size |-> 0,
   data_offset |-> offset, data_capacity |-> capacity]

-----------------------------------------------------------------------------
(* Paths: whether they begin with a slash, whether they are too long, and  *)
(* the segments between the slashes.                                       *)

\* A node number as a result, or an error code.
Found(i)  == [ok |-> TRUE, node |-> i, code |-> "OK"]
Failed(c) == [ok |-> FALSE, node |-> 0, code |-> c]

find_child(parent, name) ==
  LET hits == {i \in DOMAIN nodes : nodes[i].parent = parent /\ nodes[i].name = name}
  IN IF hits = {} THEN Failed("ENOENT")
     ELSE Found(CHOOSE i \in hits : \A j \in hits : i <= j)

\* One turn of the loop that lookup and split_parent_leaf share.
Enter(cur, seg) ==
  IF ~cur.ok THEN cur
  ELSE IF ~nodes[cur.node].dir THEN Failed("ENOTDIR")
  ELSE IF seg \in BadSegments THEN Failed("EINVAL")
  ELSE find_child(cur.node, seg)

\* Where that loop is after each number of segments.
Descend(segs) ==
  LET step[i \in 0 .. Len(segs)] ==
        IF i = 0 THEN Found(1) ELSE Enter(step[i - 1], segs[i])
  IN step

mcs_ramfs_lookup(path) ==
  IF ~path.absolute THEN Failed("EINVAL")
  ELSE IF path.toolong THEN Failed("ENAMETOOLONG")
  ELSE Descend(path.segs)[Len(path.segs)]

\* The directory a new file goes into.
split_parent_leaf(path) ==
  LET n == Len(path.segs) IN
  IF ~path.absolute \/ n = 0 THEN Failed("EINVAL")
  ELSE IF path.toolong THEN Failed("ENAMETOOLONG")
  ELSE LET dir == Descend(path.segs)[n - 1] IN
       IF ~dir.ok THEN dir
       ELSE IF ~nodes[dir.node].dir THEN Failed("ENOTDIR")
       ELSE IF path.segs[n] \in BadSegments THEN Failed("EINVAL")
       ELSE dir

SpaceOnly == Len(nodes) < MaxNodes

\* Lines 106-111 of alloc_node.
HasRoom == Len(nodes) < MaxNodes /\ data_used + Capacity <= DataBytes

\* What create_file does, given that the path does not exist: either a code, or
\* the directory of the new node.
NewNodeIn(path) ==
  LET dir == split_parent_leaf(path) IN
  IF dir.ok /\ ~HasRoom THEN Failed("ENOSPC") ELSE dir

\* The nodes, and the number of the one create_file returns, afterwards.
Created(path) ==
  LET old == mcs_ramfs_lookup(path)
      dir == NewNodeIn(path)
      new == Node(dir.node, FALSE, path.segs[Len(path.segs)], data_used, Capacity)
  IN IF old.ok THEN [nodes |-> nodes, used |-> data_used, result |->
                       IF nodes[old.node].dir THEN Failed("EISDIR") ELSE old]
     ELSE IF ~dir.ok THEN [nodes |-> nodes, used |-> data_used, result |-> dir]
     ELSE [nodes |-> Append(nodes, new), used |-> data_used + Capacity,
           result |-> Found(Len(nodes) + 1)]

\* The history follows: a new node is empty.
GrownContents(ns) ==
  [i \in DOMAIN ns |-> IF i \in DOMAIN contents THEN contents[i] ELSE <<>>]

-----------------------------------------------------------------------------
\* The flags can_read and can_write ask for.
Readable == {"RDONLY", "RDWR"}
Writable == {"WRONLY", "RDWR"}

can_write(flags) == flags \cap Writable # {}

\* fd_alloc: the lowest descriptor that is not in use, or MaxOpen.
FreeFd(p) ==
  CHOOSE fd \in 0 .. MaxOpen :
    fd \notin DOMAIN files[p] /\ \A e \in 0 .. fd - 1 : e \in DOMAIN files[p]

WithFile(t, fd, file) ==
  [e \in DOMAIN t \cup {fd} |-> IF e = fd THEN file ELSE t[e]]

\* A call that returns a code before it has changed anything.
Fails(code) ==
  rc' = code /\ UNCHANGED <<nodes, data, data_used, files, contents>>

WriteAt(d, at, buf) ==
  [k \in DOMAIN d |-> IF k \in at .. at + Len(buf) - 1 THEN buf[k - at + 1] ELSE d[k]]

\* What a file reads like after buf has been written at offset at.
Overwritten(text, at, buf) ==
  [k \in 1 .. IF Len(text) > at + Len(buf) THEN Len(text) ELSE at + Len(buf) |->
     IF k - 1 \in at .. at + Len(buf) - 1 THEN buf[k - at]
     ELSE IF k <= Len(text) THEN text[k] ELSE Hole]

mcs_ramfs_seed_file(path, buf) ==
  LET c == Created(path)
      node == c.nodes[c.result.node]
      i == c.result.node
  IN /\ UNCHANGED files
     /\ nodes' = IF c.result.ok /\ Len(buf) <= node.data_capacity
                 THEN [c.nodes EXCEPT ![i].size = Len(buf)] ELSE c.nodes
     /\ data_used' = c.used
     /\ data' = IF c.result.ok /\ Len(buf) <= node.data_capacity
                THEN WriteAt(data, node.data_offset, buf) ELSE data
     /\ contents' = IF c.result.ok /\ Len(buf) <= node.data_capacity
                    THEN [GrownContents(c.nodes) EXCEPT ![i] = buf]
                    ELSE GrownContents(c.nodes)
     /\ rc' = IF ~c.result.ok THEN c.result.code
              ELSE IF Len(buf) > node.data_capacity THEN "ENOSPC" ELSE "OK"

KeepsTheFd(t, fd, file) == WithFile(t, fd, file)

\* Lines 101-106: opening to truncate without write access gives the descriptor
\* back.
ReleasesTheFd(t, fd, file) == t

\* Lines 76-78.
OpenFlags(flags) ==
  IF flags \cap {"RDONLY", "WRONLY", "RDWR"} = {} THEN flags \cup {"RDONLY"} ELSE flags

\* Lines 89-91.
WriteToDirectory(node, flags) == node.dir /\ can_write(flags)

mcs_vfs_open(p, path, given) ==
  LET flags == OpenFlags(given)
      old   == mcs_ramfs_lookup(path)
      c     == IF old.ok \/ "CREAT" \notin flags
               THEN [nodes |-> nodes, used |-> data_used, result |-> old]
               ELSE Created(path)
      i     == c.result.node
      fd    == FreeFd(p)
      trunc == "TRUNC" \in flags
      file  == [flags |-> flags \ {"CREAT", "TRUNC"}, node |-> i,
                offset |-> IF "APPEND" \in flags /\ ~trunc THEN c.nodes[i].size ELSE 0]
      code  == IF ~c.result.ok THEN c.result.code
               ELSE IF WriteToDirectory(c.nodes[i], flags) THEN "EISDIR"
               ELSE IF fd = MaxOpen THEN "ENFILE"
               ELSE IF trunc /\ ~can_write(flags) THEN "EACCES"
               ELSE "OK"
      cut   == code = "OK" /\ trunc
  IN /\ data_used' = c.used
     /\ nodes' = IF cut THEN [c.nodes EXCEPT ![i].size = 0] ELSE c.nodes
     /\ contents' = IF cut THEN [GrownContents(c.nodes) EXCEPT ![i] = <<>>]
                    ELSE GrownContents(c.nodes)
     /\ files' = IF code = "OK" THEN [files EXCEPT ![p] = WithFile(@, fd, file)]
                 ELSE IF code = "EACCES"
                 THEN [files EXCEPT ![p] = ReleasesTheFd(@, fd, file)]
                 ELSE files
     /\ rc' = code
     /\ UNCHANGED data

\* The checks read and write share, and the code of the first one that fails.
AccessCode(p, fd, modes) ==
  IF fd \notin DOMAIN files[p] THEN "EBADF"
  ELSE IF files[p][fd].flags \cap modes = {} THEN "EACCES"
  ELSE IF nodes[files[p][fd].node].dir THEN "EISDIR"
  ELSE "OK"

\* The bytes a read of len bytes through file copies to the caller.
BytesRead(file, len) ==
  LET node == nodes[file.node]
      rest == IF file.offset >= node.size THEN 0 ELSE node.size - file.offset
      n    == IF len < rest THEN len ELSE rest
  IN [k \in 1 .. n |-> data[node.data_offset + file.offset + k - 1]]

mcs_vfs_read(p, fd, len) ==
  LET code == AccessCode(p, fd, Readable) IN
  \/ code # "OK" /\ Fails(code)
  \/ /\ code = "OK"
     /\ files' = [files EXCEPT ![p][fd].offset = @ + Len(BytesRead(files[p][fd], len))]
     /\ rc' = "OK"
     /\ UNCHANGED <<nodes, data, data_used, contents>>

IgnoreAppend(file) == file.offset

\* Lines 162-164: where a write begins.
WriteOffset(file) ==
  IF "APPEND" \in file.flags THEN nodes[file.node].size ELSE file.offset

NoCapacityTest(node, at, buf) ==
  IF at > node.data_capacity THEN "EINVAL" ELSE "OK"

\* Lines 165-171: all or nothing.
WriteCode(node, at, buf) ==
  IF at > node.data_capacity THEN "EINVAL"
  ELSE IF at + Len(buf) > node.data_capacity THEN "ENOSPC" ELSE "OK"

mcs_vfs_write(p, fd, buf) ==
  LET code == AccessCode(p, fd, Writable) IN
  \/ code # "OK" /\ Fails(code)
  \/ /\ code = "OK"
     /\ LET file == files[p][fd]
            node == nodes[file.node]
            at   == WriteOffset(file)
            to   == at + Len(buf)
            wc   == WriteCode(node, at, buf)
        IN /\ rc' = wc
           /\ files' = [files EXCEPT ![p][fd].offset = IF wc = "OK" THEN to ELSE at]
           /\ IF wc = "OK"
              THEN /\ data' = WriteAt(data, node.data_offset + at, buf)
                   /\ nodes' = [nodes EXCEPT ![file.node].size = IF to > @ THEN to ELSE @]
                   /\ contents' = [contents EXCEPT ![file.node] = Overwritten(@, at, buf)]
              ELSE UNCHANGED <<data, nodes, contents>>
     /\ UNCHANGED data_used

\* The conversion of a size_t to a long.
AsLong(size) == IF size <= LongMax THEN size ELSE size - 2 * (LongMax + 1)

\* Lines 191-199.
SeekBase(file, whence) ==
  IF whence = "SET" THEN 0
  ELSE IF whence = "CUR" THEN AsLong(file.offset) ELSE nodes[file.node].size

\* What the code after line 200 may take for the sum.  A sum that is no long is
\* undefined: it is what the addition says, or the value that has wrapped.  (The
\* bits of one above LONG_MAX are those of the size_t.)
SeekSums(sum) ==
  {sum} \cup (IF sum < -LongMax - 1 THEN {sum + 2 * (LongMax + 1)} ELSE {})

\* Lines 200-205.  The test for a negative sum may see a wrapped one or may not.
\* The result is cut to an int.
mcs_vfs_lseek(p, fd, offset, whence) ==
  \/ fd \notin DOMAIN files[p] /\ Fails("EBADF")
  \/ /\ fd \in DOMAIN files[p]
     /\ LET file == files[p][fd]
            sum == SeekBase(file, whence) + offset
        IN \/ nodes[file.node].dir /\ Fails("EISDIR")
           \/ /\ ~nodes[file.node].dir
              /\ \/ /\ whence = "other" \/ sum < 0 \/ sum > LongMax
                    /\ Fails("EINVAL")
                 \/ \E next \in SeekSums(sum) :
                    /\ whence # "other" /\ next >= 0
                    /\ files' = [files EXCEPT ![p][fd].offset = next]
                    /\ rc' = IF next <= IntMax THEN "OK" ELSE "cut"
                    /\ UNCHANGED <<nodes, data, data_used, contents>>

mcs_vfs_close(p, fd) ==
  \/ fd \notin DOMAIN files[p] /\ Fails("EBADF")
  \/ /\ fd \in DOMAIN files[p]
     /\ files' = [files EXCEPT ![p] = [e \in DOMAIN @ \ {fd} |-> @[e]]]
     /\ rc' = "OK"
     /\ UNCHANGED <<nodes, data, data_used, contents>>

mcs_vfs_dup(p, fd) ==
  \/ fd \notin DOMAIN files[p] /\ Fails("EBADF")
  \/ fd \in DOMAIN files[p] /\ FreeFd(p) = MaxOpen /\ Fails("ENFILE")
  \/ /\ fd \in DOMAIN files[p] /\ FreeFd(p) # MaxOpen
     /\ files' = [files EXCEPT ![p] = WithFile(@, FreeFd(p), @[fd])]
     /\ rc' = "OK"
     /\ UNCHANGED <<nodes, data, data_used, contents>>

-----------------------------------------------------------------------------
Init ==   \* after mcs_ramfs_init, and mcs_fd_table_init for every process
  /\ nodes = <<Node(1, TRUE, "/", 0, 0)>>
  /\ data = [k \in 0 .. DataBytes - 1 |-> 0]
  /\ data_used = 0
  /\ files = [p \in Procs |-> [fd \in {} |-> 0]]
  /\ contents = <<<<>>>>
  /\ rc = "OK"

\* Every descriptor, and the two numbers next to the valid ones.
Fds == -1 .. MaxOpen

Next ==
  \/ \E path \in Paths, buf \in Buffers : mcs_ramfs_seed_file(path, buf)
  \/ \E p \in Procs, path \in Paths, flags \in FlagSets : mcs_vfs_open(p, path, flags)
  \/ \E p \in Procs, fd \in Fds :
       \/ \E len \in ReadLengths : mcs_vfs_read(p, fd, len)
       \/ \E buf \in Buffers : mcs_vfs_write(p, fd, buf)
       \/ \E o \in SeekOffsets, whence \in {"SET", "CUR", "END", "other"} :
            mcs_vfs_lseek(p, fd, o, whence)
       \/ mcs_vfs_close(p, fd)
       \/ mcs_vfs_dup(p, fd)

Spec == Init /\ [][Next]_vars

-----------------------------------------------------------------------------
\* Every field holds a value of its type, and no file is larger than its region.
TypeOK ==
  /\ \A i \in DOMAIN nodes :
        /\ nodes[i].parent \in DOMAIN nodes
        /\ nodes[i].dir \in BOOLEAN
        /\ nodes[i].data_capacity \in {0, Capacity}
        /\ nodes[i].size \in 0 .. nodes[i].data_capacity
  /\ data_used \in 0 .. DataBytes
  /\ DOMAIN files = Procs
  /\ \A p \in Procs : DOMAIN files[p] \subseteq 0 .. MaxOpen - 1
  /\ rc \in {"OK", "ENOENT", "EBADF", "EACCES", "ENOTDIR", "EISDIR", "EINVAL",
             "ENFILE", "ENOSPC", "ENAMETOOLONG", "cut"}
  /\ \A p \in Procs : \A fd \in DOMAIN files[p] :
        files[p][fd].offset \in 0 .. 2 * LongMax + 1

\* Every field has a value of its type and no file is larger than its region,
\* however far lseek has moved a descriptor.  The files own disjoint regions of
\* fs->data, below data_used; a directory never has two entries of one name, so
\* that lookup always finds the file that create_file made; an open descriptor
\* refers to an existing node, and none for writing to a directory, which has no
\* region to write to.
FsWellFormed ==
  LET Region(i) == nodes[i].data_offset ..
                   nodes[i].data_offset + nodes[i].data_capacity - 1
  IN /\ TypeOK
     /\ \A i \in DOMAIN nodes :
          Region(i) \subseteq (0 .. data_used - 1) \cap DOMAIN data
     /\ \A i, j \in DOMAIN nodes : i # j =>
          /\ Region(i) \cap Region(j) = {}
          /\ nodes[i].parent # nodes[j].parent \/ nodes[i].name # nodes[j].name
     /\ \A p \in Procs : \A fd \in DOMAIN files[p] :
          /\ files[p][fd].node \in DOMAIN nodes
          /\ can_write(files[p][fd].flags) => ~nodes[files[p][fd].node].dir

\* Whatever other descriptors and processes do to the same or to other files, a
\* read returns the bytes last written at those offsets, up to the end of the
\* file.  (Bytes nobody has written since the file was last cut, beyond which a
\* write began, may be anything.)
ReadsReturnWhatWasWritten ==
  \A p \in Procs : \A fd \in DOMAIN files[p], len \in ReadLengths :
    LET file == files[p][fd]
        text == contents[file.node]
        got  == BytesRead(file, len)
        left == IF Len(text) > file.offset THEN Len(text) - file.offset ELSE 0
    IN /\ Len(got) = IF len < left THEN len ELSE left
       /\ \A k \in DOMAIN got : text[file.offset + k] \in {got[k], Hole}

\* The sequence t begins with s.
Continues(s, t) == Len(s) <= Len(t) /\ \A i \in DOMAIN s : t[i] = s[i]

\* A file that is open for writing only with O_APPEND is never overwritten by
\* its writers: each of them continues at the end the others have moved, not at
\* the offset it remembers.
AppendersNeverOverwrite ==
  [][\A i \in DOMAIN nodes :
       LET appended == \A p \in Procs : \A fd \in DOMAIN files[p] :
             files[p][fd].node = i /\ can_write(files[p][fd].flags) =>
               "APPEND" \in files[p][fd].flags
       IN appended /\ files' # files =>
            contents'[i] = <<>> \/ Continues(contents[i], contents'[i])]_vars

\* A call that fails costs nobody anything: no descriptor is lost or left
\* behind, no file changes, and at most one empty file is new (open may create
\* it and then find no free descriptor).
FailureIsHarmless ==
  [][rc' # "OK" =>
       /\ \A p \in Procs : DOMAIN files'[p] = DOMAIN files[p]
       /\ Continues(nodes, nodes') /\ Len(nodes') <= Len(nodes) + 1
       /\ Continues(contents, contents')
       /\ data' = data]_vars
=============================================================================
