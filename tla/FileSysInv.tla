----------------------------- MODULE FileSysInv -----------------------------
(* The inductive invariant of FileSys: what holds of the disk, the free map, *)
(* the open inodes and the handles between any two steps of any operation.   *)
EXTENDS FileSys

CreateOp == [pc : {"alloc_inode", "alloc_data", "inode", "zero", "dir_add", "undo"},
             name : Names \union BadNames, length : Lengths, sector : Sectors, start : Sectors, i : Nat]
EraseOp == [pc : {"erase"}, slot : 1 .. EntryCnt]
ReleaseOp == [pc : {"release"}, sector : Sectors, left : {1, 2}]
WriteOp == [pc : {"write"}, h : Handles, value : Values, left : Nat, at : Nat]
Inode == [sector : Sectors, open_cnt : Nat, deny_write_cnt : Nat, removed : BOOLEAN]
File == [sector : Sectors, pos : Nat, deny_write : BOOLEAN]
Bits == [Sectors -> BOOLEAN]

TypeOK ==
    /\ disk \in [map : Bits, inode : [Sectors -> [start : Sectors, length : Int]],
                 data : [Sectors -> Values],
                 dir : [1 .. EntryCnt -> [in_use : BOOLEAN, name : Names \union BadNames \union {NONE},
                                          inode_sector : Sectors]]]
    /\ free_map \in Bits
    /\ open_inodes \in Seq(Inode)
    /\ file \in [Handles -> File \union {NONE}]
    /\ op \in {Idle} \union CreateOp \union EraseOp \union ReleaseOp \union WriteOp
    /\ leaky \in BOOLEAN /\ crashes \in Nat /\ ops \in Nat

OpenInodes == {open_inodes[i].sector : i \in DOMAIN open_inodes}
\* the inodes that have a name or are open
LiveInodes == InodesInUse \union OpenInodes
Allocated == {x \in Sectors : free_map[x] /\ ~FormattedMap[x]}
\* the sectors the operation in progress has taken, or has still to give back
Claimed == CASE op.pc \in {"alloc_data", "undo"} -> {op.sector}
             [] op.pc \in {"inode", "zero", "dir_add"} -> {op.sector} \union Group(op.start, op.length)
             [] op.pc = "release" -> (IF op.left = 2 THEN {op.sector} ELSE {})
                                      \union Group(Start(op.sector), Length(op.sector))
             [] OTHER -> {}

\* the map on the disk has what the one in memory has, and sectors whose release
\* could not be written; what do_format() took stays taken
MapInv == /\ \A x \in Sectors : free_map[x] => disk.map[x]
          /\ \A x \in Sectors : FormattedMap[x] => free_map[x]

\* every file has its sectors to itself
SpaceInv ==
    /\ \A s \in LiveInodes : /\ Length(s) \in Nat /\ SectorsOf(s) \subseteq Allocated
                             /\ s \notin Group(Start(s), Length(s))
                             /\ SectorsOf(s) \intersect Claimed = {}
    /\ \A s, t \in LiveInodes : s # t => SectorsOf(s) \intersect SectorsOf(t) = {}
    /\ Claimed \subseteq Allocated
    /\ op.pc \in {"inode", "zero", "dir_add"} => op.sector \notin Group(op.start, op.length)
    /\ op.pc = "release" => /\ op.sector \notin Group(Start(op.sector), Length(op.sector))
                            /\ op.sector \notin LiveInodes

\* a name is in the directory once, and so is an inode
DirInv == /\ \A i \in Entries : disk.dir[i].name \in Names
          /\ \A i, j \in Entries : i # j => /\ disk.dir[i].name # disk.dir[j].name
                                            /\ disk.dir[i].inode_sector # disk.dir[j].inode_sector

HandlesOn(s) == {h \in Handles : file[h] # NONE /\ file[h].sector = s}
Denying(s) == {h \in Handles : file[h] # NONE /\ file[h].sector = s /\ file[h].deny_write}
Erasing(s) == op.pc = "erase" /\ disk.dir[op.slot].inode_sector = s
Elems(L) == {L[i] : i \in DOMAIN L}
\* the counts of an open inode are those of its handles, and it is removed
\* from the time it has no name
Counted(n) == /\ n.open_cnt = Cardinality(HandlesOn(n.sector)) + (IF Erasing(n.sector) THEN 1 ELSE 0)
              /\ n.open_cnt > 0
              /\ n.deny_write_cnt = Cardinality(Denying(n.sector))
              /\ n.removed <=> n.sector \notin InodesInUse
\* the list of open inodes has each of them once
OpenInv ==
    /\ \A i, j \in DOMAIN open_inodes : open_inodes[i].sector = open_inodes[j].sector => i = j
    /\ \A n \in Elems(open_inodes) : Counted(n)
    /\ \A h \in Handles : file[h] # NONE => file[h].sector \in OpenInodes
    /\ op.pc = "erase" => op.slot \in Entries /\ disk.dir[op.slot].inode_sector \in OpenInodes

\* what an operation has done so far
OpInv ==
    /\ op.pc \in {"zero", "dir_add"} =>
         /\ disk.inode[op.sector] = [start |-> op.start, length |-> op.length]
         /\ \A k \in 0 .. (op.i - 1) : disk.data[op.start + k] = 0
    /\ op.pc \in {"alloc_inode", "alloc_data", "inode"} => op.i = 0
    /\ op.pc = "zero" => op.i <= op.length
    /\ op.pc = "dir_add" => op.i = op.length
    /\ op.pc = "write" => file[op.h] # NONE /\ Denying(file[op.h].sector) = {}

\* unless some are known to be lost, the sectors in use are those of the files
\* and of the operation in progress
LeakInv == ~leaky => \A x \in Allocated : x \in Claimed \/ \E s \in LiveInodes : x \in SectorsOf(s)

IInv == TypeOK /\ MapInv /\ SpaceInv /\ DirInv /\ OpenInv /\ OpInv /\ LeakInv

-----------------------------------------------------------------------------
\* What is used of natural numbers, of the number of handles in a set, and of a
\* list from which an element is taken.
Counting ==
    /\ \A T \in SUBSET Nat : T # {} => \E i \in T : \A j \in T : i <= j
    /\ \A n \in Nat : Cardinality(0 .. (n - 1)) = n
    /\ \A H \in SUBSET Handles :
         /\ Cardinality(H) \in Nat /\ ((Cardinality(H) = 0) <=> (H = {}))
         /\ \A h \in Handles \ H : Cardinality(H \union {h}) = Cardinality(H) + 1
    /\ \A L \in Seq(Inode) : \A i \in 1 .. Len(L) :
         /\ Unlink(L, i) \in Seq(Inode) /\ Len(Unlink(L, i)) = Len(L) - 1
         /\ \A j \in 1 .. Len(L) - 1 : Unlink(L, i)[j] = IF j < i THEN L[j] ELSE L[j + 1]
=============================================================================
