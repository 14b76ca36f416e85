------------------------------ MODULE FileSys -------------------------------
(* The file system: filesys.c, directory.c, inode.c, file.c and free-map.c  *)
(* on a disk that keeps what was written when the machine stops.            *)
(*                                                                          *)
(* A step writes at most one sector of the disk, so that a power failure may *)
(* come between any two writes.  Positions and lengths count sectors.  The   *)
(* free map's file and the root directory are one sector each.               *)
EXTENDS Integers, Sequences, FiniteSets, Bitmap, KList

CONSTANTS Names, BadNames,  \* names that are empty or too long
          Handles, NONE,
          SectorCnt,        \* block_size(fs_device)
          EntryCnt,         \* entries of the root directory
          Lengths,          \* initial sizes of files
          Values,           \* contents of a sector, 0 among them
          MaxCrash, MaxOps  \* bounds

ASSUME FileSysAssumption ==
    /\ SectorCnt \in Nat \ {0} /\ EntryCnt \in Nat
    /\ Lengths \subseteq Nat /\ 0 \in Values
    /\ IsFiniteSet(Handles)
    /\ NONE \notin Nat /\ NONE \notin [sector : Nat, pos : Nat, deny_write : BOOLEAN]
    /\ NONE \notin [file : Nat, deny : BOOLEAN]
    /\ MaxCrash \in Nat /\ MaxOps \in Nat

VARIABLES disk,         \* map, inode, data: by sector; dir: the entries of the root
          free_map,     \* the bitmap in memory
          open_inodes,  \* list of struct inode
          file,         \* the struct file of each handle, or NONE
          op,           \* the operation in progress and its locals
          leaky,        \* a dir_add() has failed, or the machine stopped
          crashes, ops  \* counters
vars == <<disk, free_map, open_inodes, file, op, leaky, crashes, ops>>

FREE_MAP_SECTOR == 0
ROOT_DIR_SECTOR == 1
Sectors == 0 .. (SectorCnt - 1)
NoInode == [start |-> 0, length |-> -1]
NoEntry == [in_use |-> FALSE, name |-> NONE, inode_sector |-> 0]
Idle == [pc |-> "idle"]

-----------------------------------------------------------------------------
(* do_format(), filesys_init() *)

free_map_init == [s \in Sectors |-> s \in {FREE_MAP_SECTOR, ROOT_DIR_SECTOR}]
\* the free map's sector and the root directory's are allocated in turn
FormattedMap == bitmap_scan_and_flip(bitmap_scan_and_flip(free_map_init, 0, 1, FALSE), 0, 1, FALSE)
Formatted == [map |-> FormattedMap,
              inode |-> [s \in Sectors |-> NoInode],
              data |-> [s \in Sectors |-> 0],
              dir |-> [i \in 1 .. EntryCnt |-> NoEntry]]

Init == /\ disk = Formatted
        /\ free_map = FormattedMap
        /\ open_inodes = <<>>
        /\ file = [h \in Handles |-> NONE]
        /\ op = Idle
        /\ leaky = FALSE
        /\ crashes = 0 /\ ops = 0

\* the machine stops and is started again: free_map_open() reads the map
restart ==
    /\ crashes < MaxCrash
    /\ crashes' = crashes + 1
    /\ free_map' = disk.map
    /\ open_inodes' = <<>> /\ file' = [h \in Handles |-> NONE] /\ op' = Idle
    /\ leaky' = TRUE
    /\ UNCHANGED <<disk, ops>>
-----------------------------------------------------------------------------
(* inode.c: an open inode is known by its sector *)

Start(s) == disk.inode[s].start
Length(s) == disk.inode[s].length
OpenIdx(s) == CHOOSE i \in DOMAIN open_inodes : open_inodes[i].sector = s
IsOpen(s) == \E i \in DOMAIN open_inodes : open_inodes[i].sector = s
inode_open(s) ==
    IF IsOpen(s) THEN [open_inodes EXCEPT ![OpenIdx(s)].open_cnt = @ + 1]
    ELSE list_push_front(open_inodes, [sector |-> s, open_cnt |-> 1, deny_write_cnt |-> 0, removed |-> FALSE])
LastClose(inodes, i) == inodes[i].open_cnt = 1
\* inode_close(): the list afterwards, and whether blocks are to be released
Closed(inodes, s) ==
    LET i == CHOOSE i \in DOMAIN inodes : inodes[i].sector = s
    IN  IF LastClose(inodes, i)
        THEN [inodes |-> Unlink(inodes, i), release |-> inodes[i].removed]
        ELSE [inodes |-> [inodes EXCEPT ![i].open_cnt = @ - 1], release |-> FALSE]
\* the rest of an operation that ends with inode_close(s)
CloseThen(inodes, s) ==
    LET c == Closed(inodes, s)
    IN  /\ open_inodes' = c.inodes
        /\ op' = IF c.release THEN [pc |-> "release", sector |-> s, left |-> 2] ELSE Idle

\* MUTANT: the data stay allocated
release_inode ==
    /\ op.pc = "release"
    /\ bitmap_all(free_map, op.sector, 1)
    /\ free_map' = bitmap_set_multiple(free_map, op.sector, 1, FALSE)
    /\ disk' = [disk EXCEPT !.map = free_map']
    /\ op' = Idle
    /\ UNCHANGED <<open_inodes, file, leaky, crashes, ops>>
\* bitmap_write(): the whole map, unless malloc() has no bounce buffer for it
bitmap_write(map) == disk' \in {[disk EXCEPT !.map = map], disk}
\* free_map_release() and its ASSERT: the inode's sector, then its data
release ==
    /\ op.pc = "release"
    /\ LET at == IF op.left = 2 THEN op.sector ELSE Start(op.sector)
           cnt == IF op.left = 2 THEN 1 ELSE Length(op.sector)
       IN  /\ bitmap_all(free_map, at, cnt)
           /\ free_map' = bitmap_set_multiple(free_map, at, cnt, FALSE)
           /\ bitmap_write(free_map')
    /\ op' = IF op.left = 2 THEN [op EXCEPT !.left = 1] ELSE Idle
    /\ UNCHANGED <<open_inodes, file, leaky, crashes, ops>>
-----------------------------------------------------------------------------
(* filesys_create() *)

Begins == op = Idle /\ ops < MaxOps /\ ops' = ops + 1
filesys_create(n, len) ==
    /\ Begins
    /\ op' = [pc |-> "alloc_inode", name |-> n, length |-> len, sector |-> 0, start |-> 0, i |-> 0]
    /\ UNCHANGED <<disk, free_map, open_inodes, file, leaky, crashes>>

\* Of no sectors it gives sector 0.  It fails when there are not so many, or when
\* there is no memory to write the map: then the bits are set back.
free_map_allocate(cnt) == [sector |-> bitmap_scan(free_map, 0, cnt, FALSE),
                           map |-> bitmap_scan_and_flip(free_map, 0, cnt, FALSE)]
create_alloc_inode ==
    /\ op.pc = "alloc_inode"
    /\ \/ LET a == free_map_allocate(1)
          IN  /\ a.sector # BITMAP_ERROR
              /\ free_map' = a.map /\ disk' = [disk EXCEPT !.map = a.map]
              /\ op' = [op EXCEPT !.pc = "alloc_data", !.sector = a.sector]
       \/ op' = Idle /\ UNCHANGED <<disk, free_map>>
    /\ UNCHANGED <<open_inodes, file, leaky, crashes, ops>>
\* MUTANT: the map is not written to its file
create_alloc_data_unwritten ==
    /\ op.pc = "alloc_data"
    /\ LET a == free_map_allocate(op.length)
       IN  /\ a.sector # BITMAP_ERROR
           /\ free_map' = a.map /\ UNCHANGED disk
           /\ op' = [op EXCEPT !.pc = "inode", !.start = a.sector]
    /\ UNCHANGED <<open_inodes, file, leaky, crashes, ops>>
\* inode_create(); calloc() may fail, or free_map_allocate()
create_alloc_data ==
    /\ op.pc = "alloc_data"
    /\ \/ LET a == free_map_allocate(op.length)
          IN  /\ a.sector # BITMAP_ERROR
              /\ free_map' = a.map /\ disk' = [disk EXCEPT !.map = a.map]
              /\ op' = [op EXCEPT !.pc = "inode", !.start = a.sector]
       \/ op' = [op EXCEPT !.pc = "undo"] /\ UNCHANGED <<disk, free_map>>
    /\ UNCHANGED <<open_inodes, file, leaky, crashes, ops>>
create_inode ==
    /\ op.pc = "inode"
    /\ disk' = [disk EXCEPT !.inode[op.sector] = [start |-> op.start, length |-> op.length]]
    /\ op' = [op EXCEPT !.pc = "zero"]
    /\ UNCHANGED <<free_map, open_inodes, file, leaky, crashes, ops>>
\* MUTANT: no zeros
create_zero_not ==
    /\ op.pc = "zero"
    /\ op' = [op EXCEPT !.pc = "dir_add"]
    /\ UNCHANGED <<disk, free_map, open_inodes, file, leaky, crashes, ops>>
create_zero ==
    /\ op.pc = "zero"
    /\ IF op.i < op.length
       THEN disk' = [disk EXCEPT !.data[op.start + op.i] = 0] /\ op' = [op EXCEPT !.i = @ + 1]
       ELSE op' = [op EXCEPT !.pc = "dir_add"] /\ UNCHANGED disk
    /\ UNCHANGED <<free_map, open_inodes, file, leaky, crashes, ops>>

Slots(n) == {i \in 1 .. EntryCnt : disk.dir[i].in_use /\ disk.dir[i].name = n}
FreeSlots == {i \in 1 .. EntryCnt : ~disk.dir[i].in_use}
Lowest(S) == CHOOSE i \in S : \A j \in S : i <= j
lookup(n) == Lowest(Slots(n))
\* a read of the directory is short at its end only, as dir_add() takes it to
\* be; its write may have no bounce buffer
dir_add ==
    /\ op.pc = "dir_add"
    /\ \/ /\ op.name \notin BadNames /\ Slots(op.name) = {} /\ FreeSlots # {}
          /\ disk' = [disk EXCEPT !.dir[Lowest(FreeSlots)] =
                        [in_use |-> TRUE, name |-> op.name, inode_sector |-> op.sector]]
          /\ op' = Idle /\ UNCHANGED leaky
       \/ op' = [op EXCEPT !.pc = "undo"] /\ leaky' = TRUE /\ UNCHANGED disk
    /\ UNCHANGED <<free_map, open_inodes, file, crashes, ops>>
\* the inode's sector is released; the data's sectors are not, if dir_add() failed
create_undo ==
    /\ op.pc = "undo"
    /\ free_map' = bitmap_set_multiple(free_map, op.sector, 1, FALSE)
    /\ bitmap_write(free_map')
    /\ op' = Idle
    /\ UNCHANGED <<open_inodes, file, leaky, crashes, ops>>
-----------------------------------------------------------------------------
(* filesys_remove(), filesys_open(), file_close(), file_deny_write() *)

\* without memory for the directory or the inode nothing happens
filesys_remove(n) ==
    /\ Begins /\ Slots(n) # {}
    /\ LET s == disk.dir[lookup(n)].inode_sector
       IN  \/ open_inodes' = inode_open(s) /\ op' = [pc |-> "erase", slot |-> lookup(n)]
           \/ op' = Idle /\ UNCHANGED open_inodes
    /\ UNCHANGED <<disk, free_map, file, leaky, crashes>>
\* the entry is erased, unless there is no bounce buffer, and the inode marked;
\* then inode_close()
dir_remove ==
    /\ op.pc = "erase"
    /\ LET s == disk.dir[op.slot].inode_sector
       IN  /\ IsOpen(s)
           /\ \/ /\ disk' = [disk EXCEPT !.dir[op.slot].in_use = FALSE]
                 /\ CloseThen([open_inodes EXCEPT ![OpenIdx(s)].removed = TRUE], s)
              \/ UNCHANGED disk /\ CloseThen(open_inodes, s)
    /\ UNCHANGED <<free_map, file, leaky, crashes, ops>>

filesys_open(n, h) ==
    /\ Begins /\ file[h] = NONE /\ Slots(n) # {}
    /\ LET s == disk.dir[lookup(n)].inode_sector
       IN  /\ open_inodes' = inode_open(s)
           /\ file' = [file EXCEPT ![h] = [sector |-> s, pos |-> 0, deny_write |-> FALSE]]
    /\ UNCHANGED <<disk, free_map, op, leaky, crashes>>
\* file_deny_write(); inode_deny_write() ASSERTs its count
file_deny_write(h) ==
    /\ Begins /\ file[h] # NONE /\ ~file[h].deny_write
    /\ LET i == OpenIdx(file[h].sector)
       IN  /\ open_inodes[i].deny_write_cnt < open_inodes[i].open_cnt
           /\ open_inodes' = [open_inodes EXCEPT ![i].deny_write_cnt = @ + 1]
    /\ file' = [file EXCEPT ![h].deny_write = TRUE]
    /\ UNCHANGED <<disk, free_map, op, leaky, crashes>>
\* file_allow_write() and inode_close()
file_close(h) ==
    /\ op = Idle /\ file[h] # NONE
    /\ LET s == file[h].sector
       IN  CloseThen([open_inodes EXCEPT ![OpenIdx(s)].deny_write_cnt =
                        IF file[h].deny_write THEN @ - 1 ELSE @], s)
    /\ file' = [file EXCEPT ![h] = NONE]
    /\ UNCHANGED <<disk, free_map, leaky, crashes, ops>>
-----------------------------------------------------------------------------
(* file_write(), file_seek(); a read changes the position only *)

file_write(h, v, n) ==
    /\ Begins /\ file[h] # NONE
    /\ op' = IF open_inodes[OpenIdx(file[h].sector)].deny_write_cnt > 0 THEN Idle
             ELSE [pc |-> "write", h |-> h, value |-> v, left |-> n, at |-> file[h].pos]
    /\ UNCHANGED <<disk, free_map, open_inodes, file, leaky, crashes>>
\* inode_write_at(): sector by sector, to the end of the file or a part of a
\* sector for which there is no bounce buffer
inode_write_at ==
    /\ op.pc = "write"
    /\ LET s == file[op.h].sector
       IN  \/ /\ op.left > 0 /\ op.at < Length(s)
              /\ disk' = [disk EXCEPT !.data[Start(s) + op.at] = op.value]
              /\ op' = [op EXCEPT !.left = @ - 1, !.at = @ + 1]
              /\ UNCHANGED file
           \/ /\ file' = [file EXCEPT ![op.h].pos = op.at]
              /\ op' = Idle /\ UNCHANGED disk
    /\ UNCHANGED <<free_map, open_inodes, leaky, crashes, ops>>
file_seek(h, pos) ==
    /\ Begins /\ file[h] # NONE /\ file[h].pos # pos
    /\ file' = [file EXCEPT ![h].pos = pos]
    /\ UNCHANGED <<disk, free_map, open_inodes, op, leaky, crashes>>

\* the bound is reached
Bound == op = Idle /\ ops = MaxOps /\ UNCHANGED vars
Next == \/ \E n \in Names \union BadNames, len \in Lengths : filesys_create(n, len)
        \/ create_alloc_inode \/ create_alloc_data \/ create_inode \/ create_zero \/ dir_add \/ create_undo
        \/ \E n \in Names : filesys_remove(n) \/ \E h \in Handles : filesys_open(n, h)
        \/ dir_remove \/ release
        \/ \E h \in Handles : \/ file_deny_write(h) \/ file_close(h)
                              \/ \E v \in Values \ {0}, n \in {2} : file_write(h, v, n)
                              \/ file_seek(h, 1)
        \/ inode_write_at \/ restart \/ Bound
Spec == Init /\ [][Next]_vars
-----------------------------------------------------------------------------
(* Properties *)

SectorsOf(s) == {s} \union Group(Start(s), Length(s))
Entries == {i \in 1 .. EntryCnt : disk.dir[i].in_use}
InodesInUse == {disk.dir[i].inode_sector : i \in Entries}

\* What is on the disk can be started from at any moment: every name leads to
\* an inode that was written, and the free map on the disk has its sectors and
\* gives none of them to two files.  This is what the order of the writes in
\* filesys_create() and dir_remove() is for.
DiskSafe ==
    /\ \A s \in InodesInUse : Length(s) >= 0 /\ \A x \in SectorsOf(s) : disk.map[x] /\ FormattedMap[x] = FALSE
    /\ \A i, j \in Entries : i # j =>
         SectorsOf(disk.dir[i].inode_sector) \intersect SectorsOf(disk.dir[j].inode_sector) = {}

\* Between operations the free map has the sectors of the files that have a
\* name or are open, and no other: a removed file's sectors come back with its
\* last handle.  dir_add() failing after inode_create() loses the new file's
\* data, and a machine that stops loses what was on the way.
NoLostSectors ==
    op = Idle /\ ~leaky =>
        {s \in Sectors : free_map[s]} =
            {s \in Sectors : FormattedMap[s]} \union
            UNION {SectorsOf(s) : s \in InodesInUse \union {open_inodes[i].sector : i \in DOMAIN open_inodes}}

\* Files as their users see them: names that lead to a file, files that keep
\* their contents while they have a name or a handle, through any order of
\* operations and a power failure at any write.
Contents(s) == [i \in 1 .. Length(s) |-> disk.data[Start(s) + i - 1]]
OpenSectors == {file[h].sector : h \in {h \in Handles : file[h] # NONE}}
Existing == InodesInUse \union OpenSectors
DirMap == [n \in Names |-> IF Slots(n) = {} THEN NONE ELSE disk.dir[lookup(n)].inode_sector]
DataMap == [s \in Sectors |-> IF s \in Existing THEN Contents(s) ELSE <<>>]
OpenMap == [h \in Handles |-> IF file[h] = NONE THEN NONE
                              ELSE [file |-> file[h].sector, deny |-> file[h].deny_write]]
Store == INSTANCE FileStore WITH Files <- Sectors, dir <- DirMap, data <- DataMap, open <- OpenMap
StoreSpec == Store!Spec
=============================================================================
