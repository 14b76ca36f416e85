--------------------------- MODULE FileSysProofs ----------------------------
(* The invariant of FileSys holds always, and FileSys implements FileStore,  *)
(* for every size of the disk and of the root directory, any number of       *)
(* handles, operations and power failures.                                   *)
EXTENDS FileSysStepProofs, KListTheorems, FiniteSetTheorems

\* A nonempty set of natural numbers has a least element.
LEMMA LeastNat ==
  ASSUME NEW T \in SUBSET Nat, T # {}
  PROVE  \E i \in T : \A j \in T : i <= j
<1> DEFINE R == {p \in Nat \X Nat : p[1] < p[2]}
<1>1. IsWellFoundedOn(R, Nat)
  BY NatLessThanWellFounded, Zenon DEF OpToRel
<1> HIDE DEF R
<1>2. \E i \in T : \A j \in T : ~(<<j, i>> \in R)
  BY <1>1, WFMin, Zenon
<1>3. \A i, j \in Nat : j < i => <<j, i>> \in R
  BY Zenon DEF R
<1>4. \A i, j \in Nat : ~(j < i) => i <= j
  OBVIOUS
<1> QED BY <1>2, <1>3, <1>4, Zenon

\* The facts about numbers, sets and lists that the steps rest on.
LEMMA CountingFacts == Counting
<1>1. ASSUME NEW n \in Nat PROVE Cardinality(0 .. (n - 1)) = n
  BY FS_Interval
<1>2. ASSUME NEW H \in SUBSET Handles
      PROVE  /\ Cardinality(H) \in Nat /\ ((Cardinality(H) = 0) <=> (H = {}))
             /\ \A h \in Handles \ H : Cardinality(H \union {h}) = Cardinality(H) + 1
  <2>1. IsFiniteSet(H)
    BY FileSysAssumption, FS_Subset, Zenon
  <2>2. Cardinality(H) \in Nat /\ ((Cardinality(H) = 0) <=> (H = {}))
    BY <2>1, FS_CardinalityType, FS_EmptySet, Zenon
  <2>3. ASSUME NEW h \in Handles \ H PROVE Cardinality(H \union {h}) = Cardinality(H) + 1
    BY <2>1, FS_AddElement, Zenon
  <2> QED BY <2>2, <2>3, Zenon
<1>3. ASSUME NEW L \in Seq(Inode), NEW i \in 1 .. Len(L)
      PROVE  /\ Unlink(L, i) \in Seq(Inode) /\ Len(Unlink(L, i)) = Len(L) - 1
             /\ \A j \in 1 .. Len(L) - 1 : Unlink(L, i)[j] = IF j < i THEN L[j] ELSE L[j + 1]
  BY UnlinkElems, Zenon
<1>4. \A T \in SUBSET Nat : T # {} => \E i \in T : \A j \in T : i <= j
  BY LeastNat, Zenon
<1> QED BY <1>1, <1>2, <1>3, <1>4, Zenon DEF Counting

\* Every state of the file system satisfies the invariant.
THEOREM FileSysInvariant == Spec => []IInv
<1>1. IInv /\ [Next]_vars => IInv'
  BY CountingFacts, StepInv, Zenon
<1> QED BY <1>1, InitInv, PTL DEF Spec
-----------------------------------------------------------------------------
(* What follows from it *)

\* The order of the writes in filesys_create() and dir_remove() leaves a disk
\* that can be started from at any moment: every name leads to an inode that
\* was written, whose sectors the map on the disk has and no other file has.
THEOREM DiskAlwaysSafe == Spec => []DiskSafe
<1>1. IInv => DiskSafe
  <2> SUFFICES ASSUME IInv PROVE DiskSafe
    OBVIOUS
  <2>1. SpaceInv /\ MapInv /\ DirInv /\ FormattedMap \in Bits
    BY FormattedBits, Zenon DEF IInv
  <2>2. InodesInUse \subseteq LiveInodes
    BY Zenon DEF LiveInodes
  <2>3. \A s \in InodesInUse : Length(s) >= 0 /\ \A x \in SectorsOf(s) : disk.map[x] /\ FormattedMap[x] = FALSE
    <3> TAKE s \in InodesInUse
    <3>1. Length(s) \in Nat /\ SectorsOf(s) \subseteq Allocated
      BY <2>1, <2>2, Zenon DEF SpaceInv
    <3>2. \A x \in Allocated : disk.map[x] /\ FormattedMap[x] = FALSE
      BY <2>1, Zenon DEF Allocated, MapInv, Bits
    <3>3. Length(s) >= 0
      BY <3>1
    <3> QED BY <3>1, <3>2, <3>3, Zenon
  <2>4. \A i, j \in Entries : i # j =>
          SectorsOf(disk.dir[i].inode_sector) \intersect SectorsOf(disk.dir[j].inode_sector) = {}
    <3> SUFFICES ASSUME NEW i \in Entries, NEW j \in Entries, i # j
                 PROVE  SectorsOf(disk.dir[i].inode_sector) \intersect SectorsOf(disk.dir[j].inode_sector) = {}
      OBVIOUS
    <3>1. /\ disk.dir[i].inode_sector \in LiveInodes /\ disk.dir[j].inode_sector \in LiveInodes
          /\ disk.dir[i].inode_sector # disk.dir[j].inode_sector
      BY <2>1, <2>2, Zenon DEF InodesInUse, DirInv
    <3> QED BY <2>1, <3>1, Zenon DEF SpaceInv
  <2> QED BY <2>3, <2>4, Zenon DEF DiskSafe
<1> QED BY <1>1, FileSysInvariant, PTL

\* Between operations the sectors in use are those of the files that have a
\* name or are open: inode_close() gives back those of a removed file.
THEOREM SectorsComeBack == Spec => []NoLostSectors
<1>1. IInv => NoLostSectors
  <2> SUFFICES ASSUME IInv, op = Idle, ~leaky
               PROVE  {s \in Sectors : free_map[s]} =
                        {s \in Sectors : FormattedMap[s]} \union
                        UNION {SectorsOf(s) : s \in InodesInUse \union {open_inodes[i].sector : i \in DOMAIN open_inodes}}
    BY Zenon DEF NoLostSectors
  <2>1. LiveInodes = InodesInUse \union {open_inodes[i].sector : i \in DOMAIN open_inodes}
    BY Zenon DEF LiveInodes, OpenInodes
  <2>2. Claimed = {}
    BY Zenon DEF Claimed, Idle
  <2>3. \A x \in Allocated : \E s \in LiveInodes : x \in SectorsOf(s)
    BY <2>2, Zenon DEF IInv, LeakInv
  <2>4. \A s \in LiveInodes : SectorsOf(s) \subseteq Allocated
    BY Zenon DEF IInv, SpaceInv
  <2>5. Allocated = UNION {SectorsOf(s) : s \in LiveInodes}
    BY <2>3, <2>4, Zenon
  <2>6. {s \in Sectors : free_map[s]} = {s \in Sectors : FormattedMap[s]} \union Allocated
    BY Zenon DEF Allocated, IInv, MapInv
  <2> QED BY <2>1, <2>5, <2>6, Zenon
<1> QED BY <1>1, FileSysInvariant, PTL

-----------------------------------------------------------------------------
(* The steps of the store: handles, writes and restarts *)

\* What a change of one handle does to the map of handles.
LEMMA OpenMapChange ==
  ASSUME TypeOK, NEW h \in Handles, NEW f, file' = [file EXCEPT ![h] = f]
  PROVE  OpenMap' = [OpenMap EXCEPT ![h] = IF f = NONE THEN NONE ELSE [file |-> f.sector, deny |-> f.deny_write]]
<1>1. \A g \in Handles : file'[g] = IF g = h THEN f ELSE file[g]
  BY Zenon DEF TypeOK
<1> QED BY <1>1, Zenon DEF OpenMap

\* The abstract handle of h is open when h is, on the same file.
LEMMA OpenMapFacts ==
  ASSUME TypeOK, NEW h \in Handles
  PROVE  /\ (OpenMap[h] # NONE) <=> (file[h] # NONE)
         /\ file[h] # NONE => OpenMap[h] = [file |-> file[h].sector, deny |-> file[h].deny_write]
<1>1. ASSUME file[h] # NONE
      PROVE  OpenMap[h] # NONE /\ OpenMap[h] = [file |-> file[h].sector, deny |-> file[h].deny_write]
  <2>1. file[h] \in File
    BY <1>1, FileTypes, Zenon
  <2>2. OpenMap[h] = [file |-> file[h].sector, deny |-> file[h].deny_write]
    BY <1>1, Zenon DEF OpenMap
  <2>3. OpenMap[h] \in [file : Nat, deny : BOOLEAN]
    BY <2>1, <2>2, FileSysAssumption DEF File, Sectors
  <2> QED BY <2>2, <2>3, FileSysAssumption, Zenon
<1>2. ASSUME file[h] = NONE PROVE OpenMap[h] = NONE
  BY <1>2, Zenon DEF OpenMap
<1> QED BY <1>1, <1>2, Zenon

\* filesys_open() is the store's open.
LEMMA OpenStore ==
  ASSUME IInv, IInv', NEW n \in Names, NEW h \in Handles, filesys_open(n, h)
  PROVE  Store!Open(n, h)
<1>1. TypeOK /\ disk' = disk /\ file[h] = NONE /\ Slots(n) # {}
  BY Zenon DEF filesys_open, IInv
<1>2. PICK s, f : /\ s = disk.dir[lookup(n)].inode_sector
                  /\ f = [sector |-> s, pos |-> 0, deny_write |-> FALSE]
  BY Zenon
<1>3. file' = [file EXCEPT ![h] = f]
  BY <1>2, Zenon DEF filesys_open
<1>4. s \in InodesInUse /\ s \in Sectors
  BY <1>1, <1>2, CountingFacts, LookupFacts, Zenon DEF IInv
<1>5. f \in File /\ f # NONE
  <2>1. f \in File
    BY <1>2, <1>4, Zenon DEF File
  <2> QED BY <2>1, NoneNotFile, Zenon
<1>6. DirMap[n] = s /\ s # NONE
  BY <1>1, <1>2, <1>4, FileSysAssumption DEF DirMap, Sectors
<1>7. OpenMap' = [OpenMap EXCEPT ![h] = [file |-> s, deny |-> FALSE]]
  <2>1. OpenMap' = [OpenMap EXCEPT ![h] = IF f = NONE THEN NONE ELSE [file |-> f.sector, deny |-> f.deny_write]]
    BY <1>1, <1>3, OpenMapChange, Zenon
  <2> QED BY <1>2, <1>5, <2>1, Zenon
<1>8. OpenMap[h] = NONE
  BY <1>1, OpenMapFacts, Zenon
<1>9. DirMap' = DirMap /\ InodesInUse' = InodesInUse
  BY <1>1, SameDir DEF DirMap, Slots, lookup, Lowest
<1>10. Existing' = Existing
  <2>1. OpenSectors' = OpenSectors \union {s}
    <3>1. \A g \in Handles : file'[g] = IF g = h THEN f ELSE file[g]
      BY <1>1, <1>3, Zenon DEF TypeOK
    <3>2. f.sector = s
      BY <1>2, Zenon
    <3> QED BY <1>1, <1>5, <3>1, <3>2, Zenon DEF OpenSectors
  <2> QED BY <1>4, <1>9, <2>1, Zenon DEF Existing
<1>11. DataMap' = DataMap
  <2>1. \A x : Contents(x)' = Contents(x)
    BY <1>1, Zenon DEF Contents, Start, Length
  <2> QED BY <1>10, <2>1, Zenon DEF DataMap
<1> QED BY <1>6, <1>7, <1>8, <1>9, <1>11, Zenon DEF Store!Open

\* file_deny_write() is the store's deny.
LEMMA DenyStore ==
  ASSUME IInv, IInv', NEW h \in Handles, file_deny_write(h)
  PROVE  Store!Deny(h)
<1>1. TypeOK /\ disk' = disk /\ file[h] # NONE
  BY Zenon DEF file_deny_write, IInv
<1>2. PICK g \in File : g = file[h]
  BY <1>1, FileTypes, Zenon
<1>3. PICK f : f = [g EXCEPT !.deny_write = TRUE]
  BY Zenon
<1>4. f \in File /\ f.sector = g.sector /\ f.deny_write = TRUE
  BY <1>3, Zenon DEF File
<1>5. f # NONE /\ g # NONE
  BY <1>4, NoneNotFile, Zenon
<1>6. file' = [file EXCEPT ![h] = f]
  BY <1>2, <1>3, Zenon DEF file_deny_write
<1>7. OpenMap[h] # NONE /\ OpenMap[h] = [file |-> g.sector, deny |-> g.deny_write]
  BY <1>1, <1>2, OpenMapFacts, Zenon
<1>8. OpenMap' = [OpenMap EXCEPT ![h].deny = TRUE]
  <2>1. OpenMap' = [OpenMap EXCEPT ![h] = IF f = NONE THEN NONE ELSE [file |-> f.sector, deny |-> f.deny_write]]
    BY <1>1, <1>6, OpenMapChange, Zenon
  <2>2. OpenMap' = [OpenMap EXCEPT ![h] = [file |-> g.sector, deny |-> TRUE]]
    BY <1>4, <1>5, <2>1, Zenon
  <2>3. [OpenMap[h] EXCEPT !.deny = TRUE] = [file |-> g.sector, deny |-> TRUE]
    <3>1. PICK a \in [file : Sectors, deny : BOOLEAN] : a = [file |-> g.sector, deny |-> g.deny_write]
      BY Zenon DEF File
    <3>2. a.file = g.sector
      BY <3>1, Zenon
    <3>3. PICK b, c : b = [a EXCEPT !.deny = TRUE] /\ c = [file |-> g.sector, deny |-> TRUE]
      BY Zenon
    <3>4. b \in [file : Sectors, deny : BOOLEAN] /\ b.file = a.file /\ b.deny = TRUE
      BY <3>3, Zenon
    <3>5. c \in [file : Sectors, deny : BOOLEAN] /\ c.file = g.sector /\ c.deny = TRUE
      BY <3>3, Zenon DEF File
    <3>6. b = c
      BY <3>2, <3>4, <3>5
    <3> QED BY <1>7, <3>1, <3>3, <3>6, Zenon
  <2> QED BY <2>2, <2>3, Zenon
<1>9. OpenSectors' = OpenSectors
  <2>1. \A i \in Handles : IF i = h THEN file'[i] = f /\ file[i] = g ELSE file'[i] = file[i]
    BY <1>1, <1>2, <1>6, Zenon DEF TypeOK
  <2> QED BY <1>4, <1>5, <2>1 DEF OpenSectors
<1>10. DirMap' = DirMap /\ InodesInUse' = InodesInUse
  BY <1>1, SameDir DEF DirMap, Slots, lookup, Lowest
<1>11. DataMap' = DataMap
  <2>1. \A x : Contents(x)' = Contents(x)
    BY <1>1, Zenon DEF Contents, Start, Length
  <2>2. Existing' = Existing
    BY <1>9, <1>10, Zenon DEF Existing
  <2> QED BY <2>1, <2>2, Zenon DEF DataMap
<1> QED BY <1>7, <1>8, <1>10, <1>11, Zenon DEF Store!Deny

\* With its last handle goes a file that has no name.
LEMMA CloseStore ==
  ASSUME IInv, IInv', NEW h \in Handles, file_close(h)
  PROVE  Store!Close(h)
<1>1. TypeOK /\ disk' = disk /\ file[h] # NONE /\ file' = [file EXCEPT ![h] = NONE]
  BY Zenon DEF file_close, IInv
<1>2. OpenMap[h] # NONE
  BY <1>1, OpenMapFacts, Zenon
<1>3. OpenMap' = [OpenMap EXCEPT ![h] = NONE]
  <2>1. PICK f : f = NONE
    OBVIOUS
  <2>2. file' = [file EXCEPT ![h] = f]
    BY <1>1, <2>1, Zenon
  <2>3. OpenMap' = [OpenMap EXCEPT ![h] = IF f = NONE THEN NONE ELSE [file |-> f.sector, deny |-> f.deny_write]]
    BY <1>1, <2>2, OpenMapChange, Zenon
  <2> QED BY <2>1, <2>3, Zenon
<1>4. DirMap' = DirMap /\ InodesInUse' = InodesInUse
  BY <1>1, SameDir DEF DirMap, Slots, lookup, Lowest
<1>5. OpenSectors' \subseteq OpenSectors
  <2>1. \A i \in Handles : IF i = h THEN file'[i] = NONE ELSE file'[i] = file[i]
    BY <1>1, Zenon DEF TypeOK
  <2> QED BY <2>1, Zenon DEF OpenSectors
<1>6. DataMap' = Store!Keep(DirMap', OpenMap', DataMap)
  BY CountingFacts, <1>1, <1>4, <1>5, KeepFacts, Zenon DEF Existing
<1>7. DataMap' = Store!Keep(DirMap, OpenMap', DataMap)
  BY <1>4, <1>6, Zenon
<1> QED BY <1>2, <1>3, <1>4, <1>7, Zenon DEF Store!Close

\* A restart closes every handle and keeps names and contents.
LEMMA RestartStore ==
  ASSUME IInv, IInv', restart
  PROVE  Store!PowerFailure
<1>1. TypeOK /\ disk' = disk /\ file' = [h \in Handles |-> NONE]
  BY Zenon DEF restart, IInv
<1>2. OpenMap' = [h \in Handles |-> NONE] /\ OpenSectors' = {}
  BY <1>1, Zenon DEF OpenMap, OpenSectors
<1>3. DirMap' = DirMap /\ InodesInUse' = InodesInUse
  BY <1>1, SameDir DEF DirMap, Slots, lookup, Lowest
<1>4. Existing' \subseteq Existing
  BY <1>2, <1>3, Zenon DEF Existing
<1>5. DataMap' = Store!Keep(DirMap', OpenMap', DataMap)
  BY CountingFacts, <1>1, <1>4, KeepFacts, Zenon
<1>6. DataMap' = Store!Keep(DirMap, OpenMap', DataMap)
  BY <1>3, <1>5, Zenon
<1> QED BY <1>2, <1>3, <1>6, Zenon DEF Store!PowerFailure

\* A change of a handle's position is not seen.
LEMMA PosUnseen ==
  ASSUME IInv, NEW h \in Handles, NEW g \in File, g = file[h], NEW f \in File, file' = [file EXCEPT ![h] = f],
         f.sector = g.sector, f.deny_write = g.deny_write, disk' = disk
  PROVE  UNCHANGED <<DirMap, DataMap, OpenMap>>
<1>1. f # NONE /\ g # NONE
  BY NoneNotFile, Zenon
<1>2. \A i \in Handles : IF i = h THEN file'[i] = f /\ file[i] = g ELSE file'[i] = file[i]
  BY Zenon DEF IInv, TypeOK
<1>3. OpenMap' = OpenMap /\ OpenSectors' = OpenSectors
  BY <1>1, <1>2 DEF OpenMap, OpenSectors
<1> QED BY CountingFacts, <1>3, Unseen, Zenon

\* inode_write_at() changes one sector of one file, which no handle protects.
LEMMA WriteStore ==
  ASSUME IInv, IInv', inode_write_at
  PROVE  \/ UNCHANGED <<DirMap, DataMap, OpenMap>>
         \/ \E h \in Handles, v \in Values : Store!Write(h, v)
<1>1. TypeOK /\ op.pc = "write" /\ op \in WriteOp
  BY OpTypes, Zenon DEF inode_write_at, IInv
<1>2. PICK h, v, at : h = op.h /\ v = op.value /\ at = op.at
  OBVIOUS
<1>3. h \in Handles /\ v \in Values /\ at \in Nat /\ file[h] # NONE /\ Denying(file[h].sector) = {}
  BY <1>1, <1>2, Zenon DEF WriteOp, IInv, OpInv
<1>4. PICK g \in File : g = file[h]
  BY <1>1, <1>3, FileTypes, Zenon
<1>5. PICK s : s = g.sector
  OBVIOUS
<1>6. s \in Existing /\ s \in Sectors /\ s \in LiveInodes
  <2>1. s \in OpenSectors
    BY <1>3, <1>4, <1>5, Zenon DEF OpenSectors
  <2> QED BY CountingFacts, <2>1, ExistsFacts, Zenon DEF Existing
<1>7. CASE /\ op.left > 0 /\ at < Length(s)
           /\ disk' = [disk EXCEPT !.data[Start(s) + at] = v] /\ file' = file
  <2>1. PICK x : x = Start(s) + at
    OBVIOUS
  <2>2. disk' = [disk EXCEPT !.data[x] = v] /\ file' = file
    BY <1>7, <2>1, Zenon
  <2>3. disk'.dir = disk.dir /\ disk'.inode = disk.inode /\ disk'.data = [disk.data EXCEPT ![x] = v]
    BY <1>1, <2>2, Zenon DEF TypeOK
  <2>4. OpenMap' = OpenMap /\ OpenSectors' = OpenSectors
    BY <2>2, SameFiles, Zenon
  <2>5. DirMap' = DirMap /\ InodesInUse' = InodesInUse
    BY <2>3, SameDir DEF DirMap, Slots, lookup, Lowest
  <2>6. Existing' = Existing
    BY <2>4, <2>5, Zenon DEF Existing
  <2>7. Start(s) \in Int /\ Length(s) \in Int
    BY <1>1, <1>6, InodeTypes, Zenon
  <2>8. x \in Group(Start(s), Length(s))
    BY <1>3, <1>7, <2>1, <2>7 DEF Group
  <2>9. SpaceInv
    BY Zenon DEF IInv
  <2>10. ASSUME NEW t \in Existing, t # s PROVE Contents(t)' = Contents(t)
    <3>1. t \in LiveInodes /\ t \in Sectors
      BY CountingFacts, ExistsFacts, Zenon
    <3>2. SectorsOf(t) \intersect SectorsOf(s) = {} /\ SectorsOf(t) \subseteq Allocated
      BY <1>6, <2>9, <2>10, <3>1, Zenon DEF SpaceInv
    <3>3. \A y \in Group(Start(t), Length(t)) : y # x /\ y \in Sectors
      BY <2>8, <3>2, Zenon DEF SectorsOf, Allocated
    <3>4. \A y \in Group(Start(t), Length(t)) : disk'.data[y] = disk.data[y]
      BY <1>1, <2>3, <3>3, Zenon DEF TypeOK
    <3> QED BY <1>1, <2>3, <3>1, <3>4, InodeTypes, SameContents, Zenon
  <2>11. Contents(s)' = [Contents(s) EXCEPT ![at + 1] = v]
    <3>1. Start(s)' = Start(s) /\ Length(s)' = Length(s)
      BY <2>3, SameInodes, Zenon
    <3>2. SectorsOf(s) \subseteq Allocated
      BY <1>6, <2>9, Zenon DEF SpaceInv
    <3>3. \A i \in 1 .. Length(s) : Start(s) + i - 1 \in Sectors
      BY <2>7, <3>2 DEF SectorsOf, Group, Allocated
    <3>4. \A i \in 1 .. Length(s) : disk'.data[Start(s) + i - 1] =
            IF i = at + 1 THEN v ELSE disk.data[Start(s) + i - 1]
      <4> TAKE i \in 1 .. Length(s)
      <4>1. (Start(s) + i - 1 = x) <=> (i = at + 1)
        BY <1>3, <2>1, <2>7
      <4>2. disk.data \in [Sectors -> Values]
        BY <1>1, Zenon DEF TypeOK
      <4> QED BY <2>3, <3>3, <4>1, <4>2, Zenon
    <3>5. Contents(s)' = [i \in 1 .. Length(s) |-> disk'.data[Start(s) + i - 1]]
      BY <3>1, Zenon DEF Contents
    <3>6. Contents(s) = [i \in 1 .. Length(s) |-> disk.data[Start(s) + i - 1]]
      BY Zenon DEF Contents
    <3> QED BY <3>4, <3>5, <3>6, Zenon
  <2>12. DataMap[s] = Contents(s) /\ at + 1 \in DOMAIN DataMap[s]
    <3>1. DataMap[s] = Contents(s)
      BY <1>6, Zenon DEF DataMap
    <3> QED BY <1>3, <1>7, <2>7, <3>1 DEF Contents
  <2>13. DataMap' = [DataMap EXCEPT ![s][at + 1] = v]
    <3>1. \A t \in Sectors : DataMap'[t] = IF t = s THEN Contents(s)' ELSE DataMap[t]
      BY <1>6, <2>6, <2>10, Zenon DEF DataMap
    <3>2. DataMap' = [t \in Sectors |-> DataMap'[t]] /\ DataMap = [t \in Sectors |-> DataMap[t]]
      BY Zenon DEF DataMap
    <3>3. Contents(s)' = [DataMap[s] EXCEPT ![at + 1] = v]
      BY <2>11, <2>12, Zenon
    <3> HIDE DEF DataMap
    <3> QED BY <1>6, <3>1, <3>2, <3>3, Zenon
  <2>14. OpenMap[h] # NONE /\ OpenMap[h].file = s
    <3>1. OpenMap[h] = [file |-> file[h].sector, deny |-> file[h].deny_write] /\ OpenMap[h] # NONE
      BY <1>1, <1>3, OpenMapFacts, Zenon
    <3> QED BY <1>4, <1>5, <3>1
  <2>15. ASSUME NEW i \in Handles, OpenMap[i] # NONE, OpenMap[i].file = s PROVE ~OpenMap[i].deny
    <3>1. file[i] # NONE /\ OpenMap[i] = [file |-> file[i].sector, deny |-> file[i].deny_write]
      BY <1>1, <2>15, OpenMapFacts, Zenon
    <3>2. file[i].sector = s /\ i \notin Denying(s)
      BY <1>3, <1>4, <1>5, <2>15, <3>1
    <3> QED BY <3>1, <3>2 DEF Denying
  <2>16. Store!Write(h, v)
    <3>1. \A i \in Handles : OpenMap[i] # NONE /\ OpenMap[i].file = OpenMap[h].file => ~OpenMap[i].deny
      BY <2>14, <2>15, Zenon
    <3>2. \E i \in DOMAIN DataMap[OpenMap[h].file] : DataMap' = [DataMap EXCEPT ![OpenMap[h].file][i] = v]
      BY <2>12, <2>13, <2>14, Zenon
    <3> QED BY <2>4, <2>5, <2>14, <3>1, <3>2, Zenon DEF Store!Write
  <2> QED BY <1>3, <2>16, Zenon
<1>8. CASE file' = [file EXCEPT ![h].pos = at] /\ disk' = disk
  <2>1. PICK f : f = [g EXCEPT !.pos = at]
    BY Zenon
  <2>2. f \in File /\ f.sector = g.sector /\ f.deny_write = g.deny_write
    BY <1>3, <2>1, Zenon DEF File
  <2>3. file' = [file EXCEPT ![h] = f] /\ disk' = disk
    BY <1>4, <1>8, <2>1, Zenon
  <2> QED BY <1>3, <1>4, <2>2, <2>3, PosUnseen, Zenon
<1> QED BY <1>2, <1>4, <1>5, <1>7, <1>8, Zenon DEF inode_write_at

\* Seeking changes nothing a user of the store sees.
LEMMA SeekUnseen ==
  ASSUME IInv, NEW h \in Handles, file_seek(h, 1)
  PROVE  UNCHANGED <<DirMap, DataMap, OpenMap>>
<1>1. TypeOK /\ disk' = disk /\ file[h] # NONE
  BY Zenon DEF file_seek, IInv
<1>2. PICK g \in File : g = file[h]
  BY <1>1, FileTypes, Zenon
<1>3. PICK f : f = [g EXCEPT !.pos = 1]
  BY Zenon
<1>4. f \in File /\ f.sector = g.sector /\ f.deny_write = g.deny_write
  BY <1>3, Zenon DEF File
<1>5. file' = [file EXCEPT ![h] = f]
  BY <1>2, <1>3, Zenon DEF file_seek
<1> QED BY <1>1, <1>2, <1>4, <1>5, PosUnseen, Zenon

\* The other steps write nothing but the map, or nothing.
LEMMA OthersUnseen ==
  ASSUME IInv, file' = file, disk'.dir = disk.dir, disk'.inode = disk.inode, disk'.data = disk.data
  PROVE  UNCHANGED <<DirMap, DataMap, OpenMap>>
BY CountingFacts, SameFiles, Unseen, Zenon

\* A formatted disk is an empty store.
LEMMA StoreInit == Init => Store!Init
<1> SUFFICES ASSUME Init PROVE Store!Init
  OBVIOUS
<1>1. Entries = {} /\ InodesInUse = {} /\ \A n : Slots(n) = {}
  BY Zenon DEF Init, Entries, InodesInUse, Slots, Formatted, NoEntry
<1>2. OpenSectors = {} /\ OpenMap = [h \in Handles |-> NONE]
  BY Zenon DEF Init, OpenSectors, OpenMap
<1>3. DirMap = [n \in Names |-> NONE] /\ DataMap = [s \in Sectors |-> <<>>]
  BY <1>1, <1>2, Zenon DEF DirMap, DataMap, Existing
<1> QED BY <1>2, <1>3, Zenon DEF Store!Init

\* Every step of the file system is one of the store's or is not seen.
LEMMA StoreStep == IInv /\ IInv' /\ [Next]_vars => [Store!Next]_(Store!vars)
<1> SUFFICES ASSUME IInv, IInv', [Next]_vars PROVE Store!Next \/ UNCHANGED <<DirMap, DataMap, OpenMap>>
  BY Zenon DEF Store!vars
<1>1. ASSUME NEW n \in Names \union BadNames, NEW len \in Lengths, filesys_create(n, len)
      PROVE  UNCHANGED <<DirMap, DataMap, OpenMap>>
  <2>1. file' = file /\ disk' = disk
    BY <1>1, Zenon DEF filesys_create
  <2> QED BY <2>1, OthersUnseen, Zenon
<1>2. ASSUME NEW n \in Names, filesys_remove(n) PROVE UNCHANGED <<DirMap, DataMap, OpenMap>>
  <2>1. file' = file /\ disk' = disk
    BY <1>2, Zenon DEF filesys_remove
  <2> QED BY <2>1, OthersUnseen, Zenon
<1>3. ASSUME NEW n \in Names, NEW h \in Handles, filesys_open(n, h) PROVE Store!Next
  BY <1>3, OpenStore, Zenon DEF Store!Next
<1>4. ASSUME NEW h \in Handles, file_deny_write(h) \/ file_close(h) PROVE Store!Next
  BY <1>4, DenyStore, CloseStore, Zenon DEF Store!Next
<1>5. ASSUME NEW h \in Handles, NEW v \in Values \ {0}, NEW n \in {2}, file_write(h, v, n)
      PROVE  UNCHANGED <<DirMap, DataMap, OpenMap>>
  <2>1. file' = file /\ disk' = disk
    BY <1>5, Zenon DEF file_write
  <2> QED BY <2>1, OthersUnseen, Zenon
<1>6. ASSUME NEW h \in Handles, file_seek(h, 1) PROVE UNCHANGED <<DirMap, DataMap, OpenMap>>
  BY <1>6, SeekUnseen, Zenon
<1>7. CASE create_alloc_inode \/ create_alloc_data \/ create_inode \/ create_zero
  BY CountingFacts, <1>7, CreateUnseen, Zenon
<1>8. CASE dir_add \/ dir_remove \/ inode_write_at \/ restart
  BY CountingFacts, <1>8, DirAddStore, DirRemoveStore, WriteStore, RestartStore, Zenon DEF Store!Next
<1>9. CASE create_undo \/ release
  <2>1. file' = file /\ (disk' = [disk EXCEPT !.map = free_map'] \/ disk' = disk)
    BY <1>9, Zenon DEF create_undo, release, bitmap_write
  <2>2. disk'.dir = disk.dir /\ disk'.inode = disk.inode /\ disk'.data = disk.data
    BY <2>1, Zenon DEF IInv, TypeOK
  <2> QED BY <2>1, <2>2, OthersUnseen, Zenon
<1>10. CASE Bound \/ UNCHANGED vars
  <2>1. file' = file /\ disk' = disk
    BY <1>10, Zenon DEF Bound, vars
  <2> QED BY <2>1, OthersUnseen, Zenon
<1> QED BY <1>1, <1>2, <1>3, <1>4, <1>5, <1>6, <1>7, <1>8, <1>9, <1>10, Zenon DEF Next

\* The file system is a store of files to its users: a name is bound or freed
\* by the one write of its entry, a new file appears filled with zeros, a file
\* keeps its contents while it has a name or a handle, whatever happens to the
\* others and wherever the machine stops.
THEOREM ImplementsStore == Spec => StoreSpec
<1>1. Spec => Store!Init /\ [][Store!Next]_(Store!vars)
  BY StoreInit, StoreStep, FileSysInvariant, PTL DEF Spec
<1> QED BY <1>1, Zenon DEF StoreSpec, Store!Spec
=============================================================================
