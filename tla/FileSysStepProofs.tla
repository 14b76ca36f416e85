------------------------- MODULE FileSysStepProofs --------------------------
(* Every step of FileSys preserves its invariant, for every size of the disk *)
(* and of the root directory and any number of handles.  What the proofs use *)
(* of numbers, finite sets and lists is the hypothesis Counting, which       *)
(* FileSysProofs proves from the library.                                    *)
EXTENDS FileSysInv, TLAPS


-----------------------------------------------------------------------------
(* Bitmaps *)

\* What bitmap_scan() from bit 0 finds: nothing, or cnt bits that are all clear.
LEMMA ScanFacts ==
  ASSUME Counting, NEW n \in Nat \ {0}, NEW b \in [0 .. (n - 1) -> BOOLEAN], NEW cnt \in Nat
  PROVE  LET i == bitmap_scan(b, 0, cnt, FALSE)
         IN  \/ i = BITMAP_ERROR
             \/ /\ i \in 0 .. (n - 1) /\ i # BITMAP_ERROR
                /\ Group(i, cnt) \subseteq 0 .. (n - 1)
                /\ \A x \in Group(i, cnt) : ~b[x]
<1> DEFINE Fits == {i \in 0 .. (n - cnt) : ~bitmap_contains(b, i, cnt, TRUE)}
           m == CHOOSE i \in Fits : \A j \in Fits : i <= j
<1>1. bitmap_size(b) = n
  <2>1. DOMAIN b = 0 .. (n - 1)
    OBVIOUS
  <2>2. Cardinality(0 .. (n - 1)) = n
    BY Zenon DEF Counting
  <2> QED BY <2>1, <2>2, Zenon DEF bitmap_size
<1>2. bitmap_scan(b, 0, cnt, FALSE) = IF Fits = {} THEN BITMAP_ERROR ELSE m
  <2> DEFINE F == {i \in 0 .. (bitmap_size(b) - cnt) : ~bitmap_contains(b, i, cnt, ~FALSE)}
  <2>1. ~FALSE = TRUE
    OBVIOUS
  <2>2. F = Fits
    BY <1>1, <2>1, Zenon
  <2>3. bitmap_scan(b, 0, cnt, FALSE) = IF F = {} THEN BITMAP_ERROR ELSE CHOOSE i \in F : \A j \in F : i <= j
    BY Zenon DEF bitmap_scan
  <2> HIDE DEF F, Fits
  <2> QED BY <2>2, <2>3, Zenon
<1>3. ASSUME Fits # {}
      PROVE  /\ m \in 0 .. (n - 1) /\ m # BITMAP_ERROR
             /\ Group(m, cnt) \subseteq 0 .. (n - 1)
             /\ \A x \in Group(m, cnt) : ~b[x]
  <2>1. \E i \in Fits : \A j \in Fits : i <= j
    <3>1. \A i \in 0 .. (n - cnt) : i \in Nat
      OBVIOUS
    <3>2. Fits \in SUBSET Nat
      BY <3>1, Zenon
    <3> HIDE DEF Fits
    <3> QED BY <1>3, <3>2, Zenon DEF Counting
  <2>2. m \in Fits /\ \A j \in Fits : m <= j
    BY <2>1, Zenon
  <2> HIDE DEF m
  <2>3. m \in 0 .. (n - cnt) /\ ~bitmap_contains(b, m, cnt, TRUE)
    BY <2>2, Zenon
  <2>4. CASE cnt = 0
    <3>1. 0 \in Fits
      BY <2>4 DEF bitmap_contains, Group
    <3> HIDE DEF Fits
    <3>2. m <= 0
      BY <2>2, <3>1, Zenon
    <3>3. m = 0
      BY <2>3, <3>2
    <3> QED BY <3>3, <2>4 DEF Group, BITMAP_ERROR
  <2>5. CASE cnt # 0
    BY <2>3, <2>5 DEF Group, BITMAP_ERROR, bitmap_contains
  <2> QED BY <2>4, <2>5, Zenon
<1> HIDE DEF m
<1> QED BY <1>2, <1>3, Zenon

\* What bitmap_scan_and_flip() leaves behind.
LEMMA FlipFacts ==
  ASSUME NEW n \in Nat \ {0}, NEW b \in [0 .. (n - 1) -> BOOLEAN], NEW cnt \in Nat
  PROVE  LET i == bitmap_scan(b, 0, cnt, FALSE)
             c == bitmap_scan_and_flip(b, 0, cnt, FALSE)
         IN  /\ c \in [0 .. (n - 1) -> BOOLEAN]
             /\ i = BITMAP_ERROR => c = b
             /\ i # BITMAP_ERROR => \A x \in 0 .. (n - 1) : c[x] <=> b[x] \/ x \in Group(i, cnt)
BY Zenon DEF bitmap_scan_and_flip, bitmap_set_multiple

\* The map do_format() writes is a map.
LEMMA FormattedBits == FormattedMap \in Bits /\ free_map_init \in Bits
<1>1. free_map_init \in Bits
  BY DEF free_map_init, Bits
<1> DEFINE b == bitmap_scan_and_flip(free_map_init, 0, 1, FALSE)
<1>2. SectorCnt \in Nat \ {0} /\ 1 \in Nat /\ Bits = [0 .. (SectorCnt - 1) -> BOOLEAN]
  BY FileSysAssumption, Zenon DEF Bits, Sectors
<1>3. b \in Bits
  BY <1>1, <1>2, FlipFacts, Zenon
<1> HIDE DEF b
<1>4. bitmap_scan_and_flip(b, 0, 1, FALSE) \in Bits
  BY <1>2, <1>3, FlipFacts, Zenon
<1> QED BY <1>1, <1>4, Zenon DEF FormattedMap, b
-----------------------------------------------------------------------------
(* The initial state, and what a step leaves alone *)

\* The invariant holds on a formatted disk.
LEMMA InitInv == Init => IInv
<1> SUFFICES ASSUME Init PROVE IInv
  OBVIOUS
<1> USE FileSysAssumption DEF Init
<1>1. TypeOK
  <2>1. disk \in [map : Bits, inode : [Sectors -> [start : Sectors, length : Int]],
                 data : [Sectors -> Values],
                 dir : [1 .. EntryCnt -> [in_use : BOOLEAN, name : Names \union BadNames \union {NONE},
                                          inode_sector : Sectors]]]
    BY FormattedBits DEF Formatted, NoInode, NoEntry, Sectors
  <2>2. open_inodes \in Seq(Inode) /\ file \in [Handles -> File \union {NONE}]
    OBVIOUS
  <2> QED BY <2>1, <2>2, FormattedBits, Zenon DEF TypeOK
<1>2. Entries = {} /\ InodesInUse = {}
  BY Zenon DEF Entries, InodesInUse, Formatted, NoEntry
<1>3. OpenInodes = {} /\ DOMAIN open_inodes = {}
  BY DEF OpenInodes
<1>4. LiveInodes = {} /\ Claimed = {} /\ Allocated = {}
  BY <1>2, <1>3, Zenon DEF LiveInodes, Claimed, Idle, Allocated
<1>5. MapInv /\ DirInv
  BY <1>2, Zenon DEF MapInv, DirInv, Formatted
<1>6. SpaceInv /\ LeakInv
  BY <1>4, Zenon DEF SpaceInv, LeakInv, Idle
<1>7. OpenInv
  BY <1>3, Zenon DEF OpenInv, Elems, Idle
<1>8. OpInv
  BY Zenon DEF OpInv, Idle
<1> QED BY <1>1, <1>5, <1>6, <1>7, <1>8, Zenon DEF IInv

\* A step that writes no inode leaves the sectors of every file where they are.
LEMMA SameInodes ==
  ASSUME disk'.inode = disk.inode
  PROVE  \A s : Start(s)' = Start(s) /\ Length(s)' = Length(s) /\ SectorsOf(s)' = SectorsOf(s)
BY Zenon DEF Start, Length, SectorsOf

\* One that writes no directory entry leaves the names.
LEMMA SameDir ==
  ASSUME disk'.dir = disk.dir
  PROVE  Entries' = Entries /\ InodesInUse' = InodesInUse
BY Zenon DEF Entries, InodesInUse

\* The sectors of a file include its inode's.
LEMMA OwnSector == \A s : s \in SectorsOf(s)
BY Zenon DEF SectorsOf

\* The fields of the operation in progress, by where it is.
LEMMA OpTypes ==
  ASSUME TypeOK
  PROVE  /\ op.pc = "idle" => op = Idle
         /\ op.pc \in {"alloc_inode", "alloc_data", "inode", "zero", "dir_add", "undo"} => op \in CreateOp
         /\ op.pc = "erase" => op \in EraseOp
         /\ op.pc = "release" => op \in ReleaseOp
         /\ op.pc = "write" => op \in WriteOp
BY DEF TypeOK, CreateOp, EraseOp, ReleaseOp, WriteOp, Idle
-----------------------------------------------------------------------------
(* The list of open inodes *)

Distinct(L) == \A i, j \in DOMAIN L : L[i].sector = L[j].sector => i = j
SectorsIn(L) == {L[i].sector : i \in DOMAIN L}
NewInode(s) == [sector |-> s, open_cnt |-> 1, deny_write_cnt |-> 0, removed |-> FALSE]

\* inode_open() counts one opener more, or puts a new inode on the list.
LEMMA OpenList ==
  ASSUME TypeOK, Distinct(open_inodes), NEW s \in Sectors
  PROVE  LET L == inode_open(s)
         IN  /\ L \in Seq(Inode) /\ Distinct(L) /\ SectorsIn(L) = OpenInodes \union {s}
             /\ \A i \in DOMAIN L :
                  IF L[i].sector # s THEN \E k \in DOMAIN open_inodes : L[i] = open_inodes[k]
                  ELSE IF s \in OpenInodes
                       THEN \E k \in DOMAIN open_inodes :
                              /\ open_inodes[k].sector = s
                              /\ L[i] = [open_inodes[k] EXCEPT !.open_cnt = @ + 1]
                       ELSE L[i] = NewInode(s)
<1>1. open_inodes \in Seq(Inode)
  BY Zenon DEF TypeOK
<1>2. IsOpen(s) <=> s \in OpenInodes
  BY Zenon DEF IsOpen, OpenInodes
<1>3. CASE IsOpen(s)
  <2> DEFINE k == OpenIdx(s)
             r == [open_inodes[k] EXCEPT !.open_cnt = @ + 1]
             L == [open_inodes EXCEPT ![k].open_cnt = @ + 1]
  <2>1. k \in DOMAIN open_inodes /\ open_inodes[k].sector = s
    BY <1>3, Zenon DEF IsOpen, OpenIdx
  <2> HIDE DEF k
  <2>2. r \in Inode /\ r.sector = s
    <3>1. open_inodes[k] \in Inode
      BY <1>1, <2>1
    <3>2. PICK n \in Inode : n = open_inodes[k]
      BY <3>1, Zenon
    <3>3. n.sector = s /\ r = [n EXCEPT !.open_cnt = @ + 1]
      BY <2>1, <3>2, Zenon
    <3> QED BY <3>3 DEF Inode
  <2>3. L = [open_inodes EXCEPT ![k] = r]
    BY <1>1, <2>1, Zenon
  <2> HIDE DEF L
  <2>4. L \in Seq(Inode) /\ DOMAIN L = DOMAIN open_inodes
    BY <1>1, <2>1, <2>2, <2>3
  <2>5. \A i \in DOMAIN L : L[i] = IF i = k THEN r ELSE open_inodes[i]
    BY <1>1, <2>3, <2>4, Zenon
  <2> HIDE DEF r
  <2>6. \A i \in DOMAIN L : L[i].sector = open_inodes[i].sector
    BY <2>1, <2>2, <2>5, Zenon
  <2>7. Distinct(L) /\ SectorsIn(L) = OpenInodes
    BY <2>4, <2>6 DEF Distinct, SectorsIn, OpenInodes
  <2>8. s \in OpenInodes
    BY <1>2, <1>3, Zenon
  <2>9. \A i \in DOMAIN L : IF L[i].sector # s THEN \E j \in DOMAIN open_inodes : L[i] = open_inodes[j]
                             ELSE i = k /\ L[i] = r
    <3> TAKE i \in DOMAIN L
    <3>1. i = k => L[i].sector = s /\ L[i] = r
      BY <2>2, <2>5, Zenon
    <3>2. i # k => L[i] = open_inodes[i] /\ L[i].sector # s
      BY <2>1, <2>4, <2>5, <2>6, Zenon DEF Distinct
    <3> QED BY <3>1, <3>2, <2>4, Zenon
  <2>10. inode_open(s) = L
    BY <1>3, Zenon DEF inode_open, k, L
  <2> QED BY <2>1, <2>4, <2>7, <2>8, <2>9, <2>10, Zenon DEF r
<1>4. CASE ~IsOpen(s)
  <2> DEFINE L == inode_open(s)
             n == Len(open_inodes)
  <2>1. NewInode(s) \in Inode /\ NewInode(s).sector = s
    BY Zenon DEF NewInode, Inode
  <2>2. L = <<NewInode(s)>> \o open_inodes
    BY <1>4, Zenon DEF inode_open, list_push_front, NewInode
  <2>3. /\ L \in Seq(Inode) /\ n \in Nat /\ Len(L) = n + 1
        /\ L[1] = NewInode(s) /\ \A i \in 2 .. n + 1 : L[i] = open_inodes[i - 1]
    <3> HIDE DEF NewInode
    <3> QED BY <1>1, <2>1, <2>2
  <2> HIDE DEF L
  <2>4. DOMAIN L = 1 .. n + 1 /\ DOMAIN open_inodes = 1 .. n
    BY <1>1, <2>3
  <2>5. \A i \in DOMAIN open_inodes : open_inodes[i].sector # s
    BY <1>4, Zenon DEF IsOpen
  <2> HIDE DEF n
  <2>6. \A i \in DOMAIN L : \/ i = 1 /\ L[i] = NewInode(s)
                            \/ i # 1 /\ i - 1 \in DOMAIN open_inodes /\ L[i] = open_inodes[i - 1]
    BY <2>3, <2>4
  <2>7. \A i \in DOMAIN open_inodes : i + 1 \in DOMAIN L /\ L[i + 1] = open_inodes[i]
    BY <2>3, <2>4
  <2>8. 1 \in DOMAIN L /\ L[1].sector = s
    BY <2>1, <2>3, <2>4
  <2>9. SectorsIn(L) = OpenInodes \union {s}
    BY <2>1, <2>6, <2>7, <2>8 DEF SectorsIn, OpenInodes
  <2>10. Distinct(L)
    <3> SUFFICES ASSUME NEW i \in DOMAIN L, NEW j \in DOMAIN L, L[i].sector = L[j].sector
                 PROVE  i = j
      BY Zenon DEF Distinct
    <3>1. CASE i = 1 \/ j = 1
      BY <3>1, <2>1, <2>5, <2>6
    <3>2. CASE i # 1 /\ j # 1
      BY <3>2, <2>4, <2>6 DEF Distinct
    <3> QED BY <3>1, <3>2, Zenon
  <2>11. \A i \in DOMAIN L : IF L[i].sector # s THEN \E k \in DOMAIN open_inodes : L[i] = open_inodes[k]
                              ELSE L[i] = NewInode(s)
    BY <2>1, <2>5, <2>6, Zenon
  <2> QED BY <1>2, <1>4, <2>3, <2>9, <2>10, <2>11, Zenon DEF L
<1> QED BY <1>3, <1>4, Zenon

\* inode_close() takes the inode off the list with its last opener.
LEMMA CloseList ==
  ASSUME Counting, NEW L \in Seq(Inode), Distinct(L), NEW i \in DOMAIN L, L[i].open_cnt > 0
  PROVE  LET s == L[i].sector
             c == Closed(L, s)
         IN  /\ c.inodes \in Seq(Inode) /\ Distinct(c.inodes)
             /\ IF L[i].open_cnt = 1
                THEN /\ c.release = L[i].removed
                     /\ SectorsIn(c.inodes) = SectorsIn(L) \ {s}
                     /\ \A j \in DOMAIN c.inodes : \E k \in DOMAIN L : k # i /\ c.inodes[j] = L[k]
                ELSE /\ ~c.release
                     /\ c.inodes = [L EXCEPT ![i] = [L[i] EXCEPT !.open_cnt = @ - 1]]
                     /\ SectorsIn(c.inodes) = SectorsIn(L)
<1> DEFINE s == L[i].sector
           c == Closed(L, s)
<1>1. (CHOOSE j \in DOMAIN L : L[j].sector = s) = i
  BY Zenon DEF Distinct
<1>2. c = IF L[i].open_cnt = 1
          THEN [inodes |-> Unlink(L, i), release |-> L[i].removed]
          ELSE [inodes |-> [L EXCEPT ![i].open_cnt = @ - 1], release |-> FALSE]
  BY <1>1, Zenon DEF Closed, LastClose
<1>3. L[i] \in Inode
  OBVIOUS
<1>4. CASE L[i].open_cnt = 1
  <2> DEFINE M == Unlink(L, i)
             n == Len(L)
  <2>0. n \in Nat /\ i \in 1 .. n
    OBVIOUS
  <2>1. /\ M \in Seq(Inode) /\ Len(M) = n - 1 /\ n \in Nat /\ i \in 1 .. n
        /\ \A j \in 1 .. n - 1 : M[j] = IF j < i THEN L[j] ELSE L[j + 1]
    BY <2>0, Zenon DEF Counting
  <2> HIDE DEF M
  <2>2. DOMAIN M = 1 .. n - 1 /\ DOMAIN L = 1 .. n
    BY <2>1
  <2> HIDE DEF n
  <2>3. \A j \in DOMAIN M : \/ j < i /\ j \in DOMAIN L /\ M[j] = L[j]
                            \/ j >= i /\ j + 1 \in DOMAIN L /\ M[j] = L[j + 1]
    BY <2>1, <2>2
  <2>4. \A j \in DOMAIN M : \E k \in DOMAIN L : k # i /\ M[j] = L[k]
    BY <2>1, <2>2, <2>3
  <2>5. \A k \in DOMAIN L : k # i => \E j \in DOMAIN M : M[j] = L[k]
    <3> SUFFICES ASSUME NEW k \in DOMAIN L, k # i PROVE \E j \in DOMAIN M : M[j] = L[k]
      OBVIOUS
    <3>1. CASE k < i
      BY <3>1, <2>1, <2>2
    <3>2. CASE k > i
      <4>1. k - 1 \in DOMAIN M /\ M[k - 1] = L[k]
        BY <3>2, <2>1, <2>2
      <4> QED BY <4>1, Zenon
    <3> QED BY <3>1, <3>2, <2>1, <2>2
  <2>6. Distinct(M)
    <3> SUFFICES ASSUME NEW j \in DOMAIN M, NEW k \in DOMAIN M, M[j].sector = M[k].sector
                 PROVE  j = k
      BY Zenon DEF Distinct
    <3>1. j \in Int /\ k \in Int /\ i \in Int
      BY <2>1, <2>2
    <3> QED BY <2>3, <3>1 DEF Distinct
  <2>7. SectorsIn(M) = SectorsIn(L) \ {s}
    <3>1. \A k \in DOMAIN L : k # i => L[k].sector # s
      BY Zenon DEF Distinct
    <3> HIDE DEF s
    <3>2. \A x \in SectorsIn(M) : x \in SectorsIn(L) /\ x # s
      BY <2>4, <3>1, Zenon DEF SectorsIn
    <3>3. \A x \in SectorsIn(L) : x # s => x \in SectorsIn(M)
      <4> SUFFICES ASSUME NEW k \in DOMAIN L, L[k].sector # s PROVE L[k].sector \in SectorsIn(M)
        BY Zenon DEF SectorsIn
      <4>1. k # i
        BY Zenon DEF s
      <4> QED BY <4>1, <2>5, Zenon DEF SectorsIn
    <3> QED BY <3>2, <3>3, Zenon
  <2> QED BY <1>2, <1>4, <2>1, <2>4, <2>6, <2>7 DEF M
<1>5. CASE L[i].open_cnt # 1
  <2> DEFINE r == [L[i] EXCEPT !.open_cnt = @ - 1]
             M == [L EXCEPT ![i] = r]
  <2>1. r \in Inode /\ r.sector = s
    BY <1>3, <1>5 DEF Inode
  <2>2. [L EXCEPT ![i].open_cnt = @ - 1] = M
    OBVIOUS
  <2> HIDE DEF r
  <2>3. M \in Seq(Inode) /\ DOMAIN M = DOMAIN L
    BY <2>1
  <2>4. \A j \in DOMAIN L : M[j].sector = L[j].sector
    BY <2>1, Zenon
  <2> HIDE DEF M
  <2>5. Distinct(M) /\ SectorsIn(M) = SectorsIn(L)
    BY <2>3, <2>4 DEF Distinct, SectorsIn
  <2> QED BY <1>2, <1>5, <2>2, <2>3, <2>5 DEF r, M
<1> QED BY <1>4, <1>5, Zenon
-----------------------------------------------------------------------------
(* filesys_create() *)

\* The open inodes stay right when neither they nor the directory change.
LEMMA SameOpen ==
  ASSUME OpenInv, UNCHANGED <<open_inodes, file>>, disk'.dir = disk.dir,
         op.pc # "erase", op'.pc # "erase"
  PROVE  OpenInv' /\ LiveInodes' = LiveInodes
<1>1. Entries' = Entries /\ InodesInUse' = InodesInUse
  BY SameDir, Zenon
<1>2. OpenInodes' = OpenInodes
  BY Zenon DEF OpenInodes
<1>3. \A s : /\ HandlesOn(s)' = HandlesOn(s) /\ Denying(s)' = Denying(s)
             /\ ~Erasing(s) /\ ~Erasing(s)'
  BY Zenon DEF HandlesOn, Denying, Erasing
<1>4. \A n : Counted(n)' <=> Counted(n)
  BY <1>1, <1>3, Zenon DEF Counted
<1>5. Elems(open_inodes)' = Elems(open_inodes)
  BY Zenon DEF Elems
<1> QED BY <1>1, <1>2, <1>4, <1>5, Zenon DEF OpenInv, LiveInodes

\* So does the directory.
LEMMA SameDirInv ==
  ASSUME DirInv, disk'.dir = disk.dir
  PROVE  DirInv'
BY SameDir, Zenon DEF DirInv

\* A step of filesys_create() that takes the bits G changes nothing of the files.
LEMMA TakeSectors ==
  ASSUME IInv, disk'.inode = disk.inode, LiveInodes' = LiveInodes, free_map' \in Bits,
         NEW G \in SUBSET Sectors, \A x \in G : ~free_map[x],
         \A x \in Sectors : free_map'[x] <=> free_map[x] \/ x \in G,
         Claimed' = Claimed \union G, op'.pc # "release"
  PROVE  /\ \A s \in LiveInodes' : /\ Length(s)' \in Nat /\ SectorsOf(s)' \subseteq Allocated'
                                   /\ s \notin Group(Start(s)', Length(s)')
                                   /\ SectorsOf(s)' \intersect Claimed' = {}
         /\ \A s, t \in LiveInodes' : s # t => SectorsOf(s)' \intersect SectorsOf(t)' = {}
         /\ Claimed' \subseteq Allocated'
         /\ \A x \in Sectors : FormattedMap[x] => free_map'[x]
         /\ leaky' = leaky => LeakInv'
<1>1. \A s : Start(s)' = Start(s) /\ Length(s)' = Length(s) /\ SectorsOf(s)' = SectorsOf(s)
  BY SameInodes, Zenon
<1>2. \A x \in Sectors : FormattedMap[x] => free_map[x]
  BY Zenon DEF IInv, MapInv
<1>3. Allocated' = Allocated \union G
  BY <1>2, Zenon DEF Allocated
<1>4. G \intersect Allocated = {}
  BY Zenon DEF Allocated
<1>5. SpaceInv /\ LeakInv
  BY Zenon DEF IInv
<1> QED BY <1>1, <1>2, <1>3, <1>4, <1>5, Zenon DEF SpaceInv, LeakInv

\* filesys_create() starts with nothing claimed.
LEMMA CreateInv ==
  ASSUME IInv, NEW n \in Names \union BadNames, NEW len \in Lengths, filesys_create(n, len)
  PROVE  IInv'
<1> USE DEF filesys_create, Begins
<1>1. op.pc = "idle" /\ op'.pc = "alloc_inode"
  BY Zenon DEF Idle
<1>2. TypeOK'
  <2>1. op' \in CreateOp
    BY FileSysAssumption DEF CreateOp, Sectors
  <2> QED BY <2>1 DEF IInv, TypeOK
<1>3. OpenInv' /\ LiveInodes' = LiveInodes /\ DirInv'
  BY <1>1, SameOpen, SameDirInv, Zenon DEF IInv
<1>4. Claimed = {} /\ Claimed' = {}
  BY <1>1, Zenon DEF Claimed
<1>5. MapInv' /\ OpInv'
  BY <1>1, Zenon DEF IInv, MapInv, OpInv
<1>6. SpaceInv' /\ LeakInv'
  <2>1. \A s : Start(s)' = Start(s) /\ Length(s)' = Length(s) /\ SectorsOf(s)' = SectorsOf(s)
    BY SameInodes, Zenon
  <2>2. Allocated' = Allocated
    BY Zenon DEF Allocated
  <2> QED BY <1>1, <1>3, <1>4, <2>1, <2>2, Zenon DEF IInv, SpaceInv, LeakInv
<1> QED BY <1>2, <1>3, <1>5, <1>6, Zenon DEF IInv

\* free_map_allocate() gives the new inode a sector that nobody has.
LEMMA AllocInodeInv == ASSUME Counting, IInv, create_alloc_inode PROVE IInv'
<1> USE DEF create_alloc_inode
<1> DEFINE x == free_map_allocate(1).sector
           m == free_map_allocate(1).map
<1>1. op.pc = "alloc_inode" /\ op \in CreateOp
  BY OpTypes, Zenon DEF IInv
<1>2. free_map \in Bits /\ Bits = [0 .. (SectorCnt - 1) -> BOOLEAN] /\ SectorCnt \in Nat \ {0} /\ 1 \in Nat
  BY FileSysAssumption, Zenon DEF IInv, TypeOK, Bits, Sectors
<1>3. /\ m \in Bits
      /\ x = BITMAP_ERROR => m = free_map
      /\ x # BITMAP_ERROR => /\ x \in Sectors /\ ~free_map[x]
                             /\ \A y \in Sectors : m[y] <=> free_map[y] \/ y \in {x}
  <2>1. x = bitmap_scan(free_map, 0, 1, FALSE) /\ m = bitmap_scan_and_flip(free_map, 0, 1, FALSE)
    BY Zenon DEF free_map_allocate
  <2>2. \A i \in Int : Group(i, 1) = {i}
    BY DEF Group
  <2> HIDE DEF x, m
  <2>3. \/ x = BITMAP_ERROR
        \/ /\ x \in 0 .. (SectorCnt - 1) /\ x # BITMAP_ERROR
           /\ \A y \in Group(x, 1) : ~free_map[y]
    BY <1>2, <2>1, ScanFacts, Zenon
  <2>4. /\ m \in Bits
        /\ x = BITMAP_ERROR => m = free_map
        /\ x # BITMAP_ERROR => \A y \in 0 .. (SectorCnt - 1) : m[y] <=> free_map[y] \/ y \in Group(x, 1)
    BY <1>2, <2>1, FlipFacts, Zenon
  <2> QED BY <2>2, <2>3, <2>4 DEF Sectors
<1>4. \/ /\ x # BITMAP_ERROR /\ free_map' = m /\ disk' = [disk EXCEPT !.map = m]
         /\ op' = [op EXCEPT !.pc = "alloc_data", !.sector = x]
      \/ free_map' = free_map /\ disk' = disk /\ op' = Idle
  BY Zenon
<1> HIDE DEF x, m, create_alloc_inode
<1>5. UNCHANGED <<open_inodes, file, leaky, crashes, ops>>
  BY Zenon DEF create_alloc_inode
<1>6. disk'.inode = disk.inode /\ disk'.dir = disk.dir /\ disk'.data = disk.data
  BY <1>4, Zenon DEF IInv, TypeOK
<1>7. \/ /\ op' \in CreateOp /\ op'.pc = "alloc_data" /\ op'.sector = x /\ op'.i = op.i
         /\ x # BITMAP_ERROR /\ free_map' = m /\ disk'.map = m
      \/ op' = Idle /\ op'.pc = "idle" /\ free_map' = free_map /\ disk'.map = disk.map
  <2>1. CASE /\ x # BITMAP_ERROR /\ free_map' = m /\ disk' = [disk EXCEPT !.map = m]
             /\ op' = [op EXCEPT !.pc = "alloc_data", !.sector = x]
    <3>1. disk'.map = m
      BY <2>1, Zenon DEF IInv, TypeOK
    <3> QED BY <1>1, <1>3, <2>1, <3>1, Zenon DEF CreateOp
  <2>2. CASE free_map' = free_map /\ disk' = disk /\ op' = Idle
    BY <2>2, Zenon DEF Idle
  <2> QED BY <1>4, <2>1, <2>2, Zenon
<1>8. TypeOK'
  <2>1. op' \in {Idle} \union CreateOp
    BY <1>7, Zenon
  <2> QED BY <1>3, <1>4, <1>5, <2>1, Zenon DEF IInv, TypeOK
<1>9. OpenInv' /\ LiveInodes' = LiveInodes /\ DirInv'
  BY <1>1, <1>5, <1>6, <1>7, SameOpen, SameDirInv, Zenon DEF IInv
<1>10. Claimed = {} /\ Claimed' = IF op'.pc = "idle" THEN {} ELSE {x}
  BY <1>1, <1>7, Zenon DEF Claimed
<1>11. PICK G : G = IF op'.pc = "idle" THEN {} ELSE {x}
  BY Zenon
<1>12. /\ G \in SUBSET Sectors /\ \A y \in G : ~free_map[y]
       /\ \A y \in Sectors : free_map'[y] <=> free_map[y] \/ y \in G
       /\ Claimed' = Claimed \union G /\ op'.pc \notin {"release", "inode", "zero", "dir_add"}
       /\ free_map' \in Bits
  BY <1>2, <1>3, <1>7, <1>10, <1>11, Zenon
<1>13. SpaceInv' /\ LeakInv' /\ MapInv'
  <2>1. \A s : Start(s)' = Start(s) /\ Length(s)' = Length(s) /\ SectorsOf(s)' = SectorsOf(s)
    BY <1>6, SameInodes, Zenon
  <2>2. \A y \in Sectors : free_map'[y] => disk'.map[y]
    BY <1>7, Zenon DEF IInv, MapInv
  <2> QED BY <1>5, <1>6, <1>9, <1>12, <2>1, <2>2, TakeSectors, Zenon DEF SpaceInv, MapInv
<1>14. OpInv'
  BY <1>1, <1>7, Zenon DEF IInv, OpInv
<1> QED BY <1>8, <1>9, <1>13, <1>14, Zenon DEF IInv

\* free_map_allocate() gives the data of the new file sectors that nobody has.
LEMMA AllocDataInv == ASSUME Counting, IInv, create_alloc_data PROVE IInv'
<1> DEFINE x == free_map_allocate(op.length).sector
           m == free_map_allocate(op.length).map
<1>1. op.pc = "alloc_data" /\ op \in CreateOp /\ op.length \in Nat /\ op.sector \in Sectors /\ op.i = 0
  BY OpTypes, FileSysAssumption, Zenon DEF create_alloc_data, IInv, CreateOp, OpInv
<1>2. free_map \in Bits /\ Bits = [0 .. (SectorCnt - 1) -> BOOLEAN] /\ SectorCnt \in Nat \ {0}
  BY FileSysAssumption, Zenon DEF IInv, TypeOK, Bits, Sectors
<1>3. /\ m \in Bits
      /\ x = BITMAP_ERROR => m = free_map
      /\ x # BITMAP_ERROR => /\ x \in Sectors /\ Group(x, op.length) \subseteq Sectors
                             /\ \A y \in Group(x, op.length) : ~free_map[y]
                             /\ \A y \in Sectors : m[y] <=> free_map[y] \/ y \in Group(x, op.length)
  <2>1. /\ x = bitmap_scan(free_map, 0, op.length, FALSE)
        /\ m = bitmap_scan_and_flip(free_map, 0, op.length, FALSE)
    BY Zenon DEF free_map_allocate
  <2> HIDE DEF x, m
  <2>2. PICK len \in Nat : len = op.length
    BY <1>1, Zenon
  <2>3. \/ x = BITMAP_ERROR
        \/ /\ x \in 0 .. (SectorCnt - 1) /\ x # BITMAP_ERROR
           /\ Group(x, len) \subseteq 0 .. (SectorCnt - 1)
           /\ \A y \in Group(x, len) : ~free_map[y]
    BY <1>2, <2>1, <2>2, ScanFacts, Zenon
  <2>4. /\ m \in Bits
        /\ x = BITMAP_ERROR => m = free_map
        /\ x # BITMAP_ERROR => \A y \in 0 .. (SectorCnt - 1) : m[y] <=> free_map[y] \/ y \in Group(x, len)
    BY <1>2, <2>1, <2>2, FlipFacts, Zenon
  <2> QED BY <2>2, <2>3, <2>4, Zenon DEF Sectors
<1>4. \/ /\ x # BITMAP_ERROR /\ free_map' = m /\ disk' = [disk EXCEPT !.map = m]
         /\ op' = [op EXCEPT !.pc = "inode", !.start = x]
      \/ free_map' = free_map /\ disk' = disk /\ op' = [op EXCEPT !.pc = "undo"]
  BY Zenon DEF create_alloc_data
<1> HIDE DEF x, m
<1>5. UNCHANGED <<open_inodes, file, leaky, crashes, ops>>
  BY Zenon DEF create_alloc_data
<1>6. /\ disk'.inode = disk.inode /\ disk'.dir = disk.dir /\ disk'.data = disk.data
      /\ \A y \in Sectors : free_map'[y] => disk'.map[y]
  BY <1>4, Zenon DEF IInv, TypeOK, MapInv
<1>7. PICK G : G = IF op'.pc = "undo" THEN {} ELSE Group(x, op.length)
  BY Zenon
<1>8. /\ op' \in CreateOp /\ op'.pc \in {"inode", "undo"} /\ op'.sector = op.sector /\ op'.i = op.i
      /\ op'.length = op.length
      /\ op'.pc = "inode" => op'.start = x /\ x # BITMAP_ERROR /\ free_map' = m
      /\ op'.pc = "undo" => free_map' = free_map
  <2>1. CASE /\ x # BITMAP_ERROR /\ free_map' = m
             /\ op' = [op EXCEPT !.pc = "inode", !.start = x]
    <3>1. x \in Sectors
      BY <1>3, <2>1, Zenon
    <3> QED BY <1>1, <2>1, <3>1, Zenon DEF CreateOp
  <2>2. CASE free_map' = free_map /\ op' = [op EXCEPT !.pc = "undo"]
    BY <1>1, <2>2, Zenon DEF CreateOp
  <2> QED BY <1>4, <2>1, <2>2, Zenon
<1>9. TypeOK'
  <2>1. free_map' \in Bits /\ disk' \in {[disk EXCEPT !.map = free_map'], disk}
    BY <1>2, <1>3, <1>4, Zenon
  <2> QED BY <1>5, <1>8, <2>1, Zenon DEF IInv, TypeOK
<1>10. OpenInv' /\ LiveInodes' = LiveInodes /\ DirInv'
  BY <1>1, <1>5, <1>6, <1>8, SameOpen, SameDirInv, Zenon DEF IInv
<1>11. Claimed = {op.sector} /\ Claimed' = {op.sector} \union G
  BY <1>1, <1>7, <1>8, Zenon DEF Claimed
<1>12. /\ G \in SUBSET Sectors /\ \A y \in G : ~free_map[y]
       /\ \A y \in Sectors : free_map'[y] <=> free_map[y] \/ y \in G
       /\ free_map' \in Bits
  BY <1>2, <1>3, <1>7, <1>8, Zenon
<1>13. op'.pc = "inode" => op'.sector \notin Group(op'.start, op'.length)
  <2>1. free_map[op.sector]
    BY <1>11, Zenon DEF IInv, SpaceInv, Allocated
  <2> QED BY <1>3, <1>8, <2>1, Zenon
<1>14. SpaceInv' /\ LeakInv' /\ MapInv'
  <2>1. \A s : Start(s)' = Start(s) /\ Length(s)' = Length(s) /\ SectorsOf(s)' = SectorsOf(s)
    BY <1>6, SameInodes, Zenon
  <2>2. Claimed' = Claimed \union G
    BY <1>11, Zenon
  <2> QED BY <1>5, <1>6, <1>8, <1>10, <1>12, <1>13, <2>1, <2>2, TakeSectors, Zenon
     DEF SpaceInv, MapInv
<1>15. OpInv'
  BY <1>1, <1>8, Zenon DEF IInv, OpInv
<1> QED BY <1>9, <1>10, <1>14, <1>15, Zenon DEF IInv

\* The sector of the new file's inode is no other file's.
LEMMA NewSector ==
  ASSUME IInv, op.pc \in {"alloc_data", "inode", "zero", "dir_add", "undo"}
  PROVE  op.sector \notin LiveInodes /\ \A s \in LiveInodes : op.sector \notin SectorsOf(s)
<1>1. op.sector \in Claimed
  BY Zenon DEF Claimed
<1> QED BY <1>1, OwnSector, Zenon DEF IInv, SpaceInv

\* inode_create() writes an inode that no name leads to yet.
LEMMA WriteInodeInv == ASSUME IInv, create_inode PROVE IInv'
<1>1. op.pc = "inode" /\ op \in CreateOp /\ op.length \in Nat /\ op.sector \in Sectors /\ op.i = 0
  BY OpTypes, FileSysAssumption, Zenon DEF create_inode, IInv, CreateOp, OpInv
<1>2. /\ disk' = [disk EXCEPT !.inode[op.sector] = [start |-> op.start, length |-> op.length]]
      /\ op' = [op EXCEPT !.pc = "zero"]
      /\ UNCHANGED <<free_map, open_inodes, file, leaky, crashes, ops>>
  BY Zenon DEF create_inode
<1>3. /\ disk'.map = disk.map /\ disk'.dir = disk.dir /\ disk'.data = disk.data
      /\ disk'.inode = [disk.inode EXCEPT ![op.sector] = [start |-> op.start, length |-> op.length]]
  BY <1>2, Zenon DEF IInv, TypeOK
<1>4. /\ op' \in CreateOp /\ op'.pc = "zero" /\ op'.sector = op.sector /\ op'.start = op.start
      /\ op'.length = op.length /\ op'.i = op.i
  BY <1>1, <1>2, Zenon DEF CreateOp
<1>5. [start |-> op.start, length |-> op.length] \in [start : Sectors, length : Int]
  BY <1>1 DEF CreateOp
<1>6. TypeOK'
  BY <1>1, <1>2, <1>4, <1>5, Zenon DEF IInv, TypeOK
<1>7. OpenInv' /\ LiveInodes' = LiveInodes /\ DirInv'
  BY <1>1, <1>2, <1>3, <1>4, SameOpen, SameDirInv, Zenon DEF IInv
<1>8. \A s \in LiveInodes : Start(s)' = Start(s) /\ Length(s)' = Length(s) /\ SectorsOf(s)' = SectorsOf(s)
  <2> TAKE s \in LiveInodes
  <2>1. s # op.sector
    BY <1>1, NewSector, Zenon
  <2>2. disk'.inode[s] = disk.inode[s]
    BY <1>3, <2>1 DEF IInv, TypeOK
  <2> QED BY <2>2, Zenon DEF Start, Length, SectorsOf
<1>9. Claimed' = Claimed
  BY <1>1, <1>4, Zenon DEF Claimed
<1>10. Allocated' = Allocated /\ MapInv'
  BY <1>2, <1>3, Zenon DEF Allocated, IInv, MapInv
<1>11. SpaceInv' /\ LeakInv'
  BY <1>1, <1>2, <1>4, <1>7, <1>8, <1>9, <1>10 DEF IInv, SpaceInv, LeakInv
<1>12. OpInv'
  <2>1. disk'.inode[op'.sector] = [start |-> op'.start, length |-> op'.length]
    BY <1>1, <1>3, <1>4 DEF IInv, TypeOK
  <2> QED BY <1>1, <1>4, <2>1 DEF OpInv
<1> QED BY <1>6, <1>7, <1>10, <1>11, <1>12, Zenon DEF IInv

\* inode_create() fills the new sectors with zeros, one by one.
LEMMA ZeroInv == ASSUME IInv, create_zero PROVE IInv'
<1>1. op.pc = "zero" /\ op \in CreateOp /\ op.length \in Nat /\ op.sector \in Sectors /\ op.start \in Nat /\ op.i \in Nat
  BY OpTypes, FileSysAssumption DEF create_zero, IInv, CreateOp, Sectors
<1>2. UNCHANGED <<free_map, open_inodes, file, leaky, crashes, ops>>
  BY Zenon DEF create_zero
<1>3. /\ op' \in CreateOp /\ op'.pc \in {"zero", "dir_add"} /\ op'.sector = op.sector /\ op'.start = op.start
      /\ op'.length = op.length
  BY <1>1 DEF create_zero, CreateOp
<1>4. \/ /\ op.i < op.length /\ disk' = [disk EXCEPT !.data[op.start + op.i] = 0]
         /\ op'.pc = "zero" /\ op'.i = op.i + 1
      \/ /\ ~(op.i < op.length) /\ disk' = disk /\ op'.pc = "dir_add" /\ op'.i = op.i
  BY <1>1, Zenon DEF create_zero, CreateOp
<1>5. disk'.map = disk.map /\ disk'.dir = disk.dir /\ disk'.inode = disk.inode
  BY <1>4, Zenon DEF IInv, TypeOK
<1>6. op.i < op.length => op.start + op.i \in Sectors
  <2>1. op.i < op.length => op.start + op.i \in Group(op.start, op.length)
    BY <1>1 DEF Group
  <2> QED BY <1>1, <2>1, Zenon DEF IInv, SpaceInv, Claimed, Allocated
<1>7. TypeOK'
  BY <1>2, <1>3, <1>4, <1>6, FileSysAssumption DEF IInv, TypeOK
<1>8. OpenInv' /\ LiveInodes' = LiveInodes /\ DirInv'
  BY <1>1, <1>2, <1>3, <1>5, SameOpen, SameDirInv, Zenon DEF IInv
<1>9. \A s : Start(s)' = Start(s) /\ Length(s)' = Length(s) /\ SectorsOf(s)' = SectorsOf(s)
  BY <1>5, SameInodes, Zenon
<1>10. Claimed' = Claimed
  BY <1>1, <1>3, Zenon DEF Claimed
<1>11. Allocated' = Allocated /\ MapInv'
  BY <1>2, <1>5, Zenon DEF Allocated, IInv, MapInv
<1>12. SpaceInv' /\ LeakInv'
  BY <1>1, <1>2, <1>3, <1>8, <1>9, <1>10, <1>11, Zenon DEF IInv, SpaceInv, LeakInv
<1>13. OpInv'
  <2>1. disk.inode[op.sector] = [start |-> op.start, length |-> op.length]
    BY <1>1, Zenon DEF IInv, OpInv
  <2>2. op.i <= op.length /\ \A k \in 0 .. (op.i - 1) : disk.data[op.start + k] = 0
    BY <1>1, Zenon DEF IInv, OpInv
  <2>3. disk.data \in [Sectors -> Values]
    BY Zenon DEF IInv, TypeOK
  <2>4. \A k \in 0 .. (op'.i - 1) : disk'.data[op.start + k] = 0
    <3>1. CASE op.i < op.length
      <4>1. disk'.data = [disk.data EXCEPT ![op.start + op.i] = 0] /\ op'.i = op.i + 1
        BY <3>1, <1>4, Zenon DEF IInv, TypeOK
      <4> SUFFICES ASSUME NEW k \in 0 .. op.i PROVE disk'.data[op.start + k] = 0
        BY <1>1, <4>1
      <4>2. CASE k = op.i
        BY <3>1, <4>1, <4>2, <1>6, <2>3, Zenon
      <4>3. CASE k # op.i
        <5>1. k \in 0 .. (op.i - 1) /\ op.start + k # op.start + op.i
          BY <4>3, <1>1
        <5>2. disk.data[op.start + k] = 0
          BY <5>1, <2>2, Zenon
        <5> QED BY <4>1, <5>1, <5>2, <2>3
      <4> QED BY <4>2, <4>3, Zenon
    <3>2. CASE ~(op.i < op.length)
      BY <3>2, <1>4, <2>2, Zenon
    <3> QED BY <3>1, <3>2, Zenon
  <2>5. op'.pc = "zero" => op'.i <= op'.length
    BY <1>1, <1>3, <1>4
  <2>6. op'.pc = "dir_add" => op'.i = op'.length
    BY <1>1, <1>3, <1>4, <2>2
  <2> QED BY <1>3, <1>5, <2>1, <2>4, <2>5, <2>6, Zenon DEF OpInv
<1> QED BY <1>7, <1>8, <1>11, <1>12, <1>13, Zenon DEF IInv

\* The slot dir_add() takes is not in use.
LEMMA FreeSlotFacts ==
  ASSUME Counting, FreeSlots # {}
  PROVE  Lowest(FreeSlots) \in 1 .. EntryCnt /\ ~disk.dir[Lowest(FreeSlots)].in_use
<1>1. FreeSlots \in SUBSET Nat
  BY DEF FreeSlots
<1>2. \E i \in FreeSlots : \A j \in FreeSlots : i <= j
  BY <1>1, Zenon DEF Counting
<1>3. Lowest(FreeSlots) \in FreeSlots
  BY <1>2, Zenon DEF Lowest
<1> QED BY <1>3, Zenon DEF FreeSlots

\* A name in the directory is found at the one entry that has it.
LEMMA LookupFacts ==
  ASSUME Counting, TypeOK, DirInv, NEW n, Slots(n) # {}
  PROVE  /\ lookup(n) \in Entries /\ disk.dir[lookup(n)].name = n
         /\ disk.dir[lookup(n)].inode_sector \in InodesInUse
         /\ disk.dir[lookup(n)].inode_sector \in Sectors
<1>1. Slots(n) \in SUBSET Nat
  BY DEF Slots
<1>2. \E i \in Slots(n) : \A j \in Slots(n) : i <= j
  BY <1>1, Zenon DEF Counting
<1>3. lookup(n) \in Slots(n)
  BY <1>2, Zenon DEF Lowest, lookup
<1> HIDE DEF lookup
<1> QED BY <1>3, Zenon DEF Slots, Entries, InodesInUse, TypeOK

\* dir_add() binds a name that was free to the new inode, whose sectors become those of a file.
LEMMA DirAddInv == ASSUME Counting, IInv, dir_add PROVE IInv'
<1>1. op.pc = "dir_add" /\ op \in CreateOp /\ op.length \in Nat /\ op.sector \in Sectors
  BY OpTypes, FileSysAssumption, Zenon DEF dir_add, IInv, CreateOp
<1>2. UNCHANGED <<free_map, open_inodes, file, crashes, ops>>
  BY Zenon DEF dir_add
<1>3. op.sector \notin LiveInodes /\ \A s \in LiveInodes : op.sector \notin SectorsOf(s)
  BY <1>1, NewSector, Zenon
<1>4. CASE op' = [op EXCEPT !.pc = "undo"] /\ leaky' = TRUE /\ disk' = disk
  <2>1. op' = [op EXCEPT !.pc = "undo"] /\ leaky' = TRUE /\ disk' = disk
    BY <1>4, Zenon
  <2>2. op' \in CreateOp /\ op'.pc = "undo" /\ op'.sector = op.sector
    BY <1>1, <2>1, Zenon DEF CreateOp
  <2>3. TypeOK'
    BY <1>2, <2>1, <2>2, Zenon DEF IInv, TypeOK
  <2>4. OpenInv' /\ LiveInodes' = LiveInodes /\ DirInv'
    BY <1>1, <1>2, <2>1, <2>2, SameOpen, SameDirInv, Zenon DEF IInv
  <2>5. \A s : Start(s)' = Start(s) /\ Length(s)' = Length(s) /\ SectorsOf(s)' = SectorsOf(s)
    BY <2>1, SameInodes, Zenon
  <2>6. Claimed' \subseteq Claimed
    BY <1>1, <2>2, Zenon DEF Claimed
  <2>7. Allocated' = Allocated /\ MapInv'
    BY <1>2, <2>1, Zenon DEF Allocated, IInv, MapInv
  <2>8. SpaceInv' /\ LeakInv'
    BY <2>1, <2>2, <2>4, <2>5, <2>6, <2>7, Zenon DEF IInv, SpaceInv, LeakInv
  <2>9. OpInv'
    BY <2>2, Zenon DEF OpInv
  <2> QED BY <2>3, <2>4, <2>7, <2>8, <2>9, Zenon DEF IInv
<1>5. CASE /\ op.name \notin BadNames /\ Slots(op.name) = {} /\ FreeSlots # {}
           /\ disk' = [disk EXCEPT !.dir[Lowest(FreeSlots)] =
                         [in_use |-> TRUE, name |-> op.name, inode_sector |-> op.sector]]
           /\ op' = Idle /\ leaky' = leaky
  <2> DEFINE k == Lowest(FreeSlots)
             e == [in_use |-> TRUE, name |-> op.name, inode_sector |-> op.sector]
  <2>1. k \in 1 .. EntryCnt /\ ~disk.dir[k].in_use
    BY <1>5, FreeSlotFacts, Zenon
  <2>2. disk' = [disk EXCEPT !.dir[k] = e] /\ op' = Idle /\ leaky' = leaky
    BY <1>5, Zenon
  <2> HIDE DEF k
  <2>3. e \in [in_use : BOOLEAN, name : Names \union BadNames \union {NONE}, inode_sector : Sectors]
    BY <1>1, Zenon DEF CreateOp
  <2>4. TypeOK'
    BY <1>2, <2>1, <2>2, <2>3, Zenon DEF IInv, TypeOK
  <2>5. /\ disk'.map = disk.map /\ disk'.inode = disk.inode /\ disk'.data = disk.data
        /\ disk'.dir = [disk.dir EXCEPT ![k] = e]
    BY <2>2, Zenon DEF IInv, TypeOK
  <2>6. /\ disk'.dir[k] = e
        /\ \A j \in 1 .. EntryCnt : j # k => disk'.dir[j] = disk.dir[j]
    BY <2>1, <2>5, Zenon DEF IInv, TypeOK
  <2>7. k \notin Entries /\ Entries' = Entries \union {k}
    BY <2>1, <2>6 DEF Entries
  <2>8. \A j \in Entries : disk'.dir[j] = disk.dir[j]
    BY <2>6, <2>7, Zenon DEF Entries
  <2>9. InodesInUse' = InodesInUse \union {op.sector}
    BY <2>6, <2>7, <2>8 DEF InodesInUse
  <2>10. OpenInodes' = OpenInodes
    BY <1>2, Zenon DEF OpenInodes
  <2>11. LiveInodes' = LiveInodes \union {op.sector}
    BY <2>9, <2>10, Zenon DEF LiveInodes
  <2>12. \A s : Start(s)' = Start(s) /\ Length(s)' = Length(s) /\ SectorsOf(s)' = SectorsOf(s)
    BY <2>5, SameInodes, Zenon
  <2>13. Start(op.sector) = op.start /\ Length(op.sector) = op.length /\ SectorsOf(op.sector) = Claimed
    <3>1. disk.inode[op.sector] = [start |-> op.start, length |-> op.length]
      BY <1>1, Zenon DEF IInv, OpInv
    <3> QED BY <1>1, <3>1 DEF Start, Length, SectorsOf, Claimed
  <2>14. op'.pc = "idle" /\ Claimed' = {}
    BY <2>2, Zenon DEF Claimed, Idle
  <2>15. Allocated' = Allocated /\ MapInv'
    BY <1>2, <2>5, Zenon DEF Allocated, IInv, MapInv
  <2>16. SpaceInv'
    <3>1. op.sector \notin Group(op.start, op.length)
      BY <1>1, Zenon DEF IInv, SpaceInv
    <3>2. SpaceInv
      BY Zenon DEF IInv
    <3> QED BY <1>1, <3>1, <3>2, <2>11, <2>12, <2>13, <2>14, <2>15, Zenon DEF SpaceInv
  <2>17. LeakInv'
    BY <2>2, <2>11, <2>12, <2>13, <2>14, <2>15, Zenon DEF IInv, LeakInv
  <2>18. DirInv'
    <3>1. op.name \in Names /\ \A j \in Entries : disk.dir[j].name # op.name
      BY <1>1, <1>5, Zenon DEF CreateOp, Slots, Entries
    <3>2. \A j \in Entries : disk.dir[j].inode_sector # op.sector
      BY <1>3, Zenon DEF LiveInodes, InodesInUse
    <3> QED BY <3>1, <3>2, <2>6, <2>7, <2>8 DEF IInv, DirInv
  <2>19. OpenInv'
    <3>1. \A s : HandlesOn(s)' = HandlesOn(s) /\ Denying(s)' = Denying(s) /\ ~Erasing(s) /\ ~Erasing(s)'
      BY <1>1, <1>2, <2>14, Zenon DEF HandlesOn, Denying, Erasing
    <3>2. \A i \in DOMAIN open_inodes : open_inodes[i].sector # op.sector
      BY <1>3, Zenon DEF LiveInodes, OpenInodes
    <3>3. \A n \in Elems(open_inodes) : n.sector # op.sector
      BY <3>2, Zenon DEF Elems
    <3>4. Elems(open_inodes)' = Elems(open_inodes)
      BY <1>2, Zenon DEF Elems
    <3>5. \A n \in Elems(open_inodes) : Counted(n) => Counted(n)'
      BY <2>9, <3>1, <3>3, Zenon DEF Counted
    <3> QED BY <1>2, <2>9, <2>10, <2>14, <3>4, <3>5, Zenon DEF IInv, OpenInv
  <2>20. OpInv'
    BY <2>14, Zenon DEF OpInv
  <2> QED BY <2>4, <2>15, <2>16, <2>17, <2>18, <2>19, <2>20, Zenon DEF IInv
<1> QED BY <1>4, <1>5, Zenon DEF dir_add

\* Bits of the operation in progress that are given back are no file's.
LEMMA GiveSectors ==
  ASSUME IInv, disk'.inode = disk.inode, LiveInodes' = LiveInodes,
         NEW G \in SUBSET Claimed,
         \A x \in Sectors : free_map'[x] <=> free_map[x] /\ x \notin G,
         Claimed' = Claimed \ G, leaky' = leaky
  PROVE  /\ \A s \in LiveInodes' : /\ Length(s)' \in Nat /\ SectorsOf(s)' \subseteq Allocated'
                                   /\ s \notin Group(Start(s)', Length(s)')
                                   /\ SectorsOf(s)' \intersect Claimed' = {}
         /\ \A s, t \in LiveInodes' : s # t => SectorsOf(s)' \intersect SectorsOf(t)' = {}
         /\ Claimed' \subseteq Allocated'
         /\ \A x \in Sectors : FormattedMap[x] => free_map'[x]
         /\ LeakInv'
<1>1. \A s : Start(s)' = Start(s) /\ Length(s)' = Length(s) /\ SectorsOf(s)' = SectorsOf(s)
  BY SameInodes, Zenon
<1>2. \A x \in Sectors : FormattedMap[x] => free_map[x]
  BY Zenon DEF IInv, MapInv
<1>3. Allocated' = Allocated \ G
  BY <1>2, Zenon DEF Allocated
<1>4. SpaceInv /\ LeakInv
  BY Zenon DEF IInv
<1>5. \A x \in Sectors : FormattedMap[x] => free_map'[x]
  BY <1>2, <1>4, Zenon DEF SpaceInv, Allocated
<1> QED BY <1>1, <1>3, <1>4, <1>5, Zenon DEF SpaceInv, LeakInv

\* filesys_create() gives back the sector of an inode that got no name.
LEMMA UndoInv == ASSUME IInv, create_undo PROVE IInv'
<1>1. op.pc = "undo" /\ op \in CreateOp /\ op.sector \in Sectors
  BY OpTypes, Zenon DEF create_undo, IInv, CreateOp
<1>2. /\ free_map' = bitmap_set_multiple(free_map, op.sector, 1, FALSE)
      /\ disk' \in {[disk EXCEPT !.map = free_map'], disk} /\ op' = Idle
      /\ UNCHANGED <<open_inodes, file, leaky, crashes, ops>>
  BY Zenon DEF create_undo, bitmap_write
<1>3. Group(op.sector, 1) = {op.sector}
  BY <1>1 DEF Group, Sectors
<1>4. free_map' \in Bits /\ \A x \in Sectors : free_map'[x] <=> free_map[x] /\ x \notin {op.sector}
  BY <1>2, <1>3, Zenon DEF bitmap_set_multiple, Bits, IInv, TypeOK
<1>5. /\ disk'.inode = disk.inode /\ disk'.dir = disk.dir /\ op'.pc = "idle"
      /\ \A x \in Sectors : free_map'[x] => disk'.map[x]
  BY <1>2, <1>4, Zenon DEF IInv, TypeOK, MapInv, Idle
<1>6. TypeOK'
  BY <1>2, <1>4, Zenon DEF IInv, TypeOK
<1>7. OpenInv' /\ LiveInodes' = LiveInodes /\ DirInv'
  BY <1>1, <1>2, <1>5, SameOpen, SameDirInv, Zenon DEF IInv
<1>8. Claimed = {op.sector} /\ Claimed' = {}
  BY <1>1, <1>5, Zenon DEF Claimed
<1>9. PICK G : G = {op.sector}
  BY Zenon
<1>10. G \in SUBSET Claimed /\ Claimed' = Claimed \ G
  BY <1>8, <1>9, Zenon
<1>11. \A x \in Sectors : free_map'[x] <=> free_map[x] /\ x \notin G
  BY <1>4, <1>9, Zenon
<1>12. SpaceInv' /\ LeakInv' /\ MapInv'
  <2>1. \A s : Start(s)' = Start(s) /\ Length(s)' = Length(s) /\ SectorsOf(s)' = SectorsOf(s)
    BY <1>5, SameInodes, Zenon
  <2> QED BY <1>2, <1>5, <1>7, <1>10, <1>11, <2>1, GiveSectors, Zenon DEF SpaceInv, MapInv
<1>13. OpInv'
  BY <1>5, Zenon DEF OpInv
<1> QED BY <1>6, <1>7, <1>12, <1>13, Zenon DEF IInv

\* inode_close() gives back the sectors of a removed file, which nobody else has.
LEMMA ReleaseInv == ASSUME IInv, release PROVE IInv'
<1>0. PICK s : s = op.sector
  OBVIOUS
<1> DEFINE at == IF op.left = 2 THEN s ELSE Start(s)
           cnt == IF op.left = 2 THEN 1 ELSE Length(s)
<1>1. op.pc = "release" /\ op \in ReleaseOp /\ s \in Sectors /\ op.left \in {1, 2}
  BY <1>0, OpTypes, Zenon DEF release, IInv, ReleaseOp
<1>2. /\ free_map' = bitmap_set_multiple(free_map, at, cnt, FALSE)
      /\ disk' \in {[disk EXCEPT !.map = free_map'], disk}
      /\ op' = IF op.left = 2 THEN [op EXCEPT !.left = 1] ELSE Idle
      /\ UNCHANGED <<open_inodes, file, leaky, crashes, ops>>
  BY <1>0, Zenon DEF release, bitmap_write
<1>3. PICK G : G = Group(at, cnt)
  OBVIOUS
<1>4. G = IF op.left = 2 THEN {s} ELSE Group(Start(s), Length(s))
  <2>1. Group(s, 1) = {s}
    BY <1>1 DEF Group, Sectors
  <2> QED BY <1>3, <2>1, Zenon
<1>5. free_map' \in Bits /\ \A x \in Sectors : free_map'[x] <=> free_map[x] /\ x \notin G
  BY <1>2, <1>3, Zenon DEF bitmap_set_multiple, Bits, IInv, TypeOK
<1>6. /\ disk'.inode = disk.inode /\ disk'.dir = disk.dir
      /\ \A x \in Sectors : free_map'[x] => disk'.map[x]
  BY <1>2, <1>5, Zenon DEF IInv, TypeOK, MapInv
<1>7. /\ op.left = 2 => op' \in ReleaseOp /\ op'.pc = "release" /\ op'.sector = s /\ op'.left = 1
      /\ op.left # 2 => op' = Idle /\ op'.pc = "idle"
  BY <1>0, <1>1, <1>2, Zenon DEF ReleaseOp, Idle
<1>8. TypeOK'
  BY <1>2, <1>5, <1>7, Zenon DEF IInv, TypeOK
<1>9. OpenInv' /\ LiveInodes' = LiveInodes /\ DirInv'
  BY <1>1, <1>2, <1>6, <1>7, SameOpen, SameDirInv, Zenon DEF IInv
<1>10. \A t : Start(t)' = Start(t) /\ Length(t)' = Length(t) /\ SectorsOf(t)' = SectorsOf(t)
  BY <1>6, SameInodes, Zenon
<1>11. s \notin Group(Start(s), Length(s)) /\ s \notin LiveInodes
  BY <1>0, <1>1, Zenon DEF IInv, SpaceInv
<1>12. Claimed = (IF op.left = 2 THEN {s} ELSE {}) \union Group(Start(s), Length(s))
  BY <1>0, <1>1, Zenon DEF Claimed
<1>13. Claimed' = IF op.left = 2 THEN Group(Start(s), Length(s)) ELSE {}
  <2>1. CASE op.left = 2
    <3>1. Claimed' = Group(Start(s)', Length(s)')
      BY <1>7, <2>1 DEF Claimed
    <3> QED BY <1>10, <2>1, <3>1, Zenon
  <2>2. CASE op.left # 2
    BY <1>7, <2>2, Zenon DEF Claimed
  <2> QED BY <2>1, <2>2, Zenon
<1>14. G \in SUBSET Claimed /\ Claimed' = Claimed \ G
  BY <1>1, <1>4, <1>11, <1>12, <1>13, Zenon
<1>15. SpaceInv' /\ LeakInv' /\ MapInv'
  <2>1. op'.pc = "release" => op'.sector = s
    BY <1>1, <1>7, Zenon
  <2>3. s \notin Group(Start(s)', Length(s)') /\ s \notin LiveInodes'
    BY <1>9, <1>10, <1>11, Zenon
  <2>2. op'.pc \notin {"inode", "zero", "dir_add"}
    BY <1>1, <1>7, Zenon
  <2> QED BY <1>2, <1>5, <1>6, <1>9, <1>10, <1>14, <2>1, <2>2, <2>3, GiveSectors, Zenon
     DEF SpaceInv, MapInv
<1>16. OpInv'
  BY <1>1, <1>7, Zenon DEF OpInv
<1> QED BY <1>8, <1>9, <1>15, <1>16, Zenon DEF IInv

-----------------------------------------------------------------------------
(* Open files *)

\* The handles are finitely many.
LEMMA HandleCounts ==
  ASSUME Counting
  PROVE  \A H \in SUBSET Handles :
           /\ Cardinality(H) \in Nat /\ ((Cardinality(H) = 0) <=> (H = {}))
           /\ \A h \in Handles \ H : Cardinality(H \union {h}) = Cardinality(H) + 1
BY Zenon DEF Counting

\* The handles on an inode, and those that deny writing to it, are handles.
LEMMA HandleSets ==
  \A s : HandlesOn(s) \in SUBSET Handles /\ Denying(s) \in SUBSET HandlesOn(s)
BY Zenon DEF HandlesOn, Denying

\* inode_close() at the end of a step: the inode stays on the list as long as
\* it has openers, and one that goes without a name leaves its sectors to
\* free_map_release().
LEMMA CloseInv ==
  ASSUME Counting, IInv, op.pc \in {"idle", "erase"}, NEW s \in OpenInodes,
         NEW L \in Seq(Inode), DOMAIN L = DOMAIN open_inodes,
         \A i \in DOMAIN L : L[i].sector = open_inodes[i].sector,
         CloseThen(L, s),
         \A n \in Elems(L) :
            /\ n.open_cnt > 0
            /\ n.open_cnt = Cardinality(HandlesOn(n.sector)') + (IF n.sector = s THEN 1 ELSE 0)
            /\ n.deny_write_cnt = Cardinality(Denying(n.sector)')
            /\ n.removed <=> n.sector \notin InodesInUse',
         InodesInUse' = InodesInUse \/ InodesInUse' = InodesInUse \ {s},
         \A h \in Handles : file'[h] # NONE => file'[h].sector \in OpenInodes,
         disk'.inode = disk.inode, disk'.map = disk.map, UNCHANGED <<free_map, leaky>>
  PROVE  /\ open_inodes' \in Seq(Inode) /\ op' \in {Idle} \union ReleaseOp
         /\ OpenInv' /\ SpaceInv' /\ LeakInv' /\ MapInv' /\ OpInv'
<1>1. PICK i \in DOMAIN L : L[i].sector = s
  BY DEF OpenInodes
<1>2. Distinct(L) /\ SectorsIn(L) = OpenInodes
  <2>1. Distinct(open_inodes)
    BY Zenon DEF IInv, OpenInv, Distinct
  <2>2. Distinct(L)
    BY <2>1, Zenon DEF Distinct
  <2>3. SectorsIn(L) = OpenInodes
    BY Zenon DEF SectorsIn, OpenInodes
  <2> QED BY <2>2, <2>3, Zenon
<1>0. \A k \in DOMAIN L : L[k] \in Elems(L) /\ L[k] \in Inode
  BY DEF Elems
<1>3. L[i].open_cnt > 0 /\ L[i] \in Inode /\ s \in Sectors
  <2>1. L[i] \in Inode
    OBVIOUS
  <2>2. L[i].sector \in Sectors
    BY <2>1, Zenon DEF Inode
  <2> QED BY <1>0, <1>1, <2>1, <2>2, Zenon
<1> DEFINE c == Closed(L, s)
<1>4. /\ c.inodes \in Seq(Inode) /\ Distinct(c.inodes)
      /\ L[i].open_cnt = 1 =>
           /\ c.release = L[i].removed
           /\ SectorsIn(c.inodes) = OpenInodes \ {s}
           /\ \A j \in DOMAIN c.inodes : \E k \in DOMAIN L : k # i /\ c.inodes[j] = L[k]
      /\ L[i].open_cnt # 1 =>
           /\ ~c.release
           /\ c.inodes = [L EXCEPT ![i] = [L[i] EXCEPT !.open_cnt = @ - 1]]
           /\ SectorsIn(c.inodes) = OpenInodes
  <2>1. LET d == Closed(L, L[i].sector)
        IN  /\ d.inodes \in Seq(Inode) /\ Distinct(d.inodes)
            /\ IF L[i].open_cnt = 1
               THEN /\ d.release = L[i].removed
                    /\ SectorsIn(d.inodes) = SectorsIn(L) \ {L[i].sector}
                    /\ \A j \in DOMAIN d.inodes : \E k \in DOMAIN L : k # i /\ d.inodes[j] = L[k]
               ELSE /\ ~d.release
                    /\ d.inodes = [L EXCEPT ![i] = [L[i] EXCEPT !.open_cnt = @ - 1]]
                    /\ SectorsIn(d.inodes) = SectorsIn(L)
    BY <1>2, <1>3, CloseList, Zenon
  <2>2. c = Closed(L, L[i].sector)
    BY <1>1, Zenon
  <2> HIDE DEF c
  <2> QED BY <1>1, <1>2, <2>1, <2>2, Zenon
<1>5. open_inodes' = c.inodes /\ op' = IF c.release THEN [pc |-> "release", sector |-> s, left |-> 2] ELSE Idle
  BY Zenon DEF CloseThen
<1> HIDE DEF c
<1>6. op' \in {Idle} \union ReleaseOp
  BY <1>3, <1>5, Zenon DEF ReleaseOp
<1>7. ~c.release => op'.pc = "idle"
  BY <1>5, Zenon DEF Idle
<1>8. c.release => op'.pc = "release" /\ op'.sector = s /\ op'.left = 2
  BY <1>5, Zenon
<1>9. OpenInodes' = SectorsIn(c.inodes)
  BY <1>5, Zenon DEF OpenInodes, SectorsIn
<1>10. s \in LiveInodes
  BY Zenon DEF LiveInodes
<1>11. /\ c.release => LiveInodes' = LiveInodes \ {s}
       /\ ~c.release => LiveInodes' = LiveInodes
  <2>1. L[i].removed <=> s \notin InodesInUse'
    BY <1>0, <1>1, Zenon
  <2>2. CASE L[i].open_cnt = 1
    BY <1>4, <1>9, <2>1, <2>2 DEF LiveInodes
  <2>3. CASE L[i].open_cnt # 1
    BY <1>4, <1>9, <2>3 DEF LiveInodes
  <2> QED BY <2>2, <2>3, Zenon
<1>12. \A t : Start(t)' = Start(t) /\ Length(t)' = Length(t) /\ SectorsOf(t)' = SectorsOf(t)
  BY SameInodes, Zenon
<1>13. Claimed = {}
  BY Zenon DEF Claimed
<1>14. Claimed' = IF c.release THEN SectorsOf(s) ELSE {}
  <2>1. CASE c.release
    <3>1. Claimed' = {s} \union Group(Start(s)', Length(s)')
      BY <1>8, <2>1, Zenon DEF Claimed
    <3> QED BY <1>12, <2>1, <3>1, Zenon DEF SectorsOf
  <2>2. CASE ~c.release
    BY <1>7, <2>2, Zenon DEF Claimed
  <2> QED BY <2>1, <2>2, Zenon
<1>15. Allocated' = Allocated /\ MapInv'
  BY Zenon DEF Allocated, MapInv, IInv
<1>16. SpaceInv'
  <2>1. SpaceInv
    BY Zenon DEF IInv
  <2>2. op'.pc \notin {"inode", "zero", "dir_add"}
    BY <1>7, <1>8, Zenon
  <2>3. op'.pc = "release" => /\ op'.sector = s /\ s \notin LiveInodes'
    BY <1>7, <1>8, <1>11, Zenon
  <2>4. s \notin Group(Start(s)', Length(s)')
    BY <1>10, <1>12, <2>1, Zenon DEF SpaceInv
  <2>5. /\ \A t \in LiveInodes' : /\ Length(t)' \in Nat /\ SectorsOf(t)' \subseteq Allocated'
                                  /\ t \notin Group(Start(t)', Length(t)')
                                  /\ SectorsOf(t)' \intersect Claimed' = {}
        /\ \A t, u \in LiveInodes' : t # u => SectorsOf(t)' \intersect SectorsOf(u)' = {}
        /\ Claimed' \subseteq Allocated'
    <3>1. CASE c.release
      BY <3>1, <1>10, <1>11, <1>12, <1>14, <1>15, <2>1, Zenon DEF SpaceInv
    <3>2. CASE ~c.release
      BY <3>2, <1>11, <1>12, <1>14, <1>15, <2>1, Zenon DEF SpaceInv
    <3> QED BY <3>1, <3>2, Zenon
  <2> QED BY <2>2, <2>3, <2>4, <2>5, Zenon DEF SpaceInv
<1>17. LeakInv'
  BY <1>10, <1>11, <1>12, <1>13, <1>14, <1>15, Zenon DEF IInv, LeakInv
<1>18. OpInv'
  BY <1>7, <1>8, Zenon DEF OpInv
<1>19. OpenInv'
  <2>1. \A t : ~Erasing(t)'
    BY <1>7, <1>8, Zenon DEF Erasing
  <2>2. op'.pc # "erase"
    BY <1>7, <1>8, Zenon
  <2>3. Distinct(open_inodes')
    BY <1>4, <1>5, Zenon
  <2>4. \A n \in Elems(open_inodes') : Counted(n)'
    <3>1. \A k \in DOMAIN L : k # i => L[k].sector # s
      BY <1>1, <1>2, Zenon DEF Distinct
    <3>2. \A x : Cardinality(HandlesOn(x)') \in Nat
      BY HandleCounts, Zenon DEF HandlesOn
    <3>3. \A n \in Elems(L) : n.sector # s => Counted(n)'
      BY <2>1, <3>2, Zenon DEF Counted
    <3>4. CASE L[i].open_cnt = 1
      <4>1. \A j \in DOMAIN open_inodes' : \E k \in DOMAIN L : k # i /\ open_inodes'[j] = L[k]
        BY <1>4, <1>5, <3>4
      <4>2. \A n \in Elems(open_inodes') : n \in Elems(L) /\ n.sector # s
        BY <1>0, <3>1, <4>1 DEF Elems
      <4> QED BY <3>3, <4>2, Zenon
    <3>5. CASE L[i].open_cnt # 1
      <4>1. PICK r : r = [L[i] EXCEPT !.open_cnt = @ - 1]
        BY Zenon
      <4>2. PICK n \in Inode : n = L[i]
        BY <1>3, Zenon
      <4>3. /\ r.sector = s /\ r.open_cnt = n.open_cnt - 1 /\ r.deny_write_cnt = n.deny_write_cnt
            /\ r.removed = n.removed
        BY <1>1, <4>1, <4>2, Zenon DEF Inode
      <4>4. open_inodes' = [L EXCEPT ![i] = r]
        BY <1>4, <1>5, <3>5, <4>1, Zenon
      <4>5. n \in Elems(L) /\ n.sector = s
        BY <1>0, <1>1, <4>2, Zenon
      <4>6. /\ n.open_cnt = Cardinality(HandlesOn(s)') + 1 /\ n.open_cnt # 1 /\ n.open_cnt > 0
            /\ n.deny_write_cnt = Cardinality(Denying(s)')
            /\ n.removed <=> s \notin InodesInUse'
        BY <3>5, <4>2, <4>5, Zenon
      <4>7. r.open_cnt = Cardinality(HandlesOn(s)') /\ r.open_cnt > 0
        <5>1. PICK k \in Nat : k = Cardinality(HandlesOn(s)')
          BY <3>2, Zenon
        <5>2. n.open_cnt = k + 1 /\ k + 1 # 1
          BY <4>6, <5>1, Zenon
        <5>3. \A m, o : m = k + 1 /\ o = m - 1 /\ k + 1 # 1 => o = k /\ o > 0
          BY ONLY <5>1
        <5> QED BY <4>3, <5>1, <5>2, <5>3, Zenon
      <4>8. Counted(r)'
        BY <2>1, <3>2, <4>3, <4>6, <4>7 DEF Counted
      <4>9. \A j \in DOMAIN open_inodes' : j \in DOMAIN L /\ IF j = i THEN open_inodes'[j] = r ELSE open_inodes'[j] = L[j]
        BY <4>4, Zenon
      <4>10. \A m \in Elems(open_inodes') : m = r \/ (m \in Elems(L) /\ m.sector # s)
        BY <1>0, <3>1, <4>9 DEF Elems
      <4> QED BY <3>3, <4>8, <4>10, Zenon
    <3> QED BY <3>4, <3>5, Zenon
  <2>5. \A h \in Handles : file'[h] # NONE => file'[h].sector \in OpenInodes'
    <3> SUFFICES ASSUME NEW h \in Handles, file'[h] # NONE, file'[h].sector \notin OpenInodes'
                 PROVE  FALSE
      OBVIOUS
    <3>1. L[i].open_cnt = 1 /\ file'[h].sector = s
      BY <1>4, <1>9, Zenon
    <3>2. h \in HandlesOn(s)'
      BY <3>1, Zenon DEF HandlesOn
    <3>3. L[i].open_cnt = Cardinality(HandlesOn(s)') + 1
      BY <1>0, <1>1, Zenon
    <3>4. /\ Cardinality(HandlesOn(s)') \in Nat
          /\ (Cardinality(HandlesOn(s)') = 0) <=> (HandlesOn(s)' = {})
      <4>1. HandlesOn(s)' \in SUBSET Handles
        BY Zenon DEF HandlesOn
      <4> QED BY <4>1, HandleCounts, Zenon
    <3>5. Cardinality(HandlesOn(s)') = 0
      BY <3>1, <3>3, <3>4
    <3> QED BY <3>2, <3>4, <3>5, Zenon
  <2>6. \A j, k \in DOMAIN open_inodes' : open_inodes'[j].sector = open_inodes'[k].sector => j = k
    BY <2>3, Zenon DEF Distinct
  <2>7. Elems(open_inodes)' = Elems(open_inodes')
    BY Zenon DEF Elems
  <2> QED BY <2>2, <2>4, <2>5, <2>6, <2>7, Zenon DEF OpenInv
<1> QED BY <1>4, <1>5, <1>6, <1>15, <1>16, <1>17, <1>18, <1>19, Zenon

\* A step between operations, or the start of one, that takes and gives no sector.
LEMMA QuietSpace ==
  ASSUME IInv, disk'.inode = disk.inode, disk'.map = disk.map, UNCHANGED <<free_map, leaky>>,
         LiveInodes' = LiveInodes,
         op.pc \in {"idle", "erase", "write"}, op'.pc \in {"idle", "erase", "write"}
  PROVE  SpaceInv' /\ LeakInv' /\ MapInv'
<1>1. \A s : Start(s)' = Start(s) /\ Length(s)' = Length(s) /\ SectorsOf(s)' = SectorsOf(s)
  BY SameInodes, Zenon
<1>2. Claimed = {} /\ Claimed' = {}
  BY Zenon DEF Claimed
<1>3. Allocated' = Allocated /\ MapInv'
  BY Zenon DEF Allocated, MapInv, IInv
<1>4. op'.pc \notin {"inode", "zero", "dir_add", "release"}
  OBVIOUS
<1> QED BY <1>1, <1>2, <1>3, <1>4, Zenon DEF IInv, SpaceInv, LeakInv

\* inode_open() finds an open inode on the list.
LEMMA OpenIdxFacts ==
  ASSUME TypeOK, NEW s \in OpenInodes
  PROVE  /\ OpenIdx(s) \in DOMAIN open_inodes /\ open_inodes[OpenIdx(s)] \in Inode
         /\ open_inodes[OpenIdx(s)] \in Elems(open_inodes)
         /\ open_inodes[OpenIdx(s)].sector = s /\ s \in Sectors
<1>1. OpenIdx(s) \in DOMAIN open_inodes /\ open_inodes[OpenIdx(s)].sector = s
  BY Zenon DEF OpenIdx, OpenInodes
<1> HIDE DEF OpenIdx
<1>2. open_inodes[OpenIdx(s)] \in Inode /\ open_inodes[OpenIdx(s)] \in Elems(open_inodes)
  BY <1>1 DEF TypeOK, Elems
<1>3. open_inodes[OpenIdx(s)].sector \in Sectors
  BY <1>2, Zenon DEF Inode
<1> QED BY <1>1, <1>2, <1>3, Zenon

\* A change of one open inode that keeps its sector.
LEMMA UpdateList ==
  ASSUME TypeOK, Distinct(open_inodes), NEW k \in DOMAIN open_inodes,
         NEW r \in Inode, r.sector = open_inodes[k].sector
  PROVE  LET L == [open_inodes EXCEPT ![k] = r]
         IN  /\ L \in Seq(Inode) /\ DOMAIN L = DOMAIN open_inodes /\ SectorsIn(L) = OpenInodes
             /\ \A i \in DOMAIN L : L[i].sector = open_inodes[i].sector
             /\ \A n \in Elems(L) : n = r \/ (n \in Elems(open_inodes) /\ n.sector # r.sector)
<1> DEFINE L == [open_inodes EXCEPT ![k] = r]
<1>1. L \in Seq(Inode) /\ DOMAIN L = DOMAIN open_inodes
  BY DEF TypeOK
<1>2. \A i \in DOMAIN open_inodes : IF i = k THEN L[i] = r ELSE L[i] = open_inodes[i]
  BY Zenon DEF TypeOK
<1> HIDE DEF L
<1>3. \A i \in DOMAIN L : L[i].sector = open_inodes[i].sector
  BY <1>1, <1>2, Zenon
<1>4. SectorsIn(L) = OpenInodes
  BY <1>1, <1>3, Zenon DEF SectorsIn, OpenInodes
<1>5. \A i \in DOMAIN open_inodes : i # k => open_inodes[i].sector # r.sector
  BY Zenon DEF Distinct
<1>6. \A n \in Elems(L) : n = r \/ (n \in Elems(open_inodes) /\ n.sector # r.sector)
  BY <1>1, <1>2, <1>5, Zenon DEF Elems
<1> QED BY <1>1, <1>3, <1>4, <1>6, Zenon DEF L

\* inode_open(), by filesys_open() for a handle or by dir_remove() for itself.
LEMMA OpenStep ==
  ASSUME Counting, IInv, op.pc = "idle", NEW s \in InodesInUse, s \in Sectors, open_inodes' = inode_open(s), disk' = disk,
         \A x : Denying(x)' = Denying(x),
         \A x : Cardinality(HandlesOn(x)') + (IF Erasing(x)' THEN 1 ELSE 0)
                  = Cardinality(HandlesOn(x)) + (IF x = s THEN 1 ELSE 0),
         \A h \in Handles : file'[h] # NONE => file'[h].sector \in OpenInodes \union {s},
         op'.pc = "erase" => op'.slot \in Entries /\ disk.dir[op'.slot].inode_sector = s
  PROVE  open_inodes' \in Seq(Inode) /\ OpenInv' /\ LiveInodes' = LiveInodes
<1>1. TypeOK /\ Distinct(open_inodes)
  BY Zenon DEF IInv, OpenInv, Distinct
<1>2. PICK L : L = inode_open(s)
  OBVIOUS
<1>3. /\ L \in Seq(Inode) /\ Distinct(L) /\ SectorsIn(L) = OpenInodes \union {s}
      /\ \A i \in DOMAIN L :
           IF L[i].sector # s THEN \E k \in DOMAIN open_inodes : L[i] = open_inodes[k]
           ELSE IF s \in OpenInodes
                THEN \E k \in DOMAIN open_inodes :
                       /\ open_inodes[k].sector = s
                       /\ L[i] = [open_inodes[k] EXCEPT !.open_cnt = @ + 1]
                ELSE L[i] = NewInode(s)
  BY <1>1, <1>2, OpenList
<1>4. Entries' = Entries /\ InodesInUse' = InodesInUse
  BY SameDir, Zenon
<1>5. OpenInodes' = OpenInodes \union {s}
  BY <1>2, <1>3, Zenon DEF OpenInodes, SectorsIn
<1>6. LiveInodes' = LiveInodes
  BY <1>4, <1>5, Zenon DEF LiveInodes
<1>7. \A x : ~Erasing(x)
  BY Zenon DEF Erasing
<1>8. \A x : Cardinality(HandlesOn(x)) \in Nat
  BY HandleCounts, HandleSets, Zenon
<1>9. \A n \in Elems(open_inodes) : Counted(n) /\ n.sector \in OpenInodes /\ n \in Inode
  BY DEF IInv, OpenInv, Elems, OpenInodes, TypeOK
<1>10. \A n \in Elems(open_inodes) : n.sector # s => Counted(n)'
  BY <1>4, <1>7, <1>8, <1>9, Zenon DEF Counted
<1>11. \A n \in Elems(L) : Counted(n)'
  <2> SUFFICES ASSUME NEW i \in DOMAIN L, NEW n, n = L[i] PROVE Counted(n)'
    BY Zenon DEF Elems
  <2>1. CASE n.sector # s
    BY <1>3, <1>10, <2>1, Zenon DEF Elems
  <2>2. CASE n.sector = s /\ s \in OpenInodes
    <3>1. PICK k \in DOMAIN open_inodes : /\ open_inodes[k].sector = s
                                          /\ n = [open_inodes[k] EXCEPT !.open_cnt = @ + 1]
      BY <1>3, <2>2, Zenon
    <3>2. PICK m \in Inode : m = open_inodes[k]
      BY <1>1 DEF TypeOK
    <3>3. m \in Elems(open_inodes) /\ m.sector = s
      BY <3>1, <3>2, Zenon DEF Elems
    <3>4. /\ n.open_cnt = m.open_cnt + 1 /\ n.deny_write_cnt = m.deny_write_cnt
          /\ n.removed = m.removed /\ m.open_cnt \in Nat
      BY <3>1, <3>2, Zenon DEF Inode
    <3>5. /\ m.open_cnt = Cardinality(HandlesOn(s)) /\ m.deny_write_cnt = Cardinality(Denying(s))
          /\ m.removed <=> s \notin InodesInUse
      BY <1>7, <1>8, <1>9, <3>3 DEF Counted
    <3>6. n.open_cnt > 0 /\ n.open_cnt = Cardinality(HandlesOn(s)') + (IF Erasing(s)' THEN 1 ELSE 0)
      BY <3>4, <3>5
    <3> QED BY <1>4, <2>2, <3>4, <3>5, <3>6, Zenon DEF Counted
  <2>3. CASE n.sector = s /\ s \notin OpenInodes
    <3>1. n.open_cnt = 1 /\ n.deny_write_cnt = 0 /\ n.removed = FALSE
      BY <1>3, <2>3 DEF NewInode
    <3>2. HandlesOn(s) = {}
      BY <2>3, Zenon DEF HandlesOn, IInv, OpenInv
    <3>3. Denying(s) = {}
      BY <3>2, HandleSets, Zenon
    <3>4. Cardinality(HandlesOn(s)) = 0 /\ Cardinality(Denying(s)) = 0
      BY <3>2, <3>3, HandleCounts, Zenon
    <3>5. n.open_cnt = Cardinality(HandlesOn(s)') + (IF Erasing(s)' THEN 1 ELSE 0) /\ n.open_cnt > 0
      BY <3>1, <3>4
    <3> QED BY <1>4, <2>3, <3>1, <3>4, <3>5, Zenon DEF Counted
  <2> QED BY <2>1, <2>2, <2>3, Zenon
<1>12. OpenInv'
  <2>1. \A j, k \in DOMAIN open_inodes' : open_inodes'[j].sector = open_inodes'[k].sector => j = k
    BY <1>2, <1>3, Zenon DEF Distinct
  <2>2. Elems(open_inodes)' = Elems(L)
    BY <1>2, Zenon DEF Elems
  <2>3. op'.pc = "erase" => op'.slot \in Entries' /\ disk'.dir[op'.slot].inode_sector \in OpenInodes'
    BY <1>4, <1>5, Zenon
  <2> QED BY <1>5, <1>11, <2>1, <2>2, <2>3, Zenon DEF OpenInv
<1> QED BY <1>2, <1>3, <1>6, <1>12, Zenon

\* dir_remove() opens the inode of the entry it is about to erase.
LEMMA RemoveInv ==
  ASSUME Counting, IInv, NEW n \in Names, filesys_remove(n)
  PROVE  IInv'
<1>1. PICK s, k : k = lookup(n) /\ s = disk.dir[k].inode_sector
  OBVIOUS
<1>2. op.pc = "idle" /\ Slots(n) # {} /\ UNCHANGED <<disk, free_map, file, leaky, crashes>> /\ ops' \in Nat
  BY DEF filesys_remove, Begins, Idle, IInv, TypeOK
<1>3. k \in Entries /\ s \in InodesInUse /\ s \in Sectors
  BY <1>1, <1>2, LookupFacts, Zenon DEF IInv
<1>4. k \in 1 .. EntryCnt
  BY <1>3, Zenon DEF Entries
<1>5. DirInv'
  BY <1>2, SameDirInv, Zenon DEF IInv
<1>6. CASE open_inodes' = inode_open(s) /\ op' = [pc |-> "erase", slot |-> k]
  <2>1. op' \in EraseOp /\ op'.pc = "erase" /\ op'.slot = k
    BY <1>4, <1>6, Zenon DEF EraseOp
  <2>2. \A x : HandlesOn(x)' = HandlesOn(x) /\ Denying(x)' = Denying(x)
    BY <1>2, Zenon DEF HandlesOn, Denying
  <2>3. \A x : Erasing(x)' <=> x = s
    BY <1>1, <1>2, <2>1, Zenon DEF Erasing
  <2>4. \A x : Cardinality(HandlesOn(x)') + (IF Erasing(x)' THEN 1 ELSE 0)
                 = Cardinality(HandlesOn(x)) + (IF x = s THEN 1 ELSE 0)
    BY <2>2, <2>3, Zenon
  <2>5. \A h \in Handles : file'[h] # NONE => file'[h].sector \in OpenInodes \union {s}
    BY <1>2, Zenon DEF IInv, OpenInv
  <2>6. open_inodes' \in Seq(Inode) /\ OpenInv' /\ LiveInodes' = LiveInodes
    BY <1>1, <1>2, <1>3, <1>6, <2>1, <2>2, <2>4, <2>5, OpenStep, Zenon
  <2>7. SpaceInv' /\ LeakInv' /\ MapInv'
    BY <1>2, <2>1, <2>6, QuietSpace, Zenon
  <2>8. TypeOK' /\ OpInv'
    BY <1>2, <2>1, <2>6, Zenon DEF IInv, TypeOK, OpInv
  <2> QED BY <1>5, <2>6, <2>7, <2>8, Zenon DEF IInv
<1>7. CASE op' = Idle /\ UNCHANGED open_inodes
  <2>1. op'.pc = "idle"
    BY <1>7, Zenon DEF Idle
  <2>2. OpenInv' /\ LiveInodes' = LiveInodes
    BY <1>2, <1>7, <2>1, SameOpen, Zenon DEF IInv
  <2>3. SpaceInv' /\ LeakInv' /\ MapInv'
    BY <1>2, <2>1, <2>2, QuietSpace, Zenon
  <2>4. TypeOK' /\ OpInv'
    BY <1>2, <1>7, <2>1, Zenon DEF IInv, TypeOK, OpInv
  <2> QED BY <1>5, <2>2, <2>3, <2>4, Zenon DEF IInv
<1> QED BY <1>1, <1>6, <1>7, Zenon DEF filesys_remove

\* dir_remove() that cannot write the entry only closes the inode.
LEMMA KeptInv ==
  ASSUME Counting, IInv, op.pc = "erase", NEW s, s = disk.dir[op.slot].inode_sector,
         CloseThen(open_inodes, s), UNCHANGED <<disk, free_map, file, leaky, crashes, ops>>
  PROVE  IInv'
<1>1. s \in OpenInodes /\ open_inodes \in Seq(Inode)
  BY Zenon DEF IInv, OpenInv, TypeOK
<1>2. DirInv' /\ InodesInUse' = InodesInUse
  BY SameDir, SameDirInv, Zenon DEF IInv
<1>3. \A t : HandlesOn(t)' = HandlesOn(t) /\ Denying(t)' = Denying(t)
  BY Zenon DEF HandlesOn, Denying
<1>4. \A t : Erasing(t) <=> t = s
  BY Zenon DEF Erasing
<1>5. \A n \in Elems(open_inodes) :
        /\ n.open_cnt > 0
        /\ n.open_cnt = Cardinality(HandlesOn(n.sector)') + (IF n.sector = s THEN 1 ELSE 0)
        /\ n.deny_write_cnt = Cardinality(Denying(n.sector)')
        /\ n.removed <=> n.sector \notin InodesInUse'
  <2> SUFFICES ASSUME NEW n \in Elems(open_inodes)
               PROVE  /\ n.open_cnt > 0
                      /\ n.open_cnt = Cardinality(HandlesOn(n.sector)) + (IF n.sector = s THEN 1 ELSE 0)
                      /\ n.deny_write_cnt = Cardinality(Denying(n.sector))
                      /\ n.removed <=> n.sector \notin InodesInUse
    BY <1>2, <1>3, Zenon
  <2>1. Counted(n)
    BY Zenon DEF IInv, OpenInv
  <2> QED BY <1>4, <2>1, Zenon DEF Counted
<1>6. \A h \in Handles : file'[h] # NONE => file'[h].sector \in OpenInodes
  BY Zenon DEF IInv, OpenInv
<1>7. /\ open_inodes' \in Seq(Inode) /\ op' \in {Idle} \union ReleaseOp
      /\ OpenInv' /\ SpaceInv' /\ LeakInv' /\ MapInv' /\ OpInv'
  BY <1>1, <1>2, <1>5, <1>6, CloseInv, Zenon
<1>8. TypeOK'
  BY <1>7, Zenon DEF IInv, TypeOK
<1> QED BY <1>2, <1>7, <1>8, Zenon DEF IInv

\* One that writes it also marks the inode as removed.
LEMMA ErasedInv ==
  ASSUME Counting, IInv, op.pc = "erase", UNCHANGED <<free_map, file, leaky, crashes, ops>>,
         disk' = [disk EXCEPT !.dir[op.slot].in_use = FALSE],
         CloseThen([open_inodes EXCEPT ![OpenIdx(disk.dir[op.slot].inode_sector)].removed = TRUE],
                   disk.dir[op.slot].inode_sector)
  PROVE  IInv'
<1>1. op.pc = "erase" /\ op \in EraseOp /\ UNCHANGED <<free_map, file, leaky, crashes, ops>>
  BY OpTypes, Zenon DEF IInv
<1>2. PICK e, s : e = op.slot /\ s = disk.dir[e].inode_sector
  OBVIOUS
<1>3. e \in Entries /\ e \in 1 .. EntryCnt /\ s \in OpenInodes /\ s \in InodesInUse
  BY <1>1, <1>2, Zenon DEF IInv, OpenInv, Entries, InodesInUse
<1>4. PICK k, r : k = OpenIdx(s) /\ r = [open_inodes[k] EXCEPT !.removed = TRUE]
  BY Zenon
<1>5. /\ k \in DOMAIN open_inodes /\ open_inodes[k] \in Inode /\ open_inodes[k].sector = s
      /\ open_inodes[k] \in Elems(open_inodes) /\ s \in Sectors
  BY <1>3, <1>4, OpenIdxFacts, Zenon DEF IInv
<1>6. PICK m \in Inode : m = open_inodes[k]
  BY <1>5, Zenon
<1>7. /\ r \in Inode /\ r.sector = s /\ r.open_cnt = m.open_cnt
      /\ r.deny_write_cnt = m.deny_write_cnt /\ r.removed = TRUE
  BY <1>4, <1>5, <1>6, Zenon DEF Inode
<1>8. PICK L : L = [open_inodes EXCEPT ![k] = r]
  BY Zenon
<1>9. Distinct(open_inodes)
  BY Zenon DEF IInv, OpenInv, Distinct
<1>10. /\ L \in Seq(Inode) /\ DOMAIN L = DOMAIN open_inodes /\ SectorsIn(L) = OpenInodes
       /\ \A i \in DOMAIN L : L[i].sector = open_inodes[i].sector
       /\ \A n \in Elems(L) : n = r \/ (n \in Elems(open_inodes) /\ n.sector # s)
  <2>1. TypeOK /\ r.sector = open_inodes[k].sector
    BY <1>5, <1>7, Zenon DEF IInv
  <2>2. LET M == [open_inodes EXCEPT ![k] = r]
        IN  /\ M \in Seq(Inode) /\ DOMAIN M = DOMAIN open_inodes /\ SectorsIn(M) = OpenInodes
            /\ \A i \in DOMAIN M : M[i].sector = open_inodes[i].sector
            /\ \A n \in Elems(M) : n = r \/ (n \in Elems(open_inodes) /\ n.sector # r.sector)
    BY <1>5, <1>7, <1>9, <2>1, UpdateList, Zenon
  <2> QED BY <1>7, <1>8, <2>2, Zenon
<1>11. L = [open_inodes EXCEPT ![OpenIdx(s)].removed = TRUE]
  BY <1>4, <1>8, Zenon
<1>12. CloseThen(L, s) /\ disk' = [disk EXCEPT !.dir[e].in_use = FALSE]
  BY <1>2, <1>11, Zenon
<1>13. /\ disk'.inode = disk.inode /\ disk'.map = disk.map /\ disk'.data = disk.data
       /\ disk'.dir = [disk.dir EXCEPT ![e].in_use = FALSE]
  BY <1>12, Zenon DEF IInv, TypeOK
<1>14. PICK x \in [in_use : BOOLEAN, name : Names \union BadNames \union {NONE}, inode_sector : Sectors] :
         x = disk.dir[e]
  BY <1>3, Zenon DEF IInv, TypeOK
<1>15. PICK y : y = [x EXCEPT !.in_use = FALSE]
  BY Zenon
<1>16. /\ y \in [in_use : BOOLEAN, name : Names \union BadNames \union {NONE}, inode_sector : Sectors]
       /\ y.in_use = FALSE
  BY <1>15, Zenon
<1>17. disk'.dir = [disk.dir EXCEPT ![e] = y]
  BY <1>13, <1>14, <1>15, Zenon
<1>18. \A i \in 1 .. EntryCnt : IF i = e THEN disk'.dir[i] = y ELSE disk'.dir[i] = disk.dir[i]
  BY <1>3, <1>17, Zenon DEF IInv, TypeOK
<1>19. Entries' = Entries \ {e}
  BY <1>16, <1>18, Zenon DEF Entries
<1>20. \A i \in Entries : i # e => disk'.dir[i] = disk.dir[i] /\ disk.dir[i].inode_sector # s
  BY <1>2, <1>3, <1>18, Zenon DEF Entries, IInv, DirInv
<1>21. InodesInUse' = InodesInUse \ {s}
  BY <1>2, <1>19, <1>20 DEF InodesInUse
<1>22. DirInv'
  BY <1>19, <1>20 DEF DirInv, IInv
<1>23. \A t : HandlesOn(t)' = HandlesOn(t) /\ Denying(t)' = Denying(t)
  BY <1>1, Zenon DEF HandlesOn, Denying
<1>24. \A t : Erasing(t) <=> t = s
  BY <1>1, <1>2, Zenon DEF Erasing
<1>25. \A n \in Elems(open_inodes) : Counted(n)
  BY Zenon DEF IInv, OpenInv
<1>26. \A n \in Elems(L) :
         /\ n.open_cnt > 0
         /\ n.open_cnt = Cardinality(HandlesOn(n.sector)') + (IF n.sector = s THEN 1 ELSE 0)
         /\ n.deny_write_cnt = Cardinality(Denying(n.sector)')
         /\ n.removed <=> n.sector \notin InodesInUse'
  <2> SUFFICES ASSUME NEW n \in Elems(L)
               PROVE  /\ n.open_cnt > 0
                      /\ n.open_cnt = Cardinality(HandlesOn(n.sector)) + (IF n.sector = s THEN 1 ELSE 0)
                      /\ n.deny_write_cnt = Cardinality(Denying(n.sector))
                      /\ n.removed <=> n.sector \notin InodesInUse'
    BY <1>23, Zenon
  <2>1. CASE n = r
    <3>1. Counted(m) /\ m.sector = s
      BY <1>5, <1>6, <1>25, Zenon
    <3>2. n.sector = s /\ n.open_cnt = m.open_cnt /\ n.deny_write_cnt = m.deny_write_cnt /\ n.removed
      BY <1>7, <2>1, Zenon
    <3> QED BY <1>21, <1>24, <3>1, <3>2, Zenon DEF Counted
  <2>2. CASE n \in Elems(open_inodes) /\ n.sector # s
    BY <1>21, <1>24, <1>25, <2>2, Zenon DEF Counted
  <2> QED BY <1>10, <2>1, <2>2, Zenon
<1>27. \A h \in Handles : file'[h] # NONE => file'[h].sector \in OpenInodes
  BY <1>1, Zenon DEF IInv, OpenInv
<1>28. /\ open_inodes' \in Seq(Inode) /\ op' \in {Idle} \union ReleaseOp
       /\ OpenInv' /\ SpaceInv' /\ LeakInv' /\ MapInv' /\ OpInv'
  BY <1>1, <1>3, <1>10, <1>12, <1>13, <1>21, <1>26, <1>27, CloseInv, Zenon
<1>29. TypeOK'
  <2>1. disk'.dir \in [1 .. EntryCnt -> [in_use : BOOLEAN, name : Names \union BadNames \union {NONE},
                                        inode_sector : Sectors]]
    BY <1>16, <1>17, Zenon DEF IInv, TypeOK
  <2>2. disk' = [disk EXCEPT !.dir = disk'.dir]
    BY <1>12, <1>13, Zenon DEF IInv, TypeOK
  <2>3. PICK d : d = disk'.dir
    OBVIOUS
  <2>4. disk' = [disk EXCEPT !.dir = d]
    BY <2>2, <2>3, Zenon
  <2> QED BY <1>1, <1>28, <2>1, <2>3, <2>4, Zenon DEF IInv, TypeOK
<1> QED BY <1>22, <1>28, <1>29, Zenon DEF IInv

\* dir_remove() keeps the invariant.
LEMMA DirRemoveInv == ASSUME Counting, IInv, dir_remove PROVE IInv'
BY KeptInv, ErasedInv, Zenon DEF dir_remove

\* What a change of one handle does to the sets of handles.
LEMMA HandleChange ==
  ASSUME TypeOK, NEW h \in Handles, NEW f, file' = [file EXCEPT ![h] = f], NEW s
  PROVE  /\ HandlesOn(s)' = IF f # NONE /\ f.sector = s THEN HandlesOn(s) \union {h} ELSE HandlesOn(s) \ {h}
         /\ Denying(s)' = IF f # NONE /\ f.sector = s /\ f.deny_write
                          THEN Denying(s) \union {h} ELSE Denying(s) \ {h}
<1>1. \A g \in Handles : file'[g] = IF g = h THEN f ELSE file[g]
  BY Zenon DEF TypeOK
<1> QED BY <1>1 DEF HandlesOn, Denying

\* An open handle has a file.
LEMMA FileTypes ==
  ASSUME TypeOK, NEW h \in Handles, file[h] # NONE
  PROVE  file[h] \in File
BY Zenon DEF TypeOK

\* A closed handle has none.
LEMMA NoneNotFile == NONE \notin File
<1>1. File \subseteq [sector : Nat, pos : Nat, deny_write : BOOLEAN]
  BY FileSysAssumption DEF File, Sectors
<1> QED BY <1>1, FileSysAssumption, Zenon

\* filesys_open() counts the new handle in the inode it opens.
LEMMA OpenFileInv ==
  ASSUME Counting, IInv, NEW n \in Names, NEW h \in Handles, filesys_open(n, h)
  PROVE  IInv'
<1>1. PICK s : s = disk.dir[lookup(n)].inode_sector
  OBVIOUS
<1>2. /\ op.pc = "idle" /\ op' = op /\ Slots(n) # {} /\ file[h] = NONE
      /\ UNCHANGED <<disk, free_map, leaky, crashes>> /\ ops' \in Nat
  BY DEF filesys_open, Begins, Idle, IInv, TypeOK
<1>3. s \in InodesInUse /\ s \in Sectors
  BY <1>1, <1>2, LookupFacts, Zenon DEF IInv
<1>4. DirInv'
  BY <1>2, SameDirInv, Zenon DEF IInv
<1>5. PICK f : f = [sector |-> s, pos |-> 0, deny_write |-> FALSE]
  BY Zenon
<1>6. f \in File /\ f # NONE /\ f.sector = s /\ ~f.deny_write
  <2>1. f \in File
    BY <1>3, <1>5, Zenon DEF File
  <2> QED BY <1>5, <2>1, NoneNotFile, Zenon
<1>7. open_inodes' = inode_open(s) /\ file' = [file EXCEPT ![h] = f]
  BY <1>1, <1>5, Zenon DEF filesys_open
<1>8. \A x : h \notin HandlesOn(x) /\ h \notin Denying(x)
  BY <1>2, Zenon DEF HandlesOn, Denying
<1>9. \A x : HandlesOn(x)' = IF x = s THEN HandlesOn(x) \union {h} ELSE HandlesOn(x)
  <2> TAKE x
  <2>1. TypeOK
    BY Zenon DEF IInv
  <2>2. HandlesOn(x)' = IF f # NONE /\ f.sector = x THEN HandlesOn(x) \union {h} ELSE HandlesOn(x) \ {h}
    BY <1>7, <2>1, HandleChange, Zenon
  <2> QED BY <1>6, <1>8, <2>2, Zenon
<1>10. \A x : Denying(x)' = Denying(x)
  <2> TAKE x
  <2>1. TypeOK
    BY Zenon DEF IInv
  <2>2. Denying(x)' = IF f # NONE /\ f.sector = x /\ f.deny_write THEN Denying(x) \union {h} ELSE Denying(x) \ {h}
    BY <1>7, <2>1, HandleChange, Zenon
  <2> QED BY <1>6, <1>8, <2>2, Zenon
<1>11. \A x : ~Erasing(x)'
  BY <1>2, Zenon DEF Erasing
<1>12. \A x : Cardinality(HandlesOn(x)') + (IF Erasing(x)' THEN 1 ELSE 0)
                 = Cardinality(HandlesOn(x)) + (IF x = s THEN 1 ELSE 0)
  <2> TAKE x
  <2>1. HandlesOn(x) \in SUBSET Handles /\ Cardinality(HandlesOn(x)) \in Nat
    BY HandleCounts, HandleSets, Zenon
  <2>2. Cardinality(HandlesOn(x) \union {h}) = Cardinality(HandlesOn(x)) + 1
    BY <1>8, <2>1, HandleCounts, Zenon
  <2>3. (IF Erasing(x)' THEN 1 ELSE 0) = 0
    BY <1>11, Zenon
  <2>4. CASE x = s
    <3>1. Cardinality(HandlesOn(x)') = Cardinality(HandlesOn(x)) + 1
      BY <1>9, <2>2, <2>4, Zenon
    <3> QED BY <2>1, <2>3, <2>4, <3>1
  <2>5. CASE x # s
    <3>1. Cardinality(HandlesOn(x)') = Cardinality(HandlesOn(x))
      BY <1>9, <2>5, Zenon
    <3> QED BY <2>1, <2>3, <2>5, <3>1
  <2> QED BY <2>4, <2>5, Zenon
<1>13. \A g \in Handles : file'[g] # NONE => file'[g].sector \in OpenInodes \union {s}
  BY <1>6, <1>7, Zenon DEF IInv, OpenInv, TypeOK
<1>14. open_inodes' \in Seq(Inode) /\ OpenInv' /\ LiveInodes' = LiveInodes
  BY <1>2, <1>3, <1>7, <1>10, <1>12, <1>13, OpenStep, Zenon
<1>15. SpaceInv' /\ LeakInv' /\ MapInv'
  BY <1>2, <1>14, QuietSpace, Zenon
<1>16. TypeOK' /\ OpInv'
  BY <1>2, <1>6, <1>7, <1>14, Zenon DEF IInv, TypeOK, OpInv
<1> QED BY <1>4, <1>14, <1>15, <1>16, Zenon DEF IInv

\* file_deny_write() counts the handle in deny_write_cnt.
LEMMA DenyInv ==
  ASSUME Counting, IInv, NEW h \in Handles, file_deny_write(h)
  PROVE  IInv'
<1>1. /\ op.pc = "idle" /\ op' = op /\ file[h] # NONE /\ ~file[h].deny_write
      /\ UNCHANGED <<disk, free_map, leaky, crashes>> /\ ops' \in Nat
  BY DEF file_deny_write, Begins, Idle, IInv, TypeOK
<1>2. TypeOK /\ Distinct(open_inodes)
  BY Zenon DEF IInv, OpenInv, Distinct
<1>3. PICK g \in File : g = file[h]
  BY <1>1, <1>2, FileTypes, Zenon
<1>4. PICK f : f = [g EXCEPT !.deny_write = TRUE]
  BY Zenon
<1>5. f \in File /\ f.sector = g.sector /\ f.deny_write
  BY <1>4, Zenon DEF File
<1>6. f # NONE
  BY <1>5, NoneNotFile, Zenon
<1>7. file' = [file EXCEPT ![h] = f]
  BY <1>3, <1>4, Zenon DEF file_deny_write
<1>8. PICK s, k : s = g.sector /\ k = OpenIdx(s)
  OBVIOUS
<1>9. s \in OpenInodes
  BY <1>1, <1>3, <1>8, Zenon DEF IInv, OpenInv
<1>10. /\ k \in DOMAIN open_inodes /\ open_inodes[k] \in Inode /\ open_inodes[k].sector = s
       /\ open_inodes[k] \in Elems(open_inodes) /\ s \in Sectors
  BY <1>2, <1>8, <1>9, OpenIdxFacts, Zenon
<1>11. PICK m \in Inode : m = open_inodes[k]
  BY <1>10, Zenon
<1>12. PICK r : r = [m EXCEPT !.deny_write_cnt = @ + 1]
  BY Zenon
<1>13. /\ r \in Inode /\ r.sector = s /\ r.open_cnt = m.open_cnt
       /\ r.deny_write_cnt = m.deny_write_cnt + 1 /\ r.removed = m.removed
  BY <1>10, <1>11, <1>12 DEF Inode
<1>14. PICK L : L = [open_inodes EXCEPT ![k] = r]
  BY Zenon
<1>15. open_inodes' = L
  BY <1>3, <1>8, <1>11, <1>12, <1>14, Zenon DEF file_deny_write
<1>16. /\ L \in Seq(Inode) /\ DOMAIN L = DOMAIN open_inodes /\ SectorsIn(L) = OpenInodes
       /\ \A i \in DOMAIN L : L[i].sector = open_inodes[i].sector
       /\ \A n \in Elems(L) : n = r \/ (n \in Elems(open_inodes) /\ n.sector # s)
  <2>1. r.sector = open_inodes[k].sector
    BY <1>10, <1>13, Zenon
  <2>2. LET M == [open_inodes EXCEPT ![k] = r]
        IN  /\ M \in Seq(Inode) /\ DOMAIN M = DOMAIN open_inodes /\ SectorsIn(M) = OpenInodes
            /\ \A i \in DOMAIN M : M[i].sector = open_inodes[i].sector
            /\ \A n \in Elems(M) : n = r \/ (n \in Elems(open_inodes) /\ n.sector # r.sector)
    BY <1>2, <1>10, <1>13, <2>1, UpdateList, Zenon
  <2> QED BY <1>13, <1>14, <2>2, Zenon
<1>17. Entries' = Entries /\ InodesInUse' = InodesInUse
  BY <1>1, SameDir, Zenon
<1>18. OpenInodes' = OpenInodes
  BY <1>15, <1>16, Zenon DEF OpenInodes, SectorsIn
<1>19. LiveInodes' = LiveInodes
  BY <1>17, <1>18, Zenon DEF LiveInodes
<1>20. \A x : /\ HandlesOn(x)' = HandlesOn(x)
              /\ Denying(x)' = IF x = s THEN Denying(x) \union {h} ELSE Denying(x)
              /\ h \notin Denying(x)
  <2> TAKE x
  <2>1. HandlesOn(x)' = IF f # NONE /\ f.sector = x THEN HandlesOn(x) \union {h} ELSE HandlesOn(x) \ {h}
    BY <1>2, <1>7, HandleChange, Zenon
  <2>2. Denying(x)' = IF f # NONE /\ f.sector = x /\ f.deny_write THEN Denying(x) \union {h} ELSE Denying(x) \ {h}
    BY <1>2, <1>7, HandleChange, Zenon
  <2>3. h \in HandlesOn(x) <=> x = s
    BY <1>1, <1>3, <1>8, Zenon DEF HandlesOn
  <2>4. h \notin Denying(x)
    BY <1>1, Zenon DEF Denying
  <2> QED BY <1>5, <1>6, <1>8, <2>1, <2>2, <2>3, <2>4, Zenon
<1>21. Cardinality(Denying(s)') = Cardinality(Denying(s)) + 1
  <2>1. Denying(s) \in SUBSET Handles
    BY HandleSets, Zenon
  <2> QED BY <1>20, <2>1, HandleCounts, Zenon
<1>22. \A x : ~Erasing(x) /\ ~Erasing(x)'
  BY <1>1, Zenon DEF Erasing
<1>23. \A n \in Elems(open_inodes) : Counted(n)
  BY Zenon DEF IInv, OpenInv
<1>24. \A n \in Elems(L) : Counted(n)'
  <2> SUFFICES ASSUME NEW n \in Elems(L) PROVE Counted(n)'
    OBVIOUS
  <2>1. CASE n = r
    <3>1. Counted(m) /\ m.sector = s
      BY <1>10, <1>11, <1>23, Zenon
    <3> QED BY <1>13, <1>17, <1>20, <1>21, <1>22, <2>1, <3>1, Zenon DEF Counted
  <2>2. CASE n \in Elems(open_inodes) /\ n.sector # s
    BY <1>17, <1>20, <1>22, <1>23, <2>2, Zenon DEF Counted
  <2> QED BY <1>16, <2>1, <2>2, Zenon
<1>25. OpenInv'
  <2>1. \A i, j \in DOMAIN L : L[i].sector = L[j].sector => i = j
    BY <1>2, <1>16, Zenon DEF Distinct
  <2>2. Elems(open_inodes)' = Elems(L)
    BY <1>15, Zenon DEF Elems
  <2>3. \A i \in Handles : file'[i] # NONE => file'[i].sector \in OpenInodes'
    BY <1>2, <1>5, <1>7, <1>8, <1>9, <1>18, Zenon DEF IInv, OpenInv, TypeOK
  <2> QED BY <1>1, <1>15, <1>24, <2>1, <2>2, <2>3, Zenon DEF OpenInv
<1>26. SpaceInv' /\ LeakInv' /\ MapInv'
  BY <1>1, <1>19, QuietSpace, Zenon
<1>27. TypeOK' /\ OpInv'
  BY <1>1, <1>2, <1>5, <1>7, <1>15, <1>16, Zenon DEF TypeOK, OpInv
<1>28. DirInv'
  BY <1>1, SameDirInv, Zenon DEF IInv
<1> QED BY <1>25, <1>26, <1>27, <1>28, Zenon DEF IInv

\* file_close() takes the handle out of both counts of its inode.
LEMMA CloseFileInv ==
  ASSUME Counting, IInv, NEW h \in Handles, file_close(h)
  PROVE  IInv'
<1>1. /\ op.pc = "idle" /\ file[h] # NONE /\ UNCHANGED <<disk, free_map, leaky, crashes, ops>>
      /\ file' = [file EXCEPT ![h] = NONE]
  BY Zenon DEF file_close, Idle
<1>2. TypeOK /\ Distinct(open_inodes)
  BY Zenon DEF IInv, OpenInv, Distinct
<1>3. PICK g \in File : g = file[h]
  BY <1>1, <1>2, FileTypes, Zenon
<1>4. PICK s, k : s = g.sector /\ k = OpenIdx(s)
  OBVIOUS
<1>5. s \in OpenInodes
  BY <1>1, <1>3, <1>4, Zenon DEF IInv, OpenInv
<1>6. /\ k \in DOMAIN open_inodes /\ open_inodes[k] \in Inode /\ open_inodes[k].sector = s
      /\ open_inodes[k] \in Elems(open_inodes) /\ s \in Sectors
  BY <1>2, <1>4, <1>5, OpenIdxFacts, Zenon
<1>7. PICK m \in Inode : m = open_inodes[k]
  BY <1>6, Zenon
<1>8. \A n \in Elems(open_inodes) : Counted(n)
  BY Zenon DEF IInv, OpenInv
<1>9. Counted(m) /\ m.sector = s
  BY <1>6, <1>7, <1>8, Zenon
<1>10. \A x : ~Erasing(x)
  BY <1>1, Zenon DEF Erasing
<1>11. \A x : /\ HandlesOn(x)' = HandlesOn(x) \ {h} /\ Denying(x)' = Denying(x) \ {h}
              /\ h \in HandlesOn(x) <=> x = s
              /\ h \in Denying(x) <=> (x = s /\ g.deny_write)
  <2> TAKE x
  <2>1. HandlesOn(x)' = HandlesOn(x) \ {h} /\ Denying(x)' = Denying(x) \ {h}
    BY <1>1, <1>2, HandleChange, Zenon
  <2>2. h \in HandlesOn(x) <=> x = s
    BY <1>1, <1>3, <1>4, Zenon DEF HandlesOn
  <2>3. h \in Denying(x) <=> (x = s /\ g.deny_write)
    BY <1>1, <1>3, <1>4, Zenon DEF Denying
  <2> QED BY <2>1, <2>2, <2>3, Zenon
<1>12. \A x : /\ HandlesOn(x) \in SUBSET Handles /\ Denying(x) \in SUBSET Handles
              /\ Cardinality(HandlesOn(x)) \in Nat /\ Cardinality(Denying(x)) \in Nat
  <2> TAKE x
  <2>1. HandlesOn(x) \in SUBSET Handles /\ Denying(x) \in SUBSET Handles
    BY HandleSets, Zenon
  <2> QED BY <2>1, HandleCounts, Zenon
<1>13. \A x : x # s => HandlesOn(x)' = HandlesOn(x) /\ Denying(x)' = Denying(x)
  BY <1>11
<1>14. Cardinality(HandlesOn(s)) = Cardinality(HandlesOn(s)') + 1
  <2>1. HandlesOn(s) = (HandlesOn(s) \ {h}) \union {h} /\ HandlesOn(s) \ {h} \in SUBSET Handles
    BY <1>11, <1>12, Zenon
  <2>2. Cardinality((HandlesOn(s) \ {h}) \union {h}) = Cardinality(HandlesOn(s) \ {h}) + 1
    BY <2>1, HandleCounts, Zenon
  <2>3. HandlesOn(s)' = HandlesOn(s) \ {h}
    BY <1>11, Zenon
  <2> QED BY <2>1, <2>2, <2>3, Zenon
<1>15. Cardinality(Denying(s)) = Cardinality(Denying(s)') + (IF g.deny_write THEN 1 ELSE 0)
  <2>1. CASE g.deny_write
    <3>1. Denying(s) = (Denying(s) \ {h}) \union {h} /\ Denying(s) \ {h} \in SUBSET Handles
      BY <1>11, <1>12, <2>1, Zenon
    <3>2. Cardinality((Denying(s) \ {h}) \union {h}) = Cardinality(Denying(s) \ {h}) + 1
      BY <3>1, HandleCounts, Zenon
    <3>3. Denying(s)' = Denying(s) \ {h}
      BY <1>11, Zenon
    <3> QED BY <2>1, <3>1, <3>2, <3>3, Zenon
  <2>2. CASE ~g.deny_write
    <3>1. Denying(s)' = Denying(s)
      BY <1>11, <2>2, Zenon
    <3>2. Cardinality(Denying(s)) \in Nat
      BY <1>12, Zenon
    <3> QED BY <2>2, <3>1, <3>2
  <2> QED BY <2>1, <2>2, Zenon
<1>16. Cardinality(HandlesOn(s)') \in Nat /\ Cardinality(Denying(s)') \in Nat
  <2>1. HandlesOn(s)' \in SUBSET Handles /\ Denying(s)' \in SUBSET Handles
    BY Zenon DEF HandlesOn, Denying
  <2> QED BY <2>1, HandleCounts, Zenon
<1>17. PICK d : d = IF g.deny_write THEN m.deny_write_cnt - 1 ELSE m.deny_write_cnt
  OBVIOUS
<1>18. d = Cardinality(Denying(s)') /\ d \in Nat
  BY <1>9, <1>15, <1>16, <1>17 DEF Counted
<1>19. PICK r : r = [m EXCEPT !.deny_write_cnt = d]
  BY Zenon
<1>20. /\ r \in Inode /\ r.sector = s /\ r.open_cnt = m.open_cnt
       /\ r.deny_write_cnt = d /\ r.removed = m.removed
  BY <1>9, <1>18, <1>19, Zenon DEF Inode
<1>21. PICK L : L = [open_inodes EXCEPT ![k] = r]
  BY Zenon
<1>22. CloseThen(L, s)
  <2>1. L = [open_inodes EXCEPT ![OpenIdx(file[h].sector)].deny_write_cnt =
               IF file[h].deny_write THEN @ - 1 ELSE @]
    BY <1>3, <1>4, <1>7, <1>17, <1>19, <1>21, Zenon
  <2> QED BY <1>3, <1>4, <2>1, Zenon DEF file_close
<1>23. /\ L \in Seq(Inode) /\ DOMAIN L = DOMAIN open_inodes /\ SectorsIn(L) = OpenInodes
       /\ \A i \in DOMAIN L : L[i].sector = open_inodes[i].sector
       /\ \A n \in Elems(L) : n = r \/ (n \in Elems(open_inodes) /\ n.sector # s)
  <2>1. r.sector = open_inodes[k].sector
    BY <1>6, <1>20, Zenon
  <2>2. LET M == [open_inodes EXCEPT ![k] = r]
        IN  /\ M \in Seq(Inode) /\ DOMAIN M = DOMAIN open_inodes /\ SectorsIn(M) = OpenInodes
            /\ \A i \in DOMAIN M : M[i].sector = open_inodes[i].sector
            /\ \A n \in Elems(M) : n = r \/ (n \in Elems(open_inodes) /\ n.sector # r.sector)
    BY <1>2, <1>6, <1>20, <2>1, UpdateList, Zenon
  <2> QED BY <1>20, <1>21, <2>2, Zenon
<1>24. Entries' = Entries /\ InodesInUse' = InodesInUse
  BY <1>1, SameDir, Zenon
<1>25. \A n \in Elems(L) :
         /\ n.open_cnt > 0
         /\ n.open_cnt = Cardinality(HandlesOn(n.sector)') + (IF n.sector = s THEN 1 ELSE 0)
         /\ n.deny_write_cnt = Cardinality(Denying(n.sector)')
         /\ n.removed <=> n.sector \notin InodesInUse'
  <2> TAKE n \in Elems(L)
  <2>1. CASE n = r
    BY <1>9, <1>10, <1>12, <1>14, <1>18, <1>20, <1>24, <2>1 DEF Counted
  <2>2. CASE n \in Elems(open_inodes) /\ n.sector # s
    BY <1>8, <1>10, <1>12, <1>13, <1>24, <2>2, Zenon DEF Counted
  <2> QED BY <1>23, <2>1, <2>2, Zenon
<1>26. \A i \in Handles : file'[i] # NONE => file'[i].sector \in OpenInodes
  BY <1>1, <1>2, Zenon DEF IInv, OpenInv, TypeOK
<1>27. /\ open_inodes' \in Seq(Inode) /\ op' \in {Idle} \union ReleaseOp
       /\ OpenInv' /\ SpaceInv' /\ LeakInv' /\ MapInv' /\ OpInv'
  BY <1>1, <1>5, <1>22, <1>23, <1>24, <1>25, <1>26, CloseInv, Zenon
<1>28. TypeOK'
  BY <1>1, <1>2, <1>27, Zenon DEF TypeOK
<1>29. DirInv'
  BY <1>1, SameDirInv, Zenon DEF IInv
<1> QED BY <1>27, <1>28, <1>29, Zenon DEF IInv

\* file_write() starts only on a file nobody denies writing to.
LEMMA StartWriteInv ==
  ASSUME Counting, IInv, NEW h \in Handles, NEW v \in Values, NEW n \in Nat, file_write(h, v, n)
  PROVE  IInv'
<1>1. /\ op.pc = "idle" /\ file[h] # NONE /\ ops' \in Nat
      /\ UNCHANGED <<disk, free_map, open_inodes, file, leaky, crashes>>
  BY DEF file_write, Begins, Idle, IInv, TypeOK
<1>2. TypeOK
  BY Zenon DEF IInv
<1>3. PICK g \in File : g = file[h]
  BY <1>1, <1>2, FileTypes, Zenon
<1>4. PICK s, m : s = g.sector /\ m = open_inodes[OpenIdx(s)]
  OBVIOUS
<1>5. s \in OpenInodes
  BY <1>1, <1>3, <1>4, Zenon DEF IInv, OpenInv
<1>6. m \in Elems(open_inodes) /\ m.sector = s
  BY <1>2, <1>4, <1>5, OpenIdxFacts, Zenon
<1>7. m.deny_write_cnt = Cardinality(Denying(s))
  BY <1>6, Zenon DEF IInv, OpenInv, Counted
<1>8. /\ Cardinality(Denying(s)) \in Nat
      /\ (Cardinality(Denying(s)) = 0) <=> (Denying(s) = {})
  <2>1. Denying(s) \in SUBSET Handles
    BY HandleSets, Zenon
  <2> QED BY <2>1, HandleCounts, Zenon
<1>9. \/ op' = Idle /\ op'.pc = "idle"
      \/ op' \in WriteOp /\ op'.pc = "write" /\ op'.h = h /\ Denying(s) = {}
  <2>1. CASE m.deny_write_cnt > 0
    BY <1>3, <1>4, <2>1, Zenon DEF file_write, Idle
  <2>2. CASE ~(m.deny_write_cnt > 0)
    <3>1. op' = [pc |-> "write", h |-> h, value |-> v, left |-> n, at |-> g.pos] /\ g.pos \in Nat
      BY <1>3, <1>4, <2>2, Zenon DEF file_write, File
    <3>2. Denying(s) = {}
      BY <1>7, <1>8, <2>2
    <3> QED BY <3>1, <3>2, Zenon DEF WriteOp
  <2> QED BY <2>1, <2>2, Zenon
<1>10. op'.pc \in {"idle", "write"}
  BY <1>9, Zenon
<1>11. OpenInv' /\ LiveInodes' = LiveInodes /\ DirInv'
  BY <1>1, <1>10, SameOpen, SameDirInv, Zenon DEF IInv
<1>12. SpaceInv' /\ LeakInv' /\ MapInv'
  BY <1>1, <1>10, <1>11, QuietSpace, Zenon
<1>13. TypeOK'
  BY <1>1, <1>2, <1>9, Zenon DEF TypeOK
<1>14. OpInv'
  <2>1. op'.pc = "write" => file'[op'.h] # NONE /\ file'[op'.h].sector = s
    BY <1>1, <1>3, <1>4, <1>9, Zenon
  <2>2. op'.pc = "write" => Denying(s)' = {}
    BY <1>1, <1>9, Zenon DEF Denying
  <2> QED BY <1>10, <2>1, <2>2, Zenon DEF OpInv, Denying
<1> QED BY <1>11, <1>12, <1>13, <1>14, Zenon DEF IInv

\* A change of a handle's position.
LEMMA SamePos ==
  ASSUME IInv, op.pc # "erase", op'.pc # "erase", disk' = disk, open_inodes' = open_inodes,
         NEW h \in Handles, NEW g \in File, g = file[h], NEW f \in File, file' = [file EXCEPT ![h] = f],
         f.sector = g.sector, f.deny_write = g.deny_write
  PROVE  OpenInv' /\ LiveInodes' = LiveInodes
<1>1. Entries' = Entries /\ InodesInUse' = InodesInUse
  BY SameDir, Zenon
<1>2. OpenInodes' = OpenInodes /\ Elems(open_inodes)' = Elems(open_inodes)
  BY Zenon DEF OpenInodes, Elems
<1>3. f # NONE /\ g # NONE
  BY NoneNotFile, Zenon
<1>4. \A i \in Handles : IF i = h THEN file'[i] = f /\ file[i] = g ELSE file'[i] = file[i]
  BY Zenon DEF IInv, TypeOK
<1>5. \A s : /\ HandlesOn(s)' = HandlesOn(s) /\ Denying(s)' = Denying(s)
             /\ ~Erasing(s) /\ ~Erasing(s)'
  BY <1>3, <1>4 DEF HandlesOn, Denying, Erasing
<1>6. \A n : Counted(n)' <=> Counted(n)
  BY <1>1, <1>5, Zenon DEF Counted
<1>7. \A i \in Handles : file'[i] # NONE => file'[i].sector \in OpenInodes'
  BY <1>2, <1>3, <1>4 DEF IInv, OpenInv
<1> QED BY <1>1, <1>2, <1>6, <1>7, Zenon DEF IInv, OpenInv, LiveInodes

\* inode_write_at() writes to the sectors of its own file.
LEMMA WriteAtInv == ASSUME IInv, inode_write_at PROVE IInv'
<1>1. /\ op.pc = "write" /\ op \in WriteOp /\ op.h \in Handles
      /\ UNCHANGED <<free_map, open_inodes, leaky, crashes, ops>>
  BY OpTypes, Zenon DEF inode_write_at, IInv, WriteOp
<1>2. TypeOK /\ file[op.h] # NONE /\ Denying(file[op.h].sector) = {}
  BY <1>1, Zenon DEF IInv, OpInv
<1>3. PICK h, g : h = op.h /\ g = file[h] /\ g \in File
  BY <1>1, <1>2, FileTypes, Zenon
<1>4. CASE /\ op.left > 0 /\ op.at < Length(g.sector)
           /\ disk' = [disk EXCEPT !.data[Start(g.sector) + op.at] = op.value] /\ file' = file
           /\ op' = [op EXCEPT !.left = @ - 1, !.at = @ + 1]
  <2>1. PICK x : x = Start(g.sector) + op.at
    OBVIOUS
  <2>2. /\ disk' = [disk EXCEPT !.data[x] = op.value] /\ file' = file
        /\ op' = [op EXCEPT !.left = @ - 1, !.at = @ + 1]
    BY <1>4, <2>1, Zenon
  <2>3. op' \in WriteOp /\ op'.pc = "write" /\ op'.h = h
    <3>1. PICK o \in WriteOp : o = op
      BY <1>1, Zenon
    <3>2. o.left - 1 \in Nat /\ o.at + 1 \in Nat
      BY <1>4, <3>1 DEF WriteOp
    <3>3. op' = [o EXCEPT !.left = o.left - 1, !.at = o.at + 1]
      BY <2>2, <3>1, Zenon
    <3> QED BY <1>3, <3>1, <3>2, <3>3, Zenon DEF WriteOp
  <2>4. disk'.inode = disk.inode /\ disk'.map = disk.map /\ disk'.dir = disk.dir
    BY <1>2, <2>2, Zenon DEF TypeOK
  <2>5. OpenInv' /\ LiveInodes' = LiveInodes /\ DirInv'
    BY <1>1, <2>2, <2>3, <2>4, SameOpen, SameDirInv, Zenon DEF IInv
  <2>6. SpaceInv' /\ LeakInv' /\ MapInv'
    BY <1>1, <2>3, <2>4, <2>5, QuietSpace, Zenon
  <2>7. TypeOK'
    <3>1. op.value \in Values
      BY <1>1, Zenon DEF WriteOp
    <3> QED BY <1>1, <1>2, <2>2, <2>3, <3>1, Zenon DEF TypeOK
  <2>8. OpInv'
    BY <1>2, <1>3, <2>2, <2>3, Zenon DEF OpInv, Denying
  <2> QED BY <2>5, <2>6, <2>7, <2>8, Zenon DEF IInv
<1>5. CASE file' = [file EXCEPT ![op.h].pos = op.at] /\ op' = Idle /\ disk' = disk
  <2>1. PICK f : f = [g EXCEPT !.pos = op.at]
    BY Zenon
  <2>2. f \in File /\ f.sector = g.sector /\ f.deny_write = g.deny_write
    BY <1>1, <1>3, <2>1, Zenon DEF File, WriteOp
  <2>3. file' = [file EXCEPT ![h] = f] /\ op' = Idle /\ disk' = disk
    BY <1>3, <1>5, <2>1, Zenon
  <2>4. op'.pc = "idle"
    BY <2>3, Zenon DEF Idle
  <2>5. OpenInv' /\ LiveInodes' = LiveInodes
    BY <1>1, <1>2, <1>3, <2>2, <2>3, <2>4, SamePos, Zenon
  <2>6. DirInv'
    BY <2>3, SameDirInv, Zenon DEF IInv
  <2>7. SpaceInv' /\ LeakInv' /\ MapInv'
    BY <1>1, <2>3, <2>4, <2>5, QuietSpace, Zenon
  <2>8. TypeOK' /\ OpInv'
    BY <1>1, <1>2, <2>2, <2>3, <2>4, Zenon DEF TypeOK, OpInv
  <2> QED BY <2>5, <2>6, <2>7, <2>8, Zenon DEF IInv
<1> QED BY <1>3, <1>4, <1>5, Zenon DEF inode_write_at

\* file_seek() changes a position only.
LEMMA SeekInv ==
  ASSUME IInv, NEW h \in Handles, NEW pos \in Nat, file_seek(h, pos)
  PROVE  IInv'
<1>1. /\ op.pc = "idle" /\ op' = op /\ file[h] # NONE /\ ops' \in Nat
      /\ UNCHANGED <<disk, free_map, open_inodes, leaky, crashes>>
  BY DEF file_seek, Begins, Idle, IInv, TypeOK
<1>2. TypeOK
  BY Zenon DEF IInv
<1>3. PICK g \in File : g = file[h]
  BY <1>1, <1>2, FileTypes, Zenon
<1>4. PICK f : f = [g EXCEPT !.pos = pos]
  BY Zenon
<1>5. f \in File /\ f.sector = g.sector /\ f.deny_write = g.deny_write
  BY <1>4, Zenon DEF File
<1>6. file' = [file EXCEPT ![h] = f]
  BY <1>3, <1>4, Zenon DEF file_seek
<1>7. OpenInv' /\ LiveInodes' = LiveInodes
  BY <1>1, <1>2, <1>3, <1>5, <1>6, SamePos, Zenon
<1>8. DirInv'
  BY <1>1, SameDirInv, Zenon DEF IInv
<1>9. SpaceInv' /\ LeakInv' /\ MapInv'
  BY <1>1, <1>7, QuietSpace, Zenon
<1>10. TypeOK' /\ OpInv'
  BY <1>1, <1>2, <1>5, <1>6, Zenon DEF TypeOK, OpInv
<1> QED BY <1>7, <1>8, <1>9, <1>10, Zenon DEF IInv

\* A power failure between any two writes of the disk.
LEMMA RestartInv == ASSUME IInv, restart PROVE IInv'
<1>1. /\ crashes' \in Nat /\ free_map' = disk.map /\ open_inodes' = <<>>
      /\ file' = [h \in Handles |-> NONE] /\ op' = Idle /\ op'.pc = "idle" /\ leaky' = TRUE
      /\ UNCHANGED <<disk, ops>>
  BY DEF restart, Idle, IInv, TypeOK
<1>2. \A x \in Sectors : free_map[x] => free_map'[x]
  BY <1>1, Zenon DEF IInv, MapInv
<1>3. TypeOK'
  BY <1>1 DEF IInv, TypeOK
<1>4. Entries' = Entries /\ InodesInUse' = InodesInUse /\ DirInv'
  BY <1>1, SameDir, SameDirInv, Zenon DEF IInv
<1>5. OpenInodes' = {} /\ Elems(open_inodes)' = {} /\ DOMAIN open_inodes' = {}
  BY <1>1 DEF OpenInodes, Elems
<1>6. OpenInv'
  BY <1>1, <1>5, Zenon DEF OpenInv
<1>7. LiveInodes' \subseteq LiveInodes /\ Claimed' = {} /\ Allocated \subseteq Allocated'
  BY <1>1, <1>2, <1>4, <1>5, Zenon DEF LiveInodes, Claimed, Allocated
<1>8. \A s : Start(s)' = Start(s) /\ Length(s)' = Length(s) /\ SectorsOf(s)' = SectorsOf(s)
  BY <1>1, SameInodes, Zenon
<1>9. MapInv' /\ LeakInv' /\ OpInv'
  BY <1>1, <1>2, Zenon DEF IInv, MapInv, LeakInv, OpInv
<1>10. SpaceInv'
  BY <1>1, <1>7, <1>8, Zenon DEF IInv, SpaceInv
<1> QED BY <1>3, <1>4, <1>6, <1>9, <1>10, Zenon DEF IInv

\* Steps that change nothing keep the invariant.
LEMMA StutterInv == ASSUME IInv, UNCHANGED vars PROVE IInv'
<1>1. UNCHANGED <<disk, free_map, open_inodes, file, op, leaky, crashes, ops>>
  BY Zenon DEF vars
<1>2. /\ TypeOK' /\ MapInv' /\ DirInv' /\ Entries' = Entries /\ InodesInUse' = InodesInUse
  BY <1>1, SameDir, SameDirInv, Zenon DEF IInv, TypeOK, MapInv
<1>3. /\ OpenInodes' = OpenInodes /\ Elems(open_inodes)' = Elems(open_inodes) /\ Allocated' = Allocated
      /\ \A s : /\ HandlesOn(s)' = HandlesOn(s) /\ Denying(s)' = Denying(s)
                /\ Erasing(s)' <=> Erasing(s)
                /\ Start(s)' = Start(s) /\ Length(s)' = Length(s) /\ SectorsOf(s)' = SectorsOf(s)
  BY <1>1, SameInodes, Zenon DEF OpenInodes, Elems, Allocated, HandlesOn, Denying, Erasing
<1>4. LiveInodes' = LiveInodes /\ Claimed' = Claimed
  BY <1>1, <1>2, <1>3, Zenon DEF LiveInodes, Claimed, Start, Length
<1>5. \A n : Counted(n)' <=> Counted(n)
  BY <1>2, <1>3, Zenon DEF Counted
<1>6. OpenInv' /\ OpInv'
  BY <1>1, <1>2, <1>3, <1>5, Zenon DEF IInv, OpenInv, OpInv, Denying
<1>7. LeakInv' /\ SpaceInv'
  BY <1>1, <1>3, <1>4, Zenon DEF IInv, LeakInv, SpaceInv, Start, Length
<1> QED BY <1>2, <1>6, <1>7, Zenon DEF IInv

\* Every step of the file system keeps the invariant.
LEMMA StepInv == ASSUME Counting PROVE IInv /\ [Next]_vars => IInv'
<1> SUFFICES ASSUME IInv, [Next]_vars PROVE IInv'
  OBVIOUS
<1>1. ASSUME NEW n \in Names \union BadNames, NEW len \in Lengths, filesys_create(n, len) PROVE IInv'
  BY <1>1, CreateInv, Zenon
<1>2. ASSUME NEW n \in Names, filesys_remove(n) PROVE IInv'
  BY <1>2, RemoveInv, Zenon
<1>3. ASSUME NEW n \in Names, NEW h \in Handles, filesys_open(n, h) PROVE IInv'
  BY <1>3, OpenFileInv, Zenon
<1>4. ASSUME NEW h \in Handles, file_deny_write(h) \/ file_close(h) PROVE IInv'
  BY <1>4, DenyInv, CloseFileInv, Zenon
<1>5. ASSUME NEW h \in Handles, NEW v \in Values \ {0}, NEW n \in {2}, file_write(h, v, n) PROVE IInv'
  BY <1>5, StartWriteInv, Zenon
<1>6. ASSUME NEW h \in Handles, file_seek(h, 1) PROVE IInv'
  BY <1>6, SeekInv, Zenon
<1>7. CASE create_alloc_inode \/ create_alloc_data \/ create_inode \/ create_zero
  BY <1>7, AllocInodeInv, AllocDataInv, WriteInodeInv, ZeroInv, Zenon
<1>8. CASE dir_add \/ create_undo \/ dir_remove \/ release
  BY <1>8, DirAddInv, UndoInv, DirRemoveInv, ReleaseInv, Zenon
<1>9. CASE inode_write_at \/ restart
  BY <1>9, WriteAtInv, RestartInv, Zenon
<1>10. CASE Bound \/ UNCHANGED vars
  BY <1>10, StutterInv, Zenon DEF Bound
<1> QED BY <1>1, <1>2, <1>3, <1>4, <1>5, <1>6, <1>7, <1>8, <1>9, <1>10, Zenon DEF Next
-----------------------------------------------------------------------------
\* A name leads to the inode of the one entry that has it.
DirMapOK ==
    /\ DirMap \in [Names -> Sectors \union {NONE}]
    /\ \A n \in Names : (DirMap[n] = NONE) <=> (Slots(n) = {})
    /\ \A k \in Entries : disk.dir[k].name \in Names /\ DirMap[disk.dir[k].name] = disk.dir[k].inode_sector
    /\ \A n \in Names : DirMap[n] # NONE =>
         \E k \in Entries : disk.dir[k].name = n /\ disk.dir[k].inode_sector = DirMap[n]

\* The directory's map, in the present state and in the next.
LEMMA DirMapFacts ==
  ASSUME Counting
  PROVE  IInv => DirMapOK
<1> SUFFICES ASSUME IInv PROVE DirMapOK
  OBVIOUS
<1>1. TypeOK /\ DirInv /\ NONE \notin Sectors
  BY FileSysAssumption DEF IInv, Sectors
<1>2. \A n \in Names : Slots(n) # {} =>
        /\ lookup(n) \in Entries /\ disk.dir[lookup(n)].name = n /\ disk.dir[lookup(n)].inode_sector \in Sectors
  BY <1>1, LookupFacts, Zenon
<1>3. \A n \in Names : DirMap[n] = IF Slots(n) = {} THEN NONE ELSE disk.dir[lookup(n)].inode_sector
  BY Zenon DEF DirMap
<1>4. DirMap \in [Names -> Sectors \union {NONE}]
  BY <1>2, Zenon DEF DirMap
<1>5. \A n \in Names : (DirMap[n] = NONE) <=> (Slots(n) = {})
  BY <1>1, <1>2, <1>3, Zenon
<1>6. ASSUME NEW k \in Entries
      PROVE  disk.dir[k].name \in Names /\ DirMap[disk.dir[k].name] = disk.dir[k].inode_sector
  <2>1. PICK n : n = disk.dir[k].name
    OBVIOUS
  <2>2. n \in Names /\ k \in Slots(n)
    BY <1>1, <2>1, Zenon DEF DirInv, Entries, Slots
  <2>3. lookup(n) \in Entries /\ disk.dir[lookup(n)].name = n
    BY <1>2, <2>2, Zenon
  <2>4. lookup(n) = k
    BY <1>1, <2>1, <2>3, Zenon DEF DirInv
  <2> QED BY <1>3, <2>1, <2>2, <2>4, Zenon
<1>7. \A n \in Names : DirMap[n] # NONE =>
         \E k \in Entries : disk.dir[k].name = n /\ disk.dir[k].inode_sector = DirMap[n]
  BY <1>2, <1>3, <1>5, Zenon
<1> QED BY <1>4, <1>5, <1>6, <1>7, Zenon DEF DirMapOK

\* The same of the next state.
LEMMA DirMapPrimed ==
  ASSUME Counting
  PROVE  IInv' => DirMapOK'
<1>1. IInv => DirMapOK
  BY DirMapFacts, Zenon
<1> QED BY <1>1, PTL

\* The files that exist are those with a name and those with a handle.
LEMMA ExistsFacts ==
  ASSUME Counting
  PROVE  IInv => /\ Store!Exists(DirMap, OpenMap) = Existing
                 /\ Existing \subseteq LiveInodes /\ Existing \subseteq Sectors
<1> SUFFICES ASSUME IInv PROVE /\ Store!Exists(DirMap, OpenMap) = Existing
                               /\ Existing \subseteq LiveInodes /\ Existing \subseteq Sectors
  OBVIOUS
<1>1. DirMapOK /\ TypeOK /\ NONE \notin Sectors
  BY DirMapFacts, FileSysAssumption DEF IInv, Sectors
<1>2. {DirMap[n] : n \in Names} \ {NONE} = InodesInUse
  <2>1. \A k \in Entries : disk.dir[k].inode_sector \in Sectors
    BY <1>1, Zenon DEF Entries, TypeOK
  <2>2. ASSUME NEW n \in Names, DirMap[n] # NONE PROVE DirMap[n] \in InodesInUse
    BY <1>1, <2>2 DEF DirMapOK, InodesInUse
  <2>3. ASSUME NEW k \in Entries PROVE disk.dir[k].inode_sector \in {DirMap[n] : n \in Names} \ {NONE}
    BY <1>1, <2>1, Zenon DEF DirMapOK
  <2> QED BY <2>2, <2>3, Zenon DEF InodesInUse
<1>3. \A h \in Handles : (OpenMap[h] # NONE) <=> (file[h] # NONE)
  <2> TAKE h \in Handles
  <2>1. ASSUME file[h] # NONE PROVE OpenMap[h] # NONE
    <3>1. file[h] \in File
      BY <1>1, <2>1, FileTypes, Zenon
    <3>2. OpenMap[h] \in [file : Nat, deny : BOOLEAN]
      BY <2>1, <3>1, FileSysAssumption DEF OpenMap, File, Sectors
    <3> QED BY <3>2, FileSysAssumption, Zenon
  <2>2. ASSUME file[h] = NONE PROVE OpenMap[h] = NONE
    BY <2>2, Zenon DEF OpenMap
  <2> QED BY <2>1, <2>2, Zenon
<1>4. \A h \in Handles : file[h] # NONE => OpenMap[h].file = file[h].sector
  BY Zenon DEF OpenMap
<1>5. Store!OpenFiles(OpenMap) = OpenSectors
  BY <1>3, <1>4, Zenon DEF Store!OpenFiles, OpenSectors
<1>6. Store!Exists(DirMap, OpenMap) = Existing
  BY <1>2, <1>5, Zenon DEF Store!Exists, Existing
<1>7. OpenSectors \subseteq OpenInodes
  BY Zenon DEF OpenSectors, IInv, OpenInv
<1>8. Existing \subseteq LiveInodes
  BY <1>7, Zenon DEF Existing, LiveInodes
<1>9. InodesInUse \subseteq Sectors /\ OpenInodes \subseteq Sectors
  <2>1. \A k \in Entries : disk.dir[k].inode_sector \in Sectors
    BY <1>1, Zenon DEF Entries, TypeOK
  <2>2. \A i \in DOMAIN open_inodes : open_inodes[i] \in Inode
    BY <1>1 DEF TypeOK
  <2>3. \A n \in Inode : n.sector \in Sectors
    BY Zenon DEF Inode
  <2> QED BY <2>1, <2>2, <2>3, Zenon DEF InodesInUse, OpenInodes
<1> QED BY <1>6, <1>8, <1>7, <1>9, Zenon DEF Existing

\* The same of the next state.
LEMMA ExistsPrimed ==
  ASSUME Counting
  PROVE  IInv' => /\ Store!Exists(DirMap', OpenMap') = Existing'
                  /\ Existing' \subseteq LiveInodes' /\ Existing' \subseteq Sectors
<1>1. IInv => /\ Store!Exists(DirMap, OpenMap) = Existing
              /\ Existing \subseteq LiveInodes /\ Existing \subseteq Sectors
  BY ExistsFacts, Zenon
<1>2. (IInv => /\ Store!Exists(DirMap, OpenMap) = Existing
               /\ Existing \subseteq LiveInodes /\ Existing \subseteq Sectors)'
  BY <1>1, PTL
<1> QED BY <1>2, Zenon DEF Store!Exists, Store!OpenFiles

\* A file keeps its contents while its inode and its sectors are not written.
LEMMA SameContents ==
  ASSUME NEW s, disk'.inode[s] = disk.inode[s], Start(s) \in Int, Length(s) \in Int,
         \A x \in Group(Start(s), Length(s)) : disk'.data[x] = disk.data[x]
  PROVE  Contents(s)' = Contents(s)
<1>1. Start(s)' = Start(s) /\ Length(s)' = Length(s)
  BY Zenon DEF Start, Length
<1>2. \A i \in 1 .. Length(s) : Start(s) + i - 1 \in Group(Start(s), Length(s))
  BY DEF Group
<1> HIDE DEF Start, Length
<1> QED BY <1>1, <1>2, Zenon DEF Contents

\* The start and the length in an inode.
LEMMA InodeTypes ==
  ASSUME TypeOK, NEW s \in Sectors
  PROVE  Start(s) \in Sectors /\ Start(s) \in Int /\ Length(s) \in Int
<1>1. disk.inode[s] \in [start : Sectors, length : Int]
  BY Zenon DEF TypeOK
<1>2. Start(s) \in Sectors /\ Length(s) \in Int
  BY <1>1, Zenon DEF Start, Length
<1>3. Sectors \subseteq Int
  BY DEF Sectors
<1> QED BY <1>2, <1>3, Zenon

\* A step that writes no entry of the directory, no inode and no sector of a
\* file that exists, and that changes no handle but for its position, is one
\* that the users do not see.
LEMMA Unseen ==
  ASSUME Counting, IInv, disk'.dir = disk.dir,
         \A s \in Existing : disk'.inode[s] = disk.inode[s],
         \A s \in Existing : \A x \in Group(Start(s), Length(s)) : disk'.data[x] = disk.data[x],
         OpenMap' = OpenMap, OpenSectors' = OpenSectors
  PROVE  DirMap' = DirMap /\ DataMap' = DataMap /\ OpenMap' = OpenMap
<1>1. Entries' = Entries /\ InodesInUse' = InodesInUse
  BY SameDir, Zenon
<1>2. DirMap' = DirMap
  BY DEF DirMap, Slots, lookup, Lowest
<1>3. Existing' = Existing
  BY <1>1, Zenon DEF Existing
<1>4. \A s \in Existing : Contents(s)' = Contents(s)
  <2> TAKE s \in Existing
  <2>1. s \in Sectors /\ TypeOK
    BY ExistsFacts, Zenon DEF IInv
  <2> QED BY <2>1, InodeTypes, SameContents, Zenon
<1>5. DataMap' = DataMap
  BY <1>3, <1>4, Zenon DEF DataMap
<1> QED BY <1>2, <1>5, Zenon

\* The abstract handles depend on the handles only.
LEMMA SameFiles ==
  ASSUME file' = file
  PROVE  OpenMap' = OpenMap /\ OpenSectors' = OpenSectors
BY Zenon DEF OpenMap, OpenSectors

\* The steps of filesys_create() up to the write of the entry.
LEMMA CreateUnseen ==
  ASSUME Counting, IInv, create_alloc_inode \/ create_alloc_data \/ create_inode \/ create_zero
  PROVE  UNCHANGED <<DirMap, DataMap, OpenMap>>
<1>1. file' = file
  BY Zenon DEF create_alloc_inode, create_alloc_data, create_inode, create_zero
<1>2. TypeOK /\ Existing \subseteq LiveInodes /\ SpaceInv
  BY ExistsFacts, Zenon DEF IInv
<1>3. CASE create_alloc_inode \/ create_alloc_data
  <2>1. disk'.dir = disk.dir /\ disk'.inode = disk.inode /\ disk'.data = disk.data
    BY <1>2, <1>3, Zenon DEF create_alloc_inode, create_alloc_data, TypeOK
  <2> QED BY <1>1, <2>1, SameFiles, Unseen, Zenon
<1>4. CASE create_inode
  <2>1. op.pc = "inode" /\ op \in CreateOp /\ op.sector \in Sectors
    BY <1>2, <1>4, OpTypes, Zenon DEF create_inode, CreateOp
  <2>2. op.sector \notin LiveInodes
    BY <1>4, <2>1, NewSector, Zenon
  <2>3. PICK x, v : x = op.sector /\ v = [start |-> op.start, length |-> op.length]
    BY Zenon
  <2>4. disk' = [disk EXCEPT !.inode[x] = v]
    BY <1>4, <2>3, Zenon DEF create_inode
  <2>5. disk'.dir = disk.dir /\ disk'.inode = [disk.inode EXCEPT ![x] = v] /\ disk'.data = disk.data
    BY <1>2, <2>4, Zenon DEF TypeOK
  <2>6. \A s \in Existing : s # x /\ s \in Sectors
    BY <1>2, <2>2, <2>3, ExistsFacts, Zenon
  <2>7. \A s \in Existing : disk'.inode[s] = disk.inode[s]
    BY <1>2, <2>5, <2>6, Zenon DEF TypeOK
  <2> QED BY <1>1, <2>5, <2>7, SameFiles, Unseen, Zenon
<1>5. CASE create_zero
  <2>1. op.pc = "zero" /\ op \in CreateOp /\ op.start \in Sectors /\ op.i \in Nat /\ op.length \in Nat
    BY <1>2, <1>5, OpTypes, FileSysAssumption, Zenon DEF create_zero, CreateOp
  <2>2. CASE op.i < op.length
    <3>1. PICK x : x = op.start + op.i
      OBVIOUS
    <3>2. disk' = [disk EXCEPT !.data[x] = 0]
      BY <1>5, <2>2, <3>1, Zenon DEF create_zero
    <3>3. disk'.dir = disk.dir /\ disk'.inode = disk.inode /\ disk'.data = [disk.data EXCEPT ![x] = 0]
      BY <1>2, <3>2, Zenon DEF TypeOK
    <3>4. x \in Group(op.start, op.length)
      BY <2>1, <2>2, <3>1 DEF Group, Sectors
    <3>5. x \in Claimed
      BY <2>1, <3>4, Zenon DEF Claimed
    <3>6. \A s \in Existing : x \notin SectorsOf(s) /\ SectorsOf(s) \subseteq Allocated
      BY <1>2, <3>5, Zenon DEF SpaceInv
    <3>7. \A s \in Existing : \A y \in Group(Start(s), Length(s)) : y # x /\ y \in Sectors
      BY <3>6, Zenon DEF SectorsOf, Allocated
    <3>8. \A s \in Existing : \A y \in Group(Start(s), Length(s)) : disk'.data[y] = disk.data[y]
      BY <1>2, <3>3, <3>7, Zenon DEF TypeOK
    <3> QED BY <1>1, <3>3, <3>8, SameFiles, Unseen, Zenon
  <2>3. CASE ~(op.i < op.length)
    <3>1. disk' = disk
      BY <1>5, <2>3, Zenon DEF create_zero
    <3> QED BY <1>1, <3>1, SameFiles, Unseen, Zenon
  <2> QED BY <2>2, <2>3, Zenon
<1> QED BY <1>3, <1>4, <1>5, Zenon

\* The write of the entry makes the new file, filled with zeros, appear.
LEMMA DirAddStore ==
  ASSUME Counting, IInv, IInv', dir_add
  PROVE  \/ UNCHANGED <<DirMap, DataMap, OpenMap>>
         \/ \E n \in Names, len \in Lengths : Store!Create(n, len)
<1>1. TypeOK /\ op.pc = "dir_add" /\ op \in CreateOp /\ file' = file
  BY OpTypes, Zenon DEF IInv, dir_add
<1>2. CASE disk' = disk
  BY <1>1, <1>2, SameFiles, Unseen, Zenon
<1>3. CASE /\ op.name \notin BadNames /\ Slots(op.name) = {} /\ FreeSlots # {}
           /\ disk' = [disk EXCEPT !.dir[Lowest(FreeSlots)] =
                         [in_use |-> TRUE, name |-> op.name, inode_sector |-> op.sector]]
  <2>1. PICK nm, sec, len, k : nm = op.name /\ sec = op.sector /\ len = op.length /\ k = Lowest(FreeSlots)
    OBVIOUS
  <2>2. nm \in Names /\ sec \in Sectors /\ len \in Lengths /\ len \in Nat /\ Slots(nm) = {}
    BY <1>1, <1>3, <2>1, FileSysAssumption, Zenon DEF CreateOp
  <2>3. k \in 1 .. EntryCnt /\ ~disk.dir[k].in_use
    BY <1>3, <2>1, FreeSlotFacts, Zenon
  <2>4. PICK e : e = [in_use |-> TRUE, name |-> nm, inode_sector |-> sec]
    BY Zenon
  <2>5. disk' = [disk EXCEPT !.dir[k] = e]
    BY <1>3, <2>1, <2>4, Zenon
  <2>6. disk'.dir = [disk.dir EXCEPT ![k] = e] /\ disk'.inode = disk.inode /\ disk'.data = disk.data
    BY <1>1, <2>5, Zenon DEF TypeOK
  <2>7. /\ disk'.dir[k] = e
        /\ \A j \in 1 .. EntryCnt : j # k => disk'.dir[j] = disk.dir[j]
    BY <1>1, <2>3, <2>6, Zenon DEF TypeOK
  <2>8. k \notin Entries /\ Entries' = Entries \union {k} /\ \A j \in Entries : disk'.dir[j] = disk.dir[j]
    BY <2>3, <2>4, <2>7 DEF Entries
  <2>9. InodesInUse' = InodesInUse \union {sec}
    BY <2>4, <2>7, <2>8 DEF InodesInUse
  <2>10. OpenMap' = OpenMap /\ OpenSectors' = OpenSectors /\ Existing' = Existing \union {sec}
    BY <1>1, <2>9, SameFiles, Zenon DEF Existing
  <2>11. sec \notin LiveInodes /\ sec \notin Existing
    BY <1>1, <2>1, NewSector, ExistsFacts, Zenon
  <2>12. DirMapOK /\ DirMapOK'
    BY DirMapFacts, DirMapPrimed, Zenon
  <2>13. DirMap[nm] = NONE /\ NONE \notin Sectors
    BY <2>2, <2>12, FileSysAssumption DEF DirMapOK, Sectors
  <2>14. DirMap' = [DirMap EXCEPT ![nm] = sec]
    <3>1. DirMap'[nm] = sec
      <4>1. k \in Entries' /\ disk'.dir[k].name = nm /\ disk'.dir[k].inode_sector = sec
        BY <2>4, <2>7, <2>8
      <4>2. \A j \in Entries' : DirMap'[disk'.dir[j].name] = disk'.dir[j].inode_sector
        BY <2>12, Zenon DEF DirMapOK
      <4> QED BY <4>1, <4>2, Zenon
    <3>2. ASSUME NEW m \in Names, m # nm PROVE DirMap'[m] = DirMap[m]
      <4>1. CASE DirMap[m] # NONE
        BY <2>8, <2>12, <4>1, <3>2 DEF DirMapOK
      <4>2. CASE DirMap'[m] # NONE
        <5>1. PICK j \in Entries' : disk'.dir[j].name = m /\ disk'.dir[j].inode_sector = DirMap'[m]
          BY <2>12, <3>2, <4>2, Zenon DEF DirMapOK
        <5>2. j # k
          BY <2>4, <2>7, <3>2, <5>1
        <5> QED BY <2>8, <2>12, <5>1, <5>2 DEF DirMapOK
      <4> QED BY <4>1, <4>2, Zenon
    <3>3. DirMap \in [Names -> Sectors \union {NONE}] /\ DirMap' \in [Names -> Sectors \union {NONE}]
      BY <2>12, Zenon DEF DirMapOK
    <3> QED BY <2>2, <3>1, <3>2, <3>3, Zenon
  <2>15. \A s \in Existing : Contents(s)' = Contents(s)
    <3> TAKE s \in Existing
    <3>1. s \in Sectors
      BY ExistsFacts, Zenon
    <3> QED BY <1>1, <2>6, <3>1, InodeTypes, SameContents, Zenon
  <2>16. Contents(sec)' = Store!Zeros(len)
    <3>1. /\ disk.inode[sec] = [start |-> op.start, length |-> len]
          /\ \A i \in 0 .. (len - 1) : disk.data[op.start + i] = 0
      BY <1>1, <2>1, Zenon DEF IInv, OpInv
    <3>2. PICK st \in Int : st = op.start
      BY <1>1 DEF CreateOp, Sectors
    <3>3. Start(sec)' = st /\ Length(sec)' = len
      BY <2>6, <3>1, <3>2 DEF Start, Length
    <3>4. \A i \in 1 .. len : disk'.data[st + i - 1] = 0
      <4> TAKE i \in 1 .. len
      <4>1. i - 1 \in 0 .. (len - 1) /\ st + i - 1 = st + (i - 1)
        BY <2>2
      <4> QED BY <2>6, <3>1, <3>2, <4>1, Zenon
    <3> QED BY <3>3, <3>4, Zenon DEF Contents, Store!Zeros
  <2>17. DataMap' = [DataMap EXCEPT ![sec] = Store!Zeros(len)]
    <3>1. \A s \in Sectors : DataMap'[s] = IF s = sec THEN Store!Zeros(len) ELSE DataMap[s]
      BY <2>10, <2>11, <2>15, <2>16, Zenon DEF DataMap
    <3>2. DataMap' = [s \in Sectors |-> DataMap'[s]] /\ DataMap = [s \in Sectors |-> DataMap[s]]
      BY Zenon DEF DataMap
    <3> HIDE DEF DataMap
    <3> QED BY <2>2, <3>1, <3>2, Zenon
  <2>18. sec \in Sectors \ Store!Exists(DirMap, OpenMap)
    BY <2>2, <2>11, ExistsFacts, Zenon
  <2>19. Store!Create(nm, len)
    BY <2>10, <2>13, <2>14, <2>17, <2>18, Zenon DEF Store!Create
  <2> QED BY <2>2, <2>19, Zenon
<1> QED BY <1>2, <1>3, Zenon DEF dir_add

\* The contents of what still exists after a step that writes no file.
LEMMA KeepFacts ==
  ASSUME Counting, IInv, IInv', disk'.inode = disk.inode, disk'.data = disk.data, Existing' \subseteq Existing
  PROVE  DataMap' = Store!Keep(DirMap', OpenMap', DataMap)
<1>1. \A s \in Existing : Contents(s)' = Contents(s)
  <2> TAKE s \in Existing
  <2>1. s \in Sectors /\ TypeOK
    BY ExistsFacts, Zenon DEF IInv
  <2> QED BY <2>1, InodeTypes, SameContents, Zenon
<1>2. Store!Exists(DirMap', OpenMap') = Existing'
  BY ExistsPrimed, Zenon
<1>3. \A s \in Sectors : DataMap'[s] = IF s \in Existing' THEN DataMap[s] ELSE <<>>
  BY <1>1, Zenon DEF DataMap
<1>4. DataMap' = [s \in Sectors |-> DataMap'[s]]
  BY Zenon DEF DataMap
<1> HIDE DEF DataMap
<1> QED BY <1>2, <1>3, <1>4, Zenon DEF Store!Keep

\* A removed file loses its name at the write of its entry.
LEMMA ErasedStore ==
  ASSUME Counting, IInv, IInv', dir_remove, disk' = [disk EXCEPT !.dir[op.slot].in_use = FALSE]
  PROVE  \E n \in Names : Store!Remove(n)
<1>1. TypeOK /\ op.pc = "erase" /\ op.slot \in Entries /\ file' = file
  BY Zenon DEF dir_remove, IInv, OpenInv
<1>2. PICK e, nm : e = op.slot /\ nm = disk.dir[e].name
  OBVIOUS
<1>3. e \in Entries /\ e \in 1 .. EntryCnt
  BY <1>1, <1>2, Zenon DEF Entries
<1>4. disk' = [disk EXCEPT !.dir[e].in_use = FALSE]
  BY <1>2, Zenon
<1>5. /\ disk'.inode = disk.inode /\ disk'.data = disk.data
      /\ disk'.dir = [disk.dir EXCEPT ![e].in_use = FALSE]
  BY <1>1, <1>4, Zenon DEF TypeOK
<1>6. PICK x \in [in_use : BOOLEAN, name : Names \union BadNames \union {NONE}, inode_sector : Sectors] :
        x = disk.dir[e]
  BY <1>1, <1>3, Zenon DEF TypeOK
<1>7. PICK y : y = [x EXCEPT !.in_use = FALSE]
  BY Zenon
<1>8. y.in_use = FALSE
  BY <1>7, Zenon
<1>9. disk'.dir = [disk.dir EXCEPT ![e] = y]
  BY <1>5, <1>6, <1>7, Zenon
<1>10. \A i \in 1 .. EntryCnt : IF i = e THEN disk'.dir[i] = y ELSE disk'.dir[i] = disk.dir[i]
  BY <1>1, <1>3, <1>9, Zenon DEF TypeOK
<1>11. Entries' = Entries \ {e} /\ \A j \in Entries' : disk'.dir[j] = disk.dir[j]
  BY <1>8, <1>10, Zenon DEF Entries
<1>12. DirMapOK /\ DirMapOK'
  BY DirMapFacts, DirMapPrimed, Zenon
<1>13. nm \in Names /\ DirMap[nm] = disk.dir[e].inode_sector
  BY <1>2, <1>3, <1>12, Zenon DEF DirMapOK
<1>14. DirMap[nm] # NONE
  BY <1>6, <1>13, FileSysAssumption DEF Sectors
<1>15. DirMap' = [DirMap EXCEPT ![nm] = NONE]
  <2>1. DirMap'[nm] = NONE
    <3> SUFFICES ASSUME DirMap'[nm] # NONE PROVE FALSE
      OBVIOUS
    <3>1. PICK j \in Entries' : disk'.dir[j].name = nm
      BY <1>12, <1>13, Zenon DEF DirMapOK
    <3>2. j \in Entries /\ j # e /\ disk.dir[j].name = nm
      BY <1>11, <3>1, Zenon
    <3> QED BY <1>2, <1>3, <3>2, Zenon DEF IInv, DirInv
  <2>2. ASSUME NEW m \in Names, m # nm PROVE DirMap'[m] = DirMap[m]
    <3>1. CASE DirMap'[m] # NONE
      <4>1. PICK j \in Entries' : disk'.dir[j].name = m /\ disk'.dir[j].inode_sector = DirMap'[m]
        BY <1>12, <2>2, <3>1, Zenon DEF DirMapOK
      <4> QED BY <1>11, <1>12, <4>1 DEF DirMapOK
    <3>2. CASE DirMap[m] # NONE
      <4>1. PICK j \in Entries : disk.dir[j].name = m /\ disk.dir[j].inode_sector = DirMap[m]
        BY <1>12, <2>2, <3>2, Zenon DEF DirMapOK
      <4>2. j \in Entries' /\ disk'.dir[j] = disk.dir[j]
        BY <1>2, <1>11, <2>2, <4>1, Zenon
      <4> QED BY <1>12, <4>1, <4>2 DEF DirMapOK
    <3> QED BY <3>1, <3>2, Zenon
  <2>3. DirMap \in [Names -> Sectors \union {NONE}] /\ DirMap' \in [Names -> Sectors \union {NONE}]
    BY <1>12, Zenon DEF DirMapOK
  <2> QED BY <2>1, <2>2, <2>3, Zenon
<1>16. OpenMap' = OpenMap /\ OpenSectors' = OpenSectors
  BY <1>1, SameFiles, Zenon
<1>17. Existing' \subseteq Existing
  BY <1>11, <1>16, Zenon DEF Existing, InodesInUse
<1>18. DataMap' = Store!Keep(DirMap', OpenMap', DataMap)
  BY <1>5, <1>17, KeepFacts, Zenon
<1>19. DataMap' = Store!Keep(DirMap', OpenMap, DataMap)
  BY <1>16, <1>18, Zenon
<1>20. Store!Remove(nm)
  BY <1>14, <1>15, <1>16, <1>19, Zenon DEF Store!Remove
<1> QED BY <1>13, <1>20, Zenon

\* dir_remove() removes a file or, when it cannot write the entry, is not seen.
LEMMA DirRemoveStore ==
  ASSUME Counting, IInv, IInv', dir_remove
  PROVE  UNCHANGED <<DirMap, DataMap, OpenMap>> \/ \E n \in Names : Store!Remove(n)
<1>1. CASE disk' = [disk EXCEPT !.dir[op.slot].in_use = FALSE]
  BY <1>1, ErasedStore, Zenon
<1>2. CASE disk' = disk
  <2>1. file' = file
    BY Zenon DEF dir_remove
  <2> QED BY <1>2, <2>1, SameFiles, Unseen, Zenon
<1> QED BY <1>1, <1>2, Zenon DEF dir_remove
=============================================================================
