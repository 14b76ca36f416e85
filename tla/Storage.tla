------------------------------ MODULE Storage -------------------------------
(* Where bytes are kept: partitions (devices/partition.c), block devices and *)
(* their roles (devices/block.c, threads/init.c), the bytes of a file        *)
(* (filesys/inode.c), archives on the scratch device (filesys/fsutil.c), the *)
(* page pools and the kernel's own mapping (threads/palloc.c, init.c), with  *)
(* what each must give.                                                      *)
EXTENDS Loader

CONSTANTS DevSize,     \* sectors of the disk
          SectorBits,  \* bits of a sector number
          SECTOR,      \* BLOCK_SECTOR_SIZE
          MaxNesting,  \* calls of read_partition_table() the kernel stack has room for
          MapHeader,   \* bytes of a struct bitmap
          MapWord      \* bytes of an elem_type

Sector(n) == n % (2 ^ SectorBits)
-----------------------------------------------------------------------------
(* Partitions; the table that is read is always the one in sector 0 *)

Types == [kernel |-> "BLOCK_KERNEL", filesys |-> "BLOCK_FILESYS", scratch |-> "BLOCK_SCRATCH",
          swap |-> "BLOCK_SWAP", linux |-> "BLOCK_FOREIGN"]
\* MUTANT: the end of the partition may be past the device's
found_partition_end(type, start, size, nr) ==
    IF start >= DevSize THEN <<>> ELSE <<[nr |-> nr, type |-> Types[type], start |-> start, size |-> size]>>
found_partition(type, start, size, nr) ==
    IF start >= DevSize \/ Sector(start + size) < start \/ Sector(start + size) > DevSize THEN <<>>
    ELSE <<[nr |-> nr, type |-> Types[type], start |-> start, size |-> size]>>
\* acc: the partitions registered and the number of the last one found; the
\* walk ends where the kernel stack does
RECURSIVE ReadEntries(_, _, _, _, _, _)
read_partition_table(table, sector, primary, depth, acc) ==
    IF sector >= DevSize \/ ~table.signed THEN acc
    ELSE IF depth = MaxNesting THEN [acc EXCEPT !.overflow = TRUE]
    ELSE ReadEntries(table, 1, sector, primary, depth, acc)
ReadEntries(table, i, sector, primary, depth, acc) ==
    IF i > Len(table.entries) \/ acc.overflow THEN acc
    ELSE LET e == table.entries[i]
             nested == IF sector = 0 THEN read_partition_table(table, e.offset, e.offset, depth + 1, acc)
                       ELSE read_partition_table(table, Sector(e.offset + primary), primary, depth + 1, acc)
             found == [acc EXCEPT !.nr = @ + 1,
                                  !.blocks = @ \o found_partition(e.type, Sector(e.offset + sector), e.size, acc.nr + 1)]
         IN  ReadEntries(table, i + 1, sector, primary, depth,
                         CASE e.size = 0 \/ e.type = "empty" -> acc
                           [] e.size > 0 /\ e.type = "extended" -> nested
                           [] OTHER -> found)
partition_scan(table) == read_partition_table(table, 0, 0, 0, [nr |-> 0, blocks |-> <<>>, overflow |-> FALSE])
\* block_read() or block_write() of a partition: the sector of the disk, or the PANIC
check_sector(sector, size) == sector < size
partition_read(p, sector) ==
    IF check_sector(sector, p.size) /\ check_sector(Sector(p.start + sector), DevSize) THEN Sector(p.start + sector) ELSE 0 - 1
-----------------------------------------------------------------------------
(* Roles; blocks is all_blocks, a device is known by its name *)

block_get_by_name(blocks, name) == {i \in DOMAIN blocks : blocks[i].nr = name /\ \A j \in 1 .. (i - 1) : blocks[j].nr # name}
FirstOfType(blocks, role) == {i \in DOMAIN blocks : blocks[i].type = role /\ \A j \in 1 .. (i - 1) : blocks[j].type # role}
locate_block_device(blocks, role, name) ==
    LET found == IF name # 0 THEN block_get_by_name(blocks, name) ELSE FirstOfType(blocks, role)
    IN  CASE found # {} -> blocks[CHOOSE i \in found : TRUE].nr
          [] found = {} /\ name # 0 -> 0 - 1
          [] OTHER -> 0
-----------------------------------------------------------------------------
(* The bytes of an inode; disk[s] is a sector's sequence of bytes *)

byte_to_sector(inode, pos) == IF pos < inode.length THEN inode.start + pos \div SECTOR ELSE 0 - 1
Chunk(inode, size, offset) ==
    LET left == inode.length - offset
        sector_left == SECTOR - (offset % SECTOR)
        min_left == IF left < sector_left THEN left ELSE sector_left
    IN  IF size < min_left THEN size ELSE min_left
\* a part of a sector goes through a bounce buffer, for which there may be no memory
Whole(chunk, offset) == offset % SECTOR = 0 /\ chunk = SECTOR
Goes(inode, size, offset, memory) ==
    LET n == Chunk(inode, size, offset) IN size > 0 /\ n > 0 /\ (Whole(n, offset) \/ memory)
RECURSIVE inode_read_at(_, _, _, _, _)
inode_read_at(disk, inode, size, offset, memory) ==
    LET n == Chunk(inode, size, offset)
        s == disk[byte_to_sector(inode, offset)]
    IN  IF ~Goes(inode, size, offset, memory) THEN <<>>
        ELSE SubSeq(s, (offset % SECTOR) + 1, (offset % SECTOR) + n) \o inode_read_at(disk, inode, size - n, offset + n, memory)
RECURSIVE WriteAt(_, _, _, _, _, _)
WriteAt(disk, inode, buffer, offset, memory, written) ==
    LET n == Chunk(inode, Len(buffer), offset)
        s == byte_to_sector(inode, offset)
        ofs == offset % SECTOR
        old == IF ofs > 0 \/ n < SECTOR - ofs THEN disk[s] ELSE [i \in 1 .. SECTOR |-> 0]
        new == [i \in 1 .. SECTOR |-> IF i > ofs /\ i <= ofs + n THEN buffer[i - ofs] ELSE old[i]]
    IN  IF ~Goes(inode, Len(buffer), offset, memory) THEN [disk |-> disk, written |-> written]
        ELSE WriteAt([disk EXCEPT ![s] = new], inode, Drop(buffer, n), offset + n, memory, written + n)
inode_write_at(disk, inode, buffer, offset, memory) ==
    IF inode.deny THEN [disk |-> disk, written |-> 0] ELSE WriteAt(disk, inode, buffer, offset, memory, 0)
-----------------------------------------------------------------------------
(* Archives; the archive is the sequence of the scratch device's sectors: a  *)
(* header, the bytes of a file padded with zeros, or zeros.  A PANIC stops    *)
(* the machine and leaves ok FALSE.                                           *)

Zeros == [kind |-> "zeros"]
HeaderSector(type, name, size) == [kind |-> "header", type |-> type, name |-> name, size |-> size]
RECURSIVE DataSectors(_)
DataSectors(bytes) ==
    IF bytes = <<>> THEN <<>>
    ELSE LET n == IF Len(bytes) > SECTOR THEN SECTOR ELSE Len(bytes)
         IN  <<[kind |-> "data", bytes |-> [i \in 1 .. SECTOR |-> IF i <= n THEN bytes[i] ELSE 0]]>> \o DataSectors(Drop(bytes, n))
Put(dev, sector, s) == [dev EXCEPT ![sector + 1] = s]
RECURSIVE PutAll(_, _, _)
PutAll(dev, sector, ss) == IF ss = <<>> THEN dev ELSE PutAll(Put(dev, sector, Head(ss)), sector + 1, Tail(ss))
\* a.next is the static sector of fsutil_append()
fsutil_append(a, name, bytes) ==
    LET ss == <<HeaderSector("regular", name, Len(bytes))>> \o DataSectors(bytes)
        next == a.next + Len(ss)
    IN  IF ~a.ok \/ next + 2 > Len(a.dev) THEN [a EXCEPT !.ok = FALSE]
        ELSE [a EXCEPT !.dev = PutAll(a.dev, a.next, ss \o <<Zeros, Zeros>>), !.next = next]
RECURSIVE CopyOut(_, _, _)
CopyOut(dev, sector, size) ==
    IF size <= 0 THEN <<>>
    ELSE SubSeq(dev[sector + 1].bytes, 1, IF size > SECTOR THEN SECTOR ELSE size) \o CopyOut(dev, sector + 1, size - SECTOR)
\* filesys_create() fails on a name that is taken; x.sector is the static sector
\* of fsutil_extract()
RECURSIVE Extract(_, _)
Extract(dev, x) ==
    LET h == dev[x.sector + 1]
        after == x.sector + 1
        data == (h.size + SECTOR - 1) \div SECTOR
        file == <<h.name, CopyOut(dev, after, h.size)>>
    IN  CASE x.sector >= Len(dev) -> [x EXCEPT !.ok = FALSE]
          [] x.sector < Len(dev) /\ h = Zeros -> [x EXCEPT !.sector = after]
          [] x.sector < Len(dev) /\ h.kind = "data" -> [x EXCEPT !.ok = FALSE]
          [] OTHER ->
               CASE h.type = "directory" -> Extract(dev, [x EXCEPT !.sector = after])
                 [] h.type = "regular" /\ ((\E f \in Members(x.files) : f[1] = h.name) \/ after + data > Len(dev)) -> [x EXCEPT !.ok = FALSE]
                 [] OTHER -> Extract(dev, [x EXCEPT !.sector = after + data, !.files = Append(@, file)])
\* the headers are erased from the device
fsutil_extract(x) ==
    LET e == Extract(x.dev, x) IN IF e.ok THEN [e EXCEPT !.dev = PutAll(@, 0, <<Zeros, Zeros>>)] ELSE e
-----------------------------------------------------------------------------
(* Memory; sizes in pages, addresses in pages from the start of free memory *)

bitmap_buf_size(bits) == MapHeader + MapWord * ((bits + 8 * MapWord - 1) \div (8 * MapWord))
init_pool(base, page_cnt) ==
    LET bm == (bitmap_buf_size(page_cnt) + PGSIZE - 1) \div PGSIZE
    IN  [ok |-> bm <= page_cnt, map |-> base, base |-> base + bm, pages |-> page_cnt - bm]
palloc_init(free_pages, user_page_limit) ==
    LET user == IF free_pages \div 2 > user_page_limit THEN user_page_limit ELSE free_pages \div 2
    IN  [kernel |-> init_pool(0, free_pages - user), user |-> init_pool(free_pages - user, user)]
page_from_pool(pool, page) == page >= pool.base /\ page < pool.base + pool.pages
\* paging_init(): a table is made for the first page it maps; text is read-only
RECURSIVE PagingInit(_, _, _, _)
PagingInit(page, ram, text, pd) ==
    IF page = ram THEN pd
    ELSE LET t == page \div PTES
             with == IF t \in DOMAIN pd THEN pd ELSE [k \in DOMAIN pd \union {t} |-> IF k = t THEN <<>> ELSE pd[k]]
         IN  PagingInit(page + 1, ram, text,
                        [with EXCEPT ![t] = [k \in DOMAIN @ \union {page % PTES} |->
                                               IF k = page % PTES THEN [frame |-> page, writable |-> page \notin text] ELSE @[k]]])
paging_init(ram, text) == PagingInit(0, ram, text, <<>>)
-----------------------------------------------------------------------------
(* What they must give *)

\* A table without extended partitions gives each entry that lies on the disk,
\* in order and numbered as it stands in the table; no partition reaches past
\* the disk, and no access to one leaves it.
PartitionsRight(table, r) ==
    LET plain == {i \in DOMAIN table.entries : table.entries[i].size > 0 /\ table.entries[i].type # "empty"}
        inside == {i \in plain : table.entries[i].offset + table.entries[i].size <= DevSize}
        nrOf(i) == Cardinality({j \in plain : j <= i})
    IN  /\ \A k \in DOMAIN r.blocks : r.blocks[k].start + r.blocks[k].size <= DevSize
        /\ \A k \in DOMAIN r.blocks : \A s \in 0 .. DevSize :
             LET a == partition_read(r.blocks[k], s)
             IN  IF s < r.blocks[k].size THEN a = r.blocks[k].start + s ELSE a = 0 - 1
        /\ ~table.signed => r.blocks = <<>>
        /\ table.signed /\ (\A i \in plain : table.entries[i].type # "extended") =>
             {<<b.nr, b.type, b.start, b.size>> : b \in {r.blocks[k] : k \in DOMAIN r.blocks}}
               = {<<nrOf(i), Types[table.entries[i].type], table.entries[i].offset, table.entries[i].size>> : i \in inside}
        /\ \A k \in 1 .. (Len(r.blocks) - 1) : r.blocks[k].nr < r.blocks[k + 1].nr
        /\ \A name \in 0 .. 3 :
             LET b == locate_block_device(r.blocks, "BLOCK_FILESYS", name)
                 nrs == {r.blocks[k].nr : k \in DOMAIN r.blocks}
                 fits == {r.blocks[k].nr : k \in {j \in DOMAIN r.blocks : r.blocks[j].type = "BLOCK_FILESYS"}}
             IN  IF name # 0 THEN b = (IF name \in nrs THEN name ELSE 0 - 1) ELSE b = Least(fits)
Flat(disk, inode) == [i \in 1 .. inode.length |-> disk[inode.start + (i - 1) \div SECTOR][((i - 1) % SECTOR) + 1]]
Between(offset, size, length) == IF offset >= length THEN 0 ELSE IF size < length - offset THEN size ELSE length - offset
BytesRight(c, r) ==
    LET before == Flat(c.disk, c.inode)
        after == Flat(r.write.disk, c.inode)
        n == Between(c.offset, c.size, c.inode.length)
        w == r.write.written
    IN  /\ c.memory => Len(r.read) = n /\ w = (IF c.inode.deny THEN 0 ELSE n)
        /\ Len(r.read) <= n /\ w <= n
        /\ \A i \in DOMAIN r.read : r.read[i] = before[c.offset + i]
        /\ \A i \in DOMAIN after : after[i] = IF i > c.offset /\ i <= c.offset + w THEN 9 ELSE before[i]
        /\ \A s \in DOMAIN c.disk : \A i \in 1 .. SECTOR :
             (s - c.inode.start) * SECTOR + i \notin 1 .. c.inode.length => r.write.disk[s][i] = c.disk[s][i]
\* Every file that was appended comes out once, with its bytes, and directories
\* are passed over; a second extraction, with or without a restart, finds
\* nothing.  A name that occurs twice is a PANIC.
ArchiveRight(files, r) ==
    LET distinct == \A i, j \in DOMAIN files : files[i][1] = files[j][1] => i = j
    IN  r.ok => /\ r.out.ok = distinct
                /\ distinct => /\ r.out.files = files
                               /\ \A x \in {r.again, r.restarted} : x.ok /\ x.files = files
RegionsOf(pool) == pool.map .. (pool.base + pool.pages - 1)
PoolsRight(free, limit, r) ==
    r.kernel.ok /\ r.user.ok =>
      /\ RegionsOf(r.kernel) \cap RegionsOf(r.user) = {}
      /\ RegionsOf(r.kernel) \union RegionsOf(r.user) = 0 .. (free - 1)
      /\ r.user.base - r.user.map + r.user.pages <= limit
      /\ \A pool \in {r.kernel, r.user} : bitmap_buf_size(pool.pages) <= (pool.base - pool.map) * PGSIZE
      /\ \A page \in 0 .. (free - 1) : ~(page_from_pool(r.kernel, page) /\ page_from_pool(r.user, page))
PagingRight(ram, text, pd) ==
    /\ \A page \in 0 .. (ram - 1) : pd[page \div PTES][page % PTES] = [frame |-> page, writable |-> page \notin text]
    /\ Cardinality(UNION {{<<t, k>> : k \in DOMAIN pd[t]} : t \in DOMAIN pd}) = ram
-----------------------------------------------------------------------------
(* The calls, their results and what is right *)

Entries == [type : {"empty", "extended", "filesys", "swap", "linux"}, offset : {1, 3, 6}, size : {0, 2, 7}]
Disk0 == [s \in 0 .. 3 |-> [i \in 1 .. SECTOR |-> s * SECTOR + i]]
FileSets == UNION {[1 .. n -> {<<"a", <<>>>>, <<"b", <<1>>>>, <<"c", <<2, 3, 4>>>>}] : n \in 0 .. 3}
StorageCalls ==
    [fn : {"scan"}, table : [signed : BOOLEAN, entries : {<<d, e>> : d \in Entries, e \in Entries}]]
    \union [fn : {"bytes"}, disk : {Disk0}, inode : [start : {1}, length : 0 .. 5, deny : BOOLEAN],
            size : 0 .. 6, offset : 0 .. 6, memory : BOOLEAN]
    \union [fn : {"archive"}, files : FileSets, dir : BOOLEAN, sectors : {4, 12}]
    \union [fn : {"pools"}, free : 1 .. 14, limit : {0, 2, 100}]
    \union [fn : {"paging"}, ram : 1 .. 6, text : {{1}, {1, 2}}]
RECURSIVE AppendAll(_, _)
AppendAll(a, files) == IF files = <<>> THEN a ELSE AppendAll(fsutil_append(a, Head(files)[1], Head(files)[2]), Tail(files))
\* an archive that may begin with a directory, extended by append and extracted twice
ArchiveTrip(files, dir, sectors) ==
    LET blank == [i \in 1 .. sectors |-> Zeros]
        host == IF dir THEN Put(blank, 0, HeaderSector("directory", "d", 0)) ELSE blank
        a == AppendAll([dev |-> host, next |-> IF dir THEN 1 ELSE 0, ok |-> TRUE], files)
        out == fsutil_extract([dev |-> a.dev, sector |-> 0, files |-> <<>>, ok |-> TRUE])
    IN  [ok |-> a.ok, out |-> out, again |-> fsutil_extract(out), restarted |-> fsutil_extract([out EXCEPT !.sector = 0])]
Nines(n) == [i \in 1 .. n |-> 9]
StorageReturn(c) ==
    CASE c.fn = "scan" -> partition_scan(c.table)
      [] c.fn = "bytes" -> [read |-> inode_read_at(c.disk, c.inode, c.size, c.offset, c.memory),
                            write |-> inode_write_at(c.disk, c.inode, Nines(c.size), c.offset, c.memory)]
      [] c.fn = "archive" -> ArchiveTrip(c.files, c.dir, c.sectors)
      [] c.fn = "pools" -> palloc_init(c.free, c.limit)
      [] c.fn = "paging" -> paging_init(c.ram, c.text)
StorageRight(c, r) ==
    CASE c.fn = "scan" -> PartitionsRight(c.table, r)
      [] c.fn = "bytes" -> BytesRight(c, r)
      [] c.fn = "archive" -> ArchiveRight(c.files, r)
      [] c.fn = "pools" -> PoolsRight(c.free, c.limit, r)
      [] c.fn = "paging" -> PagingRight(c.ram, c.text, r)
=============================================================================
