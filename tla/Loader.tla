------------------------------- MODULE Loader -------------------------------
(* Loading an executable (load() and what it calls, the argument passing of  *)
(* process_execute() and start_process(), userprog/process_create.c) into an *)
(* address space (userprog/pagedir.c), with what must then be in it.         *)
(*                                                                           *)
(* An address space is a record: the page directory numbers that have a page *)
(* table, the entry of every page that has one, and the pages left in the    *)
(* kernel and in the user pool.  A frame's contents are kept in the entry    *)
(* that maps it.  The file is the sequence of its bytes.                     *)
EXTENDS Kstring

CONSTANTS PGSIZE,
          PTES,       \* entries of a page table
          UserPages,  \* pages below PHYS_BASE
          AddrBits,   \* bits of an address
          FileLen,
          StackSize   \* bytes of the stack page, for the arguments

PHYS_BASE == UserPages * PGSIZE
Word(n) == n % (2 ^ AddrBits)
pg_ofs(a) == a % PGSIZE
pg_no(a) == a \div PGSIZE
pd_no(page) == page \div PTES
is_user_vaddr(a) == a < PHYS_BASE
RoundUp(n, step) == ((n + step - 1) \div step) * step
-----------------------------------------------------------------------------
(* Page directories *)

pagedir_create(kernel, user) == [ok |-> kernel > 0, kernel |-> kernel - 1, user |-> user, tables |-> {}, pte |-> <<>>]
Mapped(as, page) == page \in DOMAIN as.pte /\ as.pte[page].present
\* lookup_page() with create: the address space with the page's table, or not ok
lookup_page(as, page) ==
    CASE pd_no(page) \in as.tables -> as
      [] pd_no(page) \notin as.tables /\ as.kernel = 0 -> [as EXCEPT !.ok = FALSE]
      [] OTHER -> [as EXCEPT !.kernel = @ - 1, !.tables = @ \union {pd_no(page)}]
pagedir_set_page(as, page, bytes, writable) ==
    LET found == lookup_page(as, page)
        entry == [bytes |-> bytes, writable |-> writable, present |-> TRUE, dirty |-> FALSE, accessed |-> FALSE]
    IN  IF found.ok THEN [found EXCEPT !.pte = [p \in DOMAIN @ \union {page} |-> IF p = page THEN entry ELSE @[p]]] ELSE found
pagedir_get_page(as, a) == IF Mapped(as, pg_no(a)) THEN as.pte[pg_no(a)].bytes[pg_ofs(a) + 1] ELSE NUL - 1
Present(as) == {p \in DOMAIN as.pte : as.pte[p].present}
pagedir_destroy(as) ==
    [as EXCEPT !.kernel = @ + Cardinality(as.tables) + 1, !.user = @ + Cardinality(Present(as)), !.tables = {}, !.pte = <<>>]
\* Bits of an entry.  tlb holds the pages whose entries the processor may have
\* kept; it is emptied where the page directory is activated again.
invalidate_pagedir(s) == IF s.active THEN [s EXCEPT !.tlb = {}] ELSE s
pagedir_clear_page(s, page) ==
    IF Mapped(s.as, page) THEN invalidate_pagedir([s EXCEPT !.as.pte[page].present = FALSE]) ELSE s
pagedir_set_dirty(s, page, dirty) ==
    LET t == IF page \in DOMAIN s.as.pte THEN [s EXCEPT !.as.pte[page].dirty = dirty] ELSE s
    IN  IF page \in DOMAIN s.as.pte /\ ~dirty THEN invalidate_pagedir(t) ELSE t
pagedir_set_accessed(s, page, accessed) ==
    LET t == IF page \in DOMAIN s.as.pte THEN [s EXCEPT !.as.pte[page].accessed = accessed] ELSE s
    IN  IF page \in DOMAIN s.as.pte /\ ~accessed THEN invalidate_pagedir(t) ELSE t
\* process_activate() of this process, or of another thread
pagedir_activate(s, active) == [s EXCEPT !.active = active, !.tlb = {}]
\* the processor reads or writes the page
touch(s, page, write) ==
    IF s.active /\ Mapped(s.as, page)
    THEN [s EXCEPT !.as.pte[page].accessed = TRUE, !.as.pte[page].dirty = @ \/ write, !.tlb = @ \union {page}]
    ELSE s
-----------------------------------------------------------------------------
(* The executable *)

File == [i \in 1 .. FileLen |-> i]
file_read(pos, size) == IF pos + size > FileLen THEN 0 - 1 ELSE size
\* MUTANT: the first page may be mapped
validate_segment_zero(ph) ==
    /\ pg_ofs(ph.offset) = pg_ofs(ph.vaddr) /\ ph.offset <= FileLen /\ ph.memsz >= ph.filesz /\ ph.memsz > 0
    /\ is_user_vaddr(ph.vaddr) /\ is_user_vaddr(Word(ph.vaddr + ph.memsz)) /\ Word(ph.vaddr + ph.memsz) >= ph.vaddr
validate_segment(ph) ==
    /\ pg_ofs(ph.offset) = pg_ofs(ph.vaddr)
    /\ ph.offset <= FileLen
    /\ ph.memsz >= ph.filesz
    /\ ph.memsz > 0
    /\ is_user_vaddr(ph.vaddr)
    /\ is_user_vaddr(Word(ph.vaddr + ph.memsz))
    /\ Word(ph.vaddr + ph.memsz) >= ph.vaddr
    /\ ph.vaddr >= PGSIZE
\* a page of the user pool; it goes back if it cannot be installed
install_page(as, page, bytes, writable) ==
    LET set == pagedir_set_page([as EXCEPT !.user = @ - 1], page, bytes, writable)
    IN  CASE as.user = 0 \/ Mapped(as, page) -> [as EXCEPT !.ok = FALSE]
          [] as.user > 0 /\ ~Mapped(as, page) -> IF set.ok THEN set ELSE [as EXCEPT !.ok = FALSE]
RECURSIVE load_segment(_, _, _, _, _, _)
load_segment(as, pos, page, read_bytes, zero_bytes, writable) ==
    LET n == IF read_bytes < PGSIZE THEN read_bytes ELSE PGSIZE
        bytes == [i \in 1 .. PGSIZE |-> IF i <= n THEN File[pos + i] ELSE 0]
    IN  CASE ~as.ok \/ (read_bytes = 0 /\ zero_bytes = 0) -> as
          [] as.ok /\ (read_bytes > 0 \/ zero_bytes > 0) /\ file_read(pos, n) # n -> [as EXCEPT !.ok = FALSE]
          [] OTHER -> load_segment(install_page(as, page, bytes, writable), pos + n, page + 1,
                                   read_bytes - n, zero_bytes - (PGSIZE - n), writable)
LoadHeader(as, ph) ==
    LET ofs == pg_ofs(ph.vaddr)
        read_bytes == IF ph.filesz > 0 THEN ofs + ph.filesz ELSE 0
    IN  CASE ~as.ok \/ ph.type = "ignored" -> as
          [] as.ok /\ (ph.type = "refused" \/ (ph.type = "load" /\ ~validate_segment(ph))) -> [as EXCEPT !.ok = FALSE]
          [] OTHER -> load_segment(as, ph.offset - pg_ofs(ph.offset), pg_no(ph.vaddr), read_bytes,
                                   RoundUp(ofs + ph.memsz, PGSIZE) - read_bytes, ph.writable)
RECURSIVE LoadHeaders(_, _)
LoadHeaders(as, phdrs) == IF phdrs = <<>> THEN as ELSE LoadHeaders(LoadHeader(as, Head(phdrs)), Tail(phdrs))
setup_stack(as, exiting) ==
    CASE ~as.ok -> as
      [] as.ok /\ exiting -> [as EXCEPT !.ok = FALSE]
      [] OTHER -> install_page(as, UserPages - 1, [i \in 1 .. PGSIZE |-> 0], TRUE)
\* what a load() that fails has taken stays taken: start_process() frees the PCB only
load(phdrs, opens, kernel, user) ==
    LET as == pagedir_create(kernel, user)
    IN  CASE ~as.ok -> [as EXCEPT !.kernel = kernel]
          [] as.ok /\ ~opens -> [as EXCEPT !.ok = FALSE]
          [] OTHER -> setup_stack(LoadHeaders(as, phdrs), FALSE)
-----------------------------------------------------------------------------
(* Arguments *)

Space == 3
\* the copy of the command line: its first word is cut off for the thread's
\* name, and start_process() puts the space back
FirstWord(cmd) == LET t == Tokens(cmd, <<Space>>, 1) IN SubSeq(cmd, t[1][1], t[1][1] + t[1][2] - 1)
process_execute(cmd) ==
    LET w == FirstWord(cmd)
    IN  [processed |-> Len(w) # Len(cmd),
         line |-> IF Len(w) = Len(cmd) THEN cmd ELSE [cmd EXCEPT ![Len(w) + 1] = NUL]]
Restored(copy) ==
    IF copy.processed THEN [copy.line EXCEPT ![CHOOSE i \in DOMAIN copy.line : copy.line[i] = NUL] = Space] ELSE copy.line
\* The stack page from its lowest byte up.  A word is kept at its lowest byte.
\* NUL ends the tokens strtok_r() cuts; esp < 0 is a fault in the kernel.
start_process(copy) ==
    LET line == Restored(copy)
        string == StackSize - (Len(line) + 1)
        tokens == Tokens(line, <<Space>>, 1)
        ends == {tokens[k][1] + tokens[k][2] : k \in DOMAIN tokens}
        top == string - (string % 16)
        words == <<0, 0>> \o [k \in DOMAIN tokens |-> string + tokens[k][1] - 1] \o <<0>>
        size == RoundUp(4 * Len(words), 16)
        esp == top - size
        pushed == [i \in 0 .. (size \div 4 - 1) |-> IF i >= size \div 4 - Len(words) THEN words[size \div 4 - i] ELSE 0]
        reversed == [i \in DOMAIN pushed |-> pushed[size \div 4 - 1 - i]]
    IN  [esp |-> esp - 4,
         word |-> [reversed EXCEPT ![0] = Len(tokens), ![1] = esp + 8],
         string |-> string,
         chars |-> [i \in 1 .. (Len(line) + 1) |-> IF i \in ends THEN NUL ELSE At(line, i)]]
-----------------------------------------------------------------------------
(* What must be in the address space *)

Pages(ph) == pg_no(ph.vaddr) .. pg_no(ph.vaddr + ph.memsz - 1)
Loads(phdrs) == {i \in DOMAIN phdrs : phdrs[i].type = "load"}
\* the byte at an address of a segment's pages: the file's, or zero after it
ByteOf(ph, a) ==
    IF ph.filesz > 0 /\ a < ph.vaddr + ph.filesz THEN (ph.offset - ph.vaddr) + a + 1 ELSE 0
Loadable(phdrs) ==
    /\ \A i \in DOMAIN phdrs : phdrs[i].type # "refused"
    /\ \A i \in Loads(phdrs) :
         LET ph == phdrs[i]
         IN  /\ pg_ofs(ph.offset) = pg_ofs(ph.vaddr) /\ 0 < ph.memsz /\ ph.filesz <= ph.memsz
             /\ PGSIZE <= ph.vaddr /\ ph.vaddr + ph.memsz < PHYS_BASE
             /\ ph.filesz > 0 => ph.offset + ph.filesz <= FileLen
             /\ ph.offset <= FileLen
             /\ UserPages - 1 \notin Pages(ph)
             /\ \A j \in Loads(phdrs) \ {i} : Pages(ph) \cap Pages(phdrs[j]) = {}
AllPages(phdrs) == UNION {Pages(phdrs[i]) : i \in Loads(phdrs)} \union {UserPages - 1}
LoadRight(phdrs, opens, kernel, user, as) ==
    /\ as.ok = /\ opens /\ Loadable(phdrs)
               /\ user >= Cardinality(AllPages(phdrs))
               /\ kernel >= 1 + Cardinality({pd_no(p) : p \in AllPages(phdrs)})
    /\ as.ok => /\ Present(as) = AllPages(phdrs)
                /\ \A i \in Loads(phdrs) : \A p \in Pages(phdrs[i]) :
                     /\ as.pte[p].writable = phdrs[i].writable
                     /\ \A a \in (p * PGSIZE) .. (p * PGSIZE + PGSIZE - 1) : pagedir_get_page(as, a) = ByteOf(phdrs[i], a)
    /\ as.ok => pagedir_destroy(as).kernel = kernel /\ pagedir_destroy(as).user = user
\* what main(argc, argv) finds
WordsOf(cmd) ==
    LET Starts == {i \in DOMAIN cmd : cmd[i] # Space /\ (i = 1 \/ cmd[i - 1] = Space)} IN Cardinality(Starts)
ArgumentsRight(cmd, s) ==
    LET word(a) == s.word[(a - s.esp - 4) \div 4]
        string(a) == [i \in 1 .. (CHOOSE n \in 0 .. Len(cmd) : /\ s.chars[a - s.string + n + 1] = NUL
                                                              /\ \A m \in 0 .. (n - 1) : s.chars[a - s.string + m + 1] # NUL)
                        |-> s.chars[a - s.string + i]]
        argc == word(s.esp + 4)
        argv == word(s.esp + 8)
        RECURSIVE Joined(_)
        Joined(k) == IF k = argc THEN <<>> ELSE string(word(argv + 4 * k)) \o Joined(k + 1)
    IN  s.esp >= 0 =>
          /\ (s.esp + 4) % 16 = 0
          /\ argc = WordsOf(cmd)
          /\ word(argv + 4 * argc) = 0
          /\ Joined(0) = SelectSeq(cmd, LAMBDA c : c # Space)
          /\ \A k \in 0 .. (argc - 1) : Space \notin Members(string(word(argv + 4 * k))) /\ string(word(argv + 4 * k)) # <<>>
\* the processor never keeps an entry that the page directory has given up
RECURSIVE Steps(_, _)
Steps(s, ops) ==
    IF ops = <<>> THEN s
    ELSE LET op == Head(ops)
         IN  Steps(CASE op[1] = "clear" -> pagedir_clear_page(s, op[2])
                     [] op[1] = "clean" -> pagedir_set_dirty(s, op[2], FALSE)
                     [] op[1] = "dirty" -> pagedir_set_dirty(s, op[2], TRUE)
                     [] op[1] = "age" -> pagedir_set_accessed(s, op[2], FALSE)
                     [] op[1] = "use" -> pagedir_set_accessed(s, op[2], TRUE)
                     [] op[1] = "switch" -> pagedir_activate(s, op[2] = 1)
                     [] op[1] = "read" -> touch(s, op[2], FALSE)
                     [] op[1] = "write" -> touch(s, op[2], TRUE), Tail(ops))
PageOps == {<<op, page>> : op \in {"clear", "clean", "dirty", "age", "use", "switch", "read", "write"}, page \in {1, 2}}
PageState == [as |-> pagedir_set_page(pagedir_create(9, 9), 1, <<0>>, TRUE), active |-> FALSE, tlb |-> {}]
\* the index of the last operation named, or 0
LastOf(ops, names, page) == Most({i \in DOMAIN ops : ops[i][1] \in names /\ ops[i][2] = page})
Running(ops, i) == LET j == Most({k \in 1 .. (i - 1) : ops[k][1] = "switch"}) IN j # 0 /\ ops[j][2] = 1
PagesRight(ops, s) ==
    LET cleared == Least({i \in DOMAIN ops : ops[i] = <<"clear", 1>>})
        Works(i) == Running(ops, i) /\ (cleared = 0 \/ i < cleared)
        sets == {i \in DOMAIN ops : ops[i] = <<"dirty", 1>> \/ (ops[i] = <<"write", 1>> /\ Works(i))}
    IN  /\ \A p \in s.tlb : s.active /\ s.as.pte[p].present /\ s.as.pte[p].accessed
        /\ s.as.pte[1].present = (cleared = 0)
        /\ s.as.pte[1].dirty = (Most(sets) > LastOf(ops, {"clean"}, 1))
        /\ DOMAIN s.as.pte = {1}
-----------------------------------------------------------------------------
(* The calls, their results and what is right *)

Phdrs == [type : {"load"}, offset : {0, 1, 5}, vaddr : {0, 4, 5, 9, 13}, filesz : {0, 1, 5}, memsz : {0, 1, 6, 9, 27}, writable : {TRUE}]
Second == [type : {"load"}, offset : {4}, vaddr : {8, 12, 16}, filesz : {3}, memsz : {3}, writable : {FALSE}]
          \union [type : {"ignored", "refused"}, offset : {0}, vaddr : {0}, filesz : {0}, memsz : {0}, writable : {FALSE}]
Commands == {c \in UNION {[1 .. n -> {1, Space}] : n \in 1 .. 7} : c[1] # Space}
LoaderCalls ==
    [fn : {"load"}, phdrs : {<<p>> : p \in Phdrs}, opens : BOOLEAN, kernel : {0, 1, 3}, user : {2, 4}]
    \union [fn : {"load"}, phdrs : {<<p, q>> : p \in {r \in Phdrs : validate_segment(r)}, q \in Second}, opens : {TRUE},
            kernel : 2 .. 4, user : 2 .. 5]
    \union [fn : {"arguments"}, cmd : Commands]
    \union [fn : {"pages"}, ops : UNION {[1 .. n -> PageOps] : n \in {2, 3}}]
LoaderReturn(c) ==
    CASE c.fn = "load" -> load(c.phdrs, c.opens, c.kernel, c.user)
      [] c.fn = "arguments" -> start_process(process_execute(c.cmd))
      [] c.fn = "pages" -> Steps(PageState, c.ops)
LoaderRight(c, r) ==
    CASE c.fn = "load" -> LoadRight(c.phdrs, c.opens, c.kernel, c.user, r)
      [] c.fn = "arguments" -> ArgumentsRight(c.cmd, r)
      [] c.fn = "pages" -> PagesRight(c.ops, r)
=============================================================================
