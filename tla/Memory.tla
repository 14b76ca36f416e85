------------------------------- MODULE Memory -------------------------------
(* The page allocator (threads/palloc.c) and the block allocator on top of *)
(* it (threads/malloc.c), used by several threads at once.                 *)
(*                                                                         *)
(* A block is a page and an offset in it.  Each pool's used_map and each   *)
(* descriptor's free list has a lock; palloc_free_multiple() takes none    *)
(* and clears its bits one at a time.                                      *)
EXTENDS Integers, Sequences, FiniteSets, Bitmap, KList

CONSTANTS Threads, NULL,
          PGSIZE,
          ArenaSize,    \* sizeof(struct arena)
          MinBlock,     \* the smallest block_size
          KernelPages, UserPages,
          Sizes,        \* what malloc() is asked for
          MaxHeld       \* bound on what a thread keeps

ASSUME MemoryAssumption ==
    /\ NULL \notin Threads
    /\ {PGSIZE, ArenaSize, MinBlock} \subseteq Nat \ {0} /\ ArenaSize + MinBlock <= PGSIZE
    /\ KernelPages \in Nat /\ UserPages \in Nat /\ Sizes \subseteq Nat \ {0} /\ MaxHeld \in Nat

VARIABLES used_map,    \* of each pool
          pool_lock,   \* the holder of each pool's lock, or NULL
          arena,       \* the struct arena at the start of each page
          free_list,   \* of each descriptor
          lock,        \* the holder of each descriptor's lock, or NULL
          pc, local,   \* where each thread is, and its locals
          held,        \* the blocks each thread has
          panic        \* an ASSERT has failed
vars == <<used_map, pool_lock, arena, free_list, lock, pc, local, held, panic>>

Pools == {"kernel", "user"}
PoolSize(p) == IF p = "kernel" THEN KernelPages ELSE UserPages
PoolBase(p) == IF p = "kernel" THEN 0 ELSE KernelPages
Pages == 0 .. (KernelPages + UserPages - 1)
page_from_pool(p, page) == page >= PoolBase(p) /\ page < PoolBase(p) + PoolSize(p)

\* malloc_init(): a descriptor is named by its block_size
Descs == {MinBlock * 2^k : k \in {k \in 0 .. PGSIZE : MinBlock * 2^k < PGSIZE \div 2}}
blocks_per_arena(d) == (PGSIZE - ArenaSize) \div d
arena_to_block(page, d, i) == [page |-> page, ofs |-> ArenaSize + i * d]
Asked(b, size) == [page |-> b.page, ofs |-> b.ofs, size |-> size]
DIV_ROUND_UP(x, step) == (x + step - 1) \div step
\* the smallest descriptor that satisfies the request
DescFor(size) ==
    IF \A d \in Descs : d < size THEN NULL ELSE CHOOSE d \in Descs : d >= size /\ \A e \in Descs : e >= size => d <= e

NoArena == [magic |-> FALSE, desc |-> NULL, free_cnt |-> 0]
NoBlock == [page |-> NULL, ofs |-> 0, size |-> 0]
NoLocal == [size |-> 0, d |-> NULL, pool |-> NULL, cnt |-> 0, i |-> 0, page |-> NULL,
            block |-> NoBlock, old |-> NoBlock, then |-> "idle"]

Init == /\ used_map = [p \in Pools |-> [i \in 0 .. (PoolSize(p) - 1) |-> FALSE]]
        /\ pool_lock = [p \in Pools |-> NULL]
        /\ arena = [p \in Pages |-> NoArena]
        /\ free_list = [d \in Descs |-> <<>>]
        /\ lock = [d \in Descs |-> NULL]
        /\ pc = [t \in Threads |-> "idle"]
        /\ local = [t \in Threads |-> NoLocal]
        /\ held = [t \in Threads |-> {}]
        /\ panic = FALSE

At(t, l) == pc[t] = l /\ ~panic
Go(t, l, loc) == pc' = [pc EXCEPT ![t] = l] /\ local' = [local EXCEPT ![t] = loc]
Assert(ok) == panic' = (panic \/ ~ok)
-----------------------------------------------------------------------------
(* palloc.c *)

\* MUTANT: without the pool's lock
palloc_get_multiple_nolock(t) ==
    /\ At(t, "palloc")
    /\ Go(t, "scan", [local[t] EXCEPT !.i = 0])
    /\ UNCHANGED <<pool_lock, used_map, arena, free_list, lock, held, panic>>
palloc_get_multiple(t) ==
    /\ At(t, "palloc") /\ pool_lock[local[t].pool] = NULL
    /\ pool_lock' = [pool_lock EXCEPT ![local[t].pool] = t]
    /\ Go(t, "scan", [local[t] EXCEPT !.i = 0])
    /\ UNCHANGED <<used_map, arena, free_list, lock, held, panic>>

\* MUTANT: the scan does not go on
palloc_scan_stuck(t) ==
    /\ At(t, "scan")
    /\ LET x == local[t]  b == used_map[x.pool]
       IN  IF x.cnt > bitmap_size(b) \/ x.i > bitmap_size(b) - x.cnt
           THEN /\ Go(t, x.then, [x EXCEPT !.page = NULL])
                /\ pool_lock' = [pool_lock EXCEPT ![x.pool] = NULL]
           ELSE /\ IF bitmap_contains(b, x.i, x.cnt, TRUE)
                   THEN Go(t, "scan", [x EXCEPT !.i = 0])
                   ELSE Go(t, "flip", x)
                /\ UNCHANGED pool_lock
    /\ UNCHANGED <<used_map, arena, free_list, lock, held, panic>>
\* one group of the scan; bits of pages that are being freed may fall meanwhile
palloc_scan(t) ==
    /\ At(t, "scan")
    /\ LET x == local[t]  b == used_map[x.pool]
       IN  IF x.cnt > bitmap_size(b) \/ x.i > bitmap_size(b) - x.cnt
           THEN /\ Go(t, x.then, [x EXCEPT !.page = NULL])
                /\ pool_lock' = [pool_lock EXCEPT ![x.pool] = NULL]
           ELSE /\ IF bitmap_contains(b, x.i, x.cnt, TRUE)
                   THEN Go(t, "scan", [x EXCEPT !.i = @ + 1])
                   ELSE Go(t, "flip", x)
                /\ UNCHANGED pool_lock
    /\ UNCHANGED <<used_map, arena, free_list, lock, held, panic>>
palloc_flip(t) ==
    /\ At(t, "flip")
    /\ LET x == local[t]
       IN  /\ used_map' = [used_map EXCEPT ![x.pool] = bitmap_set_multiple(@, x.i, x.cnt, TRUE)]
           /\ pool_lock' = [pool_lock EXCEPT ![x.pool] = NULL]
           /\ Go(t, x.then, [x EXCEPT !.page = PoolBase(x.pool) + x.i])
    /\ UNCHANGED <<arena, free_list, lock, held, panic>>

PoolOf(page) == CHOOSE p \in Pools : page_from_pool(p, page)
\* the pages are overwritten, struct arena included
palloc_free_multiple(t) ==
    /\ At(t, "pfree")
    /\ LET x == local[t]  p == PoolOf(x.page)
       IN  /\ Assert(bitmap_all(used_map[p], x.page - PoolBase(p), x.cnt))
           /\ arena' = [q \in Pages |-> IF q \in Group(x.page, x.cnt) THEN NoArena ELSE arena[q]]
           /\ Go(t, "clear", [x EXCEPT !.i = 0, !.pool = p])
    /\ UNCHANGED <<used_map, pool_lock, free_list, lock, held>>
\* MUTANT: one page of several is given back
palloc_clear_one(t) ==
    /\ At(t, "clear")
    /\ LET x == local[t]
       IN  /\ used_map' = [used_map EXCEPT ![x.pool][x.page - PoolBase(x.pool)] = FALSE]
           /\ Go(t, x.then, x)
    /\ UNCHANGED <<pool_lock, arena, free_list, lock, held, panic>>
\* bitmap_set_multiple(), bit by bit
palloc_clear(t) ==
    /\ At(t, "clear")
    /\ LET x == local[t]
       IN  /\ used_map' = [used_map EXCEPT ![x.pool][x.page - PoolBase(x.pool) + x.i] = FALSE]
           /\ Go(t, IF x.i + 1 = x.cnt THEN x.then ELSE "clear", [x EXCEPT !.i = @ + 1])
    /\ UNCHANGED <<pool_lock, arena, free_list, lock, held, panic>>

\* a page of user memory, and its return
get_user_page(t) ==
    /\ At(t, "idle") /\ Cardinality(held[t]) < MaxHeld
    /\ Go(t, "palloc", [NoLocal EXCEPT !.pool = "user", !.cnt = 1, !.then = "user"])
    /\ UNCHANGED <<used_map, pool_lock, arena, free_list, lock, held, panic>>
keep_user_page(t) ==
    /\ At(t, "user")
    /\ held' = [held EXCEPT ![t] = @ \union (IF local[t].page = NULL THEN {}
                                                  ELSE {[page |-> local[t].page, ofs |-> 0, size |-> PGSIZE]})]
    /\ Go(t, "idle", NoLocal)
    /\ UNCHANGED <<used_map, pool_lock, arena, free_list, lock, panic>>
free_user_page(t) ==
    /\ At(t, "idle")
    /\ \E b \in held[t] :
         /\ b.ofs = 0
         /\ held' = [held EXCEPT ![t] = @ \ {b}]
         /\ Go(t, "pfree", [NoLocal EXCEPT !.page = b.page, !.cnt = 1])
    /\ UNCHANGED <<used_map, pool_lock, arena, free_list, lock, panic>>

-----------------------------------------------------------------------------
(* malloc.c *)

Blocks(t) == {b \in held[t] : b.ofs # 0}
\* malloc(size), or with old the malloc() of realloc(old, size)
malloc(t, size, old) ==
    /\ At(t, "idle") /\ Cardinality(held[t]) < MaxHeld
    /\ held' = [held EXCEPT ![t] = @ \ {old}]
    /\ LET x == [NoLocal EXCEPT !.size = size, !.old = old, !.d = DescFor(size)]
       IN  IF x.d = NULL
           THEN Go(t, "palloc", [x EXCEPT !.pool = "kernel", !.then = "big",
                                          !.cnt = DIV_ROUND_UP(size + ArenaSize, PGSIZE)])
           ELSE Go(t, "lock", x)
    /\ UNCHANGED <<used_map, pool_lock, arena, free_list, lock, panic>>

malloc_lock(t) ==
    /\ At(t, "lock") /\ lock[local[t].d] = NULL
    /\ lock' = [lock EXCEPT ![local[t].d] = t]
    /\ IF free_list[local[t].d] = <<>>
       THEN Go(t, "palloc", [local[t] EXCEPT !.pool = "kernel", !.cnt = 1, !.then = "arena"])
       ELSE Go(t, "pop", local[t])
    /\ UNCHANGED <<used_map, pool_lock, arena, free_list, held, panic>>

\* the client gets block b; realloc() goes on to free the old one, or keeps it
Return(t, b) ==
    LET old == local[t].old
    IN  IF b # NoBlock /\ old # NoBlock
        THEN held' = [held EXCEPT ![t] = @ \union {b}] /\ Go(t, "free", [NoLocal EXCEPT !.block = old])
        ELSE held' = [held EXCEPT ![t] = @ \union ({b, old} \ {NoBlock})] /\ Go(t, "idle", NoLocal)

malloc_arena(t) ==
    /\ At(t, "arena")
    /\ LET d == local[t].d  page == local[t].page
       IN  IF page = NULL
           THEN lock' = [lock EXCEPT ![d] = NULL] /\ Return(t, NoBlock) /\ UNCHANGED <<arena, free_list>>
           ELSE /\ arena' = [arena EXCEPT ![page] = [magic |-> TRUE, desc |-> d, free_cnt |-> blocks_per_arena(d)]]
                /\ free_list' = [free_list EXCEPT ![d] =
                      @ \o [i \in 1 .. blocks_per_arena(d) |-> arena_to_block(page, d, i - 1)]]
                /\ Go(t, "pop", local[t]) /\ UNCHANGED <<lock, held>>
    /\ UNCHANGED <<used_map, pool_lock, panic>>

malloc_pop(t) ==
    /\ At(t, "pop")
    /\ LET d == local[t].d  b == Head(free_list[d])
       IN  /\ free_list' = [free_list EXCEPT ![d] = list_pop_front(@)]
           /\ Assert(arena[b.page].magic)
           /\ arena' = [arena EXCEPT ![b.page].free_cnt = @ - 1]
           /\ lock' = [lock EXCEPT ![d] = NULL]
           /\ Return(t, Asked(b, local[t].size))
    /\ UNCHANGED <<used_map, pool_lock>>

malloc_big(t) ==
    /\ At(t, "big")
    /\ IF local[t].page = NULL
       THEN Return(t, NoBlock) /\ UNCHANGED arena
       ELSE /\ arena' = [arena EXCEPT ![local[t].page] = [magic |-> TRUE, desc |-> NULL, free_cnt |-> local[t].cnt]]
            /\ Return(t, [page |-> local[t].page, ofs |-> ArenaSize, size |-> local[t].size])
    /\ UNCHANGED <<used_map, pool_lock, free_list, lock, panic>>

\* free(b): block_to_arena() and its ASSERTs
FreeBlock(t, b) ==
    LET a == arena[b.page]
    IN  /\ Assert(/\ a.magic
                  /\ IF a.desc = NULL THEN b.ofs = ArenaSize ELSE (b.ofs - ArenaSize) % a.desc = 0)
        /\ IF a.desc = NULL
           THEN Go(t, "pfree", [NoLocal EXCEPT !.page = b.page, !.cnt = a.free_cnt])
           ELSE Go(t, "free_lock", [NoLocal EXCEPT !.d = a.desc, !.page = b.page, !.block = b])
\* free() itself, realloc(old, 0), and the end of realloc()
free(t) ==
    /\ At(t, "idle")
    /\ \E b \in Blocks(t) : held' = [held EXCEPT ![t] = @ \ {b}] /\ FreeBlock(t, b)
    /\ UNCHANGED <<used_map, pool_lock, arena, free_list, lock>>
realloc_free(t) ==
    /\ At(t, "free") /\ FreeBlock(t, local[t].block)
    /\ UNCHANGED <<used_map, pool_lock, arena, free_list, lock, held>>

free_lock(t) ==
    /\ At(t, "free_lock") /\ lock[local[t].d] = NULL
    /\ LET d == local[t].d  page == local[t].page  n == arena[page].free_cnt + 1
           s == list_push_front(free_list[d], [page |-> page, ofs |-> local[t].block.ofs])
       IN  IF n >= blocks_per_arena(d)
           THEN /\ Assert(n = blocks_per_arena(d))
                /\ lock' = [lock EXCEPT ![d] = t]
                /\ free_list' = [free_list EXCEPT ![d] = SelectSeq(s, LAMBDA b : b.page # page)]
                /\ arena' = [arena EXCEPT ![page].free_cnt = n]
                /\ Go(t, "pfree", [local[t] EXCEPT !.cnt = 1, !.then = "free_end"])
           ELSE /\ free_list' = [free_list EXCEPT ![d] = s]
                /\ arena' = [arena EXCEPT ![page].free_cnt = n]
                /\ Go(t, "idle", NoLocal) /\ UNCHANGED <<lock, panic>>
    /\ UNCHANGED <<used_map, pool_lock, held>>
free_end(t) ==
    /\ At(t, "free_end")
    /\ lock' = [lock EXCEPT ![local[t].d] = NULL]
    /\ Go(t, "idle", NoLocal)
    /\ UNCHANGED <<used_map, pool_lock, arena, free_list, held, panic>>

Call(t) == \/ \E s \in Sizes : \E old \in Blocks(t) \union {NoBlock} : malloc(t, s, old)
           \/ free(t) \/ get_user_page(t) \/ free_user_page(t)
Step(t) == \/ palloc_get_multiple(t) \/ palloc_scan(t) \/ palloc_flip(t)
           \/ palloc_free_multiple(t) \/ palloc_clear(t) \/ keep_user_page(t)
           \/ malloc_lock(t) \/ malloc_arena(t) \/ malloc_pop(t) \/ malloc_big(t)
           \/ realloc_free(t) \/ free_lock(t) \/ free_end(t)
Next == \E t \in Threads : Call(t) \/ Step(t)
Spec == Init /\ [][Next]_vars
\* a thread inside the allocator is scheduled, and a lock that is released again
\* and again is got in the end: sema_up() wakes the waiters in turn
FairSpec == Spec /\ \A t \in Threads : SF_vars(Step(t))

-----------------------------------------------------------------------------
(* Properties *)

\* the bytes the client asked for
Bytes(b) == LET at == b.page * PGSIZE + b.ofs IN at .. (at + b.size - 1)
Client == UNION {{t} \X held[t] : t \in Threads}
PagesOf(b) == (b.page) .. (b.page + (b.ofs + b.size - 1) \div PGSIZE)
Used(p) == used_map[PoolOf(p)][p - PoolBase(PoolOf(p))]

\* malloc() and palloc_get_page() never give two clients the same byte nor a
\* byte of a page that is not in use, whoever allocates and frees meanwhile.
Disjoint == /\ \A x, y \in Client : x # y => Bytes(x[2]) \intersect Bytes(y[2]) = {}
            /\ \A x \in Client : \A p \in PagesOf(x[2]) : Used(p)

\* When nobody is in the allocator every used page belongs to a block some
\* client has: nothing is lost, however allocations fail, move or race, and an
\* arena with no block in use has been given back.
NoLeak == (\A t \in Threads : pc[t] = "idle") =>
             {p \in Pages : Used(p)} = UNION {PagesOf(x[2]) : x \in Client}

\* Every call of the allocator returns for clients that free what they were
\* given, once: the locks of a descriptor and of the pool below it are always
\* given up, and no ASSERT of block_to_arena(), free() and
\* palloc_free_multiple() stops the kernel.
Returns == \A t \in Threads : pc[t] # "idle" ~> pc[t] = "idle"
=============================================================================
