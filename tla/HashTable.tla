----------------------------- MODULE HashTable ------------------------------
(* The hash table (lib/kernel/hash.c).  An element is a pair of a key, which *)
(* hash() and less() look at, and a tag that tells equal elements apart.     *)
EXTENDS Integers, Bitwise, FiniteSets, Sequences

CONSTANTS HashKeys, Tags,
          MinBuckets,            \* 4 in the code
          BEST_ELEMS_PER_BUCKET  \* 2 in the code

VARIABLES bucket_cnt,
          buckets,   \* [0 .. bucket_cnt - 1 -> sequence of elements]; <<>> before hash_init
          elem_cnt,
          iter,      \* the iterator: <<bucket, position>>, or <<>> when it is not valid
          ret        \* what the last operation returned: <<>> for a null pointer
hashvars == <<bucket_cnt, buckets, elem_cnt, iter, ret>>

HashElems == HashKeys \X Tags
hash(e) == e[1]
hash_less(a, e) == a[1] < e[1]
turn_off_least_1bit(x) == x & (x - 1)
is_power_of_2(x) == x # 0 /\ turn_off_least_1bit(x) = 0
RECURSIVE PowerAtMost(_)
PowerAtMost(n) == IF is_power_of_2(n) THEN n ELSE PowerAtMost(turn_off_least_1bit(n))
bucket_idx(e, cnt) == hash(e) & (cnt - 1)
find_elem(bucket, e) == SelectSeq(bucket, LAMBDA a : ~hash_less(a, e) /\ ~hash_less(e, a))
find_bucket(e) == bucket_idx(e, bucket_cnt)

\* the elements of all buckets, in the order in which they are walked
RECURSIVE Walk(_, _, _)
Walk(bs, i, cnt) == IF i = cnt THEN <<>> ELSE bs[i] \o Walk(bs, i + 1, cnt)
All == IF bucket_cnt = 0 THEN <<>> ELSE Walk(buckets, 0, bucket_cnt)
RECURSIVE Move(_, _, _)
Move(elems, bs, cnt) ==
    IF elems = <<>> THEN bs
    ELSE Move(Tail(elems), [bs EXCEPT ![bucket_idx(Head(elems), cnt)] = <<Head(elems)>> \o @], cnt)
\* MUTANT: the old buckets' elements are left where they are
rehash_lazy(bs, n) ==
    LET want == n \div BEST_ELEMS_PER_BUCKET
        new_cnt == PowerAtMost(IF want < MinBuckets THEN MinBuckets ELSE want)
    IN  /\ elem_cnt' = n /\ bucket_cnt' = new_cnt
        /\ buckets' = [i \in 0 .. (new_cnt - 1) |-> IF i < bucket_cnt THEN bs[i] ELSE <<>>]
\* rehash() once the buckets are bs and there are n elements; malloc() may fail
rehash(bs, n) ==
    LET want == n \div BEST_ELEMS_PER_BUCKET
        new_cnt == PowerAtMost(IF want < MinBuckets THEN MinBuckets ELSE want)
    IN  /\ elem_cnt' = n
        /\ \/ bucket_cnt' = bucket_cnt /\ buckets' = bs
           \/ /\ new_cnt # bucket_cnt
              /\ bucket_cnt' = new_cnt
              /\ buckets' = Move(Walk(bs, 0, bucket_cnt), [i \in 0 .. (new_cnt - 1) |-> <<>>], new_cnt)

Made == bucket_cnt > 0
HashInit == bucket_cnt = 0 /\ buckets = <<>> /\ elem_cnt = 0 /\ iter = <<>> /\ ret = <<>>
hash_init ==
    /\ ~Made
    /\ \/ bucket_cnt' = MinBuckets /\ buckets' = [i \in 0 .. (MinBuckets - 1) |-> <<>>]
       \/ UNCHANGED <<bucket_cnt, buckets>>
    /\ elem_cnt' = 0 /\ ret' = <<>> /\ iter' = <<>>
hash_insert(e) ==
    LET b == find_bucket(e)
        old == find_elem(buckets[b], e)
    IN  /\ Made
        /\ IF old = <<>> THEN rehash([buckets EXCEPT ![b] = <<e>> \o @], elem_cnt + 1) ELSE rehash(buckets, elem_cnt)
        /\ ret' = old /\ iter' = <<>>
Without(bucket, e) == SelectSeq(bucket, LAMBDA a : a # e)
hash_replace(e) ==
    LET b == find_bucket(e)
        old == find_elem(buckets[b], e)
    IN  /\ Made
        /\ e \notin {All[i] : i \in DOMAIN All}
        /\ rehash([buckets EXCEPT ![b] = <<e>> \o (IF old = <<>> THEN @ ELSE Without(@, old[1]))],
                  IF old = <<>> THEN elem_cnt + 1 ELSE elem_cnt)
        /\ ret' = old /\ iter' = <<>>
hash_find(e) ==
    /\ Made
    /\ ret' = find_elem(buckets[find_bucket(e)], e)
    /\ UNCHANGED <<bucket_cnt, buckets, elem_cnt, iter>>
hash_delete(e) ==
    LET b == find_bucket(e)
        found == find_elem(buckets[b], e)
    IN  /\ Made
        /\ IF found # <<>> THEN rehash([buckets EXCEPT ![b] = Without(@, found[1])], elem_cnt - 1)
           ELSE UNCHANGED <<bucket_cnt, buckets, elem_cnt>>
        /\ ret' = found /\ iter' = <<>>
hash_apply == Made /\ ret' = All /\ UNCHANGED <<bucket_cnt, buckets, elem_cnt, iter>>
hash_clear ==
    /\ Made
    /\ ret' = All
    /\ buckets' = [i \in DOMAIN buckets |-> <<>>]
    /\ elem_cnt' = 0 /\ iter' = <<>>
    /\ UNCHANGED bucket_cnt
hash_destroy ==
    /\ Made
    /\ ret' = All
    /\ bucket_cnt' = 0 /\ buckets' = <<>> /\ elem_cnt' = 0 /\ iter' = <<>>
\* position 0 is the list's head
hash_first == Made /\ iter' = <<0, 0>> /\ ret' = <<>> /\ UNCHANGED <<bucket_cnt, buckets, elem_cnt>>
\* the first element at or after position p of bucket b
RECURSIVE Seek(_, _)
Seek(b, p) == CASE p <= Len(buckets[b]) -> <<b, p>>
                [] p > Len(buckets[b]) /\ b + 1 < bucket_cnt -> Seek(b + 1, 1)
                [] OTHER -> <<>>
hash_next ==
    /\ iter # <<>>
    /\ iter' = Seek(iter[1], iter[2] + 1)
    /\ ret' = IF iter' = <<>> THEN <<>> ELSE <<buckets[iter'[1]][iter'[2]]>>
    /\ UNCHANGED <<bucket_cnt, buckets, elem_cnt>>
HashNext ==
    \/ hash_init \/ hash_apply \/ hash_clear \/ hash_destroy \/ hash_first \/ hash_next
    \/ \E e \in HashElems : hash_insert(e) \/ hash_replace(e) \/ hash_find(e) \/ hash_delete(e)
-----------------------------------------------------------------------------
Contents == {All[i] : i \in DOMAIN All}
Ahead == IF iter = <<>> THEN {}
         ELSE {buckets[b][p] : b \in {iter[1]}, p \in (iter[2] + 1) .. Len(buckets[iter[1]])}
              \union UNION {{buckets[b][p] : p \in DOMAIN buckets[b]} : b \in (iter[1] + 1) .. (bucket_cnt - 1)}
Abstract == INSTANCE KeyedSet WITH Elems <- HashElems, contents <- Contents, toVisit <- Ahead
\* TableFaithful: hash_insert(), hash_replace(), hash_find(), hash_delete(),
\* hash_clear(), hash_apply() and hash_next() return and keep what a set of
\* unequal elements would, whatever rehash() did to the buckets and whether or
\* not its malloc() failed; an iteration returns every element once; and
\* elem_cnt, from which rehash() and hash_size() work, is the number of
\* elements on the buckets.
TableFaithful == Abstract!Spec /\ [](elem_cnt = Len(All))
=============================================================================
