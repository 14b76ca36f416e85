-------------------------------- MODULE Klib --------------------------------
(* Sorting and searching (lib/stdlib.c, lib/kernel/list.c), the elements a  *)
(* bitmap is packed in (lib/kernel/bitmap.c), 64-bit division                *)
(* (lib/arithmetic.c), random numbers (lib/random.c) and the calibration of  *)
(* the timer's delay loop (devices/timer.c), each with what it must compute. *)
EXTENDS Integers, Sequences, FiniteSets, Bitwise, Bitmap

CONSTANTS Keys, MaxLen,   \* the arrays and lists that are sorted
          WordBits,              \* bits of a word; a long has 2 * WordBits
          ELEM_BITS, MaxBits,
          GenSize,        \* bytes of the generator, 256 in the code
          Width, Caps     \* bits of an unsigned int, and speeds of machines

Arrays == UNION {[1 .. n -> Keys] : n \in 0 .. MaxLen}
Count(s, x) == Cardinality({i \in DOMAIN s : s[i] = x})
IsSorted(s) == \A i \in 1 .. (Len(s) - 1) : s[i] <= s[i + 1]
IsPermutation(s, r) == Len(s) = Len(r) /\ \A i \in DOMAIN s : Count(r, s[i]) = Count(s, s[i])
-----------------------------------------------------------------------------
(* Heap sort and binary search, on 1-based arrays *)

do_swap(a, i, j) == [a EXCEPT ![i] = a[j], ![j] = a[i]]
\* MUTANT: the last element is never a child
Larger_short(a, i, child, cnt) == IF child < cnt /\ a[child] > a[i] THEN child ELSE i
Larger(a, i, child, cnt) == IF child <= cnt /\ a[child] > a[i] THEN child ELSE i
RECURSIVE heapify(_, _, _)
heapify(a, i, cnt) ==
    LET max == Larger(a, Larger(a, i, 2 * i, cnt), 2 * i + 1, cnt)
    IN  IF max = i THEN a ELSE heapify(do_swap(a, i, max), max, cnt)
RECURSIVE BuildHeap(_, _)
BuildHeap(a, i) == IF i = 0 THEN a ELSE BuildHeap(heapify(a, i, Len(a)), i - 1)
RECURSIVE SortHeap(_, _)
SortHeap(a, i) == IF i <= 1 THEN a ELSE SortHeap(heapify(do_swap(a, 1, i), 1, i - 1), i - 1)
sort(a) == SortHeap(BuildHeap(a, Len(a) \div 2), Len(a))

RECURSIVE Search(_, _, _, _)
Search(key, a, first, last) ==
    LET middle == first + (last - first) \div 2
    IN  CASE first >= last -> 0
          [] first < last /\ key < a[middle + 1] -> Search(key, a, first, middle)
          [] first < last /\ key > a[middle + 1] -> Search(key, a, middle + 1, last)
          [] OTHER -> middle + 1
binary_search(key, a) == Search(key, a, 0, Len(a))

SortRight(a, r) == IsSorted(r) /\ IsPermutation(a, r)
SearchRight(key, a, r) == IF \E j \in DOMAIN a : a[j] = key THEN r \in DOMAIN a /\ a[r] = key ELSE r = 0
-----------------------------------------------------------------------------
(* Lists of elements <<key, identity>>; ranges are positions, ends excluded *)

less(x, y) == x[1] < y[1]
\* list_splice() of FIRST up to LAST to a place before them
list_splice(l, before, first, last) ==
    SubSeq(l, 1, before - 1) \o SubSeq(l, first, last - 1) \o SubSeq(l, before, first - 1) \o SubSeq(l, last, Len(l))
RECURSIVE find_end_of_run(_, _, _)
find_end_of_run(l, a, b) ==
    IF a + 1 = b \/ less(l[a + 1], l[a]) THEN a + 1 ELSE find_end_of_run(l, a + 1, b)
RECURSIVE inplace_merge(_, _, _, _)
inplace_merge(l, a0, a1b0, b1) ==
    CASE a0 = a1b0 \/ a1b0 = b1 -> l
      [] a0 # a1b0 /\ a1b0 # b1 /\ ~less(l[a1b0], l[a0]) -> inplace_merge(l, a0 + 1, a1b0, b1)
      [] OTHER -> inplace_merge(list_splice(l, a0, a1b0, a1b0 + 1), a0 + 1, a1b0 + 1, b1)
\* one pass of list_sort() from A0: the list and the number of runs left
RECURSIVE SortPass(_, _, _)
SortPass(l, a0, runs) ==
    LET end == Len(l) + 1
        a1b0 == find_end_of_run(l, a0, end)
        b1 == find_end_of_run(l, a1b0, end)
    IN  CASE a0 = end -> <<l, runs>>
          [] a0 # end /\ a1b0 = end -> <<l, runs + 1>>
          [] OTHER -> SortPass(inplace_merge(l, a0, a1b0, b1), b1, runs + 1)
RECURSIVE list_sort(_)
list_sort(l) == LET p == SortPass(l, 1, 0) IN IF p[2] > 1 THEN list_sort(p[1]) ELSE p[1]
\* the list and the duplicates; ELEM is a position
RECURSIVE list_unique(_, _, _)
list_unique(l, dups, elem) ==
    CASE elem >= Len(l) -> <<l, dups>>
      [] elem < Len(l) /\ ~less(l[elem], l[elem + 1]) /\ ~less(l[elem + 1], l[elem]) ->
           list_unique(SubSeq(l, 1, elem) \o SubSeq(l, elem + 2, Len(l)), Append(dups, l[elem + 1]), elem)
      [] OTHER -> list_unique(l, dups, elem + 1)
RECURSIVE list_max(_, _, _)
list_max(l, max, e) ==
    IF e > Len(l) THEN max ELSE list_max(l, IF less(l[max], l[e]) THEN e ELSE max, e + 1)
RECURSIVE list_min(_, _, _)
list_min(l, min, e) ==
    IF e > Len(l) THEN min ELSE list_min(l, IF less(l[e], l[min]) THEN e ELSE min, e + 1)

Tagged(a) == [i \in DOMAIN a |-> <<a[i], i>>]
\* equal elements keep their order
ListSortRight(a, l) ==
    /\ IsPermutation(Tagged(a), l)
    /\ \A i \in 1 .. (Len(l) - 1) : l[i][1] < l[i + 1][1] \/ (l[i][1] = l[i + 1][1] /\ l[i][2] < l[i + 1][2])
UniqueRight(a, r) ==
    LET kept == {i \in DOMAIN a : i = 1 \/ a[i] # a[i - 1]}
    IN  /\ {r[1][i][2] : i \in DOMAIN r[1]} = kept /\ Len(r[1]) = Cardinality(kept)
        /\ {r[2][i][2] : i \in DOMAIN r[2]} = DOMAIN a \ kept /\ Len(r[2]) = Len(a) - Cardinality(kept)
ExtremeRight(a, max, min) ==
    \A i \in DOMAIN a : /\ a[i] < a[max] \/ (a[i] = a[max] /\ max <= i)
                        /\ a[i] > a[min] \/ (a[i] = a[min] /\ min <= i)
-----------------------------------------------------------------------------
(* Division of longs of 2 * WordBits bits by words of WordBits bits *)

WordBase == 2 ^ WordBits
LongBase == WordBase * WordBase
\* DIVL traps when the quotient does not fit in a word
Trap == 0 - 1
divl(n, d) == IF n \div d < WordBase THEN n \div d ELSE Trap
\* the shifts by WordBits/2, WordBits/4, ... 1 of nlz(), the sizes 16, 8, 4, 2, 1 of a 32-bit word
RECURSIVE Nlz(_, _)
Nlz(x, k) == IF k = 0 THEN 0
             ELSE IF x <= 2 ^ (WordBits - k) - 1 THEN k + Nlz((x * 2 ^ k) % WordBase, k \div 2) ELSE Nlz(x, k \div 2)
nlz(x) == Nlz(x, WordBits \div 2)
udiv64(n, d) ==
    IF d \div WordBase = 0
    THEN LET n1 == n \div WordBase  n0 == n % WordBase
         IN  divl(WordBase * (n1 % d) + n0, d) + WordBase * (n1 \div d)
    ELSE IF n < d THEN 0
         ELSE LET s == nlz(d \div WordBase)
                  q == divl(n \div 2, ((d * 2 ^ s) % LongBase) \div WordBase) \div 2 ^ (WordBits - 1 - s)
              IN  IF (n - (q - 1) * d) % LongBase < d THEN q - 1 ELSE q
Abs64(n) == IF n >= 0 THEN n ELSE 0 - n
Signed(n, m) == ((n + m \div 2) % m) - (m \div 2)
sdiv64(n, d) == LET q == udiv64(Abs64(n), Abs64(d)) IN Signed(IF (n < 0) = (d < 0) THEN q ELSE 0 - q, LongBase)
\* umod64() and smod64() cut the remainder to a word
umod64(n, d) == (n - d * udiv64(n, d)) % WordBase
smod64(n, d) == Signed(n - d * sdiv64(n, d), WordBase)

Half == LongBase \div 2
Longs == (0 - Half) .. (Half - 1)
\* n and d are read as signed and, a negative one as n + LongBase, as unsigned
Divided(n, d) == [u |-> udiv64(n % LongBase, d % LongBase), um |-> umod64(n % LongBase, d % LongBase),
                  s |-> sdiv64(n, d), sm |-> smod64(n, d)]
DivRight(n, d, r) ==
    LET un == n % LongBase  ud == d % LongBase
    IN  /\ r.u = un \div ud /\ (ud <= WordBase => r.um = un % ud)
        /\ ~(n = 0 - Half /\ d = 0 - 1) =>
             /\ Abs64(r.s) = Abs64(n) \div Abs64(d) /\ (r.s # 0 => (r.s < 0) = ((n < 0) # (d < 0)))
             /\ Abs64(d) <= WordBase \div 2 => r.sm = n - d * r.s
-----------------------------------------------------------------------------
(* Bitmaps as elements of ELEM_BITS bits *)

elem_idx(bit_idx) == bit_idx \div ELEM_BITS
bit_mask(bit_idx) == 2 ^ (bit_idx % ELEM_BITS)
ElemCnt(bit_cnt) == (bit_cnt + ELEM_BITS - 1) \div ELEM_BITS
\* MUTANT: a full last element is masked away
last_mask_zero(bit_cnt) == 2 ^ (bit_cnt % ELEM_BITS) - 1
last_mask(bit_cnt) == IF bit_cnt % ELEM_BITS # 0 THEN 2 ^ (bit_cnt % ELEM_BITS) - 1 ELSE 2 ^ ELEM_BITS - 1
Marked(m, i) == [m EXCEPT !.bits[elem_idx(i)] = @ | bit_mask(i)]
Reset(m, i) == [m EXCEPT !.bits[elem_idx(i)] = @ & (2 ^ ELEM_BITS - 1 - bit_mask(i))]
Flipped(m, i) == [m EXCEPT !.bits[elem_idx(i)] = @ ^^ bit_mask(i)]
Test(m, i) == (m.bits[elem_idx(i)] & bit_mask(i)) # 0
RECURSIVE SetMultiple(_, _, _, _)
SetMultiple(m, start, cnt, value) ==
    IF cnt = 0 THEN m ELSE SetMultiple(IF value THEN Marked(m, start) ELSE Reset(m, start), start + 1, cnt - 1, value)
\* what bitmap_read() makes of the elements in the file
Read(bit_cnt, elems) ==
    [bit_cnt |-> bit_cnt,
     bits |-> [i \in 0 .. (ElemCnt(bit_cnt) - 1) |->
                 IF i = ElemCnt(bit_cnt) - 1 THEN elems[i] & last_mask(bit_cnt) ELSE elems[i]]]
\* the bitmap it stands for, in the terms of module Bitmap
Unpacked(m) == [i \in 0 .. (m.bit_cnt - 1) |-> Test(m, i)]
Bitmaps(n, elems, i) ==
    LET m == Read(n, elems)
    IN  [read |-> m, mark |-> Marked(m, i), reset |-> Reset(m, i), flip |-> Flipped(m, i),
         fill |-> SetMultiple(m, i, n - i, TRUE), clear |-> SetMultiple(m, i, n - i, FALSE)]
BitmapRight(n, elems, i, r) ==
    LET u == Unpacked(r.read)
    IN  /\ \A j \in 0 .. (n - 1) : u[j] = ((elems[j \div ELEM_BITS] \div 2 ^ (j % ELEM_BITS)) % 2 = 1)
        /\ r.read.bits[ElemCnt(n) - 1] < 2 ^ (((n - 1) % ELEM_BITS) + 1)
        /\ Unpacked(r.mark) = [u EXCEPT ![i] = TRUE] /\ Unpacked(r.reset) = [u EXCEPT ![i] = FALSE]
        /\ Unpacked(r.flip) = [u EXCEPT ![i] = ~@]
        /\ Unpacked(r.fill) = bitmap_set_multiple(u, i, n - i, TRUE)
        /\ Unpacked(r.clear) = bitmap_set_multiple(u, i, n - i, FALSE)
-----------------------------------------------------------------------------
(* The generator, with GenSize bytes *)

RECURSIVE Shuffle(_, _, _, _)
Shuffle(s, seedp, i, j) ==
    LET j2 == (j + s[i] + seedp[(i % Len(seedp)) + 1]) % GenSize
    IN  IF i = GenSize THEN s ELSE Shuffle(do_swap(s, i, j2), seedp, i + 1, j2)
random_init(seedp) == [s |-> Shuffle([i \in 0 .. (GenSize - 1) |-> i], seedp, 0, 0), i |-> 0, j |-> 0]
\* one byte of random_bytes(): the generator after it, and the byte
random_byte(g) ==
    LET i == (g.i + 1) % GenSize
        j == (g.j + g.s[i]) % GenSize
        s == do_swap(g.s, i, j)
    IN  [gen |-> [s |-> s, i |-> i, j |-> j], byte |-> s[(s[i] + s[j]) % GenSize]]
Generators(seedp) == LET g == random_init(seedp) IN {g, random_byte(g).gen, random_byte(random_byte(g).gen).gen}
\* S[] stays a permutation, so that no byte becomes impossible
RandomRight(r) == \A g \in r : {g.s[i] : i \in 0 .. (GenSize - 1)} = 0 .. (GenSize - 1)
-----------------------------------------------------------------------------
(* timer_calibrate() on a machine that runs cap rounds of a loop in a tick *)

too_many_loops(n, cap) == n > cap
\* the largest power of two; 0 where the ASSERT stops it
RECURSIVE Doubled(_, _)
Doubled(n, cap) == IF n = 0 \/ too_many_loops((2 * n) % 2 ^ Width, cap) THEN n ELSE Doubled((2 * n) % 2 ^ Width, cap)
RECURSIVE Refined(_, _, _, _)
Refined(n, high_bit, test_bit, cap) ==
    IF test_bit = high_bit \div 2 ^ 10 THEN n
    ELSE Refined(IF too_many_loops(n + test_bit, cap) THEN n ELSE n + test_bit, high_bit, test_bit \div 2, cap)
timer_calibrate(cap) == LET high_bit == Doubled(2 ^ 10, cap) IN Refined(high_bit, high_bit, high_bit \div 2, cap)
\* never an overestimate, less than a 512th too low, and given up only on a
\* machine whose count does not fit
CalibrateRight(cap, r) ==
    IF r = 0 THEN cap >= 2 ^ (Width - 1)
    ELSE r <= cap /\ \E k \in 0 .. Width : 2 ^ k <= cap /\ cap < 2 ^ (k + 1) /\ 512 * (cap - r) < 2 ^ k
-----------------------------------------------------------------------------
(* The calls, their results and what is right *)

KlibCalls ==
    {[fn |-> f, a |-> a] : f \in {"sort", "list_sort", "list_unique"}, a \in Arrays}
    \union {[fn |-> "list_max", a |-> a] : a \in Arrays \ {<<>>}}
    \union {[fn |-> "binary_search", a |-> a, key |-> k] : a \in {x \in Arrays : IsSorted(x)}, k \in Keys}
    \union {[fn |-> "divide", n |-> n, d |-> d] : n \in Longs, d \in Longs \ {0}}
    \union UNION {{[fn |-> "bitmap", n |-> n, elems |-> e, i |-> i] :
                     e \in [0 .. (ElemCnt(n) - 1) -> 0 .. (2 ^ ELEM_BITS - 1)], i \in 0 .. (n - 1)} : n \in 1 .. MaxBits}
    \union {[fn |-> "random", seed |-> s] : s \in [1 .. 2 -> 0 .. (GenSize - 1)]}
    \union {[fn |-> "calibrate", cap |-> c] : c \in Caps}
KlibReturn(c) ==
    CASE c.fn = "sort" -> sort(c.a)
      [] c.fn = "list_sort" -> list_sort(Tagged(c.a))
      [] c.fn = "list_unique" -> list_unique(Tagged(c.a), <<>>, 1)
      [] c.fn = "list_max" -> [max |-> list_max(Tagged(c.a), 1, 2), min |-> list_min(Tagged(c.a), 1, 2)]
      [] c.fn = "binary_search" -> binary_search(c.key, c.a)
      [] c.fn = "divide" -> Divided(c.n, c.d)
      [] c.fn = "bitmap" -> Bitmaps(c.n, c.elems, c.i)
      [] c.fn = "random" -> Generators(c.seed)
      [] c.fn = "calibrate" -> timer_calibrate(c.cap)
KlibRight(c, r) ==
    CASE c.fn = "sort" -> SortRight(c.a, r)
      [] c.fn = "list_sort" -> ListSortRight(c.a, r)
      [] c.fn = "list_unique" -> UniqueRight(c.a, r)
      [] c.fn = "list_max" -> ExtremeRight(c.a, r.max, r.min)
      [] c.fn = "binary_search" -> SearchRight(c.key, c.a, r)
      [] c.fn = "divide" -> DivRight(c.n, c.d, r)
      [] c.fn = "bitmap" -> BitmapRight(c.n, c.elems, c.i, r)
      [] c.fn = "random" -> RandomRight(r)
      [] c.fn = "calibrate" -> CalibrateRight(c.cap, r)
=============================================================================
