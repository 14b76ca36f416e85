------------------------------- MODULE Bitmap -------------------------------
(* lib/kernel/bitmap.c.  A bitmap b of bit_cnt bits is a function from     *)
(* 0 .. bit_cnt - 1 to BOOLEAN; module Klib has the elements it is kept  *)
(* in.                                                                     *)
EXTENDS Integers, FiniteSets

BITMAP_ERROR == -1

bitmap_size(b) == Cardinality(DOMAIN b)
Group(start, cnt) == start .. (start + cnt - 1)

bitmap_set_multiple(b, start, cnt, value) ==
    [i \in DOMAIN b |-> IF i \in Group(start, cnt) THEN value ELSE b[i]]
bitmap_count(b, start, cnt, value) == Cardinality({i \in Group(start, cnt) : b[i] = value})
bitmap_contains(b, start, cnt, value) == \E i \in Group(start, cnt) : b[i] = value
bitmap_any(b, start, cnt) == bitmap_contains(b, start, cnt, TRUE)
bitmap_none(b, start, cnt) == ~bitmap_contains(b, start, cnt, TRUE)
bitmap_all(b, start, cnt) == ~bitmap_contains(b, start, cnt, FALSE)

\* the first group of cnt bits at or after start that all have the value
bitmap_scan(b, start, cnt, value) ==
    LET Fits == {i \in start .. (bitmap_size(b) - cnt) : ~bitmap_contains(b, i, cnt, ~value)}
    IN  IF Fits = {} THEN BITMAP_ERROR ELSE CHOOSE i \in Fits : \A j \in Fits : i <= j

bitmap_scan_and_flip(b, start, cnt, value) ==
    LET idx == bitmap_scan(b, start, cnt, value)
    IN  IF idx = BITMAP_ERROR THEN b ELSE bitmap_set_multiple(b, idx, cnt, ~value)
=============================================================================
