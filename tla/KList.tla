------------------------------- MODULE KList -------------------------------
(***************************************************************************)
(* The kernel's doubly linked list (lib/kernel/list.c) as the sequence of  *)
(* the structures its elements are embedded in.  Each operator returns the *)
(* list the C function leaves behind; Head(s) is the element at the front. *)
(***************************************************************************)
EXTENDS Integers, Sequences, Functions

list_push_back(s, x) == Append(s, x)
list_push_front(s, x) == <<x>> \o s

list_pop_front(s) == Tail(s)

\* The list without its i-th element.
Unlink(s, i) == SubSeq(s, 1, i - 1) \o SubSeq(s, i + 1, Len(s))

\* list_remove() unlinks x from the list it is on.  A list that x is not on
\* stays as it is.
list_remove(s, x) ==
  IF x \in Range(s)
  THEN Unlink(s, CHOOSE i \in 1 .. Len(s) : s[i] = x)
  ELSE s

\* No element is behind one with a smaller key.
Descending(s, key) ==
  \A i, j \in 1 .. Len(s) : i < j => key[s[i]] >= key[s[j]]

\* The first of the positions T, or the end of a list of n elements.
First(T, n) ==
  CHOOSE i \in 1 .. n + 1 :
    (i <= n => i \in T) /\ \A j \in 1 .. i - 1 : j \notin T

\* list_insert() puts x before the i-th element.
list_insert(s, i, x) == SubSeq(s, 1, i - 1) \o <<x>> \o SubSeq(s, i, Len(s))

\* list_insert_ordered() puts x before the first element e with less(x, e); T
\* are the positions of all such elements.
list_insert_ordered(s, x, T) == list_insert(s, First(T, Len(s)), x)
=============================================================================
