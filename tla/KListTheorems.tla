--------------------------- MODULE KListTheorems ---------------------------
(***************************************************************************)
(* What the list operations of KList return, for lists of any length.      *)
(***************************************************************************)
EXTENDS KList, WellFoundedInduction, TLAPS

\* The concatenation of two lists.
LEMMA ConcatElems ==
  ASSUME NEW S, NEW s \in Seq(S), NEW r \in Seq(S)
  PROVE  /\ s \o r \in Seq(S)
         /\ Len(s \o r) = Len(s) + Len(r)
         /\ \A j \in 1 .. Len(s) + Len(r) : (s \o r)[j] = IF j <= Len(s) THEN s[j] ELSE r[j - Len(s)]
OBVIOUS

\* r is the list s of S with x put in at position i.
Inserted(S, s, i, x, r) ==
  /\ r \in Seq(S) /\ Len(r) = Len(s) + 1
  /\ \A j \in 1 .. Len(s) + 1 :
       r[j] = IF j < i THEN s[j] ELSE IF j = i THEN x ELSE s[j - 1]

\* list_insert shifts the elements from position i on by one.
LEMMA InsertElems ==
  ASSUME NEW S, NEW s \in Seq(S), NEW i \in 1 .. Len(s) + 1, NEW x \in S
  PROVE  Inserted(S, s, i, x, list_insert(s, i, x))
<1> DEFINE a == SubSeq(s, 1, i - 1)
           b == SubSeq(s, i, Len(s))
           c == a \o <<x>>
<1>1. a \in Seq(S) /\ Len(a) = i - 1 /\ \A j \in 1 .. i - 1 : a[j] = s[j]
  OBVIOUS
<1>2. /\ b \in Seq(S) /\ Len(b) = Len(s) - i + 1
      /\ \A j \in 1 .. Len(s) - i + 1 : b[j] = s[i + j - 1]
  OBVIOUS
<1>3. <<x>> \in Seq(S) /\ Len(<<x>>) = 1 /\ <<x>>[1] = x
  OBVIOUS
<1> HIDE DEF a, b
<1>4. c \in Seq(S) /\ Len(c) = i /\ \A j \in 1 .. i : c[j] = IF j < i THEN s[j] ELSE x
  BY <1>1, <1>3, ConcatElems
<1> HIDE DEF c
<1>5. /\ c \o b \in Seq(S)
      /\ Len(c \o b) = Len(c) + Len(b)
      /\ \A j \in 1 .. Len(c) + Len(b) : (c \o b)[j] =
           IF j <= Len(c) THEN c[j] ELSE b[j - Len(c)]
  BY <1>2, <1>4, ConcatElems, Zenon
<1>6. list_insert(s, i, x) = c \o b
  BY Zenon DEF list_insert, a, b, c
<1> QED BY <1>2, <1>4, <1>5, <1>6 DEF Inserted

\* Unlink closes the gap at position i.
LEMMA UnlinkElems ==
  ASSUME NEW S, NEW s \in Seq(S), NEW i \in 1 .. Len(s)
  PROVE  /\ Unlink(s, i) \in Seq(S)
         /\ Len(Unlink(s, i)) = Len(s) - 1
         /\ \A j \in 1 .. Len(s) - 1 :
              Unlink(s, i)[j] = IF j < i THEN s[j] ELSE s[j + 1]
<1> DEFINE a == SubSeq(s, 1, i - 1)
           b == SubSeq(s, i + 1, Len(s))
<1>1. a \in Seq(S) /\ Len(a) = i - 1 /\ \A j \in 1 .. i - 1 : a[j] = s[j]
  OBVIOUS
<1>2. b \in Seq(S) /\ Len(b) = Len(s) - i /\ \A j \in 1 .. Len(s) - i : b[j] = s[i + j]
  OBVIOUS
<1> HIDE DEF a, b
<1> DEFINE ab == a \o b
<1>3. /\ ab \in Seq(S)
      /\ Len(ab) = Len(a) + Len(b)
      /\ \A j \in 1 .. Len(a) + Len(b) : ab[j] =
           IF j <= Len(a) THEN a[j] ELSE b[j - Len(a)]
  BY <1>1, <1>2, ConcatElems, Zenon
<1>4. Unlink(s, i) = ab
  BY Zenon DEF Unlink, a, b
<1> HIDE DEF ab
<1>5. Len(ab) = Len(s) - 1
  BY <1>1, <1>2, <1>3
<1>6. ASSUME NEW j \in 1 .. Len(s) - 1
      PROVE  ab[j] = IF j < i THEN s[j] ELSE s[j + 1]
  <2>1. ab[j] = IF j <= i - 1 THEN a[j] ELSE b[j - (i - 1)]
    BY <1>1, <1>2, <1>3
  <2>2. ~(j < i) => b[j - (i - 1)] = s[i + (j - (i - 1))]
    BY <1>2
  <2> QED BY <1>1, <2>1, <2>2
<1> QED BY <1>3, <1>4, <1>5, <1>6, Zenon

\* A first position always exists, so the loop of list_insert_ordered() ends at
\* a position where the element can be put.
LEMMA FirstExists ==
  ASSUME NEW n \in Nat, NEW T \in SUBSET (1 .. n)
  PROVE  /\ First(T, n) \in 1 .. n + 1
         /\ First(T, n) <= n => First(T, n) \in T
         /\ \A j \in 1 .. First(T, n) - 1 : j \notin T
<1>1. \E i \in 1 .. n + 1 : (i <= n => i \in T) /\ \A j \in 1 .. i - 1 : j \notin T
  <2>1. CASE T = {}
    BY <2>1
  <2>2. CASE T # {}
    <3> DEFINE R == {p \in Nat \X Nat : p[1] < p[2]}
    <3>1. IsWellFoundedOn(R, Nat)
      BY NatLessThanWellFounded, Zenon DEF OpToRel
    <3> HIDE DEF R
    <3>2. T \subseteq Nat
      OBVIOUS
    <3>3. \E i \in T : \A j \in T : ~(<<j, i>> \in R)
      BY <2>2, <3>1, <3>2, WFMin, Zenon
    <3>4. \A i, j \in Nat : j < i => <<j, i>> \in R
      BY Zenon DEF R
    <3>5. \E i \in T : \A j \in T : ~(j < i)
      BY <3>2, <3>3, <3>4, Zenon
    <3> QED BY <3>5
  <2> QED BY <2>1, <2>2, Zenon
<1> QED BY <1>1, Zenon DEF First

\* Where list_insert_ordered() puts x, and where that moves the others.
LEMMA InsertFirstElems ==
  ASSUME NEW S, NEW s \in Seq(S), NEW x \in S, NEW T \in SUBSET (1 .. Len(s))
  PROVE  LET k == First(T, Len(s))
             r == list_insert(s, k, x) IN
         /\ r \in Seq(S) /\ Len(r) = Len(s) + 1
         /\ k \in 1 .. Len(s) + 1 /\ (k <= Len(s) => k \in T)
         /\ \A j \in 1 .. k - 1 : j \notin T
         /\ \A j \in 1 .. Len(s) + 1 :
              /\ j < k => j \in 1 .. Len(s) /\ r[j] = s[j]
              /\ j = k => r[j] = x
              /\ j > k => j - 1 \in 1 .. Len(s) /\ r[j] = s[j - 1]
<1> DEFINE k == First(T, Len(s))
           r == list_insert(s, k, x)
<1>1. k \in 1 .. Len(s) + 1 /\ (k <= Len(s) => k \in T) /\ \A j \in 1 .. k - 1 : j \notin T
  BY FirstExists
<1> HIDE DEF k
<1>2. /\ r \in Seq(S) /\ Len(r) = Len(s) + 1
      /\ \A j \in 1 .. Len(s) + 1 :
           r[j] = IF j < k THEN s[j] ELSE IF j = k THEN x ELSE s[j - 1]
  <2>1. k \in 1 .. Len(s) + 1 /\ r = list_insert(s, k, x)
    BY <1>1, Zenon
  <2>2. Inserted(S, s, k, x, r)
    BY <2>1, InsertElems, Zenon
  <2> QED BY <2>2, Zenon DEF Inserted
<1> HIDE DEF r
<1>3. \A j \in 1 .. Len(s) + 1 :
        /\ j < k => j \in 1 .. Len(s) /\ r[j] = s[j]
        /\ j = k => r[j] = x
        /\ j > k => j - 1 \in 1 .. Len(s) /\ r[j] = s[j - 1]
  BY <1>1, <1>2
<1> QED BY <1>1, <1>2, <1>3, Zenon DEF r, k

\* list_insert_ordered() adds x to the list, once, wherever it puts it.
LEMMA InsertFirst ==
  ASSUME NEW S, NEW s \in Seq(S), NEW x \in S, NEW T \in SUBSET (1 .. Len(s))
  PROVE  LET r == list_insert(s, First(T, Len(s)), x) IN
         /\ r \in Seq(S)
         /\ Range(r) = Range(s) \cup {x}
         /\ IsInjective(s) /\ x \notin Range(s) => IsInjective(r)
<1> DEFINE k == First(T, Len(s))
           r == list_insert(s, k, x)
           N == 1 .. Len(s) + 1
<1>1. r \in Seq(S) /\ Len(r) = Len(s) + 1
  BY InsertFirstElems
<1>2. /\ k \in N
      /\ \A j \in N :
           /\ j < k => j \in 1 .. Len(s) /\ r[j] = s[j]
           /\ j = k => r[j] = x
           /\ j > k => j - 1 \in 1 .. Len(s) /\ r[j] = s[j - 1]
  BY InsertFirstElems
<1> HIDE DEF r, k
<1>3. Range(r) = {r[j] : j \in N} /\ Range(s) = {s[j] : j \in 1 .. Len(s)}
  BY <1>1 DEF Range
<1>4. ASSUME NEW j \in N PROVE r[j] \in Range(s) \cup {x}
  BY <1>2, <1>3
<1>5. ASSUME NEW j \in 1 .. Len(s) PROVE s[j] \in Range(r)
  <2>1. CASE j < k
    BY <1>2, <1>3, <2>1
  <2>2. CASE ~(j < k)
    <3>1. j + 1 \in N /\ j + 1 > k /\ (j + 1) - 1 = j
      BY <1>2, <2>2
    <3>2. r[j + 1] = s[j]
      BY <1>2, <3>1, Zenon
    <3> QED BY <1>3, <3>1, <3>2, Zenon
  <2> QED BY <2>1, <2>2, Zenon
<1>6. x \in Range(r)
  BY <1>2, <1>3, Zenon
<1>7. Range(r) = Range(s) \cup {x}
  BY <1>3, <1>4, <1>5, <1>6, Zenon
<1>8. ASSUME IsInjective(s), x \notin Range(s) PROVE IsInjective(r)
  <2>1. \A i, j \in 1 .. Len(s) : s[i] = s[j] => i = j
    BY <1>8 DEF IsInjective
  <2>2. \A i \in 1 .. Len(s) : s[i] # x
    BY <1>3, <1>8, Zenon
  <2>3. ASSUME NEW i \in N, NEW j \in N, i < j PROVE r[i] # r[j]
    <3>1. CASE j < k
      BY <1>2, <2>1, <2>3, <3>1
    <3>2. CASE j = k \/ i = k
      BY <1>2, <2>2, <2>3, <3>2, Zenon
    <3>3. CASE i < k /\ j > k
      <4>1. i # j - 1 /\ r[i] = s[i] /\ r[j] = s[j - 1] /\ i \in 1 .. Len(s)
            /\ j - 1 \in 1 .. Len(s)
        BY <1>2, <2>3, <3>3
      <4> QED BY <2>1, <4>1, Zenon
    <3>4. CASE i > k
      <4>1. i - 1 # j - 1 /\ r[i] = s[i - 1] /\ r[j] = s[j - 1]
            /\ i - 1 \in 1 .. Len(s) /\ j - 1 \in 1 .. Len(s)
        BY <1>2, <2>3, <3>4
      <4> QED BY <2>1, <4>1, Zenon
    <3> QED BY <1>2, <2>3, <3>1, <3>2, <3>3, <3>4
  <2>4. \A i, j \in N : r[i] = r[j] => i = j
    BY <2>3
  <2> QED BY <1>1, <2>4 DEF IsInjective
<1> QED BY <1>1, <1>7, <1>8, Zenon DEF r, k

\* Inserting before the first element of smaller (or of no greater) key keeps
\* a descending list descending.
LEMMA InsertFirstDescending ==
  ASSUME NEW S, NEW s \in Seq(S), NEW x \in S, NEW T \in SUBSET (1 .. Len(s)),
         NEW key \in [S -> Int]
  PROVE  /\ Descending(s, key)
         /\ \A i \in T : key[x] >= key[s[i]]
         /\ \A i \in (1 .. Len(s)) \ T : key[s[i]] >= key[x]
         => Descending(list_insert(s, First(T, Len(s)), x), key)
<1> DEFINE k == First(T, Len(s))
           r == list_insert(s, k, x)
           N == 1 .. Len(s) + 1
<1>1. r \in Seq(S) /\ Len(r) = Len(s) + 1
  BY InsertFirstElems
<1>2. /\ k \in N /\ (k <= Len(s) => k \in T)
      /\ \A j \in 1 .. k - 1 : j \notin T
      /\ \A j \in N :
           /\ j < k => j \in 1 .. Len(s) /\ r[j] = s[j]
           /\ j = k => r[j] = x
           /\ j > k => j - 1 \in 1 .. Len(s) /\ r[j] = s[j - 1]
  BY InsertFirstElems
<1> HIDE DEF r, k
<1> SUFFICES ASSUME Descending(s, key),
                    \A i \in T : key[x] >= key[s[i]],
                    \A i \in (1 .. Len(s)) \ T : key[s[i]] >= key[x]
             PROVE  Descending(r, key)
  BY Zenon DEF r, k
<1>3. \A i \in 1 .. Len(s) : key[s[i]] \in Int
  OBVIOUS
<1>4. \A i, j \in 1 .. Len(s) : i < j => key[s[i]] >= key[s[j]]
  BY Zenon DEF Descending
<1>5. \A i \in 1 .. k - 1 : key[s[i]] >= key[x]
  BY <1>2
<1>6. \A i \in k .. Len(s) : key[x] >= key[s[i]]
  <2> TAKE i \in k .. Len(s)
  <2>1. k \in T /\ key[x] >= key[s[k]]
    BY <1>2
  <2> QED BY <1>3, <1>4, <2>1
<1>7. ASSUME NEW i \in N, NEW j \in N, i < j PROVE key[r[i]] >= key[r[j]]
  <2>1. CASE j < k
    <3>1. r[i] = s[i] /\ r[j] = s[j] /\ i \in 1 .. Len(s) /\ j \in 1 .. Len(s)
      BY <1>2, <1>7, <2>1
    <3> QED BY <1>4, <1>7, <3>1, Zenon
  <2>2. CASE j = k
    <3>1. r[i] = s[i] /\ r[j] = x /\ i \in 1 .. k - 1
      BY <1>2, <1>7, <2>2
    <3> QED BY <1>5, <3>1, Zenon
  <2>3. CASE j > k /\ i < k
    <3>1. r[i] = s[i] /\ r[j] = s[j - 1] /\ i \in 1 .. k - 1 /\ j - 1 \in k .. Len(s)
          /\ i \in 1 .. Len(s) /\ j - 1 \in 1 .. Len(s)
      BY <1>2, <1>7, <2>3
    <3>2. key[s[i]] >= key[x] /\ key[x] >= key[s[j - 1]]
      BY <1>5, <1>6, <3>1, Zenon
    <3>3. key[s[i]] \in Int /\ key[s[j - 1]] \in Int /\ key[x] \in Int
      BY <1>3, <3>1, Zenon
    <3> QED BY <3>1, <3>2, <3>3
  <2>4. CASE j > k /\ i = k
    <3>1. r[i] = x /\ r[j] = s[j - 1] /\ j - 1 \in k .. Len(s)
      BY <1>2, <1>7, <2>4
    <3> QED BY <1>6, <3>1, Zenon
  <2>5. CASE j > k /\ i > k
    <3>1. r[i] = s[i - 1] /\ r[j] = s[j - 1]
          /\ i - 1 \in 1 .. Len(s) /\ j - 1 \in 1 .. Len(s) /\ i - 1 < j - 1
      BY <1>2, <1>7, <2>5
    <3> QED BY <1>4, <3>1, Zenon
  <2> QED BY <1>2, <2>1, <2>2, <2>3, <2>4, <2>5
<1> QED BY <1>1, <1>7, Zenon DEF Descending

\* list_remove() leaves a list.
LEMMA RemoveSeq ==
  ASSUME NEW S, NEW s \in Seq(S), NEW x
  PROVE  list_remove(s, x) \in Seq(S)
<1>1. CASE x \notin Range(s)
  BY <1>1, Zenon DEF list_remove
<1>2. CASE x \in Range(s)
  <2> DEFINE k == CHOOSE i \in 1 .. Len(s) : s[i] = x
  <2>1. k \in 1 .. Len(s)
    BY <1>2 DEF Range
  <2>2. list_remove(s, x) = Unlink(s, k)
    BY <1>2, Zenon DEF list_remove
  <2> HIDE DEF k
  <2> QED BY <2>1, <2>2, UnlinkElems, Zenon
<1> QED BY <1>1, <1>2, Zenon

\* list_remove() takes x off a list without duplicates and keeps the rest in
\* order.
LEMMA RemoveElems ==
  ASSUME NEW S, NEW s \in Seq(S), NEW x, IsInjective(s)
  PROVE  LET r == list_remove(s, x) IN
         /\ r \in Seq(S) /\ IsInjective(r)
         /\ Range(r) = Range(s) \ {x}
         /\ \A key \in [S -> Int] : Descending(s, key) => Descending(r, key)
<1>1. CASE x \notin Range(s)
  BY <1>1, Zenon DEF list_remove
<1>2. CASE x \in Range(s)
  <2> DEFINE k == CHOOSE i \in 1 .. Len(s) : s[i] = x
             r == Unlink(s, k)
  <2>1. k \in 1 .. Len(s) /\ s[k] = x
    BY <1>2 DEF Range
  <2> HIDE DEF k
  <2>2. /\ r \in Seq(S) /\ Len(r) = Len(s) - 1
        /\ \A j \in 1 .. Len(s) - 1 : r[j] = IF j < k THEN s[j] ELSE s[j + 1]
    BY <2>1, UnlinkElems, Zenon
  <2>3. list_remove(s, x) = r
    BY <1>2, Zenon DEF list_remove, k
  <2> HIDE DEF r
  <2>4. \A i, j \in 1 .. Len(s) : s[i] = s[j] => i = j
    BY DEF IsInjective
  <2>5. \A i, j \in 1 .. Len(s) - 1 : r[i] = r[j] => i = j
    BY <2>1, <2>2, <2>4
  <2>6. Range(r) = {r[j] : j \in 1 .. Len(s) - 1} /\ Range(s) = {s[j] : j \in 1 .. Len(s)}
    BY <2>2 DEF Range
  <2>7. ASSUME NEW j \in 1 .. Len(s) - 1 PROVE r[j] \in Range(s) \ {x}
    BY <2>1, <2>2, <2>4, <2>6
  <2>8. ASSUME NEW j \in 1 .. Len(s), s[j] # x PROVE s[j] \in Range(r)
    <3>1. CASE j < k
      BY <2>1, <2>2, <2>6, <3>1
    <3>2. CASE j > k
      <4>1. j - 1 \in 1 .. Len(s) - 1 /\ r[j - 1] = s[j]
        BY <2>1, <2>2, <3>2
      <4> QED BY <2>6, <4>1, Zenon
    <3> QED BY <2>1, <2>8, <3>1, <3>2
  <2>9. Range(r) = Range(s) \ {x}
    BY <2>6, <2>7, <2>8, Zenon
  <2>10. ASSUME NEW key \in [S -> Int], Descending(s, key) PROVE Descending(r, key)
    <3>1. \A i, j \in 1 .. Len(s) : i < j => key[s[i]] >= key[s[j]]
      BY <2>10, Zenon DEF Descending
    <3>2. ASSUME NEW i \in 1 .. Len(s) - 1, NEW j \in 1 .. Len(s) - 1, i < j
          PROVE  key[r[i]] >= key[r[j]]
      <4>1. \A m \in 1 .. Len(s) - 1 :
              /\ m \in 1 .. Len(s) /\ m + 1 \in 1 .. Len(s)
              /\ m < k => r[m] = s[m]
              /\ ~(m < k) => r[m] = s[m + 1]
        <5>1. \A m \in 1 .. Len(s) - 1 : m \in 1 .. Len(s) /\ m + 1 \in 1 .. Len(s)
          OBVIOUS
        <5> QED BY <2>2, <5>1, Zenon
      <4>2. CASE j < k
        <5>1. i < k /\ i \in 1 .. Len(s) /\ j \in 1 .. Len(s)
          BY <2>1, <3>2, <4>1, <4>2
        <5> QED BY <3>1, <3>2, <4>1, <4>2, <5>1, Zenon
      <4>3. CASE i < k /\ ~(j < k)
        <5>1. i \in 1 .. Len(s) /\ j + 1 \in 1 .. Len(s) /\ i < j + 1
          BY <3>2, <4>1
        <5> QED BY <3>1, <4>1, <4>3, <5>1, Zenon
      <4>4. CASE ~(i < k)
        <5>1. i + 1 \in 1 .. Len(s) /\ j + 1 \in 1 .. Len(s) /\ i + 1 < j + 1 /\ ~(j < k)
          BY <2>1, <3>2, <4>1, <4>4
        <5> QED BY <3>1, <4>1, <4>4, <5>1, Zenon
      <4> QED BY <4>2, <4>3, <4>4, Zenon
    <3> QED BY <2>2, <3>2, Zenon DEF Descending
  <2> QED BY <2>2, <2>3, <2>5, <2>9, <2>10 DEF IsInjective
<1> QED BY <1>1, <1>2, Zenon

\* What is on a list, and that its front is.
LEMMA RangeFacts ==
  ASSUME NEW S, NEW s \in Seq(S)
  PROVE  /\ Range(s) \subseteq S
         /\ s = <<>> <=> Range(s) = {}
         /\ s # <<>> => Head(s) \in Range(s)
<1>1. Range(s) = {s[i] : i \in 1 .. Len(s)} /\ Len(s) \in Nat
  BY DEF Range
<1>2. \A i \in 1 .. Len(s) : s[i] \in S
  OBVIOUS
<1>3. s # <<>> => 1 \in 1 .. Len(s) /\ Head(s) = s[1]
  OBVIOUS
<1>4. s = <<>> => Len(s) = 0
  OBVIOUS
<1>5. Range(s) \subseteq S
  BY <1>1, <1>2, Zenon
<1>6. s = <<>> => Range(s) = {}
  BY <1>1, <1>4
<1>7. s # <<>> => Head(s) \in Range(s)
  BY <1>1, <1>3, Zenon
<1> QED BY <1>5, <1>6, <1>7, Zenon

\* The front of a descending list has the greatest key.
LEMMA HeadGreatest ==
  ASSUME NEW S, NEW s \in Seq(S), NEW key \in [S -> Int], Descending(s, key),
         NEW x \in Range(s)
  PROVE  key[Head(s)] >= key[x]
<1>1. PICK i \in 1 .. Len(s) : x = s[i]
  BY DEF Range
<1>2. Head(s) = s[1] /\ 1 \in 1 .. Len(s) /\ s[1] \in S
  BY <1>1
<1>3. CASE i = 1
  <2>1. key[s[1]] \in Int
    BY <1>2, Zenon
  <2> QED BY <1>1, <1>2, <1>3, <2>1
<1>4. CASE i > 1
  BY <1>1, <1>2, <1>4, Zenon DEF Descending
<1> QED BY <1>3, <1>4

\* The order of a list depends only on the keys of its elements.
LEMMA DescendingKeys ==
  ASSUME NEW S, NEW s \in Seq(S), NEW key, NEW key2, Descending(s, key),
         \A x \in Range(s) : key2[x] = key[x]
  PROVE  Descending(s, key2)
BY DEF Descending, Range

\* list_push_back() adds an element that is not on the list behind all others.
LEMMA PushBack ==
  ASSUME NEW S, NEW s \in Seq(S), NEW x \in S
  PROVE  /\ list_push_back(s, x) \in Seq(S)
         /\ Range(list_push_back(s, x)) = Range(s) \cup {x}
         /\ IsInjective(s) /\ x \notin Range(s) => IsInjective(list_push_back(s, x))
<1> DEFINE r == Append(s, x)
<1>1. /\ r \in Seq(S) /\ Len(s) \in Nat /\ Len(r) = Len(s) + 1 /\ r[Len(s) + 1] = x
      /\ \A i \in 1 .. Len(s) : r[i] = s[i]
  OBVIOUS
<1>2. DOMAIN r = 1 .. Len(s) + 1 /\ DOMAIN s = 1 .. Len(s)
  BY <1>1
<1> HIDE DEF r
<1>3. Range(r) = Range(s) \cup {x}
  BY <1>1, <1>2 DEF Range
<1>4. ASSUME IsInjective(s), x \notin Range(s) PROVE IsInjective(r)
  <2>1. \A i \in 1 .. Len(s) : s[i] # x
    BY <1>2, <1>4, Zenon DEF Range
  <2>2. \A i \in 1 .. Len(s) + 1 : i \in 1 .. Len(s) \/ i = Len(s) + 1
    BY <1>1
  <2>3. \A i, j \in 1 .. Len(s) : s[i] = s[j] => i = j
    BY <1>2, <1>4, Zenon DEF IsInjective
  <2>4. \A i, j \in 1 .. Len(s) + 1 : r[i] = r[j] => i = j
    BY <1>1, <2>1, <2>2, <2>3, Zenon
  <2> QED BY <1>2, <2>4, Zenon DEF IsInjective
<1> QED BY <1>1, <1>3, <1>4, Zenon DEF r, list_push_back

\* list_pop_front() unlinks the front and leaves the others in order.
LEMMA PopFront ==
  ASSUME NEW S, NEW s \in Seq(S), s # <<>>, IsInjective(s)
  PROVE  /\ list_pop_front(s) \in Seq(S) /\ IsInjective(list_pop_front(s))
         /\ Range(list_pop_front(s)) = Range(s) \ {Head(s)}
         /\ \A key : Descending(s, key) => Descending(list_pop_front(s), key)
<1> DEFINE r == Tail(s)
<1>1. /\ r \in Seq(S) /\ Len(s) \in Nat /\ Len(s) >= 1 /\ Len(r) = Len(s) - 1 /\ Head(s) = s[1]
      /\ \A i \in 1 .. Len(s) - 1 : r[i] = s[i + 1]
  OBVIOUS
<1>2. DOMAIN r = 1 .. Len(s) - 1 /\ DOMAIN s = 1 .. Len(s)
  BY <1>1
<1> HIDE DEF r
<1>3. \A i, j \in 1 .. Len(s) : s[i] = s[j] => i = j
  BY <1>2, Zenon DEF IsInjective
<1>4. \A i, j \in 1 .. Len(s) - 1 : r[i] = r[j] => i = j
  BY <1>1, <1>3
<1>5. IsInjective(r)
  BY <1>2, <1>4, Zenon DEF IsInjective
<1>6. Range(r) = Range(s) \ {Head(s)}
  <2>1. \A y : y \in Range(s) <=> \E i \in 1 .. Len(s) : y = s[i]
    BY <1>2, Zenon DEF Range
  <2>2. \A y : y \in Range(r) <=> \E i \in 1 .. Len(s) - 1 : y = r[i]
    BY <1>2, Zenon DEF Range
  <2>3. ASSUME NEW y \in Range(r) PROVE y \in Range(s) /\ y # Head(s)
    <3>1. PICK i \in 1 .. Len(s) - 1 : y = s[i + 1]
      BY <1>1, <2>2
    <3>2. i + 1 \in 1 .. Len(s) /\ 1 \in 1 .. Len(s) /\ i + 1 # 1
      BY <1>1
    <3> QED BY <1>1, <1>3, <2>1, <3>1, <3>2, Zenon
  <2>4. ASSUME NEW y \in Range(s), y # Head(s) PROVE y \in Range(r)
    <3>1. PICK i \in 1 .. Len(s) : y = s[i]
      BY <2>1, Zenon
    <3>2. i - 1 \in 1 .. Len(s) - 1 /\ i = (i - 1) + 1
      BY <1>1, <2>4, <3>1
    <3> QED BY <1>1, <2>2, <3>1, <3>2, Zenon
  <2> QED BY <2>3, <2>4, Zenon
<1>7. ASSUME NEW key, Descending(s, key) PROVE Descending(r, key)
  BY <1>1, <1>7 DEF Descending
<1> QED BY <1>1, <1>5, <1>6, <1>7, Zenon DEF r, list_pop_front
=============================================================================
