--------------------------- MODULE DevicesProofs ----------------------------
(* Proofs about the interrupt queues and the console, for any buffer size,   *)
(* readers, writers and bytes; and about the sleeping threads, for any       *)
(* number of threads, naps and ticks.                                        *)
EXTENDS Intq, TimerSleep, KListTheorems, TLAPS

-----------------------------------------------------------------------------
(* The interrupt queues: every byte put in comes out, once and in order.     *)

IOThreads == Readers \union Writers
Bytes == Writers \X (0 .. 2)
Places == 0 .. (INTQ_BUFSIZE - 1)
Ring == [buf : [Places -> Nat \union Bytes \union {NULL}], head : Places, tail : Places,
         lock : IOThreads \union {NULL}, not_empty : IOThreads \union {NULL}, not_full : IOThreads \union {NULL}]
Asleep == {"waiting", "woken"}
\* the points of a writer inside serial_putc()
Printing == {"putc"} \union Asleep
ReaderPoints == {"done", "getc", "wants"} \union Asleep
WriterPoints == {"done", "line", "inner", "release"} \union Printing

\* A writer never waits for the lock of a queue: console_lock keeps the others out.
IntqTypes ==
    /\ q \in [{"in", "tx"} -> Ring] /\ mode \in {"POLL", "QUEUE"}
    /\ rbr \in Nat \union {NULL} /\ thr \in Bytes \union {NULL}
    /\ console \in [holder : Writers \union {NULL}, depth : Nat]
    /\ pc \in [IOThreads -> ReaderPoints \union WriterPoints]
    /\ \A t \in Readers : pc[t] \in ReaderPoints
    /\ \A t \in Writers : pc[t] \in WriterPoints
    /\ at \in [Writers -> 0 .. 2]
    /\ arrived \in Nat /\ accepted \in Seq(Nat) /\ taken \in Seq(Nat)
    /\ put \in Seq(Bytes) /\ sent \in Seq(Bytes)

\* What was put in is what was taken out and what is on its way.
QueueInv ==
    /\ Held(q["in"]) \in Seq(Nat) /\ Held(q["tx"]) \in Seq(Bytes)
    /\ accepted = taken \o Held(q["in"])
    /\ put = sent \o InPort \o Held(q["tx"])
    /\ mode = "POLL" => intq_empty(q["tx"])

\* Who has the lock of a queue, or is its waiter, sleeps; and a second reader
\* has to be there before one waits for the lock.
TwoReaders == \E t, u \in on \cap Readers : t # u
WaitInv ==
    /\ q["in"].not_full = NULL /\ q["tx"].not_empty = NULL
    /\ q["in"].lock # NULL => q["in"].lock \in Readers /\ pc[q["in"].lock] \in Asleep
    /\ q["tx"].lock # NULL => q["tx"].lock \in Writers /\ pc[q["tx"].lock] \in Asleep
    /\ q["in"].not_empty # NULL => q["in"].not_empty \in Readers /\ pc[q["in"].not_empty] = "waiting"
    /\ q["tx"].not_full # NULL => q["tx"].not_full \in Writers /\ pc[q["tx"].not_full] = "waiting"
    /\ \A t \in Readers : (pc[t] # "done" => t \in on) /\ (pc[t] = "wants" => TwoReaders)
    /\ panic => TwoReaders

\* The console's lock: its holder is the one thread with a line begun, and the
\* last byte printed is the holder's.
ConsoleAt(t) ==
    /\ pc[t] \in {"line", "done"} <=> console.holder # t
    /\ pc[t] = "line" => at[t] = 0
    /\ pc[t] = "done" => at[t] = 2
    /\ pc[t] \in Printing => (console.depth = 0 /\ at[t] < 2) \/ (console.depth = 1 /\ at[t] = 1)
    /\ pc[t] = "inner" => console.depth = 0 /\ at[t] = 1
    /\ pc[t] = "release" => (console.depth = 1 /\ at[t] = 1) \/ (console.depth = 0 /\ at[t] = 2)
    /\ at[t] = 1 => put # <<>> /\ put[Len(put)] \in {<<t, 1>>, <<t, 0>>}
ConsoleInv == (console.holder = NULL => console.depth = 0) /\ \A t \in Writers : ConsoleAt(t)
LinesInv == \A i \in DOMAIN put : put[i][2] # 1 => i > 1 /\ put[i - 1] \in {<<put[i][1], 1>>, <<put[i][1], 0>>}

IntqInv == IntqTypes /\ QueueInv /\ WaitInv /\ ConsoleInv /\ LinesInv

-----------------------------------------------------------------------------
\* Arithmetic of positions in a ring of n places.
LEMMA ModFacts ==
  \A n \in Nat \ {0} : \A a \in Int :
    /\ 0 <= a /\ a < 2 * n => a % n = IF a < n THEN a ELSE a - n
    /\ -n <= a /\ a < n => a % n = IF a < 0 THEN a + n ELSE a
OBVIOUS

\* next() of intq.c stays in the buffer.
LEMMA NextFacts ==
  ASSUME NEW p \in Places
  PROVE  next(p) \in Places /\ next(p) = IF p + 1 = INTQ_BUFSIZE THEN 0 ELSE p + 1
<1>1. INTQ_BUFSIZE \in Nat \ {0} /\ p \in Int /\ 0 <= p /\ p < INTQ_BUFSIZE
  BY IntqAssumption DEF Places
<1>2. (p + 1) % INTQ_BUFSIZE = IF p + 1 < INTQ_BUFSIZE THEN p + 1 ELSE (p + 1) - INTQ_BUFSIZE
  <2>1. p + 1 \in Int /\ 0 <= p + 1 /\ p + 1 < 2 * INTQ_BUFSIZE
    BY <1>1
  <2> QED BY <1>1, <2>1, ModFacts, Zenon
<1> QED BY <1>1, <1>2 DEF next, Places

\* The number of bytes in a queue, and the place of each.
LEMMA HeldFacts ==
  ASSUME NEW r \in Ring
  PROVE  LET c == IF r.tail <= r.head THEN r.head - r.tail ELSE r.head - r.tail + INTQ_BUFSIZE
         IN  /\ c \in 0 .. (INTQ_BUFSIZE - 1)
             /\ DOMAIN Held(r) = 1 .. c
             /\ \A k \in 1 .. c : Held(r)[k] =
                  r.buf[IF r.tail + k - 1 < INTQ_BUFSIZE THEN r.tail + k - 1 ELSE (r.tail + k - 1) - INTQ_BUFSIZE]
<1> DEFINE n == INTQ_BUFSIZE
           c == IF r.tail <= r.head THEN r.head - r.tail ELSE r.head - r.tail + n
<1>1. /\ n \in Nat \ {0} /\ r.head \in Int /\ 0 <= r.head /\ r.head < n
      /\ r.tail \in Int /\ 0 <= r.tail /\ r.tail < n
  BY IntqAssumption DEF Ring, Places
<1>2. (r.head - r.tail) % n = c
  <2>1. r.head - r.tail \in Int /\ -n <= r.head - r.tail /\ r.head - r.tail < n
    BY <1>1
  <2>2. (r.head - r.tail) % n = IF r.head - r.tail < 0 THEN r.head - r.tail + n ELSE r.head - r.tail
    BY <1>1, <2>1, ModFacts, Zenon
  <2> QED BY <1>1, <2>2
<1>3. c \in 0 .. (n - 1)
  BY <1>1
<1>4. ASSUME NEW k \in 1 .. c
      PROVE  (r.tail + k - 1) % n = IF r.tail + k - 1 < n THEN r.tail + k - 1 ELSE (r.tail + k - 1) - n
  <2>1. r.tail + k - 1 \in Int /\ 0 <= r.tail + k - 1 /\ r.tail + k - 1 < 2 * n
    BY <1>1, <1>3
  <2> QED BY <1>1, <2>1, ModFacts, Zenon
<1> HIDE DEF c
<1>5. Held(r) = [k \in 1 .. c |-> r.buf[(r.tail + k - 1) % n]]
  BY <1>2, Zenon DEF Held
<1>6. \A k \in 1 .. c : Held(r)[k] =
        r.buf[IF r.tail + k - 1 < n THEN r.tail + k - 1 ELSE (r.tail + k - 1) - n]
  BY <1>4, <1>5, Zenon
<1> QED BY <1>3, <1>5, <1>6, Zenon DEF c

\* A queue is empty when it holds nothing.
LEMMA EmptyHeld ==
  ASSUME NEW r \in Ring
  PROVE  /\ intq_empty(r) <=> Held(r) = <<>>
         /\ intq_empty(r) => ~(INTQ_BUFSIZE > 1 /\ intq_full(r))
<1> DEFINE c == IF r.tail <= r.head THEN r.head - r.tail ELSE r.head - r.tail + INTQ_BUFSIZE
<1>1. c \in 0 .. (INTQ_BUFSIZE - 1) /\ DOMAIN Held(r) = 1 .. c
  BY HeldFacts, Zenon
<1>2. r.head \in Places /\ r.tail \in Places /\ INTQ_BUFSIZE \in Nat \ {0}
  BY IntqAssumption, Zenon DEF Ring
<1>3. intq_empty(r) <=> c = 0
  BY <1>2 DEF intq_empty, Places
<1>4. Held(r) = [k \in 1 .. c |-> Held(r)[k]]
  BY <1>1, Zenon DEF Held
<1>5. c = 0 <=> Held(r) = <<>>
  <2> HIDE DEF c
  <2> QED BY <1>1, <1>4
<1>6. intq_empty(r) => ~(INTQ_BUFSIZE > 1 /\ intq_full(r))
  BY <1>2, NextFacts DEF intq_empty, intq_full, Places
<1> QED BY <1>3, <1>5, <1>6, Zenon

\* Sequences with the same elements are the same.
LEMMA SeqExt ==
  ASSUME NEW B, NEW a \in Seq(B), NEW b \in Seq(B), Len(a) = Len(b), \A i \in 1 .. Len(a) : a[i] = b[i]
  PROVE  a = b
<1>1. a = [i \in 1 .. Len(a) |-> a[i]] /\ b = [i \in 1 .. Len(b) |-> b[i]]
  OBVIOUS
<1> QED BY <1>1, Zenon

\* Concatenation is associative, and Append() is one.
LEMMA ConcatFacts ==
  ASSUME NEW B, NEW a \in Seq(B), NEW b \in Seq(B), NEW c \in Seq(B), NEW d \in B
  PROVE  /\ a \o (b \o c) = (a \o b) \o c
         /\ Append(a, d) = a \o <<d>> /\ <<d>> \in Seq(B) /\ a \o b \in Seq(B)
         /\ a \o <<>> = a /\ <<>> \o a = a
<1>1. /\ a \o b \in Seq(B) /\ Len(a \o b) = Len(a) + Len(b)
      /\ \A j \in 1 .. Len(a) + Len(b) : (a \o b)[j] = IF j <= Len(a) THEN a[j] ELSE b[j - Len(a)]
  BY ConcatElems, Zenon
<1>2. /\ b \o c \in Seq(B) /\ Len(b \o c) = Len(b) + Len(c)
      /\ \A j \in 1 .. Len(b) + Len(c) : (b \o c)[j] = IF j <= Len(b) THEN b[j] ELSE c[j - Len(b)]
  BY ConcatElems, Zenon
<1>3. a \o (b \o c) = (a \o b) \o c
  <2>1. PICK x \in Seq(B) : x = a \o b
    BY <1>1, Zenon
  <2>2. PICK y \in Seq(B) : y = b \o c
    BY <1>2, Zenon
  <2>3. /\ a \o y \in Seq(B) /\ Len(a \o y) = Len(a) + Len(y)
        /\ \A j \in 1 .. Len(a) + Len(y) : (a \o y)[j] = IF j <= Len(a) THEN a[j] ELSE y[j - Len(a)]
    BY ConcatElems, Zenon
  <2>4. /\ x \o c \in Seq(B) /\ Len(x \o c) = Len(x) + Len(c)
        /\ \A j \in 1 .. Len(x) + Len(c) : (x \o c)[j] = IF j <= Len(x) THEN x[j] ELSE c[j - Len(x)]
    BY ConcatElems, Zenon
  <2>5. PICK v \in Seq(B) : v = a \o y
    BY <2>3, Zenon
  <2>6. PICK w \in Seq(B) : w = x \o c
    BY <2>4, Zenon
  <2>7. Len(a) \in Nat /\ Len(b) \in Nat /\ Len(c) \in Nat
    OBVIOUS
  <2>8. Len(v) = Len(a) + Len(b) + Len(c) /\ Len(w) = Len(a) + Len(b) + Len(c)
    BY <1>1, <1>2, <2>1, <2>2, <2>3, <2>4, <2>5, <2>6, <2>7
  <2>9. ASSUME NEW j \in 1 .. (Len(a) + Len(b) + Len(c))
        PROVE  v[j] = w[j]
    <3>1. CASE j <= Len(a)
      BY <1>1, <1>2, <2>1, <2>2, <2>3, <2>4, <2>5, <2>6, <2>7, <3>1
    <3>2. CASE j > Len(a) /\ j <= Len(a) + Len(b)
      BY <1>1, <1>2, <2>1, <2>2, <2>3, <2>4, <2>5, <2>6, <2>7, <3>2
    <3>3. CASE j > Len(a) + Len(b)
      <4>1. /\ j - Len(a) \in 1 .. Len(y) /\ ~(j <= Len(a)) /\ ~(j - Len(a) <= Len(b))
            /\ (j - Len(a)) - Len(b) = j - Len(x) /\ ~(j <= Len(x))
            /\ j \in 1 .. Len(a) + Len(y) /\ j \in 1 .. Len(x) + Len(c)
        BY <1>1, <1>2, <2>1, <2>2, <2>7, <3>3
      <4>2. v[j] = y[j - Len(a)] /\ w[j] = c[j - Len(x)]
        BY <2>3, <2>4, <2>5, <2>6, <4>1, Zenon
      <4>3. y[j - Len(a)] = c[(j - Len(a)) - Len(b)]
        BY <1>2, <2>2, <4>1, Zenon
      <4> QED BY <4>1, <4>2, <4>3, Zenon
    <3> QED BY <2>7, <3>1, <3>2, <3>3
  <2>10. v = w
    BY <2>8, <2>9, SeqExt, Zenon
  <2> QED BY <2>1, <2>2, <2>5, <2>6, <2>10, Zenon
<1>4. Append(a, d) = a \o <<d>> /\ <<d>> \in Seq(B)
  OBVIOUS
<1>5. a \o <<>> = a /\ <<>> \o a = a
  OBVIOUS
<1> QED BY <1>1, <1>3, <1>4, <1>5, Zenon

\* A byte that leaves the front of one sequence for the end of another.
FrontMoved(a, b, c) ==
    /\ a \o (<<b>> \o c) = Append(a, b) \o c
    /\ a \o <<>> \o (<<b>> \o c) = a \o <<b>> \o c
    /\ Append(a, b) \o <<>> \o c = a \o <<b>> \o c
\* A sequence whose first element goes to the end of the one before it.
LEMMA MoveFront ==
  ASSUME NEW B, NEW a \in Seq(B), NEW b \in B, NEW c \in Seq(B)
  PROVE  FrontMoved(a, b, c)
<1>1. <<b>> \in Seq(B) /\ Append(a, b) = a \o <<b>>
  BY ConcatFacts
<1>2. a \o <<b>> \in Seq(B) /\ a \o <<>> = a
  BY <1>1, ConcatFacts, Zenon
<1>3. (a \o <<b>>) \o <<>> = a \o <<b>>
  BY <1>1, <1>2, ConcatFacts
<1>4. a \o (<<b>> \o c) = (a \o <<b>>) \o c
  BY <1>1, ConcatFacts
<1> QED BY <1>1, <1>2, <1>3, <1>4, Zenon DEF FrontMoved

\* A byte that joins the end of a sequence made of two.
EndJoined(a, c, d) == Append(a \o c, d) = a \o Append(c, d)
\* A sequence that grows at its end.
LEMMA MoveEnd ==
  ASSUME NEW B, NEW a \in Seq(B), NEW c \in Seq(B), NEW d \in B
  PROVE  EndJoined(a, c, d)
<1>1. <<d>> \in Seq(B) /\ a \o c \in Seq(B)
  BY ConcatFacts
<1>2. Append(a \o c, d) = (a \o c) \o <<d>> /\ Append(c, d) = c \o <<d>>
  BY <1>1, ConcatFacts
<1>3. a \o (c \o <<d>>) = (a \o c) \o <<d>>
  BY <1>1, ConcatFacts
<1> QED BY <1>2, <1>3, Zenon DEF EndJoined

\* intq_putc() adds a byte at the end.
LEMMA PutHeld ==
  ASSUME NEW B \in SUBSET (Nat \union Bytes), NEW r \in Ring, NEW b \in B, Held(r) \in Seq(B), ~intq_full(r)
  PROVE  /\ Put(r, b) \in Ring /\ Held(Put(r, b)) = Append(Held(r), b)
         /\ Put(r, b).lock = r.lock /\ Put(r, b).not_empty = NULL /\ Put(r, b).not_full = r.not_full
<1> DEFINE n == INTQ_BUFSIZE
           p == Put(r, b)
           c == IF r.tail <= r.head THEN r.head - r.tail ELSE r.head - r.tail + n
           d == IF p.tail <= p.head THEN p.head - p.tail ELSE p.head - p.tail + n
           At(t, k) == IF t + k - 1 < n THEN t + k - 1 ELSE (t + k - 1) - n
<1>1. n \in Nat \ {0} /\ r.head \in Places /\ r.tail \in Places /\ next(r.head) \in Places
  BY IntqAssumption, NextFacts, Zenon DEF Ring
<1>2. p \in Ring
  BY <1>1, Zenon DEF Put, Ring
<1>3. /\ p.head = next(r.head) /\ p.tail = r.tail /\ p.buf = [r.buf EXCEPT ![r.head] = b]
      /\ p.lock = r.lock /\ p.not_empty = NULL /\ p.not_full = r.not_full
  BY Zenon DEF Put, Ring
<1>4. /\ c \in 0 .. (n - 1) /\ DOMAIN Held(r) = 1 .. c
      /\ \A k \in 1 .. c : Held(r)[k] = r.buf[At(r.tail, k)]
  BY HeldFacts, Zenon
<1>5. /\ d \in 0 .. (n - 1) /\ DOMAIN Held(p) = 1 .. d
      /\ \A k \in 1 .. d : Held(p)[k] = p.buf[At(p.tail, k)]
  <2> HIDE DEF p
  <2> QED BY <1>2, HeldFacts, Zenon
<1>6. /\ d = c + 1
      /\ \A k \in 1 .. c : At(r.tail, k) \in Places /\ At(r.tail, k) # r.head
      /\ At(r.tail, c + 1) = r.head
  <2>1. PICK h \in 0 .. (n - 1), t \in 0 .. (n - 1), g \in Int : h = r.head /\ t = r.tail /\ g = next(r.head)
    BY <1>1 DEF Places
  <2>2. g = (IF h + 1 = n THEN 0 ELSE h + 1) /\ g # t
    BY <1>1, <2>1, NextFacts, Zenon DEF intq_full
  <2>3. p.head = g /\ p.tail = t
    BY <1>3, <2>1, Zenon
  <2>4. PICK x \in Int, y \in Int : x = c /\ y = d
    BY <1>4, <1>5
  <2>5. x = (IF t <= h THEN h - t ELSE h - t + n) /\ y = (IF t <= g THEN g - t ELSE g - t + n)
    BY <2>1, <2>3, <2>4, Zenon
  <2>6. /\ y = x + 1
        /\ \A k \in 1 .. x : At(t, k) \in 0 .. (n - 1) /\ At(t, k) # h
        /\ At(t, x + 1) = h
    <3>1. n \in Nat \ {0} /\ h \in 0 .. (n - 1) /\ t \in 0 .. (n - 1) /\ g \in Int /\ x \in Int /\ y \in Int
      BY <1>1, <2>1, <2>4, Zenon
    <3> QED BY <2>2, <2>5, <3>1, SMTT(30)
  <2> HIDE DEF c, d, At
  <2> QED BY <2>1, <2>4, <2>6, Zenon DEF Places
<1>9. r.buf \in [Places -> Nat \union Bytes \union {NULL}]
  BY Zenon DEF Ring
<1> HIDE DEF c, d, p, At
<1>10. \A k \in 1 .. c : Held(p)[k] = Held(r)[k]
  BY <1>3, <1>4, <1>5, <1>6, <1>9
<1>11. Held(p)[c + 1] = b
  BY <1>1, <1>3, <1>4, <1>5, <1>6, <1>9
<1>12. Held(p) = [k \in 1 .. d |-> Held(p)[k]]
  BY <1>5, Zenon DEF Held
<1>13. Held(p) = Append(Held(r), b)
  <2>1. Len(Held(r)) = c /\ c \in Nat
    BY <1>4
  <2>2. \A k \in 1 .. d : Held(p)[k] \in B
    BY <1>4, <1>6, <1>10, <1>11, <2>1
  <2>3. Held(p) \in Seq(B) /\ Len(Held(p)) = c + 1
    BY <1>6, <1>12, <2>1, <2>2
  <2>4. /\ Append(Held(r), b) \in Seq(B) /\ Len(Append(Held(r), b)) = c + 1
        /\ \A k \in 1 .. (c + 1) : Append(Held(r), b)[k] = IF k <= c THEN Held(r)[k] ELSE b
    BY <2>1
  <2>5. \A k \in 1 .. (c + 1) : Held(p)[k] = Append(Held(r), b)[k]
    BY <1>10, <1>11, <2>1, <2>4
  <2> QED BY <2>3, <2>4, <2>5, SeqExt, Zenon
<1> QED BY <1>2, <1>3, <1>13, Zenon DEF p

\* intq_getc() takes the byte at the front.
LEMMA GetHeld ==
  ASSUME NEW B, NEW r \in Ring, Held(r) \in Seq(B), ~intq_empty(r)
  PROVE  /\ Get(r) \in Ring /\ Held(Get(r)) \in Seq(B) /\ r.buf[r.tail] \in B
         /\ Held(r) = <<r.buf[r.tail]>> \o Held(Get(r))
         /\ ~intq_full(Get(r))
         /\ Get(r).lock = r.lock /\ Get(r).not_empty = r.not_empty /\ Get(r).not_full = NULL
<1> DEFINE n == INTQ_BUFSIZE
           g == Get(r)
           c == IF r.tail <= r.head THEN r.head - r.tail ELSE r.head - r.tail + n
           d == IF g.tail <= g.head THEN g.head - g.tail ELSE g.head - g.tail + n
           At(t, k) == IF t + k - 1 < n THEN t + k - 1 ELSE (t + k - 1) - n
<1>1. n \in Nat \ {0} /\ r.head \in Places /\ r.tail \in Places /\ next(r.tail) \in Places
  BY IntqAssumption, NextFacts, Zenon DEF Ring
<1>2. g \in Ring
  BY <1>1, Zenon DEF Get, Ring
<1>3. /\ g.tail = next(r.tail) /\ g.head = r.head /\ g.buf = r.buf
      /\ g.lock = r.lock /\ g.not_empty = r.not_empty /\ g.not_full = NULL
  BY Zenon DEF Get, Ring
<1>4. /\ c \in 0 .. (n - 1) /\ DOMAIN Held(r) = 1 .. c
      /\ \A k \in 1 .. c : Held(r)[k] = r.buf[At(r.tail, k)]
  BY HeldFacts, Zenon
<1>5. /\ d \in 0 .. (n - 1) /\ DOMAIN Held(g) = 1 .. d
      /\ \A k \in 1 .. d : Held(g)[k] = g.buf[At(g.tail, k)]
  <2> HIDE DEF g
  <2> QED BY <1>2, HeldFacts, Zenon
<1>6. /\ c = d + 1
      /\ \A k \in 1 .. d : At(g.tail, k) = At(r.tail, k + 1)
      /\ ~intq_full(g)
  <2>1. PICK h \in 0 .. (n - 1), t \in 0 .. (n - 1), u \in Int : h = r.head /\ t = r.tail /\ u = next(r.tail)
    BY <1>1 DEF Places
  <2>2. u = (IF t + 1 = n THEN 0 ELSE t + 1) /\ h # t
    BY <1>1, <2>1, NextFacts, Zenon DEF intq_empty
  <2>3. g.tail = u /\ g.head = h
    BY <1>3, <2>1, Zenon
  <2>4. PICK x \in Int, y \in Int : x = c /\ y = d
    BY <1>4, <1>5
  <2>5. x = (IF t <= h THEN h - t ELSE h - t + n) /\ y = (IF u <= h THEN h - u ELSE h - u + n)
    BY <2>1, <2>3, <2>4, Zenon
  <2>6. /\ x = y + 1
        /\ \A k \in 1 .. y : At(u, k) = At(t, k + 1)
        /\ u # IF h + 1 = n THEN 0 ELSE h + 1
    <3>1. n \in Nat \ {0} /\ h \in 0 .. (n - 1) /\ t \in 0 .. (n - 1) /\ u \in Int /\ x \in Int /\ y \in Int
      BY <1>1, <2>1, <2>4, Zenon
    <3> QED BY <2>2, <2>5, <3>1, SMTT(30)
  <2>7. next(h) = IF h + 1 = n THEN 0 ELSE h + 1
    BY <1>1, <2>1, NextFacts, Zenon
  <2> HIDE DEF c, d, At
  <2> QED BY <2>1, <2>3, <2>4, <2>6, <2>7, Zenon DEF intq_full
<1>8. At(r.tail, 1) = r.tail
  BY <1>1 DEF Places
<1> HIDE DEF c, d, g, At
<1>10. \A k \in 1 .. d : Held(g)[k] = Held(r)[k + 1]
  BY <1>3, <1>4, <1>5, <1>6
<1>11. Held(r)[1] = r.buf[r.tail]
  BY <1>4, <1>5, <1>6, <1>8
<1>12. Held(g) = [k \in 1 .. d |-> Held(g)[k]] /\ Held(r) = [k \in 1 .. c |-> Held(r)[k]]
  BY <1>4, <1>5, Zenon DEF Held
<1>13. Len(Held(r)) = c /\ \A k \in 1 .. c : Held(r)[k] \in B
  BY <1>4
<1>14. r.buf[r.tail] \in B
  BY <1>5, <1>6, <1>11, <1>13
<1>15. Held(g) \in Seq(B) /\ Len(Held(g)) = d
  <2>1. \A k \in 1 .. d : Held(g)[k] \in B
    BY <1>4, <1>5, <1>6, <1>10, <1>13
  <2>2. d \in Nat
    BY <1>1, <1>5
  <2> QED BY <1>12, <2>1, <2>2
<1>16. Held(r) = <<r.buf[r.tail]>> \o Held(g)
  <2>1. PICK b \in B : b = r.buf[r.tail]
    BY <1>14, Zenon
  <2>2. <<b>> \in Seq(B) /\ Len(<<b>>) = 1 /\ <<b>>[1] = b
    OBVIOUS
  <2>3. /\ <<b>> \o Held(g) \in Seq(B) /\ Len(<<b>> \o Held(g)) = 1 + d
        /\ \A k \in 1 .. (1 + d) : (<<b>> \o Held(g))[k] = IF k <= 1 THEN <<b>>[k] ELSE Held(g)[k - 1]
    BY <1>15, <2>2, ConcatElems, Zenon
  <2>4. \A k \in 1 .. c : Held(r)[k] = (<<b>> \o Held(g))[k]
    BY <1>4, <1>5, <1>6, <1>10, <1>11, <2>1, <2>2, <2>3
  <2>5. Len(Held(r)) = Len(<<b>> \o Held(g))
    BY <1>5, <1>6, <1>13, <2>3
  <2> QED BY <1>13, <2>1, <2>3, <2>4, <2>5, SeqExt, Zenon
<1> QED BY <1>2, <1>3, <1>6, <1>14, <1>15, <1>16, Zenon DEF g


-----------------------------------------------------------------------------
\* NULL is no thread, and no byte.
LEMMA NullFacts ==
  /\ NULL \notin IOThreads /\ NULL \notin Readers /\ NULL \notin Writers /\ NULL \notin Bytes /\ NULL \notin Nat
  /\ \A t \in Readers : t \notin Writers
BY IntqAssumption DEF IOThreads, Bytes

\* signal() wakes the waiter if there is one.
WakesOne(p, w) ==
    /\ Woken(p, w) \in [IOThreads -> ReaderPoints \union WriterPoints]
    /\ \A t \in IOThreads : Woken(p, w)[t] = IF t = w THEN "woken" ELSE p[t]
\* Waking one thread moves no other.
LEMMA WokenFacts ==
  ASSUME NEW p \in [IOThreads -> ReaderPoints \union WriterPoints], NEW w \in IOThreads \union {NULL}
  PROVE  WakesOne(p, w)
<1>1. "woken" \in ReaderPoints \union WriterPoints
  BY Zenon DEF ReaderPoints, Asleep
<1>2. CASE w = NULL
  BY <1>2, NullFacts, Zenon DEF Woken, WakesOne
<1>3. CASE w # NULL
  BY <1>1, <1>3, NullFacts, Zenon DEF Woken, WakesOne
<1> QED BY <1>2, <1>3, Zenon

\* A step that moves no byte.
LEMMA BytesKept ==
  ASSUME QueueInv, UNCHANGED <<thr, mode, accepted, taken, put, sent>>,
         \A u \in {"in", "tx"} : q'[u].buf = q[u].buf /\ q'[u].head = q[u].head /\ q'[u].tail = q[u].tail
  PROVE  QueueInv'
<1>1. Held(q["in"])' = Held(q["in"]) /\ Held(q["tx"])' = Held(q["tx"])
  BY Zenon DEF Held
<1>2. intq_empty(q["tx"])' <=> intq_empty(q["tx"])
  BY Zenon DEF intq_empty
<1>3. InPort' = InPort
  BY Zenon DEF InPort
<1> QED BY <1>1, <1>2, <1>3, Zenon DEF QueueInv

\* A step in which no line is begun, continued or ended.
LEMMA ConsoleKept ==
  ASSUME ConsoleInv, LinesInv, UNCHANGED <<console, at, put>>,
         \A t \in Writers : pc'[t] = pc[t] \/ (pc[t] \in Printing /\ pc'[t] \in Printing)
  PROVE  ConsoleInv' /\ LinesInv'
<1>1. LinesInv'
  BY Zenon DEF LinesInv
<1>2. ASSUME NEW t \in Writers
      PROVE  ConsoleAt(t)'
  <2>1. ConsoleAt(t)
    BY Zenon DEF ConsoleInv
  <2>2. CASE pc'[t] = pc[t]
    BY <2>1, <2>2, Zenon DEF ConsoleAt
  <2>3. CASE pc[t] \in Printing /\ pc'[t] \in Printing
    <3>1. \A l \in Printing : l \notin {"line", "done"} /\ l # "inner" /\ l # "release"
      BY Zenon DEF Printing, Asleep
    <3> QED BY <2>1, <2>3, <3>1, Zenon DEF ConsoleAt
  <2> QED BY <2>2, <2>3, Zenon
<1> QED BY <1>1, <1>2, Zenon DEF ConsoleInv

\* A step that takes no lock of a queue and leaves no thread waiting.
LEMMA WaitKept ==
  ASSUME IntqTypes, WaitInv, UNCHANGED <<on, panic>>,
         \A u \in {"in", "tx"} : /\ q'[u].lock = q[u].lock
                                 /\ q'[u].not_empty \in {q[u].not_empty, NULL}
                                 /\ q'[u].not_full \in {q[u].not_full, NULL},
         \A t \in IOThreads :
           \/ pc'[t] = pc[t]
           \/ pc[t] \notin {"waiting", "woken", "done"} /\ pc'[t] # "wants"
           \/ pc[t] = "waiting" /\ pc'[t] = "woken" /\ t \notin {q'["in"].not_empty, q'["tx"].not_full}
  PROVE  WaitInv'
<1> USE NullFacts
<1>1. TwoReaders' <=> TwoReaders
  BY Zenon DEF TwoReaders
<1>2. q'["in"].not_full = NULL /\ q'["tx"].not_empty = NULL
  BY Zenon DEF WaitInv
<1>3. ASSUME NEW t \in IOThreads, pc[t] \in Asleep
      PROVE  pc'[t] \in Asleep
  BY <1>3, Zenon DEF Asleep
<1>4. /\ q'["in"].lock # NULL => q'["in"].lock \in Readers /\ pc'[q'["in"].lock] \in Asleep
      /\ q'["tx"].lock # NULL => q'["tx"].lock \in Writers /\ pc'[q'["tx"].lock] \in Asleep
  BY <1>3, Zenon DEF WaitInv, IOThreads
<1>5. q'["in"].not_empty # NULL => q'["in"].not_empty \in Readers /\ pc'[q'["in"].not_empty] = "waiting"
  BY Zenon DEF WaitInv, IOThreads
<1>6. q'["tx"].not_full # NULL => q'["tx"].not_full \in Writers /\ pc'[q'["tx"].not_full] = "waiting"
  BY Zenon DEF WaitInv, IOThreads
<1>7. ASSUME NEW t \in Readers
      PROVE  (pc'[t] # "done" => t \in on') /\ (pc'[t] = "wants" => TwoReaders')
  <2>1. (pc[t] # "done" => t \in on) /\ (pc[t] = "wants" => TwoReaders) /\ t \in IOThreads
    BY Zenon DEF WaitInv, IOThreads
  <2> QED BY <1>1, <2>1, Zenon
<1> QED BY <1>1, <1>2, <1>4, <1>5, <1>6, <1>7, Zenon DEF WaitInv

\* wait() with the queue's lock just taken.
LEMMA WaitStep ==
  ASSUME IntqInv, NEW t \in IOThreads, q[QueueOf(t)].lock = NULL, Wait(t, [q[QueueOf(t)] EXCEPT !.lock = t]),
         UNCHANGED <<on, mode, rbr, thr, console, at, arrived, accepted, taken, put, sent>>,
         t \in Readers => pc[t] \in {"getc", "wants"},
         t \in Writers => pc[t] = "putc",
         ~Stuck(t) => pc[t] = "wants"
  PROVE  IntqInv'
<1> USE NullFacts
<1> DEFINE u == QueueOf(t)
<1>1. IntqTypes /\ QueueInv /\ WaitInv /\ ConsoleInv /\ LinesInv
  BY Zenon DEF IntqInv
<1>2. CASE ~Stuck(t)
  <2>1. t \in Readers /\ pc[t] = "wants" /\ panic' = TRUE /\ UNCHANGED <<q, pc>>
    BY <1>2, Zenon DEF Wait, IOThreads
  <2>2. TwoReaders /\ (TwoReaders' <=> TwoReaders)
    BY <1>1, <2>1, Zenon DEF WaitInv, TwoReaders
  <2>3. WaitInv'
    BY <1>1, <2>1, <2>2, Zenon DEF WaitInv
  <2>4. IntqTypes'
    BY <1>1, <2>1, Zenon DEF IntqTypes
  <2>5. QueueInv'
    BY <1>1, <2>1, BytesKept, Zenon
  <2>6. ConsoleInv' /\ LinesInv'
    BY <1>1, <2>1, ConsoleKept, Zenon
  <2> QED BY <2>3, <2>4, <2>5, <2>6, Zenon DEF IntqInv
<1>3. CASE Stuck(t)
  <2> DEFINE r == [q[u] EXCEPT !.lock = t]
             s == IF t \in Readers THEN [r EXCEPT !.not_empty = t] ELSE [r EXCEPT !.not_full = t]
  <2>1. q' = [q EXCEPT ![u] = s] /\ pc' = [pc EXCEPT ![t] = "waiting"] /\ UNCHANGED panic
    BY <1>3, Zenon DEF Wait
  <2>2. u \in {"in", "tx"} /\ q[u] \in Ring /\ (u = "in" <=> t \in Readers)
    BY <1>1, Zenon DEF QueueOf, IntqTypes
  <2>3. /\ s \in Ring /\ s.buf = q[u].buf /\ s.head = q[u].head /\ s.tail = q[u].tail /\ s.lock = t
        /\ s.not_empty = (IF t \in Readers THEN t ELSE q[u].not_empty)
        /\ s.not_full = (IF t \in Readers THEN q[u].not_full ELSE t)
    BY <2>2, Zenon DEF Ring
  <2> HIDE DEF s
  <2>4. q' \in [{"in", "tx"} -> Ring] /\ \A x \in {"in", "tx"} : q'[x] = IF x = u THEN s ELSE q[x]
    BY <1>1, <2>1, <2>2, <2>3, Zenon DEF IntqTypes
  <2>5. /\ pc' \in [IOThreads -> ReaderPoints \union WriterPoints]
        /\ \A x \in IOThreads : pc'[x] = IF x = t THEN "waiting" ELSE pc[x]
    BY <1>1, <2>1, Zenon DEF IntqTypes, ReaderPoints, Asleep
  <2> HIDE DEF u
  <2>6. IntqTypes'
    <3>1. /\ \A x \in Readers : pc'[x] \in ReaderPoints
          /\ \A x \in Writers : pc'[x] \in WriterPoints
      BY <1>1, <2>5, Zenon
         DEF IntqTypes, ReaderPoints, WriterPoints, Printing, Asleep, IOThreads
    <3> QED BY <1>1, <2>4, <2>5, <3>1, Zenon DEF IntqTypes
  <2>7. QueueInv'
    <3>1. \A x \in {"in", "tx"} : q'[x].buf = q[x].buf /\ q'[x].head = q[x].head /\ q'[x].tail = q[x].tail
      BY <2>3, <2>4, Zenon
    <3> QED BY <1>1, <3>1, BytesKept, Zenon
  <2>8. ConsoleInv' /\ LinesInv'
    <3>1. \A x \in Writers : pc'[x] = pc[x] \/ (pc[x] \in Printing /\ pc'[x] \in Printing)
      BY <2>5, Zenon DEF Printing, Asleep, IOThreads
    <3> QED BY <1>1, <3>1, ConsoleKept, Zenon
  <2>9. WaitInv'
    <3>1. TwoReaders' <=> TwoReaders
      BY Zenon DEF TwoReaders
    <3>2. q'["in"].not_full = NULL /\ q'["tx"].not_empty = NULL
      BY <1>1, <2>2, <2>3, <2>4, Zenon DEF WaitInv
    <3>3. \A x \in IOThreads : pc[x] \in Asleep => pc'[x] \in Asleep
      BY <2>5, Zenon DEF Asleep
    <3>4. /\ q'["in"].lock # NULL => q'["in"].lock \in Readers /\ pc'[q'["in"].lock] \in Asleep
          /\ q'["tx"].lock # NULL => q'["tx"].lock \in Writers /\ pc'[q'["tx"].lock] \in Asleep
      BY <1>1, <2>2, <2>3, <2>4, <2>5, <3>3 DEF WaitInv, IOThreads, Asleep
    <3>5. /\ q'["in"].not_empty # NULL => q'["in"].not_empty \in Readers /\ pc'[q'["in"].not_empty] = "waiting"
          /\ q'["tx"].not_full # NULL => q'["tx"].not_full \in Writers /\ pc'[q'["tx"].not_full] = "waiting"
      BY <1>1, <2>2, <2>3, <2>4, <2>5 DEF WaitInv, IOThreads
    <3>6. \A x \in Readers : (pc'[x] # "done" => x \in on') /\ (pc'[x] = "wants" => TwoReaders')
      BY <1>1, <2>5, <3>1, Zenon DEF WaitInv, IOThreads
    <3> QED BY <1>1, <2>1, <3>1, <3>2, <3>4, <3>5, <3>6, Zenon DEF WaitInv
  <2> QED BY <2>6, <2>7, <2>8, <2>9, Zenon DEF IntqInv
<1> QED BY <1>2, <1>3, Zenon

\* A thread finds its queue empty or full.
LEMMA IntqBlockInv ==
  ASSUME IntqInv, NEW t \in IOThreads, intq_block(t), UNCHANGED on
  PROVE  IntqInv'
<1> USE NullFacts
<1> DEFINE u == QueueOf(t)
<1>1. IntqTypes /\ QueueInv /\ WaitInv /\ ConsoleInv /\ LinesInv
  BY Zenon DEF IntqInv
<1>2. /\ pc[t] = (IF t \in Readers THEN "getc" ELSE "putc") /\ Stuck(t)
      /\ UNCHANGED <<mode, rbr, thr, console, at, arrived, accepted, taken, put, sent>>
  BY Zenon DEF intq_block
<1>3. CASE q[u].lock = NULL
  <2>1. Wait(t, [q[u] EXCEPT !.lock = t])
    BY <1>3, Zenon DEF intq_block
  <2> QED BY <1>2, <1>3, <2>1, WaitStep, Zenon
<1>4. CASE q[u].lock # NULL
  <2>1. pc' = [pc EXCEPT ![t] = "wants"] /\ UNCHANGED <<q, panic>>
    BY <1>4, Zenon DEF intq_block
  <2>2. t \in Readers
    <3>1. SUFFICES ASSUME t \in Writers PROVE FALSE
      BY Zenon DEF IOThreads
    <3>2. u = "tx" /\ pc[t] = "putc"
      BY <1>2, <3>1, Zenon DEF QueueOf
    <3>3. q["tx"].lock \in Writers /\ pc[q["tx"].lock] \in Asleep
      BY <1>1, <1>4, <3>2, Zenon DEF WaitInv
    <3>4. \A x \in Writers : pc[x] \in {"putc"} \union Asleep => console.holder = x
      BY <1>1, Zenon DEF ConsoleInv, ConsoleAt, Asleep
    <3> QED BY <3>1, <3>2, <3>3, <3>4, Zenon DEF Asleep
  <2>3. pc[t] = "getc" /\ u = "in"
    BY <1>2, <2>2, Zenon DEF QueueOf
  <2>4. q["in"].lock \in Readers /\ pc[q["in"].lock] \in Asleep
    BY <1>1, <1>4, <2>3, Zenon DEF WaitInv
  <2>5. TwoReaders
    <3>1. t \in on /\ q["in"].lock \in on /\ q["in"].lock # t
      BY <1>1, <2>2, <2>3, <2>4, Zenon DEF WaitInv, Asleep
    <3> QED BY <2>2, <2>4, <3>1, Zenon DEF TwoReaders
  <2>6. /\ pc' \in [IOThreads -> ReaderPoints \union WriterPoints]
        /\ \A x \in IOThreads : pc'[x] = IF x = t THEN "wants" ELSE pc[x]
    BY <1>1, <2>1, Zenon DEF IntqTypes, ReaderPoints
  <2>7. IntqTypes'
    <3>1. /\ \A x \in Readers : pc'[x] \in ReaderPoints
          /\ \A x \in Writers : pc'[x] \in WriterPoints
      BY <1>1, <2>2, <2>6, Zenon DEF IntqTypes, ReaderPoints, IOThreads
    <3> QED BY <1>1, <1>2, <2>1, <2>6, <3>1, Zenon DEF IntqTypes
  <2>8. QueueInv'
    BY <1>1, <1>2, <2>1, BytesKept, Zenon
  <2>9. ConsoleInv' /\ LinesInv'
    BY <1>1, <1>2, <2>2, <2>6, ConsoleKept, Zenon DEF IOThreads
  <2>10. WaitInv'
    <3>1. TwoReaders'
      BY <2>5, Zenon DEF TwoReaders
    <3> QED BY <1>1, <2>1, <2>2, <2>3, <2>6, <3>1, Zenon DEF WaitInv, IOThreads, Asleep
  <2> QED BY <2>7, <2>8, <2>9, <2>10, Zenon DEF IntqInv
<1> QED BY <1>3, <1>4, Zenon

\* A thread gets the lock of a queue it has waited for.
LEMMA IntqLockedInv ==
  ASSUME IntqInv, NEW t \in IOThreads, intq_locked(t), UNCHANGED on
  PROVE  IntqInv'
<1>1. /\ pc[t] = "wants" /\ q[QueueOf(t)].lock = NULL /\ Wait(t, [q[QueueOf(t)] EXCEPT !.lock = t])
      /\ UNCHANGED <<mode, rbr, thr, console, at, arrived, accepted, taken, put, sent>>
  BY Zenon DEF intq_locked
<1>2. t \notin Writers
  BY <1>1, Zenon DEF IntqInv, IntqTypes, WriterPoints, Printing, Asleep
<1> QED BY <1>1, <1>2, WaitStep, Zenon

\* A woken thread gives the lock of the queue back and looks again.
LEMMA IntqWokenInv ==
  ASSUME IntqInv, NEW t \in IOThreads, intq_woken(t), UNCHANGED on
  PROVE  IntqInv'
<1> USE NullFacts
<1> DEFINE u == QueueOf(t)
           l == IF t \in Readers THEN "getc" ELSE "putc"
<1>1. IntqTypes /\ QueueInv /\ WaitInv /\ ConsoleInv /\ LinesInv
  BY Zenon DEF IntqInv
<1>2. /\ pc[t] = "woken" /\ q' = [q EXCEPT ![u].lock = NULL] /\ pc' = [pc EXCEPT ![t] = l]
      /\ UNCHANGED <<on, panic, mode, rbr, thr, console, at, arrived, accepted, taken, put, sent>>
  BY Zenon DEF intq_woken
<1>3. u \in {"in", "tx"} /\ q[u] \in Ring /\ (u = "in" <=> t \in Readers)
  BY <1>1, Zenon DEF QueueOf, IntqTypes
<1> DEFINE s == [q[u] EXCEPT !.lock = NULL]
<1>4. /\ s \in Ring /\ s.buf = q[u].buf /\ s.head = q[u].head /\ s.tail = q[u].tail /\ s.lock = NULL
      /\ s.not_empty = q[u].not_empty /\ s.not_full = q[u].not_full
  BY <1>3, Zenon DEF Ring
<1>5. q' = [q EXCEPT ![u] = s]
  BY <1>2, Zenon
<1> HIDE DEF s
<1>6. q' \in [{"in", "tx"} -> Ring] /\ \A x \in {"in", "tx"} : q'[x] = IF x = u THEN s ELSE q[x]
  BY <1>1, <1>3, <1>4, <1>5, Zenon DEF IntqTypes
<1>7. /\ pc' \in [IOThreads -> ReaderPoints \union WriterPoints]
      /\ \A x \in IOThreads : pc'[x] = IF x = t THEN l ELSE pc[x]
  BY <1>1, <1>2, Zenon DEF IntqTypes, ReaderPoints, WriterPoints, Printing
<1> HIDE DEF u
<1>8. IntqTypes'
  <2>1. /\ \A x \in Readers : pc'[x] \in ReaderPoints
        /\ \A x \in Writers : pc'[x] \in WriterPoints
    BY <1>1, <1>7, Zenon DEF IntqTypes, ReaderPoints, WriterPoints, Printing, IOThreads
  <2> QED BY <1>1, <1>2, <1>6, <1>7, <2>1, Zenon DEF IntqTypes
<1>9. QueueInv'
  <2>1. \A x \in {"in", "tx"} : q'[x].buf = q[x].buf /\ q'[x].head = q[x].head /\ q'[x].tail = q[x].tail
    BY <1>4, <1>6, Zenon
  <2> QED BY <1>1, <1>2, <2>1, BytesKept, Zenon
<1>10. ConsoleInv' /\ LinesInv'
  <2>1. \A x \in Writers : pc'[x] = pc[x] \/ (pc[x] \in Printing /\ pc'[x] \in Printing)
    BY <1>2, <1>7, Zenon DEF Printing, Asleep, IOThreads
  <2> QED BY <1>1, <1>2, <2>1, ConsoleKept, Zenon
<1>11. WaitInv'
  <2>1. TwoReaders' <=> TwoReaders
    BY <1>2, Zenon DEF TwoReaders
  <2>2. /\ q'[u].lock = NULL
        /\ \A x \in {"in", "tx"} : /\ x # u => q'[x].lock = q[x].lock
                                   /\ q'[x].not_empty = q[x].not_empty /\ q'[x].not_full = q[x].not_full
    BY <1>3, <1>4, <1>6, Zenon
  <2>3. \A x \in IOThreads : x # t => pc'[x] = pc[x]
    BY <1>7, Zenon
  <2>4. /\ q'["in"].lock # NULL => q'["in"].lock \in Readers /\ pc'[q'["in"].lock] \in Asleep
        /\ q'["tx"].lock # NULL => q'["tx"].lock \in Writers /\ pc'[q'["tx"].lock] \in Asleep
    BY <1>1, <1>3, <2>2, <2>3 DEF WaitInv, IOThreads
  <2>5. /\ q'["in"].not_empty # NULL => q'["in"].not_empty \in Readers /\ pc'[q'["in"].not_empty] = "waiting"
        /\ q'["tx"].not_full # NULL => q'["tx"].not_full \in Writers /\ pc'[q'["tx"].not_full] = "waiting"
        /\ q'["in"].not_full = NULL /\ q'["tx"].not_empty = NULL
    BY <1>1, <1>2, <2>2, <2>3 DEF WaitInv, IOThreads
  <2>6. \A x \in Readers : (pc'[x] # "done" => x \in on') /\ (pc'[x] = "wants" => TwoReaders')
    BY <1>1, <1>2, <1>7, <2>1, Zenon DEF WaitInv, IOThreads
  <2> QED BY <1>1, <1>2, <2>1, <2>4, <2>5, <2>6, Zenon DEF WaitInv
<1> QED BY <1>8, <1>9, <1>10, <1>11, Zenon DEF IntqInv

\* input_getc() takes the oldest byte; nobody waits for room in that queue.
LEMMA InputGetcInv ==
  ASSUME IntqInv, NEW t \in Readers, input_getc(t), UNCHANGED on
  PROVE  IntqInv'
<1> USE NullFacts
<1> DEFINE r == q["in"]
           l == IF gets[t] + 1 = MaxGet THEN "done" ELSE "getc"
<1>1. IntqTypes /\ QueueInv /\ WaitInv /\ ConsoleInv /\ LinesInv
  BY Zenon DEF IntqInv
<1>2. /\ pc[t] = "getc" /\ ~intq_empty(r) /\ taken' = Append(taken, r.buf[r.tail])
      /\ q' = [q EXCEPT !["in"] = Get(r)] /\ pc' = Woken([pc EXCEPT ![t] = l], r.not_full)
      /\ UNCHANGED <<on, mode, rbr, thr, console, at, arrived, accepted, put, sent, panic>>
  BY Zenon DEF input_getc
<1>3. pc' = [pc EXCEPT ![t] = l]
  BY <1>1, <1>2, Zenon DEF WaitInv, Woken
<1>4. r \in Ring /\ Held(r) \in Seq(Nat) /\ taken \in Seq(Nat) /\ accepted = taken \o Held(r)
  BY <1>1, Zenon DEF IntqTypes, QueueInv
<1>5. /\ Get(r) \in Ring /\ Held(Get(r)) \in Seq(Nat) /\ r.buf[r.tail] \in Nat
      /\ Held(r) = <<r.buf[r.tail]>> \o Held(Get(r))
      /\ Get(r).lock = r.lock /\ Get(r).not_empty = r.not_empty /\ Get(r).not_full = NULL
  BY <1>2, <1>4, GetHeld, Zenon
<1>6. accepted = taken' \o Held(Get(r))
  <2>1. FrontMoved(taken, r.buf[r.tail], Held(Get(r)))
    BY <1>4, <1>5, MoveFront, Zenon
  <2> QED BY <1>2, <1>4, <1>5, <2>1, Zenon DEF FrontMoved
<1> DEFINE s == Get(r)
<1>7. q' \in [{"in", "tx"} -> Ring] /\ q'["in"] = s /\ q'["tx"] = q["tx"]
  BY <1>1, <1>2, <1>5, Zenon DEF IntqTypes
<1>8. /\ pc' \in [IOThreads -> ReaderPoints \union WriterPoints]
      /\ \A x \in IOThreads : pc'[x] = IF x = t THEN l ELSE pc[x]
  BY <1>1, <1>3, Zenon DEF IntqTypes, ReaderPoints, IOThreads
<1>9. taken' \in Seq(Nat)
  BY <1>2, <1>4, <1>5
<1> HIDE DEF s
<1>10. IntqTypes'
  <2>1. /\ \A x \in Readers : pc'[x] \in ReaderPoints
        /\ \A x \in Writers : pc'[x] \in WriterPoints
    BY <1>1, <1>8, Zenon DEF IntqTypes, ReaderPoints, IOThreads
  <2> QED BY <1>1, <1>2, <1>7, <1>8, <1>9, <2>1, Zenon DEF IntqTypes
<1>11. QueueInv'
  <2>1. Held(q["in"])' \in Seq(Nat) /\ accepted' = taken' \o Held(q["in"])'
    BY <1>2, <1>5, <1>6, <1>7, Zenon DEF s
  <2>2. Held(q["tx"])' = Held(q["tx"]) /\ InPort' = InPort /\ (intq_empty(q["tx"])' <=> intq_empty(q["tx"]))
    BY <1>2, <1>7, Zenon DEF InPort
  <2> QED BY <1>1, <1>2, <2>1, <2>2, Zenon DEF QueueInv
<1>12. ConsoleInv' /\ LinesInv'
  <2>1. \A x \in Writers : pc'[x] = pc[x]
    BY <1>8, Zenon DEF IOThreads
  <2> QED BY <1>1, <1>2, <2>1, ConsoleKept, Zenon
<1>13. WaitInv'
  <2>1. \A x \in IOThreads : pc'[x] = pc[x] \/ (pc[x] \notin {"waiting", "woken", "done"} /\ pc'[x] # "wants")
    BY <1>2, <1>8, Zenon
  <2>2. \A u \in {"in", "tx"} : /\ q'[u].lock = q[u].lock
                                /\ q'[u].not_empty \in {q[u].not_empty, NULL}
                                /\ q'[u].not_full \in {q[u].not_full, NULL}
    BY <1>5, <1>7, Zenon DEF s
  <2> QED BY <1>1, <1>2, <2>1, <2>2, WaitKept, Zenon
<1> QED BY <1>10, <1>11, <1>12, <1>13, Zenon DEF IntqInv

\* A full queue is not empty.
LEMMA FullNotEmpty ==
  ASSUME NEW r \in Ring, intq_full(r)
  PROVE  ~intq_empty(r)
<1>1. r.head \in Places /\ INTQ_BUFSIZE \in Nat \ {0, 1}
  BY IntqAssumption, Zenon DEF Ring
<1>2. next(r.head) = IF r.head + 1 = INTQ_BUFSIZE THEN 0 ELSE r.head + 1
  BY <1>1, NextFacts, Zenon
<1>3. next(r.head) # r.head
  BY <1>1, <1>2 DEF Places
<1> QED BY <1>3, Zenon DEF intq_full, intq_empty

\* The console's lock keeps the others out of their lines.
LEMMA OthersWait ==
  ASSUME ConsoleInv, NEW t \in Writers, NEW x \in Writers, x # t,
         console.holder \in {t, NULL}, console'.holder \in {t, NULL},
         pc'[x] = pc[x], at'[x] = at[x]
  PROVE  ConsoleAt(x)'
<1> USE NullFacts
<1>1. ConsoleAt(x) /\ console.holder # x /\ console'.holder # x
  BY Zenon DEF ConsoleInv
<1>2. pc[x] \in {"line", "done"}
  BY <1>1, Zenon DEF ConsoleAt
<1>3. (pc[x] = "line" => at[x] = 0) /\ (pc[x] = "done" => at[x] = 2)
  BY <1>1, Zenon DEF ConsoleAt
<1>4. pc[x] \notin Printing /\ pc[x] # "inner" /\ pc[x] # "release"
  BY <1>2, Zenon DEF Printing, Asleep
<1>5. at[x] # 1
  BY <1>2, <1>3
<1> QED BY <1>1, <1>2, <1>3, <1>4, <1>5, Zenon DEF ConsoleAt

\* A thread takes or gives up the console's lock.
LEMMA ConsoleMoved ==
  ASSUME IntqInv, NEW t \in Writers, NEW l \in {"putc", "done"},
         pc[t] \in {"line", "inner", "release"}, pc' = [pc EXCEPT ![t] = l],
         UNCHANGED <<on, q, mode, rbr, thr, at, arrived, accepted, taken, put, sent, panic>>,
         console' \in [holder : Writers \union {NULL}, depth : Nat], console'.holder = NULL => console'.depth = 0,
         console.holder \in {t, NULL}, console'.holder \in {t, NULL}, ConsoleAt(t)'
  PROVE  IntqInv'
<1>1. IntqTypes /\ QueueInv /\ WaitInv /\ ConsoleInv /\ LinesInv /\ t \in IOThreads
  BY Zenon DEF IntqInv, IOThreads
<1>2. /\ pc' \in [IOThreads -> ReaderPoints \union WriterPoints]
      /\ \A x \in IOThreads : pc'[x] = IF x = t THEN l ELSE pc[x]
  BY <1>1, Zenon DEF IntqTypes, WriterPoints, Printing
<1>3. ASSUME NEW x \in Writers, x # t
      PROVE  ConsoleAt(x)'
  <2>1. pc'[x] = pc[x] /\ at'[x] = at[x]
    BY <1>2, <1>3, Zenon DEF IOThreads
  <2> QED BY <1>1, <1>3, <2>1, OthersWait, Zenon
<1>4. ConsoleInv' /\ LinesInv'
  BY <1>1, <1>3, Zenon DEF ConsoleInv, LinesInv
<1>5. IntqTypes'
  <2>1. /\ \A x \in Readers : pc'[x] \in ReaderPoints
        /\ \A x \in Writers : pc'[x] \in WriterPoints
    BY <1>1, <1>2, NullFacts, Zenon DEF IntqTypes, WriterPoints, Printing, IOThreads
  <2> QED BY <1>1, <1>2, <2>1, Zenon DEF IntqTypes
<1>6. QueueInv'
  BY <1>1, BytesKept, Zenon
<1>7. WaitInv'
  <2>1. \A x \in IOThreads : pc'[x] = pc[x] \/ (pc[x] \notin {"waiting", "woken", "done"} /\ pc'[x] # "wants")
    BY <1>2, Zenon
  <2> QED BY <1>1, <2>1, WaitKept, Zenon
<1> QED BY <1>4, <1>5, <1>6, <1>7, Zenon DEF IntqInv

\* A thread begins a line, or a byte inside its own.
LEMMA AcquireConsoleInv ==
  ASSUME IntqInv, NEW t \in Writers, acquire_console(t), UNCHANGED on
  PROVE  IntqInv'
<1> USE NullFacts
<1>1. /\ pc[t] \in {"line", "inner"} /\ pc' = [pc EXCEPT ![t] = "putc"]
      /\ UNCHANGED <<on, q, mode, rbr, thr, at, arrived, accepted, taken, put, sent, panic>>
      /\ \/ console.holder = t /\ console' = [console EXCEPT !.depth = @ + 1]
         \/ console.holder = NULL /\ console' = [console EXCEPT !.holder = t]
  BY Zenon DEF acquire_console
<1>2. console \in [holder : Writers \union {NULL}, depth : Nat] /\ ConsoleAt(t)
      /\ (console.holder = NULL => console.depth = 0) /\ t \in IOThreads /\ pc \in [IOThreads -> ReaderPoints \union WriterPoints]
  BY Zenon DEF IntqInv, IntqTypes, ConsoleInv, IOThreads
<1>3. pc'[t] = "putc" /\ at'[t] = at[t] /\ put' = put
  BY <1>1, <1>2, Zenon
<1>4. CASE pc[t] = "inner"
  <2>1. console.holder = t /\ console.depth = 0 /\ at[t] = 1 /\ console' = [console EXCEPT !.depth = @ + 1]
        /\ put # <<>> /\ put[Len(put)] \in {<<t, 1>>, <<t, 0>>}
    BY <1>1, <1>2, <1>4, Zenon DEF ConsoleAt
  <2>2. console' \in [holder : Writers \union {NULL}, depth : Nat] /\ console'.holder = t /\ console'.depth = 1
    BY <1>2, <2>1
  <2>3. ConsoleAt(t)'
    BY <1>2, <1>3, <2>1, <2>2, Zenon DEF ConsoleAt
  <2> QED BY <1>1, <2>1, <2>2, <2>3, ConsoleMoved, Zenon
<1>5. CASE pc[t] = "line"
  <2>1. console.holder = NULL /\ console.depth = 0 /\ at[t] = 0 /\ console' = [console EXCEPT !.holder = t]
    BY <1>1, <1>2, <1>5, Zenon DEF ConsoleAt
  <2>2. console' \in [holder : Writers \union {NULL}, depth : Nat] /\ console'.holder = t /\ console'.depth = 0
    BY <1>2, <2>1, Zenon
  <2>3. at'[t] < 2 /\ at'[t] # 1
    BY <1>3, <2>1
  <2>4. ConsoleAt(t)'
    BY <1>2, <1>3, <2>1, <2>2, <2>3, Zenon DEF ConsoleAt
  <2> QED BY <1>1, <2>1, <2>2, <2>4, ConsoleMoved, Zenon
<1> QED BY <1>1, <1>4, <1>5, Zenon

\* A thread ends a line, or the byte inside it.
LEMMA ReleaseConsoleInv ==
  ASSUME IntqInv, NEW t \in Writers, release_console(t), UNCHANGED on
  PROVE  IntqInv'
<1> USE NullFacts
<1>1. /\ pc[t] = "release" /\ pc' = [pc EXCEPT ![t] = IF at[t] < 2 THEN "putc" ELSE "done"]
      /\ UNCHANGED <<on, q, mode, rbr, thr, at, arrived, accepted, taken, put, sent, panic>>
      /\ console' = IF console.depth > 0 THEN [console EXCEPT !.depth = @ - 1] ELSE [console EXCEPT !.holder = NULL]
  BY Zenon DEF release_console
<1>2. console \in [holder : Writers \union {NULL}, depth : Nat] /\ ConsoleAt(t)
      /\ t \in IOThreads /\ pc \in [IOThreads -> ReaderPoints \union WriterPoints]
  BY Zenon DEF IntqInv, IntqTypes, ConsoleInv, IOThreads
<1>3. /\ console.holder = t
      /\ (console.depth = 1 /\ at[t] = 1) \/ (console.depth = 0 /\ at[t] = 2)
      /\ at[t] = 1 => put # <<>> /\ put[Len(put)] \in {<<t, 1>>, <<t, 0>>}
  BY <1>1, <1>2, Zenon DEF ConsoleAt
<1>4. CASE console.depth = 1 /\ at[t] = 1
  <2>1. at[t] < 2 /\ console.depth > 0
    BY <1>4
  <2>2. pc' = [pc EXCEPT ![t] = "putc"] /\ console' = [console EXCEPT !.depth = @ - 1]
    BY <1>1, <2>1, Zenon
  <2>3. console' \in [holder : Writers \union {NULL}, depth : Nat] /\ console'.holder = t /\ console'.depth = 0
    BY <1>2, <1>3, <1>4, <2>2
  <2>4. pc'[t] = "putc" /\ at'[t] = at[t] /\ put' = put
    BY <1>1, <1>2, <2>2, Zenon
  <2>5. ConsoleAt(t)'
    BY <1>2, <1>3, <1>4, <2>1, <2>3, <2>4, Zenon DEF ConsoleAt
  <2> QED BY <1>1, <1>3, <2>2, <2>3, <2>5, ConsoleMoved, Zenon
<1>5. CASE console.depth = 0 /\ at[t] = 2
  <2>1. ~(at[t] < 2) /\ ~(console.depth > 0) /\ at[t] # 1
    BY <1>5
  <2>2. pc' = [pc EXCEPT ![t] = "done"] /\ console' = [console EXCEPT !.holder = NULL]
    BY <1>1, <2>1, Zenon
  <2>3. console' \in [holder : Writers \union {NULL}, depth : Nat] /\ console'.holder = NULL /\ console'.depth = 0
    BY <1>2, <1>5, <2>2, Zenon
  <2>4. pc'[t] = "done" /\ at'[t] = at[t] /\ put' = put
    BY <1>1, <1>2, <2>2, Zenon
  <2>5. pc'[t] \notin Printing
    BY <2>4, Zenon DEF Printing, Asleep
  <2>6. ConsoleAt(t)'
    BY <1>5, <2>1, <2>3, <2>4, <2>5, Zenon DEF ConsoleAt
  <2> QED BY <1>1, <1>3, <2>2, <2>3, <2>6, ConsoleMoved, Zenon
<1> QED BY <1>3, <1>4, <1>5, Zenon

\* A line is continued by its own thread: what a thread prints follows its
\* first byte, or the inner one.
LEMMA PrintedLine ==
  ASSUME IntqTypes, ConsoleInv, LinesInv, NEW t \in Writers, pc[t] = "putc", Printed(t), UNCHANGED console
  PROVE  /\ ConsoleInv' /\ LinesInv'
         /\ Byte(t) \in Bytes /\ put' = Append(put, Byte(t)) /\ put' \in Seq(Bytes) /\ at' \in [Writers -> 0 .. 2]
         /\ \E l \in {"release", "putc", "inner"} : pc' = [pc EXCEPT ![t] = l]
<1> USE NullFacts
<1>1. /\ console \in [holder : Writers \union {NULL}, depth : Nat] /\ at \in [Writers -> 0 .. 2] /\ put \in Seq(Bytes)
      /\ ConsoleAt(t) /\ t \in IOThreads /\ pc \in [IOThreads -> ReaderPoints \union WriterPoints] /\ "putc" \in Printing
  BY Zenon DEF IntqTypes, ConsoleInv, IOThreads, Printing
<1>2. /\ console.holder = t
      /\ (console.depth = 0 /\ at[t] < 2) \/ (console.depth = 1 /\ at[t] = 1)
      /\ at[t] = 1 => put # <<>> /\ put[Len(put)] \in {<<t, 1>>, <<t, 0>>}
  BY <1>1, Zenon DEF ConsoleAt
<1>3. PICK b : b = Byte(t)
  BY Zenon
<1>4. PICK l \in {"release", "putc", "inner"} :
        /\ pc' = [pc EXCEPT ![t] = l] /\ put' = Append(put, b)
        /\ at' = [at EXCEPT ![t] = IF Inner THEN @ ELSE @ + 1]
        /\ IF Inner \/ at[t] = 1 THEN l = "release" ELSE l \in {"putc", "inner"}
  BY <1>3, Zenon DEF Printed
\* where the thread is after the byte
<1>5. \/ console.depth = 1 /\ at[t] = 1 /\ at'[t] = 1 /\ b = <<t, 0>> /\ l = "release"
      \/ console.depth = 0 /\ at[t] = 1 /\ at'[t] = 2 /\ b = <<t, 2>> /\ l = "release"
      \/ console.depth = 0 /\ at[t] = 0 /\ at'[t] = 1 /\ b = <<t, 1>> /\ l \in {"putc", "inner"}
  <2>1. CASE console.depth = 1 /\ at[t] = 1
    <3>1. Inner
      BY <2>1 DEF Inner
    <3> QED BY <1>1, <1>3, <1>4, <2>1, <3>1, Zenon DEF Byte
  <2>2. CASE console.depth = 0 /\ at[t] < 2
    <3>1. ~Inner /\ (at[t] = 0 \/ at[t] = 1) /\ 0 + 1 = 1 /\ 1 + 1 = 2 /\ 0 # 1
      BY <1>1, <2>2 DEF Inner
    <3>2. at'[t] = at[t] + 1 /\ b = <<t, at[t] + 1>>
      BY <1>1, <1>3, <1>4, <3>1, Zenon DEF Byte
    <3> QED BY <1>4, <2>2, <3>1, <3>2, Zenon
  <2> QED BY <1>2, <2>1, <2>2, Zenon
<1>6. b \in Bytes /\ at' \in [Writers -> 0 .. 2]
  <2>1. 0 \in 0 .. 2 /\ 1 \in 0 .. 2 /\ 2 \in 0 .. 2
    OBVIOUS
  <2>2. <<t, 0>> \in Bytes /\ <<t, 1>> \in Bytes /\ <<t, 2>> \in Bytes
    BY <2>1 DEF Bytes
  <2>3. b \in Bytes /\ at'[t] \in 0 .. 2
    BY <1>5, <2>1, <2>2, Zenon
  <2>4. at' = [at EXCEPT ![t] = at'[t]]
    BY <1>1, <1>4, Zenon
  <2> QED BY <1>1, <2>3, <2>4, Zenon
<1>7. put' \in Seq(Bytes) /\ Len(put') = Len(put) + 1 /\ put'[Len(put) + 1] = b
      /\ \A i \in 1 .. Len(put) : put'[i] = put[i]
  BY <1>1, <1>4, <1>6
<1>8. /\ DOMAIN put = 1 .. Len(put) /\ DOMAIN put' = 1 .. (Len(put) + 1) /\ Len(put) \in Nat
      /\ put # <<>> => Len(put) > 0
  BY <1>1, <1>7
<1>9. put'[Len(put')] = b /\ put' # <<>>
  BY <1>7, <1>8
<1>10. pc'[t] = l /\ \A x \in Writers : x # t => pc'[x] = pc[x] /\ at'[x] = at[x]
  BY <1>1, <1>4, Zenon DEF IOThreads
<1>11. ConsoleAt(t)'
  <2>1. at'[t] = 1 => b \in {<<t, 1>>, <<t, 0>>}
    <3>1. 1 # 2
      OBVIOUS
    <3> QED BY <1>5, <3>1, Zenon
  <2>2. l \notin {"line", "done"} /\ (l \in Printing => l = "putc")
    BY <1>4, Zenon DEF Printing, Asleep
  <2>3. 1 < 2
    OBVIOUS
  <2> QED BY <1>2, <1>5, <1>9, <1>10, <2>1, <2>2, <2>3, Zenon DEF ConsoleAt
<1>12. ConsoleInv'
  BY <1>1, <1>2, <1>10, <1>11, OthersWait, Zenon DEF ConsoleInv
<1>13. ASSUME NEW i \in DOMAIN put', put'[i][2] # 1
       PROVE  i > 1 /\ put'[i - 1] \in {<<put'[i][1], 1>>, <<put'[i][1], 0>>}
  <2>1. CASE i \in 1 .. Len(put)
    <3>1. put'[i] = put[i] /\ i \in DOMAIN put
      BY <1>7, <1>8, <2>1, Zenon
    <3>2. i > 1 /\ put[i - 1] \in {<<put[i][1], 1>>, <<put[i][1], 0>>}
      BY <1>13, <3>1, Zenon DEF LinesInv
    <3>3. i - 1 \in 1 .. Len(put)
      BY <1>8, <2>1, <3>2
    <3> QED BY <1>7, <3>1, <3>2, <3>3, Zenon
  <2>2. CASE i = Len(put) + 1
    <3>1. at[t] = 1 /\ b[1] = t
      BY <1>5, <1>7, <1>13, <2>2
    <3>2. i - 1 = Len(put) /\ i > 1 /\ Len(put) \in 1 .. Len(put)
      BY <1>2, <1>8, <2>2, <3>1
    <3> QED BY <1>2, <1>7, <2>2, <3>1, <3>2, Zenon
  <2> QED BY <1>8, <2>1, <2>2
<1>14. LinesInv'
  BY <1>13, Zenon DEF LinesInv
<1> QED BY <1>3, <1>4, <1>6, <1>7, <1>12, <1>14, Zenon

\* A byte printed, into the queue or into the port.
LEMMA PrintStep ==
  ASSUME IntqInv, NEW t \in Writers, pc[t] = "putc", Printed(t),
         UNCHANGED <<on, mode, rbr, console, arrived, accepted, taken, sent, panic>>,
         NEW r \in Ring, q' = [q EXCEPT !["tx"] = r], thr' \in Bytes \union {NULL},
         r.lock = q["tx"].lock, r.not_empty \in {q["tx"].not_empty, NULL}, r.not_full \in {q["tx"].not_full, NULL},
         Held(r) \in Seq(Bytes), Append(put, Byte(t)) = sent \o InPort' \o Held(r),
         mode = "POLL" => intq_empty(r)
  PROVE  IntqInv'
<1> USE NullFacts
<1>1. IntqTypes /\ QueueInv /\ WaitInv /\ ConsoleInv /\ LinesInv /\ t \in IOThreads
  BY Zenon DEF IntqInv, IOThreads
<1>2. /\ ConsoleInv' /\ LinesInv'
      /\ put' = Append(put, Byte(t)) /\ put' \in Seq(Bytes) /\ at' \in [Writers -> 0 .. 2]
  BY <1>1, PrintedLine, Zenon
<1>3. PICK l \in {"release", "putc", "inner"} : pc' = [pc EXCEPT ![t] = l]
  BY <1>1, PrintedLine, Zenon
<1>4. q' \in [{"in", "tx"} -> Ring] /\ q'["in"] = q["in"] /\ q'["tx"] = r
  BY <1>1, Zenon DEF IntqTypes
<1>5. /\ pc' \in [IOThreads -> ReaderPoints \union WriterPoints]
      /\ \A x \in IOThreads : pc'[x] = IF x = t THEN l ELSE pc[x]
  BY <1>1, <1>3, Zenon DEF IntqTypes, WriterPoints, Printing
<1>6. IntqTypes'
  <2>1. /\ \A x \in Readers : pc'[x] \in ReaderPoints
        /\ \A x \in Writers : pc'[x] \in WriterPoints
    BY <1>1, <1>5, Zenon DEF IntqTypes, WriterPoints, Printing, IOThreads
  <2> QED BY <1>1, <1>2, <1>4, <1>5, <2>1, Zenon DEF IntqTypes
<1>7. QueueInv'
  BY <1>1, <1>2, <1>4, Zenon DEF QueueInv
<1>8. WaitInv'
  <2>1. \A x \in IOThreads : pc'[x] = pc[x] \/ (pc[x] \notin {"waiting", "woken", "done"} /\ pc'[x] # "wants")
    BY <1>3, <1>5, Zenon
  <2>2. \A u \in {"in", "tx"} : /\ q'[u].lock = q[u].lock
                                /\ q'[u].not_empty \in {q[u].not_empty, NULL}
                                /\ q'[u].not_full \in {q[u].not_full, NULL}
    BY <1>4, Zenon
  <2> QED BY <1>1, <2>1, <2>2, WaitKept, Zenon
<1> QED BY <1>2, <1>6, <1>7, <1>8, Zenon DEF IntqInv

\* A byte goes into the transmit queue.
LEMMA SerialPutcInv ==
  ASSUME IntqInv, NEW t \in Writers, serial_putc(t), UNCHANGED on
  PROVE  IntqInv'
<1>1. IntqTypes /\ QueueInv /\ ConsoleInv /\ LinesInv
  BY Zenon DEF IntqInv
<1>2. /\ pc[t] = "putc" /\ mode = "QUEUE" /\ ~intq_full(q["tx"]) /\ q' = [q EXCEPT !["tx"] = Put(q["tx"], Byte(t))]
      /\ Printed(t) /\ UNCHANGED <<on, mode, rbr, thr, console, arrived, accepted, taken, sent, panic>>
  BY <1>1, Zenon DEF serial_putc, IntqTypes
<1>3. PICK b \in Bytes : b = Byte(t)
  BY <1>1, <1>2, PrintedLine, Zenon
<1>4. /\ q["tx"] \in Ring /\ thr \in Bytes \union {NULL} /\ sent \in Seq(Bytes)
      /\ Held(q["tx"]) \in Seq(Bytes) /\ put = sent \o InPort \o Held(q["tx"])
  BY <1>1, Zenon DEF IntqTypes, QueueInv
<1>5. PICK r \in Ring : r = Put(q["tx"], b) /\ Held(r) = Append(Held(q["tx"]), b)
         /\ r.lock = q["tx"].lock /\ r.not_full = q["tx"].not_full /\ r.not_empty = NULL
  BY <1>2, <1>4, PutHeld, Zenon
<1>6. InPort' = InPort /\ InPort \in Seq(Bytes)
  BY <1>2, <1>4 DEF InPort
<1>7. PICK a \in Seq(Bytes), h \in Seq(Bytes) : a = sent \o InPort /\ h = Held(q["tx"])
  BY <1>4, <1>6, ConcatFacts
<1>8. Append(a \o h, b) = a \o Append(h, b) /\ Append(h, b) \in Seq(Bytes)
  <2>1. EndJoined(a, h, b)
    BY MoveEnd, Zenon
  <2>2. Append(h, b) \in Seq(Bytes)
    OBVIOUS
  <2> QED BY <2>1, <2>2, Zenon DEF EndJoined
<1>9. Held(r) \in Seq(Bytes) /\ Append(put, b) = sent \o InPort' \o Held(r)
  BY <1>4, <1>5, <1>6, <1>7, <1>8, Zenon
<1>10. mode = "POLL" => intq_empty(r)
  BY <1>2, Zenon
<1> QED BY <1>2, <1>3, <1>4, <1>5, <1>9, <1>10, PrintStep, Zenon

\* A byte goes into the port, before there is a queue.
LEMMA SerialPutcPollInv ==
  ASSUME IntqInv, NEW t \in Writers, serial_putc_poll(t), UNCHANGED on
  PROVE  IntqInv'
<1>1. IntqTypes /\ QueueInv /\ ConsoleInv /\ LinesInv
  BY Zenon DEF IntqInv
<1>2. /\ pc[t] = "putc" /\ mode = "POLL" /\ thr = NULL /\ thr' = Byte(t) /\ q' = q
      /\ Printed(t) /\ UNCHANGED <<on, mode, rbr, console, arrived, accepted, taken, sent, panic>>
  BY Zenon DEF serial_putc_poll
<1>3. PICK b \in Bytes : b = Byte(t)
  BY <1>1, <1>2, PrintedLine, Zenon
<1>4. PICK r \in Ring : r = q["tx"] /\ q' = [q EXCEPT !["tx"] = r]
  BY <1>1, <1>2, Zenon DEF IntqTypes
<1>5. intq_empty(r) /\ sent \in Seq(Bytes) /\ put = sent \o InPort \o Held(r)
  BY <1>1, <1>2, <1>4, Zenon DEF IntqTypes, QueueInv
<1>6. InPort = <<>> /\ InPort' = <<b>> /\ Held(r) = <<>> /\ <<b>> \in Seq(Bytes) /\ Held(r) \in Seq(Bytes)
  <2>1. Held(r) = <<>> /\ InPort = <<>> /\ InPort' = <<b>>
    BY <1>2, <1>3, <1>5, EmptyHeld, NullFacts, Zenon DEF InPort
  <2> QED BY <2>1
<1>7. Append(put, b) = sent \o InPort' \o Held(r)
  <2>1. PICK a \in Seq(Bytes) : a = sent
    BY <1>5, Zenon
  <2>2. a \o <<>> = a /\ a \o <<b>> = Append(a, b) /\ (a \o <<b>>) \o <<>> = a \o <<b>>
    BY ConcatFacts
  <2> QED BY <1>5, <1>6, <2>1, <2>2, Zenon
<1> QED BY <1>2, <1>3, <1>4, <1>5, <1>6, <1>7, PrintStep, Zenon

\* With interrupts off and the queue full, the oldest byte goes into the port
\* and the new one into the queue.
LEMMA SerialPutcOffInv ==
  ASSUME IntqInv, NEW t \in Writers, serial_putc_off(t), UNCHANGED on
  PROVE  IntqInv'
<1>1. IntqTypes /\ QueueInv /\ ConsoleInv /\ LinesInv
  BY Zenon DEF IntqInv
<1> DEFINE x == q["tx"]
<1>2. /\ pc[t] = "putc" /\ mode = "QUEUE" /\ intq_full(x) /\ thr = NULL /\ thr' = x.buf[x.tail]
      /\ q' = [q EXCEPT !["tx"] = Put(Get(x), Byte(t))]
      /\ Printed(t) /\ UNCHANGED <<on, mode, rbr, console, arrived, accepted, taken, sent, panic>>
  BY <1>1, Zenon DEF serial_putc_off, IntqTypes
<1>3. PICK b \in Bytes : b = Byte(t)
  BY <1>1, <1>2, PrintedLine, Zenon
<1>4. /\ x \in Ring /\ sent \in Seq(Bytes) /\ Held(x) \in Seq(Bytes) /\ put = sent \o InPort \o Held(x)
  BY <1>1, Zenon DEF IntqTypes, QueueInv
<1>5. /\ Get(x) \in Ring /\ Held(Get(x)) \in Seq(Bytes) /\ x.buf[x.tail] \in Bytes /\ ~intq_full(Get(x))
      /\ Held(x) = <<x.buf[x.tail]>> \o Held(Get(x))
      /\ Get(x).lock = x.lock /\ Get(x).not_empty = x.not_empty /\ Get(x).not_full = NULL
  BY <1>2, <1>4, GetHeld, FullNotEmpty, Zenon
<1>6. PICK r \in Ring : r = Put(Get(x), b) /\ Held(r) = Append(Held(Get(x)), b)
         /\ r.lock = x.lock /\ r.not_full = NULL /\ r.not_empty = NULL
  BY <1>5, PutHeld, Zenon
<1>7. PICK c \in Bytes, h \in Seq(Bytes), s \in Seq(Bytes) : c = x.buf[x.tail] /\ h = Held(Get(x)) /\ s = sent
  BY <1>4, <1>5, Zenon
<1>8. InPort = <<>> /\ InPort' = <<c>>
  BY <1>2, <1>7, NullFacts, Zenon DEF InPort
<1>9. put = s \o <<c>> \o h
  <2>1. FrontMoved(s, c, h)
    BY MoveFront, Zenon
  <2> QED BY <1>4, <1>5, <1>7, <1>8, <2>1, Zenon DEF FrontMoved
<1>10. PICK a \in Seq(Bytes) : a = s \o <<c>>
  <2>1. <<c>> \in Seq(Bytes)
    OBVIOUS
  <2>2. s \o <<c>> \in Seq(Bytes)
    BY <2>1, ConcatFacts
  <2> QED BY <2>2, Zenon
<1>11. Append(a \o h, b) = a \o Append(h, b) /\ Append(h, b) \in Seq(Bytes)
  <2>1. EndJoined(a, h, b)
    BY MoveEnd, Zenon
  <2>2. Append(h, b) \in Seq(Bytes)
    OBVIOUS
  <2> QED BY <2>1, <2>2, Zenon DEF EndJoined
<1>12. Held(r) \in Seq(Bytes) /\ Append(put, b) = sent \o InPort' \o Held(r)
  BY <1>6, <1>7, <1>8, <1>9, <1>10, <1>11, Zenon
<1>13. mode = "POLL" => intq_empty(r)
  BY <1>2, Zenon
<1> QED BY <1>2, <1>3, <1>6, <1>7, <1>12, <1>13, PrintStep, Zenon

-----------------------------------------------------------------------------
\* A byte received goes to the end of the input.
LEMMA ReceiveFacts ==
  ASSUME IntqTypes, QueueInv, ~intq_full(q["in"]), NEW b \in Nat
  PROVE  \E r \in Ring : /\ r = Put(q["in"], b) /\ Held(r) \in Seq(Nat)
                         /\ Append(accepted, b) \in Seq(Nat) /\ Append(accepted, b) = taken \o Held(r)
                         /\ r.lock = q["in"].lock /\ r.not_empty = NULL /\ r.not_full = q["in"].not_full
<1>1. /\ q["in"] \in Ring /\ taken \in Seq(Nat) /\ Held(q["in"]) \in Seq(Nat) /\ accepted \in Seq(Nat)
      /\ accepted = taken \o Held(q["in"])
  BY Zenon DEF IntqTypes, QueueInv
<1>2. PICK r \in Ring : /\ r = Put(q["in"], b) /\ Held(r) = Append(Held(q["in"]), b)
                        /\ r.lock = q["in"].lock /\ r.not_full = q["in"].not_full /\ r.not_empty = NULL
  BY <1>1, PutHeld, Zenon
<1>3. EndJoined(taken, Held(q["in"]), b)
  BY <1>1, MoveEnd, Zenon
<1>4. PICK h \in Seq(Nat), c \in Seq(Nat) : h = Held(q["in"]) /\ c = accepted
  BY <1>1, Zenon
<1>5. Append(h, b) \in Seq(Nat) /\ Append(c, b) \in Seq(Nat)
  OBVIOUS
<1> QED BY <1>1, <1>2, <1>3, <1>4, <1>5, Zenon DEF EndJoined

\* The oldest byte of the output goes into the port.
LEMMA TransmitFacts ==
  ASSUME IntqTypes, QueueInv, thr = NULL, ~intq_empty(q["tx"])
  PROVE  \E r \in Ring, c \in Bytes :
           /\ r = Get(q["tx"]) /\ c = q["tx"].buf[q["tx"].tail] /\ Held(r) \in Seq(Bytes)
           /\ put = sent \o <<c>> \o Held(r)
           /\ r.lock = q["tx"].lock /\ r.not_full = NULL /\ r.not_empty = q["tx"].not_empty
<1> DEFINE x == q["tx"]
<1>1. x \in Ring /\ sent \in Seq(Bytes) /\ Held(x) \in Seq(Bytes) /\ put = sent \o InPort \o Held(x)
  BY Zenon DEF IntqTypes, QueueInv
<1>2. /\ Get(x) \in Ring /\ Held(Get(x)) \in Seq(Bytes) /\ x.buf[x.tail] \in Bytes
      /\ Held(x) = <<x.buf[x.tail]>> \o Held(Get(x))
      /\ Get(x).lock = x.lock /\ Get(x).not_empty = x.not_empty /\ Get(x).not_full = NULL
  BY <1>1, GetHeld, Zenon
<1>3. PICK r \in Ring, c \in Bytes : r = Get(x) /\ c = x.buf[x.tail]
  BY <1>2, Zenon
<1>4. FrontMoved(sent, c, Held(r))
  BY <1>1, <1>2, <1>3, MoveFront, Zenon
<1>5. put = sent \o <<c>> \o Held(r)
  BY <1>1, <1>2, <1>3, <1>4, Zenon DEF FrontMoved, InPort
<1> QED BY <1>2, <1>3, <1>5, Zenon

\* A step of an interrupt or of the port: no thread runs, and one that is
\* signalled leaves its queue.
LEMMA DeviceStep ==
  ASSUME IntqInv, UNCHANGED <<on, console, at, taken, put, panic>>, mode' \in {"POLL", "QUEUE"},
         rbr' \in Nat \union {NULL}, thr' \in Bytes \union {NULL}, arrived' \in Nat,
         accepted' \in Seq(Nat), sent' \in Seq(Bytes), q' \in [{"in", "tx"} -> Ring],
         pc' \in [IOThreads -> ReaderPoints \union WriterPoints],
         \A t \in IOThreads :
           \/ pc'[t] = pc[t]
           \/ pc[t] = "waiting" /\ pc'[t] = "woken" /\ t \notin {q'["in"].not_empty, q'["tx"].not_full},
         \A u \in {"in", "tx"} : /\ q'[u].lock = q[u].lock
                                 /\ q'[u].not_empty \in {q[u].not_empty, NULL}
                                 /\ q'[u].not_full \in {q[u].not_full, NULL},
         Held(q'["in"]) \in Seq(Nat), Held(q'["tx"]) \in Seq(Bytes),
         accepted' = taken \o Held(q'["in"]), put = sent' \o InPort' \o Held(q'["tx"]),
         mode' = "POLL" => intq_empty(q'["tx"])
  PROVE  IntqInv'
<1>1. IntqTypes /\ WaitInv /\ ConsoleInv /\ LinesInv
  BY Zenon DEF IntqInv
<1>2. IntqTypes'
  <2>1. /\ \A x \in Readers : pc'[x] \in ReaderPoints
        /\ \A x \in Writers : pc'[x] \in WriterPoints
    BY <1>1, Zenon DEF IntqTypes, ReaderPoints, WriterPoints, Printing, Asleep, IOThreads
  <2> QED BY <1>1, <2>1, Zenon DEF IntqTypes
<1>3. QueueInv'
  BY Zenon DEF QueueInv
<1>4. ConsoleInv' /\ LinesInv'
  <2>1. \A t \in Writers : pc'[t] = pc[t] \/ (pc[t] \in Printing /\ pc'[t] \in Printing)
    BY Zenon DEF IOThreads, Printing, Asleep
  <2> QED BY <1>1, <2>1, ConsoleKept, Zenon
<1>5. WaitInv'
  BY <1>1, WaitKept, Zenon
<1> QED BY <1>2, <1>3, <1>4, <1>5, Zenon DEF IntqInv

\* The port is told of the queues.
LEMMA SerialInitQueueInv ==
  ASSUME IntqInv, serial_init_queue, UNCHANGED on
  PROVE  IntqInv'
<1>1. IntqTypes /\ QueueInv
  BY Zenon DEF IntqInv
<1>2. mode' = "QUEUE" /\ UNCHANGED <<on, q, rbr, thr, console, pc, at, arrived, accepted, taken, put, sent, panic>>
  BY Zenon DEF serial_init_queue
<1>3. InPort' = InPort
  BY <1>2, Zenon DEF InPort
<1> QED BY <1>1, <1>2, <1>3, DeviceStep, Zenon DEF IntqTypes, QueueInv

\* A byte arrives at the port.
LEMMA PortReceivesInv ==
  ASSUME IntqInv, port_receives, UNCHANGED on
  PROVE  IntqInv'
<1>1. IntqTypes /\ QueueInv
  BY Zenon DEF IntqInv
<1>2. /\ arrived' = arrived + 1 /\ rbr' = arrived + 1
      /\ UNCHANGED <<on, q, mode, thr, console, pc, at, accepted, taken, put, sent, panic>>
  BY Zenon DEF port_receives
<1>3. InPort' = InPort
  BY <1>2, Zenon DEF InPort
<1>4. arrived' \in Nat /\ rbr' \in Nat
  BY <1>1, <1>2 DEF IntqTypes
<1> QED BY <1>1, <1>2, <1>3, <1>4, DeviceStep, Zenon DEF IntqTypes, QueueInv

\* A byte leaves the port.
LEMMA PortSendsInv ==
  ASSUME IntqInv, port_sends, UNCHANGED on
  PROVE  IntqInv'
<1>1. IntqTypes /\ QueueInv
  BY Zenon DEF IntqInv
<1>2. /\ thr # NULL /\ thr' = NULL /\ sent' = Append(sent, thr)
      /\ UNCHANGED <<on, q, mode, rbr, console, pc, at, arrived, accepted, taken, put, panic>>
  BY Zenon DEF port_sends
<1>3. PICK b \in Bytes, h \in Seq(Bytes), s \in Seq(Bytes) : b = thr /\ h = Held(q["tx"]) /\ s = sent
  BY <1>1, <1>2, Zenon DEF IntqTypes, QueueInv
<1>4. InPort = <<b>> /\ InPort' = <<>>
  BY <1>2, <1>3, Zenon DEF InPort
<1>5. FrontMoved(s, b, h)
  BY MoveFront, Zenon
<1>6. put = sent' \o InPort' \o Held(q'["tx"])
  BY <1>1, <1>2, <1>3, <1>4, <1>5, Zenon DEF FrontMoved, QueueInv
<1>7. Append(s, b) \in Seq(Bytes)
  OBVIOUS
<1>8. sent' \in Seq(Bytes)
  BY <1>2, <1>3, <1>7, Zenon
<1> QED BY <1>1, <1>2, <1>6, <1>8, DeviceStep, Zenon DEF IntqTypes, QueueInv

\* A turn of serial_flush().
LEMMA SerialFlushInv ==
  ASSUME IntqInv, serial_flush, UNCHANGED on
  PROVE  IntqInv'
<1>1. IntqTypes /\ QueueInv
  BY Zenon DEF IntqInv
<1>2. /\ thr = NULL /\ ~intq_empty(q["tx"]) /\ thr' = q["tx"].buf[q["tx"].tail]
      /\ q' = [q EXCEPT !["tx"] = Get(q["tx"])]
      /\ UNCHANGED <<on, mode, rbr, console, pc, at, arrived, accepted, taken, put, sent, panic>>
  BY <1>1, Zenon DEF serial_flush, IntqTypes
<1>3. PICK r \in Ring, c \in Bytes :
           /\ r = Get(q["tx"]) /\ c = q["tx"].buf[q["tx"].tail] /\ Held(r) \in Seq(Bytes)
           /\ put = sent \o <<c>> \o Held(r)
           /\ r.lock = q["tx"].lock /\ r.not_full = NULL /\ r.not_empty = q["tx"].not_empty
  BY <1>1, <1>2, TransmitFacts, Zenon
<1>4. q' \in [{"in", "tx"} -> Ring] /\ q'["in"] = q["in"] /\ q'["tx"] = r
  BY <1>1, <1>2, <1>3, Zenon DEF IntqTypes
<1>5. InPort' = <<c>> /\ thr' \in Bytes
  BY <1>2, <1>3, NullFacts, Zenon DEF InPort
<1>6. mode # "POLL"
  BY <1>1, <1>2, Zenon DEF QueueInv
<1>7. \A u \in {"in", "tx"} : /\ q'[u].lock = q[u].lock
                              /\ q'[u].not_empty \in {q[u].not_empty, NULL}
                              /\ q'[u].not_full \in {q[u].not_full, NULL}
  BY <1>3, <1>4, Zenon
<1> QED BY <1>1, <1>2, <1>3, <1>4, <1>5, <1>6, <1>7, DeviceStep, Zenon DEF IntqTypes, QueueInv

\* A key is typed.
LEMMA KeyboardInterruptInv ==
  ASSUME IntqInv, keyboard_interrupt, UNCHANGED on
  PROVE  IntqInv'
<1>1. IntqTypes /\ QueueInv /\ WaitInv
  BY Zenon DEF IntqInv
<1>2. arrived' = arrived + 1 /\ UNCHANGED <<on, mode, rbr, thr, console, at, taken, put, sent, panic>>
  BY Zenon DEF keyboard_interrupt
<1>3. PICK b \in Nat : b = arrived + 1
  BY <1>1 DEF IntqTypes
<1>4. InPort' = InPort /\ arrived' \in Nat
  BY <1>2, <1>3, Zenon DEF InPort
<1>5. CASE intq_full(q["in"])
  <2>1. UNCHANGED <<q, pc, accepted>>
    BY <1>5, Zenon DEF keyboard_interrupt
  <2> QED BY <1>1, <1>2, <1>4, <2>1, DeviceStep, Zenon DEF IntqTypes, QueueInv
<1>6. CASE ~intq_full(q["in"])
  <2>1. /\ q' = [q EXCEPT !["in"] = Put(q["in"], b)] /\ accepted' = Append(accepted, b)
        /\ pc' = Woken(pc, q["in"].not_empty)
    BY <1>1, <1>3, <1>6, Zenon DEF keyboard_interrupt, IntqTypes
  <2>2. PICK r \in Ring : /\ r = Put(q["in"], b) /\ Held(r) \in Seq(Nat)
                          /\ Append(accepted, b) \in Seq(Nat) /\ Append(accepted, b) = taken \o Held(r)
                          /\ r.lock = q["in"].lock /\ r.not_empty = NULL /\ r.not_full = q["in"].not_full
    BY <1>1, <1>6, ReceiveFacts, Zenon
  <2>3. q' \in [{"in", "tx"} -> Ring] /\ q'["in"] = r /\ q'["tx"] = q["tx"]
    BY <1>1, <2>1, <2>2, Zenon DEF IntqTypes
  <2>5. q["in"].not_empty \in IOThreads \union {NULL}
    BY <1>1, Zenon DEF IntqTypes, Ring
  <2>6. /\ pc' \in [IOThreads -> ReaderPoints \union WriterPoints]
        /\ \A t \in IOThreads : pc'[t] = IF t = q["in"].not_empty THEN "woken" ELSE pc[t]
    <3>1. WakesOne(pc, q["in"].not_empty)
      BY <1>1, <2>5, WokenFacts, Zenon DEF IntqTypes
    <3> QED BY <2>1, <3>1, Zenon DEF WakesOne
  <2>7. ASSUME NEW t \in IOThreads, pc'[t] # pc[t]
        PROVE  pc[t] = "waiting" /\ pc'[t] = "woken" /\ t \notin {q'["in"].not_empty, q'["tx"].not_full}
    <3>1. t = q["in"].not_empty /\ pc'[t] = "woken"
      BY <2>6, <2>7, Zenon
    <3> QED BY <1>1, <2>2, <2>3, <3>1, NullFacts, Zenon DEF WaitInv
  <2>8. \A u \in {"in", "tx"} : /\ q'[u].lock = q[u].lock
                                /\ q'[u].not_empty \in {q[u].not_empty, NULL}
                                /\ q'[u].not_full \in {q[u].not_full, NULL}
    BY <2>2, <2>3, Zenon
  <2> QED BY <1>1, <1>2, <1>4, <2>1, <2>2, <2>3, <2>6, <2>7, <2>8, DeviceStep, Zenon DEF IntqTypes, QueueInv
<1> QED BY <1>5, <1>6, Zenon

\* The interrupt of the serial port: each half does its part, or nothing.
LEMMA SerialInterruptInv ==
  ASSUME IntqInv, serial_interrupt, UNCHANGED on
  PROVE  IntqInv'
<1>1. IntqTypes /\ QueueInv /\ WaitInv
  BY Zenon DEF IntqInv
<1>2. /\ mode = "QUEUE"
      /\ q' = [q EXCEPT !["in"] = IF Receives THEN Put(q["in"], rbr) ELSE q["in"],
                        !["tx"] = IF Transmits THEN Get(q["tx"]) ELSE q["tx"]]
      /\ accepted' = IF Receives THEN Append(accepted, rbr) ELSE accepted
      /\ rbr' = IF Receives THEN NULL ELSE rbr
      /\ thr' = IF Transmits THEN q["tx"].buf[q["tx"].tail] ELSE thr
      /\ UNCHANGED <<on, mode, console, at, arrived, taken, put, sent, panic>>
  BY <1>1, Zenon DEF serial_interrupt, IntqTypes
\* the input
<1>3. PICK r \in Ring :
           /\ r = (IF Receives THEN Put(q["in"], rbr) ELSE q["in"])
           /\ Held(r) \in Seq(Nat) /\ accepted' \in Seq(Nat) /\ accepted' = taken \o Held(r)
           /\ r.lock = q["in"].lock /\ r.not_empty = (IF Receives THEN NULL ELSE q["in"].not_empty)
           /\ r.not_full = q["in"].not_full
  <2>1. CASE Receives
    <3>1. rbr \in Nat /\ ~intq_full(q["in"])
      BY <1>1, <2>1, Zenon DEF Receives, IntqTypes
    <3> QED BY <1>1, <1>2, <2>1, <3>1, ReceiveFacts, Zenon
  <2>2. CASE ~Receives
    BY <1>1, <1>2, <2>2, Zenon DEF IntqTypes, QueueInv
  <2> QED BY <2>1, <2>2, Zenon
\* the output
<1>4. PICK x \in Ring :
           /\ x = (IF Transmits THEN Get(q["tx"]) ELSE q["tx"])
           /\ Held(x) \in Seq(Bytes) /\ thr' \in Bytes \union {NULL} /\ put = sent \o InPort' \o Held(x)
           /\ x.lock = q["tx"].lock /\ x.not_full = (IF Transmits THEN NULL ELSE q["tx"].not_full)
           /\ x.not_empty = q["tx"].not_empty
  <2>1. CASE Transmits
    <3>1. thr = NULL /\ ~intq_empty(q["tx"])
      BY <2>1, Zenon DEF Transmits
    <3>2. PICK x \in Ring, c \in Bytes :
           /\ x = Get(q["tx"]) /\ c = q["tx"].buf[q["tx"].tail] /\ Held(x) \in Seq(Bytes)
           /\ put = sent \o <<c>> \o Held(x)
           /\ x.lock = q["tx"].lock /\ x.not_full = NULL /\ x.not_empty = q["tx"].not_empty
      BY <1>1, <3>1, TransmitFacts, Zenon
    <3>3. thr' = c /\ InPort' = <<c>>
      BY <1>2, <2>1, <3>2, NullFacts, Zenon DEF InPort
    <3> QED BY <2>1, <3>2, <3>3, Zenon
  <2>2. CASE ~Transmits
    <3>1. thr' = thr /\ InPort' = InPort
      BY <1>2, <2>2, Zenon DEF InPort
    <3> QED BY <1>1, <2>2, <3>1, Zenon DEF IntqTypes, QueueInv
  <2> QED BY <2>1, <2>2, Zenon
<1>5. q' \in [{"in", "tx"} -> Ring] /\ q'["in"] = r /\ q'["tx"] = x
  <2>1. q' = [q EXCEPT !["in"] = r, !["tx"] = x]
    BY <1>2, <1>3, <1>4, Zenon
  <2> QED BY <1>1, <2>1, Zenon DEF IntqTypes
\* the threads that waited
<1> DEFINE p == IF Receives THEN Woken(pc, q["in"].not_empty) ELSE pc
           P == ReaderPoints \union WriterPoints
<1>6. /\ pc \in [IOThreads -> P]
      /\ q["in"].not_empty \in IOThreads \union {NULL} /\ q["tx"].not_full \in IOThreads \union {NULL}
  BY <1>1, Zenon DEF IntqTypes, Ring
<1>7. p \in [IOThreads -> P] /\ \A t \in IOThreads : p[t] = IF Receives /\ t = q["in"].not_empty THEN "woken" ELSE pc[t]
  <2>1. WakesOne(pc, q["in"].not_empty)
    BY <1>6, WokenFacts, Zenon
  <2> QED BY <1>6, <2>1, Zenon DEF WakesOne
<1>8. pc' = IF Transmits THEN Woken(p, q["tx"].not_full) ELSE p
  BY Zenon DEF serial_interrupt
<1>9. pc' \in [IOThreads -> P] /\ \A t \in IOThreads : pc'[t] = IF Transmits /\ t = q["tx"].not_full THEN "woken" ELSE p[t]
  <2> HIDE DEF p
  <2>1. WakesOne(p, q["tx"].not_full)
    BY <1>6, <1>7, WokenFacts, Zenon
  <2> QED BY <1>7, <1>8, <2>1, Zenon DEF WakesOne
<1> HIDE DEF p
<1>10. ASSUME NEW t \in IOThreads, pc'[t] # pc[t]
       PROVE  pc[t] = "waiting" /\ pc'[t] = "woken" /\ t \notin {q'["in"].not_empty, q'["tx"].not_full}
  <2>1. \/ Transmits /\ t = q["tx"].not_full /\ pc'[t] = "woken"
        \/ Receives /\ t = q["in"].not_empty /\ pc'[t] = "woken"
    BY <1>7, <1>9, <1>10, Zenon
  <2>2. CASE Transmits /\ t = q["tx"].not_full /\ pc'[t] = "woken"
    <3>1. t \in Writers /\ pc[t] = "waiting" /\ x.not_full = NULL
      BY <1>1, <1>4, <2>2, NullFacts, Zenon DEF WaitInv
    <3>2. r.not_empty # t
      BY <1>1, <1>3, <3>1, NullFacts, Zenon DEF WaitInv
    <3> QED BY <1>5, <2>2, <3>1, <3>2, NullFacts, Zenon
  <2>3. CASE Receives /\ t = q["in"].not_empty /\ pc'[t] = "woken"
    <3>1. t \in Readers /\ pc[t] = "waiting" /\ r.not_empty = NULL
      BY <1>1, <1>3, <2>3, NullFacts, Zenon DEF WaitInv
    <3>2. x.not_full # t
      BY <1>1, <1>4, <3>1, NullFacts, Zenon DEF WaitInv
    <3> QED BY <1>5, <2>3, <3>1, <3>2, NullFacts, Zenon
  <2> QED BY <2>1, <2>2, <2>3, Zenon
<1>11. \A u \in {"in", "tx"} : /\ q'[u].lock = q[u].lock
                               /\ q'[u].not_empty \in {q[u].not_empty, NULL}
                               /\ q'[u].not_full \in {q[u].not_full, NULL}
  BY <1>3, <1>4, <1>5, Zenon
<1>12. rbr' \in Nat \union {NULL} /\ arrived' \in Nat /\ sent' \in Seq(Bytes) /\ mode' = "QUEUE" /\ sent' = sent
  BY <1>1, <1>2, Zenon DEF IntqTypes
<1> QED BY <1>1, <1>2, <1>3, <1>4, <1>5, <1>9, <1>10, <1>11, <1>12, DeviceStep, Zenon

\* The inductive invariant holds at boot.
LEMMA IntqInitInv == IntqInit => IntqInv
<1> SUFFICES ASSUME IntqInit
             PROVE  IntqInv
  OBVIOUS
<1> USE NullFacts
<1>1. /\ q = [u \in {"in", "tx"} |-> Empty(u)] /\ mode = "POLL" /\ rbr = NULL /\ thr = NULL
      /\ console = [holder |-> NULL, depth |-> 0] /\ arrived = 0
      /\ accepted = <<>> /\ taken = <<>> /\ put = <<>> /\ sent = <<>> /\ panic = FALSE
      /\ at = [t \in Writers |-> IF t \in on THEN 0 ELSE 2]
      /\ pc = [t \in IOThreads |-> IF t \notin on THEN "done" ELSE IF t \in Readers THEN "getc" ELSE "line"]
  BY Zenon DEF IntqInit, IOThreads
<1>2. PICK r : r = [buf |-> [i \in Places |-> NULL], head |-> 0, tail |-> 0,
                    lock |-> NULL, not_empty |-> NULL, not_full |-> NULL]
  BY Zenon
<1>3. 0 \in Places
  BY IntqAssumption DEF Places
<1>4. r \in Ring /\ intq_empty(r) /\ r.lock = NULL /\ r.not_empty = NULL /\ r.not_full = NULL
  BY <1>2, <1>3 DEF Ring, intq_empty
<1>5. q = [u \in {"in", "tx"} |-> r]
  BY <1>1, <1>2, Zenon DEF Empty, Places
<1>6. Held(r) = <<>> /\ InPort = <<>>
  BY <1>1, <1>4, EmptyHeld, Zenon DEF InPort
<1>7. \A t \in IOThreads : pc[t] = IF t \notin on THEN "done" ELSE IF t \in Readers THEN "getc" ELSE "line"
  BY <1>1, Zenon
<1>8. /\ \A t \in Readers : pc[t] \in ReaderPoints /\ (pc[t] # "done" => t \in on) /\ pc[t] # "wants"
      /\ \A t \in Writers : pc[t] = IF t \in on THEN "line" ELSE "done"
  <2>1. ASSUME NEW t \in Readers
        PROVE  pc[t] \in ReaderPoints /\ (pc[t] # "done" => t \in on) /\ pc[t] # "wants"
    BY <1>7, Zenon DEF ReaderPoints, IOThreads
  <2>2. ASSUME NEW t \in Writers
        PROVE  pc[t] = IF t \in on THEN "line" ELSE "done"
    <3>1. t \in IOThreads /\ t \notin Readers
      BY <2>2, Zenon DEF IOThreads
    <3> QED BY <1>7, <3>1, Zenon
  <2> QED BY <2>1, <2>2, Zenon
<1>9. pc \in [IOThreads -> ReaderPoints \union WriterPoints] /\ \A t \in Writers : pc[t] \in WriterPoints
  <2>1. \A t \in IOThreads : pc[t] \in ReaderPoints \union WriterPoints
    BY <1>7, Zenon DEF ReaderPoints, WriterPoints
  <2>2. \A t \in Writers : pc[t] \in WriterPoints
    BY <1>8, Zenon DEF WriterPoints
  <2>3. pc \in [IOThreads -> ReaderPoints \union WriterPoints]
    BY <1>1, Zenon DEF ReaderPoints, WriterPoints
  <2> QED BY <2>1, <2>2, <2>3, Zenon
<1>10. <<>> \in Seq(Nat) /\ <<>> \in Seq(Bytes) /\ <<>> \o <<>> = <<>> /\ 0 \in Nat /\ DOMAIN <<>> = {}
  OBVIOUS
<1>11. at \in [Writers -> 0 .. 2] /\ \A t \in Writers : at[t] # 1 /\ at[t] = IF t \in on THEN 0 ELSE 2
  BY <1>1
<1>12. console \in [holder : Writers \union {NULL}, depth : Nat] /\ console.holder = NULL /\ console.depth = 0
  BY <1>1
<1>13. IntqTypes
  <2>1. q \in [{"in", "tx"} -> Ring]
    BY <1>4, <1>5, Zenon
  <2>2. mode \in {"POLL", "QUEUE"} /\ rbr \in Nat \union {NULL} /\ thr \in Bytes \union {NULL}
    BY <1>1, Zenon
  <2>3. arrived \in Nat /\ accepted \in Seq(Nat) /\ taken \in Seq(Nat) /\ put \in Seq(Bytes) /\ sent \in Seq(Bytes)
    BY <1>1, <1>10, Zenon
  <2> QED BY <1>8, <1>9, <1>11, <1>12, <2>1, <2>2, <2>3, Zenon DEF IntqTypes
<1>14. QueueInv
  BY <1>1, <1>4, <1>5, <1>6, <1>10, Zenon DEF QueueInv
<1>15. WaitInv
  BY <1>1, <1>4, <1>5, <1>8, Zenon DEF WaitInv
<1>16. ConsoleInv
  <2>1. ASSUME NEW t \in Writers
        PROVE  ConsoleAt(t)
    <3>1. pc[t] \in {"line", "done"} /\ console.holder # t /\ at[t] # 1
      BY <1>8, <1>11, <1>12, Zenon
    <3>2. pc[t] \notin Printing /\ pc[t] # "inner" /\ pc[t] # "release"
      BY <3>1, Zenon DEF Printing, Asleep
    <3>3. (pc[t] = "line" => at[t] = 0) /\ (pc[t] = "done" => at[t] = 2)
      BY <1>8, <1>11, Zenon
    <3> QED BY <3>1, <3>2, <3>3, Zenon DEF ConsoleAt
  <2> QED BY <1>12, <2>1, Zenon DEF ConsoleInv
<1>17. LinesInv
  BY <1>1, <1>10, Zenon DEF LinesInv
<1> QED BY <1>13, <1>14, <1>15, <1>16, <1>17, Zenon DEF IntqInv

\* Every step preserves the inductive invariant.
LEMMA IntqStepInv == IntqInv /\ [IntqNext]_ivars => IntqInv'
<1>1. ASSUME IntqInv, UNCHANGED ivars
      PROVE  IntqInv'
  <2>1. UNCHANGED <<on, q, mode, rbr, thr, console, pc, at, arrived, accepted, taken, put, sent, panic>>
    BY <1>1, Zenon DEF ivars
  <2>2. InPort' = InPort
    BY <2>1, Zenon DEF InPort
  <2> QED BY <1>1, <2>1, <2>2, DeviceStep, Zenon DEF IntqInv, IntqTypes, QueueInv
<1>2. ASSUME IntqInv, IntqNext
      PROVE  IntqInv'
  <2>1. UNCHANGED on /\ Readers \subseteq IOThreads /\ Writers \subseteq IOThreads
    BY <1>2, Zenon DEF IntqNext, IOThreads
  <2>2. ASSUME NEW t \in Readers, Reading(t)
        PROVE  IntqInv'
    <3>1. CASE input_getc(t)
      BY <1>2, <2>1, <3>1, InputGetcInv, Zenon
    <3>2. CASE intq_block(t)
      BY <1>2, <2>1, <3>2, IntqBlockInv, Zenon
    <3>3. CASE intq_locked(t)
      BY <1>2, <2>1, <3>3, IntqLockedInv, Zenon
    <3>4. CASE intq_woken(t)
      BY <1>2, <2>1, <3>4, IntqWokenInv, Zenon
    <3> QED BY <2>2, <3>1, <3>2, <3>3, <3>4, Zenon DEF Reading
  <2>3. ASSUME NEW t \in Writers, Writing(t)
        PROVE  IntqInv'
    <3>1. CASE acquire_console(t)
      BY <1>2, <2>1, <3>1, AcquireConsoleInv, Zenon
    <3>2. CASE release_console(t)
      BY <1>2, <2>1, <3>2, ReleaseConsoleInv, Zenon
    <3>3. CASE serial_putc(t)
      BY <1>2, <2>1, <3>3, SerialPutcInv, Zenon
    <3>4. CASE serial_putc_poll(t)
      BY <1>2, <2>1, <3>4, SerialPutcPollInv, Zenon
    <3>5. CASE serial_putc_off(t)
      BY <1>2, <2>1, <3>5, SerialPutcOffInv, Zenon
    <3>6. CASE intq_block(t)
      BY <1>2, <2>1, <3>6, IntqBlockInv, Zenon
    <3>7. CASE intq_locked(t)
      BY <1>2, <2>1, <3>7, IntqLockedInv, Zenon
    <3>8. CASE intq_woken(t)
      BY <1>2, <2>1, <3>8, IntqWokenInv, Zenon
    <3> QED BY <2>3, <3>1, <3>2, <3>3, <3>4, <3>5, <3>6, <3>7, <3>8, Zenon DEF Writing
  <2>4. CASE serial_init_queue
    BY <1>2, <2>1, <2>4, SerialInitQueueInv, Zenon
  <2>5. CASE serial_flush
    BY <1>2, <2>1, <2>5, SerialFlushInv, Zenon
  <2>6. CASE serial_interrupt
    BY <1>2, <2>1, <2>6, SerialInterruptInv, Zenon
  <2>7. CASE keyboard_interrupt
    BY <1>2, <2>1, <2>7, KeyboardInterruptInv, Zenon
  <2>8. CASE port_receives
    BY <1>2, <2>1, <2>8, PortReceivesInv, Zenon
  <2>9. CASE port_sends
    BY <1>2, <2>1, <2>9, PortSendsInv, Zenon
  <2> QED BY <1>2, <2>2, <2>3, <2>4, <2>5, <2>6, <2>7, <2>8, <2>9, Zenon DEF IntqNext
<1> QED BY <1>1, <1>2, Zenon

\* The inductive invariant of the interrupt queues and the console.
THEOREM QueueInvariance == IntqSpec => []IntqInv
BY IntqInitInv, IntqStepInv, PTL DEF IntqSpec

\* For any buffer size of two or more, any readers and any writers: the queues of
\* devices/intq.c lose, double and reorder no byte, whether interrupts or polling
\* move them; console_lock and its depth keep the lines of two threads apart; and
\* wait()'s ASSERT fails only where two threads read.
THEOREM QueuesInOrder == IntqSpec => []BytesInOrder
<1>1. IntqInv => BytesInOrder
  BY Zenon DEF IntqInv, QueueInv, LinesInv, WaitInv, TwoReaders, BytesInOrder
<1> QED BY <1>1, QueueInvariance, PTL
-----------------------------------------------------------------------------
(* Sleeping threads: nobody is woken early, and until a donation moves a     *)
(* sleeper nobody sleeps past its time.                                      *)

SleepTypes ==
  /\ holders \in SUBSET Threads
  /\ ticks \in Nat
  /\ phase \in [Threads -> {"run", "start", "asleep"}]
  /\ wake_up \in [Threads -> Int]
  /\ timer_sleep_list \in Seq(Threads)
  /\ since \in [Threads -> Int]
  /\ start \in [Threads -> Int]
  /\ asked \in [Threads -> Int]
  /\ moved \in BOOLEAN

\* The sleepers are on the list, each once.
SleepersListed ==
  /\ IsInjective(timer_sleep_list)
  /\ Range(timer_sleep_list) = {t \in Threads : phase[t] = "asleep"}

\* The list is in ascending order of wake-up times, which is the descending order
\* of the times that are left.
Left == [t \in Threads |-> -wake_up[t]]
SleepSorted == ~moved => Descending(timer_sleep_list, Left)

\* wake_up is the time of the call and the ticks asked for.
TimeAsked == \A t \in Threads : phase[t] # "run" => wake_up[t] = start[t] + asked[t]

SleepInv == SleepTypes /\ SleepersListed /\ SleepSorted /\ OnTime /\ TimeAsked

-----------------------------------------------------------------------------
\* The loop of timer_interrupt() stops at the first sleeper that is not due.
LEMMA WakeCountStops ==
  ASSUME SleepTypes
  PROVE  /\ WakeCount \in 0 .. Len(timer_sleep_list)
         /\ \A i \in 1 .. WakeCount : Due(timer_sleep_list[i])
         /\ WakeCount < Len(timer_sleep_list) => ~Due(timer_sleep_list[WakeCount + 1])
<1> DEFINE n == Len(timer_sleep_list)
           T == {i \in 1 .. n : ~Due(timer_sleep_list[i])}
           f == First(T, n)
<1>1. n \in Nat /\ T \in SUBSET (1 .. n)
  BY DEF SleepTypes
<1>2. /\ f \in 1 .. n + 1
      /\ f <= n => f \in T
      /\ \A j \in 1 .. f - 1 : j \notin T
  BY <1>1, FirstExists, Zenon
<1> HIDE DEF f
<1>3. /\ f - 1 \in 0 .. n
      /\ \A i \in 1 .. f - 1 : Due(timer_sleep_list[i])
      /\ f - 1 < n => ~Due(timer_sleep_list[(f - 1) + 1])
  BY <1>1, <1>2
<1>4. \E k \in 0 .. n : /\ \A i \in 1 .. k : Due(timer_sleep_list[i])
                        /\ k < n => ~Due(timer_sleep_list[k + 1])
  BY <1>3, Zenon
<1> QED BY <1>4, Zenon DEF WakeCount

\* What the loop leaves of the list.
LEMMA SleepRest ==
  ASSUME NEW s \in Seq(Threads), IsInjective(s), NEW k \in 0 .. Len(s)
  PROVE  LET r == SubSeq(s, k + 1, Len(s)) IN
         /\ r \in Seq(Threads) /\ IsInjective(r)
         /\ Range(r) = {t \in Range(s) : ~\E i \in 1 .. k : s[i] = t}
         /\ \A t \in Range(r) : \E j \in k + 1 .. Len(s) : s[j] = t
         /\ \A key \in [Threads -> Int] : Descending(s, key) => Descending(r, key)
<1> DEFINE r == SubSeq(s, k + 1, Len(s))
<1>1. Len(s) \in Nat /\ k \in Nat /\ k <= Len(s)
  OBVIOUS
<1>2. /\ r \in Seq(Threads) /\ Len(r) = Len(s) - k
      /\ \A j \in 1 .. Len(s) - k : r[j] = s[k + j]
  BY <1>1
<1> HIDE DEF r
<1>3. DOMAIN r = 1 .. Len(s) - k /\ DOMAIN s = 1 .. Len(s)
  BY <1>2
<1>4. IsInjective(r)
  <2>1. ASSUME NEW i \in 1 .. Len(s) - k, NEW j \in 1 .. Len(s) - k, r[i] = r[j]
        PROVE  i = j
    <3>1. k + i \in 1 .. Len(s) /\ k + j \in 1 .. Len(s) /\ s[k + i] = s[k + j]
      BY <1>1, <1>2, <2>1
    <3>2. k + i = k + j
      BY <1>3, <3>1, Zenon DEF IsInjective
    <3> QED BY <1>1, <3>2
  <2> QED BY <1>3, <2>1, Zenon DEF IsInjective
<1>5. \A t \in Range(r) : \E j \in k + 1 .. Len(s) : s[j] = t
  <2>1. ASSUME NEW i \in 1 .. Len(s) - k
        PROVE  k + i \in k + 1 .. Len(s) /\ s[k + i] = r[i]
    BY <1>1, <1>2
  <2> QED BY <1>3, <2>1, Zenon DEF Range
<1>6. ASSUME NEW t \in Range(r)
      PROVE  t \in Range(s) /\ ~\E i \in 1 .. k : s[i] = t
  <2>1. PICK j \in k + 1 .. Len(s) : s[j] = t
    BY <1>5, Zenon
  <2> QED BY <1>1, <1>3, <2>1 DEF Range, IsInjective
<1>7. ASSUME NEW t \in Range(s), ~\E i \in 1 .. k : s[i] = t
      PROVE  t \in Range(r)
  <2>1. PICK j \in 1 .. Len(s) : s[j] = t
    BY <1>3, Zenon DEF Range
  <2>2. j > k
    BY <1>1, <1>7, <2>1
  <2>3. j - k \in 1 .. Len(s) - k /\ r[j - k] = t
    BY <1>1, <1>2, <2>1, <2>2
  <2> QED BY <1>3, <2>3, Zenon DEF Range
<1>8. ASSUME NEW key \in [Threads -> Int], Descending(s, key)
      PROVE  Descending(r, key)
  <2>1. ASSUME NEW i \in 1 .. Len(r), NEW j \in 1 .. Len(r), i < j
        PROVE  key[r[i]] >= key[r[j]]
    <3>1. /\ k + i \in 1 .. Len(s) /\ k + j \in 1 .. Len(s) /\ k + i < k + j
          /\ s[k + i] = r[i] /\ s[k + j] = r[j]
      BY <1>1, <1>2, <2>1
    <3>2. key[s[k + i]] >= key[s[k + j]]
      BY <1>8, <3>1, Zenon DEF Descending
    <3> QED BY <3>1, <3>2, Zenon
  <2> QED BY <2>1, Zenon DEF Descending
<1>9. Range(r) = {t \in Range(s) : ~\E i \in 1 .. k : s[i] = t}
  BY <1>6, <1>7, Zenon
<1> QED BY <1>2, <1>4, <1>5, <1>8, <1>9, Zenon DEF r

-----------------------------------------------------------------------------
\* timer_sleep() has computed the time and not yet blocked.
LEMMA SleepStart ==
  ASSUME SleepInv, NEW t \in Threads, NEW n \in Int, timer_sleep(t, n)
  PROVE  SleepInv'
<1> USE DEF SleepInv
<1>1. /\ phase[t] = "run" /\ wake_up' = [wake_up EXCEPT ![t] = ticks + n]
      /\ phase' = [phase EXCEPT ![t] = "start"]
      /\ start' = [start EXCEPT ![t] = ticks] /\ asked' = [asked EXCEPT ![t] = n]
      /\ UNCHANGED <<holders, ticks, e_pri, timer_sleep_list, since, moved>>
  BY Zenon DEF timer_sleep
<1>2. SleepTypes'
  BY <1>1 DEF SleepTypes
<1>3. {u \in Threads : phase'[u] = "asleep"} = {u \in Threads : phase[u] = "asleep"}
  BY <1>1, Zenon DEF SleepTypes
<1>4. SleepersListed'
  BY <1>1, <1>3, Zenon DEF SleepersListed
<1>5. SleepSorted'
  <2>1. \A u \in Range(timer_sleep_list) : Left'[u] = Left[u]
    BY <1>1, Zenon DEF SleepersListed, Left, SleepTypes
  <2> QED BY <1>1, <2>1, DescendingKeys, Zenon DEF SleepSorted, SleepTypes
<1>6. OnTime'
  BY <1>1, Zenon DEF OnTime, SleepTypes
<1>7. TimeAsked'
  BY <1>1, Zenon DEF TimeAsked, SleepTypes
<1> QED BY <1>2, <1>4, <1>5, <1>6, <1>7, Zenon

\* timer_sleep() files the thread by its time and blocks it.
LEMMA SleepBlock ==
  ASSUME SleepInv, NEW t \in Threads, timer_sleep_block(t)
  PROVE  SleepInv'
<1> USE DEF SleepInv
<1> DEFINE s == timer_sleep_list
           T == Earlier(t)
           r == list_insert(s, First(T, Len(s)), t)
<1>1. /\ phase[t] = "start" /\ timer_sleep_list' = r
      /\ phase' = [phase EXCEPT ![t] = "asleep"] /\ since' = [since EXCEPT ![t] = ticks]
      /\ UNCHANGED <<holders, ticks, wake_up, e_pri, start, asked, moved>>
  BY Zenon DEF timer_sleep_block, list_insert_ordered
<1>2. s \in Seq(Threads) /\ T \in SUBSET (1 .. Len(s)) /\ IsInjective(s) /\ t \notin Range(s)
  BY <1>1, Zenon DEF SleepTypes, Earlier, SleepersListed
<1>3. r \in Seq(Threads) /\ Range(r) = Range(s) \cup {t} /\ IsInjective(r)
  BY <1>2, InsertFirst
<1>4. SleepSorted'
  <2> SUFFICES ASSUME ~moved PROVE Descending(r, Left)
    BY <1>1, Zenon DEF SleepSorted, Left
  <2>1. Left \in [Threads -> Int] /\ Descending(s, Left)
    BY DEF SleepSorted, Left, SleepTypes
  <2>2. \A i \in T : Left[t] >= Left[s[i]]
    BY <1>2 DEF Earlier, Left, SleepTypes
  <2>3. \A i \in (1 .. Len(s)) \ T : Left[s[i]] >= Left[t]
    BY <1>2 DEF Earlier, Left, SleepTypes
  <2> QED BY <1>2, <2>1, <2>2, <2>3, InsertFirstDescending, Zenon
<1> HIDE DEF r
<1>5. SleepTypes'
  BY <1>1, <1>3 DEF SleepTypes
<1>6. {u \in Threads : phase'[u] = "asleep"} = {u \in Threads : phase[u] = "asleep"} \cup {t}
  BY <1>1, Zenon DEF SleepTypes
<1>7. SleepersListed'
  BY <1>1, <1>3, <1>6, Zenon DEF SleepersListed
<1>8. OnTime'
  BY <1>1, Zenon DEF OnTime, SleepTypes
<1>9. TimeAsked'
  BY <1>1, Zenon DEF TimeAsked, SleepTypes
<1> QED BY <1>4, <1>5, <1>7, <1>8, <1>9, Zenon

\* timer_interrupt() wakes who is due and leaves who is not.
LEMMA SleepTick ==
  ASSUME SleepInv, timer_interrupt
  PROVE  /\ SleepInv'
         /\ \A t \in Threads : (phase[t] = "asleep" /\ phase'[t] = "run") => ticks' - start[t] >= asked[t]
<1> USE DEF SleepInv
<1> DEFINE s == timer_sleep_list
           k == WakeCount
           r == SubSeq(s, k + 1, Len(s))
<1>1. /\ ticks' = ticks + 1 /\ timer_sleep_list' = r
      /\ phase' = [t \in Threads |-> IF \E i \in 1 .. k : s[i] = t THEN "run" ELSE phase[t]]
      /\ moved' = (moved /\ k < Len(s))
      /\ UNCHANGED <<holders, wake_up, e_pri, start, asked, since>>
  BY Zenon DEF timer_interrupt
<1>2. /\ k \in 0 .. Len(s)
      /\ \A i \in 1 .. k : Due(s[i])
      /\ k < Len(s) => ~Due(s[k + 1])
  BY WakeCountStops, Zenon
<1>3. s \in Seq(Threads) /\ IsInjective(s)
  BY Zenon DEF SleepTypes, SleepersListed
<1> HIDE DEF k
<1>4. /\ r \in Seq(Threads) /\ IsInjective(r)
      /\ Range(r) = {t \in Range(s) : ~\E i \in 1 .. k : s[i] = t}
      /\ \A t \in Range(r) : \E j \in k + 1 .. Len(s) : s[j] = t
      /\ \A key \in [Threads -> Int] : Descending(s, key) => Descending(r, key)
  BY <1>2, <1>3, SleepRest, Zenon
<1> HIDE DEF r
<1>5. SleepTypes'
  BY <1>1, <1>4 DEF SleepTypes
<1>6. {t \in Threads : phase'[t] = "asleep"} = Range(r)
  <2>1. \A t \in Threads : phase'[t] = "asleep" <=> (phase[t] = "asleep" /\ ~\E i \in 1 .. k : s[i] = t)
    BY <1>1, Zenon
  <2>2. \A t \in Threads : phase[t] = "asleep" <=> t \in Range(s)
    BY Zenon DEF SleepersListed
  <2>3. Range(s) \subseteq Threads
    BY Zenon DEF SleepersListed
  <2> QED BY <1>4, <2>1, <2>2, <2>3
<1>7. SleepersListed'
  BY <1>1, <1>4, <1>6, Zenon DEF SleepersListed
<1>8. Left' = Left /\ Left \in [Threads -> Int]
  BY <1>1 DEF Left, SleepTypes
<1>9. SleepSorted'
  <2>1. CASE ~moved
    BY <1>1, <1>4, <1>8, <2>1, Zenon DEF SleepSorted
  <2>2. CASE moved /\ ~(k < Len(s))
    <3>1. Len(s) \in Nat /\ k = Len(s)
      BY <1>2, <1>3, <2>2
    <3>2. Len(r) = 0
      BY <1>3, <3>1 DEF r
    <3> QED BY <1>1, <1>4, <3>2 DEF SleepSorted, Descending
  <2> QED BY <1>1, <2>1, <2>2, Zenon DEF SleepSorted
<1>10. OnTime'
  <2> SUFFICES ASSUME ~moved', NEW t \in Threads, phase'[t] = "asleep"
               PROVE  ticks' < wake_up'[t]
    BY <1>1, Zenon DEF OnTime
  <2>1. PICK j \in k + 1 .. Len(s) : s[j] = t
    BY <1>4, <1>6, Zenon
  <2>m. ~moved
    <3>1. k < Len(s)
      BY <1>2, <1>3, <2>1
    <3> QED BY <1>1, <3>1, Zenon
  <2>2. /\ k + 1 \in 1 .. Len(s) /\ j \in 1 .. Len(s) /\ k < Len(s)
        /\ s[k + 1] \in Threads
    BY <1>2, <1>3, <2>1
  <2>3. ticks + 1 < wake_up[s[k + 1]]
    <3>1. ~(wake_up[s[k + 1]] <= ticks + 1) /\ wake_up[s[k + 1]] \in Int /\ ticks \in Nat
      BY <1>2, <2>2, Zenon DEF Due, SleepTypes
    <3>2. PICK w \in Int, n \in Nat : w = wake_up[s[k + 1]] /\ n = ticks
      BY <3>1, Zenon
    <3>3. ~(w <= n + 1) => n + 1 < w
      OBVIOUS
    <3> QED BY <3>1, <3>2, <3>3, Zenon
  <2>4. wake_up[s[k + 1]] <= wake_up[t]
    <3>1. CASE j = k + 1
      <4>1. s[k + 1] = t /\ wake_up[t] \in Int
        BY <2>1, <2>2, <3>1, Zenon DEF SleepTypes
      <4>2. PICK w \in Int : w = wake_up[t]
        BY <4>1, Zenon
      <4>3. w <= w
        OBVIOUS
      <4> QED BY <4>1, <4>2, <4>3, Zenon
    <3>2. CASE j # k + 1
      <4>1. k + 1 < j
        BY <1>2, <2>1, <2>2, <3>2
      <4>2. Left[s[k + 1]] >= Left[s[j]]
        BY <2>2, <2>m, <4>1, Zenon DEF SleepSorted, Descending
      <4> QED BY <2>1, <2>2, <4>2, SMTT(60) DEF Left, SleepTypes
    <3> QED BY <3>1, <3>2, Zenon
  <2>5. PICK a \in Int, b \in Int, n \in Int : a = wake_up[s[k + 1]] /\ b = wake_up[t] /\ n = ticks + 1
    <3>1. ticks + 1 \in Int
      BY DEF SleepTypes
    <3> QED BY <2>2, <3>1, Zenon DEF SleepTypes
  <2>6. n < a /\ a <= b => n < b
    OBVIOUS
  <2> QED BY <1>1, <2>3, <2>4, <2>5, <2>6, Zenon
<1>11. ASSUME NEW t \in Threads, phase[t] = "asleep", phase'[t] = "run"
       PROVE  ticks' - start[t] >= asked[t]
  <2>1. PICK i \in 1 .. k : s[i] = t
    BY <1>1, <1>11, Zenon
  <2>2. wake_up[t] <= ticks' /\ wake_up[t] = start[t] + asked[t]
    BY <1>1, <1>2, <1>11, <2>1, Zenon DEF Due, TimeAsked
  <2>3. ticks' \in Int /\ start[t] \in Int /\ asked[t] \in Int
    BY <1>1 DEF SleepTypes
  <2> QED BY <2>2, <2>3
<1>12. TimeAsked'
  BY <1>1, Zenon DEF TimeAsked, SleepTypes
<1> QED BY <1>5, <1>7, <1>9, <1>10, <1>11, <1>12, Zenon

\* Donation moves a sleeper within the list, or nobody.
LEMMA SleepDonate ==
  ASSUME SleepInv, NEW t \in Threads, NEW pri \in Int, donate_pri_acquire(t, pri)
  PROVE  SleepInv' /\ phase' = phase
<1> USE DEF SleepInv
<1> DEFINE s == list_remove(timer_sleep_list, t)
           T == {i \in 1 .. Len(s) : pri > e_pri[s[i]]}
           r == list_insert(s, First(T, Len(s)), t)
<1>1. /\ t \in holders /\ UNCHANGED <<holders, ticks, phase, wake_up, start, asked, since>>
      /\ moved' = (moved \/ phase[t] = "asleep")
      /\ timer_sleep_list' = IF phase[t] = "asleep" THEN r ELSE timer_sleep_list
  BY Zenon DEF donate_pri_acquire, list_insert_ordered
<1>2. timer_sleep_list \in Seq(Threads) /\ IsInjective(timer_sleep_list)
  BY Zenon DEF SleepTypes, SleepersListed
<1>3. s \in Seq(Threads) /\ IsInjective(s) /\ Range(s) = Range(timer_sleep_list) \ {t}
  BY <1>2, RemoveElems, Zenon
<1> HIDE DEF s
<1>4. r \in Seq(Threads) /\ Range(r) = Range(s) \cup {t} /\ IsInjective(r)
  BY <1>3, InsertFirst
<1> HIDE DEF r
<1>5. /\ timer_sleep_list' \in Seq(Threads) /\ IsInjective(timer_sleep_list')
      /\ Range(timer_sleep_list') = Range(timer_sleep_list)
  <2>1. CASE phase[t] = "asleep"
    <3>1. t \in Range(timer_sleep_list)
      BY <2>1, Zenon DEF SleepersListed
    <3> QED BY <1>1, <1>3, <1>4, <2>1, <3>1, Zenon
  <2>2. CASE phase[t] # "asleep"
    BY <1>1, <1>2, <2>2, Zenon
  <2> QED BY <2>1, <2>2, Zenon
<1>6. SleepTypes'
  BY <1>1, <1>5, Zenon DEF SleepTypes
<1>7. SleepersListed'
  BY <1>1, <1>5, Zenon DEF SleepersListed
<1>8. SleepSorted' /\ OnTime'
  BY <1>1, Zenon DEF SleepSorted, OnTime, Left
<1>9. TimeAsked'
  BY <1>1, Zenon DEF TimeAsked
<1> QED BY <1>1, <1>6, <1>7, <1>8, <1>9, Zenon

\* Every step keeps the invariant and wakes nobody before its time.
LEMMA SleepStep ==
  ASSUME SleepInv, [Next]_vars
  PROVE  /\ SleepInv'
         /\ \A t \in Threads : (phase[t] = "asleep" /\ phase'[t] = "run") => ticks' - start[t] >= asked[t]
<1>1. ASSUME UNCHANGED <<holders, ticks, phase, wake_up, timer_sleep_list, history>>
      PROVE  SleepInv' /\ phase' = phase
  BY <1>1, Zenon DEF SleepInv, SleepTypes, SleepersListed, SleepSorted, Left, OnTime, TimeAsked, history
<1>2. CASE UNCHANGED vars
  BY <1>1, <1>2, Zenon DEF vars
<1>3. CASE timer_interrupt
  BY <1>3, SleepTick, Zenon
<1>4. CASE Bound
  BY <1>1, <1>4, Zenon DEF Bound, vars
<1>5. ASSUME NEW t \in Threads, NEW n \in Int, timer_sleep(t, n)
      PROVE  /\ SleepInv'
             /\ \A u \in Threads : (phase[u] = "asleep" /\ phase'[u] = "run") => ticks' - start[u] >= asked[u]
  <2>1. SleepInv'
    BY <1>5, SleepStart, Zenon
  <2>2. \A u \in Threads : phase'[u] = "run" => phase[u] = "run"
    BY <1>5, Zenon DEF timer_sleep, SleepInv, SleepTypes
  <2> QED BY <2>1, <2>2, Zenon
<1>6. ASSUME NEW t \in Threads, NEW ms \in Millis, real_time_sleep(t, ms, 1000)
      PROVE  \E n \in Int : timer_sleep(t, n)
  <2>1. ms * TIMER_FREQ \in Int
    BY TimerAssumption
  <2>2. (ms * TIMER_FREQ) \div 1000 \in Int
    BY <2>1
  <2> QED BY <1>6, <2>2 DEF real_time_sleep
<1>7. ASSUME NEW t \in Threads, timer_sleep_block(t)
      PROVE  /\ SleepInv'
             /\ \A u \in Threads : (phase[u] = "asleep" /\ phase'[u] = "run") => ticks' - start[u] >= asked[u]
  <2>1. SleepInv'
    BY <1>7, SleepBlock, Zenon
  <2>2. \A u \in Threads : phase'[u] = "run" => phase[u] = "run"
    BY <1>7, Zenon DEF timer_sleep_block, SleepInv, SleepTypes
  <2> QED BY <2>1, <2>2, Zenon
<1>8. ASSUME NEW t \in Threads, NEW pri \in Int, donate_pri_acquire(t, pri)
      PROVE  SleepInv' /\ phase' = phase
  BY <1>8, SleepDonate, Zenon
<1>9. ASSUME NEW t \in Threads, lock_release(t)
      PROVE  SleepInv' /\ phase' = phase
  BY <1>1, <1>9, Zenon DEF lock_release
<1>10. Naps \subseteq Int /\ 1 .. HighPri \subseteq Int
  BY TimerAssumption
<1> QED BY <1>2, <1>3, <1>4, <1>5, <1>6, <1>7, <1>8, <1>9, <1>10 DEF Next

\* Nobody sleeps yet.
LEMMA SleepInitial ==
  ASSUME Init
  PROVE  SleepInv
<1>1. SleepTypes
  <2>1. /\ holders \in SUBSET Threads /\ moved = FALSE /\ ticks = 0 /\ timer_sleep_list = <<>>
        /\ phase = [t \in Threads |-> "run"] /\ wake_up = [t \in Threads |-> 0] /\ since = [t \in Threads |-> 0]
        /\ start = [t \in Threads |-> 0] /\ asked = [t \in Threads |-> 0]
    BY TimerAssumption, Zenon DEF Init
  <2>2. 0 \in Int /\ 0 \in Nat /\ <<>> \in Seq(Threads)
    OBVIOUS
  <2> QED BY <2>1, <2>2, Zenon DEF SleepTypes
<1>2. timer_sleep_list = <<>> /\ \A t \in Threads : phase[t] = "run"
  BY Zenon DEF Init
<1>3. IsInjective(<<>>) /\ Range(<<>>) = {} /\ Descending(<<>>, Left)
  <2>1. <<>> \in Seq(Threads) /\ DOMAIN <<>> = 1 .. 0 /\ Len(<<>>) = 0
    OBVIOUS
  <2> QED BY <2>1 DEF IsInjective, Range, Descending
<1> QED BY <1>1, <1>2, <1>3, Zenon DEF SleepInv, SleepersListed, SleepSorted, OnTime, TimeAsked

\* The inductive invariant: the sleepers are listed once, in the order of their
\* times until a donation moves one of them.
THEOREM SleepInvariance == Spec => []SleepInv
<1>1. Init => SleepInv
  BY SleepInitial, Zenon
<1>2. SleepInv /\ [Next]_vars => SleepInv'
  BY SleepStep, Zenon
<1> QED BY <1>1, <1>2, PTL DEF Spec

\* Until a donation moves a sleeping lock holder, timer_interrupt() leaves nobody
\* asleep after its wake-up time.
THEOREM WokenOnTime == Spec => []OnTime
<1>1. SleepInv => OnTime
  BY Zenon DEF SleepInv
<1> QED BY <1>1, SleepInvariance, PTL

\* timer_interrupt() wakes nobody before the ticks it asked for are over,
\* donations or not.
THEOREM WokenNotEarly == Spec => NotEarly
<1>1. SleepInv /\ [Next]_vars
      => [\A t \in Threads : (phase[t] = "asleep" /\ phase'[t] = "run") => ticks' - start[t] >= asked[t]]_vars
  BY SleepStep, Zenon
<1> QED BY <1>1, SleepInvariance, PTL DEF Spec, NotEarly

=============================================================================
