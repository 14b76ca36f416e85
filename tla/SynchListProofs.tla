-------------------------- MODULE SynchListProofs --------------------------
(***************************************************************************)
(* The lists of Synch for any number of threads, locks and semaphores: a   *)
(* thread's elem is on the one list its status calls for, and the lists    *)
(* are in order of priority.                                               *)
(***************************************************************************)
EXTENDS SynchProofs

\* What the lists ls hold when the threads have statuses st, queue fields qu
\* and operands ar.
On(t, q, st, qu, ar) ==
  qu[t] = q /\ ((q = Ready /\ st[t] = "READY") \/ (st[t] = "BLOCKED" /\ ar[t] = q))
Filed(ls, st, qu, ar) ==
  /\ \A q \in Lists : IsInjective(ls[q])
  /\ \A t \in Threads : /\ st[t] = "READY" => qu[t] = Ready
                        /\ st[t] = "BLOCKED" => qu[t] = ar[t] /\ ar[t] \in AllSemas
  /\ \A t \in Threads, q \in Lists : t \in Range(ls[q]) <=> On(t, q, st, qu, ar)

\* The lists that are kept in order of the priorities ep.
Ordered(q) == q = Ready => Policy = "PRIO"
Sorted(ls, ep) == \A q \in Lists : Ordered(q) => Descending(ls[q], ep)

Listed(st, t) == st[t] \in {"READY", "BLOCKED"}
-----------------------------------------------------------------------------
(* One list operation at a time *)

\* Inserting a thread in priority order keeps the order.
LEMMA InsertThreadSorted ==
  ASSUME NEW s \in Seq(Threads), NEW t \in Threads, NEW ep \in [Threads -> Int],
         Descending(s, ep)
  PROVE  Descending(InsertThread(s, t, ep), ep)
<1> DEFINE T == {i \in 1 .. Len(s) : ep[t] > ep[s[i]]}
<1>1. InsertThread(s, t, ep) = list_insert(s, First(T, Len(s)), t)
  BY Zenon DEF InsertThread, list_insert_ordered
<1>2. T \in SUBSET (1 .. Len(s))
  OBVIOUS
<1>3. \A i \in T : ep[t] >= ep[s[i]]
  OBVIOUS
<1>4. \A i \in (1 .. Len(s)) \ T : ep[s[i]] >= ep[t]
  OBVIOUS
<1> HIDE DEF T
<1> QED BY <1>1, <1>2, <1>3, <1>4, InsertFirstDescending

\* A thread is on a list exactly when it is READY or BLOCKED.
LEMMA ListedIsOn ==
  ASSUME NEW ls, NEW st, NEW qu, NEW ar, Filed(ls, st, qu, ar), NEW t \in Threads
  PROVE  /\ Listed(st, t) => qu[t] \in Lists /\ t \in Range(ls[qu[t]])
         /\ ~Listed(st, t) => \A q \in Lists : t \notin Range(ls[q])
<1>1. ASSUME Listed(st, t) PROVE qu[t] \in Lists /\ On(t, qu[t], st, qu, ar)
  <2>1. st[t] = "READY" \/ st[t] = "BLOCKED"
    BY <1>1, Zenon DEF Listed
  <2> QED BY <2>1, Zenon DEF Filed, On, Lists
<1>2. ASSUME ~Listed(st, t), NEW q \in Lists PROVE ~On(t, q, st, qu, ar)
  BY <1>2, Zenon DEF On, Listed
<1> QED BY <1>1, <1>2, Zenon DEF Filed

\* Linking thread w, which is on no list, into list q, and setting its status
\* and its queue field to match.
LEMMA Link ==
  ASSUME NEW ls \in [Lists -> Seq(Threads)], NEW st \in [Threads -> Statuses],
         NEW qu \in [Threads -> Lists \cup {NULL}], NEW ar, NEW ep,
         Filed(ls, st, qu, ar), Sorted(ls, ep),
         NEW w \in Threads, ~Listed(st, w), NEW q \in Lists, NEW x,
         (q = Ready /\ x = "READY") \/ (q \in AllSemas /\ x = "BLOCKED" /\ ar[w] = q),
         NEW r \in Seq(Threads), Range(r) = Range(ls[q]) \cup {w},
         IsInjective(ls[q]) /\ w \notin Range(ls[q]) => IsInjective(r),
         Ordered(q) => Descending(r, ep)
  PROVE  /\ Filed([ls EXCEPT ![q] = r], [st EXCEPT ![w] = x], [qu EXCEPT ![w] = q], ar)
         /\ Sorted([ls EXCEPT ![q] = r], ep)
<1> DEFINE ls2 == [ls EXCEPT ![q] = r]  st2 == [st EXCEPT ![w] = x]  qu2 == [qu EXCEPT ![w] = q]
<1>1. /\ ls2[q] = r /\ \A p \in Lists : p # q => ls2[p] = ls[p]
      /\ st2[w] = x /\ \A t \in Threads : t # w => st2[t] = st[t]
      /\ qu2[w] = q /\ \A t \in Threads : t # w => qu2[t] = qu[t]
  OBVIOUS
<1> HIDE DEF ls2, st2, qu2
<1>2. \A p \in Lists : w \notin Range(ls[p])
  BY ListedIsOn, Zenon
<1>3. \A p \in Lists : IsInjective(ls2[p])
  BY <1>1, <1>2, Zenon DEF Filed
<1>4. \A t \in Threads : /\ st2[t] = "READY" => qu2[t] = Ready
                         /\ st2[t] = "BLOCKED" => qu2[t] = ar[t] /\ ar[t] \in AllSemas
  BY <1>1, Zenon DEF Filed
<1>5. ASSUME NEW t \in Threads, NEW p \in Lists
      PROVE  t \in Range(ls2[p]) <=> On(t, p, st2, qu2, ar)
  <2>1. CASE t = w
    BY <1>1, <1>2, <2>1, SynchAssumption, Zenon DEF On
  <2>2. CASE t # w
    <3>1. On(t, p, st2, qu2, ar) <=> On(t, p, st, qu, ar)
      BY <1>1, <2>2, Zenon DEF On
    <3>2. t \in Range(ls2[p]) <=> t \in Range(ls[p])
      BY <1>1, <2>2, Zenon
    <3> QED BY <3>1, <3>2, Zenon DEF Filed
  <2> QED BY <2>1, <2>2, Zenon
<1>6. Filed(ls2, st2, qu2, ar)
  BY <1>3, <1>4, <1>5, Zenon DEF Filed
<1>7. Sorted(ls2, ep)
  BY <1>1, Zenon DEF Sorted
<1> QED BY <1>6, <1>7, Zenon DEF ls2, st2, qu2

\* thread_enqueue() of a thread that is on no list.
LEMMA Enqueue ==
  ASSUME NEW ls \in [Lists -> Seq(Threads)], NEW st \in [Threads -> Statuses],
         NEW qu \in [Threads -> Lists \cup {NULL}], NEW ar, NEW ep \in [Threads -> Int],
         Filed(ls, st, qu, ar), Sorted(ls, ep), NEW w \in Threads, ~Listed(st, w)
  PROVE  /\ Filed(thread_enqueue(ls, w, ep), [st EXCEPT ![w] = "READY"],
                  [qu EXCEPT ![w] = Ready], ar)
         /\ Sorted(thread_enqueue(ls, w, ep), ep)
<1>1. Ready \in Lists /\ ls[Ready] \in Seq(Threads)
  BY Zenon DEF Lists
<1>2. CASE Policy = "FIFO"
  <2>1. thread_enqueue(ls, w, ep) = [ls EXCEPT ![Ready] = list_push_back(ls[Ready], w)]
    BY <1>2, Zenon DEF thread_enqueue
  <2>2. ~Ordered(Ready)
    BY <1>2, Zenon DEF Ordered
  <2> DEFINE r == list_push_back(ls[Ready], w)
  <2>3. /\ r \in Seq(Threads) /\ Range(r) = Range(ls[Ready]) \cup {w}
        /\ IsInjective(ls[Ready]) /\ w \notin Range(ls[Ready]) => IsInjective(r)
    BY <1>1, PushBack
  <2> HIDE DEF r
  <2>4. /\ Filed([ls EXCEPT ![Ready] = r], [st EXCEPT ![w] = "READY"], [qu EXCEPT ![w] = Ready], ar)
        /\ Sorted([ls EXCEPT ![Ready] = r], ep)
    BY <1>1, <2>2, <2>3, Link, Zenon
  <2> QED BY <2>1, <2>4, Zenon DEF r
<1>3. CASE Policy = "PRIO"
  <2>1. thread_enqueue(ls, w, ep) = [ls EXCEPT ![Ready] = InsertThread(ls[Ready], w, ep)]
    BY <1>3, Zenon DEF thread_enqueue
  <2>2. Descending(ls[Ready], ep)
    BY <1>1, <1>3, Zenon DEF Sorted, Ordered
  <2> DEFINE r == InsertThread(ls[Ready], w, ep)
  <2>3. /\ r \in Seq(Threads) /\ Range(r) = Range(ls[Ready]) \cup {w}
        /\ IsInjective(ls[Ready]) /\ w \notin Range(ls[Ready]) => IsInjective(r)
        /\ Descending(r, ep)
    BY <1>1, <2>2, InsertThreadFacts, InsertThreadSorted, Zenon
  <2> HIDE DEF r
  <2>4. /\ Filed([ls EXCEPT ![Ready] = r], [st EXCEPT ![w] = "READY"], [qu EXCEPT ![w] = Ready], ar)
        /\ Sorted([ls EXCEPT ![Ready] = r], ep)
    BY <1>1, <2>3, Link, Zenon
  <2> QED BY <2>1, <2>4, Zenon DEF r
<1> QED BY <1>2, <1>3, SynchAssumption, Zenon

\* A thread that blocks joins the waiters of a semaphore.
LEMMA Block ==
  ASSUME NEW ls \in [Lists -> Seq(Threads)], NEW st \in [Threads -> Statuses],
         NEW qu \in [Threads -> Lists \cup {NULL}], NEW ar, NEW ep \in [Threads -> Int],
         Filed(ls, st, qu, ar), Sorted(ls, ep), NEW w \in Threads, ~Listed(st, w),
         NEW s \in AllSemas, ar[w] = s
  PROVE  LET ls2 == [ls EXCEPT ![s] = InsertThread(ls[s], w, ep)] IN
         /\ Filed(ls2, [st EXCEPT ![w] = "BLOCKED"], [qu EXCEPT ![w] = s], ar)
         /\ Sorted(ls2, ep)
<1>1. s \in Lists /\ ls[s] \in Seq(Threads) /\ Ordered(s)
  BY SynchAssumption, Zenon DEF Lists, Ordered
<1>2. Descending(ls[s], ep)
  BY <1>1, Zenon DEF Sorted
<1> DEFINE r == InsertThread(ls[s], w, ep)
<1>3. /\ r \in Seq(Threads) /\ Range(r) = Range(ls[s]) \cup {w}
      /\ IsInjective(ls[s]) /\ w \notin Range(ls[s]) => IsInjective(r)
      /\ Descending(r, ep)
  BY <1>1, <1>2, InsertThreadFacts, InsertThreadSorted, Zenon
<1> HIDE DEF r
<1>4. /\ Filed([ls EXCEPT ![s] = r], [st EXCEPT ![w] = "BLOCKED"], [qu EXCEPT ![w] = s], ar)
      /\ Sorted([ls EXCEPT ![s] = r], ep)
  BY <1>1, <1>3, Link, Zenon
<1> QED BY <1>4, Zenon DEF r

\* list_pop_front(): the front is on no list once it is neither READY nor
\* BLOCKED any more.
LEMMA Unlinked ==
  ASSUME NEW ls \in [Lists -> Seq(Threads)], NEW st \in [Threads -> Statuses],
         NEW qu, NEW ar, NEW ep,
         Filed(ls, st, qu, ar), Sorted(ls, ep), NEW q \in Lists, ls[q] # <<>>
  PROVE  LET w == Head(ls[q])
             ls2 == [ls EXCEPT ![q] = list_pop_front(ls[q])]
             st2 == [st EXCEPT ![w] = "RUNNING"] IN
         /\ w \in Threads /\ On(w, q, st, qu, ar)
         /\ ls2 \in [Lists -> Seq(Threads)]
         /\ Filed(ls2, st2, qu, ar) /\ Sorted(ls2, ep)
<1> DEFINE w == Head(ls[q])  r == list_pop_front(ls[q])
           ls2 == [ls EXCEPT ![q] = r]  st2 == [st EXCEPT ![w] = "RUNNING"]
<1>1. ls[q] \in Seq(Threads) /\ IsInjective(ls[q])
  BY Zenon DEF Filed
<1>2. w \in Range(ls[q]) /\ w \in Threads
  BY <1>1, RangeFacts
<1>3. /\ r \in Seq(Threads) /\ IsInjective(r) /\ Range(r) = Range(ls[q]) \ {w}
      /\ Ordered(q) => Descending(r, ep)
  BY <1>1, PopFront, Zenon DEF Sorted
<1>4. /\ ls2 \in [Lists -> Seq(Threads)]
      /\ ls2[q] = r /\ \A p \in Lists : p # q => ls2[p] = ls[p]
      /\ st2[w] = "RUNNING" /\ \A t \in Threads : t # w => st2[t] = st[t]
  BY <1>2, <1>3, Zenon
<1> HIDE DEF w, r, ls2, st2
<1>5. On(w, q, st, qu, ar) /\ \A p \in Lists : On(w, p, st, qu, ar) => p = q
  BY <1>2, Zenon DEF Filed, On
<1>6. ASSUME NEW t \in Threads, NEW p \in Lists
      PROVE  t \in Range(ls2[p]) <=> On(t, p, st2, qu, ar)
  <2>1. CASE t = w
    <3>1. ~On(t, p, st2, qu, ar)
      BY <1>4, <2>1, Zenon DEF On
    <3>2. t \notin Range(ls2[p])
      BY <1>3, <1>4, <1>5, <2>1, Zenon DEF Filed
    <3> QED BY <3>1, <3>2, Zenon
  <2>2. CASE t # w
    <3>1. On(t, p, st2, qu, ar) <=> On(t, p, st, qu, ar)
      BY <1>4, <2>2, Zenon DEF On
    <3>2. t \in Range(ls2[p]) <=> t \in Range(ls[p])
      BY <1>3, <1>4, <2>2, Zenon
    <3> QED BY <3>1, <3>2, Zenon DEF Filed
  <2> QED BY <2>1, <2>2, Zenon
<1>7. \A p \in Lists : IsInjective(ls2[p])
  BY <1>3, <1>4, Zenon DEF Filed
<1>8. \A t \in Threads : /\ st2[t] = "READY" => qu[t] = Ready
                         /\ st2[t] = "BLOCKED" => qu[t] = ar[t] /\ ar[t] \in AllSemas
  BY <1>4, Zenon DEF Filed
<1>9. Filed(ls2, st2, qu, ar)
  BY <1>6, <1>7, <1>8, Zenon DEF Filed
<1>10. Sorted(ls2, ep)
  BY <1>3, <1>4, Zenon DEF Sorted
<1> QED BY <1>2, <1>4, <1>5, <1>9, <1>10, Zenon DEF w, r, ls2, st2

\* schedule() from a state in which nobody is RUNNING.
LEMMA Scheduled ==
  ASSUME NEW ls \in [Lists -> Seq(Threads)], NEW st \in [Threads -> Statuses],
         NEW qu, NEW ar, NEW ep, Filed(ls, st, qu, ar), Sorted(ls, ep),
         \A t \in Threads : st[t] # "RUNNING", schedule(ls, st)
  PROVE  /\ Filed(list', status', qu, ar) /\ Sorted(list', ep)
         /\ \A t \in Threads : status'[t] = "RUNNING" <=> cur' = t
         /\ \A t \in Threads : status'[t] = st[t] \/ (st[t] = "READY" /\ status'[t] = "RUNNING")
         /\ \A s \in AllSemas : list'[s] = ls[s]
<1>1. Ready \in Lists /\ \A s \in AllSemas : s \in Lists /\ s # Ready
  BY SynchAssumption, Zenon DEF Lists
<1>2. CASE ls[Ready] = <<>>
  BY <1>2, SynchAssumption, Zenon DEF schedule
<1>3. CASE ls[Ready] # <<>>
  <2> DEFINE w == Head(ls[Ready])
  <2>1. /\ cur' = w /\ list' = [ls EXCEPT ![Ready] = list_pop_front(ls[Ready])]
        /\ status' = [st EXCEPT ![w] = "RUNNING"]
    BY <1>3, Zenon DEF schedule
  <2>2. /\ w \in Threads /\ On(w, Ready, st, qu, ar)
        /\ Filed(list', status', qu, ar) /\ Sorted(list', ep)
    BY <1>1, <1>3, <2>1, Unlinked, Zenon
  <2>3. st[w] = "READY"
    BY <2>2, SynchAssumption DEF On, Filed
  <2> HIDE DEF w
  <2> QED BY <1>1, <2>1, <2>2, <2>3, Zenon
<1> QED BY <1>2, <1>3, Zenon

\* What the lists hold depends only on the threads that are on them.
LEMMA OthersFree ==
  ASSUME NEW ls \in [Lists -> Seq(Threads)], NEW st, NEW qu, NEW ar, NEW ar2, NEW ep, NEW ep2,
         Filed(ls, st, qu, ar), Sorted(ls, ep),
         \A t \in Threads : Listed(st, t) => ar2[t] = ar[t] /\ ep2[t] = ep[t]
  PROVE  Filed(ls, st, qu, ar2) /\ Sorted(ls, ep2)
<1>1. \A t \in Threads, q \in Lists : On(t, q, st, qu, ar2) <=> On(t, q, st, qu, ar)
  BY Zenon DEF On, Listed
<1>2. Filed(ls, st, qu, ar2)
  BY <1>1, Zenon DEF Filed, Listed
<1>3. ASSUME NEW q \in Lists, Ordered(q) PROVE Descending(ls[q], ep2)
  <2>1. ls[q] \in Seq(Threads) /\ Descending(ls[q], ep)
    BY <1>3, Zenon DEF Sorted
  <2>2. \A t \in Range(ls[q]) : t \in Threads /\ Listed(st, t)
    BY <2>1, RangeFacts, Zenon DEF Filed, On, Listed
  <2> QED BY <2>1, <2>2, DescendingKeys, Zenon
<1> QED BY <1>2, <1>3, Zenon DEF Sorted
-----------------------------------------------------------------------------
(* The invariant *)

Running == \A t \in Threads : status[t] = "RUNNING" <=> cur = t

\* What donation needs to know of the threads it goes through: a holder is
\* READY, RUNNING or BLOCKED, the lock a thread waits for ranks above those it
\* holds, so the chain goes up from the lock the running thread acquires.
Chain ==
  \A t \in Threads :
    /\ donated_for[t] # NULL => pc[t] \in {"donate", "down"} /\ arg[t] = donated_for[t]
    /\ \A k \in Locks : holder[k] = t =>
         /\ status[t] \in {"READY", "RUNNING", "BLOCKED"}
         /\ donated_for[t] # NULL => Rank[k] < Rank[donated_for[t]]
    /\ pc[t] = "donate" => donated_for[t] # NULL /\ Rank[donated_for[t]] <= Rank[don.lock]

Lines == Filed(list, status, queue, arg) /\ Sorted(list, e_pri) /\ Running

LInv == IInv /\ Lines /\ Chain

\* The types of what the lists are about.
LEMMA ListTypes ==
  ASSUME IInv
  PROVE  /\ list \in [Lists -> Seq(Threads)] /\ status \in [Threads -> Statuses]
         /\ queue \in [Threads -> Lists \cup {NULL}] /\ e_pri \in [Threads -> Int]
         /\ pc \in [Threads -> Pcs] /\ arg \in [Threads -> Args]
         /\ donated_for \in [Threads -> MaybeLock] /\ value \in [AllSemas -> Nat]
         /\ holder \in [Locks -> MaybeThread]
<1>1. e_pri \in [Threads -> Int]
  BY LockTypes, Zenon
<1> QED BY <1>1, Zenon DEF IInv, TypeOK

\* The running thread is on no list.
LEMMA CurUnlisted ==
  ASSUME Lines, NEW t \in Threads, cur = t
  PROVE  status[t] = "RUNNING" /\ ~Listed(status, t)
BY Zenon DEF Lines, Running, Listed

\* A step of the running thread that touches no list, and no priority or
\* operand but its own.
LEMMA LinesQuiet ==
  ASSUME IInv, Lines, NEW t \in Threads, cur = t, UNCHANGED <<cur, status, queue, list>>,
         \A u \in Threads : u # t => arg'[u] = arg[u] /\ e_pri'[u] = e_pri[u]
  PROVE  Lines'
<1>1. \A u \in Threads : Listed(status, u) => arg'[u] = arg[u] /\ e_pri'[u] = e_pri[u]
  BY CurUnlisted, Zenon
<1>2. Filed(list, status, queue, arg') /\ Sorted(list, e_pri')
  <2>1. /\ list \in [Lists -> Seq(Threads)]
        /\ Filed(list, status, queue, arg) /\ Sorted(list, e_pri)
    BY ListTypes, Zenon DEF Lines
  <2> DEFINE a == arg'  e == e_pri'
  <2>2. \A u \in Threads : Listed(status, u) => a[u] = arg[u] /\ e[u] = e_pri[u]
    BY <1>1, Zenon
  <2> HIDE DEF a, e
  <2>3. Filed(list, status, queue, a) /\ Sorted(list, e)
    BY ONLY <2>1, <2>2, OthersFree
  <2> QED BY <2>3, Zenon DEF a, e
<1>3. Running'
  BY Zenon DEF Lines, Running
<1> QED BY <1>2, <1>3, Zenon DEF Lines

\* thread_yield(), and the yield at the end of an interrupt.
LEMMA LinesYield ==
  ASSUME IInv, Lines, NEW t \in Threads, cur = t, YieldBody(t),
         \A u \in Threads : u # t => arg'[u] = arg[u]
  PROVE  Lines'
<1> DEFINE ls == thread_enqueue(list, t, e_pri)  st == [status EXCEPT ![t] = "READY"]
<1>1. /\ list \in [Lists -> Seq(Threads)] /\ status \in [Threads -> Statuses]
      /\ queue \in [Threads -> Lists \cup {NULL}] /\ e_pri \in [Threads -> Int]
  BY ListTypes, Zenon
<1>2. ~Listed(status, t) /\ \A u \in Threads : status[u] = "RUNNING" => u = t
  BY CurUnlisted, Zenon DEF Lines, Running
<1>3. Filed(list, status, queue, arg') /\ Sorted(list, e_pri)
  <2>1. \A u \in Threads : Listed(status, u) => arg'[u] = arg[u] /\ e_pri[u] = e_pri[u]
    BY <1>2, Zenon
  <2> QED BY <1>1, <2>1, OthersFree, Zenon DEF Lines
<1>4. Filed(ls, st, queue', arg') /\ Sorted(ls, e_pri)
  BY <1>1, <1>2, <1>3, Enqueue, Zenon DEF YieldBody
<1>5. /\ ls \in [Lists -> Seq(Threads)] /\ st \in [Threads -> Statuses]
      /\ \A u \in Threads : st[u] # "RUNNING"
  BY <1>1, <1>2, EnqueueType, Zenon DEF Statuses
<1>6. schedule(ls, st) /\ e_pri' = e_pri
  BY Zenon DEF YieldBody, prios
<1> HIDE DEF ls, st
<1>7. /\ Filed(list', status', queue', arg') /\ Sorted(list', e_pri)
      /\ \A u \in Threads : status'[u] = "RUNNING" <=> cur' = u
  BY <1>4, <1>5, <1>6, Scheduled, Zenon
<1> QED BY <1>6, <1>7, Zenon DEF Lines, Running

\* thread_create() puts the new thread on the ready list.
LEMMA LinesCreate ==
  ASSUME IInv, Lines, NEW t \in Threads, NEW c \in Threads, NEW p \in Pri, thread_create(t, c, p)
  PROVE  Lines'
<1>1. /\ list \in [Lists -> Seq(Threads)] /\ status \in [Threads -> Statuses]
      /\ queue \in [Threads -> Lists \cup {NULL}] /\ e_pri \in [Threads -> Int]
      /\ arg \in [Threads -> Args]
  BY ListTypes, Zenon
<1>2. /\ cur = t /\ cur' = cur /\ status[c] = "NONE" /\ status' = [status EXCEPT ![c] = "READY"]
      /\ queue' = [queue EXCEPT ![c] = Ready] /\ e_pri' = [e_pri EXCEPT ![c] = p]
      /\ list' = thread_enqueue(list, c, e_pri') /\ arg' = [arg EXCEPT ![t] = p]
  BY Zenon DEF thread_create, At, Goto
<1>3. ~Listed(status, t) /\ ~Listed(status, c) /\ t # c
  BY <1>2, CurUnlisted, Zenon DEF Listed
<1>4. e_pri' \in [Threads -> Int]
  BY <1>1, <1>2, PriInt, Zenon
<1>5. \A u \in Threads : Listed(status, u) => arg'[u] = arg[u] /\ e_pri'[u] = e_pri[u]
  BY <1>1, <1>2, <1>3, Zenon
<1>6. Filed(list, status, queue, arg') /\ Sorted(list, e_pri')
  <2>1. Filed(list, status, queue, arg) /\ Sorted(list, e_pri)
    BY Zenon DEF Lines
  <2> DEFINE a == arg'  e == e_pri'
  <2>2. \A u \in Threads : Listed(status, u) => a[u] = arg[u] /\ e[u] = e_pri[u]
    BY <1>5, Zenon
  <2> HIDE DEF a, e
  <2>3. Filed(list, status, queue, a) /\ Sorted(list, e)
    <3>1. list \in [Lists -> Seq(Threads)]
      BY <1>1, Zenon
    <3> QED BY ONLY <3>1, <2>1, <2>2, OthersFree, SMTT(60)
  <2> QED BY <2>3, Zenon DEF a, e
<1>7. Filed(list', status', queue', arg') /\ Sorted(list', e_pri')
  BY <1>1, <1>2, <1>3, <1>4, <1>6, Enqueue, Zenon
<1>8. Running'
  BY <1>1, <1>2, <1>3, Zenon DEF Lines, Running
<1> QED BY <1>7, <1>8, Zenon DEF Lines

\* thread_exit() leaves the lists to the others.
LEMMA LinesExit ==
  ASSUME IInv, Lines, NEW t \in Threads, thread_exit(t)
  PROVE  Lines'
<1> DEFINE st == [status EXCEPT ![t] = "DYING"]
<1>1. /\ list \in [Lists -> Seq(Threads)] /\ status \in [Threads -> Statuses]
      /\ arg \in [Threads -> Args]
  BY ListTypes, Zenon
<1>2. /\ cur = t /\ schedule(list, st) /\ arg' = [arg EXCEPT ![t] = NULL]
      /\ UNCHANGED <<queue, e_pri>>
  BY Zenon DEF thread_exit, At, Goto, prios
<1>3. ~Listed(status, t) /\ \A u \in Threads : status[u] = "RUNNING" => u = t
  BY <1>2, CurUnlisted, Zenon DEF Lines, Running
<1>4. /\ st \in [Threads -> Statuses] /\ st[t] = "DYING"
      /\ \A u \in Threads : u # t => st[u] = status[u] /\ arg'[u] = arg[u]
  BY <1>1, <1>2, Zenon DEF Statuses
<1> HIDE DEF st
<1>5. \A u \in Threads, q \in Lists : On(u, q, st, queue, arg') <=> On(u, q, status, queue, arg)
  BY <1>3, <1>4, Zenon DEF On, Listed
<1>6. Filed(list, st, queue, arg')
  BY <1>3, <1>4, <1>5, Zenon DEF Lines, Filed
<1>7. /\ Filed(list', status', queue, arg') /\ Sorted(list', e_pri)
      /\ \A u \in Threads : status'[u] = "RUNNING" <=> cur' = u
  <2>1. \A u \in Threads : st[u] # "RUNNING"
    BY <1>3, <1>4, Zenon
  <2> QED BY <1>1, <1>2, <1>4, <1>6, <2>1, Scheduled, Zenon DEF Lines
<1> QED BY <1>2, <1>7, Zenon DEF Lines, Running

\* sema_down() of a thread that blocks.
LEMMA LinesBlock ==
  ASSUME IInv, Lines, NEW t \in Threads, sema_down_block(t)
  PROVE  Lines'
<1> DEFINE ls == [list EXCEPT ![arg[t]] = InsertThread(list[arg[t]], t, e_pri)]
           st == [status EXCEPT ![t] = "BLOCKED"]
<1>1. /\ list \in [Lists -> Seq(Threads)] /\ status \in [Threads -> Statuses]
      /\ queue \in [Threads -> Lists \cup {NULL}] /\ e_pri \in [Threads -> Int]
  BY ListTypes, Zenon
<1>2. /\ cur = t /\ arg[t] \in AllSemas /\ arg[t] \in Lists
  BY Zenon DEF sema_down_block, At, IInv, LockProtocol, Lists
<1>3. schedule(ls, st) /\ queue' = [queue EXCEPT ![t] = arg[t]] /\ UNCHANGED <<e_pri, arg>>
  BY Zenon DEF sema_down_block, prios
<1>4. ~Listed(status, t) /\ \A u \in Threads : status[u] = "RUNNING" => u = t
  BY <1>2, CurUnlisted, Zenon DEF Lines, Running
<1>5. Filed(ls, st, queue', arg) /\ Sorted(ls, e_pri)
  BY <1>1, <1>2, <1>3, <1>4, Block, Zenon DEF Lines
<1>6. /\ ls \in [Lists -> Seq(Threads)] /\ st \in [Threads -> Statuses]
      /\ \A u \in Threads : st[u] # "RUNNING"
  BY <1>1, <1>2, <1>4, InsertThreadFacts, Zenon DEF Statuses
<1> HIDE DEF ls, st
<1>7. /\ Filed(list', status', queue', arg) /\ Sorted(list', e_pri)
      /\ \A u \in Threads : status'[u] = "RUNNING" <=> cur' = u
  BY <1>3, <1>5, <1>6, Scheduled, Zenon
<1> QED BY <1>3, <1>7, Zenon DEF Lines, Running

\* sema_up() moves its first waiter to the ready list.
LEMMA LinesUp ==
  ASSUME IInv, Lines, NEW s \in AllSemas, UpBody(s),
         \A u \in Threads : cur # u => arg'[u] = arg[u]
  PROVE  Lines'
<1>1. /\ list \in [Lists -> Seq(Threads)] /\ status \in [Threads -> Statuses]
      /\ queue \in [Threads -> Lists \cup {NULL}] /\ e_pri \in [Threads -> Int]
      /\ s \in Lists
  BY ListTypes, Zenon DEF Lists
<1>2. UNCHANGED <<cur, e_pri>>
  BY Zenon DEF UpBody, prios
<1>3. Filed(list, status, queue, arg') /\ Sorted(list, e_pri)
  <2>1. \A u \in Threads : Listed(status, u) => arg'[u] = arg[u] /\ e_pri[u] = e_pri[u]
    BY CurUnlisted, Zenon
  <2> QED BY <1>1, <2>1, OthersFree, Zenon DEF Lines
<1>4. CASE list[s] = <<>>
  BY <1>2, <1>3, <1>4, Zenon DEF UpBody, Lines, Running
<1>5. CASE list[s] # <<>>
  <2> DEFINE w == Head(list[s])  ls == [list EXCEPT ![s] = list_pop_front(list[s])]
             st == [status EXCEPT ![w] = "RUNNING"]
  <2>1. /\ list' = thread_enqueue(ls, w, e_pri) /\ queue' = [queue EXCEPT ![w] = Ready]
        /\ status' = [status EXCEPT ![w] = "READY"]
    BY <1>5, Zenon DEF UpBody
  <2>2. /\ w \in Threads /\ On(w, s, status, queue, arg') /\ ls \in [Lists -> Seq(Threads)]
        /\ Filed(ls, st, queue, arg') /\ Sorted(ls, e_pri)
    BY <1>1, <1>3, <1>5, Unlinked, Zenon
  <2>3. /\ st \in [Threads -> Statuses] /\ ~Listed(st, w)
        /\ [st EXCEPT ![w] = "READY"] = status'
    BY <1>1, <2>1, <2>2, Zenon DEF Statuses, Listed
  <2>4. status[w] = "BLOCKED"
    BY <2>2, SynchAssumption, Zenon DEF On
  <2> HIDE DEF w, ls, st
  <2>5. Filed(list', status', queue', arg') /\ Sorted(list', e_pri)
    <3> DEFINE a == arg'
    <3>1. Filed(ls, st, queue, a)
      BY <2>2, Zenon
    <3> HIDE DEF a
    <3>2. /\ Filed(thread_enqueue(ls, w, e_pri), [st EXCEPT ![w] = "READY"],
                   [queue EXCEPT ![w] = Ready], a)
          /\ Sorted(thread_enqueue(ls, w, e_pri), e_pri)
      BY ONLY <1>1, <2>2, <2>3, <3>1, Enqueue, Zenon
    <3> QED BY <2>1, <2>3, <3>2, Zenon DEF a
  <2>6. Running'
    BY <1>1, <1>2, <2>1, <2>2, <2>4, Zenon DEF Lines, Running
  <2> QED BY <1>2, <2>5, <2>6, Zenon DEF Lines
<1> QED BY <1>4, <1>5, Zenon

\* The thread that donate_pri_acquire() raises is on a list, since it holds a
\* lock and is not the running thread: ranks ascend along the chain.
LEMMA DoneeListed ==
  ASSUME LInv, NEW t \in Threads, At(t, "donate"), don.donee # NULL
  PROVE  don.donee \in Threads /\ don.lock \in Locks /\ holder[don.lock] = don.donee
         /\ Listed(status, don.donee)
<1>1. cur = t /\ pc[t] = "donate" /\ don.lock \in Locks /\ don.donee = holder[don.lock]
  BY Zenon DEF At, LInv, IInv, LockProtocol
<1>2. don.donee \in Threads
  BY <1>1, ListTypes, Zenon DEF LInv, MaybeThread
<1>3. status[don.donee] \in {"READY", "RUNNING", "BLOCKED"}
  BY <1>1, <1>2, Zenon DEF LInv, Chain
<1>4. don.donee # t
  <2>1. donated_for[t] \in Locks /\ Rank[donated_for[t]] <= Rank[don.lock]
    BY <1>1, ListTypes, Zenon DEF LInv, Chain, MaybeLock
  <2>2. holder[don.lock] = t => Rank[don.lock] < Rank[donated_for[t]]
    BY <1>1, <2>1, ListTypes, SynchAssumption, Zenon DEF LInv, Chain, AllSemas
  <2>3. Rank[don.lock] \in Nat /\ Rank[donated_for[t]] \in Nat
    BY <1>1, <2>1, SynchAssumption, Zenon
  <2> QED BY <1>1, <2>1, <2>2, <2>3
<1>5. status[don.donee] # "RUNNING"
  BY <1>1, <1>2, <1>4, Zenon DEF LInv, Lines, Running
<1> QED BY <1>1, <1>2, <1>3, <1>5, Zenon DEF Listed

\* Putting thread w, which is on a list and whose priority has changed, in its
\* new place on that list.
LEMMA Refile ==
  ASSUME NEW ls \in [Lists -> Seq(Threads)], NEW st, NEW qu, NEW ar,
         NEW ep \in [Threads -> Int], NEW ep2 \in [Threads -> Int],
         Filed(ls, st, qu, ar), Sorted(ls, ep), NEW w \in Threads, Listed(st, w),
         \A t \in Threads : t # w => ep2[t] = ep[t]
  PROVE  LET ls2 == [ls EXCEPT ![qu[w]] = InsertThread(list_remove(ls[qu[w]], w), w, ep2)] IN
         Filed(ls2, st, qu, ar) /\ Sorted(ls2, ep2)
<1> DEFINE q == qu[w]  rest == list_remove(ls[q], w)  r == InsertThread(rest, w, ep2)
           ls2 == [ls EXCEPT ![q] = r]
<1>1. q \in Lists /\ w \in Range(ls[q])
  BY ListedIsOn, Zenon
<1>2. ls[q] \in Seq(Threads) /\ IsInjective(ls[q]) /\ (Ordered(q) => Descending(ls[q], ep))
  BY <1>1, Zenon DEF Filed, Sorted
<1> HIDE DEF q
<1>3. /\ rest \in Seq(Threads) /\ IsInjective(rest) /\ Range(rest) = Range(ls[q]) \ {w}
      /\ Ordered(q) => Descending(rest, ep)
  BY <1>2, RemoveElems, Zenon
<1> HIDE DEF rest
<1>4. Ordered(q) => Descending(rest, ep2)
  <2>1. \A x \in Range(rest) : ep2[x] = ep[x]
    BY <1>3, RangeFacts, Zenon
  <2> QED BY <1>3, <2>1, DescendingKeys, Zenon
<1>5. /\ r \in Seq(Threads) /\ Range(r) = Range(ls[q]) /\ IsInjective(r)
      /\ Ordered(q) => Descending(r, ep2)
  <2>1. Range(r) = Range(rest) \cup {w} /\ r \in Seq(Threads) /\ IsInjective(r)
    BY <1>3, InsertThreadFacts, Zenon
  <2>2. Ordered(q) => Descending(r, ep2)
    BY <1>3, <1>4, InsertThreadSorted, Zenon
  <2> QED BY <1>1, <1>3, <2>1, <2>2, Zenon
<1> HIDE DEF r
<1>6. ls2[q] = r /\ \A p \in Lists : p # q => ls2[p] = ls[p]
  BY <1>1, Zenon
<1> HIDE DEF ls2
<1>7. \A p \in Lists : Range(ls2[p]) = Range(ls[p]) /\ IsInjective(ls2[p])
  BY <1>5, <1>6, Zenon DEF Filed
<1>8. Filed(ls2, st, qu, ar)
  BY <1>7, Zenon DEF Filed
<1>9. ASSUME NEW p \in Lists, Ordered(p) PROVE Descending(ls2[p], ep2)
  <2>1. CASE p = q
    BY <1>5, <1>6, <1>9, <2>1, Zenon
  <2>2. CASE p # q
    <3>1. ls[p] \in Seq(Threads) /\ Descending(ls[p], ep) /\ ls2[p] = ls[p]
      BY <1>6, <1>9, <2>2, Zenon DEF Sorted
    <3>2. w \notin Range(ls[p])
      BY <2>2, Zenon DEF Filed, On, q
    <3>3. \A x \in Range(ls[p]) : ep2[x] = ep[x]
      BY <3>1, <3>2, RangeFacts, Zenon
    <3> QED BY <3>1, <3>3, DescendingKeys, Zenon
  <2> QED BY <2>1, <2>2, Zenon
<1> QED BY <1>8, <1>9, Zenon DEF Sorted, ls2, r, rest, q

\* donate_pri_acquire() re-inserts the donee into the list it is on.
LEMMA LinesDonate ==
  ASSUME LInv, IInv', NEW t \in Threads, donate_pri_acquire(t)
  PROVE  Lines'
<1> DEFINE w == don.donee  p == e_pri[don.donor]
<1>1. At(t, "donate") /\ w # NULL /\ cur = t /\ UNCHANGED <<cur, status, queue, arg>>
  BY Zenon DEF donate_pri_acquire, At
<1>2. w \in Threads /\ Listed(status, w)
  BY <1>1, DoneeListed, Zenon
<1>3. IInv /\ Lines
  BY Zenon DEF LInv
<1>4. CASE UNCHANGED <<e_pri, list>>
  BY <1>1, <1>3, <1>4, LinesQuiet, Zenon
<1>5. CASE e_pri' = [e_pri EXCEPT ![w] = p] /\ RefileThread(w)
  <2>1. /\ list \in [Lists -> Seq(Threads)] /\ e_pri \in [Threads -> Int]
        /\ Filed(list, status, queue, arg) /\ Sorted(list, e_pri)
    BY <1>3, ListTypes, Zenon DEF Lines
  <2>2. e_pri' \in [Threads -> Int]
    <3>1. e_pri' \in [Threads -> Pri]
      BY Zenon DEF IInv, TypeOK
    <3> QED BY <3>1, PriInt, Zenon
  <2>3. \A u \in Threads : u # w => e_pri'[u] = e_pri[u]
    BY <1>5, <2>1, Zenon
  <2>4. queue[w] # NULL
    <3>1. queue[w] \in Lists
      BY <1>2, <2>1, ListedIsOn, Zenon
    <3> QED BY <3>1, SynchAssumption, Zenon DEF Lists
  <2>5. list' = [list EXCEPT ![queue[w]] = InsertThread(list_remove(list[queue[w]], w), w, e_pri')]
    BY <1>5, <2>4, Zenon DEF RefileThread
  <2> DEFINE e == e_pri'
  <2>6. e \in [Threads -> Int] /\ \A u \in Threads : u # w => e[u] = e_pri[u]
    BY <2>2, <2>3, Zenon
  <2> HIDE DEF e, w
  <2>7. LET ls2 == [list EXCEPT ![queue[w]] = InsertThread(list_remove(list[queue[w]], w), w, e)] IN
        Filed(ls2, status, queue, arg) /\ Sorted(ls2, e)
    BY ONLY <1>2, <2>1, <2>6, Refile, Zenon
  <2>8. Filed(list', status, queue, arg) /\ Sorted(list', e_pri')
    BY <2>5, <2>7, Zenon DEF e
  <2>9. Running'
    BY <1>1, <1>3, Zenon DEF Lines, Running
  <2> QED BY <1>1, <2>8, <2>9, Zenon DEF Lines
<1> QED BY <1>4, <1>5, Zenon DEF donate_pri_acquire
-----------------------------------------------------------------------------
(* The chain of waiting holders *)

Live == {"READY", "RUNNING", "BLOCKED"}

\* Thread u stays where it is or is at no point of lock_acquire().
Aside(u) == (pc'[u] = pc[u] /\ arg'[u] = arg[u]) \/ (donated_for[u] = NULL /\ pc'[u] # "donate")

\* Thread u keeps its status, lives on, or holds no lock.
Stays(u) == status'[u] = status[u] \/ status'[u] \in Live \/ \A k \in Locks : holder[k] # u

\* Steps that are no part of lock_acquire().
LEMMA ChainFrame ==
  ASSUME LInv, UNCHANGED <<donated_for, don>>, \A u \in Threads : Aside(u) /\ Stays(u),
         \A k \in Locks : holder'[k] = holder[k] \/ holder'[k] = NULL
  PROVE  Chain'
<1>1. NULL \notin Threads
  BY SynchAssumption, Zenon
<1> QED BY <1>1 DEF LInv, Chain, Aside, Stays, Live

\* A thread outside lock_acquire() waits for no lock.
LEMMA NotAcquiring ==
  ASSUME LInv, NEW t \in Threads,
         pc[t] \notin {"donate", "down"} \/ (pc[t] = "down" /\ arg[t] \in Semas)
  PROVE  donated_for[t] = NULL
<1>1. donated_for[t] \in Locks \cup {NULL}
  BY ListTypes, Zenon DEF LInv, MaybeLock
<1> QED BY <1>1, SynchAssumption, Zenon DEF LInv, Chain

\* schedule() changes no status except to running.
LEMMA ScheduleStatus ==
  ASSUME NEW ls, NEW st \in [Threads -> Statuses], schedule(ls, st)
  PROVE  \A u \in Threads : status'[u] = st[u] \/ status'[u] = "RUNNING"
BY Zenon DEF schedule

\* thread_yield() ends or blocks nobody.
LEMMA YieldStays ==
  ASSUME LInv, NEW t \in Threads, YieldBody(t)
  PROVE  \A u \in Threads : Stays(u)
<1>1. [status EXCEPT ![t] = "READY"] \in [Threads -> Statuses] /\ status \in [Threads -> Statuses]
  BY ListTypes, Zenon DEF LInv, Statuses
<1>2. \A u \in Threads : status'[u] = [status EXCEPT ![t] = "READY"][u] \/ status'[u] = "RUNNING"
  BY <1>1, ScheduleStatus, Zenon DEF YieldBody
<1> QED BY <1>1, <1>2, Zenon DEF Stays, Live

\* sema_up() ends or blocks nobody.
LEMMA UpStays ==
  ASSUME LInv, NEW s \in AllSemas, UpBody(s)
  PROVE  \A u \in Threads : Stays(u)
<1>1. status \in [Threads -> Statuses]
  BY ListTypes, Zenon DEF LInv
<1>2. UNCHANGED status \/ status' = [status EXCEPT ![Head(list[s])] = "READY"]
  BY Zenon DEF UpBody
<1> QED BY <1>1, <1>2, Zenon DEF Stays, Live

\* lock_acquire(): the lock ranks above those the thread holds.
LEMMA ChainAcquire ==
  ASSUME LInv, NEW t \in Threads, NEW l \in Locks, lock_acquire(t, l)
  PROVE  Chain'
<1>1. /\ cur = t /\ pc[t] = "run" /\ donated_for' = [donated_for EXCEPT ![t] = l]
      /\ UNCHANGED <<cur, status, holder>>
      /\ \/ Goto(t, "donate", l) /\ don'.lock = l
         \/ Goto(t, "down", l) /\ UNCHANGED don
  BY DEF lock_acquire, At
<1>2. /\ donated_for \in [Threads -> MaybeLock] /\ pc \in [Threads -> Pcs]
      /\ arg \in [Threads -> Args]
  BY ListTypes, Zenon DEF LInv
<1>3. \A k \in Locks : holder[k] = t => Rank[k] < Rank[l]
  <2>1. \A k \in Locks : holder[k] = t <=> k \in Range(lock_queue[t])
    BY LockFacts, Zenon DEF LInv
  <2> QED BY <2>1, Zenon DEF lock_acquire, MayAcquire
<1>4. Rank[l] \in Nat
  BY SynchAssumption, Zenon
<1>5. \A u \in Threads : u # t => pc[u] # "donate"
  BY <1>1, LockFacts, Zenon DEF LInv
<1>6. /\ donated_for'[t] = l /\ pc'[t] \in {"donate", "down"} /\ arg'[t] = l
      /\ pc'[t] = "donate" => don'.lock = l
      /\ \A u \in Threads : u # t => /\ donated_for'[u] = donated_for[u]
                                     /\ pc'[u] = pc[u] /\ arg'[u] = arg[u]
  BY <1>1, <1>2, Zenon DEF Goto
<1>7. l # NULL
  BY SynchAssumption, Zenon DEF AllSemas
<1>8. ASSUME NEW u \in Threads
      PROVE  /\ donated_for[u] # NULL => pc[u] \in {"donate", "down"} /\ arg[u] = donated_for[u]
             /\ \A k \in Locks : holder[k] = u =>
                  /\ status[u] \in {"READY", "RUNNING", "BLOCKED"}
                  /\ donated_for[u] # NULL => Rank[k] < Rank[donated_for[u]]
  BY Zenon DEF LInv, Chain
<1>9. ASSUME NEW u \in Threads
      PROVE  /\ donated_for'[u] # NULL => pc'[u] \in {"donate", "down"} /\ arg'[u] = donated_for'[u]
             /\ \A k \in Locks : holder'[k] = u =>
                  /\ status'[u] \in {"READY", "RUNNING", "BLOCKED"}
                  /\ donated_for'[u] # NULL => Rank[k] < Rank[donated_for'[u]]
             /\ pc'[u] = "donate" => donated_for'[u] # NULL /\ Rank[donated_for'[u]] <= Rank[don'.lock]
  <2>1. UNCHANGED <<status, holder>>
    BY <1>1, Zenon
  <2>2. CASE u = t
    <3>1. \A k \in Locks : holder[k] = t => status[t] \in {"READY", "RUNNING", "BLOCKED"}
      BY <1>8, Zenon
    <3> QED BY ONLY <1>3, <1>4, <1>6, <1>7, <2>1, <2>2, <3>1
  <2>3. CASE u # t
    BY ONLY u \in Threads, <1>5, <1>6, <1>8, <2>1, <2>3, Zenon
  <2> QED BY <2>2, <2>3, Zenon
<1> QED BY <1>9, Zenon DEF Chain

\* The end of donation.
LEMMA ChainEnds ==
  ASSUME LInv, NEW t \in Threads, At(t, "donate"), DonationEnds(t),
         UNCHANGED <<status, donated_for, holder, arg>>
  PROVE  Chain'
<1>1. pc \in [Threads -> Pcs] /\ cur = t /\ \A u \in Threads : u # t => pc[u] # "donate"
  BY ListTypes, LockFacts, Zenon DEF LInv, At
<1>2. pc'[t] = "down" /\ \A u \in Threads : u # t => pc'[u] = pc[u]
  BY <1>1, Zenon DEF DonationEnds
<1>3. pc[t] = "donate"
  BY Zenon DEF At
<1> QED BY <1>1, <1>2, <1>3, Zenon DEF LInv, Chain

\* A round of donate_pri_acquire() goes up the ranks.
LEMMA ChainDonate ==
  ASSUME LInv, NEW t \in Threads, donate_pri_acquire(t)
  PROVE  Chain'
<1> DEFINE w == don.donee
<1>1. /\ At(t, "donate") /\ w # NULL /\ cur = t /\ pc[t] = "donate"
      /\ UNCHANGED <<status, donated_for, holder, arg>>
  BY Zenon DEF donate_pri_acquire, At
<1>2. CASE DonationEnds(t)
  BY <1>1, <1>2, ChainEnds, Zenon
<1>3. CASE UNCHANGED pc /\ donated_for[w] # NULL /\ don'.lock = donated_for[w]
  <2>1. w \in Threads /\ don.lock \in Locks /\ holder[don.lock] = w
    BY <1>1, DoneeListed, Zenon
  <2>2. Rank[don.lock] < Rank[donated_for[w]]
    BY <1>3, <2>1, Zenon DEF LInv, Chain
  <2>3. donated_for[t] # NULL /\ Rank[donated_for[t]] <= Rank[don.lock]
    BY <1>1, Zenon DEF LInv, Chain
  <2>4. donated_for[t] \in Locks /\ donated_for[w] \in Locks
    BY <1>3, <2>1, <2>3, ListTypes, Zenon DEF LInv, MaybeLock
  <2>5. Rank[don.lock] \in Nat /\ Rank[donated_for[t]] \in Nat /\ Rank[donated_for[w]] \in Nat
    BY <2>1, <2>4, SynchAssumption, Zenon
  <2>6. Rank[donated_for[t]] <= Rank[don'.lock]
    BY <1>3, <2>2, <2>3, <2>5
  <2>7. \A u \in Threads : pc[u] = "donate" => u = t
    BY <1>1, LockFacts, Zenon DEF LInv
  <2> QED BY <1>1, <1>3, <2>6, <2>7, Zenon DEF LInv, Chain
<1>4. DonationEnds(t) \/ (UNCHANGED pc /\ donated_for[w] # NULL /\ don'.lock = donated_for[w])
  BY SMTT(60) DEF donate_pri_acquire
<1> QED BY <1>2, <1>3, <1>4, Zenon

\* A lock is taken by the running thread, which then waits for none.
LEMMA ChainTake ==
  ASSUME LInv, NEW t \in Threads, cur = t, NEW l \in Locks, TakeLock(t, l), donated_for'[t] = NULL,
         \A u \in Threads : u # t => /\ donated_for'[u] = donated_for[u]
                                     /\ pc'[u] = pc[u] /\ arg'[u] = arg[u],
         pc'[t] # "donate"
  PROVE  Chain'
<1>1. /\ holder \in [Locks -> MaybeThread] /\ holder' = [holder EXCEPT ![l] = t]
      /\ UNCHANGED <<status, don>>
  BY ListTypes, Zenon DEF LInv, TakeLock
<1>2. holder'[l] = t /\ \A k \in Locks : k # l => holder'[k] = holder[k]
  BY <1>1, Zenon
<1>3. status[t] = "RUNNING"
  BY CurUnlisted, Zenon DEF LInv
<1>4. ASSUME NEW u \in Threads
      PROVE  /\ donated_for[u] # NULL => pc[u] \in {"donate", "down"} /\ arg[u] = donated_for[u]
             /\ \A k \in Locks : holder[k] = u =>
                  /\ status[u] \in {"READY", "RUNNING", "BLOCKED"}
                  /\ donated_for[u] # NULL => Rank[k] < Rank[donated_for[u]]
             /\ pc[u] = "donate" => donated_for[u] # NULL /\ Rank[donated_for[u]] <= Rank[don.lock]
  BY Zenon DEF LInv, Chain
<1>5. ASSUME NEW u \in Threads
      PROVE  /\ donated_for'[u] # NULL => pc'[u] \in {"donate", "down"} /\ arg'[u] = donated_for'[u]
             /\ \A k \in Locks : holder'[k] = u =>
                  /\ status'[u] \in {"READY", "RUNNING", "BLOCKED"}
                  /\ donated_for'[u] # NULL => Rank[k] < Rank[donated_for'[u]]
             /\ pc'[u] = "donate" => donated_for'[u] # NULL /\ Rank[donated_for'[u]] <= Rank[don'.lock]
  <2>1. UNCHANGED <<status, don>>
    BY <1>1, Zenon
  <2>2. CASE u = t
    BY <1>3, <2>1, <2>2, Zenon
  <2>3. CASE u # t
    <3>1. /\ donated_for'[u] = donated_for[u] /\ pc'[u] = pc[u] /\ arg'[u] = arg[u]
          /\ \A k \in Locks : holder'[k] = u => holder[k] = u
      BY <1>2, <2>3, Zenon
    <3> QED BY ONLY u \in Threads, <1>4, <2>1, <3>1, Zenon
  <2> QED BY <2>2, <2>3, Zenon
<1> QED BY <1>5, Zenon DEF Chain
-----------------------------------------------------------------------------
(* Every step *)

\* A step that touches no list, and no priority, operand or program point but
\* those of the running thread t.
Quiet(t) ==
  /\ cur = t /\ UNCHANGED <<cur, status, queue, list>>
  /\ \A u \in Threads : u # t => arg'[u] = arg[u] /\ e_pri'[u] = e_pri[u] /\ pc'[u] = pc[u]

QuietStep(t) ==
  \/ thread_create_check(t) \/ sema_up_check(t) \/ sema_down_take(t) \/ lock_acquire_take(t)
  \/ donate_panic(t) \/ donate_stop(t)
  \/ \E p \in SetPri : thread_set_priority(t, p)
  \/ \E s \in Semas : sema_down(t, s) \/ sema_try_down(t, s)
  \/ \E l \in Locks : lock_acquire(t, l) \/ lock_try_acquire(t, l) \/ lock_release(t, l)

\* What the steps that move no thread between lists leave alone.
LEMMA QuietSteps ==
  ASSUME LInv, NEW t \in Threads, QuietStep(t)
  PROVE  Quiet(t)
<1> USE DEF Quiet, At, Goto, prios
<1>1. /\ arg \in [Threads -> Args] /\ pc \in [Threads -> Pcs] /\ e_pri \in [Threads -> Int]
  BY ListTypes, Zenon DEF LInv
<1>2. ASSUME thread_create_check(t) \/ sema_up_check(t) \/ sema_down_take(t) \/ donate_panic(t)
      PROVE  Quiet(t)
  BY <1>1, <1>2, Zenon DEF thread_create_check, sema_up_check, sema_down_take, donate_panic
<1>3. ASSUME lock_acquire_take(t) \/ donate_stop(t) PROVE Quiet(t)
  BY <1>1, <1>3, Zenon DEF lock_acquire_take, TakeLock, donate_stop, DonationEnds
<1>4. ASSUME NEW p \in SetPri, thread_set_priority(t, p) PROVE Quiet(t)
  BY <1>1, <1>4, Zenon DEF thread_set_priority
<1>5. ASSUME NEW s \in Semas, sema_down(t, s) \/ sema_try_down(t, s) PROVE Quiet(t)
  BY <1>1, <1>5, Zenon DEF sema_down, sema_try_down
<1>6. ASSUME NEW l \in Locks, lock_acquire(t, l) PROVE Quiet(t)
  BY <1>1, <1>6, Zenon DEF lock_acquire
<1>7. ASSUME NEW l \in Locks, lock_try_acquire(t, l) PROVE Quiet(t)
  BY <1>1, <1>7, Zenon DEF lock_try_acquire, TakeLock
<1>8. ASSUME NEW l \in Locks, lock_release(t, l) PROVE Quiet(t)
  BY <1>1, <1>8, Zenon DEF lock_release
<1> HIDE DEF Quiet, At, Goto, prios
<1> QED BY <1>2, <1>3, <1>4, <1>5, <1>6, <1>7, <1>8, Zenon DEF QuietStep

\* Steps that move no thread between lists keep them right.
LEMMA QuietInv ==
  ASSUME LInv, NEW t \in Threads, QuietStep(t)
  PROVE  Lines' /\ Chain'
<1>1. Quiet(t)
  BY QuietSteps, Zenon
<1>2. Lines'
  BY <1>1, LinesQuiet, Zenon DEF Quiet, LInv
<1>3. /\ arg \in [Threads -> Args] /\ pc \in [Threads -> Pcs]
      /\ donated_for \in [Threads -> MaybeLock] /\ holder \in [Locks -> MaybeThread]
  BY ListTypes, Zenon DEF LInv
<1>4. \A u \in Threads : Stays(u) /\ (u # t => Aside(u))
  BY <1>1, Zenon DEF Quiet, Stays, Aside
<1>5. ASSUME thread_create_check(t) \/ sema_up_check(t) \/ sema_down_take(t) PROVE Chain'
  <2>1. donated_for[t] = NULL
    BY <1>5, NotAcquiring, Zenon DEF thread_create_check, sema_up_check, sema_down_take, At
  <2>2. /\ pc'[t] \in {"run", "yield"} /\ UNCHANGED <<donated_for, don, holder>>
    BY <1>3, <1>5, Zenon DEF thread_create_check, sema_up_check, sema_down_take, Goto, locks
  <2> QED BY <1>4, <2>1, <2>2, ChainFrame, Zenon DEF Aside
<1>6. ASSUME donate_panic(t) PROVE Chain'
  <2>1. UNCHANGED <<donated_for, don, holder, pc, arg>>
    BY <1>6, Zenon DEF donate_panic, locks
  <2> QED BY <1>4, <2>1, ChainFrame, Zenon DEF Aside
<1>7. ASSUME lock_acquire_take(t) PROVE Chain'
  <2>1. /\ cur = t /\ arg[t] \in Locks /\ TakeLock(t, arg[t]) /\ Goto(t, "run", NULL)
        /\ donated_for' = [donated_for EXCEPT ![t] = NULL]
    BY <1>7, Zenon DEF lock_acquire_take, At
  <2>2. /\ donated_for'[t] = NULL /\ pc'[t] = "run"
        /\ \A u \in Threads : u # t => /\ donated_for'[u] = donated_for[u]
                                       /\ pc'[u] = pc[u] /\ arg'[u] = arg[u]
    BY <1>3, <2>1, Zenon DEF Goto
  <2> QED BY <2>1, <2>2, ChainTake, Zenon
<1>8. ASSUME donate_stop(t) PROVE Chain'
  BY <1>8, ChainEnds, Zenon DEF donate_stop
<1>9. ASSUME NEW p \in SetPri, thread_set_priority(t, p) PROVE Chain'
  <2>1. donated_for[t] = NULL
    BY <1>9, NotAcquiring, Zenon DEF thread_set_priority, At
  <2>2. /\ pc'[t] \in {"run", "yield"} /\ UNCHANGED <<donated_for, don, holder>>
    BY <1>3, <1>9, Zenon DEF thread_set_priority, Goto, locks
  <2> QED BY <1>4, <2>1, <2>2, ChainFrame, Zenon DEF Aside
<1>10. ASSUME NEW s \in Semas, sema_down(t, s) \/ sema_try_down(t, s) PROVE Chain'
  <2>1. donated_for[t] = NULL
    BY <1>10, NotAcquiring, Zenon DEF sema_down, sema_try_down, At
  <2>2. /\ pc'[t] \in {"run", "down"} /\ UNCHANGED <<donated_for, don, holder>>
    BY <1>3, <1>10, Zenon DEF sema_down, sema_try_down, Goto, locks, At
  <2> QED BY <1>4, <2>1, <2>2, ChainFrame, Zenon DEF Aside
<1>11. ASSUME NEW l \in Locks, lock_acquire(t, l) PROVE Chain'
  BY <1>11, ChainAcquire, Zenon
<1>12. ASSUME NEW l \in Locks, lock_try_acquire(t, l) PROVE Chain'
  <2>1. /\ cur = t /\ pc[t] = "run" /\ TakeLock(t, l) /\ UNCHANGED <<donated_for, pc, arg>>
    BY <1>12, Zenon DEF lock_try_acquire, At
  <2>2. donated_for[t] = NULL
    BY <2>1, NotAcquiring, Zenon
  <2> QED BY <2>1, <2>2, ChainTake, Zenon
<1>13. ASSUME NEW l \in Locks, lock_release(t, l) PROVE Chain'
  <2>1. donated_for[t] = NULL
    BY <1>13, NotAcquiring, Zenon DEF lock_release, At
  <2>2. /\ pc'[t] = "rel_up" /\ UNCHANGED <<donated_for, don>>
        /\ \A k \in Locks : holder'[k] = holder[k] \/ holder'[k] = NULL
    BY <1>3, <1>13, Zenon DEF lock_release, Goto
  <2> QED BY <1>4, <2>1, <2>2, ChainFrame, Zenon DEF Aside
<1> QED BY <1>2, <1>5, <1>6, <1>7, <1>8, <1>9, <1>10, <1>11, <1>12, <1>13, Zenon DEF QuietStep

\* So does each step that moves one.
LEMMA MovingInv ==
  ASSUME LInv, IInv', NEW t \in Threads,
         (Step(t) \/ Call(t) \/ timer_yield(t)) /\ ~QuietStep(t)
  PROVE  Lines' /\ Chain'
<1>1. /\ arg \in [Threads -> Args] /\ pc \in [Threads -> Pcs]
      /\ status \in [Threads -> Statuses] /\ IInv /\ Lines
  BY ListTypes, Zenon DEF LInv
<1>2. ASSUME thread_yield(t) PROVE Lines' /\ Chain'
  <2>1. cur = t /\ YieldBody(t) /\ Goto(t, "run", NULL) /\ donated_for[t] = NULL
    BY <1>2, NotAcquiring, Zenon DEF thread_yield, At
  <2>2. /\ \A u \in Threads : u # t => arg'[u] = arg[u] /\ pc'[u] = pc[u]
        /\ pc'[t] = "run"
    BY <1>1, <2>1, Zenon DEF Goto
  <2>3. Lines'
    BY <1>1, <2>1, <2>2, LinesYield, Zenon
  <2>4. \A u \in Threads : Aside(u) /\ Stays(u)
    BY <2>1, <2>2, YieldStays, Zenon DEF Aside
  <2>5. Chain'
    BY <2>1, <2>4, ChainFrame, Zenon DEF YieldBody, locks
  <2> QED BY <2>3, <2>5, Zenon
<1>3. ASSUME timer_yield(t) PROVE Lines' /\ Chain'
  <2>1. cur = t /\ YieldBody(t) /\ UNCHANGED <<pc, arg>>
    BY <1>3, Zenon DEF timer_yield
  <2>2. Lines'
    BY <1>1, <2>1, LinesYield, Zenon
  <2>3. \A u \in Threads : Aside(u) /\ Stays(u)
    BY <2>1, YieldStays, Zenon DEF Aside
  <2>4. Chain'
    BY <2>1, <2>3, ChainFrame, Zenon DEF YieldBody, locks
  <2> QED BY <2>2, <2>4, Zenon
<1>4. ASSUME sema_down_block(t) PROVE Lines' /\ Chain'
  <2>1. [status EXCEPT ![t] = "BLOCKED"] \in [Threads -> Statuses]
    BY <1>1, Zenon DEF Statuses
  <2>2. \A u \in Threads : status'[u] = [status EXCEPT ![t] = "BLOCKED"][u] \/ status'[u] = "RUNNING"
    BY <1>4, <2>1, ScheduleStatus, Zenon DEF sema_down_block
  <2>3. \A u \in Threads : Aside(u) /\ Stays(u)
    BY <1>1, <1>4, <2>2, Zenon DEF sema_down_block, Aside, Stays, Live
  <2>4. Chain'
    BY <1>4, <2>3, ChainFrame, Zenon DEF sema_down_block, locks
  <2> QED BY <1>1, <1>4, <2>4, LinesBlock, Zenon
<1>5. ASSUME donate_pri_acquire(t) PROVE Lines' /\ Chain'
  BY <1>5, LinesDonate, ChainDonate, Zenon
<1>6. ASSUME NEW s \in AllSemas, SemaUp(t, s), cur = t, pc[t] \in {"run", "rel_up"}
      PROVE  Lines' /\ Chain'
  <2>1. /\ UpBody(s) /\ UNCHANGED <<donated_for, don, holder>>
        /\ \E a : Goto(t, "run", a) \/ Goto(t, "up_chk", a)
    BY <1>6, Zenon DEF SemaUp, locks
  <2>2. /\ \A u \in Threads : u # t => arg'[u] = arg[u] /\ pc'[u] = pc[u]
        /\ pc'[t] \in {"run", "up_chk"}
    BY <1>1, <2>1, Zenon DEF Goto
  <2>3. Lines'
    BY <1>1, <1>6, <2>1, <2>2, LinesUp, Zenon
  <2>4. \A u \in Threads : Aside(u) /\ Stays(u)
    BY <1>6, <2>1, <2>2, UpStays, NotAcquiring, Zenon DEF Aside
  <2> QED BY <2>1, <2>3, <2>4, ChainFrame, Zenon
<1>7. ASSUME lock_release_up(t) PROVE Lines' /\ Chain'
  <2>1. arg[t] \in AllSemas
    BY <1>7, Zenon DEF lock_release_up, At, LInv, IInv, LockProtocol, AllSemas
  <2> QED BY <1>6, <1>7, <2>1, Zenon DEF lock_release_up, At
<1>8. ASSUME NEW s \in Semas, sema_up(t, s) PROVE Lines' /\ Chain'
  BY <1>6, <1>8, Zenon DEF sema_up, At, AllSemas
<1>9. ASSUME NEW c \in Threads, NEW p \in CreatePri[c], thread_create(t, c, p) PROVE Lines' /\ Chain'
  <2>1. p \in Pri
    BY SynchAssumption, Zenon
  <2>2. /\ cur = t /\ pc[t] = "run" /\ status' = [status EXCEPT ![c] = "READY"]
        /\ Goto(t, "create_chk", p) /\ UNCHANGED <<donated_for, don, holder>>
    BY <1>9, Zenon DEF thread_create, At, locks
  <2>3. \A u \in Threads : Aside(u) /\ Stays(u)
    BY <1>1, <2>2, NotAcquiring, Zenon DEF Goto, Aside, Stays, Live
  <2>4. Chain'
    BY <2>2, <2>3, ChainFrame, Zenon
  <2> QED BY <1>1, <1>9, <2>1, <2>4, LinesCreate, Zenon
<1>10. ASSUME thread_exit(t) PROVE Lines' /\ Chain'
  <2>1. /\ pc[t] = "run" /\ schedule(list, [status EXCEPT ![t] = "DYING"])
        /\ Goto(t, "done", NULL) /\ UNCHANGED <<donated_for, don, holder>> /\ lock_queue[t] = <<>>
    BY <1>10, Zenon DEF thread_exit, At, locks
  <2>2. [status EXCEPT ![t] = "DYING"] \in [Threads -> Statuses]
    BY <1>1, Zenon DEF Statuses
  <2>3. \A u \in Threads : status'[u] = [status EXCEPT ![t] = "DYING"][u] \/ status'[u] = "RUNNING"
    BY <2>1, <2>2, ScheduleStatus, Zenon
  <2>4. \A k \in Locks : holder[k] # t
    <3>1. Range(lock_queue[t]) = {} /\ \A k \in Locks : holder[k] = t <=> k \in Range(lock_queue[t])
      BY <1>1, <2>1, LockFacts, RangeFacts, Zenon
    <3> QED BY <3>1, Zenon
  <2>5. \A u \in Threads : Aside(u) /\ Stays(u)
    BY <1>1, <2>1, <2>3, <2>4, NotAcquiring, Zenon DEF Goto, Aside, Stays, Live
  <2>6. Chain'
    BY <2>1, <2>5, ChainFrame, Zenon
  <2> QED BY <1>1, <1>10, <2>6, LinesExit, Zenon
<1>11. \/ thread_yield(t) \/ timer_yield(t) \/ sema_down_block(t) \/ donate_pri_acquire(t)
       \/ lock_release_up(t) \/ thread_exit(t)
       \/ \E s \in Semas : sema_up(t, s)
       \/ \E c \in Threads : \E p \in CreatePri[c] : thread_create(t, c, p)
  BY Zenon DEF Step, Call, QuietStep
<1> QED BY <1>2, <1>3, <1>4, <1>5, <1>7, <1>8, <1>9, <1>10, <1>11, Zenon

\* Every step keeps the lists right.
LEMMA LinesNext ==
  ASSUME LInv, IInv', [Next]_vars
  PROVE  LInv'
<1>1. ASSUME NEW t \in Threads, Step(t) \/ Call(t) \/ timer_yield(t) PROVE Lines' /\ Chain'
  BY <1>1, QuietInv, MovingInv, Zenon
<1>2. ASSUME NEW s \in Semas, intr_sema_up(s) PROVE Lines' /\ Chain'
  <2>1. UpBody(s) /\ s \in AllSemas /\ UNCHANGED <<donated_for, don, holder, pc, arg>>
    BY <1>2, Zenon DEF intr_sema_up, locks, AllSemas
  <2>2. Lines'
    BY <2>1, LinesUp, Zenon DEF LInv
  <2>3. \A u \in Threads : Aside(u) /\ Stays(u)
    BY <2>1, UpStays, Zenon DEF Aside
  <2> QED BY <2>1, <2>2, <2>3, ChainFrame, Zenon
<1>3. ASSUME idle PROVE Lines' /\ Chain'
  <2>1. /\ schedule(list, status) /\ cur = Idle /\ UNCHANGED <<e_pri, queue, donated_for, don, holder, pc, arg>>
    BY <1>3, Zenon DEF idle, prios, locks
  <2>2. /\ list \in [Lists -> Seq(Threads)] /\ status \in [Threads -> Statuses]
        /\ \A t \in Threads : status[t] # "RUNNING"
    BY <2>1, ListTypes, SynchAssumption, Zenon DEF LInv, Lines, Running
  <2>3. /\ Filed(list', status', queue, arg) /\ Sorted(list', e_pri)
        /\ \A u \in Threads : status'[u] = "RUNNING" <=> cur' = u
    BY <2>1, <2>2, Scheduled, Zenon DEF LInv, Lines
  <2>4. \A u \in Threads : Aside(u) /\ Stays(u)
    BY <2>1, <2>2, ScheduleStatus, Zenon DEF Aside, Stays, Live
  <2>5. Chain'
    BY <2>1, <2>4, ChainFrame, Zenon
  <2> QED BY <2>1, <2>3, <2>5, Zenon DEF Lines, Running
<1>4. ASSUME UNCHANGED vars PROVE Lines' /\ Chain'
  BY <1>4, Zenon DEF vars, LInv, Lines, Chain, Running
<1>5. Lines' /\ Chain'
  BY <1>1, <1>2, <1>3, <1>4, Zenon DEF Next, Halted
<1> QED BY <1>5, Zenon DEF LInv

\* The lists are right at the start.
LEMMA LinesInit == Init => Lines /\ Chain
<1> SUFFICES ASSUME Init PROVE Lines /\ Chain
  OBVIOUS
<1>1. \A q \in Lists : list[q] = <<>> /\ IsInjective(list[q]) /\ Range(list[q]) = {}
  <2>1. IsInjective(<<>>) /\ Range(<<>>) = {}
    BY DEF IsInjective, Range
  <2> QED BY <2>1, Zenon DEF Init
<1>2. \A t \in Threads : /\ status[t] = (IF t = Main THEN "RUNNING" ELSE "NONE") /\ pc[t] = "run"
                         /\ donated_for[t] = NULL
  BY Zenon DEF Init
<1>3. Filed(list, status, queue, arg)
  BY <1>1, <1>2, Zenon DEF Filed, On
<1>4. Sorted(list, e_pri)
  <2>1. Descending(<<>>, e_pri)
    BY DEF Descending
  <2> QED BY <1>1, <2>1, Zenon DEF Sorted
<1>5. Running
  BY <1>2, Zenon DEF Init, Running
<1>6. \A k \in Locks : holder[k] = NULL
  BY Zenon DEF Init
<1>7. Chain
  BY <1>2, <1>6, SynchAssumption, Zenon DEF Chain
<1> QED BY <1>3, <1>4, <1>5, <1>7, Zenon DEF Lines

\* The invariant always holds.
THEOREM ListInvariance == Spec => []LInv
<1>1. Init => LInv
  BY LinesInit, InitInv, Zenon DEF LInv
<1>2. LInv /\ [Next]_vars => LInv'
  BY LinesNext, NextInv, Zenon DEF LInv
<1> QED BY <1>1, <1>2, PTL DEF Spec

\* thread.h:101, thread_unblock(), donate_pri_acquire(): whatever donation moves
\* about, a thread's elem is linked into one list at a time.
THEOREM OneListEach == Spec => []ElemOnOneList
<1>1. LInv => ElemOnOneList
  BY Zenon DEF LInv, Lines, Running, Filed, On, ElemOnOneList
<1> QED BY <1>1, ListInvariance, PTL

\* thread_before(), donate_pri_acquire(): under the PRIO policy the ready list,
\* and under any policy the waiters of every semaphore, stay in order of
\* effective priority.
THEOREM ListsInOrder ==
  Spec => []((Policy = "PRIO" => QueuesSorted) /\ \A s \in AllSemas : Descending(list[s], e_pri))
<1>1. LInv => (Policy = "PRIO" => QueuesSorted) /\ \A s \in AllSemas : Descending(list[s], e_pri)
  <2>1. LInv => Sorted(list, e_pri)
    BY Zenon DEF LInv, Lines
  <2> QED BY <2>1, SynchAssumption, Zenon DEF Sorted, Ordered, QueuesSorted, Lists
<1> QED BY <1>1, ListInvariance, PTL
=============================================================================
