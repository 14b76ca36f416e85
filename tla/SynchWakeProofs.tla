-------------------------- MODULE SynchWakeProofs ---------------------------
(***************************************************************************)
(* Wake-ups in Synch for any finite number of threads and any locks and    *)
(* semaphores: no semaphore keeps a unit from a waiter.                    *)
(***************************************************************************)
EXTENDS SynchListProofs, FiniteSetTheorems

\* A blocked thread is in sema_down() and will test the value again.
BlockedDown == \A t \in Threads : status[t] = "BLOCKED" => pc[t] = "down"

Served(s) == list[s] # <<>> => value[s] <= Cardinality(Woken(s))

WInv == LInv /\ BlockedDown /\ NoLostWakeup

\* Nobody blocks in this step.
NobodyBlocks ==
  \A u \in Threads : status'[u] = "BLOCKED" =>
    status[u] = "BLOCKED" /\ arg'[u] = arg[u] /\ pc'[u] = pc[u]

\* A semaphore has waiters exactly when threads are blocked on it.
LEMMA WaiterOf ==
  ASSUME NEW ls \in [Lists -> Seq(Threads)], NEW st, NEW qu, NEW ar, Filed(ls, st, qu, ar),
         NEW s \in AllSemas, ls[s] # <<>>
  PROVE  \E t \in Threads : st[t] = "BLOCKED" /\ ar[t] = s
<1>1. s \in Lists /\ s # Ready /\ ls[s] \in Seq(Threads)
  BY SynchAssumption, Zenon DEF Lists
<1>2. Range(ls[s]) \subseteq Threads /\ Range(ls[s]) # {}
  BY <1>1, RangeFacts
<1>3. \A t \in Threads : t \in Range(ls[s]) => st[t] = "BLOCKED" /\ ar[t] = s
  BY <1>1, Zenon DEF Filed, On
<1> QED BY <1>2, <1>3, Zenon

\* A semaphore that a thread is blocked on has waiters.
LEMMA HasWaiters ==
  ASSUME NEW ls \in [Lists -> Seq(Threads)], NEW st, NEW qu, NEW ar, Filed(ls, st, qu, ar),
         NEW s \in AllSemas, NEW t \in Threads, st[t] = "BLOCKED", ar[t] = s
  PROVE  ls[s] # <<>>
<1>1. s \in Lists /\ s # Ready /\ ls[s] \in Seq(Threads)
  BY SynchAssumption, Zenon DEF Lists
<1>2. t \in Range(ls[s])
  BY <1>1, Zenon DEF Filed, On
<1> QED BY <1>1, <1>2, RangeFacts, Zenon

\* When nobody blocks, a semaphore that has waiters had some.
LEMMA HadWaiters ==
  ASSUME LInv, LInv', NobodyBlocks, NEW s \in AllSemas, list'[s] # <<>>
  PROVE  list[s] # <<>>
<1> DEFINE ls == list'  st == status'  qu == queue'  ar == arg'
<1>1. ls \in [Lists -> Seq(Threads)] /\ Filed(ls, st, qu, ar) /\ ls[s] # <<>>
  BY Zenon DEF LInv, IInv, TypeOK, Lines
<1> HIDE DEF ls, st, qu, ar
<1>2. \E t \in Threads : st[t] = "BLOCKED" /\ ar[t] = s
  BY ONLY <1>1, WaiterOf, s \in AllSemas, SMTT(60)
<1>3. PICK t \in Threads : status[t] = "BLOCKED" /\ arg[t] = s
  BY <1>2, Zenon DEF NobodyBlocks, st, ar
<1>4. list \in [Lists -> Seq(Threads)] /\ Filed(list, status, queue, arg)
  BY ListTypes, Zenon DEF LInv, Lines
<1> QED BY ONLY <1>3, <1>4, HasWaiters, t \in Threads, s \in AllSemas, SMTT(60)

\* The threads on their way to a semaphore can be counted.
LEMMA WokenFinite ==
  ASSUME IsFiniteSet(Threads), NEW s
  PROVE  /\ IsFiniteSet(Woken(s)) /\ Cardinality(Woken(s)) \in Nat
         /\ \A S \in SUBSET Woken(s) : IsFiniteSet(S) /\ Cardinality(S) \in Nat
                                       /\ Cardinality(S) <= Cardinality(Woken(s))
<1>1. Woken(s) \subseteq Threads
  BY Zenon DEF Woken
<1>2. IsFiniteSet(Woken(s))
  BY <1>1, FS_Subset, Zenon
<1> QED BY <1>2, FS_Subset, FS_CardinalityType, Zenon

\* They can be counted after a step too.
LEMMA WokenFinitePrimed ==
  ASSUME IsFiniteSet(Threads), NEW s
  PROVE  /\ IsFiniteSet(Woken(s)') /\ Cardinality(Woken(s)') \in Nat
         /\ \A S \in SUBSET Woken(s)' : Cardinality(S) <= Cardinality(Woken(s)')
<1>1. Woken(s)' \subseteq Threads
  BY Zenon DEF Woken
<1>2. IsFiniteSet(Woken(s)')
  BY <1>1, FS_Subset, Zenon
<1> QED BY <1>2, FS_Subset, FS_CardinalityType, Zenon

\* Nobody blocks, the value does not rise, and who was on the way still is.
LEMMA ServedFrame ==
  ASSUME IsFiniteSet(Threads), WInv, LInv', NobodyBlocks, NEW s \in AllSemas,
         value'[s] <= value[s], \A u \in Woken(s) : pc'[u] = "down" /\ arg'[u] = s
  PROVE  Served(s)'
<1>1. SUFFICES ASSUME list'[s] # <<>> PROVE value'[s] <= Cardinality(Woken(s)')
  BY Zenon DEF Served
<1>2. list[s] # <<>>
  BY <1>1, HadWaiters, Zenon DEF WInv
<1>3. value[s] <= Cardinality(Woken(s))
  BY <1>2, Zenon DEF WInv, NoLostWakeup
<1>4. Woken(s) \subseteq Woken(s)'
  BY Zenon DEF Woken, NobodyBlocks
<1>5. Cardinality(Woken(s)) <= Cardinality(Woken(s)')
  BY <1>4, WokenFinitePrimed, Zenon
<1>6. /\ value[s] \in Nat /\ value'[s] \in Nat
      /\ Cardinality(Woken(s)) \in Nat /\ Cardinality(Woken(s)') \in Nat
  <2>1. value \in [AllSemas -> Nat] /\ value' \in [AllSemas -> Nat]
    BY Zenon DEF WInv, LInv, IInv, TypeOK
  <2> QED BY <2>1, WokenFinite, WokenFinitePrimed, Zenon
<1> QED BY <1>3, <1>5, <1>6

\* The running thread takes a unit of s and is no longer on its way to it.
LEMMA ServedTake ==
  ASSUME IsFiniteSet(Threads), WInv, LInv', NEW t \in Threads, Quiet(t), NEW s \in AllSemas,
         At(t, "down"), arg[t] = s, value[s] > 0, value'[s] = value[s] - 1
  PROVE  Served(s)'
<1>1. SUFFICES ASSUME list'[s] # <<>> PROVE value'[s] <= Cardinality(Woken(s)')
  BY Zenon DEF Served
<1>2. value[s] <= Cardinality(Woken(s))
  BY <1>1, Zenon DEF WInv, NoLostWakeup, Quiet
<1>3. t \in Woken(s)
  <2>1. status[t] = "RUNNING"
    BY CurUnlisted, Zenon DEF WInv, LInv, At
  <2> QED BY <2>1, Zenon DEF Woken, At
<1>4. Woken(s) \ {t} \subseteq Woken(s)'
  BY Zenon DEF Woken, Quiet
<1>5. Cardinality(Woken(s) \ {t}) = Cardinality(Woken(s)) - 1
  BY <1>3, WokenFinite, FS_RemoveElement, Zenon
<1>6. Cardinality(Woken(s) \ {t}) <= Cardinality(Woken(s)')
  BY <1>4, WokenFinitePrimed, Zenon
<1>7. /\ value[s] \in Nat /\ Cardinality(Woken(s)) \in Nat /\ Cardinality(Woken(s)') \in Nat
  <2>1. value \in [AllSemas -> Nat]
    BY Zenon DEF WInv, LInv, IInv, TypeOK
  <2> QED BY <2>1, WokenFinite, WokenFinitePrimed, Zenon
<1> DEFINE v == value[s]  v2 == value'[s]
           n == Cardinality(Woken(s))  n2 == Cardinality(Woken(s)')
           k == Cardinality(Woken(s) \ {t})
<1>8. /\ v \in Nat /\ n \in Nat /\ n2 \in Nat
      /\ v2 = v - 1 /\ v <= n /\ k = n - 1 /\ k <= n2
  BY <1>2, <1>5, <1>6, <1>7, Zenon
<1> HIDE DEF v, v2, n, n2, k
<1>9. v2 <= n2
  BY ONLY <1>8
<1> QED BY <1>9, Zenon DEF v2, n2

\* sema_up() puts one more thread on its way for the unit it adds.
LEMMA ServedUp ==
  ASSUME IsFiniteSet(Threads), WInv, LInv', NEW s \in AllSemas, UpBody(s), NobodyBlocks,
         \A u \in Threads : pc[u] = "down" => pc'[u] = "down" /\ arg'[u] = arg[u]
  PROVE  \A q \in AllSemas : Served(q)'
<1>1. value \in [AllSemas -> Nat] /\ value' = [value EXCEPT ![s] = @ + 1]
  BY Zenon DEF WInv, LInv, IInv, TypeOK, UpBody
<1>2. ASSUME NEW q \in AllSemas, q # s PROVE Served(q)'
  <2>1. value'[q] <= value[q] /\ \A u \in Woken(q) : pc'[u] = "down" /\ arg'[u] = q
    <3>1. value'[q] = value[q] /\ value[q] \in Nat
      BY ONLY q \in AllSemas, s \in AllSemas, <1>1, <1>2, Zenon
    <3>2. value'[q] <= value[q]
      BY ONLY <3>1, SMTT(60)
    <3>3. \A u \in Woken(q) : pc'[u] = "down" /\ arg'[u] = q
      BY Zenon DEF Woken
    <3> QED BY <3>2, <3>3, Zenon
  <2> QED BY <2>1, ServedFrame, Zenon
<1>3. Served(s)'
  <2>1. SUFFICES ASSUME list'[s] # <<>> PROVE value'[s] <= Cardinality(Woken(s)')
    BY Zenon DEF Served
  <2>2. list[s] # <<>>
    BY <2>1, HadWaiters, Zenon DEF WInv
  <2> DEFINE w == Head(list[s])
  <2>3. status' = [status EXCEPT ![w] = "READY"]
    BY <2>2, Zenon DEF UpBody
  <2>4. w \in Threads /\ status[w] = "BLOCKED" /\ arg[w] = s
    <3>1. /\ list \in [Lists -> Seq(Threads)] /\ status \in [Threads -> Statuses]
          /\ s \in Lists /\ s # Ready /\ Filed(list, status, queue, arg) /\ Sorted(list, e_pri)
      BY ListTypes, SynchAssumption, Zenon DEF WInv, LInv, Lines, Lists
    <3>2. w \in Threads /\ On(w, s, status, queue, arg)
      BY <2>2, <3>1, Unlinked, Zenon
    <3> QED BY <3>1, <3>2, Zenon DEF On
  <2> HIDE DEF w
  <2>5. pc[w] = "down" /\ w \notin Woken(s)
    BY <2>4, Zenon DEF WInv, BlockedDown, Woken
  <2>6. Woken(s) \cup {w} \subseteq Woken(s)'
    <3>1. status \in [Threads -> Statuses]
      BY ListTypes, Zenon DEF WInv, LInv
    <3> QED BY <2>3, <2>4, <2>5, <3>1, Zenon DEF Woken, NobodyBlocks
  <2>7. Cardinality(Woken(s) \cup {w}) = Cardinality(Woken(s)) + 1
    BY <2>5, WokenFinite, FS_AddElement, Zenon
  <2>8. Cardinality(Woken(s) \cup {w}) <= Cardinality(Woken(s)')
    BY <2>6, WokenFinitePrimed, Zenon
  <2>9. value[s] <= Cardinality(Woken(s))
    BY <2>2, Zenon DEF WInv, NoLostWakeup
  <2>10. value'[s] = value[s] + 1 /\ value[s] \in Nat
    BY <1>1, Zenon
  <2>11. Cardinality(Woken(s)) \in Nat /\ Cardinality(Woken(s)') \in Nat
    BY WokenFinite, WokenFinitePrimed, Zenon
  <2> DEFINE v == value[s]  v2 == value'[s]
             n == Cardinality(Woken(s))  n2 == Cardinality(Woken(s)')
             k == Cardinality(Woken(s) \cup {w})
  <2>12. /\ v \in Nat /\ n \in Nat /\ n2 \in Nat
         /\ v2 = v + 1 /\ v <= n /\ k = n + 1 /\ k <= n2
    BY <2>7, <2>8, <2>9, <2>10, <2>11, Zenon
  <2> HIDE DEF v, v2, n, n2, k
  <2>13. v2 <= n2
    BY ONLY <2>12
  <2> QED BY <2>13, Zenon DEF v2, n2
<1> QED BY <1>2, <1>3, Zenon

\* Steps that move no thread between lists leave a woken thread for every unit.
LEMMA WakeQuiet ==
  ASSUME IsFiniteSet(Threads), WInv, LInv', NEW t \in Threads, QuietStep(t)
  PROVE  BlockedDown' /\ \A s \in AllSemas : Served(s)'
<1>1. Quiet(t)
  BY QuietSteps, Zenon DEF WInv
<1>2. NobodyBlocks /\ cur = t /\ status[t] = "RUNNING"
  <2>1. cur = t /\ status[t] = "RUNNING"
    BY <1>1, CurUnlisted, Zenon DEF Quiet, WInv, LInv
  <2> QED BY <1>1, <2>1, Zenon DEF Quiet, NobodyBlocks
<1>3. BlockedDown'
  BY <1>2, Zenon DEF NobodyBlocks, BlockedDown, WInv
<1>4. value \in [AllSemas -> Nat] /\ Locks \subseteq AllSemas /\ Semas \subseteq AllSemas
  BY Zenon DEF WInv, LInv, IInv, TypeOK, AllSemas
<1>5. CASE sema_down_take(t) \/ lock_acquire_take(t)
  <2>1. PICK q \in AllSemas : /\ At(t, "down") /\ arg[t] = q /\ value[q] > 0
                              /\ value' = [value EXCEPT ![q] = @ - 1]
    BY <1>4, <1>5, Zenon DEF sema_down_take, lock_acquire_take, TakeLock
  <2>2. Served(q)'
    <3>1. value'[q] = value[q] - 1
      BY <1>4, <2>1, Zenon
    <3> QED BY <1>1, <2>1, <3>1, ServedTake, Zenon
  <2>3. ASSUME NEW s \in AllSemas, s # q PROVE Served(s)'
    <3>1. value'[s] <= value[s]
      BY <1>4, <2>1, <2>3
    <3>2. \A u \in Woken(s) : pc'[u] = "down" /\ arg'[u] = s
      BY <1>1, <2>1, <2>3, Zenon DEF Woken, Quiet
    <3> QED BY <1>2, <3>1, <3>2, ServedFrame, Zenon
  <2> QED BY <1>3, <2>2, <2>3, Zenon
<1>6. CASE ~(sema_down_take(t) \/ lock_acquire_take(t))
  <2>1. pc[t] # "down"
    BY <1>6, Zenon DEF QuietStep, thread_create_check, sema_up_check, donate_panic, donate_stop,
         thread_set_priority, sema_down, sema_try_down, lock_acquire, lock_try_acquire,
         lock_release, At
  <2>2. ASSUME NEW s \in AllSemas PROVE value'[s] <= value[s]
    <3>1. UNCHANGED value \/ \E q \in AllSemas : value[q] > 0 /\ value' = [value EXCEPT ![q] = @ - 1]
      BY <1>4, <1>6, Zenon
         DEF QuietStep, thread_create_check, sema_up_check, donate_panic, donate_stop,
         thread_set_priority, sema_down, sema_try_down, lock_acquire, lock_try_acquire,
         lock_release, TakeLock
    <3> QED BY <1>4, <3>1
  <2>3. ASSUME NEW s \in AllSemas PROVE \A u \in Woken(s) : pc'[u] = "down" /\ arg'[u] = s
    BY <1>1, <2>1, Zenon DEF Woken, Quiet
  <2> QED BY <1>2, <1>3, <2>2, <2>3, ServedFrame, Zenon
<1> QED BY <1>5, <1>6, Zenon

\* Steps that leave the values alone, and threads in sema_down() where they are.
LEMMA WakeStill ==
  ASSUME IsFiniteSet(Threads), WInv, LInv', UNCHANGED value, NobodyBlocks,
         \A u \in Threads : pc[u] = "down" => pc'[u] = "down" /\ arg'[u] = arg[u]
  PROVE  BlockedDown' /\ \A s \in AllSemas : Served(s)'
<1>1. BlockedDown'
  BY Zenon DEF NobodyBlocks, BlockedDown, WInv
<1>2. ASSUME NEW s \in AllSemas PROVE Served(s)'
  <2>1. value'[s] <= value[s]
    <3>1. value \in [AllSemas -> Nat]
      BY Zenon DEF WInv, LInv, IInv, TypeOK
    <3> QED BY <3>1
  <2>2. \A u \in Woken(s) : pc'[u] = "down" /\ arg'[u] = s
    BY Zenon DEF Woken
  <2> QED BY <2>1, <2>2, ServedFrame, Zenon
<1> QED BY <1>1, <1>2, Zenon

\* Whoever is blocked after schedule() was blocked before, and no running
\* thread is; st are the statuses schedule() is called with.
LEMMA ScheduleBlocks ==
  ASSUME WInv, NEW ls, NEW st \in [Threads -> Statuses], schedule(ls, st),
         \A u \in Threads : st[u] = "BLOCKED" =>
           status[u] = "BLOCKED" /\ arg'[u] = arg[u] /\ pc'[u] = pc[u]
  PROVE  NobodyBlocks
<1>1. \A u \in Threads : status'[u] = st[u] \/ status'[u] = "RUNNING"
  BY ScheduleStatus, Zenon
<1> QED BY <1>1, Zenon DEF NobodyBlocks

\* So does each step that moves one: sema_down() takes a unit, sema_up() brings one with a thread.
LEMMA WakeMoving ==
  ASSUME IsFiniteSet(Threads), WInv, LInv', NEW t \in Threads,
         (Step(t) \/ Call(t) \/ timer_yield(t)) /\ ~QuietStep(t)
  PROVE  BlockedDown' /\ \A s \in AllSemas : Served(s)'
<1>1. /\ arg \in [Threads -> Args] /\ pc \in [Threads -> Pcs] /\ value \in [AllSemas -> Nat]
      /\ status \in [Threads -> Statuses] /\ LInv
  BY ListTypes, Zenon DEF WInv, LInv
<1>2. cur = t => status[t] = "RUNNING"
  BY CurUnlisted, Zenon DEF WInv, LInv
<1>3. ASSUME YieldBody(t), cur = t, \/ UNCHANGED <<pc, arg>>
                                    \/ pc[t] = "yield" /\ Goto(t, "run", NULL)
      PROVE  BlockedDown' /\ \A s \in AllSemas : Served(s)'
  <2> DEFINE st == [status EXCEPT ![t] = "READY"]
  <2>1. st \in [Threads -> Statuses] /\ schedule(thread_enqueue(list, t, e_pri), st) /\ UNCHANGED value
    BY <1>1, <1>3, Zenon DEF YieldBody, Statuses
  <2>2. \A u \in Threads : u # t => pc'[u] = pc[u] /\ arg'[u] = arg[u]
    BY <1>1, <1>3, Zenon DEF Goto
  <2>3. \A u \in Threads : st[u] = "BLOCKED" => status[u] = "BLOCKED" /\ u # t
    BY <1>1, Zenon
  <2> HIDE DEF st
  <2>4. NobodyBlocks
    BY <2>1, <2>2, <2>3, ScheduleBlocks, Zenon
  <2>5. \A u \in Threads : pc[u] = "down" => pc'[u] = "down" /\ arg'[u] = arg[u]
    BY <1>3, <2>2, Zenon
  <2> QED BY <2>1, <2>4, <2>5, WakeStill, Zenon
<1>4. ASSUME sema_down_block(t) PROVE BlockedDown' /\ \A s \in AllSemas : Served(s)'
  <2> DEFINE st == [status EXCEPT ![t] = "BLOCKED"]  q == arg[t]
  <2>1. /\ st \in [Threads -> Statuses] /\ pc[t] = "down" /\ value[q] = 0
        /\ schedule([list EXCEPT ![q] = InsertThread(@, t, e_pri)], st)
        /\ UNCHANGED <<value, pc, arg>>
    BY <1>1, <1>4, Zenon DEF sema_down_block, At, Statuses
  <2>2. st[t] = "BLOCKED" /\ \A u \in Threads : u # t => st[u] = status[u]
    BY <1>1, Zenon
  <2> HIDE DEF st
  <2>3. \A u \in Threads : status'[u] = st[u] \/ status'[u] = "RUNNING"
    BY <2>1, ScheduleStatus, Zenon
  <2>4. BlockedDown'
    BY <2>1, <2>2, <2>3, Zenon DEF WInv, BlockedDown
  <2>5. ASSUME NEW s \in AllSemas PROVE Served(s)'
    <3>1. CASE s = q
      <4>1. value'[s] = 0
        BY <2>1, <3>1, Zenon
      <4>2. Cardinality(Woken(s)') \in Nat
        BY WokenFinitePrimed, Zenon
      <4>3. value'[s] <= Cardinality(Woken(s)')
        BY <4>1, <4>2
      <4> QED BY <4>3, Zenon DEF Served
    <3>2. CASE s # q
      <4>1. list'[s] = list[s]
        <5>1. s # Ready /\ s \in Lists /\ list \in [Lists -> Seq(Threads)]
          BY <1>1, ListTypes, SynchAssumption, Zenon DEF Lists, LInv
        <5> QED BY <2>1, <3>2, <5>1, Zenon DEF schedule
      <4>2. Woken(s) \subseteq Woken(s)'
        BY <2>1, <2>2, <2>3, <3>2, Zenon DEF Woken
      <4>3. Cardinality(Woken(s)) <= Cardinality(Woken(s)')
        BY <4>2, WokenFinitePrimed, Zenon
      <4>4. value'[s] = value[s] /\ value[s] \in Nat
        BY <1>1, <2>1, Zenon
      <4>5. Cardinality(Woken(s)) \in Nat /\ Cardinality(Woken(s)') \in Nat
        BY WokenFinite, WokenFinitePrimed, Zenon
      <4>6. list[s] # <<>> => value[s] <= Cardinality(Woken(s))
        BY Zenon DEF WInv, NoLostWakeup
      <4>7. list'[s] # <<>> => value'[s] <= Cardinality(Woken(s)')
        <5> DEFINE v == value[s]  n == Cardinality(Woken(s))  n2 == Cardinality(Woken(s)')
        <5>1. v \in Nat /\ n \in Nat /\ n2 \in Nat /\ n <= n2
          BY <4>3, <4>4, <4>5, Zenon
        <5>2. ASSUME v <= n PROVE v <= n2
          <6> HIDE DEF v, n, n2
          <6> QED BY ONLY <5>1, <5>2
        <5> QED BY <4>1, <4>4, <4>6, <5>2, Zenon
      <4> QED BY <4>7, Zenon DEF Served
    <3> QED BY <3>1, <3>2, Zenon
  <2> QED BY <2>4, <2>5, Zenon
<1>5. ASSUME donate_pri_acquire(t) PROVE BlockedDown' /\ \A s \in AllSemas : Served(s)'
  <2>1. /\ cur = t /\ pc[t] = "donate" /\ UNCHANGED <<status, value, arg>>
        /\ UNCHANGED pc \/ pc' = [pc EXCEPT ![t] = "down"]
    BY <1>5, Zenon DEF donate_pri_acquire, DonationEnds, At
  <2>2. \A u \in Threads : u # t => pc'[u] = pc[u]
    BY <1>1, <2>1, Zenon
  <2>3. NobodyBlocks
    BY <1>2, <2>1, <2>2, Zenon DEF NobodyBlocks
  <2> QED BY <2>1, <2>2, <2>3, WakeStill, Zenon
<1>6. ASSUME NEW s \in AllSemas, SemaUp(t, s), cur = t, pc[t] \in {"run", "rel_up"}
      PROVE  BlockedDown' /\ \A q \in AllSemas : Served(q)'
  <2>1. UpBody(s) /\ \E p, a : Goto(t, p, a)
    BY <1>6, Zenon DEF SemaUp
  <2>2. \A u \in Threads : u # t => arg'[u] = arg[u] /\ pc'[u] = pc[u]
    BY <1>1, <2>1, Zenon DEF Goto
  <2>3. NobodyBlocks
    BY <1>1, <1>2, <1>6, <2>1, <2>2, Zenon DEF NobodyBlocks, UpBody
  <2>4. \A u \in Threads : pc[u] = "down" => pc'[u] = "down" /\ arg'[u] = arg[u]
    BY <1>6, <2>2, Zenon
  <2>5. BlockedDown'
    BY <2>3, Zenon DEF NobodyBlocks, BlockedDown, WInv
  <2> QED BY <2>1, <2>3, <2>4, <2>5, ServedUp, Zenon
<1>7. ASSUME lock_release_up(t) PROVE BlockedDown' /\ \A s \in AllSemas : Served(s)'
  <2>1. arg[t] \in AllSemas
    BY <1>1, <1>7, Zenon DEF lock_release_up, At, LInv, IInv, LockProtocol, AllSemas
  <2> QED BY <1>6, <1>7, <2>1, Zenon DEF lock_release_up, At
<1>8. ASSUME NEW s \in Semas, sema_up(t, s) PROVE BlockedDown' /\ \A q \in AllSemas : Served(q)'
  BY <1>6, <1>8, Zenon DEF sema_up, At, AllSemas
<1>9. ASSUME NEW c \in Threads, NEW p \in CreatePri[c], thread_create(t, c, p)
      PROVE  BlockedDown' /\ \A s \in AllSemas : Served(s)'
  <2>1. /\ cur = t /\ pc[t] = "run" /\ status[c] = "NONE" /\ status' = [status EXCEPT ![c] = "READY"]
        /\ Goto(t, "create_chk", p) /\ UNCHANGED value
    BY <1>9, Zenon DEF thread_create, At
  <2>2. \A u \in Threads : u # t => arg'[u] = arg[u] /\ pc'[u] = pc[u]
    BY <1>1, <2>1, Zenon DEF Goto
  <2>3. NobodyBlocks
    BY <1>1, <1>2, <2>1, <2>2, Zenon DEF NobodyBlocks
  <2> QED BY <2>1, <2>2, <2>3, WakeStill, Zenon
<1>10. ASSUME thread_exit(t) PROVE BlockedDown' /\ \A s \in AllSemas : Served(s)'
  <2> DEFINE st == [status EXCEPT ![t] = "DYING"]
  <2>1. /\ pc[t] = "run" /\ schedule(list, st) /\ Goto(t, "done", NULL) /\ UNCHANGED value
        /\ st \in [Threads -> Statuses]
    BY <1>1, <1>10, Zenon DEF thread_exit, At, Statuses
  <2>2. \A u \in Threads : u # t => arg'[u] = arg[u] /\ pc'[u] = pc[u]
    BY <1>1, <2>1, Zenon DEF Goto
  <2>3. \A u \in Threads : st[u] = "BLOCKED" => status[u] = "BLOCKED" /\ u # t
    BY <1>1, Zenon
  <2> HIDE DEF st
  <2>4. NobodyBlocks
    BY <2>1, <2>2, <2>3, ScheduleBlocks, Zenon
  <2> QED BY <2>1, <2>2, <2>4, WakeStill, Zenon
<1>11. \/ thread_yield(t) \/ timer_yield(t) \/ sema_down_block(t) \/ donate_pri_acquire(t)
       \/ lock_release_up(t) \/ thread_exit(t)
       \/ \E s \in Semas : sema_up(t, s)
       \/ \E c \in Threads : \E p \in CreatePri[c] : thread_create(t, c, p)
  BY Zenon DEF Step, Call, QuietStep
<1>12. ASSUME thread_yield(t) \/ timer_yield(t) PROVE BlockedDown' /\ \A s \in AllSemas : Served(s)'
  BY <1>3, <1>12, Zenon DEF thread_yield, timer_yield, At
<1> QED BY <1>4, <1>5, <1>7, <1>8, <1>9, <1>10, <1>11, <1>12, Zenon

\* Every step keeps the count.
LEMMA WakeNext ==
  ASSUME IsFiniteSet(Threads), WInv, LInv', [Next]_vars
  PROVE  WInv'
<1>1. ASSUME NEW t \in Threads, Step(t) \/ Call(t) \/ timer_yield(t)
      PROVE  BlockedDown' /\ \A s \in AllSemas : Served(s)'
  BY <1>1, WakeQuiet, WakeMoving, Zenon
<1>2. ASSUME NEW s \in Semas, intr_sema_up(s) PROVE BlockedDown' /\ \A q \in AllSemas : Served(q)'
  <2>1. UpBody(s) /\ s \in AllSemas /\ UNCHANGED <<pc, arg>>
    BY <1>2, Zenon DEF intr_sema_up, AllSemas
  <2>2. status \in [Threads -> Statuses]
    BY ListTypes, Zenon DEF WInv, LInv
  <2>3. NobodyBlocks
    BY <2>1, <2>2, Zenon DEF NobodyBlocks, UpBody
  <2>4. BlockedDown'
    BY <2>3, Zenon DEF NobodyBlocks, BlockedDown, WInv
  <2> QED BY <2>1, <2>3, <2>4, ServedUp, Zenon
<1>3. ASSUME idle PROVE BlockedDown' /\ \A s \in AllSemas : Served(s)'
  <2>1. schedule(list, status) /\ UNCHANGED <<value, pc, arg>> /\ status \in [Threads -> Statuses]
    BY <1>3, ListTypes, Zenon DEF idle, WInv, LInv
  <2>2. NobodyBlocks
    BY <2>1, ScheduleBlocks, Zenon
  <2> QED BY <2>1, <2>2, WakeStill, Zenon
<1>4. ASSUME UNCHANGED vars PROVE BlockedDown' /\ \A s \in AllSemas : Served(s)'
  BY <1>4, WakeStill, Zenon DEF vars, NobodyBlocks
<1>5. BlockedDown' /\ \A s \in AllSemas : Served(s)'
  BY <1>1, <1>2, <1>3, <1>4, Zenon DEF Next, Halted
<1>6. NoLostWakeup'
  BY <1>5, Zenon DEF NoLostWakeup, Served
<1> QED BY <1>5, <1>6, Zenon DEF WInv

\* sema_down(), sema_up(), sema_try_down(): however many threads there are, a
\* semaphore with waiters never has more units than threads on their way to it.
THEOREM WakeupsReach ==
  ASSUME IsFiniteSet(Threads)
  PROVE  Spec => []NoLostWakeup
<1>1. Init => BlockedDown /\ NoLostWakeup
  BY Zenon DEF Init, BlockedDown, NoLostWakeup, Lists
<1>2. LInv /\ BlockedDown /\ NoLostWakeup /\ LInv' /\ [Next]_vars => BlockedDown' /\ NoLostWakeup'
  BY WakeNext, Zenon DEF WInv
<1>3. Spec => []LInv
  BY ListInvariance, Zenon
<1> QED BY <1>1, <1>2, <1>3, PTL DEF Spec
=============================================================================
