---------------------------- MODULE SynchProofs ----------------------------
(***************************************************************************)
(* Type correctness, mutual exclusion of locks, and the bookkeeping        *)
(* priority donation needs, for any number of threads, locks, semaphores   *)
(* and priorities and under both scheduling policies.                      *)
(***************************************************************************)
EXTENDS Synch, KListTheorems
-----------------------------------------------------------------------------
(* The lists *)

\* Inserting a thread in priority order adds it to the list.
LEMMA InsertThreadFacts ==
  ASSUME NEW s \in Seq(Threads), NEW t \in Threads, NEW ep
  PROVE  /\ InsertThread(s, t, ep) \in Seq(Threads)
         /\ Range(InsertThread(s, t, ep)) = Range(s) \cup {t}
         /\ IsInjective(s) /\ t \notin Range(s) => IsInjective(InsertThread(s, t, ep))
<1> DEFINE T == {i \in 1 .. Len(s) : ep[t] > ep[s[i]]}
<1>1. InsertThread(s, t, ep) = list_insert(s, First(T, Len(s)), t)
  BY Zenon DEF InsertThread, list_insert_ordered
<1>2. T \in SUBSET (1 .. Len(s))
  OBVIOUS
<1> HIDE DEF T
<1> QED BY <1>1, <1>2, InsertFirst

\* Inserting a lock in priority order adds it to the list and keeps the order.
LEMMA InsertLockFacts ==
  ASSUME NEW s \in Seq(Locks), NEW l \in Locks, NEW lp \in [Locks -> Int]
  PROVE  /\ InsertLock(s, l, lp) \in Seq(Locks)
         /\ Range(InsertLock(s, l, lp)) = Range(s) \cup {l}
         /\ IsInjective(s) /\ l \notin Range(s) => IsInjective(InsertLock(s, l, lp))
         /\ Descending(s, lp) => Descending(InsertLock(s, l, lp), lp)
<1> DEFINE T == {i \in 1 .. Len(s) : lp[l] >= lp[s[i]]}
<1>1. InsertLock(s, l, lp) = list_insert(s, First(T, Len(s)), l)
  BY Zenon DEF InsertLock, list_insert_ordered
<1>2. T \in SUBSET (1 .. Len(s))
  OBVIOUS
<1>3. \A i \in T : lp[l] >= lp[s[i]]
  OBVIOUS
<1>4. \A i \in (1 .. Len(s)) \ T : lp[s[i]] >= lp[l]
  OBVIOUS
<1> HIDE DEF T
<1>5. Descending(s, lp) => Descending(list_insert(s, First(T, Len(s)), l), lp)
  BY <1>2, <1>3, <1>4, InsertFirstDescending, Zenon
<1> QED BY <1>1, <1>2, <1>5, InsertFirst

\* thread_enqueue() puts a thread on the ready list and on no other.
LEMMA EnqueueType ==
  ASSUME NEW ls \in [Lists -> Seq(Threads)], NEW t \in Threads, NEW ep
  PROVE  thread_enqueue(ls, t, ep) \in [Lists -> Seq(Threads)]
<1>1. ls[Ready] \in Seq(Threads)
  BY Zenon DEF Lists
<1>2. InsertThread(ls[Ready], t, ep) \in Seq(Threads) /\ Append(ls[Ready], t) \in Seq(Threads)
  BY <1>1, InsertThreadFacts
<1> QED BY <1>2, Zenon DEF thread_enqueue, list_push_back

\* schedule() runs a thread of the ready list or the idle thread.
LEMMA ScheduleFacts ==
  ASSUME NEW ls \in [Lists -> Seq(Threads)], NEW st \in [Threads -> Statuses],
         schedule(ls, st)
  PROVE  /\ cur' \in Threads \cup {Idle}
         /\ list' \in [Lists -> Seq(Threads)]
         /\ status' \in [Threads -> Statuses]
         /\ \A t \in Threads : status'[t] = "NONE" => st[t] = "NONE"
         /\ cur' \in Threads => status'[cur'] # "NONE"
<1>1. ls[Ready] \in Seq(Threads)
  BY Zenon DEF Lists
<1>2. CASE ls[Ready] = <<>>
  BY <1>2, SynchAssumption, Zenon DEF schedule
<1>3. CASE ls[Ready] # <<>>
  <2>1. Head(ls[Ready]) \in Threads /\ Tail(ls[Ready]) \in Seq(Threads)
    BY <1>1, <1>3
  <2> QED BY <1>3, <2>1, Zenon DEF schedule, list_pop_front, Statuses
<1> QED BY <1>2, <1>3, Zenon
-----------------------------------------------------------------------------
(* Types *)

\* The priority a lock_queue passes on is a thread's priority.
LEMMA HeldPri ==
  ASSUME TypeOK, LockProtocol, HolderHasLock, NEW t \in Threads, NEW l \in Range(lock_queue[t])
  PROVE  l \in Locks /\ holder[l] = t /\ pri[l] \in Pri
<1>1. l \in Locks
  BY RangeFacts, Zenon DEF TypeOK
<1>2. holder[l] = t /\ t # NULL
  BY <1>1, SynchAssumption, Zenon DEF HolderHasLock
<1> QED BY <1>1, <1>2, Zenon DEF LockProtocol

\* Every step keeps the types.
LEMMA TypeStep ==
  ASSUME TypeOK, LockProtocol, HolderHasLock, Next
  PROVE  TypeOK'
<1> USE DEF prios, locks
<1>a. /\ cur \in Threads \cup {Idle} /\ status \in [Threads -> Statuses]
      /\ b_pri \in [Threads -> Pri] /\ e_pri \in [Threads -> Pri]
      /\ queue \in [Threads -> Lists \cup {NULL}]
      /\ pc \in [Threads -> Pcs] /\ arg \in [Threads -> Args]
  BY Zenon DEF TypeOK
<1>b. list \in [Lists -> Seq(Threads)] /\ lock_queue \in [Threads -> Seq(Locks)]
  BY Zenon DEF TypeOK
<1>c. /\ value \in [AllSemas -> Nat] /\ holder \in [Locks -> MaybeThread]
      /\ pri \in [Locks -> Pri \cup {0}] /\ state \in [Locks -> Int]
      /\ donated_for \in [Threads -> MaybeLock] /\ don \in Donations
  BY Zenon DEF TypeOK
<1>d. /\ AllSemas \subseteq Lists /\ Ready \in Lists
      /\ Locks \subseteq AllSemas /\ Semas \subseteq AllSemas
  BY Zenon DEF Lists, AllSemas
<1>e. /\ AllSemas \subseteq Args /\ Pri \subseteq Args /\ Threads \subseteq Args
      /\ NULL \in Args
  BY Zenon DEF Args, MaybeThread
<1>f. ASSUME NEW f \in [Locks -> Pri \cup {0}] PROVE f \in [Locks -> Int]
  <2>1. Pri \cup {0} \subseteq Int
    BY SynchAssumption
  <2> QED BY <2>1, Zenon
<1>g. \A s \in Seq(Threads) : s # <<>> => Head(s) \in Threads /\ Tail(s) \in Seq(Threads)
  OBVIOUS
<1>1. ASSUME NEW t \in Threads, YieldBody(t), pc' \in [Threads -> Pcs],
             arg' \in [Threads -> Args]
      PROVE  TypeOK'
  <2>1. thread_enqueue(list, t, e_pri) \in [Lists -> Seq(Threads)]
    BY <1>b, EnqueueType, Zenon
  <2>2. [status EXCEPT ![t] = "READY"] \in [Threads -> Statuses]
    BY <1>a, Zenon DEF Statuses
  <2>3. /\ cur' \in Threads \cup {Idle} /\ list' \in [Lists -> Seq(Threads)]
        /\ status' \in [Threads -> Statuses]
    BY <1>1, <2>1, <2>2, ScheduleFacts, Zenon DEF YieldBody
  <2> QED BY <1>1, <1>d, <2>3, Zenon DEF YieldBody, TypeOK
<1>2. ASSUME NEW t \in Threads, NEW p \in Pcs, NEW a \in Args, Goto(t, p, a)
      PROVE  pc' \in [Threads -> Pcs] /\ arg' \in [Threads -> Args]
  BY <1>2, <1>a, Zenon DEF Goto
<1>3. ASSUME NEW s \in AllSemas, UpBody(s), UNCHANGED locks, pc' \in [Threads -> Pcs],
             arg' \in [Threads -> Args]
      PROVE  TypeOK'
  <2>1. value' \in [AllSemas -> Nat]
    BY <1>3, <1>c DEF UpBody
  <2>2. CASE list[s] = <<>>
    BY <1>3, <2>1, <2>2, Zenon DEF UpBody, TypeOK
  <2>3. CASE list[s] # <<>>
    <3> DEFINE w == Head(list[s])
               ls == [list EXCEPT ![s] = list_pop_front(@)]
    <3>1. w \in Threads /\ Tail(list[s]) \in Seq(Threads)
      BY <1>b, <1>d, <1>g, <2>3, Zenon
    <3>2. ls \in [Lists -> Seq(Threads)]
      BY <1>b, <3>1, Zenon DEF list_pop_front
    <3>3. list' = thread_enqueue(ls, w, e_pri) /\ queue' = [queue EXCEPT ![w] = Ready]
          /\ status' = [status EXCEPT ![w] = "READY"] /\ UNCHANGED <<cur, prios, panic>>
      BY <1>3, <2>3, Zenon DEF UpBody
    <3> HIDE DEF w, ls
    <3>4. list' \in [Lists -> Seq(Threads)]
      BY <3>1, <3>2, <3>3, EnqueueType, Zenon
    <3>5. queue' \in [Threads -> Lists \cup {NULL}] /\ status' \in [Threads -> Statuses]
      BY <1>a, <1>d, <3>1, <3>3, Zenon DEF Statuses
    <3> QED BY <1>3, <2>1, <3>3, <3>4, <3>5, Zenon DEF TypeOK
  <2> QED BY <2>2, <2>3, Zenon
<1>4. ASSUME NEW t \in Threads, NEW s \in AllSemas, SemaUp(t, s)
      PROVE  TypeOK'
  <2>1. list[s] # <<>> => Head(list[s]) \in Args
    BY <1>b, <1>d, <1>e, <1>g, Zenon
  <2>2. pc' \in [Threads -> Pcs] /\ arg' \in [Threads -> Args]
    BY <1>4, <1>2, <1>e, <2>1, Zenon DEF SemaUp, Pcs, IntrOn
  <2> QED BY <1>3, <1>4, <2>2, Zenon DEF SemaUp
<1>5. ASSUME NEW t \in Threads, NEW l \in Locks, TakeLock(t, l), value[l] > 0,
             donated_for' \in [Threads -> MaybeLock], state' \in [Locks -> Int],
             pc' \in [Threads -> Pcs], arg' \in [Threads -> Args]
      PROVE  TypeOK'
  <2>1. value' = [value EXCEPT ![l] = value[l] - 1] /\ value[l] \in Nat
    BY <1>5, <1>c, <1>d, Zenon DEF TakeLock
  <2>2. value[l] - 1 \in Nat
    BY <1>5, <2>1
  <2>3. value' \in [AllSemas -> Nat]
    BY <1>c, <2>1, <2>2, Zenon
  <2>4. pri' \in [Locks -> Pri \cup {0}] /\ holder' \in [Locks -> MaybeThread]
    BY <1>5, <1>a, <1>c, Zenon DEF TakeLock, MaybeThread
  <2>5. pri' \in [Locks -> Int]
    BY <1>f, <2>4, Zenon
  <2>6. InsertLock(lock_queue[t], l, pri') \in Seq(Locks)
    BY <1>b, <2>5, InsertLockFacts, Zenon
  <2>7. lock_queue' \in [Threads -> Seq(Locks)]
    BY <1>5, <1>b, <2>6, Zenon DEF TakeLock
  <2> QED BY <1>5, <2>3, <2>4, <2>7, Zenon DEF TakeLock, TypeOK
<1>6. ASSUME NEW t \in Threads, Step(t) PROVE TypeOK'
  <2>1. CASE thread_yield(t)
    BY <1>1, <1>2, <1>e, <2>1, Zenon DEF thread_yield, Pcs, IntrOn
  <2>2. CASE thread_create_check(t)
    <3>1. pc' \in [Threads -> Pcs] /\ arg' \in [Threads -> Args]
      BY <1>2, <1>e, <2>2, Zenon DEF thread_create_check, Pcs, IntrOn
    <3> QED BY <2>2, <3>1, Zenon DEF thread_create_check, TypeOK
  <2>3. CASE sema_up_check(t)
    <3>1. pc' \in [Threads -> Pcs] /\ arg' \in [Threads -> Args]
      BY <1>2, <1>e, <2>3, Zenon DEF sema_up_check, Pcs, IntrOn
    <3> QED BY <2>3, <3>1, Zenon DEF sema_up_check, TypeOK
  <2>4. CASE sema_down_block(t)
    <3>1. arg[t] \in AllSemas /\ arg[t] \in Lists
      BY <1>d, <2>4, Zenon DEF sema_down_block, At, LockProtocol
    <3>2. InsertThread(list[arg[t]], t, e_pri) \in Seq(Threads)
      BY <1>b, <3>1, InsertThreadFacts, Zenon
    <3> DEFINE ls == [list EXCEPT ![arg[t]] = InsertThread(@, t, e_pri)]
               st == [status EXCEPT ![t] = "BLOCKED"]
    <3>3. ls \in [Lists -> Seq(Threads)] /\ st \in [Threads -> Statuses]
      BY <1>a, <1>b, <3>1, <3>2, Zenon DEF Statuses
    <3>4. schedule(ls, st)
      BY <2>4, Zenon DEF sema_down_block
    <3> HIDE DEF ls, st
    <3>5. /\ cur' \in Threads \cup {Idle} /\ list' \in [Lists -> Seq(Threads)]
          /\ status' \in [Threads -> Statuses]
      BY <3>3, <3>4, ScheduleFacts, Zenon
    <3> QED BY <2>4, <3>1, <3>5, Zenon DEF sema_down_block, TypeOK
  <2>5. CASE sema_down_take(t)
    <3>1. value' \in [AllSemas -> Nat]
      BY <1>c, <1>d, <2>5 DEF sema_down_take
    <3>2. pc' \in [Threads -> Pcs] /\ arg' \in [Threads -> Args]
      BY <1>2, <1>e, <2>5, Zenon DEF sema_down_take, Pcs, IntrOn
    <3> QED BY <2>5, <3>1, <3>2, Zenon DEF sema_down_take, TypeOK
  <2>6. CASE lock_acquire_take(t)
    <3>1. pc' \in [Threads -> Pcs] /\ arg' \in [Threads -> Args]
      BY <1>2, <1>e, <2>6, Zenon DEF lock_acquire_take, Pcs, IntrOn
    <3>2. donated_for' \in [Threads -> MaybeLock] /\ state' \in [Locks -> Int]
      BY <1>c, <2>6, Zenon DEF lock_acquire_take, MaybeLock
    <3> QED BY <1>5, <2>6, <3>1, <3>2, Zenon DEF lock_acquire_take
  <2>7. CASE donate_panic(t)
    BY <2>7, Zenon DEF donate_panic, TypeOK
  <2>8. CASE donate_stop(t)
    <3>1. pc' \in [Threads -> Pcs] /\ don' \in Donations
      BY <1>a, <2>8, Zenon DEF donate_stop, DonationEnds, Pcs, Donations, MaybeThread, MaybeLock
    <3> QED BY <2>8, <3>1, Zenon DEF donate_stop, TypeOK
  <2>9. CASE donate_pri_acquire(t)
    <3> DEFINE l == don.lock
               donee == don.donee
               p == e_pri[don.donor]
    <3>1. don.donor \in Threads /\ l \in Locks
      BY <2>9, Zenon DEF donate_pri_acquire, RefileLock, RefileThread, At, LockProtocol
    <3>2. donee \in Threads /\ p \in Pri
      BY <1>a, <1>c, <2>9, <3>1, Zenon
      DEF donate_pri_acquire, RefileLock, RefileThread, Donations, MaybeThread
    <3>3. pri' = [pri EXCEPT ![l] = p] /\ pri' \in [Locks -> Pri \cup {0}]
      BY <1>c, <2>9, <3>1, <3>2, Zenon DEF donate_pri_acquire, RefileLock, RefileThread
    <3>4. pri' \in [Locks -> Int]
      BY <1>f, <3>3, Zenon
    <3>5. list_remove(lock_queue[donee], l) \in Seq(Locks)
      BY <1>b, <3>2, RemoveSeq, Zenon
    <3>6. lock_queue' = [lock_queue EXCEPT ![donee] =
                           InsertLock(list_remove(@, l), l, pri')]
      BY <2>9, Zenon DEF donate_pri_acquire, RefileLock, RefileThread
    <3>7. lock_queue' \in [Threads -> Seq(Locks)]
      BY <1>b, <3>1, <3>2, <3>4, <3>5, <3>6, InsertLockFacts, Zenon
    <3>8. e_pri' \in [Threads -> Pri]
      BY <1>a, <2>9, <3>2, Zenon DEF donate_pri_acquire, RefileLock, RefileThread
    <3>9. pc' \in [Threads -> Pcs]
      BY <1>a, <2>9, Zenon DEF donate_pri_acquire, RefileLock, RefileThread, DonationEnds, Pcs
    <3>10. don' \in Donations
      <4>1. CASE DonationEnds(t)
        BY <4>1, Zenon DEF DonationEnds, Donations, MaybeThread, MaybeLock
      <4>2. CASE /\ donated_for[donee] # NULL
                 /\ don' = [donor |-> donee, donee |-> holder[donated_for[donee]],
                            lock |-> donated_for[donee]]
        <5>1. donated_for[donee] \in Locks
          BY <1>c, <3>2, <4>2, Zenon DEF MaybeLock
        <5>2. holder[donated_for[donee]] \in MaybeThread
          BY <1>c, <5>1, Zenon
        <5> QED BY <3>2, <4>2, <5>1, <5>2, Zenon DEF Donations, MaybeThread, MaybeLock
      <4> QED BY <2>9, <4>1, <4>2, Zenon DEF donate_pri_acquire, RefileLock, RefileThread
    <3>11. list' \in [Lists -> Seq(Threads)]
      <4>1. CASE UNCHANGED list
        BY <1>b, <4>1, Zenon
      <4>2. CASE queue[donee] # NULL /\ list' = [list EXCEPT ![queue[donee]] =
                   InsertThread(list_remove(@, donee), donee, e_pri')]
        <5>1. queue[donee] \in Lists /\ list[queue[donee]] \in Seq(Threads)
          BY <1>a, <1>b, <3>2, <4>2, Zenon
        <5>2. list_remove(list[queue[donee]], donee) \in Seq(Threads)
          BY <5>1, RemoveSeq, Zenon
        <5>3. InsertThread(list_remove(list[queue[donee]], donee), donee, e_pri')
                \in Seq(Threads)
          BY <3>2, <5>2, InsertThreadFacts, Zenon
        <5> QED BY <1>b, <4>2, <5>1, <5>3, Zenon
      <4> QED BY <2>9, <4>1, <4>2, Zenon DEF donate_pri_acquire, RefileLock, RefileThread
    <3> QED BY <2>9, <3>3, <3>7, <3>8, <3>9, <3>10, <3>11, Zenon
      DEF donate_pri_acquire, RefileLock, RefileThread, TypeOK
  <2>10. CASE lock_release_up(t)
    <3>1. arg[t] \in AllSemas
      BY <1>d, <2>10, Zenon DEF lock_release_up, At, LockProtocol
    <3> QED BY <1>4, <2>10, <3>1, Zenon DEF lock_release_up
  <2> QED BY <1>6, <2>1, <2>2, <2>3, <2>4, <2>5, <2>6, <2>7, <2>8, <2>9, <2>10, Zenon DEF Step
<1>7. ASSUME NEW t \in Threads, Call(t) PROVE TypeOK'
  <2>1. ASSUME NEW c \in Threads, NEW p \in CreatePri[c], thread_create(t, c, p)
        PROVE  TypeOK'
    <3>1. p \in Pri
      BY <2>1, SynchAssumption, Zenon
    <3>2. list' \in [Lists -> Seq(Threads)]
      BY <1>b, <2>1, EnqueueType, Zenon DEF thread_create
    <3>3. pc' \in [Threads -> Pcs] /\ arg' \in [Threads -> Args]
      BY <1>2, <1>e, <2>1, <3>1, Zenon DEF thread_create, Pcs, IntrOn
    <3>4. /\ b_pri' \in [Threads -> Pri] /\ e_pri' \in [Threads -> Pri]
          /\ queue' \in [Threads -> Lists \cup {NULL}]
          /\ status' \in [Threads -> Statuses]
      BY <1>a, <1>d, <2>1, <3>1, Zenon DEF thread_create, Statuses
    <3> QED BY <2>1, <3>2, <3>3, <3>4, Zenon DEF thread_create, TypeOK
  <2>2. CASE thread_exit(t)
    <3>1. [status EXCEPT ![t] = "DYING"] \in [Threads -> Statuses]
      BY <1>a, Zenon DEF Statuses
    <3>2. /\ cur' \in Threads \cup {Idle} /\ list' \in [Lists -> Seq(Threads)]
          /\ status' \in [Threads -> Statuses]
      BY <1>b, <2>2, <3>1, ScheduleFacts, Zenon DEF thread_exit
    <3>3. pc' \in [Threads -> Pcs] /\ arg' \in [Threads -> Args]
      BY <1>2, <1>e, <2>2, Zenon DEF thread_exit, Pcs
    <3> QED BY <2>2, <3>2, <3>3, Zenon DEF thread_exit, TypeOK
  <2>3. ASSUME NEW p \in SetPri, thread_set_priority(t, p) PROVE TypeOK'
    <3>1. pc' \in [Threads -> Pcs] /\ arg' \in [Threads -> Args]
      BY <1>2, <1>e, <2>3, Zenon DEF thread_set_priority, Pcs, IntrOn
    <3>2. b_pri' \in [Threads -> Pri] /\ e_pri' \in [Threads -> Pri]
      BY <1>a, <2>3, SynchAssumption, Zenon DEF thread_set_priority
    <3> QED BY <2>3, <3>1, <3>2, Zenon DEF thread_set_priority, TypeOK
  <2>4. ASSUME NEW s \in Semas, sema_down(t, s) PROVE TypeOK'
    <3>1. pc' \in [Threads -> Pcs] /\ arg' \in [Threads -> Args]
      BY <1>2, <1>d, <1>e, <2>4, Zenon DEF sema_down, Pcs
    <3> QED BY <2>4, <3>1, Zenon DEF sema_down, TypeOK
  <2>5. ASSUME NEW s \in Semas, sema_try_down(t, s) PROVE TypeOK'
    <3>1. value' \in [AllSemas -> Nat]
      BY <1>c, <1>d, <2>5 DEF sema_try_down
    <3> QED BY <2>5, <3>1, Zenon DEF sema_try_down, TypeOK
  <2>6. ASSUME NEW s \in Semas, sema_up(t, s) PROVE TypeOK'
    BY <1>4, <1>d, <2>6, Zenon DEF sema_up
  <2>7. ASSUME NEW l \in Locks, lock_acquire(t, l) PROVE TypeOK'
    <3>1. pc' \in [Threads -> Pcs] /\ arg' \in [Threads -> Args]
      BY <1>2, <1>d, <1>e, <2>7, Zenon DEF lock_acquire, Pcs
    <3>2. don' \in Donations
      BY <1>c, <2>7 DEF lock_acquire, Donations, MaybeThread, MaybeLock
    <3>3. state' \in [Locks -> Int] /\ donated_for' \in [Threads -> MaybeLock]
      BY <1>c, <2>7 DEF lock_acquire, MaybeLock
    <3> QED BY <2>7, <3>1, <3>2, <3>3, Zenon DEF lock_acquire, TypeOK
  <2>8. ASSUME NEW l \in Locks, lock_try_acquire(t, l) PROVE TypeOK'
    <3>1. state' \in [Locks -> Int]
      BY <1>c, <2>8 DEF lock_try_acquire
    <3> QED BY <1>5, <1>a, <1>c, <2>8, <3>1, Zenon DEF lock_try_acquire
  <2>9. ASSUME NEW l \in Locks, lock_release(t, l) PROVE TypeOK'
    <3>1. lock_queue[t] \in Seq(Locks) /\ IsInjective(lock_queue[t])
      BY <1>b, Zenon DEF LockProtocol
    <3> DEFINE lq == list_remove(lock_queue[t], l)
    <3>2. lq \in Seq(Locks) /\ Range(lq) = Range(lock_queue[t]) \ {l}
      BY <3>1, RemoveElems, Zenon
    <3>3. lock_queue' = [lock_queue EXCEPT ![t] = lq]
      BY <2>9, Zenon DEF lock_release, RestoredPri
    <3> HIDE DEF lq
    <3>4. lock_queue' \in [Threads -> Seq(Locks)] /\ lock_queue'[t] = lq
      BY <1>b, <3>2, <3>3, Zenon
    <3>5. lq # <<>> => Head(lq) \in Range(lock_queue[t])
      BY <3>2, RangeFacts, Zenon
    <3>6. lq # <<>> => pri[Head(lq)] \in Pri
      BY <3>5, HeldPri, Zenon
    <3>7. e_pri' \in [Threads -> Pri]
      BY <1>a, <2>9, <3>4, <3>6, Zenon DEF lock_release, RestoredPri
    <3>8. pc' \in [Threads -> Pcs] /\ arg' \in [Threads -> Args]
      BY <1>2, <1>d, <1>e, <2>9, Zenon DEF lock_release, RestoredPri, Pcs, IntrOn
    <3>9. holder' \in [Locks -> MaybeThread]
      BY <1>c, <2>9, Zenon DEF lock_release, MaybeThread
    <3>10. pri' \in [Locks -> Pri \cup {0}]
      BY <1>c, <2>9, Zenon DEF lock_release
    <3>11. state' \in [Locks -> Int]
      BY <1>c, <2>9 DEF lock_release
    <3> QED BY <2>9, <3>4, <3>7, <3>8, <3>9, <3>10, <3>11, Zenon
       DEF lock_release, RestoredPri, TypeOK
  <2> QED BY <1>7, <2>1, <2>2, <2>3, <2>4, <2>5, <2>6, <2>7, <2>8, <2>9, Zenon DEF Call
<1>8. ASSUME NEW t \in Threads, timer_yield(t) PROVE TypeOK'
  BY <1>1, <1>8, <1>a, Zenon DEF timer_yield
<1>9. ASSUME NEW s \in Semas, intr_sema_up(s) PROVE TypeOK'
  BY <1>3, <1>9, <1>a, <1>d, Zenon DEF intr_sema_up
<1>10. CASE idle
  <2>1. /\ cur' \in Threads \cup {Idle} /\ list' \in [Lists -> Seq(Threads)]
        /\ status' \in [Threads -> Statuses]
    BY <1>10, <1>a, <1>b, ScheduleFacts, Zenon DEF idle
  <2> QED BY <1>10, <2>1, Zenon DEF idle, TypeOK
<1>11. CASE Halted
  BY <1>11, Zenon DEF Halted, vars, TypeOK
<1> QED BY <1>6, <1>7, <1>8, <1>9, <1>10, <1>11, Zenon DEF Next
-----------------------------------------------------------------------------
(* Locks and donation *)

\* The inductive invariant.
IInv ==
  /\ TypeOK
  /\ LockProtocol
  /\ MutualExclusion
  /\ HolderHasLock
  /\ LockQueueSorted
  /\ LockPriBound

\* A step takes u neither into nor out of lock_release(), and into
\* donate_pri_acquire() only with its locals set to a lock and its holder.
PcMove(u) ==
  \/ /\ pc'[u] = pc[u] /\ arg'[u] = arg[u]
     /\ pc[u] = "donate" => cur' = cur /\ don' = don
  \/ /\ pc[u] # "rel_up" /\ pc'[u] \notin {"rel_up", "donate"}
     /\ pc'[u] = "down" => arg'[u] \in AllSemas
  \/ /\ pc[u] # "rel_up" /\ pc'[u] = "donate" /\ cur' = u
     /\ arg'[u] \in Locks /\ don'.donor \in Threads /\ don'.lock \in Locks
     /\ don'.donee = holder[don'.lock]

\* Threads come into being but do not go back.
Alive ==
  /\ cur' \in Threads => status'[cur'] # "NONE"
  /\ \A u \in Threads : status'[u] = "NONE" => status[u] = "NONE"

\* Priorities are numbers.
LEMMA PriInt == Pri \cup {0} \subseteq Int
BY SynchAssumption

\* Steps that do not touch the locks.
LEMMA LockFrame ==
  ASSUME IInv, TypeOK', Alive,
         UNCHANGED <<lock_queue, holder, pri>>,
         \A l \in Locks : value'[l] = value[l],
         \A u \in Threads : PcMove(u),
         \A u \in Threads : e_pri'[u] >= e_pri[u] \/ lock_queue[u] = <<>>
  PROVE  IInv'
<1>1. LockProtocol'
  BY DEF IInv, LockProtocol, Alive, PcMove
<1>2. \A u \in Threads, l \in Locks : Owns(u, l)' <=> Owns(u, l)
  BY Zenon DEF Owns, PcMove
<1>3. MutualExclusion'
  BY <1>2, Zenon DEF IInv, MutualExclusion
<1>4. HolderHasLock' /\ LockQueueSorted'
  BY Zenon DEF IInv, HolderHasLock, LockQueueSorted
<1>5. ASSUME NEW l \in Locks, holder'[l] # NULL
      PROVE  pri'[l] <= e_pri'[holder'[l]]
  <2> DEFINE u == holder[l]
  <2>1. u \in Threads
    BY <1>5, Zenon DEF IInv, TypeOK, MaybeThread
  <2>2. l \in Range(lock_queue[u])
    BY <2>1, Zenon DEF IInv, HolderHasLock
  <2>3. lock_queue[u] \in Seq(Locks)
    BY <2>1, Zenon DEF IInv, TypeOK
  <2>4. lock_queue[u] # <<>>
    BY <2>2, <2>3, RangeFacts, Zenon
  <2>5. pri[l] <= e_pri[u] /\ e_pri'[u] >= e_pri[u]
    BY <1>5, <2>1, <2>4, Zenon DEF IInv, LockPriBound
  <2>6. pri[l] \in Pri \cup {0} /\ e_pri[u] \in Pri /\ e_pri'[u] \in Pri
    BY <2>1, Zenon DEF IInv, TypeOK
  <2>7. pri[l] \in Int /\ e_pri[u] \in Int /\ e_pri'[u] \in Int
    BY <2>6, PriInt, Zenon
  <2> QED BY <2>5, <2>7
<1>6. LockPriBound'
  BY <1>5, Zenon DEF LockPriBound
<1> QED BY <1>1, <1>3, <1>4, <1>6, Zenon DEF IInv

\* schedule() runs only threads that exist.
LEMMA ScheduleAlive ==
  ASSUME TypeOK, NEW ls \in [Lists -> Seq(Threads)], NEW t \in Threads, NEW x \in Statuses,
         x # "NONE", schedule(ls, [status EXCEPT ![t] = x])
  PROVE  Alive
<1>1. [status EXCEPT ![t] = x] \in [Threads -> Statuses]
  BY Zenon DEF TypeOK
<1>2. /\ cur' \in Threads => status'[cur'] # "NONE"
      /\ \A u \in Threads : status'[u] = "NONE" => [status EXCEPT ![t] = x][u] = "NONE"
  BY <1>1, ScheduleFacts, Zenon
<1>3. \A u \in Threads : [status EXCEPT ![t] = x][u] = "NONE" => status[u] = "NONE"
  BY Zenon DEF TypeOK
<1> QED BY <1>2, <1>3, Zenon DEF Alive

\* sema_up() makes nobody the running thread.
LEMMA UpAlive ==
  ASSUME TypeOK, LockProtocol, NEW s \in AllSemas, UpBody(s)
  PROVE  Alive
<1>1. UNCHANGED status \/ status' = [status EXCEPT ![Head(list[s])] = "READY"]
  BY Zenon DEF UpBody
<1>2. \A u \in Threads : status'[u] = status[u] \/ status'[u] = "READY"
  BY <1>1, Zenon DEF TypeOK
<1> QED BY <1>2, Zenon DEF Alive, LockProtocol, UpBody

\* Steps of the scheduler, of semaphores and of the client.
OtherStep(t) ==
  \/ thread_yield(t) \/ timer_yield(t) \/ thread_create_check(t)
  \/ sema_up_check(t) \/ sema_down_block(t) \/ sema_down_take(t)
  \/ donate_panic(t) \/ donate_stop(t) \/ thread_exit(t)
  \/ \E c \in Threads : \E p \in CreatePri[c] : thread_create(t, c, p)
  \/ \E p \in SetPri : thread_set_priority(t, p)
  \/ \E s \in Semas : sema_down(t, s) \/ sema_try_down(t, s) \/ sema_up(t, s)
  \/ \E l \in Locks : lock_acquire(t, l)

\* Priorities are integers, ordered as such.
LEMMA PriOrder == \A a, b \in Pri : a >= a /\ (a > b => a >= b)
BY PriInt

\* Steps of the scheduler, of semaphores and of the client keep the invariant.
LEMMA OtherSteps ==
  ASSUME IInv, TypeOK', NEW t \in Threads, OtherStep(t)
  PROVE  IInv'
<1> USE DEF prios, locks
<1>a. TypeOK /\ LockProtocol
  BY Zenon DEF IInv
<1>b. /\ pc \in [Threads -> Pcs] /\ arg \in [Threads -> Args]
      /\ status \in [Threads -> Statuses] /\ e_pri \in [Threads -> Pri]
  BY <1>a, Zenon DEF TypeOK
<1>c. list \in [Lists -> Seq(Threads)] /\ value \in [AllSemas -> Nat]
  BY <1>a, Zenon DEF TypeOK
<1>d. Locks \cap Semas = {} /\ Locks \subseteq AllSemas /\ Semas \subseteq AllSemas
  BY SynchAssumption, Zenon DEF AllSemas
<1>e. \A u \in Threads : pc[u] = "donate" => cur = u
  BY <1>a, Zenon DEF LockProtocol
<1>f. \A u \in Threads : e_pri[u] >= e_pri[u]
  BY <1>b, PriOrder, Zenon
<1>1. ASSUME NEW p \in Pcs, NEW a, p \notin {"rel_up", "donate"}, pc[t] # "rel_up",
             cur = t, p = "down" => a \in AllSemas, Goto(t, p, a)
      PROVE  \A u \in Threads : PcMove(u)
  BY <1>1, <1>b, <1>e, Zenon DEF Goto, PcMove
<1>2. UNCHANGED <<cur, status>> => Alive
  BY <1>a, Zenon DEF LockProtocol, Alive
<1>3. thread_enqueue(list, t, e_pri) \in [Lists -> Seq(Threads)]
  BY <1>c, EnqueueType, Zenon
<1>4. YieldBody(t) => Alive
  BY <1>3, <1>a, ScheduleAlive, Zenon DEF YieldBody, Statuses
<1>5. CASE thread_yield(t)
  <2>1. \A u \in Threads : PcMove(u)
    BY <1>1, <1>5, Zenon DEF thread_yield, At, Pcs, IntrOn
  <2> QED BY <1>4, <1>5, <1>f, <2>1, LockFrame, Zenon DEF thread_yield, YieldBody
<1>6. CASE timer_yield(t)
  <2>1. \A u \in Threads : pc[u] # "donate"
    BY <1>6, <1>e, SynchAssumption, Zenon DEF timer_yield, intr_enabled, IntrOn
  <2>2. \A u \in Threads : PcMove(u)
    BY <1>6, <2>1, Zenon DEF timer_yield, PcMove
  <2> QED BY <1>4, <1>6, <1>f, <2>2, LockFrame, Zenon DEF timer_yield, YieldBody
<1>7. CASE thread_create_check(t)
  <2>1. \A u \in Threads : PcMove(u)
    BY <1>1, <1>7, Zenon DEF thread_create_check, At, Pcs, IntrOn
  <2> QED BY <1>2, <1>7, <1>f, <2>1, LockFrame, Zenon DEF thread_create_check
<1>8. CASE sema_up_check(t)
  <2>1. \A u \in Threads : PcMove(u)
    BY <1>1, <1>8, Zenon DEF sema_up_check, At, Pcs, IntrOn
  <2> QED BY <1>2, <1>8, <1>f, <2>1, LockFrame, Zenon DEF sema_up_check
<1>9. CASE sema_down_block(t)
  <2> DEFINE ls == [list EXCEPT ![arg[t]] = InsertThread(@, t, e_pri)]
  <2>1. pc[t] = "down" /\ cur = t /\ arg[t] \in AllSemas /\ arg[t] \in Lists
    BY <1>9, <1>a, Zenon DEF sema_down_block, At, LockProtocol, Lists
  <2>2. InsertThread(list[arg[t]], t, e_pri) \in Seq(Threads)
    BY <1>c, <2>1, InsertThreadFacts, Zenon
  <2>3. ls \in [Lists -> Seq(Threads)]
    BY <1>c, <2>1, <2>2, Zenon
  <2>4. schedule(ls, [status EXCEPT ![t] = "BLOCKED"])
    BY <1>9, Zenon DEF sema_down_block
  <2> HIDE DEF ls
  <2>5. Alive
    BY <1>a, <2>3, <2>4, ScheduleAlive, Zenon DEF Statuses
  <2>6. \A u \in Threads : PcMove(u)
    BY <1>9, <1>e, <2>1, Zenon DEF sema_down_block, PcMove
  <2> QED BY <1>9, <1>f, <2>5, <2>6, LockFrame, Zenon DEF sema_down_block
<1>10. CASE sema_down_take(t)
  <2>1. \A u \in Threads : PcMove(u)
    BY <1>1, <1>10, Zenon DEF sema_down_take, At, Pcs, IntrOn
  <2>2. \A l \in Locks : value'[l] = value[l]
    BY <1>10, <1>c, <1>d, Zenon DEF sema_down_take
  <2> QED BY <1>2, <1>10, <1>f, <2>1, <2>2, LockFrame, Zenon DEF sema_down_take
<1>11. CASE donate_panic(t)
  <2>1. \A u \in Threads : PcMove(u)
    BY <1>11, Zenon DEF donate_panic, PcMove
  <2> QED BY <1>2, <1>11, <1>f, <2>1, LockFrame, Zenon DEF donate_panic
<1>12. CASE donate_stop(t)
  <2>1. cur = t /\ pc[t] = "donate" /\ arg[t] \in AllSemas
    BY <1>12, <1>a, <1>d, Zenon DEF donate_stop, At, LockProtocol
  <2>2. \A u \in Threads : PcMove(u)
    BY <1>12, <1>b, <1>e, <2>1, Zenon DEF donate_stop, DonationEnds, PcMove
  <2> QED BY <1>2, <1>12, <1>f, <2>2, LockFrame, Zenon DEF donate_stop
<1>13. CASE thread_exit(t)
  <2>1. \A u \in Threads : PcMove(u)
    BY <1>1, <1>13, Zenon DEF thread_exit, At, Pcs, IntrOn
  <2>2. Alive
    BY <1>13, <1>a, <1>c, ScheduleAlive, Zenon DEF thread_exit, Statuses
  <2> QED BY <1>13, <1>f, <2>1, <2>2, LockFrame, Zenon DEF thread_exit
<1>14. ASSUME NEW c \in Threads, NEW p \in CreatePri[c], thread_create(t, c, p)
       PROVE  IInv'
  <2>1. \A u \in Threads : PcMove(u)
    BY <1>1, <1>14, Zenon DEF thread_create, At, Pcs, IntrOn
  <2>2. Alive
    BY <1>14, <1>a, <1>b, Zenon DEF thread_create, Alive, LockProtocol
  <2>3. \A u \in Threads : e_pri'[u] >= e_pri[u] \/ lock_queue[u] = <<>>
    <3>1. lock_queue[c] = <<>>
      BY <1>14, <1>a, Zenon DEF thread_create, LockProtocol
    <3>2. \A u \in Threads \ {c} : e_pri'[u] = e_pri[u]
      BY <1>14, <1>b, Zenon DEF thread_create
    <3> QED BY <1>f, <3>1, <3>2, Zenon
  <2> QED BY <1>14, <2>1, <2>2, <2>3, LockFrame, Zenon DEF thread_create
<1>15. ASSUME NEW p \in SetPri, thread_set_priority(t, p) PROVE IInv'
  <2>1. \A u \in Threads : PcMove(u)
    BY <1>1, <1>15, Zenon DEF thread_set_priority, At, Pcs, IntrOn
  <2>2. \A u \in Threads : e_pri'[u] >= e_pri[u] \/ lock_queue[u] = <<>>
    <3>1. p \in Pri
      BY SynchAssumption, Zenon
    <3>2. p \in Pri /\ e_pri[t] \in Pri
      BY <1>b, <3>1, Zenon
    <3>3. CASE p > e_pri[t]
      <4>1. e_pri' = [e_pri EXCEPT ![t] = p]
        BY <1>15, <3>3, Zenon DEF thread_set_priority
      <4>2. e_pri'[t] = p
        BY <1>b, <4>1, Zenon
      <4>3. \A u \in Threads \ {t} : e_pri'[u] = e_pri[u]
        BY <1>b, <4>1, Zenon
      <4>4. p >= e_pri[t]
        BY <3>2, <3>3, PriOrder, Zenon
      <4> QED BY <1>f, <4>2, <4>3, <4>4, Zenon
    <3>4. CASE lock_queue[t] = <<>>
      BY <1>15, <1>b, <1>f, <3>4, Zenon DEF thread_set_priority
    <3>5. CASE ~(p > e_pri[t]) /\ lock_queue[t] # <<>>
      BY <1>15, <1>f, <3>5, Zenon DEF thread_set_priority
    <3> QED BY <3>3, <3>4, <3>5, Zenon
  <2> QED BY <1>2, <1>15, <2>1, <2>2, LockFrame, Zenon DEF thread_set_priority
<1>16. ASSUME NEW s \in Semas, sema_down(t, s) PROVE IInv'
  <2>1. \A u \in Threads : PcMove(u)
    BY <1>1, <1>16, <1>d, Zenon DEF sema_down, At, Pcs
  <2> QED BY <1>2, <1>16, <1>f, <2>1, LockFrame, Zenon DEF sema_down
<1>17. ASSUME NEW s \in Semas, sema_try_down(t, s) PROVE IInv'
  <2>1. \A u \in Threads : PcMove(u)
    BY <1>17, Zenon DEF sema_try_down, PcMove
  <2>2. \A l \in Locks : value'[l] = value[l]
    BY <1>17, <1>c, <1>d, Zenon DEF sema_try_down
  <2> QED BY <1>2, <1>17, <1>f, <2>1, <2>2, LockFrame, Zenon DEF sema_try_down
<1>18. ASSUME NEW s \in Semas, sema_up(t, s) PROVE IInv'
  <2>0. /\ cur = t /\ pc[t] = "run"
        /\ Goto(t, "run", NULL) \/ Goto(t, "up_chk", Head(list[s]))
    BY <1>18, Zenon DEF sema_up, SemaUp, At
  <2>1. \A u \in Threads : PcMove(u)
    <3>1. "run" \in Pcs /\ "up_chk" \in Pcs
      BY Zenon DEF Pcs, IntrOn
    <3>2. CASE Goto(t, "run", NULL)
      BY <1>1, <2>0, <3>1, <3>2, Zenon
    <3>3. CASE Goto(t, "up_chk", Head(list[s]))
      BY <1>1, <2>0, <3>1, <3>3, Zenon
    <3> QED BY <2>0, <3>2, <3>3, Zenon
  <2>2. \A l \in Locks : value'[l] = value[l]
    BY <1>18, <1>c, <1>d, Zenon DEF sema_up, SemaUp, UpBody
  <2>3. Alive
    BY <1>18, <1>a, <1>d, UpAlive, Zenon DEF sema_up, SemaUp
  <2> QED BY <1>18, <1>f, <2>1, <2>2, <2>3, LockFrame, Zenon DEF sema_up, SemaUp, UpBody
<1>19. ASSUME NEW l \in Locks, lock_acquire(t, l) PROVE IInv'
  <2>1. cur = t /\ pc[t] = "run"
    BY <1>19, Zenon DEF lock_acquire, At
  <2>2. CASE Goto(t, "down", l)
    <3>1. \A u \in Threads : PcMove(u)
      BY <1>1, <1>d, <2>1, <2>2, Zenon DEF Pcs
    <3> QED BY <1>2, <1>19, <1>f, <3>1, LockFrame, Zenon DEF lock_acquire
  <2>3. CASE /\ Goto(t, "donate", l)
             /\ don' = [donor |-> t, donee |-> holder[l], lock |-> l]
    <3>1. \A u \in Threads : PcMove(u)
      BY <1>19, <1>b, <1>e, <2>1, <2>3, Zenon DEF lock_acquire, Goto, PcMove
    <3> QED BY <1>2, <1>19, <1>f, <3>1, LockFrame, Zenon DEF lock_acquire
  <2> QED BY <1>19, <2>2, <2>3, Zenon DEF lock_acquire
<1> QED BY <1>5, <1>6, <1>7, <1>8, <1>9, <1>10, <1>11, <1>12, <1>13, <1>14, <1>15,
           <1>16, <1>17, <1>18, <1>19, Zenon DEF OtherStep
-----------------------------------------------------------------------------
\* The types of the variables the locks are about.
LEMMA LockTypes ==
  ASSUME IInv
  PROVE  /\ pri \in [Locks -> Int] /\ pri \in [Locks -> Pri \cup {0}]
         /\ e_pri \in [Threads -> Int] /\ e_pri \in [Threads -> Pri]
         /\ holder \in [Locks -> MaybeThread] /\ value \in [AllSemas -> Nat]
         /\ pc \in [Threads -> Pcs] /\ arg \in [Threads -> Args]
         /\ lock_queue \in [Threads -> Seq(Locks)]
         /\ Locks \subseteq AllSemas /\ NULL \notin Threads
<1>1. /\ holder \in [Locks -> MaybeThread] /\ value \in [AllSemas -> Nat]
      /\ pri \in [Locks -> Pri \cup {0}] /\ e_pri \in [Threads -> Pri]
      /\ pc \in [Threads -> Pcs] /\ arg \in [Threads -> Args]
      /\ lock_queue \in [Threads -> Seq(Locks)]
  BY Zenon DEF IInv, TypeOK
<1>2. pri \in [Locks -> Int] /\ e_pri \in [Threads -> Int]
  BY <1>1, PriInt, Zenon
<1>3. Locks \subseteq AllSemas /\ NULL \notin Threads
  BY SynchAssumption, Zenon DEF AllSemas
<1> QED BY <1>1, <1>2, <1>3, Zenon

\* What the invariant says of the locks a thread holds.
LEMMA LockFacts ==
  ASSUME IInv
  PROVE  /\ \A t \in Threads : lock_queue[t] \in Seq(Locks) /\ IsInjective(lock_queue[t])
                               /\ Range(lock_queue[t]) \subseteq Locks
                               /\ Descending(lock_queue[t], pri)
         /\ \A u \in Threads : pc[u] = "donate" => cur = u
         /\ \A u \in Threads : pc[u] = "rel_up" =>
              arg[u] \in Locks /\ arg[u] \notin Range(lock_queue[u])
         /\ \A t \in Threads, l \in Locks : holder[l] = t <=> l \in Range(lock_queue[t])
         /\ \A l \in Locks : holder[l] # NULL => holder[l] \in Threads /\ pri[l] \in Pri
<1>1. LockProtocol /\ HolderHasLock /\ LockQueueSorted
  BY Zenon DEF IInv
<1>2. \A t \in Threads : lock_queue[t] \in Seq(Locks) /\ IsInjective(lock_queue[t])
                         /\ Descending(lock_queue[t], pri)
  BY <1>1, LockTypes, Zenon DEF LockProtocol, LockQueueSorted
<1>3. \A t \in Threads : Range(lock_queue[t]) \subseteq Locks
  BY <1>2, RangeFacts, Zenon
<1>4. \A l \in Locks : holder[l] # NULL => holder[l] \in Threads /\ pri[l] \in Pri
  BY <1>1, LockTypes, Zenon DEF LockProtocol, MaybeThread
<1>5. /\ \A u \in Threads : pc[u] = "donate" => cur = u
      /\ \A u \in Threads : pc[u] = "rel_up" =>
           arg[u] \in Locks /\ arg[u] \notin Range(lock_queue[u])
  BY <1>1, Zenon DEF LockProtocol
<1>6. \A t \in Threads, l \in Locks : holder[l] = t <=> l \in Range(lock_queue[t])
  BY <1>1, Zenon DEF HolderHasLock
<1> QED BY <1>2, <1>3, <1>4, <1>5, <1>6, Zenon

\* lock_acquire() and lock_try_acquire() take a lock that nobody has.
LEMMA TakeStep ==
  ASSUME IInv, TypeOK', NEW t \in Threads, lock_acquire_take(t) \/
           \E l \in Locks : lock_try_acquire(t, l)
  PROVE  IInv'
<1>a. PICK l \in Locks :
        /\ TakeLock(t, l) /\ value[l] > 0 /\ cur = t /\ pc[t] # "rel_up"
        /\ pc[t] # "donate" /\ pc'[t] = "run"
        /\ \A u \in Threads \ {t} : pc'[u] = pc[u] /\ arg'[u] = arg[u]
  <2>1. pc \in [Threads -> Pcs] /\ arg \in [Threads -> Args]
    BY LockTypes, Zenon
  <2> QED BY <2>1, Zenon DEF lock_acquire_take, lock_try_acquire, At, Goto
<1>b. /\ pri' = [pri EXCEPT ![l] = e_pri[t]] /\ holder' = [holder EXCEPT ![l] = t]
      /\ lock_queue' = [lock_queue EXCEPT ![t] = InsertLock(@, l, pri')]
      /\ value' = [value EXCEPT ![l] = @ - 1] /\ UNCHANGED <<cur, status, e_pri>>
  BY <1>a, Zenon DEF TakeLock, prios
<1>1. value[l] = 1 /\ \A u \in Threads : ~Owns(u, l)
  BY <1>a DEF IInv, MutualExclusion
<1>2. /\ \A u \in Threads : l \notin Range(lock_queue[u])
      /\ \A u \in Threads : ~(pc[u] = "rel_up" /\ arg[u] = l)
  BY <1>1, Zenon DEF Owns
<1>3. pri' \in [Locks -> Int] /\ pri'[l] = e_pri[t]
      /\ \A k \in Locks \ {l} : pri'[k] = pri[k]
  BY <1>b, LockTypes, Zenon
<1>4. Descending(lock_queue[t], pri') /\ \A u \in Threads : Descending(lock_queue[u], pri')
  <2> SUFFICES ASSUME NEW u \in Threads PROVE Descending(lock_queue[u], pri')
    OBVIOUS
  <2>1. \A k \in Range(lock_queue[u]) : pri'[k] = pri[k]
    BY <1>2, <1>3, LockFacts
  <2>2. Descending(lock_queue[u], pri) /\ lock_queue[u] \in Seq(Locks)
    BY LockFacts, Zenon
  <2> QED BY <2>1, <2>2, DescendingKeys, Zenon
<1> DEFINE lq == InsertLock(lock_queue[t], l, pri')
<1>5. /\ lq \in Seq(Locks) /\ Range(lq) = Range(lock_queue[t]) \cup {l}
      /\ IsInjective(lq) /\ Descending(lq, pri')
  <2>1. lock_queue[t] \in Seq(Locks) /\ IsInjective(lock_queue[t])
    BY LockFacts, Zenon
  <2> QED BY <1>2, <1>3, <1>4, <2>1, InsertLockFacts, Zenon
<1> HIDE DEF lq
<1>6. lock_queue'[t] = lq /\ \A u \in Threads \ {t} : lock_queue'[u] = lock_queue[u]
  BY <1>b, LockTypes, Zenon DEF lq
<1>7. holder'[l] = t /\ \A k \in Locks \ {l} : holder'[k] = holder[k]
  BY <1>b, LockTypes, Zenon
<1>8. value'[l] = 0 /\ \A k \in Locks \ {l} : value'[k] = value[k]
  BY <1>1, <1>b, LockTypes
<1>9. LockProtocol'
  <2>0. LockProtocol
    BY Zenon DEF IInv
  <2>1. cur' \in Threads /\ status'[cur'] # "NONE" /\ status[t] # "NONE"
    BY <1>a, <1>b, <2>0, Zenon DEF LockProtocol
  <2>2. ASSUME NEW u \in Threads
        PROVE  /\ IsInjective(lock_queue'[u])
               /\ status'[u] = "NONE" => lock_queue'[u] = <<>>
               /\ pc'[u] = "down" => arg'[u] \in AllSemas
               /\ pc'[u] = "rel_up" => arg'[u] \in Locks
                                       /\ arg'[u] \notin Range(lock_queue'[u])
               /\ pc'[u] # "donate"
    <3>1. CASE u = t
      BY <1>a, <1>b, <1>5, <1>6, <2>1, <3>1, Zenon
    <3>2. CASE u # t
      BY <1>a, <1>b, <1>6, <2>0, <3>2, Zenon DEF LockProtocol
    <3> QED BY <3>1, <3>2, Zenon
  <2>3. ASSUME NEW k \in Locks, holder'[k] # NULL PROVE pri'[k] \in Pri
    <3>1. e_pri[t] \in Pri /\ (holder[k] # NULL => pri[k] \in Pri)
      BY LockTypes, LockFacts, Zenon
    <3> QED BY <1>3, <1>7, <2>3, <3>1, Zenon
  <2> QED BY <2>1, <2>2, <2>3, Zenon DEF LockProtocol
<1>10. MutualExclusion'
  <2>1. \A u \in Threads : Owns(u, l)' <=> u = t
    BY <1>2, <1>5, <1>6, <1>a, Zenon DEF Owns
  <2>2. \A u \in Threads, k \in Locks \ {l} : Owns(u, k)' <=> Owns(u, k)
    BY <1>5, <1>6, <1>a, Zenon DEF Owns
  <2>3. MutualExclusion
    BY Zenon DEF IInv
  <2> SUFFICES ASSUME NEW k \in Locks
               PROVE  /\ value'[k] \in {0, 1}
                      /\ \A u, w \in Threads : Owns(u, k)' /\ Owns(w, k)' => u = w
                      /\ value'[k] = 1 <=> \A u \in Threads : ~Owns(u, k)'
    BY Zenon DEF MutualExclusion
  <2>4. CASE k = l
    BY <1>8, <2>1, <2>4
  <2>5. CASE k # l
    BY <1>8, <2>2, <2>3, <2>5, Zenon DEF MutualExclusion
  <2> QED BY <2>4, <2>5, Zenon
<1>11. HolderHasLock'
  <2>1. \A u \in Threads, k \in Locks : holder[k] = u <=> k \in Range(lock_queue[u])
    BY LockFacts, Zenon
  <2>2. \A u \in Threads, k \in Locks : holder'[k] = u <=> k \in Range(lock_queue'[u])
    BY <1>2, <1>5, <1>6, <1>7, <2>1
  <2> QED BY <2>2, Zenon DEF HolderHasLock
<1>12. LockQueueSorted'
  BY <1>4, <1>5, <1>6, Zenon DEF LockQueueSorted
<1>13. LockPriBound'
  <2>1. \A k \in Locks \ {l} : holder'[k] # NULL => pri'[k] <= e_pri'[holder'[k]]
    BY <1>3, <1>7, <1>b, Zenon DEF IInv, LockPriBound
  <2>2. e_pri[t] <= e_pri[t]
    BY LockTypes
  <2> QED BY <1>3, <1>7, <1>b, <2>1, <2>2, Zenon DEF LockPriBound
<1> QED BY <1>9, <1>10, <1>11, <1>12, <1>13, Zenon DEF IInv

\* The first half of lock_release(): t no longer holds l but still owns it.
LEMMA ReleaseStep ==
  ASSUME IInv, TypeOK', NEW t \in Threads, NEW l \in Locks, lock_release(t, l)
  PROVE  IInv'
<1> DEFINE lq == list_remove(lock_queue[t], l)
<1>a. /\ cur = t /\ pc[t] = "run" /\ holder[l] = t
      /\ holder' = [holder EXCEPT ![l] = NULL] /\ pri' = [pri EXCEPT ![l] = 0]
      /\ lock_queue' = [lock_queue EXCEPT ![t] = lq]
      /\ e_pri' = [e_pri EXCEPT ![t] = IF lock_queue'[t] = <<>> THEN b_pri[t]
                                       ELSE pri[Head(lock_queue'[t])]]
      /\ pc' = [pc EXCEPT ![t] = "rel_up"] /\ arg' = [arg EXCEPT ![t] = l]
      /\ UNCHANGED <<cur, status, value>>
  BY Zenon DEF lock_release, RestoredPri, At, Goto
<1>1. /\ lq \in Seq(Locks) /\ IsInjective(lq) /\ Range(lq) = Range(lock_queue[t]) \ {l}
      /\ Descending(lq, pri)
  <2>1. /\ lock_queue[t] \in Seq(Locks) /\ IsInjective(lock_queue[t])
        /\ Descending(lock_queue[t], pri) /\ pri \in [Locks -> Int]
    BY LockTypes, LockFacts, Zenon
  <2> QED BY <2>1, RemoveElems, Zenon
<1> HIDE DEF lq
<1>2. lock_queue'[t] = lq /\ \A u \in Threads \ {t} : lock_queue'[u] = lock_queue[u]
  BY <1>a, LockTypes, Zenon
<1>3. holder'[l] = NULL /\ \A k \in Locks \ {l} : holder'[k] = holder[k] /\ pri'[k] = pri[k]
  BY <1>a, LockTypes, Zenon
<1>4. \A u \in Threads \ {t} : e_pri'[u] = e_pri[u] /\ pc'[u] = pc[u] /\ arg'[u] = arg[u]
  BY <1>a, LockTypes, Zenon
<1>5. pc'[t] = "rel_up" /\ arg'[t] = l
  BY <1>a, LockTypes, Zenon
<1>6. /\ \A u \in Threads, k \in Locks : holder[k] = u <=> k \in Range(lock_queue[u])
      /\ NULL \notin Threads
  BY LockTypes, LockFacts, Zenon
<1>7. HolderHasLock'
  <2> SUFFICES ASSUME NEW u \in Threads, NEW k \in Locks
               PROVE  holder'[k] = u <=> k \in Range(lock_queue'[u])
    BY Zenon DEF HolderHasLock
  <2>1. holder[k] = u <=> k \in Range(lock_queue[u])
    BY <1>6, Zenon
  <2>2. CASE k = l
    <3>1. holder'[l] # u
      BY <1>3, <1>6, Zenon
    <3>2. l \notin Range(lock_queue'[u])
      BY <1>1, <1>2, <1>a, <2>1, <2>2, Zenon
    <3> QED BY <2>2, <3>1, <3>2, Zenon
  <2>3. CASE k # l
    <3>1. holder'[k] = holder[k]
      BY <1>3, <2>3, Zenon
    <3>2. k \in Range(lock_queue'[u]) <=> k \in Range(lock_queue[u])
      BY <1>1, <1>2, <2>3, Zenon
    <3> QED BY <2>1, <3>1, <3>2, Zenon
  <2> QED BY <2>2, <2>3, Zenon
<1>8. LockProtocol'
  <2>0. LockProtocol
    BY Zenon DEF IInv
  <2>1. cur' \in Threads /\ status'[cur'] # "NONE"
    BY <1>a, <2>0, Zenon DEF LockProtocol
  <2>2. ASSUME NEW u \in Threads
        PROVE  /\ IsInjective(lock_queue'[u])
               /\ status'[u] = "NONE" => lock_queue'[u] = <<>>
               /\ pc'[u] = "down" => arg'[u] \in AllSemas
               /\ pc'[u] = "rel_up" => arg'[u] \in Locks
                                       /\ arg'[u] \notin Range(lock_queue'[u])
               /\ pc'[u] # "donate"
    <3>1. CASE u = t
      BY <1>1, <1>2, <1>5, <1>a, <2>1, <3>1, Zenon
    <3>2. CASE u # t
      BY <1>2, <1>4, <1>a, <2>0, <3>2, Zenon DEF LockProtocol
    <3> QED BY <3>1, <3>2, Zenon
  <2>3. ASSUME NEW k \in Locks, holder'[k] # NULL PROVE pri'[k] \in Pri
    <3>1. holder[k] # NULL => pri[k] \in Pri
      BY LockFacts, Zenon
    <3> QED BY <1>3, <2>3, <3>1, Zenon
  <2> QED BY <2>1, <2>2, <2>3, Zenon DEF LockProtocol
<1>9. MutualExclusion'
  <2>1. l \in Range(lock_queue[t])
    BY <1>6, <1>a, Zenon
  <2>2. \A u \in Threads, k \in Locks : Owns(u, k)' <=> Owns(u, k)
    BY <1>1, <1>2, <1>4, <1>5, <1>a, <2>1, Zenon DEF Owns
  <2> QED BY <1>a, <2>2, Zenon DEF IInv, MutualExclusion
<1>10. LockQueueSorted'
  <2> SUFFICES ASSUME NEW u \in Threads PROVE Descending(lock_queue'[u], pri')
    BY Zenon DEF LockQueueSorted
  <2>1. lock_queue'[u] \in Seq(Locks) /\ Descending(lock_queue'[u], pri)
    BY <1>1, <1>2, LockFacts, Zenon
  <2>2. l \notin Range(lock_queue'[u])
    <3>1. holder'[l] = u <=> l \in Range(lock_queue'[u])
      BY <1>7, Zenon DEF HolderHasLock
    <3> QED BY <1>3, <1>6, <3>1, Zenon
  <2>3. \A k \in Range(lock_queue'[u]) : pri'[k] = pri[k]
    BY <1>3, <2>1, <2>2, RangeFacts, Zenon
  <2> QED BY <2>1, <2>3, DescendingKeys, Zenon
<1>11. LockPriBound'
  <2> SUFFICES ASSUME NEW k \in Locks, holder'[k] # NULL
               PROVE  pri'[k] <= e_pri'[holder'[k]]
    BY Zenon DEF LockPriBound
  <2>1. k # l /\ holder'[k] = holder[k] /\ pri'[k] = pri[k] /\ holder[k] \in Threads
    BY <1>3, LockFacts, Zenon
  <2>2. CASE holder[k] # t
    BY <1>4, <2>1, <2>2, Zenon DEF IInv, LockPriBound
  <2>3. CASE holder[k] = t
    <3>1. k \in Range(lq)
      BY <1>1, <1>6, <2>1, <2>3, Zenon
    <3>2. lq # <<>>
      BY <1>1, <3>1, RangeFacts, Zenon
    <3>3. e_pri'[t] = pri[Head(lq)]
      BY <1>2, <1>a, <3>2, LockTypes, Zenon
    <3>4. pri[Head(lq)] >= pri[k] /\ pri \in [Locks -> Int]
      BY <1>1, <3>1, HeadGreatest, LockTypes, Zenon
    <3>5. pri[Head(lq)] \in Int /\ pri[k] \in Int
      BY <1>1, <3>2, <3>4, RangeFacts, Zenon
    <3> QED BY <2>1, <2>3, <3>3, <3>4, <3>5, Zenon
  <2> QED BY <2>2, <2>3, Zenon
<1> QED BY <1>7, <1>8, <1>9, <1>10, <1>11, Zenon DEF IInv

\* The second half of lock_release() gives the lock up.
LEMMA ReleaseUpStep ==
  ASSUME IInv, TypeOK', NEW t \in Threads, lock_release_up(t)
  PROVE  IInv'
<1>p. PICK l \in Locks : l = arg[t] /\ l \notin Range(lock_queue[t])
  BY LockFacts, Zenon DEF lock_release_up, At
<1>a. cur = t /\ pc[t] = "rel_up" /\ SemaUp(t, l)
  BY <1>p, Zenon DEF lock_release_up, At
<1>b. l \in AllSemas
  BY LockTypes, Zenon
<1>c. /\ value' = [value EXCEPT ![l] = @ + 1]
      /\ UNCHANGED <<lock_queue, holder, pri, e_pri, cur>> /\ UpBody(l)
  BY <1>a, Zenon DEF SemaUp, UpBody, locks, prios
<1>d. pc'[t] \in {"run", "up_chk"}
      /\ \A u \in Threads \ {t} : pc'[u] = pc[u] /\ arg'[u] = arg[u]
  BY <1>a, LockTypes, Zenon DEF SemaUp, Goto
<1>1. Owns(t, l) /\ value[l] = 0 /\ \A u \in Threads : Owns(u, l) => u = t
  BY <1>a, <1>p, Zenon DEF Owns, IInv, MutualExclusion
<1>2. value'[l] = 1 /\ \A k \in Locks \ {l} : value'[k] = value[k]
  BY <1>1, <1>b, <1>c, LockTypes
<1>3. MutualExclusion'
  <2>1. \A u \in Threads : ~Owns(u, l)'
    BY <1>1, <1>p, <1>c, <1>d, Zenon DEF Owns
  <2>2. \A u \in Threads, k \in Locks \ {l} : Owns(u, k)' <=> Owns(u, k)
    BY <1>a, <1>c, <1>d, <1>p, Zenon DEF Owns
  <2> QED BY <1>2, <2>1, <2>2 DEF IInv, MutualExclusion
<1>4. HolderHasLock' /\ LockQueueSorted' /\ LockPriBound'
  BY <1>c, Zenon DEF IInv, HolderHasLock, LockQueueSorted, LockPriBound
<1>5. LockProtocol'
  <2>1. Alive
    BY <1>b, <1>c, UpAlive, Zenon DEF IInv
  <2>2. \A u \in Threads \ {t} : pc[u] # "donate"
    BY <1>a, LockFacts, Zenon
  <2> QED BY <1>c, <1>d, <2>1, <2>2, Zenon DEF IInv, LockProtocol, Alive
<1> QED BY <1>3, <1>4, <1>5, Zenon DEF IInv

\* A round of donate_pri_acquire() raises one lock and its holder.
LEMMA DonateStep ==
  ASSUME IInv, TypeOK', NEW t \in Threads, donate_pri_acquire(t)
  PROVE  IInv'
<1>a. PICK l \in Locks, donee \in Threads, p \in Pri :
        l = don.lock /\ donee = don.donee /\ p = e_pri[don.donor] /\ holder[l] = donee
  <2>1. /\ don.lock \in Locks /\ don.donor \in Threads /\ don.donee = holder[don.lock]
        /\ don.donee # NULL
    BY Zenon DEF donate_pri_acquire, RefileLock, RefileThread, At, IInv, LockProtocol
  <2>2. don.donee \in Threads /\ e_pri[don.donor] \in Pri
    BY <2>1, LockTypes, Zenon DEF MaybeThread
  <2> QED BY <2>1, <2>2, Zenon
<1>b. /\ cur = t /\ pc[t] = "donate" /\ pri[l] < p /\ pri' = [pri EXCEPT ![l] = p]
      /\ UNCHANGED <<cur, status, holder, value, arg>>
  BY <1>a, Zenon DEF donate_pri_acquire, RefileLock, RefileThread, At
<1>c. p \in Int /\ arg[t] \in AllSemas
  BY <1>b, PriInt, LockTypes, Zenon DEF IInv, LockProtocol
<1>1. /\ \A u \in Threads, k \in Locks : holder[k] = u <=> k \in Range(lock_queue[u])
      /\ l \in Range(lock_queue[donee])
  BY <1>a, LockFacts, Zenon
<1>2. pri' \in [Locks -> Int] /\ pri'[l] = p /\ \A k \in Locks \ {l} : pri'[k] = pri[k]
  BY <1>b, <1>c, LockTypes, Zenon
<1> DEFINE rest == list_remove(lock_queue[donee], l)
           lq == InsertLock(rest, l, pri')
<1>3. /\ rest \in Seq(Locks) /\ IsInjective(rest) /\ Descending(rest, pri)
      /\ Range(rest) = Range(lock_queue[donee]) \ {l}
  <2>1. /\ lock_queue[donee] \in Seq(Locks) /\ IsInjective(lock_queue[donee])
        /\ Descending(lock_queue[donee], pri) /\ pri \in [Locks -> Int]
    BY LockTypes, LockFacts, Zenon
  <2> QED BY <2>1, RemoveElems, Zenon
<1>4. lock_queue' = [lock_queue EXCEPT ![donee] = lq]
  BY <1>a, Zenon DEF donate_pri_acquire, RefileLock, RefileThread
<1> HIDE DEF rest
<1>5. Descending(rest, pri')
  <2>1. \A k \in Range(rest) : pri'[k] = pri[k]
    BY <1>2, <1>3, RangeFacts, Zenon
  <2> QED BY <1>3, <2>1, DescendingKeys, Zenon
<1>6. /\ lq \in Seq(Locks) /\ IsInjective(lq) /\ Descending(lq, pri')
      /\ Range(lq) = Range(lock_queue[donee])
  <2>1. /\ lq \in Seq(Locks) /\ IsInjective(lq) /\ Descending(lq, pri')
        /\ Range(lq) = Range(rest) \cup {l}
    BY <1>2, <1>3, <1>5, InsertLockFacts, Zenon
  <2>2. Range(lock_queue[donee]) = (Range(lock_queue[donee]) \ {l}) \cup {l}
    BY <1>1, Zenon
  <2> QED BY <1>3, <2>1, <2>2, Zenon
<1> HIDE DEF lq
<1>7. /\ lock_queue'[donee] = lq
      /\ \A u \in Threads \ {donee} : lock_queue'[u] = lock_queue[u]
      /\ \A u \in Threads : Range(lock_queue'[u]) = Range(lock_queue[u])
  BY <1>4, <1>6, LockTypes, Zenon
<1>8. /\ pc'[t] \in {"donate", "down"} /\ \A u \in Threads \ {t} : pc'[u] = pc[u]
      /\ \A u \in Threads : pc'[u] = "rel_up" <=> pc[u] = "rel_up"
  <2>1. UNCHANGED pc \/ pc' = [pc EXCEPT ![t] = "down"]
    BY Zenon DEF donate_pri_acquire, RefileLock, RefileThread, DonationEnds
  <2> QED BY <1>b, <2>1, LockTypes, Zenon
<1>9. MutualExclusion'
  <2>1. \A u \in Threads, k \in Locks : Owns(u, k)' <=> Owns(u, k)
    BY <1>7, <1>8, <1>b, Zenon DEF Owns
  <2> QED BY <1>b, <2>1, Zenon DEF IInv, MutualExclusion
<1>10. HolderHasLock'
  BY <1>1, <1>7, <1>b, Zenon DEF HolderHasLock
<1>11. LockQueueSorted'
  <2> SUFFICES ASSUME NEW u \in Threads PROVE Descending(lock_queue'[u], pri')
    BY Zenon DEF LockQueueSorted
  <2>1. CASE u = donee
    BY <1>6, <1>7, <2>1, Zenon
  <2>2. CASE u # donee
    <3>1. lock_queue[u] \in Seq(Locks) /\ Descending(lock_queue[u], pri)
      BY LockFacts, Zenon
    <3>2. l \notin Range(lock_queue[u])
      BY <1>1, <1>a, <2>2, Zenon
    <3>3. \A k \in Range(lock_queue[u]) : pri'[k] = pri[k]
      BY <1>2, <3>1, <3>2, RangeFacts, Zenon
    <3> QED BY <1>7, <2>2, <3>1, <3>3, DescendingKeys, Zenon
  <2> QED BY <2>1, <2>2, Zenon
<1>12. LockPriBound'
  <2>1. e_pri \in [Threads -> Int] /\ pri \in [Locks -> Int]
    BY LockTypes, Zenon
  <2>2. /\ \A u \in Threads \ {donee} : e_pri'[u] = e_pri[u]
        /\ e_pri'[donee] \in Int /\ e_pri'[donee] >= p /\ e_pri'[donee] >= e_pri[donee]
    <3>1. CASE p <= e_pri[donee] /\ UNCHANGED e_pri
      BY <1>c, <2>1, <3>1
    <3>2. CASE ~(p <= e_pri[donee]) /\ e_pri' = [e_pri EXCEPT ![donee] = p]
      BY <1>c, <2>1, <3>2
    <3> QED BY <1>a, <3>1, <3>2, Zenon DEF donate_pri_acquire, RefileLock, RefileThread
  <2> SUFFICES ASSUME NEW k \in Locks, holder'[k] # NULL
               PROVE  pri'[k] <= e_pri'[holder'[k]]
    BY Zenon DEF LockPriBound
  <2>3. holder'[k] = holder[k] /\ holder[k] \in Threads /\ pri[k] <= e_pri[holder[k]]
    BY <1>b, LockFacts, Zenon DEF IInv, LockPriBound
  <2>4. CASE k = l
    BY <1>2, <1>a, <1>c, <2>2, <2>3, <2>4, Zenon
  <2>5. CASE k # l /\ holder[k] # donee
    BY <1>2, <2>2, <2>3, <2>5, Zenon
  <2>6. CASE k # l /\ holder[k] = donee
    <3>1. pri'[k] = pri[k] /\ pri[k] \in Int /\ e_pri[donee] \in Int
      BY <1>2, <2>1, <2>6, Zenon
    <3> QED BY <2>2, <2>3, <2>6, <3>1
  <2> QED BY <2>4, <2>5, <2>6, Zenon
<1>13. LockProtocol'
  <2>1. \A u \in Threads : /\ IsInjective(lock_queue'[u])
                           /\ lock_queue[u] = <<>> => lock_queue'[u] = <<>>
    <3>1. \A u \in Threads : IsInjective(lock_queue'[u])
      BY <1>6, <1>7, LockFacts, Zenon
    <3>2. lock_queue[donee] # <<>>
      BY <1>1, LockFacts, RangeFacts, Zenon
    <3> QED BY <1>7, <3>1, <3>2, Zenon
  <2>2. pc'[t] = "donate" => /\ don'.donor \in Threads /\ don'.lock \in Locks
                             /\ don'.donee = holder[don'.lock]
    <3> SUFFICES ASSUME pc'[t] = "donate"
                 PROVE  /\ don'.donor \in Threads /\ don'.lock \in Locks
                        /\ don'.donee = holder[don'.lock]
      OBVIOUS
    <3>1. ~DonationEnds(t)
      BY LockTypes, Zenon DEF DonationEnds
    <3>2. /\ donated_for[donee] # NULL
          /\ don' = [donor |-> donee, donee |-> holder[donated_for[donee]],
                     lock |-> donated_for[donee]]
      BY <1>a, <3>1, Zenon DEF donate_pri_acquire, RefileLock, RefileThread
    <3>3. donated_for[donee] \in Locks
      BY <3>2, Zenon DEF IInv, TypeOK, MaybeLock
    <3> QED BY <3>2, <3>3, Zenon
  <2>3. /\ arg[t] \in Locks /\ \A u \in Threads \ {t} : pc[u] # "donate"
    BY <1>b, LockFacts, Zenon DEF IInv, LockProtocol
  <2>4. \A k \in Locks : holder'[k] # NULL => pri'[k] \in Pri
    BY <1>2, <1>a, <1>b, LockFacts, Zenon
  <2>5. ASSUME NEW u \in Threads
        PROVE  /\ IsInjective(lock_queue'[u])
               /\ status'[u] = "NONE" => lock_queue'[u] = <<>>
               /\ pc'[u] = "down" => arg'[u] \in AllSemas
               /\ pc'[u] = "rel_up" => arg'[u] \in Locks
                                       /\ arg'[u] \notin Range(lock_queue'[u])
               /\ pc'[u] = "donate" => u = t
    BY <1>7, <1>8, <1>b, <1>c, <2>1, <2>3, Zenon DEF IInv, LockProtocol
  <2> QED BY <1>b, <2>2, <2>3, <2>4, <2>5, Zenon DEF IInv, LockProtocol
<1> QED BY <1>9, <1>10, <1>11, <1>12, <1>13, Zenon DEF IInv
-----------------------------------------------------------------------------
\* The invariant holds at boot.
LEMMA InitInv == ASSUME Init PROVE IInv
<1>1. TypeOK
  <2>1. /\ cur \in Threads \cup {Idle} /\ status \in [Threads -> Statuses]
        /\ b_pri \in [Threads -> Pri] /\ e_pri \in [Threads -> Pri]
        /\ panic \in {NULL, "donee != NULL"}
    BY SynchAssumption, Zenon DEF Init, Statuses
  <2>2. /\ queue \in [Threads -> Lists \cup {NULL}]
        /\ donated_for \in [Threads -> MaybeLock] /\ holder \in [Locks -> MaybeThread]
        /\ don \in Donations
    BY Zenon DEF Init, MaybeLock, MaybeThread, Donations
  <2>3. lock_queue \in [Threads -> Seq(Locks)] /\ list \in [Lists -> Seq(Threads)]
    <3>1. <<>> \in Seq(Locks) /\ <<>> \in Seq(Threads)
      OBVIOUS
    <3> QED BY <3>1, Zenon DEF Init
  <2>4. /\ pri \in [Locks -> Pri \cup {0}] /\ state \in [Locks -> Int]
        /\ pc \in [Threads -> Pcs] /\ arg \in [Threads -> Args]
    BY SMTT(60) DEF Init, Pcs, IntrOn, Args, MaybeThread
  <2>5. value \in [AllSemas -> Nat]
    BY SynchAssumption, Zenon DEF Init, AllSemas
  <2> QED BY <2>1, <2>2, <2>3, <2>4, <2>5, Zenon DEF TypeOK
<1>2. \A t \in Threads : lock_queue[t] = <<>> /\ pc[t] = "run"
  BY Zenon DEF Init
<1>3. Range(<<>>) = {} /\ IsInjective(<<>>)
  BY DEF Range, IsInjective
<1>4. LockProtocol
  BY <1>2, <1>3, SynchAssumption, Zenon DEF Init, LockProtocol
<1>5. MutualExclusion
  <2>1. \A l \in Locks : value[l] = 1
    BY Zenon DEF Init, AllSemas
  <2> QED BY <1>2, <1>3, <2>1, Zenon DEF MutualExclusion, Owns
<1>6. HolderHasLock
  BY <1>2, <1>3, SynchAssumption, Zenon DEF Init, HolderHasLock
<1>7. LockQueueSorted
  BY <1>2 DEF LockQueueSorted, Descending
<1>8. LockPriBound
  BY Zenon DEF Init, LockPriBound
<1> QED BY <1>1, <1>4, <1>5, <1>6, <1>7, <1>8, Zenon DEF IInv

\* Every step keeps it.
LEMMA NextInv == ASSUME IInv, [Next]_vars PROVE IInv'
<1>1. CASE UNCHANGED vars
  <2>1. TypeOK'
    BY <1>1, Zenon DEF vars, IInv, TypeOK
  <2>2. LockProtocol' /\ HolderHasLock' /\ LockQueueSorted' /\ LockPriBound'
    BY <1>1, Zenon DEF vars, IInv, LockProtocol, HolderHasLock, LockQueueSorted, LockPriBound
  <2>3. \A t \in Threads, l \in Locks : Owns(t, l)' <=> Owns(t, l)
    BY <1>1, Zenon DEF vars, Owns
  <2>4. MutualExclusion'
    BY <1>1, <2>3, Zenon DEF vars, IInv, MutualExclusion
  <2> QED BY <2>1, <2>2, <2>4, Zenon DEF IInv
<1>2. CASE Next
  <2>1. TypeOK'
    BY <1>2, TypeStep, Zenon DEF IInv
  <2>2. ASSUME NEW t \in Threads, Step(t) \/ Call(t) \/ timer_yield(t) PROVE IInv'
    BY <2>1, <2>2, OtherSteps, TakeStep, ReleaseStep, ReleaseUpStep, DonateStep, Zenon
       DEF Step, Call, OtherStep
  <2>3. ASSUME NEW s \in Semas, intr_sema_up(s) PROVE IInv'
    <3>1. s \in AllSemas /\ s \notin Locks
      BY SynchAssumption, Zenon DEF AllSemas
    <3>2. Alive
      BY <2>3, <3>1, UpAlive, Zenon DEF IInv, intr_sema_up
    <3>3. \A l \in Locks : value'[l] = value[l]
      BY <2>3, <3>1, LockTypes, Zenon DEF intr_sema_up, UpBody
    <3>4. \A u \in Threads : PcMove(u)
      BY <2>3, Zenon DEF intr_sema_up, UpBody, locks, PcMove
    <3>5. \A u \in Threads : e_pri[u] >= e_pri[u]
      BY LockTypes
    <3> QED BY <2>1, <2>3, <3>2, <3>3, <3>4, <3>5, LockFrame, Zenon
            DEF intr_sema_up, UpBody, locks, prios
  <2>4. CASE idle
    <3>1. list \in [Lists -> Seq(Threads)] /\ status \in [Threads -> Statuses]
      BY Zenon DEF IInv, TypeOK
    <3>2. Alive
      BY <2>4, <3>1, ScheduleFacts, Zenon DEF idle, Alive
    <3>3. \A u \in Threads : PcMove(u)
      <4>1. \A u \in Threads : pc[u] # "donate"
        <5>1. \A u \in Threads : pc[u] = "donate" => cur = u
          BY LockFacts, Zenon
        <5> QED BY <2>4, <5>1, SynchAssumption, Zenon DEF idle
      <4> QED BY <2>4, <4>1, Zenon DEF idle, PcMove
    <3>4. \A u \in Threads : e_pri[u] >= e_pri[u]
      BY LockTypes
    <3> QED BY <2>1, <2>4, <3>2, <3>3, <3>4, LockFrame, Zenon DEF idle, locks, prios
  <2>5. CASE Halted
    BY <1>1, <2>5, Zenon DEF Halted
  <2> QED BY <1>2, <2>2, <2>3, <2>4, <2>5, Zenon DEF Next
<1> QED BY <1>1, <1>2, Zenon

\* The invariant always holds.
THEOREM Invariance == Spec => []IInv
<1>1. Init => IInv
  BY InitInv, Zenon
<1>2. IInv /\ [Next]_vars => IInv'
  BY NextInv, Zenon
<1> QED BY <1>1, <1>2, PTL DEF Spec

\* The fields of threads, semaphores and locks keep their types: the list
\* operations of donation never corrupt a list, and lock_release() only ever
\* restores a priority that a thread can have.
THEOREM TypeCorrect == Spec => []TypeOK
<1>1. IInv => TypeOK
  BY Zenon DEF IInv
<1> QED BY <1>1, Invariance, PTL

\* lock_acquire(), lock_try_acquire() and lock_release(): at most one thread is
\* inside a lock, however threads are preempted, donate, and race for it.
THEOREM MutualExclusionHolds == Spec => []MutualExclusion
<1>1. IInv => MutualExclusion
  BY Zenon DEF IInv
<1> QED BY <1>1, Invariance, PTL

\* donate_pri_acquire(), lock_release(): lock_queue holds exactly the locks of
\* its thread, in order, and the thread has at least their priority.
THEOREM DonationBookkeeping ==
  Spec => [](HolderHasLock /\ LockQueueSorted /\ LockPriBound)
<1>1. IInv => HolderHasLock /\ LockQueueSorted /\ LockPriBound
  BY Zenon DEF IInv
<1> QED BY <1>1, Invariance, PTL
=============================================================================
