------------------------------- MODULE Synch -------------------------------
(***************************************************************************)
(* Kernel threads, the ready list and its two scheduling policies          *)
(* (threads/thread.c), counting semaphores and locks with priority         *)
(* donation (threads/synch.c), on one processor.                           *)
(*                                                                         *)
(* Only the running thread cur takes steps.  A step is a stretch of code   *)
(* that runs with interrupts off, or one that touches nothing another      *)
(* thread can see.  Between steps pc[cur] says whether interrupts are on:  *)
(* there the timer may end the time slice and devices may interrupt.       *)
(***************************************************************************)
EXTENDS KList, FiniteSets

CONSTANTS
  Threads,      \* every thread that can exist, the idle thread excepted
  Main,         \* the initial thread
  Idle,         \* the idle thread
  Locks,        \* struct lock; a lock names its own semaphore too
  Semas,        \* counting semaphores that are not a lock's
  NULL,
  Ready,        \* the name of ready_list
  Pri,          \* thread priorities, PRI_MIN .. PRI_MAX
  PRI_DEFAULT,
  Policy,       \* active_sched_policy: "FIFO" or "PRIO"
  CreatePri,    \* CreatePri[t]: the priorities t may be created with
  SetPri,       \* the priorities thread_set_priority() is called with
  Rank,         \* Rank[l]: clients take locks in ascending rank
  SemaInit,     \* SemaInit[s]: the value s is initialised with
  MaxValue,     \* bound on the value of a counting semaphore
  MayExit       \* the threads that may exit

AllSemas == Locks \cup Semas
Lists == {Ready} \cup AllSemas

ASSUME SynchAssumption ==
  /\ Main \in Threads /\ Idle \notin Threads /\ NULL \notin Threads
  /\ Locks \cap Semas = {} /\ Ready \notin AllSemas
  /\ NULL \notin AllSemas \cup Threads \cup {Ready}
  /\ Pri \subseteq Nat /\ PRI_DEFAULT \in Pri /\ SetPri \subseteq Pri
  /\ Policy \in {"FIFO", "PRIO"}
  /\ CreatePri \in [Threads -> SUBSET Pri]
  /\ Rank \in [Locks -> Nat] /\ SemaInit \in [Semas -> Nat]
  /\ MaxValue \in Nat

VARIABLES
  cur,          \* the running thread
  status,       \* struct thread: status ("NONE" before thread_create)
  b_pri, e_pri, \*   base and effective priority
  queue,        \*   the list elem was last put on
  donated_for,  \*   the lock the thread is acquiring
  lock_queue,   \*   the locks it holds, highest priority first
  list,         \* ready_list, and the waiters of each semaphore
  value,        \* struct semaphore: value
  holder, pri, state,   \* struct lock
  pc, arg,      \* where each thread is, and the operand it works on
  don,          \* locals of donate_pri_acquire()
  panic         \* the assertion that failed, or NULL

vars == <<cur, status, b_pri, e_pri, queue, donated_for, lock_queue, list,
          value, holder, pri, state, pc, arg, don, panic>>

prios == <<b_pri, e_pri>>
locks == <<donated_for, lock_queue, holder, pri, state, don>>
-----------------------------------------------------------------------------
\* thread_before() with grater_thread_pri(), under the effective priorities ep.
InsertThread(s, t, ep) ==
  list_insert_ordered(s, t, {i \in 1 .. Len(s) : ep[t] > ep[s[i]]})

\* lock_before(), under the lock priorities lp.
InsertLock(s, l, lp) ==
  list_insert_ordered(s, l, {i \in 1 .. Len(s) : lp[l] >= lp[s[i]]})

\* Mutant: a ready thread goes to the front.
thread_enqueue_front(ls, t, ep) == [ls EXCEPT ![Ready] = <<t>> \o @]

thread_enqueue(ls, t, ep) ==
  [ls EXCEPT ![Ready] = IF Policy = "FIFO" THEN list_push_back(@, t)
                                           ELSE InsertThread(@, t, ep)]

\* schedule(), next_thread_to_run() and thread_switch_tail(), from lists ls and
\* statuses st: the front of the ready list runs, or the idle thread.
schedule(ls, st) ==
  IF ls[Ready] = <<>>
  THEN cur' = Idle /\ list' = ls /\ status' = st
  ELSE /\ cur' = Head(ls[Ready])
       /\ list' = [ls EXCEPT ![Ready] = list_pop_front(@)]
       /\ status' = [st EXCEPT ![Head(ls[Ready])] = "RUNNING"]

\* The current thread t is at p.
At(t, p) == panic = NULL /\ cur = t /\ pc[t] = p

\* Interrupts are on at these places.
IntrOn == {"run", "rel_up", "up_chk", "create_chk", "yield"}

intr_enabled ==
  panic = NULL /\ (cur # Idle => pc[cur] \in IntrOn)

Goto(t, p, a) == pc' = [pc EXCEPT ![t] = p] /\ arg' = [arg EXCEPT ![t] = a]
-----------------------------------------------------------------------------
(* Scheduling: thread.c *)

\* The part of thread_yield() with interrupts off.
YieldBody(t) ==
  /\ queue' = [queue EXCEPT ![t] = Ready]
  /\ schedule(thread_enqueue(list, t, e_pri), [status EXCEPT ![t] = "READY"])
  /\ UNCHANGED <<prios, locks, value, panic>>

thread_yield(t) ==
  /\ At(t, "yield")
  /\ YieldBody(t)
  /\ Goto(t, "run", NULL)

\* The timer interrupt at the end of a time slice: thread_tick() calls
\* intr_yield_on_return() and intr_handler() yields on its way out.
timer_yield(t) ==
  /\ intr_enabled /\ cur = t
  /\ YieldBody(t)
  /\ UNCHANGED <<pc, arg>>

\* idle(): blocks again and again, so it runs only when nothing is ready.
idle ==
  /\ panic = NULL /\ cur = Idle
  /\ schedule(list, status)
  /\ UNCHANGED <<prios, queue, locks, value, pc, arg, panic>>

\* thread_create() up to and with thread_unblock() of the new thread c.
thread_create(t, c, p) ==
  /\ At(t, "run") /\ status[c] = "NONE"
  /\ b_pri' = [b_pri EXCEPT ![c] = p]
  /\ e_pri' = [e_pri EXCEPT ![c] = p]
  /\ queue' = [queue EXCEPT ![c] = Ready]
  /\ status' = [status EXCEPT ![c] = "READY"]
  /\ list' = thread_enqueue(list, c, e_pri')
  /\ Goto(t, "create_chk", p)
  /\ UNCHANGED <<cur, locks, value, panic>>

\* The end of thread_create(): yield to a new thread of higher priority.
thread_create_check(t) ==
  /\ At(t, "create_chk")
  /\ Goto(t, IF e_pri[t] < arg[t] THEN "yield" ELSE "run", NULL)
  /\ UNCHANGED <<cur, status, prios, queue, list, locks, value, panic>>

thread_exit(t) ==
  /\ At(t, "run") /\ t \in MayExit /\ lock_queue[t] = <<>>
  /\ schedule(list, [status EXCEPT ![t] = "DYING"])
  /\ Goto(t, "done", NULL)
  /\ UNCHANGED <<prios, queue, locks, value, panic>>

\* Mutant: e_pri follows b_pri although the thread holds locks.
thread_set_priority_always(t, p) ==
  /\ At(t, "run") /\ p # b_pri[t]
  /\ b_pri' = [b_pri EXCEPT ![t] = p]
  /\ e_pri' = [e_pri EXCEPT ![t] = p]
  /\ Goto(t, "yield", NULL)
  /\ UNCHANGED <<cur, status, queue, list, locks, value, panic>>

thread_set_priority(t, p) ==
  /\ At(t, "run") /\ p # b_pri[t]
  /\ b_pri' = [b_pri EXCEPT ![t] = p]
  /\ e_pri' = IF p > e_pri[t] \/ lock_queue[t] = <<>>
              THEN [e_pri EXCEPT ![t] = p] ELSE e_pri
  /\ Goto(t, IF p <= e_pri[t] /\ lock_queue[t] = <<>> THEN "yield" ELSE "run", NULL)
  /\ UNCHANGED <<cur, status, queue, list, locks, value, panic>>
-----------------------------------------------------------------------------
(* Semaphores: synch.c *)

\* A thread enters sema_down() on a counting semaphore.
sema_down(t, s) ==
  /\ At(t, "run")
  /\ Goto(t, "down", s)
  /\ UNCHANGED <<cur, status, prios, queue, list, locks, value, panic>>

\* Mutant: the test and the block are not atomic.
sema_down_block_blind(t) ==
  /\ At(t, "down")
  /\ queue' = [queue EXCEPT ![t] = arg[t]]
  /\ schedule([list EXCEPT ![arg[t]] = InsertThread(@, t, e_pri)],
              [status EXCEPT ![t] = "BLOCKED"])
  /\ UNCHANGED <<prios, locks, value, pc, arg, panic>>

\* The loop of sema_down(): with value 0 the thread joins the waiters, highest
\* priority first, and blocks; when it runs again it is back at the test.
sema_down_block(t) ==
  /\ At(t, "down") /\ value[arg[t]] = 0
  /\ queue' = [queue EXCEPT ![t] = arg[t]]
  /\ schedule([list EXCEPT ![arg[t]] = InsertThread(@, t, e_pri)],
              [status EXCEPT ![t] = "BLOCKED"])
  /\ UNCHANGED <<prios, locks, value, pc, arg, panic>>

\* The end of sema_down() on a counting semaphore.
sema_down_take(t) ==
  /\ At(t, "down") /\ arg[t] \in Semas /\ value[arg[t]] > 0
  /\ value' = [value EXCEPT ![arg[t]] = @ - 1]
  /\ Goto(t, "run", NULL)
  /\ UNCHANGED <<cur, status, prios, queue, list, locks, panic>>

\* sema_try_down(); without success it changes nothing.
sema_try_down(t, s) ==
  /\ At(t, "run") /\ value[s] > 0
  /\ value' = [value EXCEPT ![s] = @ - 1]
  /\ UNCHANGED <<cur, status, prios, queue, list, locks, pc, arg, panic>>

\* Mutants: nobody is woken; the woken thread stays among the waiters.
UpBody_nowake(s) ==
  value' = [value EXCEPT ![s] = @ + 1] /\ UNCHANGED <<list, queue, status, cur, prios, panic>>

\* The interrupts-off part of sema_up(): thread_unblock() the first waiter.
UpBody(s) ==
  /\ value' = [value EXCEPT ![s] = @ + 1]
  /\ IF list[s] = <<>>
     THEN UNCHANGED <<list, queue, status>>
     ELSE LET w == Head(list[s]) IN
          /\ list' = thread_enqueue([list EXCEPT ![s] = list_pop_front(@)], w, e_pri)
          /\ queue' = [queue EXCEPT ![w] = Ready]
          /\ status' = [status EXCEPT ![w] = "READY"]
  /\ UNCHANGED <<cur, prios, panic>>

\* sema_up() by a thread goes on to compare priorities with the woken thread.
SemaUp(t, s) ==
  /\ UpBody(s)
  /\ IF list[s] = <<>> THEN Goto(t, "run", NULL) ELSE Goto(t, "up_chk", Head(list[s]))
  /\ UNCHANGED locks

sema_up(t, s) == At(t, "run") /\ value[s] < MaxValue /\ SemaUp(t, s)

\* The test at the end of sema_up(), with interrupts on.  The woken thread may
\* have run and exited since: then t->e_pri is read from a freed page.
sema_up_check(t) ==
  /\ At(t, "up_chk")
  /\ \E yields \in BOOLEAN :
       /\ status[arg[t]] # "DYING" => yields = (e_pri[arg[t]] > e_pri[t])
       /\ Goto(t, IF yields THEN "yield" ELSE "run", NULL)
  /\ UNCHANGED <<cur, status, prios, queue, list, locks, value, panic>>

\* sema_up() by an interrupt handler, which does not yield.
intr_sema_up(s) ==
  /\ intr_enabled /\ value[s] < MaxValue
  /\ UpBody(s)
  /\ UNCHANGED <<locks, pc, arg>>
-----------------------------------------------------------------------------
(* Locks: synch.c *)

\* The client's discipline: no lock it holds, and ranks ascend.
MayAcquire(t, l) == \A k \in Range(lock_queue[t]) : Rank[k] < Rank[l]

\* lock_acquire() up to donate_pri_acquire() or sema_down().
lock_acquire(t, l) ==
  /\ At(t, "run") /\ MayAcquire(t, l)
  /\ state' = [state EXCEPT ![l] = @ - 1]
  /\ donated_for' = [donated_for EXCEPT ![t] = l]
  /\ IF state'[l] < 0 /\ holder[l] # NULL
     THEN /\ Goto(t, "donate", l)
          /\ don' = [donor |-> t, donee |-> holder[l], lock |-> l]
     ELSE Goto(t, "down", l) /\ UNCHANGED don
  /\ UNCHANGED <<cur, status, prios, queue, lock_queue, list, value, holder, pri, panic>>

\* Donation is over: go on to sema_down().
DonationEnds(t) ==
  /\ pc' = [pc EXCEPT ![t] = "down"]
  /\ don' = [donor |-> NULL, donee |-> NULL, lock |-> NULL]

\* ASSERT(donee != NULL) fails.
donate_panic(t) ==
  /\ At(t, "donate") /\ don.donee = NULL
  /\ panic' = "donee != NULL"
  /\ UNCHANGED <<cur, status, prios, queue, list, locks, value, pc, arg>>

\* The lock already has the donor's priority.
donate_stop(t) ==
  /\ At(t, "donate") /\ don.donee # NULL
  /\ pri[don.lock] >= e_pri[don.donor]
  /\ DonationEnds(t)
  /\ UNCHANGED <<cur, status, prios, queue, list, donated_for, lock_queue, holder, pri,
                 state, value, arg, panic>>

\* Lock l, whose priority has changed, gets its place in the lock_queue of t.
RefileLock(t, l) ==
  lock_queue' = [lock_queue EXCEPT ![t] = InsertLock(list_remove(@, l), l, pri')]

\* Mutants: the thread keeps its place; its elem is linked in a second time.
RefileThread_unsorted(t) == UNCHANGED list

RefileThread_twice(t) ==
  list' = IF queue[t] = NULL THEN list
          ELSE [list EXCEPT ![queue[t]] = InsertThread(@, t, e_pri')]

\* Thread t, whose priority has changed, gets its place on the list it is on.
RefileThread(t) ==
  list' = IF queue[t] = NULL THEN list
          ELSE [list EXCEPT ![queue[t]] = InsertThread(list_remove(@, t), t, e_pri')]

\* One round of the loop: raise the lock, then its holder, put both back in
\* order on their lists, and follow the lock the holder itself waits for.
donate_pri_acquire(t) ==
  /\ At(t, "donate") /\ don.donee # NULL
  /\ LET l == don.lock  donee == don.donee  p == e_pri[don.donor] IN
     /\ pri[l] < p
     /\ pri' = [pri EXCEPT ![l] = p]
     /\ RefileLock(donee, l)
     /\ IF p <= e_pri[donee]
        THEN DonationEnds(t) /\ UNCHANGED <<e_pri, list>>
        ELSE /\ e_pri' = [e_pri EXCEPT ![donee] = p]
             /\ RefileThread(donee)
             /\ IF donated_for[donee] = NULL
                THEN DonationEnds(t)
                ELSE /\ don' = [donor |-> donee, donee |-> holder[donated_for[donee]],
                                lock |-> donated_for[donee]]
                     /\ UNCHANGED pc
  /\ UNCHANGED <<cur, status, b_pri, queue, donated_for, holder, state, value, arg, panic>>

\* Mutant: sema_down() leaves the value as it is.
TakeLock_nodown(t, l) ==
  /\ pri' = [pri EXCEPT ![l] = e_pri[t]]
  /\ holder' = [holder EXCEPT ![l] = t]
  /\ lock_queue' = [lock_queue EXCEPT ![t] = InsertLock(@, l, pri')]
  /\ UNCHANGED <<value, cur, status, prios, queue, list, don, panic>>

\* A thread becomes the holder of l and files it among its locks.
TakeLock(t, l) ==
  /\ value' = [value EXCEPT ![l] = @ - 1]
  /\ pri' = [pri EXCEPT ![l] = e_pri[t]]
  /\ holder' = [holder EXCEPT ![l] = t]
  /\ lock_queue' = [lock_queue EXCEPT ![t] = InsertLock(@, l, pri')]
  /\ UNCHANGED <<cur, status, prios, queue, list, don, panic>>

\* lock_acquire() after sema_down() has seen a positive value.
lock_acquire_take(t) ==
  /\ At(t, "down") /\ arg[t] \in Locks /\ value[arg[t]] > 0
  /\ TakeLock(t, arg[t])
  /\ donated_for' = [donated_for EXCEPT ![t] = NULL]
  /\ Goto(t, "run", NULL)
  /\ UNCHANGED state

\* lock_try_acquire(); without success it changes nothing.
lock_try_acquire(t, l) ==
  /\ At(t, "run") /\ MayAcquire(t, l) /\ value[l] > 0
  /\ TakeLock(t, l)
  /\ state' = [state EXCEPT ![l] = @ - 1]
  /\ UNCHANGED <<donated_for, pc, arg>>

\* The priority left to t when q is its lock_queue.
RestoredPri(t, q) == IF q = <<>> THEN b_pri[t] ELSE pri[Head(q)]

\* The interrupts-off part of lock_release().
lock_release(t, l) ==
  /\ At(t, "run") /\ holder[l] = t
  /\ holder' = [holder EXCEPT ![l] = NULL]
  /\ pri' = [pri EXCEPT ![l] = 0]
  /\ lock_queue' = [lock_queue EXCEPT ![t] = list_remove(@, l)]
  /\ e_pri' = [e_pri EXCEPT ![t] = RestoredPri(t, lock_queue'[t])]
  /\ state' = [state EXCEPT ![l] = @ + 1]
  /\ Goto(t, "rel_up", l)
  /\ UNCHANGED <<cur, status, b_pri, queue, list, donated_for, value, don, panic>>

\* lock_release() ends with sema_up(), called with interrupts on.
lock_release_up(t) == At(t, "rel_up") /\ SemaUp(t, arg[t])

\* A kernel panic stops the machine.
Halted == panic # NULL /\ UNCHANGED vars
-----------------------------------------------------------------------------
Init ==
  /\ cur = Main
  /\ status = [t \in Threads |-> IF t = Main THEN "RUNNING" ELSE "NONE"]
  /\ b_pri = [t \in Threads |-> PRI_DEFAULT]
  /\ e_pri = b_pri
  /\ queue = [t \in Threads |-> NULL]
  /\ donated_for = [t \in Threads |-> NULL]
  /\ lock_queue = [t \in Threads |-> <<>>]
  /\ list = [q \in Lists |-> <<>>]
  /\ value = [s \in AllSemas |-> IF s \in Locks THEN 1 ELSE SemaInit[s]]
  /\ holder = [l \in Locks |-> NULL]
  /\ pri = [l \in Locks |-> 0]
  /\ state = [l \in Locks |-> 1]
  /\ pc = [t \in Threads |-> "run"]
  /\ arg = [t \in Threads |-> NULL]
  /\ don = [donor |-> NULL, donee |-> NULL, lock |-> NULL]
  /\ panic = NULL

\* What the running thread t does next.
Step(t) ==
  \/ thread_yield(t) \/ thread_create_check(t) \/ sema_up_check(t)
  \/ sema_down_block(t) \/ sema_down_take(t) \/ lock_acquire_take(t)
  \/ donate_panic(t) \/ donate_stop(t) \/ donate_pri_acquire(t)
  \/ lock_release_up(t)

\* A call the client code of t makes.
Call(t) ==
  \/ \E c \in Threads : \E p \in CreatePri[c] : thread_create(t, c, p)
  \/ thread_exit(t)
  \/ \E p \in SetPri : thread_set_priority(t, p)
  \/ \E s \in Semas : sema_down(t, s) \/ sema_try_down(t, s) \/ sema_up(t, s)
  \/ \E l \in Locks : lock_acquire(t, l) \/ lock_try_acquire(t, l) \/ lock_release(t, l)

Next ==
  \/ \E t \in Threads : Step(t) \/ Call(t) \/ timer_yield(t)
  \/ \E s \in Semas : intr_sema_up(s)
  \/ idle
  \/ Halted

Spec == Init /\ [][Next]_vars
-----------------------------------------------------------------------------
(* Properties *)

Statuses == {"NONE", "READY", "RUNNING", "BLOCKED", "DYING"}
Pcs == IntrOn \cup {"down", "donate", "done"}
MaybeThread == Threads \cup {NULL}
MaybeLock == Locks \cup {NULL}
Args == AllSemas \cup Pri \cup MaybeThread
Donations == [donor : MaybeThread, donee : MaybeThread, lock : MaybeLock]

\* Every field of struct thread, struct semaphore and struct lock keeps to the
\* values the code gives it.
TypeOK ==
  /\ cur \in Threads \cup {Idle}
  /\ status \in [Threads -> Statuses]
  /\ b_pri \in [Threads -> Pri] /\ e_pri \in [Threads -> Pri]
  /\ queue \in [Threads -> Lists \cup {NULL}]
  /\ donated_for \in [Threads -> MaybeLock]
  /\ lock_queue \in [Threads -> Seq(Locks)]
  /\ list \in [Lists -> Seq(Threads)]
  /\ value \in [AllSemas -> Nat]
  /\ holder \in [Locks -> MaybeThread]
  /\ pri \in [Locks -> Pri \cup {0}]
  /\ state \in [Locks -> Int]
  /\ pc \in [Threads -> Pcs]
  /\ arg \in [Threads -> Args]
  /\ don \in Donations
  /\ panic \in {NULL, "donee != NULL"}

\* t has lock l, or is between the two halves of lock_release() of it.
Owns(t, l) == l \in Range(lock_queue[t]) \/ (pc[t] = "rel_up" /\ arg[t] = l)

\* lock_acquire(), lock_try_acquire(), lock_release(): a lock's single token is
\* either in its semaphore or with exactly one thread, so no two threads are
\* ever inside the same lock, whoever is preempted inside lock_release().
MutualExclusion ==
  \A l \in Locks :
    /\ value[l] \in {0, 1}
    /\ \A t, u \in Threads : Owns(t, l) /\ Owns(u, l) => t = u
    /\ value[l] = 1 <=> \A t \in Threads : ~Owns(t, l)

\* holder and lock_queue tell the same story, which donate_pri_acquire() needs
\* when it moves a lock about in the lock_queue of its holder.
HolderHasLock ==
  \A l \in Locks, t \in Threads : holder[l] = t <=> l \in Range(lock_queue[t])

\* What holds of the program points of lock_acquire(), donate_pri_acquire() and
\* lock_release(): a thread between the halves of lock_release() has unlinked
\* the lock; donation runs to its end before anybody else runs, and its locals
\* always name a lock and that lock's holder; a held lock has a thread's
\* priority; a thread that is yet to be created holds nothing.
LockProtocol ==
  /\ cur \in Threads => status[cur] # "NONE"
  /\ \A t \in Threads :
       /\ IsInjective(lock_queue[t])
       /\ status[t] = "NONE" => lock_queue[t] = <<>>
       /\ pc[t] = "down" => arg[t] \in AllSemas
       /\ pc[t] = "rel_up" => arg[t] \in Locks /\ arg[t] \notin Range(lock_queue[t])
       /\ pc[t] = "donate" => /\ cur = t /\ arg[t] \in Locks
                              /\ don.donor \in Threads /\ don.lock \in Locks
                              /\ don.donee = holder[don.lock]
  /\ \A l \in Locks : holder[l] # NULL => pri[l] \in Pri

\* synch.c:200: a thread's effective priority is at least that of every lock
\* it holds.
LockPriBound ==
  \A l \in Locks : holder[l] # NULL => pri[l] <= e_pri[holder[l]]

\* lock_queue is in descending order of priority, so that lock_release() finds
\* the highest remaining donation at its front.
LockQueueSorted ==
  \A t \in Threads : Descending(lock_queue[t], pri)

\* Project_Thread_Report.md:68: on the ready list and on every semaphore, no
\* thread is behind one of lower effective priority, although donation changes
\* the priorities of threads that are already on these lists.
QueuesSorted ==
  \A q \in Lists : Descending(list[q], e_pri)

\* thread.h:101: a thread's elem is on one list at a time, which queue names.
\* Exactly the ready threads are on the run queue, exactly the threads blocked
\* in sema_down() are among the waiters of that semaphore, and the running one
\* is on no list.  thread_unblock() and donation rely on it.
ElemOnOneList ==
  /\ \A q \in Lists : IsInjective(list[q])
  /\ \A t \in Threads :
       /\ status[t] = "RUNNING" <=> cur = t
       /\ \A q \in Lists :
            t \in Range(list[q]) <=>
              /\ queue[t] = q
              /\ \/ q = Ready /\ status[t] = "READY"
                 \/ status[t] = "BLOCKED" /\ arg[t] = q

\* Threads sema_up() has woken and that have yet to look at the value again.
Woken(s) == {t \in Threads : pc[t] = "down" /\ arg[t] = s /\ status[t] # "BLOCKED"}

\* sema_up() wakes one waiter per unit, and a barging sema_try_down() or
\* sema_down() may take the unit first: still no thread waits for a semaphore
\* that has more units than threads on their way to it.
NoLostWakeup ==
  \A s \in AllSemas : list[s] # <<>> => value[s] <= Cardinality(Woken(s))

-----------------------------------------------------------------------------
(* What an assertion says and the code does not keep *)

\* synch.c:452, ASSERT(donee != NULL): following the chain of waiting holders
\* always leads to a lock that somebody holds.
DoneeExists == panic = NULL
-----------------------------------------------------------------------------
(* Progress *)

\* A thread that is scheduled again and again gets on with the kernel code it
\* is in, and a time slice ends for a thread that lets interrupts happen.
Fairness ==
  /\ \A t \in Threads : SF_vars(Step(t))
  /\ SF_vars(\E t \in Threads : timer_yield(t))
  /\ WF_vars(idle)

FairSpec == Spec /\ Fairness

\* thread_yield(), thread_unblock(), schedule(): no ready thread is passed over
\* for ever under the FIFO policy, donation's reordering of the list included.
ReadyRuns ==
  \A t \in Threads : status[t] = "READY" ~> (status[t] = "RUNNING" \/ panic # NULL)

\* lock_release(): a lock that is given up while threads wait for it is taken
\* by one of them or by a newcomer.
FreeLockTaken ==
  \A l \in Locks :
    holder[l] = NULL /\ list[l] # <<>> ~> (holder[l] # NULL \/ panic # NULL)
=============================================================================
