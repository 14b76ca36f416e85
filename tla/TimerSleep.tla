----------------------------- MODULE TimerSleep -----------------------------
(***************************************************************************)
(* Sleeping threads (devices/timer.c): timer_sleep(), the wake-ups of      *)
(* timer_interrupt(), and what priority donation does to a sleeper.        *)
(*                                                                         *)
(* phase[t]: "run" in client code; "start" in timer_sleep() with wake_up   *)
(* set and interrupts still on; "asleep" blocked on timer_sleep_list.      *)
(***************************************************************************)
EXTENDS KList

CONSTANTS
  Threads,
  Naps,       \* arguments of timer_sleep()
  Millis,     \* arguments of timer_msleep()
  Holders,    \* which threads may hold a lock others want: a set of sets
  HighPri,    \* highest priority of those others; the base priority is 0
  TIMER_FREQ,
  MaxTick     \* bound of the run

ASSUME TimerAssumption ==
  /\ Naps \subseteq Int /\ Millis \subseteq Nat /\ Holders \subseteq SUBSET Threads
  /\ HighPri \in Nat /\ TIMER_FREQ \in Nat /\ MaxTick \in Nat

VARIABLES
  holders,          \* the threads that hold a lock others want
  ticks,
  phase,
  wake_up,
  e_pri,
  timer_sleep_list,
  (* history *)
  start, asked,     \* of each thread: the tick of its last call and the ticks asked for
  since,            \* since[t]: the tick in which t joined the list
  moved             \* a donation has moved a sleeper, and the list has not been empty since

history == <<start, asked, since, moved>>
vars == <<holders, ticks, phase, wake_up, e_pri, timer_sleep_list, history>>

Init ==
  /\ holders \in Holders
  /\ ticks = 0
  /\ phase = [t \in Threads |-> "run"]
  /\ wake_up = [t \in Threads |-> 0]
  /\ e_pri = [t \in Threads |-> 0]
  /\ timer_sleep_list = <<>>
  /\ start = [t \in Threads |-> 0] /\ asked = [t \in Threads |-> 0]
  /\ since = [t \in Threads |-> 0] /\ moved = FALSE

\* timer_sleep() up to the DISABLE_INTR block.
timer_sleep(t, n) ==
  /\ phase[t] = "run"
  /\ wake_up' = [wake_up EXCEPT ![t] = ticks + n]
  /\ phase' = [phase EXCEPT ![t] = "start"]
  /\ start' = [start EXCEPT ![t] = ticks] /\ asked' = [asked EXCEPT ![t] = n]
  /\ UNCHANGED <<holders, ticks, e_pri, timer_sleep_list, since, moved>>

\* timer_msleep(): whole ticks are slept, less than one is waited for in a loop
\* that changes nothing.
real_time_sleep(t, num, denom) ==
  LET n == (num * TIMER_FREQ) \div denom IN n > 0 /\ timer_sleep(t, n)

\* The positions of the sleepers that wake up no earlier than t.
Earlier(t) == {i \in 1 .. Len(timer_sleep_list) : wake_up[t] <= wake_up[timer_sleep_list[i]]}

timer_sleep_block(t) ==
  /\ phase[t] = "start"
  /\ timer_sleep_list' = list_insert_ordered(timer_sleep_list, t, Earlier(t))
  /\ phase' = [phase EXCEPT ![t] = "asleep"]
  /\ since' = [since EXCEPT ![t] = ticks]
  /\ UNCHANGED <<holders, ticks, wake_up, e_pri, start, asked, moved>>

\* Mutant: a thread is woken one tick early.
Due_early(t) == wake_up[t] <= ticks + 2

Due(t) == wake_up[t] <= ticks + 1

\* Mutant: one sleeper is woken per tick.
WakeCount_one == IF timer_sleep_list # <<>> /\ Due(Head(timer_sleep_list)) THEN 1 ELSE 0

\* Length of the longest run of due sleepers at the front, all of which the loop
\* of timer_interrupt() pops.
WakeCount ==
  CHOOSE k \in 0 .. Len(timer_sleep_list) :
    /\ \A i \in 1 .. k : Due(timer_sleep_list[i])
    /\ k < Len(timer_sleep_list) => ~Due(timer_sleep_list[k + 1])

timer_interrupt ==
  /\ ticks < MaxTick
  /\ ticks' = ticks + 1
  /\ phase' = [t \in Threads |-> IF \E i \in 1 .. WakeCount : timer_sleep_list[i] = t
                                 THEN "run" ELSE phase[t]]
  /\ timer_sleep_list' = SubSeq(timer_sleep_list, WakeCount + 1, Len(timer_sleep_list))
  /\ moved' = (moved /\ WakeCount < Len(timer_sleep_list))
  /\ UNCHANGED <<holders, wake_up, e_pri, start, asked, since>>

\* donate_pri_acquire() raises the priority of a lock holder and files it again
\* in the list its queue field names, by priority whatever list that is.
donate_pri_acquire(t, pri) ==
  /\ t \in holders
  /\ e_pri[t] < pri
  /\ e_pri' = [e_pri EXCEPT ![t] = pri]
  /\ LET s == list_remove(timer_sleep_list, t) IN
     timer_sleep_list' =
       IF phase[t] = "asleep"
       THEN list_insert_ordered(s, t, {i \in 1 .. Len(s) : pri > e_pri[s[i]]})
       ELSE timer_sleep_list
  /\ moved' = (moved \/ phase[t] = "asleep")
  /\ UNCHANGED <<holders, ticks, phase, wake_up, start, asked, since>>

\* The holder releases the lock: its priority falls back.
lock_release(t) ==
  /\ t \in holders
  /\ phase[t] = "run" /\ e_pri[t] > 0
  /\ e_pri' = [e_pri EXCEPT ![t] = 0]
  /\ UNCHANGED <<holders, ticks, phase, wake_up, timer_sleep_list, history>>

Bound == ticks = MaxTick /\ UNCHANGED vars

Next ==
  \/ timer_interrupt
  \/ Bound
  \/ \E t \in Threads :
       \/ \E n \in Naps : timer_sleep(t, n)
       \/ \E ms \in Millis : real_time_sleep(t, ms, 1000)
       \/ timer_sleep_block(t)
       \/ \E pri \in 1 .. HighPri : donate_pri_acquire(t, pri)
       \/ lock_release(t)

Spec == Init /\ [][Next]_vars

----------------------------------------------------------------------------
(* Properties *)

\* timer_sleep() "suspends execution of the calling thread until time has
\* advanced by at least x timer ticks": from the call to the wake-up the clock
\* advances by what was asked for, wherever a tick falls between the reading of
\* the clock and the thread's blocking, and wherever a donation moves it.
NotEarly ==
  [][\A t \in Threads : (phase[t] = "asleep" /\ phase'[t] = "run") => ticks' - start[t] >= asked[t]]_vars

\* Nobody sleeps past its time: whoever is asleep after its wake-up time joined
\* the list in the present tick, after the handler had run.  It holds until a
\* donation moves a sleeper within the list, and again once the list was empty.
OnTime == ~moved =>
  \A t \in Threads : phase[t] = "asleep" => (ticks < wake_up[t] \/ ticks = since[t])

=============================================================================
