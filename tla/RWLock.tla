------------------------------- MODULE RWLock -------------------------------
(***************************************************************************)
(* Condition variables and the writer-centric readers-writers lock         *)
(* (threads/synch.c).  The guard lock is used through what module Synch    *)
(* shows of locks: one holder, and a free lock can be taken.               *)
(*                                                                         *)
(* pc[t]: "out" no rw_lock held; "lock" waits for the guard in             *)
(* rw_lock_acquire(); "test" at the while test, guard held; "ins" in       *)
(* cond_wait() and on the waiters list, guard held; "rel" the guard        *)
(* released, not yet blocked; "blocked"; "woken" unblocked, waits for the  *)
(* guard; "enter" counted as active, guard held; "in" holds the rw_lock;   *)
(* "exit" waits for the guard in rw_lock_release(); "update" holds it      *)
(* there; "leave" no longer active, guard held.                            *)
(***************************************************************************)
EXTENDS KList, FiniteSets

CONSTANTS
  Threads,  \* the clients
  Pri,      \* Pri[t]: effective priority of t
  NULL

ASSUME RWAssumption ==
  /\ IsFiniteSet(Threads)
  /\ NULL \notin Threads
  /\ Pri \in [Threads -> Nat]

VARIABLES
  pc,
  reader,          \* the second argument of the call t is in
  guard,           \* rw_lock->lock.holder
  AR, WR, AW, WW,
  waiters,         \* waiters["read"], waiters["write"]: the condition variables
  broken           \* a thread's elem was linked into a second list

vars == <<pc, reader, guard, AR, WR, AW, WW, waiters, broken>>
counts == <<AR, WR, AW, WW>>

Conds == {"read", "write"}
Window == {"ins", "rel"}

Init ==
  /\ pc = [t \in Threads |-> "out"]
  /\ reader = [t \in Threads |-> FALSE]
  /\ guard = NULL
  /\ AR = 0 /\ WR = 0 /\ AW = 0 /\ WW = 0
  /\ waiters = [c \in Conds |-> <<>>]
  /\ broken = FALSE

Goto(t, from, to) == pc[t] = from /\ pc' = [pc EXCEPT ![t] = to]

\* A thread inside the window keeps the processor: another one runs only after
\* thread_yield() has linked its elem into the ready list, see elem_relinked.
Runs(t) == ~broken /\ \A u \in Threads \ {t} : pc[u] \notin Window

lock_acquire(t, from, to) ==
  /\ Goto(t, from, to)
  /\ guard = NULL
  /\ guard' = t

lock_release(t, from, to) == Goto(t, from, to) /\ guard' = NULL

Queue(t) == IF reader[t] THEN "read" ELSE "write"

----------------------------------------------------------------------------
(* rw_lock_acquire() *)

rw_lock_acquire(t, r) ==
  /\ Runs(t)
  /\ Goto(t, "out", "lock")
  /\ reader' = [reader EXCEPT ![t] = r]
  /\ UNCHANGED <<guard, counts, waiters, broken>>

rw_lock_acquire_guard(t) ==
  /\ Runs(t)
  /\ lock_acquire(t, "lock", "test")
  /\ UNCHANGED <<reader, counts, waiters, broken>>

\* Mutant: a writer tests for other writers only.
MustWait_writer(t) == IF reader[t] THEN AW + WW > 0 ELSE AW > 0

MustWait(t) == IF reader[t] THEN AW + WW > 0 ELSE AR + AW > 0

\* The waiter is counted and its elem linked before the guard is released.
rw_lock_wait(t) ==
  /\ Runs(t)
  /\ MustWait(t)
  /\ Goto(t, "test", "ins")
  /\ WR' = IF reader[t] THEN WR + 1 ELSE WR
  /\ WW' = IF reader[t] THEN WW ELSE WW + 1
  /\ waiters' = [waiters EXCEPT ![Queue(t)] =
       list_insert_ordered(@, t, {i \in 1 .. Len(@) : Pri[t] > Pri[@[i]]})]
  /\ UNCHANGED <<reader, guard, AR, AW, broken>>

rw_lock_enter(t) ==
  /\ Runs(t)
  /\ ~MustWait(t)
  /\ Goto(t, "test", "enter")
  /\ AR' = IF reader[t] THEN AR + 1 ELSE AR
  /\ AW' = IF reader[t] THEN AW ELSE AW + 1
  /\ UNCHANGED <<reader, guard, WR, WW, waiters, broken>>

rw_lock_acquire_end(t) ==
  /\ Runs(t)
  /\ lock_release(t, "enter", "in")
  /\ UNCHANGED <<reader, counts, waiters, broken>>

----------------------------------------------------------------------------
(* cond_wait() *)

cond_wait_release(t) ==
  /\ Runs(t)
  /\ lock_release(t, "ins", "rel")
  /\ UNCHANGED <<reader, counts, waiters, broken>>

cond_wait_block(t) ==
  /\ Runs(t)
  /\ Goto(t, "rel", "blocked")
  /\ UNCHANGED <<reader, guard, counts, waiters, broken>>

\* The end of a time slice, or the thread_yield() at the end of the sema_up()
\* in lock_release(), links the elem into the ready list while it is still
\* linked into the waiters list.  What the lists hold from then on is garbage
\* and the model stops.
elem_relinked(t) ==
  /\ ~broken
  /\ pc[t] \in Window
  /\ broken' = TRUE
  /\ UNCHANGED <<pc, reader, guard, counts, waiters>>

cond_wait_relock(t) ==
  /\ Runs(t)
  /\ lock_acquire(t, "woken", "test")
  /\ WR' = IF reader[t] THEN WR - 1 ELSE WR
  /\ WW' = IF reader[t] THEN WW ELSE WW - 1
  /\ UNCHANGED <<reader, AR, AW, waiters, broken>>

----------------------------------------------------------------------------
(* rw_lock_release() *)

rw_lock_release(t) ==
  /\ Runs(t)
  /\ Goto(t, "in", "exit")
  /\ UNCHANGED <<reader, guard, counts, waiters, broken>>

rw_lock_release_guard(t) ==
  /\ Runs(t)
  /\ lock_acquire(t, "exit", "update")
  /\ UNCHANGED <<reader, counts, waiters, broken>>

\* The first waiter of highest priority, which list_sort() brings to the front.
Foremost(s, i) ==
  \A j \in 1 .. Len(s) : Pri[s[j]] <= Pri[s[i]] /\ (j < i => Pri[s[j]] # Pri[s[i]])

\* Mutant: the waiter that is woken stays on the list.
cond_signal_nopop(t, c) ==
  /\ pc' = [pc EXCEPT ![t] = "leave",
                      ![IF waiters[c] = <<>> THEN t ELSE Head(waiters[c])] =
                         IF waiters[c] = <<>> THEN "leave" ELSE "woken"]
  /\ UNCHANGED waiters

cond_signal(t, c) ==
  \/ /\ waiters[c] = <<>>
     /\ pc' = [pc EXCEPT ![t] = "leave"]
     /\ UNCHANGED waiters
  \/ \E i \in 1 .. Len(waiters[c]) :
       /\ Foremost(waiters[c], i)
       /\ pc' = [pc EXCEPT ![t] = "leave", ![waiters[c][i]] = "woken"]
       /\ waiters' = [waiters EXCEPT ![c] = Unlink(@, i)]

cond_broadcast(t, c) ==
  /\ pc' = [u \in Threads |-> IF u = t THEN "leave"
                              ELSE IF u \in Range(waiters[c]) THEN "woken" ELSE pc[u]]
  /\ waiters' = [waiters EXCEPT ![c] = <<>>]

rw_lock_release_reader(t) ==
  /\ Runs(t)
  /\ pc[t] = "update" /\ reader[t]
  /\ AR' = AR - 1
  /\ IF AR - 1 = 0 /\ WW > 0
     THEN cond_signal(t, "write")
     ELSE pc' = [pc EXCEPT ![t] = "leave"] /\ UNCHANGED waiters
  /\ UNCHANGED <<reader, guard, WR, AW, WW, broken>>

\* Mutant: a writer that leaves wakes writers only.
rw_lock_release_writer_writers(t) ==
  /\ Runs(t)
  /\ pc[t] = "update" /\ ~reader[t]
  /\ AW' = AW - 1
  /\ IF WW > 0
     THEN cond_signal(t, "write")
     ELSE pc' = [pc EXCEPT ![t] = "leave"] /\ UNCHANGED waiters
  /\ UNCHANGED <<reader, guard, AR, WR, WW, broken>>

\* Mutant: a writer that leaves wakes readers only.
rw_lock_release_writer_readers(t) ==
  /\ Runs(t)
  /\ pc[t] = "update" /\ ~reader[t]
  /\ AW' = AW - 1
  /\ IF WR > 0
     THEN cond_broadcast(t, "read")
     ELSE pc' = [pc EXCEPT ![t] = "leave"] /\ UNCHANGED waiters
  /\ UNCHANGED <<reader, guard, AR, WR, WW, broken>>

rw_lock_release_writer(t) ==
  /\ Runs(t)
  /\ pc[t] = "update" /\ ~reader[t]
  /\ AW' = AW - 1
  /\ IF WW > 0 THEN cond_signal(t, "write")
     ELSE IF WR > 0 THEN cond_broadcast(t, "read")
     ELSE pc' = [pc EXCEPT ![t] = "leave"] /\ UNCHANGED waiters
  /\ UNCHANGED <<reader, guard, AR, WR, WW, broken>>

rw_lock_release_end(t) ==
  /\ Runs(t)
  /\ lock_release(t, "leave", "out")
  /\ UNCHANGED <<reader, counts, waiters, broken>>

----------------------------------------------------------------------------
Call(t) == rw_lock_release(t) \/ \E r \in BOOLEAN : rw_lock_acquire(t, r)

Step(t) ==
  \/ rw_lock_acquire_guard(t) \/ rw_lock_wait(t) \/ rw_lock_enter(t)
  \/ rw_lock_acquire_end(t) \/ cond_wait_release(t) \/ cond_wait_block(t)
  \/ cond_wait_relock(t) \/ rw_lock_release_guard(t) \/ rw_lock_release_reader(t)
  \/ rw_lock_release_writer(t) \/ rw_lock_release_end(t)

Broken == broken /\ UNCHANGED vars

Next == Broken \/ \E t \in Threads : Call(t) \/ Step(t) \/ elem_relinked(t)

Spec == Init /\ [][Next]_vars

\* A thread whose next step can be taken is scheduled eventually.
FairSpec == Spec /\ \A t \in Threads : WF_vars(Step(t))

----------------------------------------------------------------------------
(* Properties *)

ActivePc == {"enter", "in", "exit", "update"}
CountedPc == {"ins", "rel", "blocked", "woken"}
GuardPc == {"test", "ins", "enter", "update", "leave"}

Readers == {t \in Threads : reader[t] /\ pc[t] \in ActivePc}
Writers == {t \in Threads : ~reader[t] /\ pc[t] \in ActivePc}
WaitingReaders == {t \in Threads : reader[t] /\ pc[t] \in CountedPc}
WaitingWriters == {t \in Threads : ~reader[t] /\ pc[t] \in CountedPc}

\* The state of a rw_lock and of its clients is of the expected shape.
TypeOK ==
  /\ pc \in [Threads -> {"out", "lock", "blocked", "woken", "in", "exit", "rel"} \cup GuardPc]
  /\ reader \in [Threads -> BOOLEAN]
  /\ guard \in Threads \cup {NULL}
  /\ AR \in Nat /\ WR \in Nat /\ AW \in Nat /\ WW \in Nat
  /\ waiters \in [Conds -> Seq(Threads)]
  /\ broken \in BOOLEAN

\* The guard lock makes the body of rw_lock_acquire() and rw_lock_release() one
\* thread's at a time.
GuardExcludes == \A t \in Threads : pc[t] \in GuardPc <=> guard = t

\* AR, WR, AW and WW count the threads they are named for, whatever wakes up and
\* goes back to waiting in between.
CountsExact ==
  /\ AR = Cardinality(Readers) /\ AW = Cardinality(Writers)
  /\ WR = Cardinality(WaitingReaders) /\ WW = Cardinality(WaitingWriters)

\* rw_lock: readers and a writer, or two writers, never hold it together.
Exclusion ==
  /\ \A t, u \in Writers : t = u
  /\ Writers # {} => Readers = {}

\* Whoever is blocked in cond_wait() can be found by cond_signal() and
\* cond_broadcast(), once, on the list of its own condition.
WaitersListed ==
  \A c \in Conds :
    /\ IsInjective(waiters[c])
    /\ Range(waiters[c]) =
         {t \in Threads : Queue(t) = c /\ pc[t] \in {"ins", "rel", "blocked"}}

\* Writers go first: while writers wait on a free rw_lock, one of them is awake.
WriterFirst ==
  (AR + AW = 0 /\ guard = NULL /\ \E t \in Threads : pc[t] = "blocked" /\ ~reader[t])
     => \E t \in Threads : pc[t] = "woken" /\ ~reader[t]

\* No wake-up is lost: a released rw_lock with threads blocked on it is held
\* again by somebody.
Handover ==
  (AR + AW = 0 /\ \E t \in Threads : pc[t] = "blocked") ~> (AR + AW > 0 \/ broken)

\* Seen through the threads that hold it, a rw_lock is a readers-writers lock.
RW == INSTANCE ReadersWriters WITH readers <- Readers, writers <- Writers
RWSpec == RW!Spec
=============================================================================
