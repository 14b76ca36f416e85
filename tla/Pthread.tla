------------------------------ MODULE Pthread ------------------------------
(* User threads of one process: pthread_create, pthread_join and           *)
(* pthread_exit (userprog/userthread_create.c, userthread_join.c), and the *)
(* two ways a process ends, pthread_exit_main() and process_exit_normal()  *)
(* (userprog/process_exit.c).  Each thread runs a script of system calls.  *)
(*                                                                         *)
(* A step is a section with interrupts off, or a stretch of code between   *)
(* two points where the timer may preempt and matter.  threads_lock is the *)
(* reader-writer lock of RWLock; its writers' sections are one step here,  *)
(* the traversal of process_exit_normal() is the one reader that keeps it  *)
(* over several steps.  A failed ASSERT stops the kernel: broken says      *)
(* which.                                                                  *)
EXTENDS Integers, Sequences, FiniteSets, KList

CONSTANTS Threads,     \* the threads the programs name
          Main,        \* the main thread
          NULL,        \* no thread
          Setups       \* the programs and how they are run

ASSUME PthreadAssumption ==
    /\ Main \in Threads /\ NULL \notin Threads
    /\ \A s \in Setups : /\ s.outcomes \in {{TRUE}, BOOLEAN} /\ s.preemptive \in BOOLEAN
                         /\ s.max_stacks \in Nat \ {0}

\* script:     what each thread calls, a function from Threads to sequences
\* orderly:    no thread calls exit() or faults while others are running
\* outcomes:   what an allocation may return
\* max_stacks: MAX_THREADS, the bits of pcb->stacks
\* preemptive: whether a time slice may end inside these functions
VARIABLES setup,     \* the program, chosen at the start
          pcb,       \* the struct process fields of the thread system
          tcb,       \* the struct thread of each thread
          threads,   \* pcb->threads
          prog,      \* what is left of each thread's script
          pc,        \* where each thread is
          local,     \* locals: pos and block_wait of a join, the stack of a create
          todo,      \* what is left of the traversal of process_exit_normal()
          finished,  \* creators whose semaphore is up
          stale,     \* threads marked ZOMBIE that are still on the ready list
          broken,    \* the ASSERT that failed, or "none"
          cur        \* the thread that has the processor (unless preemptive)
vars == <<setup, pcb, tcb, threads, prog, pc, local, todo, finished, stale, broken, cur>>

NoTCB == [status |-> "free", in_handler |-> FALSE, joined_by |-> NULL, stack_no |-> -1, creator |-> NULL]

Init == /\ setup \in Setups /\ prog = setup.script
        /\ pcb = [exiting |-> "NONE", thread_exiting |-> NULL, exit_code |-> 0,
                  in_kernel |-> 0, active |-> 1, stacks |-> {0}]
        /\ tcb = [t \in Threads |-> IF t = Main THEN [NoTCB EXCEPT !.status = "ready", !.stack_no = 0]
                                                ELSE NoTCB]
        /\ threads = <<Main>>
        /\ pc = [t \in Threads |-> IF t = Main THEN "user" ELSE "none"]
        /\ local = [t \in Threads |-> [pos |-> NULL, block |-> FALSE, slot |-> -1]]
        /\ todo = [t \in Threads |-> <<>>]
        /\ finished = {} /\ stale = {} /\ broken = "none" /\ cur = Main

-----------------------------------------------------------------------------
(* Who may run. *)
Scanning(t) == pc[t] = "scan"
\* sema_down(&finished), and rw_lock_acquire(&threads_lock, RW_WRITER)
Waiting(t) == \/ pc[t] = "finished" /\ t \notin finished
              \/ pc[t] \in {"list", "reap"} /\ \E u \in Threads : Scanning(u)
Able(t) == tcb[t].status = "ready" /\ ~Waiting(t)
CanRun(t) == Able(t) /\ broken = "none" /\ (setup.preemptive \/ cur = t \/ ~Able(cur))
Go(t, to) == pc' = [pc EXCEPT ![t] = to] /\ cur' = IF setup.preemptive THEN cur ELSE t
Assert(ok, what) == broken' = IF ok THEN broken ELSE what

\* thread_unblock() of the threads in W, and whether its ASSERT holds for them
thread_unblock(T, W) == [u \in Threads |-> IF u \in W THEN [T[u] EXCEPT !.status = "ready"] ELSE T[u]]
AllBlocked(W) == \A u \in W : tcb[u].status = "blocked"
wake_up_joiner(t) == {tcb[t].joined_by} \ {NULL}
set_exit_code(old, new) == IF old = 0 \/ new # -1 THEN new ELSE old

-----------------------------------------------------------------------------
(* User mode and the way in. *)

\* the return of main() calls exit(0), that of a thread function pthread_exit()
EndOf(t) == IF t = Main THEN [op |-> "exit", arg |-> 0] ELSE [op |-> "mexit", arg |-> 0]
Call(t) == IF prog[t] = <<>> THEN EndOf(t) ELSE Head(prog[t])

\* syscall_handler() up to its switch; kill() of a fault in user code enters
\* process_exit_normal(-1) in the same way
syscall_handler(t) ==
    /\ CanRun(t) /\ pc[t] = "user"
    /\ pcb' = [pcb EXCEPT !.in_kernel = @ + 1]
    /\ tcb' = [tcb EXCEPT ![t].in_handler = TRUE]
    /\ Go(t, CASE Call(t).op = "mexit" /\ t # Main -> "pleave"
               [] Call(t).op = "fault" -> "exit"
               [] OTHER -> Call(t).op)
    /\ UNCHANGED <<setup, threads, prog, local, todo, finished, stale, broken>>

Done(t) == prog' = [prog EXCEPT ![t] = IF @ = <<>> THEN @ ELSE Tail(@)]

\* a system call that does nothing to the threads
work(t) ==
    /\ CanRun(t) /\ pc[t] = "work"
    /\ Go(t, "leave") /\ Done(t)
    /\ UNCHANGED <<setup, pcb, tcb, threads, local, todo, finished, stale, broken>>

\* exit_if_exiting(): is_pthread_exit is pc "pleave"
\* MUTANT: the last thread does not wake the main thread
Wakes_nomain(t, n) == IF pcb.exiting = "NORMAL" /\ n = 1 THEN {pcb.thread_exiting} ELSE {}
Wakes(t, n) == CASE pcb.exiting = "NORMAL" /\ n = 1 -> {pcb.thread_exiting}
                 [] pcb.exiting = "MAIN" /\ pc[t] = "pleave" /\ pcb.active = 2 -> {Main}
                 [] OTHER -> {}
exit_if_exiting(t) ==
    /\ CanRun(t) /\ pc[t] \in {"leave", "pleave"}
    /\ LET n == pcb.in_kernel - 1
       IN  /\ pcb' = [pcb EXCEPT !.in_kernel = n]
           /\ tcb' = thread_unblock([tcb EXCEPT ![t].in_handler = FALSE], Wakes(t, n))
           /\ Assert(AllBlocked(Wakes(t, n)), "unblock")
    /\ Go(t, IF pc[t] = "pleave" \/ pcb.exiting = "NORMAL" THEN "pexit" ELSE "user")
    /\ UNCHANGED <<setup, threads, prog, local, todo, finished, stale>>

\* MUTANT: pthread_exit() forgets its joiner
pthread_exit_silent(t) ==
    /\ CanRun(t) /\ pc[t] = "pexit"
    /\ Assert(TRUE, "unblock")
    /\ tcb' = [tcb EXCEPT ![t].status = "zombie"]
    /\ pcb' = [pcb EXCEPT !.stacks = @ \ {tcb[t].stack_no}, !.active = @ - 1]
    /\ Go(t, "gone")
    /\ UNCHANGED <<setup, threads, prog, local, todo, finished, stale>>
pthread_exit(t) ==
    /\ CanRun(t) /\ pc[t] = "pexit"
    /\ Assert(AllBlocked(wake_up_joiner(t)), "unblock")
    /\ tcb' = [thread_unblock(tcb, wake_up_joiner(t)) EXCEPT ![t].status = "zombie"]
    /\ pcb' = [pcb EXCEPT !.stacks = @ \ {tcb[t].stack_no}, !.active = @ - 1]
    /\ Go(t, "gone")
    /\ UNCHANGED <<setup, threads, prog, local, todo, finished, stale>>

-----------------------------------------------------------------------------
(* pthread_create. *)

\* handler_pthread_create(): the new thread is counted before it exists
handler_pthread_create(t) ==
    /\ CanRun(t) /\ pc[t] = "create"
    /\ pcb' = [pcb EXCEPT !.in_kernel = @ + 1, !.active = @ + 1]
    /\ Go(t, "stack")
    /\ UNCHANGED <<setup, tcb, threads, prog, local, todo, finished, stale, broken>>

FreeStacks == (0..(setup.max_stacks - 1)) \ pcb.stacks
\* MUTANT: bitmap_scan() without the flip
pthread_execute_noflip(t) ==
    /\ CanRun(t) /\ pc[t] = "stack"
    /\ IF FreeStacks = {}
       THEN Go(t, "uncreate") /\ UNCHANGED <<pcb, local>>
       ELSE LET n == CHOOSE i \in FreeStacks : \A j \in FreeStacks : i <= j
            IN  /\ local' = [local EXCEPT ![t].slot = n]
                /\ Go(t, "thread") /\ UNCHANGED pcb
    /\ UNCHANGED <<setup, tcb, threads, prog, todo, finished, stale, broken>>
\* pthread_execute(), under pcb_lock: the lowest free stack, or TID_ERROR
pthread_execute(t) ==
    /\ CanRun(t) /\ pc[t] = "stack"
    /\ IF FreeStacks = {}
       THEN Go(t, "uncreate") /\ UNCHANGED <<pcb, local>>
       ELSE LET n == CHOOSE i \in FreeStacks : \A j \in FreeStacks : i <= j
            IN  /\ pcb' = [pcb EXCEPT !.stacks = @ \union {n}]
                /\ local' = [local EXCEPT ![t].slot = n]
                /\ Go(t, "thread")
    /\ UNCHANGED <<setup, tcb, threads, prog, todo, finished, stale, broken>>

\* thread_create(): a failure gives the stack back and still goes on to sema_down(&finished)
thread_create(t) ==
    /\ CanRun(t) /\ pc[t] = "thread"
    /\ \E ok \in setup.outcomes :
         IF ok
         THEN LET u == Call(t).arg
              IN  /\ tcb' = [tcb EXCEPT ![u] = [NoTCB EXCEPT !.status = "ready", !.creator = t]]
                  /\ pc' = [pc EXCEPT ![t] = "finished", ![u] = "start"]
                  /\ cur' = (IF setup.preemptive THEN cur ELSE t)
                  /\ UNCHANGED pcb
         ELSE /\ pcb' = [pcb EXCEPT !.stacks = @ \ {local[t].slot}]
              /\ Go(t, "finished") /\ UNCHANGED tcb
    /\ UNCHANGED <<setup, threads, prog, local, todo, finished, stale, broken>>

\* the creator's sema_down(&finished) returns
pthread_execute_end(t) ==
    /\ CanRun(t) /\ pc[t] = "finished"
    /\ finished' = finished \ {t}
    /\ Go(t, "leave") /\ Done(t)
    /\ UNCHANGED <<setup, pcb, tcb, threads, local, todo, stale, broken>>

\* handler_pthread_create() after TID_ERROR
handler_pthread_create_error(t) ==
    /\ CanRun(t) /\ pc[t] = "uncreate"
    /\ pcb' = [pcb EXCEPT !.in_kernel = @ - 1, !.active = @ - 1]
    /\ Go(t, "leave") /\ Done(t)
    /\ UNCHANGED <<setup, tcb, threads, local, todo, finished, stale, broken>>

\* start_pthread() and setup_thread(): no stack once the process exits; without
\* a stack the thread goes on to user mode at address 0, where it faults
start_pthread(t) ==
    /\ CanRun(t) /\ pc[t] = "start"
    /\ tcb' = [tcb EXCEPT ![t].stack_no = local[tcb[t].creator].slot]
    /\ \E ok \in setup.outcomes :
         IF ok /\ pcb.exiting # "NORMAL"
         THEN Go(t, "list") /\ UNCHANGED prog
         ELSE Go(t, "up") /\ prog' = [prog EXCEPT ![t] = <<[op |-> "fault", arg |-> -1]>>]
    /\ UNCHANGED <<setup, pcb, threads, local, todo, finished, stale, broken>>

start_pthread_list(t) ==
    /\ CanRun(t) /\ pc[t] = "list"
    /\ threads' = IF pcb.exiting # "NORMAL" THEN <<t>> \o threads ELSE threads
    /\ Go(t, "up")
    /\ UNCHANGED <<setup, pcb, tcb, prog, local, todo, finished, stale, broken>>

\* sema_up(finished); the thread leaves the kernel like a system call
start_pthread_up(t) ==
    /\ CanRun(t) /\ pc[t] = "up"
    /\ finished' = finished \union {tcb[t].creator}
    /\ Go(t, "leave")
    /\ UNCHANGED <<setup, pcb, tcb, threads, prog, local, todo, stale, broken>>

-----------------------------------------------------------------------------
(* pthread_join. *)

pthread_join(t) ==
    /\ CanRun(t) /\ pc[t] = "join"
    /\ LET u == Call(t).arg
       IN  IF u \in Range(threads) /\ tcb[u].joined_by = NULL
           THEN /\ local' = [local EXCEPT ![t].pos = u,
                                          ![t].block = tcb[u].status \notin {"zombie", "dying"}]
                /\ Go(t, "check")
           ELSE Go(t, "leave") /\ UNCHANGED local
    /\ IF pc'[t] = "leave" THEN Done(t) ELSE UNCHANGED prog
    /\ UNCHANGED <<setup, pcb, tcb, threads, todo, finished, stale, broken>>

\* a join that is certain to deadlock is refused
pthread_join_check(t) ==
    /\ CanRun(t) /\ pc[t] = "check"
    /\ IF local[t].pos = t \/ tcb[t].joined_by = local[t].pos
       THEN Go(t, "leave") /\ Done(t)
       ELSE Go(t, "block") /\ UNCHANGED prog
    /\ UNCHANGED <<setup, pcb, tcb, threads, local, todo, finished, stale, broken>>

\* MUTANT: the joiner does not block
pthread_join_block_never(t) ==
    /\ CanRun(t) /\ pc[t] = "block"
    /\ Assert(tcb[local[t].pos].status # "free", "freed")
    /\ tcb' = [tcb EXCEPT ![local[t].pos].joined_by = t]
    /\ Go(t, "reap")
    /\ UNCHANGED <<setup, pcb, threads, prog, local, todo, finished, stale>>
\* joined_by and thread_block(), on what the first section saw
pthread_join_block(t) ==
    /\ CanRun(t) /\ pc[t] = "block"
    /\ LET u == local[t].pos
           blocks == local[t].block /\ (pcb.exiting # "MAIN" \/ u # Main)
       IN  /\ Assert(tcb[u].status # "free", "freed")
           /\ tcb' = [tcb EXCEPT ![u].joined_by = t, ![t].status = IF blocks THEN "blocked" ELSE @]
    /\ Go(t, "reap")
    /\ UNCHANGED <<setup, pcb, threads, prog, local, todo, finished, stale>>

\* the joiner unlinks and frees the TCB, except the main thread's
pthread_join_reap(t) ==
    /\ CanRun(t) /\ pc[t] = "reap"
    /\ LET u == local[t].pos
       IN  IF u = Main
           THEN UNCHANGED <<tcb, threads, broken>>
           ELSE /\ Assert(tcb[u].status = "zombie", "reap")
                /\ threads' = list_remove(threads, u)
                /\ tcb' = [tcb EXCEPT ![u].status = "free"]
    /\ Go(t, "leave") /\ Done(t)
    /\ UNCHANGED <<setup, pcb, local, todo, finished, stale>>

-----------------------------------------------------------------------------
(* The end of the process. *)

pthread_exit_main(t) ==
    /\ CanRun(t) /\ pc[t] = "mexit"
    /\ LET p == [pcb EXCEPT !.exit_code = set_exit_code(@, 0)]
       IN  IF pcb.exiting = "NONE"
           THEN /\ pcb' = [p EXCEPT !.exiting = "MAIN", !.thread_exiting = t]
                /\ Assert(AllBlocked(wake_up_joiner(t)), "unblock")
                /\ tcb' = [thread_unblock(tcb, wake_up_joiner(t)) EXCEPT
                              ![t].status = IF pcb.active > 1 THEN "blocked" ELSE @]
                /\ Go(t, "mwait")
           ELSE pcb' = p /\ Go(t, "pleave") /\ UNCHANGED <<tcb, broken>>
    /\ UNCHANGED <<setup, threads, prog, local, todo, finished, stale>>

\* MUTANT: the main thread goes on with another thread still active
pthread_exit_main_wait_early(t) ==
    /\ CanRun(t) /\ pc[t] = "mwait"
    /\ Go(t, "clean") /\ threads' = list_remove(threads, t) /\ UNCHANGED tcb
    /\ UNCHANGED <<setup, pcb, prog, local, todo, finished, stale, broken>>
\* while (pcb->active_threads > 1) thread_block(); then list_remove()
pthread_exit_main_wait(t) ==
    /\ CanRun(t) /\ pc[t] = "mwait"
    /\ IF pcb.active > 1
       THEN tcb' = [tcb EXCEPT ![t].status = "blocked"] /\ Go(t, "mwait") /\ UNCHANGED threads
       ELSE Go(t, "clean") /\ threads' = list_remove(threads, t) /\ UNCHANGED tcb
    /\ UNCHANGED <<setup, pcb, prog, local, todo, finished, stale, broken>>

Code(t) == IF Call(t).op = "fault" THEN -1 ELSE Call(t).arg
\* exit_helper(): the blocked main thread becomes a zombie
exit_helper(T) == [T EXCEPT ![Main].status = "zombie"]
\* MUTANT: every caller of exit() runs the exit
process_exit_normal_all(t) ==
    /\ CanRun(t) /\ pc[t] = "exit"
    /\ Assert(AllBlocked(wake_up_joiner(t)), "unblock")
    /\ tcb' = thread_unblock(tcb, wake_up_joiner(t)) /\ UNCHANGED stale
    /\ pcb' = [pcb EXCEPT !.exit_code = set_exit_code(@, Code(t)), !.exiting = "NORMAL", !.thread_exiting = t]
    /\ Go(t, "scan0")
    /\ UNCHANGED <<setup, threads, prog, local, todo, finished>>
process_exit_normal(t) ==
    /\ CanRun(t) /\ pc[t] = "exit"
    /\ LET T == thread_unblock(tcb, wake_up_joiner(t))
           p == [pcb EXCEPT !.exit_code = set_exit_code(@, Code(t))]
       IN  /\ Assert(AllBlocked(wake_up_joiner(t)), "unblock")
           /\ \/ /\ pcb.exiting = "NONE"
                 /\ pcb' = [p EXCEPT !.exiting = "NORMAL", !.thread_exiting = t]
                 /\ tcb' = T /\ Go(t, "scan0") /\ UNCHANGED stale
              \/ /\ pcb.exiting = "MAIN"
                 /\ pcb' = [p EXCEPT !.in_kernel = @ - 1]
                 /\ tcb' = exit_helper(T) /\ Go(t, "scan0")
                 /\ stale' = IF T[Main].status = "ready" THEN stale \union {Main} ELSE stale
              \/ /\ pcb.exiting = "NORMAL"
                 /\ pcb' = p /\ tcb' = T /\ Go(t, "pleave") /\ UNCHANGED stale
    /\ UNCHANGED <<setup, threads, prog, local, todo, finished>>

\* rw_lock_acquire(&threads_lock, RW_READER), and the caller leaves the list
process_exit_scan_begin(t) ==
    /\ CanRun(t) /\ pc[t] = "scan0"
    /\ threads' = list_remove(threads, t)
    /\ todo' = [todo EXCEPT ![t] = threads']
    /\ Go(t, "scan")
    /\ UNCHANGED <<setup, pcb, tcb, prog, local, finished, stale, broken>>

\* A thread outside the kernel becomes a ZOMBIE first; exit_helper_remove_from_list()
\* then sees neither READY nor BLOCKED and leaves it on the ready list.
process_exit_scan(t) ==
    /\ CanRun(t) /\ pc[t] = "scan" /\ todo[t] # <<>>
    /\ LET pos == Head(todo[t])
       IN  IF tcb[pos].in_handler
           THEN UNCHANGED <<tcb, stale, broken>>
           ELSE /\ Assert(AllBlocked(wake_up_joiner(pos)), "unblock")
                /\ tcb' = [thread_unblock(tcb, wake_up_joiner(pos)) EXCEPT ![pos].status = "zombie"]
                /\ stale' = IF tcb[pos].status = "ready" THEN stale \union {pos} ELSE stale
    /\ todo' = [todo EXCEPT ![t] = Tail(@)]
    /\ Go(t, "scan")
    /\ UNCHANGED <<setup, pcb, threads, prog, local, finished>>

\* the traversal is over; thread_block() while others are in the kernel
process_exit_wait(t) ==
    /\ CanRun(t) /\ \/ pc[t] = "scan" /\ todo[t] = <<>> /\ Go(t, "wait") /\ UNCHANGED tcb
                    \/ /\ pc[t] = "wait" /\ Go(t, "clean")
                       /\ tcb' = [tcb EXCEPT ![t].status = IF pcb.in_kernel > 1 THEN "blocked" ELSE @]
    /\ UNCHANGED <<setup, pcb, threads, prog, local, todo, finished, stale, broken>>

\* ASSERT(in_kernel_threads == 1), every other TCB is freed, process_exit_tail(), thread_exit()
process_exit_clean(t) ==
    /\ CanRun(t) /\ pc[t] = "clean"
    /\ Assert(pcb.in_kernel = 1 /\ stale \intersect Range(threads) = {},
              IF pcb.in_kernel = 1 THEN "freed" ELSE "kernel")
    /\ tcb' = [u \in Threads |-> IF u = t THEN [tcb[t] EXCEPT !.status = "dying"]
                 ELSE IF u \in Range(threads) THEN [tcb[u] EXCEPT !.status = "free"] ELSE tcb[u]]
    /\ threads' = <<>>
    /\ Go(t, "tail")
    /\ UNCHANGED <<setup, pcb, prog, local, todo, finished, stale>>

\* schedule() takes a thread from the ready list and thread_switch_tail() makes
\* it RUNNING, whatever its status was
schedule_stale(t) ==
    /\ t \in stale /\ broken = "none" /\ (setup.preemptive \/ ~Able(cur))
    /\ tcb' = [tcb EXCEPT ![t].status = "ready"]
    /\ stale' = stale \ {t}
    /\ cur' = IF setup.preemptive THEN cur ELSE t
    /\ UNCHANGED <<setup, pcb, threads, prog, pc, local, todo, finished, broken>>

\* nobody can run: the idle thread, or a kernel that stopped
idle == /\ stale = {} \/ broken # "none"
        /\ \A t \in Threads : ~CanRun(t)
        /\ UNCHANGED vars

Step(t) == \/ syscall_handler(t) \/ work(t) \/ exit_if_exiting(t) \/ pthread_exit(t)
           \/ handler_pthread_create(t) \/ pthread_execute(t) \/ thread_create(t)
           \/ pthread_execute_end(t) \/ handler_pthread_create_error(t)
           \/ start_pthread(t) \/ start_pthread_list(t) \/ start_pthread_up(t)
           \/ pthread_join(t) \/ pthread_join_check(t) \/ pthread_join_block(t) \/ pthread_join_reap(t)
           \/ pthread_exit_main(t) \/ pthread_exit_main_wait(t)
           \/ process_exit_normal(t) \/ process_exit_scan_begin(t) \/ process_exit_scan(t)
           \/ process_exit_wait(t) \/ process_exit_clean(t) \/ schedule_stale(t)
Next == (\E t \in Threads : Step(t)) \/ idle

\* The ready list is a queue and every time slice ends.
Spec == Init /\ [][Next]_vars
FairSpec == Spec /\ \A t \in Threads : WF_vars(Step(t))

-----------------------------------------------------------------------------
(* Properties. *)

Joiners(u) == {t \in Threads : \E i \in DOMAIN setup.script[t] : setup.script[t][i] = [op |-> "join", arg |-> u]}
\* Two joiners of one thread are told apart by joined_by, which pthread_join()
\* tests in one section and sets in another: a time slice that ends between the
\* two lets both go on.
OneJoinerEach == setup.preemptive => \A u \in Threads : Cardinality(Joiners(u)) <= 1
\* In a program whose threads all end before exit() is called no ASSERT of
\* these functions fails and no freed TCB is used: thread_unblock() meets a
\* blocked thread, a joiner reaps a zombie, the last thread is alone.  Where no
\* thread has two joiners this holds wherever a thread is preempted, and with
\* two joiners where nobody is preempted inside these functions.
NoPanic == setup.orderly /\ OneJoinerEach => broken = "none"

Alive == {t \in Threads : tcb[t].status \in {"ready", "blocked", "dying"}}
\* the threads that run the exit of the process
Exiters == {t \in Threads : pc[t] \in {"scan0", "scan", "wait", "clean", "tail"}}

\* Two threads of the process never run on the same user stack, and the stack
\* of a thread that has not exited is not free for the next pthread_create().
StackExclusive == Exiters = {} =>
    \A t, u \in {x \in Alive : pc[x] \notin {"start", "tail"}} :
        /\ tcb[t].stack_no \in pcb.stacks
        /\ t # u => tcb[t].stack_no # tcb[u].stack_no

\* "@post" of pthread_exit_main(): when the last thread starts to free the
\* others, each of them has exited and none can be scheduled again.
TailAlone == setup.orderly => \A t \in Threads : pc[t] = "clean" /\ tcb[t].status = "ready" =>
    stale = {} /\ \A u \in Threads \ {t} : tcb[u].status \in {"zombie", "free"}

\* Of the threads that call exit(), fault, or return from main(), one runs the
\* exit of the process and the others leave as threads, unless the main thread
\* has called pthread_exit(): process_exit_normal() leaves EXITING_MAIN as it is.
OneExiter == pcb.exiting # "MAIN" => Cardinality(Exiters) <= 1

\* What follows holds when nobody is preempted inside these functions; a time
\* slice that ends in pthread_join() or exit_if_exiting() can lose a wake-up.
Quiet == setup.orderly /\ ~setup.preemptive /\ setup.outcomes = {TRUE}

\* pthread_join() "waits for thread with TID to die": a joiner returns.
JoinReturns == \A t \in Threads : Quiet /\ pc[t] = "reap" ~> pc[t] # "reap"

\* The main thread that called pthread_exit() is woken when the others have
\* exited, and ends the process.
MainLeaves == Quiet /\ pc[Main] = "mwait" ~> (\E t \in Threads : pc[t] = "tail")
=============================================================================
