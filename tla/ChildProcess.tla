---------------------------- MODULE ChildProcess ----------------------------
(* A process and its children: process_execute(), start_process(),         *)
(* process_wait() (userprog/process_create.c), handler_exec()              *)
(* (userprog/syscall.c) and the parts of process_exit_tail()               *)
(* (userprog/process_exit.c) by which parent and child decide who frees    *)
(* the struct child_process they share.                                    *)
(*                                                                         *)
(* The parent's threads run scripts of exec, wait and exit.  A step ends   *)
(* where the thread can lose the processor and another could tell.  Using  *)
(* freed memory stops the model: free() overwrites the block.              *)
EXTENDS Integers, Sequences, KList

CONSTANTS Threads,     \* the threads of the parent
          Children,    \* the processes it may start
          NULL,
          Codes,       \* exit codes of the children
          Setups       \* the programs and how they are run

ASSUME ChildAssumption ==
    /\ Threads \intersect Children = {} /\ NULL \notin Threads \union Children
    /\ Codes \subseteq Int /\ Codes # {}
    /\ \A s \in Setups : s.memory \in {{TRUE}, BOOLEAN} /\ s.preemptive \in BOOLEAN

\* script:     what each thread of the parent calls, a function to sequences
\* waits:      the parent waits for every child before it exits
\* memory:     what an allocation or thread_create() may return
\* preemptive: whether a time slice may end inside these functions
VARIABLES setup,          \* the program, chosen at the start
          children,       \* pcb->children of the parent
          children_lock,  \* its holder, or NULL
          ce,             \* the struct child_process of each child
          prog, pc,       \* of the parent's threads and the children
          elem,           \* the element a thread of the parent works on
          exit_code,      \* pcb->exit_code of each child that exits
          returned,       \* what wait() returned for each child, or NULL
          broken,         \* "none", or why the kernel stopped
          cur             \* who has the processor (unless preemptive)
vars == <<setup, children, children_lock, ce, prog, pc, elem, exit_code, returned, broken, cur>>

Actors == Threads \union Children
\* mem and emem: the block of the element, and that of its editing semaphore
NoElem == [mem |-> "none", emem |-> "none", pid |-> NULL, exited_code |-> -2, editing |-> 0,
           waiting |-> 0, child |-> FALSE, exited |-> FALSE]

Init == /\ setup \in Setups /\ prog = setup.script
        /\ children = <<>> /\ children_lock = NULL
        /\ ce = [c \in Children |-> NoElem]
        /\ pc = [a \in Actors |-> IF a \in Threads THEN "user" ELSE "none"]
        /\ elem = [t \in Threads |-> NULL]
        /\ exit_code = [c \in Children |-> NULL]
        /\ returned = [c \in Children |-> NULL]
        /\ broken = "none" /\ cur = CHOOSE t \in Threads : prog[t] # <<>>

-----------------------------------------------------------------------------
Call(t) == Head(prog[t])
Arg(t) == Call(t).arg
Calls(a, op) == pc[a] = "user" /\ prog[a] # <<>> /\ Call(a).op = op
\* the locks and semaphores an actor may be waiting for
Waiting(a) ==
    \/ children_lock # NULL /\ (pc[a] \in {"push", "find"} \/ Calls(a, "wait"))
    \/ pc[a] \in {"exec_down", "tail_down"} /\ ce[elem[a]].emem = "live" /\ ce[elem[a]].editing = 0
    \/ pc[a] = "wait_down" /\ ce[elem[a]].waiting = 0
    \/ pc[a] = "down" /\ ce[a].emem = "live" /\ ce[a].editing = 0
    \/ pc[a] = "user" /\ prog[a] = <<>>
    \/ Calls(a, "exit") /\ (\E t \in Threads \ {a} : prog[t] # <<>>)
Able(a) == pc[a] \notin {"none", "gone"} /\ ~Waiting(a)
\* user code is preempted at any time
InUserMode(a) == pc[a] \in {"user", "run"}
CanRun(a) == Able(a) /\ broken = "none" /\ (setup.preemptive \/ cur = a \/ ~Able(cur) \/ InUserMode(cur))
Go(a, to) == pc' = [pc EXCEPT ![a] = to] /\ cur' = IF setup.preemptive THEN cur ELSE a
Done(t) == prog' = [prog EXCEPT ![t] = Tail(@)]
\* the blocks a step uses must be live
Uses(c, fields) == broken' = IF \A f \in fields : ce[c][f] = "live" THEN broken ELSE "freed"
\* list_for_each_entry over the list reads every element up to the one it looks for
Reads(s) == broken' = IF \A i \in 1..Len(s) : ce[s[i]].mem = "live" THEN broken ELSE "freed"

\* MUTANT: the child does not raise waiting
free_parent_self_silent(e, code) ==
    IF e.exited THEN [e EXCEPT !.emem = "freed", !.mem = "freed"]
    ELSE [e EXCEPT !.exited = TRUE, !.exited_code = code, !.child = FALSE]
\* MUTANT: the child does not mark the element
free_parent_self_unmarked(e, code) ==
    IF e.exited THEN [e EXCEPT !.emem = "freed", !.mem = "freed"]
    ELSE [e EXCEPT !.exited_code = code, !.child = FALSE, !.waiting = @ + 1]
\* free_parent_self(): the child's part, on its element e
free_parent_self(e, code) ==
    IF e.exited THEN [e EXCEPT !.emem = "freed", !.mem = "freed"]
    ELSE [e EXCEPT !.exited = TRUE, !.exited_code = code, !.child = FALSE, !.waiting = @ + 1]
\* free_child_self(): the parent's part; child->child->parent needs the child's PCB
free_child_self(e) ==
    IF e.exited THEN [e EXCEPT !.emem = "freed", !.mem = "freed"]
    ELSE [e EXCEPT !.exited = TRUE, !.waiting = @ + 1]
PCBThere(e) == e.exited \/ e.child

-----------------------------------------------------------------------------
(* exec *)

\* process_execute(): the copy of the command line and the element
process_execute(t) ==
    /\ CanRun(t) /\ Calls(t, "exec")
    /\ \E ok \in setup.memory :
         IF ok
         THEN /\ ce' = [ce EXCEPT ![Arg(t)] = [NoElem EXCEPT !.mem = "live"]]
              /\ elem' = [elem EXCEPT ![t] = Arg(t)]
              /\ Go(t, "push") /\ UNCHANGED prog
         ELSE Go(t, "user") /\ Done(t) /\ UNCHANGED <<ce, elem>>
    /\ UNCHANGED <<setup, children, children_lock, exit_code, returned, broken>>

process_execute_push(t) ==
    /\ CanRun(t) /\ pc[t] = "push"
    /\ children' = <<elem[t]>> \o children
    /\ Go(t, "editing")
    /\ UNCHANGED <<setup, children_lock, ce, prog, elem, exit_code, returned, broken>>

\* editing and init_pcb: a failure frees the element and leaves it on the list
process_execute_editing(t) ==
    /\ CanRun(t) /\ pc[t] = "editing"
    /\ \E ok \in setup.memory :
         IF ok
         THEN ce' = [ce EXCEPT ![elem[t]].emem = "live", ![elem[t]].editing = 0]
              /\ Go(t, "create") /\ UNCHANGED prog
         ELSE ce' = [ce EXCEPT ![elem[t]].mem = "freed"] /\ Go(t, "user") /\ Done(t)
    /\ UNCHANGED <<setup, children, children_lock, elem, exit_code, returned, broken>>

\* thread_create(), editing being 0
process_execute_create(t) ==
    /\ CanRun(t) /\ pc[t] = "create"
    /\ \E ok \in setup.memory :
         IF ok
         THEN /\ pc' = [pc EXCEPT ![t] = "pid", ![elem[t]] = "start"]
              /\ cur' = (IF setup.preemptive THEN cur ELSE t) /\ UNCHANGED prog
         ELSE Go(t, "user") /\ Done(t)
    /\ UNCHANGED <<setup, children, children_lock, ce, elem, exit_code, returned, broken>>

process_execute_pid(t) ==
    /\ CanRun(t) /\ pc[t] = "pid"
    /\ ce' = [ce EXCEPT ![elem[t]].pid = elem[t]]
    /\ Go(t, "find")
    /\ UNCHANGED <<setup, children, children_lock, prog, elem, exit_code, returned, broken>>

\* the part of the list before the element with this pid, it included
Upto(c) == LET n == {i \in 1..Len(children) : ce[children[i]].pid = c}
           IN  IF n = {} THEN children ELSE SubSeq(children, 1, First(n, Len(children)))
Listed(c) == \E i \in 1..Len(children) : ce[children[i]].mem = "live" /\ ce[children[i]].pid = c

\* handler_exec() looks the child up, and waits for editing with children_lock held
handler_exec(t) ==
    /\ CanRun(t) /\ pc[t] = "find"
    /\ Reads(Upto(elem[t]))
    /\ IF Listed(elem[t])
       THEN children_lock' = t /\ Go(t, "exec_down") /\ UNCHANGED prog
       ELSE Go(t, "user") /\ Done(t) /\ UNCHANGED children_lock
    /\ UNCHANGED <<setup, children, ce, elem, exit_code, returned>>

handler_exec_end(t) ==
    /\ CanRun(t) /\ pc[t] = "exec_down"
    /\ Uses(elem[t], {"mem", "emem"})
    /\ LET e == ce[elem[t]]
       IN  IF ~e.exited /\ e.exited_code = -1
           THEN /\ children' = list_remove(children, elem[t])
                /\ ce' = [ce EXCEPT ![elem[t]].mem = "freed"]
           ELSE UNCHANGED <<children, ce>>
    /\ children_lock' = NULL
    /\ Go(t, "user") /\ Done(t)
    /\ UNCHANGED <<setup, elem, exit_code, returned>>

-----------------------------------------------------------------------------
(* the child *)

\* start_process(): without a PCB the element is left as the parent made it
start_process(c) ==
    /\ CanRun(c) /\ pc[c] = "start"
    /\ \E ok \in setup.memory : Go(c, IF ok THEN "load" ELSE "fail")
    /\ UNCHANGED <<setup, children, children_lock, ce, prog, elem, exit_code, returned, broken>>

start_process_load(c) ==
    /\ CanRun(c) /\ pc[c] = "load"
    /\ \E ok \in BOOLEAN :
         IF ok
         THEN /\ ce' = [ce EXCEPT ![c].pid = c, ![c].child = TRUE, ![c].exited = FALSE, ![c].editing = @ + 1]
              /\ Uses(c, {"mem", "emem"}) /\ Go(c, "run")
         ELSE ce' = [ce EXCEPT ![c] = free_parent_self(@, -1)] /\ Uses(c, {"mem"}) /\ Go(c, "fail")
    /\ UNCHANGED <<setup, children, children_lock, prog, elem, exit_code, returned>>

\* MUTANT: editing is not raised
start_process_fail_silent(c) ==
    /\ CanRun(c) /\ pc[c] = "fail"
    /\ Uses(c, {"mem"})
    /\ ce' = [ce EXCEPT ![c].exited = FALSE]
    /\ Go(c, "gone")
    /\ UNCHANGED <<setup, children, children_lock, prog, elem, exit_code, returned>>
start_process_fail(c) ==
    /\ CanRun(c) /\ pc[c] = "fail"
    /\ Uses(c, {"mem", "emem"})
    /\ ce' = [ce EXCEPT ![c].exited = FALSE, ![c].editing = @ + 1]
    /\ Go(c, "gone")
    /\ UNCHANGED <<setup, children, children_lock, prog, elem, exit_code, returned>>

\* user code, until process_exit_tail()
run_user(c) ==
    /\ CanRun(c) /\ pc[c] = "run"
    /\ \E code \in Codes : exit_code' = [exit_code EXCEPT ![c] = code]
    /\ Go(c, "down")
    /\ UNCHANGED <<setup, children, children_lock, ce, prog, elem, returned, broken>>

\* sema_down(editing), free_parent_self(), sema_up(editing)
process_exit_tail_down(c) ==
    /\ CanRun(c) /\ pc[c] = "down"
    /\ Uses(c, {"emem"})
    /\ ce' = [ce EXCEPT ![c].editing = @ - 1]
    /\ Go(c, "tell")
    /\ UNCHANGED <<setup, children, children_lock, prog, elem, exit_code, returned>>
\* MUTANT: the exit code is not passed on
process_exit_tail_self_code(c) ==
    /\ CanRun(c) /\ pc[c] = "tell"
    /\ Uses(c, {"mem"})
    /\ ce' = [ce EXCEPT ![c] = free_parent_self(@, 0)]
    /\ Go(c, "up")
    /\ UNCHANGED <<setup, children, children_lock, prog, elem, exit_code, returned>>
process_exit_tail_self(c) ==
    /\ CanRun(c) /\ pc[c] = "tell"
    /\ Uses(c, {"mem"})
    /\ ce' = [ce EXCEPT ![c] = free_parent_self(@, exit_code[c])]
    /\ Go(c, "up")
    /\ UNCHANGED <<setup, children, children_lock, prog, elem, exit_code, returned>>
\* MUTANT: editing is not raised
process_exit_tail_up_silent(c) ==
    /\ CanRun(c) /\ pc[c] = "up"
    /\ Go(c, "gone")
    /\ UNCHANGED <<setup, children, children_lock, prog, elem, exit_code, returned, ce, broken>>
process_exit_tail_up(c) ==
    /\ CanRun(c) /\ pc[c] = "up"
    /\ Uses(c, {"emem"})
    /\ ce' = [ce EXCEPT ![c].editing = @ + 1]
    /\ Go(c, "gone")
    /\ UNCHANGED <<setup, children, children_lock, prog, elem, exit_code, returned>>

-----------------------------------------------------------------------------
(* wait and the parent's exit *)

process_wait(t) ==
    /\ CanRun(t) /\ Calls(t, "wait")
    /\ Reads(Upto(Arg(t)))
    /\ IF Listed(Arg(t))
       THEN /\ elem' = [elem EXCEPT ![t] = Arg(t)]
            /\ children_lock' = t /\ Go(t, "wait_down") /\ UNCHANGED prog
       ELSE Go(t, "user") /\ Done(t) /\ UNCHANGED <<elem, children_lock>>
    /\ UNCHANGED <<setup, children, ce, exit_code, returned>>

process_wait_end(t) ==
    /\ CanRun(t) /\ pc[t] = "wait_down"
    /\ LET c == elem[t]
       IN  /\ returned' = [returned EXCEPT ![c] = ce[c].exited_code]
           /\ children' = list_remove(children, c)
           /\ ce' = [ce EXCEPT ![c] = free_child_self([@ EXCEPT !.waiting = @ - 1])]
           /\ broken' = IF ce[c].mem = "live" /\ PCBThere(ce[c]) THEN broken ELSE "freed"
    /\ children_lock' = NULL
    /\ Go(t, "user") /\ Done(t)
    /\ UNCHANGED <<setup, elem, exit_code>>

\* process_exit_tail(): the next element; a child that has raised waiting is done
process_exit_tail(t) ==
    /\ CanRun(t)
    /\ \/ Calls(t, "exit") /\ Go(t, "tail") /\ UNCHANGED <<children, ce, elem, prog, broken>>
       \/ pc[t] = "tail" /\ children = <<>> /\ Go(t, "gone") /\ Done(t) /\ UNCHANGED <<children, ce, elem, broken>>
       \/ /\ pc[t] = "tail" /\ children # <<>>
          /\ LET c == Head(children)
             IN  /\ Uses(c, {"mem"})
                 /\ children' = Tail(children)
                 /\ elem' = [elem EXCEPT ![t] = c]
                 /\ IF ce[c].waiting > 0
                    THEN ce' = [ce EXCEPT ![c] = free_child_self([@ EXCEPT !.waiting = @ - 1])] /\ Go(t, "tail")
                    ELSE Go(t, "tail_down") /\ UNCHANGED ce
          /\ UNCHANGED prog
    /\ UNCHANGED <<setup, children_lock, exit_code, returned>>

process_exit_tail_child(t) ==
    /\ CanRun(t) /\ pc[t] = "tail_down"
    /\ LET c == elem[t]
       IN  /\ ce' = [ce EXCEPT ![c] = free_child_self([@ EXCEPT !.editing = @ - 1])]
           /\ broken' = IF ce[c].mem = "live" /\ ce[c].emem = "live" /\ PCBThere(ce[c]) THEN broken ELSE "freed"
    /\ Go(t, "tail_up")
    /\ UNCHANGED <<setup, children, children_lock, prog, elem, exit_code, returned>>

process_exit_tail_child_up(t) ==
    /\ CanRun(t) /\ pc[t] = "tail_up"
    /\ Uses(elem[t], {"emem"})
    /\ ce' = [ce EXCEPT ![elem[t]].editing = @ + 1]
    /\ Go(t, "tail")
    /\ UNCHANGED <<setup, children, children_lock, prog, elem, exit_code, returned>>

\* nobody can run
idle == (\A a \in Actors : ~CanRun(a)) /\ UNCHANGED vars

ParentStep(t) ==
    \/ process_execute(t) \/ process_execute_push(t) \/ process_execute_editing(t)
    \/ process_execute_create(t) \/ process_execute_pid(t) \/ handler_exec(t) \/ handler_exec_end(t)
    \/ process_wait(t) \/ process_wait_end(t)
    \/ process_exit_tail(t) \/ process_exit_tail_child(t) \/ process_exit_tail_child_up(t)
ChildStep(c) ==
    \/ start_process(c) \/ start_process_load(c) \/ start_process_fail(c)
    \/ process_exit_tail_down(c) \/ process_exit_tail_self(c) \/ process_exit_tail_up(c)
Next == (\E t \in Threads : ParentStep(t)) \/ (\E c \in Children : ChildStep(c) \/ run_user(c)) \/ idle
Spec == Init /\ [][Next]_vars
\* every runnable thread gets the processor in turn; a child's user code need
\* not end
FairSpec == /\ Spec
            /\ \A t \in Threads : WF_vars(ParentStep(t))
            /\ \A c \in Children : WF_vars(ChildStep(c))

-----------------------------------------------------------------------------
(* Properties *)

MemoryOK == setup.memory = {TRUE}

\* A parent that waits for its children, and is not preempted by one that is
\* exiting, uses no freed element and no freed semaphore, and neither do they.
NoFreedUse == MemoryOK /\ setup.waits /\ ~setup.preemptive => broken = "none"

\* wait() returns the code the child exited with, whoever ran first.
WaitCode == \A c \in Children : returned[c] # NULL => returned[c] = exit_code[c]

\* a thread of the parent is in process_wait() for a child that goes on running
HeldUp == \E t \in Threads : pc[t] = "wait_down" /\ pc[elem[t]] = "run"
\* exec returns once the child has told whether it could be loaded.  Only a
\* process_wait() for a child that never ends keeps it from returning: that
\* thread holds children_lock, which handler_exec() needs.
ExecReturns == <>[]HeldUp \/ \A t \in Threads :
    MemoryOK /\ pc[t] = "find" ~> pc[t] \notin {"find", "exec_down"} \/ broken # "none"

Ended(c) == pc[c] \in {"fail", "down", "tell", "up", "gone"}
\* process_wait() returns when the child has exited, although it keeps
\* children_lock meanwhile and other threads of the parent want it.
WaitReturns == \A t \in Threads :
    MemoryOK /\ pc[t] = "wait_down" /\ Ended(elem[t]) ~> pc[t] # "wait_down" \/ broken # "none"

\* The parent's exit is not held up by a child, whether it goes on running or
\* exits at the same time.
ParentLeaves == \A t \in Threads : MemoryOK /\ pc[t] = "tail" ~> pc[t] = "gone" \/ broken # "none"
=============================================================================
