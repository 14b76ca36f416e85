------------------------------ MODULE Syscalls ------------------------------
(* The system calls of userprog/syscall.c on files and on user-level locks *)
(* and semaphores, with the parts of process_exit_tail() that undo them.   *)
(*                                                                         *)
(* setup gives every thread its process and the calls it makes.  A call's  *)
(* fault says where it meets memory that cannot be used: "args" (arguments, *)
(* or a name), "inside" (read or written with the file system's own data),  *)
(* "sector" (a buffer handed to the disk driver).  A section under          *)
(* files_lock does not block and is one step.  An rw_lock is the            *)
(* readers-writers lock that module RWLock shows it to be.                  *)
EXTENDS Integers, Sequences, FiniteSets, KList

CONSTANTS Threads, Processes, NULL,
          Setups,   \* records [proc, script, solo]
          MaxDesc   \* bound on struct file_desc

VARIABLES setup,
          filesys_sema,   \* its value
          disk,           \* who has died with the lock of the disk's channel
          pcb,            \* of each process
          desc,           \* each struct file_desc
          pc, at,         \* where each thread is, and in which call of its script
          pos,            \* the table element a thread has found
          broken,         \* a descriptor was used that is freed or another's
          raced           \* two opens, or a use and a close of one descriptor, overlapped
vars == <<setup, filesys_sema, disk, pcb, desc, pc, at, pos, broken, raced>>

FirstDesc == 3
NewPCB == [files_tab |-> <<>>, files_next_desc |-> FirstDesc, filesys_sema |-> FALSE,
           locks_tab |-> <<>>, semas_tab |-> <<>>, writer |-> [locks_tab |-> NULL, semas_tab |-> NULL],
           opened |-> <<>>, gone |-> FALSE]
NoDesc == [file_desc |-> 0, mem |-> "none", readers |-> {}, writer |-> NULL]

Init == /\ setup \in Setups
        /\ filesys_sema = 1
        /\ disk = NULL
        /\ pcb = [p \in Processes |-> NewPCB]
        /\ desc = [d \in 1 .. MaxDesc |-> NoDesc]
        /\ pc = [t \in Threads |-> "user"]
        /\ at = [t \in Threads |-> 1]
        /\ pos = [t \in Threads |-> NULL]
        /\ broken = FALSE
        /\ raced = FALSE

P(t) == setup.proc[t]
Calls(t) == setup.script[t]
Call(t) == Calls(t)[at[t]]
At(t, l) == pc[t] = l
Go(t, l) == pc' = [pc EXCEPT ![t] = l]
\* the end of syscall_handler()
Return(t) == Go(t, "user") /\ at' = [at EXCEPT ![t] = @ + 1]
\* process_exit_normal() for a page fault: the first thread to leave ends the
\* process, and its others make no more calls (module Pthread)
Peers(t) == {u \in Threads \ {t} : P(u) = P(t)}
Dying(t) == \E u \in Peers(t) : pc[u] \in {"tail", "tail_free", "gone"}
Die(t) == Go(t, IF Dying(t) THEN "gone" ELSE "tail")

\* The switch of syscall_handler().  Arguments and names are read and compared
\* with the top of user memory first; calls on a descriptor pass check_fd().
check_fd(t) == pcb[P(t)].files_next_desc >= Call(t).fd
Rejected(t) == "fault" \in DOMAIN Call(t) /\ Call(t).fault = "args"
FileOps == {"create", "remove", "open"}
FdOps == {"close", "read", "write", "seek", "tell", "filesize"}
syscall_handler(t) ==
    /\ pc[t] = "user" /\ at[t] <= Len(Calls(t)) /\ ~Dying(t)
    /\ \/ Rejected(t) /\ Die(t) /\ UNCHANGED at
       \/ ~Rejected(t) /\ Call(t).op \in FileOps /\ Go(t, "fs") /\ UNCHANGED at
       \/ ~Rejected(t) /\ Call(t).op \in FdOps /\ ~check_fd(t) /\ Return(t)
       \/ /\ ~Rejected(t) /\ Call(t).op \notin FileOps /\ (Call(t).op \in FdOps => check_fd(t))
          /\ Go(t, IF Call(t).op \in {"seek", "tell", "filesize"} THEN "seek" ELSE Call(t).op)
          /\ UNCHANGED at
    /\ UNCHANGED <<setup, filesys_sema, pcb, desc, pos, broken, disk, raced>>
-----------------------------------------------------------------------------
(* handler_create(), handler_remove() and the first half of handler_open() *)

fs_down(t) ==
    /\ At(t, "fs") /\ filesys_sema > 0
    /\ filesys_sema' = filesys_sema - 1
    /\ Go(t, "fs_mark")
    /\ UNCHANGED <<setup, pcb, desc, at, pos, broken, disk, raced>>
fs_mark(t) ==
    /\ At(t, "fs_mark")
    /\ pcb' = [pcb EXCEPT ![P(t)].filesys_sema = TRUE]
    /\ Go(t, "fs_op")
    /\ UNCHANGED <<setup, filesys_sema, desc, at, pos, broken, disk, raced>>
\* filesys_create() and the like, which use the disk.  The size of a new file
\* is an argument that is read only now.
fs_op(t) ==
    /\ At(t, "fs_op") /\ disk = NULL
    /\ IF Call(t).fault = "inside" THEN Die(t) ELSE Go(t, "fs_up")
    /\ UNCHANGED <<setup, filesys_sema, pcb, desc, at, pos, broken, disk, raced>>
fs_up(t) ==
    /\ At(t, "fs_up")
    /\ filesys_sema' = filesys_sema + 1
    /\ Go(t, "fs_clear")
    /\ UNCHANGED <<setup, pcb, desc, at, pos, broken, disk, raced>>
fs_clear(t) ==
    /\ At(t, "fs_clear")
    /\ pcb' = [pcb EXCEPT ![P(t)].filesys_sema = FALSE]
    /\ IF Call(t).op = "open" THEN Go(t, "open") /\ UNCHANGED at ELSE Return(t)
    /\ UNCHANGED <<setup, filesys_sema, desc, pos, broken, disk, raced>>
-----------------------------------------------------------------------------
(* The descriptors *)

\* there may be no such file
handler_open_null(t) ==
    /\ At(t, "open")
    /\ Return(t)
    /\ UNCHANGED <<setup, filesys_sema, pcb, desc, pos, broken, disk, raced>>
\* the new descriptor takes files_next_desc before the lock; if malloc() fails
\* the null pointer is a page fault, and the open file is nobody's
handler_open(t) ==
    /\ At(t, "open")
    /\ \E d \in DOMAIN desc, malloced \in BOOLEAN :
         /\ desc[d].mem = "none" /\ \A e \in 1 .. (d - 1) : desc[e].mem # "none"
         /\ desc' = [desc EXCEPT ![d] = IF malloced
                 THEN [NoDesc EXCEPT !.mem = "live", !.file_desc = pcb[P(t)].files_next_desc]
                 ELSE [NoDesc EXCEPT !.mem = "file"]]
         /\ pos' = [pos EXCEPT ![t] = d]
         /\ IF malloced THEN Go(t, "open_list") ELSE Die(t)
    /\ raced' = (raced \/ \E u \in Peers(t) : At(u, "open_list"))
    /\ UNCHANGED <<setup, filesys_sema, pcb, at, broken, disk>>
\* opened: what the program knows of its descriptors
Opened(p, d) == [pcb[p] EXCEPT !.opened = Append(@, [fd |-> desc[d].file_desc, desc |-> d])]
\* MUTANT: files_next_desc stays
handler_open_list_same(t) ==
    /\ At(t, "open_list")
    /\ pcb' = [pcb EXCEPT ![P(t)] = [Opened(P(t), pos[t]) EXCEPT !.files_tab = list_push_front(@, pos[t])]]
    /\ Return(t)
    /\ UNCHANGED <<setup, filesys_sema, desc, pos, broken, disk, raced>>
handler_open_list(t) ==
    /\ At(t, "open_list")
    /\ pcb' = [pcb EXCEPT ![P(t)] = [Opened(P(t), pos[t]) EXCEPT
                 !.files_tab = list_push_front(@, pos[t]), !.files_next_desc = @ + 1]]
    /\ Return(t)
    /\ UNCHANGED <<setup, filesys_sema, desc, pos, broken, disk, raced>>

\* list_for_each_entry over files_tab: the first with that number
Found(t) == {i \in DOMAIN pcb[P(t)].files_tab : desc[pcb[P(t)].files_tab[i]].file_desc = Call(t).fd}
FirstMatch(t) == LET tab == pcb[P(t)].files_tab
            IN  tab[CHOOSE i \in Found(t) : \A j \in Found(t) : i <= j]
\* descriptor d is used: it must be live and the one open() returned that number for
Use(t, d) ==
    LET Named == {o.desc : o \in {o \in Range(pcb[P(t)].opened) : o.fd = Call(t).fd /\ desc[o.desc].mem = "live"}}
    IN  broken' = (broken \/ Named # {d})

\* handler_close(): the descriptor leaves the table, then waits for its readers
handler_close(t) ==
    /\ At(t, "close")
    /\ IF Call(t).fd < FirstDesc \/ Found(t) = {}
       THEN Return(t) /\ UNCHANGED <<pcb, pos, raced>>
       ELSE /\ pcb' = [pcb EXCEPT ![P(t)].files_tab = list_remove(@, FirstMatch(t))]
            /\ pos' = [pos EXCEPT ![t] = FirstMatch(t)]
            /\ Go(t, "close_lock") /\ UNCHANGED at
            /\ raced' = (raced \/ \E u \in Peers(t) : pos[u] = FirstMatch(t) /\ pc[u] \in {"read_lock", "read_use", "write_use"})
    /\ UNCHANGED <<setup, filesys_sema, desc, broken, disk>>
handler_close_lock(t) ==
    /\ At(t, "close_lock") /\ desc[pos[t]].readers = {} /\ desc[pos[t]].writer = NULL
    /\ Use(t, pos[t])
    /\ desc' = [desc EXCEPT ![pos[t]].writer = t]
    /\ Go(t, "close_free")
    /\ UNCHANGED <<setup, filesys_sema, pcb, at, pos, disk, raced>>
\* file_close(), rw_lock_release() and free()
handler_close_free(t) ==
    /\ At(t, "close_free")
    /\ desc' = [desc EXCEPT ![pos[t]].mem = "freed", ![pos[t]].writer = NULL]
    /\ Return(t)
    /\ UNCHANGED <<setup, filesys_sema, pcb, pos, broken, disk, raced>>

\* handler_filesize(), handler_tell() and handler_seek(): all under files_lock
handler_seek(t) ==
    /\ At(t, "seek")
    /\ IF Call(t).fd < FirstDesc \/ Found(t) = {} THEN UNCHANGED broken ELSE Use(t, FirstMatch(t))
    /\ Return(t)
    /\ UNCHANGED <<setup, filesys_sema, pcb, desc, pos, disk, raced>>

\* the console is read by module Intq; to read from 1 and to write to 0 fails
handler_find(t) ==
    /\ At(t, "read") \/ At(t, "write")
    /\ IF Call(t).fd \in {0, 1} \/ Found(t) = {}
       THEN Return(t) /\ UNCHANGED pos
       ELSE /\ pos' = [pos EXCEPT ![t] = FirstMatch(t)]
            /\ Go(t, IF At(t, "read") THEN "read_lock" ELSE "write_use") /\ UNCHANGED at
    /\ UNCHANGED <<setup, filesys_sema, pcb, desc, broken, disk, raced>>
handler_read(t) ==
    /\ At(t, "read_lock") /\ desc[pos[t]].writer = NULL
    /\ Use(t, pos[t])
    /\ desc' = [desc EXCEPT ![pos[t]].readers = @ \union {t}]
    /\ Go(t, "read_use")
    /\ UNCHANGED <<setup, filesys_sema, pcb, at, pos, disk, raced>>
\* file_read() or file_write() into or from the program's buffer.  A page fault
\* ends it; in a transfer of a whole sector the driver holds the channel's lock.
Transfer(t) ==
    /\ disk = NULL
    /\ disk' = IF Call(t).fault = "sector" THEN t ELSE NULL
    /\ IF Call(t).fault = "none" THEN Return(t) ELSE Die(t) /\ UNCHANGED at
handler_read_use(t) ==
    /\ At(t, "read_use")
    /\ Use(t, pos[t])
    /\ Transfer(t)
    /\ desc' = IF Call(t).fault = "none" THEN [desc EXCEPT ![pos[t]].readers = @ \ {t}] ELSE desc
    /\ UNCHANGED <<setup, filesys_sema, pcb, pos, raced>>
\* no rw_lock
handler_write(t) ==
    /\ At(t, "write_use")
    /\ Use(t, pos[t])
    /\ Transfer(t)
    /\ UNCHANGED <<setup, filesys_sema, pcb, desc, pos, raced>>
-----------------------------------------------------------------------------
(* User-level locks and semaphores: a table each, an entry once registered  *)
(* stays.  writer is the writer of locks_lock and of semas_lock; what is    *)
(* done for reading is one step.                                            *)

Tab(t) == IF Call(t).op \in {"lock_init", "lock_acquire", "lock_release"} THEN "locks_tab" ELSE "semas_tab"
Entries(t) == {i \in DOMAIN pcb[P(t)][Tab(t)] : pcb[P(t)][Tab(t)][i].id = Call(t).id}
Entry(t) == CHOOSE i \in Entries(t) : \A j \in Entries(t) : i <= j
NewEntry(t) == [id |-> Call(t).id, holder |-> NULL, value |-> IF Tab(t) = "locks_tab" THEN 1 ELSE Call(t).val]
\* MUTANT: the table is searched with the lock for readers
rw_lock_acquire_writer_shared(t) ==
    /\ At(t, "lock_init") \/ (At(t, "sema_init") /\ Call(t).val >= 0)
    /\ UNCHANGED pcb
    /\ pos' = [pos EXCEPT ![t] = IF Entries(t) = {} THEN 0 ELSE Entry(t)]
    /\ Go(t, "init") /\ UNCHANGED <<setup, filesys_sema, desc, at, broken, disk, raced>>
rw_lock_acquire_writer(t) ==
    /\ At(t, "lock_init") \/ (At(t, "sema_init") /\ Call(t).val >= 0)
    /\ pcb[P(t)].writer[Tab(t)] = NULL
    /\ pcb' = [pcb EXCEPT ![P(t)].writer[Tab(t)] = t]
    /\ pos' = [pos EXCEPT ![t] = IF Entries(t) = {} THEN 0 ELSE Entry(t)]
    /\ Go(t, "init") /\ UNCHANGED <<setup, filesys_sema, desc, at, broken, disk, raced>>
\* handler_lock_init() and handler_sema_init(); malloc() may fail
handler_init(t) ==
    /\ At(t, "init")
    /\ \E malloced \in BOOLEAN :
         pcb' = [pcb EXCEPT ![P(t)] =
                   [(IF pos[t] = 0 /\ malloced THEN [@ EXCEPT ![Tab(t)] = list_push_front(@, NewEntry(t))] ELSE @)
                    EXCEPT !.writer[Tab(t)] = NULL]]
    /\ Return(t)
    /\ UNCHANGED <<setup, filesys_sema, desc, pos, broken, disk, raced>>
handler_sema_init_negative(t) ==
    /\ At(t, "sema_init") /\ Call(t).val < 0
    /\ Return(t)
    /\ UNCHANGED <<setup, filesys_sema, pcb, desc, pos, broken, disk, raced>>
\* the search of the other four; the registered object is found by its place
\* from the end, which stays when others are pushed in front
FromEnd(t) == Len(pcb[P(t)][Tab(t)]) - Entry(t)
Obj(t) == Len(pcb[P(t)][Tab(t)]) - pos[t]
handler_lookup(t) ==
    /\ pc[t] \in {"lock_acquire", "lock_release", "sema_down", "sema_up"}
    /\ pcb[P(t)].writer[Tab(t)] = NULL
    /\ IF \/ Entries(t) = {}
          \/ At(t, "lock_acquire") /\ pcb[P(t)].locks_tab[Entry(t)].holder = t
          \/ At(t, "lock_release") /\ pcb[P(t)].locks_tab[Entry(t)].holder # t
       THEN Return(t) /\ UNCHANGED pos
       ELSE pos' = [pos EXCEPT ![t] = FromEnd(t)]
            /\ Go(t, IF pc[t] \in {"lock_acquire", "sema_down"} THEN "down" ELSE "up") /\ UNCHANGED at
    /\ UNCHANGED <<setup, filesys_sema, pcb, desc, broken, disk, raced>>
\* lock_acquire() or sema_down(), and lock_release() or sema_up(), on the object
Put(t, value, holder) ==
    pcb' = [pcb EXCEPT ![P(t)][Tab(t)][Obj(t)] = [@ EXCEPT !.value = value, !.holder = holder]]
handler_down(t) ==
    /\ At(t, "down") /\ pcb[P(t)][Tab(t)][Obj(t)].value > 0
    /\ Put(t, pcb[P(t)][Tab(t)][Obj(t)].value - 1, t)
    /\ Return(t)
    /\ UNCHANGED <<setup, filesys_sema, desc, pos, broken, disk, raced>>
handler_up(t) ==
    /\ At(t, "up")
    /\ Put(t, pcb[P(t)][Tab(t)][Obj(t)].value + 1, NULL)
    /\ Return(t)
    /\ UNCHANGED <<setup, filesys_sema, desc, pos, broken, disk, raced>>
-----------------------------------------------------------------------------
(* Leaving *)

\* exit() when the process's threads have made their calls; kill() comes here too
process_exit(t) ==
    /\ At(t, "user") /\ at[t] > Len(Calls(t))
    /\ \A u \in Peers(t) : pc[u] = "user" /\ at[u] > Len(Calls(u))
    /\ ~pcb[P(t)].gone
    /\ Go(t, "tail")
    /\ UNCHANGED <<setup, filesys_sema, pcb, desc, at, pos, broken, disk, raced>>
\* whoever ends the process waits for its threads to leave the kernel
OthersOut(t) == \A u \in Peers(t) : pc[u] \in {"user", "gone"}
\* MUTANT: the semaphore is not given back
process_exit_tail_sema_lost(t) ==
    /\ At(t, "tail") /\ OthersOut(t)
    /\ UNCHANGED filesys_sema
    /\ Go(t, "tail_free")
    /\ UNCHANGED <<setup, pcb, desc, at, pos, broken, disk, raced>>
process_exit_tail_sema(t) ==
    /\ At(t, "tail") /\ OthersOut(t)
    /\ filesys_sema' = IF pcb[P(t)].filesys_sema THEN filesys_sema + 1 ELSE filesys_sema
    /\ Go(t, "tail_free")
    /\ UNCHANGED <<setup, pcb, desc, at, pos, broken, disk, raced>>
\* MUTANT: the descriptors are left
process_exit_tail_leak(t) ==
    /\ At(t, "tail_free")
    /\ pcb' = [pcb EXCEPT ![P(t)] = [@ EXCEPT !.files_tab = <<>>, !.locks_tab = <<>>, !.semas_tab = <<>>, !.gone = TRUE]]
    /\ Go(t, "gone")
    /\ UNCHANGED <<setup, filesys_sema, desc, at, pos, broken, disk, raced>>
process_exit_tail(t) ==
    /\ At(t, "tail_free")
    /\ desc' = [d \in DOMAIN desc |-> IF d \in Range(pcb[P(t)].files_tab)
                                      THEN [desc[d] EXCEPT !.mem = "freed"] ELSE desc[d]]
    /\ pcb' = [pcb EXCEPT ![P(t)] = [@ EXCEPT !.files_tab = <<>>, !.locks_tab = <<>>, !.semas_tab = <<>>, !.gone = TRUE]]
    /\ Go(t, "gone")
    /\ UNCHANGED <<setup, filesys_sema, at, pos, broken, disk, raced>>

Step(t) == \/ syscall_handler(t) \/ fs_down(t) \/ fs_mark(t) \/ fs_op(t) \/ fs_up(t) \/ fs_clear(t)
           \/ handler_open_null(t) \/ handler_open(t) \/ handler_open_list(t) \/ handler_close(t) \/ handler_close_lock(t)
           \/ handler_close_free(t) \/ handler_seek(t) \/ handler_find(t) \/ handler_read(t)
           \/ handler_read_use(t) \/ handler_write(t)
           \/ rw_lock_acquire_writer(t) \/ handler_init(t) \/ handler_sema_init_negative(t)
           \/ handler_lookup(t) \/ handler_down(t) \/ handler_up(t)
           \/ process_exit(t) \/ process_exit_tail_sema(t) \/ process_exit_tail(t)
\* nobody is left but who waits
idle == /\ \A t \in Threads : \/ pc[t] \in {"gone", "down", "fs"}
                              \/ pc[t] \in {"fs_op", "read_use", "write_use"} /\ disk # NULL
                              \/ pc[t] = "user" /\ (at[t] > Len(Calls(t)) \/ Dying(t))
                              \/ pc[t] = "tail" /\ ~OthersOut(t)
        /\ UNCHANGED vars
Next == (\E t \in Threads : Step(t)) \/ idle
Spec == Init /\ [][Next]_vars
\* sema_up() wakes the waiters of filesys_sema in turn
FairSpec == Spec /\ \A t \in Threads : WF_vars(Step(t)) /\ SF_vars(fs_down(t))
-----------------------------------------------------------------------------
(* Properties *)

\* Threads that open, use and close descriptors at the same time: every call on
\* a number reaches the file that open() returned it for, and no struct
\* file_desc that close() has freed.  Two things break this and nothing else
\* does: an open() that overlaps another's, and a close() of a descriptor that
\* another thread's read() or write() has already found.
OwnFile == broken => raced

\* Processes of one thread leave no descriptor behind, wherever they fault:
\* what open() has allocated close() or process_exit_tail() frees.
Reclaimed == setup.solo /\ (\A p \in Processes : pcb[p].gone) =>
    \A d \in DOMAIN desc : desc[d].mem # "live"

\* lock_init() and sema_init() register a user-level object once, although two
\* threads may search the table at the same time: the program never has two
\* kernel objects for one lock_t.
RegisteredOnce == \A p \in Processes : \A tab \in {"locks_tab", "semas_tab"} :
    \A i, j \in DOMAIN pcb[p][tab] : pcb[p][tab][i].id = pcb[p][tab][j].id => i = j

\* Whoever waits for the file system gets in, although another process dies of
\* a page fault inside: process_exit_tail() gives the semaphore back.  The lock
\* of the disk's channel nobody gives back: the file system is lost to a
\* process that faults while the driver copies a sector, and to no other.
FileSystemFree == \A t \in Threads :
    setup.solo /\ pc[t] = "fs" ~> pc[t] # "fs" \/ disk # NULL
=============================================================================
