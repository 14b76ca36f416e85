# A TLA+ model of the kernel

This directory holds a formal model of the kernel in `src/`, an extended Pintos:
TLA+ modules for its components, TLC configurations that check them on small
instances, and TLAPS proofs of the properties that matter most for every
instance. `PROJECT.json` lists components, runs, the source lines behind every
definition, the finding, hazards and theorems.

## The system and its parts

The kernel runs on one processor. Threads are preempted by the timer wherever
interrupts are on, so a stretch of code with interrupts off is atomic and nothing
else is. The parts, and how they lean on each other:

| Part | Code (below `src/src/`) | Uses | Model |
|---|---|---|---|
| Kernel lists | `lib/kernel/list.c` | | `KList`, `Klib` |
| Threads, ready list, FIFO and strict-priority scheduling | `threads/thread.c`, `interrupt.c` | lists | `Synch` |
| Semaphores, locks with priority donation | `threads/synch.c` | threads, lists | `Synch` |
| Condition variables, reader-writer locks | `threads/synch.c` | locks | `RWLock`, `ReadersWriters` |
| Sleeping threads | `devices/timer.c` | threads, lists | `TimerSleep` |
| Process execute, wait, exit | `userprog/process_create.c`, `process_exit.c` | semaphores, locks, allocators | `ChildProcess` |
| User threads: create, join, exit | `userprog/userthread_*.c`, `process_exit.c` | threads, reader-writer locks | `Pthread` |
| Exceptions | `userprog/exception.c` | process exit | `Pthread`, `Syscalls` |
| System calls, descriptor table, user locks and semaphores | `userprog/syscall.c` | all of the above, file system | `Syscalls` |
| Executable loading, address spaces | `userprog/process_create.c`, `pagedir.c` | page allocator | `Loader` |
| File system | `filesys/*.c` | disks, bitmap | `FileSys`, `FileStore`; bytes of a file and archives in `Storage` |
| Page and block allocators | `threads/palloc.c`, `malloc.c` | locks, bitmap | `Memory` |
| Bitmap | `lib/kernel/bitmap.c` | | `Bitmap`, `Klib` |
| Hash table | `lib/kernel/hash.c` | lists, `malloc()` | `HashTable`, `KeyedSet` |
| Interrupt queue, keyboard, serial port, console | `devices/intq.c`, `input.c`, `serial.c`, `kbd.c`, `lib/kernel/console.c` | threads, locks | `Intq` |
| Disks | `devices/ide.c` | locks, semaphores | `Ide` |
| Partitions, block devices, page pools | `devices/partition.c`, `block.c`, `threads/init.c` | | `Storage` |
| Library: sorting, arithmetic, strings, command line, text screen | `lib/*.c`, `devices/vga.c`, `threads/init.c` | | `Klib`, `Kstring`, `Screen` |

## Modules

A variable is a field or global of the C code unless its declaration says
otherwise, and an action has the name of the function, or of the stretch of a
function, that it stands for. `pc` says where inside a kernel function a thread
is. Operators commented `Mutant` or `MUTANT` are faulty variants of the definition
that follows them; they are used by nothing and show, put in its place, that a
property notices the fault.

### Lists

`KList` - a `struct list` is the sequence of the structures its elements are
embedded in; each operator returns the list a C function leaves behind. `Bitmap`
does the same for a `struct bitmap`, a function of booleans.

### Threads and synchronisation

`Synch` - threads, scheduler, semaphores and locks in one module, because priority
donation reaches into all of them. The variables are the fields of `struct thread`
(`status`, `b_pri`, `e_pri`, `queue`, `donated_for`, `lock_queue`), of
`struct semaphore` (`value`; the waiters are `list[s]`) and of `struct lock`
(`holder`, `pri`, `state`), the ready list `list[Ready]` and the running thread
`cur`. `pc` and `arg` say where inside a kernel function a thread is:

| `pc` | Place | Interrupts |
|---|---|---|
| `run` | in client code | on |
| `yield` | about to call `thread_yield()` | on |
| `create_chk`, `up_chk` | before the priority test that ends `thread_create()`, `sema_up()` | on |
| `rel_up` | in `lock_release()`, before `sema_up()` | on |
| `donate` | in the loop of `donate_pri_acquire()` | off |
| `down` | at the test of `sema_down()` | off |
| `done` | has exited | |

Only `cur` takes steps. An action is a stretch of code between two of these
places; `timer_yield` and `intr_sema_up` (a device interrupt that ups a semaphore)
happen only where interrupts are on. A thread that blocks in `sema_down()` is at
`down` and off the processor, so when it runs again it repeats the test, as the
`while` loop does. Operations that fail without effect (`sema_try_down()`,
`lock_try_acquire()` without success) are stuttering steps.

What clients do is left open except for a discipline: a thread takes locks in
ascending `Rank` (the code asserts that it does not take one it holds), releases
what it holds, and exits holding nothing. `thread_create()` is modelled from
`init_thread()` to `thread_unblock()` as one step, without running out of pages
and without the lock around the thread identifier counter. `sema_up()` reads the
woken thread's priority after interrupts are back on; if that thread has exited
meanwhile its page is freed and the outcome of the test is arbitrary. The idle
thread is not on any list: when the ready list is empty `cur` is `Idle`.

`RWLock` - `cond_wait()`, `cond_signal()`, `cond_broadcast()` and the rw_lock, a
monitor with a guard lock, two conditions and the counters AR, AW, WR, WW. The guard
is taken as `Synch` shows locks to be: one holder, and a free lock can be had. A
client goes `out`, `lock`, `test`, then either `ins`, `rel`, `blocked`, `woken` and
back to `test`, or `enter`, `in`, `exit`, `update`, `leave`. At `ins` and `rel` it
is among the waiters of the condition and still runs; a preemption there links its
`elem` into the ready list as well. That step (`elem_relinked`) sets `broken` and
stops the model: what two lists that share an element do next is not modelled.
`ReadersWriters` is the abstract lock: a set of readers and a set of writers.

`TimerSleep` - `timer_sleep()` and its kin, the sorted sleep list, the wake-ups of
`timer_interrupt()`, and `donate_pri_acquire`, what donation does to the place of a
sleeping lock holder. `holders` says which threads may hold a lock that others want.
A thread is at `run`, at `start` (wake-up time computed, interrupts still on) or
`asleep`; `start` and `asked` remember when it called and for how long, and `moved`
that a donation has moved a sleeper.

### Processes and user threads

`Pthread` - the threads of one process. Each runs a script of system calls (create,
join, exit of the thread or of the process, fault, some other call), chosen with the
`setup`, which also says whether allocations may fail, how many user stacks there
are, and whether threads are preempted inside these functions. A step is a section
with interrupts off, or a stretch between two points where a preemption matters.
`threads_lock` is the rw_lock of `RWLock`; its writers' sections are one step. A
failed `ASSERT`, or the use of a freed TCB, sets `broken` and stops the model.

`ChildProcess` - a parent with one or two threads and its children: `exec`, `wait`,
`exit`, and the `struct child_process` they share, with its semaphores `editing`
and `waiting`. A child's own code may run for ever. Using freed memory stops the
model.

`Syscalls` - the handlers on files, descriptors and user-level locks and semaphores,
with the cleaning up of `process_exit_tail()`. A section under `files_lock` does not
block and is one step; the rw_lock of a descriptor is what `RWLock` shows it to be.
A page fault ends the process wherever it happens: in the arguments, inside the file
system (the size of a new file is read there, with the semaphore taken), or while the
disk driver copies a whole sector from or to the caller's buffer, with the channel's
lock taken (`disk`). How the threads of a dying process leave is `Pthread`'s subject;
here they make no more calls, and the last one cleans up.

### Memory, files, devices

`Memory` - `palloc_get_multiple()`, `palloc_free_multiple()`, `malloc()`,
`realloc()` and `free()` by several threads. A block is a page and an offset.
`palloc_free_multiple()` takes no lock and clears its bits one by one, as the code
does.

`FileSys` - `filesys.c`, `directory.c`, `inode.c`, `file.c`, `free-map.c` on a disk.
A step writes at most one sector, and the machine may stop between any two writes
and start again from the disk. Any `malloc()` on the way may fail: an allocation is
then taken back, an entry not written or not erased, a write cut short, the release of
sectors not written to the map on the disk. Positions and lengths count sectors, and a
directory is read to its end. `FileStore` is
what it promises: a directory of names, contents, and handles that keep a removed
file alive. Creating and removing happen at the one write that makes them visible.

`Intq` - the input buffer and the transmit queue of `intq.c` with their users: the
serial port's interrupt handler and its `POLL` and `QUEUE` modes, the keyboard's
handler, readers, and writers that print lines under the console lock. `Ide` - one
channel: its lock, completion semaphore and interrupt handler, and a disk (external,
as the driver expects it) that takes any time and may also interrupt of its own
accord. Each wait of the driver may therefore run out: `wait_while_busy()` then
panics, `wait_until_idle()` goes on (`gaveup`). A caller's buffer may fault, which
ends the caller inside the driver.

### Algorithms and layout

`Klib`, `Kstring`, `Screen`, `Loader`, `Storage` - sequential code as operators, one
per C function, each beside an independent definition of what it must compute: a
sorted permutation, a quotient, the words of a command line, the text on the screen,
the bytes an address space should hold. Words, pages, sectors and buffers are small constants;
arithmetic wraps at their width. `HashTable` is a state machine of table operations
with a `malloc()` that may fail; it implements `KeyedSet`, a set of elements.

## Runs

Deadlock is checked in every run but `devices`: elsewhere a machine on which nothing
is left to do idles, and a stopped kernel is a state that repeats. In `devices` the
machine may rest when its threads have finished, the kernel has stopped, or a process
has died with the disk; `Progress` says when a thread may not.

| Run | Instance | Shows |
|---|---|---|
| `synch_prio` | PRIO; threads of priority 2 (main), 1 and 3, locks A before B, a semaphore of value at most 1; threads may set their own priority to 2, `high` may exit | `MutualExclusion`; `LockPriBound`: no held lock has a priority above its holder's; `ElemOnOneList`, `QueuesSorted`: every thread is on the one list it should be on, in order; `NoLostWakeup`: a semaphore with waiters has no more units than threads on their way to it |
| `synch_live` | FIFO; the same threads, one lock, fair | `ReadyRuns`, `FreeLockTaken` |
| `synch_donee` | PRIO; as `synch_prio` without exits | refutes `DoneeExists`, the assertion at `synch.c:452` |
| `rwlock` | four clients of two priorities, fair | `WaitersListed`: whoever blocks is on the list of its condition, once; `WriterFirst`; `RWSpec`: implements `ReadersWriters`; `Handover`: a free rw_lock with blocked clients is held again |
| `timer_sleep` | three threads, naps of -1, 0, 2 ticks, 5 and 25 ms, four ticks; donations of any priority to one sleeper, or none | `NotEarly`: whoever sleeps sleeps at least the ticks asked for; `OnTime`: until a donation moves a sleeper nobody is on the list past its tick |
| `pthread` | programs of three threads | `StackExclusive` for every program; `OneExiter` unless the main thread has called `pthread_exit()`; `TailAlone` where all threads end before `exit()`; there also `NoPanic`, with two joiners of one thread only where nobody is preempted inside these functions; `JoinReturns`, `MainLeaves` where moreover nobody is preempted in them at all |
| `child_process` | two parent threads, two children, codes -1 and 7 | `WaitCode` always; where memory suffices, `WaitReturns`: a wait for a child that has ended returns, `ParentLeaves`: so does `exit()`, and `ExecReturns`: so does `exec()`, unless another thread of the parent waits for ever for a child that runs on; `NoFreedUse` for a parent that waits for its children and is not preempted in these functions |
| `memory` | two threads, three kernel pages and a user page of 12 units, sizes 2 and 9 | `Disjoint`: no byte has two owners; `NoLeak`; `Returns` |
| `syscalls` | three threads, two processes, three descriptors, faults at every place | `OwnFile`: a number reaches the file it was opened for, unless two opens, or a close and another use of the same descriptor, have overlapped; `Reclaimed`; `RegisteredOnce`; `FileSystemFree`: whoever waits for the file system gets in, unless a process has died inside the disk driver |
| `filesys` | two names and one bad name, two handles, nine sectors, two directory entries, five operations, one power failure, memory missing at any step | `DiskSafe`: the disk can be started from at any moment; `NoLostSectors`; `StoreSpec`: implements `FileStore` |
| `devices` | two readers, two writers, a buffer of two bytes; two users of a disk with two sectors, three requests and one stray interrupt | `BytesInOrder`; `DiskData`: `wait_until_idle()` runs out only after a stray interrupt, until then reads return what was written last, and without stray interrupts a write returns when it is on the disk; `Progress` |
| `kernlib` | every call over small inputs, one per initial state; every sequence of hash table operations on four keys | `Computes`, `Placed`, `TableFaithful` |

A property with a premise (`setup.orderly`, `~moved`, `~gaveup`, ...) is checked in
instances where the premise holds and in instances where it does not; the latter are
there because the code does not keep the property in them, and the section "Where the
code departs from its documents" says how. `Computes` and `Placed` ask nothing where
the code departs from its comments: the pointer that `memmove()` returns after an
upward copy, `strrchr()` of the null byte, the policy without `-sched`, the pages of a
failed `load()`, partitions found through an extended entry.

### Why these bounds

- `Synch`: three threads of three priorities are what a donation chain of two links,
  an inversion and a barging thread need; two locks make nested holding and chains
  possible. The proofs cover all other sizes.
- `RWLock`: two readers and two writers can be active, waiting and woken at once, and
  two priorities order each condition's list. `TimerSleep`: three sleepers make a
  first, a last and a middle of the list; a nap of two ticks outlives one of zero.
- `Pthread`, `ChildProcess`: scripts name each pair of calls that can meet: two
  joins, join and exit, two exits, exit and fault, create and exit; two waits, wait
  and exec, orphans, a child that never ends. `max_stacks` below the number of threads
  makes a create fail.
- `Syscalls`: two processes, each faulting at each place where it can or nowhere; two
  threads on descriptors of their own, on the same one, and on the same lock. Three
  descriptors are as many as any of them opens.
- `Memory`: three small blocks fill a page, a size above half of it takes two pages,
  and three pages run out.
- `FileSys`: two entries fill the directory, four free sectors the disk; five
  operations create, remove, reuse a name and close an old handle.
- `Intq`: a buffer of two bytes wraps, fills and empties within three bytes. `Ide`:
  two users contend for the channel, and of three requests one can leave a sector
  behind, one be ended early and one find the disk busy; the proof covers any number.
- `Klib` and its kin: inputs contain every boundary (empty, one, full word, partial
  last word, wrap, digits that fill the field).

### Fairness

`Synch`: strong fairness of each thread's kernel steps and of the end of a time
slice, weak fairness of the idle thread. A thread's steps are enabled only while it
is running, and it runs again and again or not at all, hence strong fairness; it says
that a processor that keeps running a thread executes its code. The timer interrupt
arrives every tick and is taken wherever interrupts are on. Clients need not make any
call, so nothing is assumed of `Call`. Under PRIO a thread of low priority may starve
by design, which is why `ReadyRuns` is a property of FIFO, the default policy.

`RWLock`, `Pthread`, `ChildProcess` assume what `ReadyRuns` shows: a thread whose next
step stays possible takes it. In `ChildProcess` nothing is assumed of a child's own
code, which may never call `exit()`. `Memory` assumes strong fairness of its threads, and
`Syscalls` of `sema_down(filesys_sema)`: a lock or semaphore that becomes free again
and again comes to each waiter, since `sema_up()` takes the first waiter of a list
that, at equal priorities, is in order of arrival. `Intq` and `Ide` assume that
threads run, that the port sends, that the disk finishes a command, and that an
interrupt that stays pending and enabled is taken. Keys, received bytes and stray
interrupts come as they like, and nothing is assumed of the driver's waits running
out.

## Proofs

The theorems hold for all values of the constants that satisfy the assumptions the
modules name: `SynchAssumption`, `RWAssumption`, `TimerAssumption`, `IdeAssumption`,
`IntqAssumption`, `FileSysAssumption`. They say that names are distinct and parameters
have their types; that the clients of a rw_lock, and the handles of the file system,
are finitely many; and that the buffer of a queue has two places at least.
`WakeupsReach` also needs a finite set of threads.

`KListTheorems` states what the others use of lists: which elements `list_remove()`,
`list_insert_ordered()`, `list_push_back()` and `list_pop_front()` leave, that they
keep a list free of duplicates, and that an ordered insertion keeps it ordered.

### Locks and donation (`SynchProofs`)

`TypeCorrect`, `MutualExclusionHolds` and `DonationBookkeeping` follow from
`Invariance`, `Spec => []IInv`. `IInv` joins `TypeOK`, `MutualExclusion`,
`HolderHasLock`, `LockQueueSorted`, `LockPriBound` and `LockProtocol`; none of them is
inductive alone. Mutual exclusion is about the token of a lock: it is in the
semaphore, with the thread that has the lock in its `lock_queue`, or with the thread
between the halves of `lock_release()`; the last needs what `LockProtocol` says of
`rel_up`. Donation moves a lock inside the `lock_queue` of its holder; that this
neither loses nor duplicates one needs `HolderHasLock` and that `don` still describes
the lock (`LockProtocol`: nobody else runs during donation). That `lock_release()`
restores a priority not below those of the remaining locks needs `LockQueueSorted`,
and `TypeOK` needs `LockProtocol` for the priority of a held lock to be a priority and
not the 0 of a free one.

### Lists and wake-ups (`SynchListProofs`, `SynchWakeProofs`)

`OneListEach`, `ListsInOrder` and `WakeupsReach` prove the remaining properties of
`synch_prio`. `LInv` adds to `IInv`:

- `Filed`, `Sorted`: each list holds exactly the threads whose `status` and `queue`
  say so, once each; the waiters are in order of priority under either policy and the
  ready list under PRIO;
- `Running`: the thread whose status says so is `cur`;
- `Chain`: a lock's holder is ready, running or blocked; the lock a thread waits for
  ranks above those it holds; `donated_for` names a lock only inside
  `lock_acquire()`.

`Chain` is what keeps donation off the wrong list: each round re-inserts the donee
into the list its `queue` names, and the lemma needs that the donee is still on that
list, which follows from its being a lock holder that is not `cur`; the ascending
ranks exclude a chain that comes back to the donor. `WInv` adds that a blocked thread
is at `down`. A `sema_up()` then moves one thread from the waiters to the woken and
adds one unit, and whoever takes a unit is either a woken thread or leaves one unit
less for the same number of woken threads; this counts threads, hence the finite set.

### Reader-writer lock (`LockProofs`, first part)

`RWInvariance` proves that the guard excludes (`GuardExcludes`), the four counters
equal the numbers of clients at the corresponding places (`CountsExact`), readers
and writers exclude each other (`Exclusion`), `WaitersListed`, and `WriterAwake`: a
free rw_lock with listed writers has one that is woken or back at its `while` test.
Exclusion follows from the `while` tests only because the counters are exact, and the
counters only because changes happen under the guard. `WaitersAreListed` and
`WritersGoFirst` follow. `RWImplements` proves the refinement: `enter` and `update`
are the abstract acquire and release, all other steps stutter.

### Disk channel (`LockProofs`, second part)

`ChannelInvariance`: the lock's holder is the one thread inside a request, living or
dead; `wait_until_idle()` has run out only if a stray interrupt came; and until it runs
out the disk's command, sector and phase are those of the holder's request, or it still
stores the data of the last one. The last part is needed because a stray interrupt may
end a request early: the next one then finds the disk busy with it, and only its wait
keeps the two apart. Without stray interrupts `completion_wait` is up only when a
command is done. `DiskFaithful` follows.

### Queues and console (`DevicesProofs`, first part)

`QueueInvariance`: for each queue, what was accepted is what was taken followed by what
is held between tail and head (`QueueInv`); who has a queue's lock or is its recorded
waiter is asleep (`WaitInv`); the console's holder and depth fit the place of each
writer in its line, and the last byte printed is the holder's (`ConsoleInv`). The lines
in the output (`LinesInv`) need `ConsoleInv`, and that they arrive in order needs
`QueueInv`; `WaitInv` is what shows the assertion in `wait()` to fail only with two
readers. The held bytes are a sequence indexed from the tail, so the steps are
arithmetic of positions in the ring. `QueuesInOrder` follows.

### Sleepers (`DevicesProofs`, second part)

`SleepInvariance`: exactly the sleepers are on the list; until a donation moves one of
them it is in order of wake-up time, and none is overdue. `WokenOnTime` needs the order,
as the handler stops at the first thread that is not due; `WokenNotEarly` holds with
donations too.

### File system (`FileSysStepProofs`, `FileSysProofs`)

`FileSysInvariant`, `Spec => []IInv`, with `IInv` in `FileSysInv`:

- `MapInv`: the map in memory is contained in the map on the disk, so that what a power
  failure brings back is never free by mistake;
- `SpaceInv`: every file that has a name or is open has its sectors to itself, and so
  has the operation in progress (`Claimed`): without the latter an allocation could give
  a half-made file's sectors away;
- `DirInv`: each name and each inode is in the directory once, which is what lets
  `dir_remove()` free an inode when its one entry is erased;
- `OpenInv`: `open_cnt` and `deny_write_cnt` are the numbers of handles, and an inode is
  `removed` from the time it has no name: needed for `inode_close()` to release at the
  last close and only then;
- `OpInv`: what an operation has done so far, as that the sectors zeroed are zero;
- `LeakInv`: every sector in use is a file's or the operation's, unless one is known to
  have been lost (`leaky`).

`DiskAlwaysSafe`, `SectorsComeBack` follow; `ImplementsStore` proves the refinement, one
lemma per action: the write of an entry is the abstract create or remove, the write of a
sector the abstract write, a restart the abstract power failure, the other steps
stutter. `FileSysStepProofs` has one lemma per action under the hypothesis `Counting`,
facts on cardinalities and on removal from a sequence, which `FileSysProofs` discharges
from the library's theorems.

### Only model-checked

Liveness under fairness is beyond the prover (`ReadyRuns`, `FreeLockTaken`, `Handover`,
`JoinReturns`, `MainLeaves`, the `...Returns` properties, `ParentLeaves`,
`FileSystemFree`, `Progress`). The algorithms of `Klib`, `Kstring`, `Screen`, `Loader`,
`Storage` and the hash table are recursive, and induction over data is beyond it too.
The invariants of `Pthread`, `ChildProcess`, `Memory` and `Syscalls` are checked on the
instances above: their setups are programs, which the instances list.

## Where the code departs from its documents

One of these is a run, `synch_donee`: a chain of donations follows `donated_for` of a
thread that `sema_up()` has woken and that has not run since. Its lock has no holder,
and `ASSERT(donee != NULL)` fails (`synch.c:486`, `452`).

The others were met while modelling, some as counterexamples to stronger forms of
the properties, the rest in reading. Where the code in question is modelled, it is
modelled as it is, and the properties are stated around it: their premises exclude the
case, or they ask nothing of that result. The remaining entries concern code, or
comments, that no property is about.

Scheduling and locks:

- A woken waiter that finds its lock taken again blocks without donating to the new
  holder (`synch.c:195`). The next holder need not be the waiter of highest priority:
  a running thread may take the lock before the woken one runs (`synch.c:261`).
- `sema_up()` compares with the thread it woke only (`synch.c:112`): a thread that
  has given a donated priority back may go on running below other ready threads.
- Between the halves of `lock_release()` (`synch.c:258`) the releaser has lost its
  donated priority, and a waiter cannot donate since the lock has no holder.
- `cond_wait()` (`synch.c:372`) links `elem` into the condition with interrupts on; a
  thread preempted before it blocks is on two lists.
- `state` of a lock is an `int8_t` that counts waiters down (`synch.h:26`) and wraps
  at 129 of them.
- Donation re-inserts a sleeping holder into the sleep list by priority
  (`timer.c:114`, `synch.c:475`), and a thread behind it may oversleep. `OnTime` asks
  nothing after that until the list has been empty.
- `thread.h:151` makes FIFO the default policy; the comment at `init.c:274` says "the
  default value, SCHED_PRIO".

User threads:

- `pthread_join()` decides to block before it turns interrupts off
  (`userthread_join.c:73`): the target's wake-up may come in between and is lost, and
  of two joiners that pass the test one waits for ever, or finds the thread freed that
  the other has reaped (`OneJoinerEach`).
- Threads that leave together each see `active_threads` above 2 before either lowers
  it, and the main thread is not woken (`process_exit.c:86`, `147`).
- The thread in `process_exit_normal()` may be unblocked before it has blocked
  (`process_exit.c:83`), which `thread_unblock()` asserts against.
- `process_exit_normal()` marks the threads that are in user mode as zombies
  (`process_exit.c:295`); one of them may have been switched out by the timer and be
  met by the scheduler afterwards.
- A thread that is joined and ends the process wakes its joiner, who asserts that the
  target is a zombie (`process_exit.c:250`, `userthread_join.c:86`).
- Where the main thread has exited, another thread's `exit()` leaves `exiting` at
  `EXITING_MAIN` (`process_exit.c:259`), so the remaining threads go on in user mode,
  and a second `exit()` takes the same branch: two threads end the process, though
  `process_exit.c:221` promises a thread that is alone.
- A fault after an `exit()` with another code does not change the code
  (`process_exit.c:547`).
- A `thread_create()` that fails leaves `pthread_execute()` waiting for a thread that
  does not exist (`userthread_create.c:90`).

Parent and child:

- `sema_up(editing)` comes after the call that may have freed the semaphore, in the
  child (`process_exit.c:440`) and in the parent (`process_exit.c:491`).
- If the child's PCB cannot be allocated (`process_create.c:208`), its element is not
  marked: `exec` reports success and a `wait` for it does not return. If `editing` or
  `init_pcb` cannot be allocated (`process_create.c:143`, `153`), the element is freed
  while it is on the children list. If `thread_create()` fails, `editing` stays 0.
- `process_wait()` waits with `children_lock` held (`process_create.c:445`), so an
  `exec()` or `wait()` of another thread stands behind a child that need not end.
- A failed `load()` frees the PCB but not the page directory
  (`process_create.c:228`). The words of a long command line may not fit the stack
  page, and nothing tests for it.

System calls and files:

- Two `open()` calls at once return the same number (`syscall.c:350`). The memory of
  the descriptor is not tested (`syscall.c:346`): without it the kernel faults, the
  process ends, and the file stays open.
- `handler_read()` uses a descriptor after `files_lock` is released
  (`syscall.c:487`), `handler_write()` without its rw_lock; a `close()` in between
  frees it. Read, write and close do not take `filesys_sema`, so operations of the
  file system can overlap.
- The threads of a process share `pcb->filesys_sema` (`syscall.c:313`): one that
  leaves the file system clears it for another that is inside, and a fault there is
  then not followed by the `sema_up()`.
- A whole sector is moved between the disk and the caller's buffer inside the driver
  (`inode.c:187`, `240`, `ide.c:309`): a process that faults there ends with the
  channel's lock taken, and the next use of the disk waits for ever.
- `dir_add()` takes a short read for the end of the directory (`directory.c:132`, "will
  only return a short read at end of file"), but `inode_read_at()` also stops when
  memory is short. The model reads directories to their end.
- `free_map_release()` does not look at the result of `bitmap_write()`
  (`free-map.c:40`): sectors whose release was not written stay taken after a restart.
- `filesys_create()` gives the inode's sector back but not the data's when `dir_add()`
  fails (`filesys.c:110`).

Devices and library:

- With two readers `ASSERT` at `intq.c:73` can fail: the second to run may find a
  waiter recorded and a byte in the queue.
- `expecting_interrupt` is never reset (`ide.c:452`), so a stray interrupt leaves a
  unit that ends a later wait early; a write may return before the disk has it.
- `wait_until_idle()` gives up after 1000 rounds of 10 microseconds, where its comment
  says "up to 10 seconds" (`ide.c:386`), and its callers go on with a busy disk.
- `partition.c:78` reads sector 0 whatever sector it was asked for; the comment says
  "Reads the partition table in the given SECTOR".
- `init.c:304` seeds the generator again although its comment says "This has no
  effect if an "-rs" option was specified".
- `memmove()` returns a moved pointer when it copies upwards (`string.c:42`); its
  comment says "Returns DST". `strrchr()` does not find the null byte. Remainders of
  64-bit division are cut to 32 bits (`arithmetic.c:115`, `128`).
- `%0*d` with a negative width pads on both sides (`stdio.c:387`); `%.0f` prints a
  fraction, and a width pads both parts of `%f`. Formatting is not modelled; these come
  from reading.

## Not modelled

- `pit.c`, `rtc.c`, `speaker.c`, `shutdown.c`: fixed sequences of port writes, no
  state the kernel reads back.
- `gdt.c`, `tss.c`, the interrupt descriptor table, the interrupt controller,
  `loader.S`, `start.S`, `switch.S`: data laid out for the processor, and assembly.
- Resetting and identifying IDE disks, and the order of initialisation in `main()`:
  they run once, before there is a second thread.
- Formatted output (`stdio.c`: `__vprintf()`, `hex_dump()`,
  `print_human_readable_size()`): text for people, on which no other part depends.
- The FAIR and MLFQS policies are stubs that panic. `fixed-point.h` is used by
  nothing. `process_exit_exception()` has no caller.
- The user library (each call one assembly statement) and the programs under `tests/`
  and `examples/`, which are inputs of the kernel.
- Running out of pages in `thread_create()` within `Synch`; the contents of memory
  blocks; the checks of single fields of an ELF header, which are one condition in
  `Loader`.
- Overlapping operations of the file system: its own code has no locking, and what
  overlapping reads, writes and closes do is outside `FileSys`.
- What happens after an element is on two lists, after a failed assertion, or after
  the use of freed memory: the models stop there.
