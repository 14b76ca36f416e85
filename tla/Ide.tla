-------------------------------- MODULE Ide ---------------------------------
(* One IDE channel (devices/ide.c): threads that read and write sectors, the *)
(* completion semaphore and the interrupt handler, and a disk as the driver  *)
(* expects it (external): busy after a command, ready for the data, an       *)
(* interrupt at the end, and now and then an interrupt of its own.  It may   *)
(* take any time, so each of the driver's waits may run out.                 *)
EXTENDS Integers, FiniteSets

CONSTANTS Users,       \* threads that use the disk
          Nil,
          Sectors, Data,
          MaxRequests, \* bound on the requests
          MaxStray     \* bound on interrupts nobody asked for

ASSUME IdeAssumption == Nil \notin Users

VARIABLES lock,         \* the holder of the channel's lock, or Nil
          expecting_interrupt,
          completion_wait,
          hw,           \* the disk's status, command, sector and interrupt line
          platter,      \* what is on the disk
          store,        \* what has been written, in the order of the requests
          user,         \* of each thread: where it is and its request
          halted,       \* the driver has PANICked
          gaveup,       \* history: wait_until_idle() has run out
          done, stray   \* counters
chan == <<lock, expecting_interrupt, completion_wait>>
ends == <<halted, gaveup, done, stray>>
dvars == <<chan, hw, platter, store, user, ends>>

NoRequest == [pc |-> "idle", cmd |-> Nil, sector |-> Nil, data |-> Nil]
IdeInit == /\ lock = Nil /\ expecting_interrupt = FALSE /\ completion_wait = 0
           /\ \E s \in Sectors : hw = [status |-> "idle", cmd |-> Nil, sector |-> s, data |-> Nil, irq |-> FALSE]
           /\ platter \in [Sectors -> {Nil}] /\ store = platter
           /\ user = [t \in Users |-> NoRequest]
           /\ halted = FALSE /\ gaveup = FALSE
           /\ done = 0 /\ stray = 0

Go(t, l) == user' = [user EXCEPT ![t].pc = l]

\* block_read() or block_write()
block_request(t) ==
    /\ user[t].pc = "idle" /\ done < MaxRequests
    /\ done' = done + 1
    /\ \E s \in Sectors, d \in Data :
         \/ user' = [user EXCEPT ![t] = [pc |-> "lock", cmd |-> "read", sector |-> s, data |-> Nil]]
         \/ user' = [user EXCEPT ![t] = [pc |-> "lock", cmd |-> "write", sector |-> s, data |-> d]]
    /\ UNCHANGED <<chan, hw, platter, store, halted, gaveup, stray>>
\* MUTANT: the channel is not locked
ide_lock_none(t) ==
    /\ user[t].pc = "lock"
    /\ Go(t, "select")
    /\ UNCHANGED <<chan, hw, platter, store, ends>>
ide_lock(t) ==
    /\ user[t].pc = "lock" /\ lock = Nil
    /\ lock' = t
    /\ Go(t, "select")
    /\ UNCHANGED <<expecting_interrupt, completion_wait, hw, platter, store, ends>>
\* select_device_wait(), where the disk becomes idle in time: reading the status
\* takes a pending interrupt back
select_sector(t) ==
    /\ user[t].pc = "select" /\ hw.status = "idle"
    /\ hw' = [hw EXCEPT !.sector = user[t].sector, !.irq = FALSE]
    /\ Go(t, "issue")
    /\ UNCHANGED <<chan, platter, store, ends>>
\* "idle timeout": the driver goes on with a disk that works on something else,
\* which may take the sector number or not
wait_until_idle(t) ==
    /\ user[t].pc = "select" /\ hw.status # "idle"
    /\ gaveup' = TRUE
    /\ \E s \in {hw.sector, user[t].sector} : hw' = [hw EXCEPT !.sector = s, !.irq = FALSE]
    /\ Go(t, "issue")
    /\ UNCHANGED <<chan, platter, store, halted, done, stray>>
\* MUTANT: nobody is told of the interrupt
issue_pio_command_deaf(t) ==
    /\ user[t].pc = "issue"
    /\ hw' = [hw EXCEPT !.status = "busy", !.cmd = user[t].cmd]
    /\ Go(t, IF user[t].cmd = "read" THEN "read_down" ELSE "output")
    /\ UNCHANGED <<chan, platter, store, ends>>
\* a disk that is not idle may drop its work for the command or not hear it
issue_pio_command(t) ==
    /\ user[t].pc = "issue"
    /\ expecting_interrupt' = TRUE
    /\ \/ hw' = [hw EXCEPT !.status = "busy", !.cmd = user[t].cmd]
       \/ hw.status # "idle" /\ UNCHANGED hw
    /\ Go(t, IF user[t].cmd = "read" THEN "read_down" ELSE "output")
    /\ UNCHANGED <<lock, completion_wait, platter, store, ends>>
completion_down(t) ==
    /\ user[t].pc \in {"read_down", "write_down"} /\ completion_wait > 0
    /\ completion_wait' = completion_wait - 1
    /\ Go(t, IF user[t].pc = "read_down" THEN "input" ELSE "unlock")
    /\ UNCHANGED <<lock, expecting_interrupt, hw, platter, store, ends>>
\* MUTANT: the disk may still be busy
input_sector_early(t) ==
    /\ user[t].pc = "input"
    /\ user' = [user EXCEPT ![t].pc = "unlock", ![t].data = hw.data]
    /\ hw' = [hw EXCEPT !.status = "idle"]
    /\ UNCHANGED <<chan, platter, store, ends>>
\* wait_while_busy() returned true
input_sector(t) ==
    /\ user[t].pc = "input" /\ hw.status = "drq"
    /\ user' = [user EXCEPT ![t].pc = "unlock", ![t].data = hw.data]
    /\ hw' = [hw EXCEPT !.status = "idle"]
    /\ UNCHANGED <<chan, platter, store, ends>>
output_sector(t) ==
    /\ user[t].pc = "output" /\ hw.status = "drq"
    /\ hw' = [hw EXCEPT !.status = "busy", !.cmd = "store", !.data = user[t].data]
    /\ store' = [store EXCEPT ![user[t].sector] = user[t].data]
    /\ Go(t, "write_down")
    /\ UNCHANGED <<chan, platter, ends>>
\* or insw or outsw faults, on a user buffer that is not mapped: the process dies
\* with the channel's lock held and the disk in the middle of the transfer
transfer_fault(t) ==
    /\ user[t].pc \in {"input", "output"} /\ hw.status = "drq"
    /\ Go(t, "dead")
    /\ UNCHANGED <<chan, hw, platter, store, ends>>
\* wait_while_busy() ran out, or found no data requested: PANIC
wait_while_busy(t) ==
    /\ user[t].pc \in {"input", "output"} /\ hw.status # "drq"
    /\ halted' = TRUE
    /\ UNCHANGED <<chan, hw, platter, store, user, gaveup, done, stray>>
ide_unlock(t) ==
    /\ user[t].pc = "unlock"
    /\ lock' = Nil
    /\ Go(t, "returns")
    /\ UNCHANGED <<expecting_interrupt, completion_wait, hw, platter, store, ends>>
block_return(t) ==
    /\ user[t].pc = "returns"
    /\ user' = [user EXCEPT ![t] = NoRequest]
    /\ UNCHANGED <<chan, hw, platter, store, ends>>

interrupt_handler ==
    /\ hw.irq
    /\ hw' = [hw EXCEPT !.irq = FALSE]
    /\ completion_wait' = IF expecting_interrupt THEN completion_wait + 1 ELSE completion_wait
    /\ UNCHANGED <<lock, expecting_interrupt, platter, store, user, ends>>

\* the disk
disk_works ==
    /\ hw.status = "busy"
    /\ \/ hw.cmd = "read" /\ hw' = [hw EXCEPT !.status = "drq", !.irq = TRUE, !.data = platter[hw.sector]] /\ UNCHANGED platter
       \/ hw.cmd = "write" /\ hw' = [hw EXCEPT !.status = "drq"] /\ UNCHANGED platter
       \/ /\ hw.cmd = "store" /\ platter' = [platter EXCEPT ![hw.sector] = hw.data]
          /\ hw' = [hw EXCEPT !.status = "idle", !.irq = TRUE]
    /\ UNCHANGED <<chan, store, user, ends>>
disk_stray ==
    /\ stray < MaxStray /\ ~hw.irq
    /\ stray' = stray + 1
    /\ hw' = [hw EXCEPT !.irq = TRUE]
    /\ UNCHANGED <<chan, platter, store, user, halted, gaveup, done>>

\* the waits that run out
Gives(t) == wait_until_idle(t) \/ wait_while_busy(t)
Using(t) == \/ ide_lock(t) \/ select_sector(t) \/ issue_pio_command(t) \/ completion_down(t)
            \/ input_sector(t) \/ output_sector(t) \/ transfer_fault(t) \/ ide_unlock(t) \/ block_return(t)
IdeNext == /\ ~halted
           /\ (\E t \in Users : block_request(t) \/ Using(t) \/ Gives(t)) \/ interrupt_handler \/ disk_works \/ disk_stray
\* Nothing is owed to a wait that may run out: the disk may always be in time.
IdeFairness == /\ \A t \in Users : WF_dvars(~halted /\ Using(t))
               /\ WF_dvars(~halted /\ interrupt_handler) /\ WF_dvars(~halted /\ disk_works)
-----------------------------------------------------------------------------
(* Properties *)

\* wait_until_idle() never runs out, however slow the disk, unless a stray
\* interrupt has ended a write early.  Until it does, a read returns what the
\* requests before it left in the sector, whoever made them and whatever
\* interrupts come.  And without stray interrupts ide_write() "returns after the
\* disk has acknowledged receiving the data".
DiskData ==
    /\ gaveup => stray > 0
    /\ \A t \in Users :
        /\ user[t].pc = "unlock" /\ user[t].cmd = "read" /\ ~gaveup => user[t].data = store[user[t].sector]
        /\ user[t].pc = "unlock" /\ user[t].cmd = "write" /\ stray = 0 => platter[user[t].sector] = user[t].data
\* Every request is served, unless the driver has PANICked, has gone on with a
\* busy disk, or a process has died inside it with the channel's lock.
Served == \A t \in Users :
    user[t].pc # "idle" ~> (user[t].pc = "idle" \/ halted \/ gaveup \/ \E u \in Users : user[u].pc = "dead")
=============================================================================
