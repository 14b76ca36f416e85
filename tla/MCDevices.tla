----------------------------- MODULE MCDevices ------------------------------
(* The serial port and the disk of one machine.  They share nothing, so a   *)
(* behaviour moves one of them: device says which.                          *)
EXTENDS Intq, Ide

VARIABLE device
vars == <<ivars, dvars, device>>

\* two threads that print, one that reads while another prints, or two that read
Threads == {Writers, {CHOOSE r \in Readers : TRUE, CHOOSE w \in Writers : TRUE}, Readers}
Init == /\ \/ device = "serial" /\ on \in Threads
           \/ device = "disk" /\ on = {}
        /\ IntqInit /\ IdeInit
        /\ hw.sector = CHOOSE s \in Sectors : TRUE    \* the sectors are alike at first
\* The machine may rest: the threads have finished, the kernel has stopped, or a
\* process has died with the disk.  Progress says when a thread may not.
Next == \/ device = "serial" /\ IntqNext /\ UNCHANGED <<dvars, device>>
        \/ device = "disk" /\ IdeNext /\ UNCHANGED <<ivars, device>>
Spec == Init /\ [][Next]_vars /\ (device = "serial" => IntqFairness) /\ (device = "disk" => IdeFairness)

\* Whoever prints, reads or uses the disk gets on: nobody sleeps on a queue that
\* has changed, intq_putc() and intq_getc() wake the waiter, write_ier() lets in
\* what there is room for, and the handler's sema_up() reaches the driver.
Progress == AllMoves /\ Served
=============================================================================
