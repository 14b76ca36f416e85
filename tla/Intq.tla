-------------------------------- MODULE Intq --------------------------------
(* Interrupt queues (devices/intq.c) as the kernel uses them: the input     *)
(* buffer that the serial port and the keyboard fill and input_getc() reads, *)
(* and the transmit queue that the console fills and the serial interrupt    *)
(* empties.                                                                  *)
(*                                                                           *)
(* A step is what runs with interrupts off, up to where the thread blocks.   *)
EXTENDS Integers, Sequences

CONSTANTS Readers,       \* threads that call input_getc()
          Writers,       \* threads that print a line of two bytes
          NULL,
          INTQ_BUFSIZE,
          MaxIn,         \* bound on the bytes that arrive
          MaxGet         \* bound on the calls of a reader

\* NULL is no thread and no byte
ASSUME IntqAssumption ==
    /\ INTQ_BUFSIZE \in Nat \ {0, 1}
    /\ Readers \cap Writers = {}
    /\ NULL \notin Readers \union Writers \union Nat \union (Writers \X Nat)

VARIABLES on,            \* the threads that run
          q,             \* the queues "in" and "tx"
          mode,          \* of the serial port: "POLL" or "QUEUE"
          ier,           \* the interrupt enable register
          rbr, thr,      \* the port's receive and transmit registers, NULL when empty
          console,       \* console_lock and console_lock_depth
          pc,            \* where each thread is
          at,            \* bytes of its line a writer has sent
          gets,          \* calls a reader has made
          arrived, accepted, taken,   \* bytes that arrived, were queued, were read
          put, sent,     \* bytes given to serial_putc(), and out of the port
          panic
ivars == <<on, q, mode, ier, rbr, thr, console, pc, at, gets, arrived, accepted, taken, put, sent, panic>>

Empty(u) == [buf |-> [i \in 0 .. (INTQ_BUFSIZE - 1) |-> NULL], head |-> 0, tail |-> 0,
             lock |-> NULL, not_empty |-> NULL, not_full |-> NULL]
IntqInit == /\ q = [u \in {"in", "tx"} |-> Empty(u)]
            /\ mode = "POLL"
            /\ ier = [xmit |-> FALSE, recv |-> FALSE]
            /\ rbr = NULL /\ thr = NULL
            /\ console = [holder |-> NULL, depth |-> 0]
            /\ pc = [t \in Readers \union Writers |-> IF t \notin on THEN "done" ELSE IF t \in Readers THEN "getc" ELSE "line"]
            /\ at = [t \in Writers |-> IF t \in on THEN 0 ELSE 2]
            /\ gets = [t \in Readers |-> IF t \in on THEN 0 ELSE MaxGet]
            /\ arrived = 0 /\ accepted = <<>> /\ taken = <<>> /\ put = <<>> /\ sent = <<>>
            /\ panic = FALSE

next(pos) == (pos + 1) % INTQ_BUFSIZE
intq_empty(r) == r.head = r.tail
\* MUTANT: every place of the buffer is used
intq_full_late(r) == r.head = r.tail /\ r.buf[r.tail] # NULL
intq_full(r) == next(r.head) = r.tail
\* the queue after intq_putc() and intq_getc(), signal() included
Put(r, byte) == [r EXCEPT !.buf[r.head] = byte, !.head = next(r.head), !.not_empty = NULL]
Get(r) == [r EXCEPT !.tail = next(r.tail), !.not_full = NULL]
\* thread_unblock() of the waiter
Woken(p, t) == IF t = NULL THEN p ELSE [p EXCEPT ![t] = "woken"]
\* MUTANT: the register is not updated when the buffer has room again
write_ier_xmit(queues) == [xmit |-> ~intq_empty(queues["tx"]), recv |-> ier.recv /\ ~intq_full(queues["in"])]
write_ier(queues) == [xmit |-> ~intq_empty(queues["tx"]), recv |-> ~intq_full(queues["in"])]
serial_notify(queues) == IF mode = "QUEUE" THEN write_ier(queues) ELSE ier
-----------------------------------------------------------------------------
(* Waiting on a queue, in intq_getc() for "in" and in intq_putc() for "tx" *)

QueueOf(t) == IF t \in Readers THEN "in" ELSE "tx"
Stuck(t) == IF t \in Readers THEN intq_empty(q["in"]) ELSE intq_full(q["tx"])
\* wait(): the ASSERT of its condition, then thread_block()
Wait(t, r) ==
    IF Stuck(t)
    THEN /\ q' = [q EXCEPT ![QueueOf(t)] = IF t \in Readers THEN [r EXCEPT !.not_empty = t] ELSE [r EXCEPT !.not_full = t]]
         /\ pc' = [pc EXCEPT ![t] = "waiting"] /\ UNCHANGED panic
    ELSE panic' = TRUE /\ UNCHANGED <<q, pc>>
\* lock_acquire(), which blocks if another thread is waiting already
intq_block(t) ==
    /\ ~panic /\ pc[t] = (IF t \in Readers THEN "getc" ELSE "putc") /\ Stuck(t)
    /\ t \in Readers \/ mode = "QUEUE"
    /\ IF q[QueueOf(t)].lock = NULL
       THEN Wait(t, [q[QueueOf(t)] EXCEPT !.lock = t])
       ELSE pc' = [pc EXCEPT ![t] = "wants"] /\ UNCHANGED <<q, panic>>
    /\ UNCHANGED <<mode, ier, rbr, thr, console, at, gets, arrived, accepted, taken, put, sent>>
intq_locked(t) ==
    /\ ~panic /\ pc[t] = "wants" /\ q[QueueOf(t)].lock = NULL
    /\ Wait(t, [q[QueueOf(t)] EXCEPT !.lock = t])
    /\ UNCHANGED <<mode, ier, rbr, thr, console, at, gets, arrived, accepted, taken, put, sent>>
\* lock_release() may run a waiter of higher priority before the next test
intq_woken(t) ==
    /\ ~panic /\ pc[t] = "woken"
    /\ q' = [q EXCEPT ![QueueOf(t)].lock = NULL]
    /\ pc' = [pc EXCEPT ![t] = IF t \in Readers THEN "getc" ELSE "putc"]
    /\ UNCHANGED <<mode, ier, rbr, thr, console, at, gets, arrived, accepted, taken, put, sent, panic>>

input_getc(t) ==
    /\ ~panic /\ pc[t] = "getc" /\ gets[t] < MaxGet /\ ~intq_empty(q["in"])
    /\ taken' = Append(taken, q["in"].buf[q["in"].tail])
    /\ q' = [q EXCEPT !["in"] = Get(@)]
    /\ ier' = serial_notify(q')
    /\ gets' = [gets EXCEPT ![t] = @ + 1]
    /\ pc' = Woken([pc EXCEPT ![t] = IF gets[t] + 1 = MaxGet THEN "done" ELSE "getc"], q["in"].not_full)
    /\ UNCHANGED <<mode, rbr, thr, console, at, arrived, accepted, put, sent, panic>>
-----------------------------------------------------------------------------
(* The console.  A line is two bytes under console_lock; between them the   *)
(* thread may come to print a byte more, in a call inside the first one, for *)
(* which console_lock_depth is there.                                        *)

acquire_console(t) ==
    /\ ~panic /\ pc[t] \in {"line", "inner"}
    /\ \/ console.holder = t /\ console' = [console EXCEPT !.depth = @ + 1]
       \/ console.holder = NULL /\ console' = [console EXCEPT !.holder = t]
    /\ pc' = [pc EXCEPT ![t] = "putc"]
    /\ UNCHANGED <<q, mode, ier, rbr, thr, at, gets, arrived, accepted, taken, put, sent, panic>>
\* MUTANT: the depth is not looked at
release_console_flat(t) ==
    /\ ~panic /\ pc[t] = "release"
    /\ console' = [holder |-> NULL, depth |-> 0]
    /\ pc' = [pc EXCEPT ![t] = IF at[t] < 2 THEN "putc" ELSE "done"]
    /\ UNCHANGED <<q, mode, ier, rbr, thr, at, gets, arrived, accepted, taken, put, sent, panic>>
release_console(t) ==
    /\ ~panic /\ pc[t] = "release"
    /\ console' = IF console.depth > 0 THEN [console EXCEPT !.depth = @ - 1] ELSE [console EXCEPT !.holder = NULL]
    /\ pc' = [pc EXCEPT ![t] = IF at[t] < 2 THEN "putc" ELSE "done"]
    /\ UNCHANGED <<q, mode, ier, rbr, thr, at, gets, arrived, accepted, taken, put, sent, panic>>

\* the byte a thread prints, 0 for the one of the inner call
Inner == console.depth > 0
Byte(t) == <<t, IF Inner THEN 0 ELSE at[t] + 1>>
\* putbuf() after a byte
Printed(t) == /\ put' = Append(put, Byte(t))
              /\ at' = [at EXCEPT ![t] = IF Inner THEN @ ELSE @ + 1]
              /\ \E l \in IF Inner \/ at[t] = 1 THEN {"release"} ELSE {"putc", "inner"} : pc' = [pc EXCEPT ![t] = l]
\* serial_putc(): polls until serial_init_queue(), then queues.  With interrupts
\* off and the queue full it sends the oldest byte itself.
serial_putc(t) ==
    /\ ~panic /\ pc[t] = "putc" /\ mode = "QUEUE" /\ ~intq_full(q["tx"])
    /\ q' = [q EXCEPT !["tx"] = Put(@, Byte(t))]
    /\ ier' = write_ier(q')
    /\ Printed(t)
    /\ UNCHANGED <<mode, rbr, thr, console, gets, arrived, accepted, taken, sent, panic>>
serial_putc_poll(t) ==
    /\ ~panic /\ pc[t] = "putc" /\ mode = "POLL" /\ thr = NULL
    /\ thr' = Byte(t)
    /\ Printed(t)
    /\ UNCHANGED <<q, mode, ier, rbr, console, gets, arrived, accepted, taken, sent, panic>>
serial_putc_off(t) ==
    /\ ~panic /\ pc[t] = "putc" /\ mode = "QUEUE" /\ intq_full(q["tx"]) /\ thr = NULL
    /\ thr' = q["tx"].buf[q["tx"].tail]
    /\ q' = [q EXCEPT !["tx"] = Put(Get(@), Byte(t))]
    /\ ier' = write_ier(q')
    /\ Printed(t)
    /\ UNCHANGED <<mode, rbr, console, gets, arrived, accepted, taken, sent, panic>>
serial_init_queue ==
    /\ ~panic /\ mode = "POLL"
    /\ mode' = "QUEUE" /\ ier' = write_ier(q)
    /\ UNCHANGED <<q, rbr, thr, console, pc, at, gets, arrived, accepted, taken, put, sent, panic>>
\* one turn of serial_flush()
serial_flush ==
    /\ ~panic /\ thr = NULL /\ ~intq_empty(q["tx"]) /\ \A t \in Writers : pc[t] = "done"
    /\ thr' = q["tx"].buf[q["tx"].tail]
    /\ q' = [q EXCEPT !["tx"] = Get(@)]
    /\ UNCHANGED <<mode, ier, rbr, console, pc, at, gets, arrived, accepted, taken, put, sent, panic>>
-----------------------------------------------------------------------------
(* Interrupts and the port *)

\* what serial_interrupt() does with the received byte and with the queue
Receives == rbr # NULL /\ ~intq_full(q["in"])
Transmits == thr = NULL /\ ~intq_empty(q["tx"])
serial_interrupt ==
    /\ ~panic /\ mode = "QUEUE"
    /\ (ier.recv /\ rbr # NULL) \/ (ier.xmit /\ thr = NULL)
    /\ q' = [q EXCEPT !["in"] = IF Receives THEN Put(@, rbr) ELSE @,
                      !["tx"] = IF Transmits THEN Get(@) ELSE @]
    /\ accepted' = IF Receives THEN Append(accepted, rbr) ELSE accepted
    /\ rbr' = IF Receives THEN NULL ELSE rbr
    /\ thr' = IF Transmits THEN q["tx"].buf[q["tx"].tail] ELSE thr
    /\ pc' = LET p == IF Receives THEN Woken(pc, q["in"].not_empty) ELSE pc
             IN  IF Transmits THEN Woken(p, q["tx"].not_full) ELSE p
    /\ ier' = write_ier(q')
    /\ UNCHANGED <<mode, console, at, gets, arrived, taken, put, sent, panic>>
\* keyboard_interrupt(): a key that finds the buffer full is dropped
keyboard_interrupt ==
    /\ ~panic /\ arrived < MaxIn
    /\ arrived' = arrived + 1
    /\ IF intq_full(q["in"])
       THEN UNCHANGED <<q, ier, pc, accepted>>
       ELSE /\ q' = [q EXCEPT !["in"] = Put(@, arrived + 1)]
            /\ accepted' = Append(accepted, arrived + 1)
            /\ pc' = Woken(pc, q["in"].not_empty)
            /\ ier' = serial_notify(q')
    /\ UNCHANGED <<mode, rbr, thr, console, at, gets, taken, put, sent, panic>>
port_receives ==
    /\ rbr = NULL /\ arrived < MaxIn
    /\ arrived' = arrived + 1 /\ rbr' = arrived + 1
    /\ UNCHANGED <<q, mode, ier, thr, console, pc, at, gets, accepted, taken, put, sent, panic>>
port_sends ==
    /\ thr # NULL
    /\ sent' = Append(sent, thr) /\ thr' = NULL
    /\ UNCHANGED <<q, mode, ier, rbr, console, pc, at, gets, arrived, accepted, taken, put, panic>>

Reading(t) == input_getc(t) \/ intq_block(t) \/ intq_locked(t) \/ intq_woken(t)
Writing(t) == \/ acquire_console(t) \/ release_console(t) \/ serial_putc(t) \/ serial_putc_poll(t)
              \/ serial_putc_off(t) \/ intq_block(t) \/ intq_locked(t) \/ intq_woken(t)
IntqNext == /\ UNCHANGED on
            /\ \/ \E t \in Readers : Reading(t)
               \/ \E t \in Writers : Writing(t)
               \/ serial_init_queue \/ serial_flush
               \/ serial_interrupt \/ keyboard_interrupt \/ port_receives \/ port_sends
\* threads run and the port works; keys and bytes come as they like
IntqFairness == /\ \A t \in Readers : WF_ivars(Reading(t) /\ UNCHANGED on)
                /\ \A t \in Writers : WF_ivars(Writing(t) /\ UNCHANGED on)
                /\ WF_ivars(serial_interrupt /\ UNCHANGED on) /\ WF_ivars(port_sends /\ UNCHANGED on)
IntqSpec == IntqInit /\ [][IntqNext]_ivars
-----------------------------------------------------------------------------
(* Properties *)

\* the bytes in a queue, oldest first
Held(r) == [k \in 1 .. (r.head - r.tail) % INTQ_BUFSIZE |-> r.buf[(r.tail + k - 1) % INTQ_BUFSIZE]]
InPort == IF thr = NULL THEN <<>> ELSE <<thr>>

\* The queues lose, double and reorder nothing, full or empty, whether bytes
\* move by interrupt or by polling; the lines of two threads that print at once
\* are not mixed; and wait()'s ASSERT holds where one thread reads.
BytesInOrder ==
    /\ accepted = taken \o Held(q["in"])
    /\ put = sent \o InPort \o Held(q["tx"])
    /\ \A i \in DOMAIN put : put[i][2] # 1 => i > 1 /\ put[i - 1] \in {<<put[i][1], 1>>, <<put[i][1], 0>>}
    /\ panic => \E t, u \in on \cap Readers : t # u

\* Everything printed gets out, and a byte the port has received is taken while
\* somebody reads: nobody sleeps on a queue that has changed, and the enable
\* register never shuts out a byte there is room for.
AllMoves ==
    /\ \A t \in Writers : mode = "QUEUE" /\ pc[t] # "done" ~> pc[t] = "done"
    /\ mode = "QUEUE" /\ Len(put) > Len(sent) ~> Len(put) = Len(sent)
    /\ mode = "QUEUE" /\ rbr # NULL ~> rbr = NULL \/ panic \/ \A t \in Readers : pc[t] = "done"
=============================================================================
