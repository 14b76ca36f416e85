--------------------------- MODULE MCChildProcess ---------------------------
(* Parents of one or two threads with up to two children. *)
EXTENDS ChildProcess

CONSTANTS p1, p2, c1, c2

Ex(c) == [op |-> "exec", arg |-> c]
Wait(c) == [op |-> "wait", arg |-> c]
Exit == [op |-> "exit", arg |-> NULL]
P(a, b) == [t \in Threads |-> IF t = p1 THEN a ELSE b]

\* every child is waited for, one of them twice
Waits == {P(<<Ex(c1), Ex(c2), Wait(c2), Wait(c1), Exit>>, <<>>),
          P(<<Ex(c1), Wait(c1), Wait(c1), Exit>>, <<>>),
          P(<<Ex(c1), Wait(c1), Exit>>, <<Ex(c2), Wait(c2)>>)}
\* some are not
Orphans == {P(<<Ex(c1), Ex(c2), Exit>>, <<>>),
            P(<<Ex(c1), Exit>>, <<Ex(c2), Wait(c2)>>)}

MCCodes == {-1, 7}
Of(scripts, w, mem, pre) ==
    {[script |-> s, waits |-> w, memory |-> mem, preemptive |-> pre] : s \in scripts}
MCSetups == Of(Waits, TRUE, {TRUE}, FALSE) \union Of(Waits, TRUE, {TRUE}, TRUE)
            \union Of(Orphans, FALSE, {TRUE}, TRUE)
            \union Of({P(<<Ex(c1), Ex(c2), Exit>>, <<>>)}, FALSE, BOOLEAN, TRUE)
=============================================================================
