----------------------------- MODULE MCPthread -----------------------------
(* Programs of up to three threads for the runs of Pthread. *)
EXTENDS Pthread

CONSTANTS Worker1, Worker2

C(o, a) == [op |-> o, arg |-> a]
P(m, w1, w2) == [t \in Threads |-> CASE t = Main -> m [] t = Worker1 -> w1 [] OTHER -> w2]
New1 == C("create", Worker1)
New2 == C("create", Worker2)
Bye == C("mexit", 0)
Work == C("work", 0)

\* main ends last, or by pthread_exit(); in the last program a thread has two joiners
Orderly == {P(<<New1, New2, C("join", Worker1), C("join", Worker2), Bye>>, <<>>, <<Work>>),
            P(<<New1, Work, C("join", Worker1), Bye>>, <<New2, C("join", Worker2)>>, <<>>),
            P(<<New1, Bye>>, <<C("join", Main), New2>>, <<C("join", Worker1)>>),
            P(<<New1, C("join", Worker1), New2, C("join", Worker1), Bye>>, <<C("join", Main)>>, <<>>),
            P(<<New1, New2, C("join", Worker1), Bye>>, <<Work>>, <<C("join", Worker1)>>)}
\* exit() comes when the others have exited
Returns == Orderly \union
           {P(<<New1, C("join", Worker1), C("exit", 3)>>, <<New2, C("join", Worker2)>>, <<Work>>)}
\* several threads exit, fault, create and join at once
Exits == {P(<<New1, New2, C("exit", 1)>>, <<Work, C("exit", 2)>>, <<C("fault", -1)>>),
          P(<<New1, New2, Work>>, <<C("fault", -1)>>, <<Work>>),
          P(<<New1, Bye>>, <<C("exit", 2)>>, <<>>),
          P(<<New1, New2, Bye>>, <<C("exit", 2)>>, <<C("exit", 3)>>),
          P(<<New1, New2, C("join", Worker2)>>, <<C("exit", 2)>>, <<Work>>)}

Of(scripts, ord, out, pre) ==
    {[script |-> s, orderly |-> ord, outcomes |-> out, preemptive |-> pre, max_stacks |-> 3] : s \in scripts}
\* one stack too few
Few(s) == [script |-> s, orderly |-> TRUE, outcomes |-> {TRUE}, preemptive |-> FALSE, max_stacks |-> 2]
MCSetups == Of(Orderly, TRUE, {TRUE}, TRUE) \union Of(Returns, TRUE, {TRUE}, FALSE)
            \union Of(Exits, FALSE, BOOLEAN, TRUE)
            \union {Few(s) : s \in Orderly}
=============================================================================
