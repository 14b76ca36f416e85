----------------------------- MODULE FileStore ------------------------------
(* What the file system promises: names bound to files, files that keep     *)
(* their contents until their name and their last handle are gone, and every *)
(* change done at once or not at all, a power failure included.  A failure   *)
(* ends the open files and nothing else.                                     *)
EXTENDS Integers, Sequences

CONSTANTS Names, Files, Handles, Values, Lengths, NONE

VARIABLES dir,    \* the file of each name, or NONE
          data,   \* the contents of each file that exists
          open    \* of each handle: NONE, or its file and whether it denies writes
vars == <<dir, data, open>>

Zeros(n) == [i \in 1 .. n |-> 0]
OpenFiles(o) == {o[h].file : h \in {h \in Handles : o[h] # NONE}}
Exists(d, o) == ({d[n] : n \in Names} \ {NONE}) \union OpenFiles(o)
\* the contents of what still exists
Keep(d, o, c) == [f \in Files |-> IF f \in Exists(d, o) THEN c[f] ELSE <<>>]

Init == /\ dir = [n \in Names |-> NONE]
        /\ data = [f \in Files |-> <<>>]
        /\ open = [h \in Handles |-> NONE]

Create(n, len) == /\ dir[n] = NONE
                  /\ \E f \in Files \ Exists(dir, open) :
                       dir' = [dir EXCEPT ![n] = f] /\ data' = [data EXCEPT ![f] = Zeros(len)]
                  /\ UNCHANGED open
Remove(n) == /\ dir[n] # NONE
             /\ dir' = [dir EXCEPT ![n] = NONE]
             /\ data' = Keep(dir', open, data)
             /\ UNCHANGED open
Open(n, h) == /\ dir[n] # NONE /\ open[h] = NONE
              /\ open' = [open EXCEPT ![h] = [file |-> dir[n], deny |-> FALSE]]
              /\ UNCHANGED <<dir, data>>
Deny(h) == /\ open[h] # NONE
           /\ open' = [open EXCEPT ![h].deny = TRUE]
           /\ UNCHANGED <<dir, data>>
Close(h) == /\ open[h] # NONE
            /\ open' = [open EXCEPT ![h] = NONE]
            /\ data' = Keep(dir, open', data)
            /\ UNCHANGED dir
Write(h, v) == /\ open[h] # NONE
               /\ \A g \in Handles : open[g] # NONE /\ open[g].file = open[h].file => ~open[g].deny
               /\ \E i \in DOMAIN data[open[h].file] : data' = [data EXCEPT ![open[h].file][i] = v]
               /\ UNCHANGED <<dir, open>>
PowerFailure == /\ open' = [h \in Handles |-> NONE]
                /\ data' = Keep(dir, open', data)
                /\ UNCHANGED dir

Next == \/ \E n \in Names : (\E len \in Lengths : Create(n, len)) \/ Remove(n) \/ (\E h \in Handles : Open(n, h))
        \/ \E h \in Handles : Deny(h) \/ Close(h) \/ (\E v \in Values : Write(h, v))
        \/ PowerFailure
Spec == Init /\ [][Next]_vars
=============================================================================
