------------------------------ MODULE KeyedSet ------------------------------
(* What a hash table promises (the comments of lib/kernel/hash.c): a set of  *)
(* elements no two of which are equal, and an iteration that returns each of *)
(* them once.                                                                *)
EXTENDS Naturals, FiniteSets, Sequences

CONSTANTS Elems

VARIABLES contents,  \* the elements of the table
          ret,       \* what the last operation returned, or gave to its action
          toVisit    \* elements the iteration has still to return, {} when there is none

Equal(a, e) == a[1] = e[1]
Matches(e) == {a \in contents : Equal(a, e)}
Is(seq, set) == {seq[i] : i \in DOMAIN seq} = set /\ Len(seq) = Cardinality(set)
Init == contents = {} /\ ret = <<>> /\ toVisit = {}
Insert(e) == /\ contents' = IF Matches(e) = {} THEN contents \union {e} ELSE contents
             /\ Is(ret', Matches(e)) /\ toVisit' = {}
Replace(e) == contents' = (contents \ Matches(e)) \union {e} /\ Is(ret', Matches(e)) /\ toVisit' = {}
Find(e) == Is(ret', Matches(e)) /\ UNCHANGED <<contents, toVisit>>
Delete(e) == contents' = contents \ Matches(e) /\ Is(ret', Matches(e)) /\ toVisit' = {}
Apply == Is(ret', contents) /\ UNCHANGED <<contents, toVisit>>
Clear == contents' = {} /\ Is(ret', contents) /\ toVisit' = {}
First == toVisit' = contents /\ ret' = <<>> /\ UNCHANGED contents
NextElem == /\ IF toVisit = {} THEN ret' = <<>> ELSE \E e \in toVisit : ret' = <<e>>
            /\ toVisit' = toVisit \ {ret'[i] : i \in DOMAIN ret'}
            /\ UNCHANGED contents
Next == \/ \E e \in Elems : Insert(e) \/ Replace(e) \/ Find(e) \/ Delete(e)
        \/ Apply \/ Clear \/ First \/ NextElem
Spec == Init /\ [][Next]_<<contents, ret, toVisit>>
=============================================================================
