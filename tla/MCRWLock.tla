----------------------------- MODULE MCRWLock -----------------------------
(***************************************************************************)
(* Instances of RWLock: clients of two priorities.                         *)
(***************************************************************************)
EXTENDS RWLock

CONSTANTS t1, t2, t3, t4

MCPri == [t \in Threads |-> IF t = t1 THEN 2 ELSE 1]
=============================================================================
