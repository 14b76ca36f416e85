------------------------------ MODULE MCSynch ------------------------------
(***************************************************************************)
(* Instances of Synch: a main thread mid of default priority, and          *)
(* threads low and high of lower and of higher priority.                   *)
(***************************************************************************)
EXTENDS Synch

CONSTANTS mid, low, high, A, B, S

MCCreatePri == [t \in Threads |-> IF t = low THEN {1} ELSE IF t = high THEN {3} ELSE {}]
MCRank == [x \in Locks |-> IF x = A THEN 1 ELSE 2]
MCSemaInit == [s \in Semas |-> 0]
=============================================================================
