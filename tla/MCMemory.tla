------------------------------ MODULE MCMemory ------------------------------
(* Pages of 12 units with headers of 5: blocks of 2, three to a page, of 4, *)
(* one to a page, and big blocks of two pages.                              *)
EXTENDS Memory
=============================================================================
