----------------------------- MODULE MCFileSys ------------------------------
(* A disk of five sectors for files beside the reserved ones. *)
EXTENDS FileSys
=============================================================================
