------------------------------ MODULE MCKHeap ------------------------------
(* KHeap needs no definitions besides the constants of its configuration. *)
EXTENDS KHeap
=============================================================================
