------------------------------ MODULE MCWmTree ------------------------------
(* WmTree needs no definitions besides the constants of its configuration. *)
EXTENDS WmTree
=============================================================================
