----------------------------- MODULE MCDisplay -----------------------------
(***************************************************************************)
(* A window of three cells and two sizes, queues of two messages.          *)
(***************************************************************************)
EXTENDS Display
=============================================================================
