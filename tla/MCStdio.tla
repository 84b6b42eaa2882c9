------------------------------ MODULE MCStdio ------------------------------
(***************************************************************************)
(* Batches of two characters, queues of two messages.                      *)
(***************************************************************************)
EXTENDS Stdio
=============================================================================
