------------------------------ MODULE MCSched ------------------------------
(* Sched with its refinement mapping; the tasks are model values. *)
EXTENDS SchedRefinement
=============================================================================
