---------------------------- MODULE MCUserMemory ----------------------------
(* UserHeap with interchangeable frames: two clients that call sbrk, and one that
   uses malloc. *)
EXTENDS UserHeap

CONSTANT Client
MCMachines == {[frames |-> 5, procs |-> Proc, user |-> None],
               [frames |-> 6, procs |-> {WM, Client}, user |-> Client]}
FrameSymmetry == Permutations(Frames)
=============================================================================
