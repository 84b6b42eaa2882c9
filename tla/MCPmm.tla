------------------------------- MODULE MCPmm -------------------------------
(* Small memory maps for Pmm. *)
EXTENDS Pmm

\* Holes between the usable entries and the kernel image above them: the usable
\* pages 11, 12 and 13 have numbers that reach or pass their count, and the bits of
\* 12, 13 and of the kernel lie behind the bitmap.
HoleMap ==
    {[base |-> 0, end |-> 2], [base |-> 3, end |-> 8], [base |-> 10, end |-> 14]}
HoleKernel == {14}
=============================================================================
