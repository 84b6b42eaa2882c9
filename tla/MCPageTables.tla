---------------------------- MODULE MCPageTables ----------------------------
(* Two pages of the lower half and two of the kernel heap, three levels down: *)
(* the heap pages differ in their middle table, the others in the last.       *)
EXTENDS PageTables

MCUsed == {<<0, 0, 0>>, <<0, 0, 1>>, <<1, 0, 0>>, <<1, 1, 0>>}
=============================================================================
