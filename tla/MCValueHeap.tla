--------------------------- MODULE MCValueHeap ---------------------------
(* ValueHeap on small sets of addresses, handles and slots. *)
EXTENDS ValueHeap, TLC

Symmetry == Permutations(Obj) \cup Permutations(Handle) \cup Permutations(Slot)

=============================================================================
