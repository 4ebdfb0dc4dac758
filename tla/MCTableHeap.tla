---------------------------- MODULE MCTableHeap ----------------------------
(* Instances of TableHeap for TLC.  A page of eight units holds two rows   *)
(* of size 2, one of five units one such row or two of size 1, so that the *)
(* next row extends the chain; pools of one or two frames, so that walking *)
(* a chain evicts.                                                         *)
EXTENDS TableHeap, TLC

OneSize == {[size |-> 2]}
TwoSizes == {[size |-> 1], [size |-> 2]}

\* Heaps are told apart by nothing but their first pages.
HeapSymmetry == Permutations(Heap)
=============================================================================
