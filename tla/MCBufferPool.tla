---------------------------- MODULE MCBufferPool ----------------------------
(* Instances of BufferPool for TLC: three pages, one of them a system page,*)
(* in a pool of two frames, so that every fetch order evicts.              *)
EXTENDS BufferPool, TLC

ZeroPageDef == [data |-> Void, dirty |-> FALSE]

\* Contents are only compared, never looked into.
DataSymmetry == Permutations(Data)
=============================================================================
