----------------------------- MODULE MCFixedMemory -----------------------------
(* Model checking FixedMemory: two chunks, the sizes at the border of the two. *)
EXTENDS FixedMemory

(* A BOUND on what is in use at once, so that the second store is reached and  *)
(* the lists still have many orders.                                           *)
CONSTANT MaxUsed
FewUsed == Cardinality({b \in Blocks : InUse(b)}) <= MaxUsed
================================================================================
