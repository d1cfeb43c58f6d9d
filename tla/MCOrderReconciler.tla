--------------------------- MODULE MCOrderReconciler ---------------------------
(* Instances of the reconciler: the coroutines of each order and the fill   *)
(* ids {orderNo}:{matched}.                                                 *)
EXTENDS OrderReconciler, TLC

Quantities == 1 .. OrderQty
FillIds == Cid \X Quantities
Twins == Cid \X Cid
Symmetry == Permutations(Cid)

=============================================================================
