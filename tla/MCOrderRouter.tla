----------------------------- MODULE MCOrderRouter -----------------------------
(* Instances of the router: which operations the calls may be, and the     *)
(* fill plans a sim order may carry.                                       *)
EXTENDS OrderRouter, TLC

(* A partial fill, a full fill in two, and more than the order. *)
Plans == {<<1>>, <<1, 1>>, <<3>>}

(* A background writer acts beside one call: the others have not begun, and  *)
(* none begins once it has acted.                                            *)
OneBegun == Cardinality({t \in Task : pc[t] # "start"}) <= 1
BackgroundScope == (\E w \in Background : call[w].op # "idle") => OneBegun

ScopedNext ==
  \/ \E t \in Task : Begin(t) \/ TaskStep(t)
  \/ \E w \in Worker : Database(w)
  \/ \E w \in Background :
       /\ OneBegun
       /\ BackgroundCall(w)
       /\ call'[w].op = "apply_fill" => call'[w].total = OrderQty
ScopedSpec == Init /\ [][ScopedNext]_vars

Symmetry == Permutations(Task)
SymmetryBoth == Permutations(Task) \cup Permutations(Cid)

=============================================================================
