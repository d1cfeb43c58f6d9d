----------------------------- MODULE MCOrderStore -----------------------------
(* The order store under arbitrary concurrent callers.  MaxEvents bounds   *)
(* the length of an order's audit trail past which no call is started.     *)
EXTENDS OrderStore, TLC

CONSTANT MaxEvents

(* Orders are for two lots; an amend changes them to one, or the price     *)
(* only; fills of one and of two lots both occur.                          *)
MCCommand ==
  {r \in Command :
     /\ r.op \in {"insert_order", "apply_fill"} =>
          2 = (IF r.op = "apply_fill" THEN r.total ELSE r.quantity)
     /\ r.op = "replace_order" => r.quantity \in {1, NULL}}

MCInvoke(w, command) ==
  /\ \A c \in Cid : Len(order_events[c]) < MaxEvents
  /\ Invoke(w, command)

MCNext ==
  \/ \E w \in Worker :
       \/ StoreStep(w)
       \/ \E command \in MCCommand : MCInvoke(w, command)
  \/ StoreCrash

MCSpec == StoreInit /\ [][MCNext]_storeVars

Symmetry == Permutations(Worker) \cup Permutations(FillId)

=============================================================================
