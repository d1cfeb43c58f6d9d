----------------------------- MODULE OrderLifecycle -----------------------------
(***************************************************************************)
(* What the durable store promises of one order, whoever writes to it: a   *)
(* row is born PENDING_NEW, is never deleted, moves only along the frozen  *)
(* edges, and gathers fills only once a venue has acknowledged it.         *)
(***************************************************************************)
EXTENDS OrderStateMachine

CONSTANTS Cid, Fill, NULL

VARIABLES
  status,   \* [Cid -> OrderState \cup {NULL}], NULL before the insert
  fills     \* [Cid -> SUBSET Fill]

vars == <<status, fills>>

(* States in which a row may carry fills: the venue has accepted the order. *)
Acknowledged == OrderState \ {"PENDING_NEW", "REJECTED"}

Init ==
  /\ status = [c \in Cid |-> NULL]
  /\ fills = [c \in Cid |-> {}]

Birth(c) ==
  /\ status[c] = NULL
  /\ status' = [status EXCEPT ![c] = "PENDING_NEW"]
  /\ UNCHANGED fills

Advance(c) ==
  /\ status[c] # NULL
  /\ \E new \in OrderState :
       /\ is_legal(status[c], new)
       /\ status' = [status EXCEPT ![c] = new]
  /\ \/ UNCHANGED fills
     \/ /\ \E f \in Fill : fills' = [fills EXCEPT ![c] = @ \cup {f}]
        /\ status'[c] \in Acknowledged

Next == \E c \in Cid : Birth(c) \/ Advance(c)

Spec == Init /\ [][Next]_vars

=============================================================================
