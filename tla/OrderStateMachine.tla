--------------------------- MODULE OrderStateMachine ---------------------------
(***************************************************************************)
(* The frozen order state machine: contracts/enums.py (OrderState and the  *)
(* public status derived from it) and core/state_machine.py (the legal     *)
(* edges and the guard).  Constant definitions only.                       *)
(***************************************************************************)
EXTENDS Integers

OrderState ==
  {"PENDING_NEW", "NEW", "PARTIALLY_FILLED", "FILLED", "PENDING_CANCEL",
   "CANCELLED", "PENDING_REPLACE", "REJECTED", "EXPIRED"}

TERMINAL_STATES == {"FILLED", "CANCELLED", "REJECTED", "EXPIRED"}

(* The thirteen legal non-trivial transitions. *)
LEGAL_EDGES ==
  ({"PENDING_NEW"} \X {"NEW", "REJECTED"})
  \cup ({"NEW"} \X {"PARTIALLY_FILLED", "FILLED", "EXPIRED",
                    "PENDING_CANCEL", "PENDING_REPLACE"})
  \cup ({"PARTIALLY_FILLED"} \X {"FILLED", "EXPIRED",
                                 "PENDING_CANCEL", "PENDING_REPLACE"})
  \cup ({"PENDING_CANCEL"} \X {"CANCELLED"})
  \cup ({"PENDING_REPLACE"} \X {"NEW"})

is_terminal(state) == state \in TERMINAL_STATES

(* A write of the state a row already has is a legal no-op. *)
is_legal(current, new) == current = new \/ <<current, new>> \in LEGAL_EDGES

(* The rows the mass-cancel sweep reads. *)
OPEN_STATES == {"NEW", "PARTIALLY_FILLED"}

(* The rows a reconciler reads (PENDING_REPLACE is not among them). *)
RECONCILE_STATES == {"PENDING_NEW", "NEW", "PARTIALLY_FILLED", "PENDING_CANCEL"}

=============================================================================
