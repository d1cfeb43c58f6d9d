---------------------------- MODULE HandleRecovery ----------------------------
(***************************************************************************)
(* The pace of core/handle_recovery.py: how often the venue is asked for   *)
(* the handle of an order whose ack carried none.  Time is counted from    *)
(* the submit; what a read does to the store is OrderReconciler's.         *)
(***************************************************************************)
EXTENDS Naturals

CONSTANTS
  Cadence, Deadline, MinPolls,
  MaxStart, MaxRead   \* how long the placement, and then a read, may take

ASSUME RecoveryAssumption ==
  Cadence \in Nat \ {0} /\ Deadline \in Nat /\ MinPolls \in Nat /\ MaxStart \in Nat /\ MaxRead \in Nat

VARIABLES recovery  \* [pc, attempts, read_ok, elapsed, started]; started: of the last attempt

RecoveryInit ==
  \E t \in 0..MaxStart :
    recovery = [pc |-> "resolve", attempts |-> 0, read_ok |-> FALSE, elapsed |-> t, started |-> t]

(* Variant: the ceiling alone ends the burst. *)
out_of_budget_ceiling(attempts, elapsed) == elapsed + Cadence > Deadline

out_of_budget(attempts, elapsed) == attempts >= MinPolls /\ elapsed + Cadence > Deadline

(* One venue read, what it says, and whether to ask again. *)
resolve ==
  /\ recovery.pc = "resolve"
  /\ \E said \in {"resolved", "absent", "raised"}, took \in 0..MaxRead :
       LET attempts == recovery.attempts + 1
           read_ok == recovery.read_ok \/ said = "absent"
           elapsed == recovery.elapsed + took
       IN recovery' =
            [pc |-> IF said = "resolved" THEN "CONFIRMED"
                    ELSE IF ~out_of_budget(attempts, elapsed) THEN "sleep"
                    ELSE IF read_ok THEN "PENDING" ELSE "UNKNOWN",
             attempts |-> attempts, read_ok |-> read_ok, elapsed |-> elapsed,
             started |-> recovery.elapsed]

sleep ==
  /\ recovery.pc = "sleep"
  /\ recovery' = [recovery EXCEPT !.pc = "resolve", !.elapsed = @ + Cadence]

RecoveryNext == resolve \/ sleep
RecoverySpec == RecoveryInit /\ [][RecoveryNext]_recovery

-----------------------------------------------------------------------------
(* A slow placement costs no attempt of the floor, and no attempt past the    *)
(* floor starts after the deadline; UNKNOWN is said only if no read answered  *)
(* (core/handle_recovery.py, "floor before ceiling").                         *)
RecoveryBudget ==
  /\ recovery.pc \in {"PENDING", "UNKNOWN"} => recovery.attempts >= MinPolls
  /\ recovery.attempts > MinPolls /\ recovery.attempts > 1 => recovery.started <= Deadline
  /\ recovery.pc = "UNKNOWN" => ~recovery.read_ok

=============================================================================
