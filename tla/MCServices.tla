------------------------------ MODULE MCServices ------------------------------
(* The parts of the node that share no state, checked side by side: a        *)
(* behaviour is one of the part it begins with.                              *)
EXTENDS MCEventHub, SubmitGates, TokenBucket, HandleRecovery, VenueReads,
        SessionBreaker, OrderHistory, FeeBasis

CONSTANTS a1, a2, i1, i2

VARIABLE part
serviceVars == <<gateVars, bucketVars, recovery, readVars, breakerVars, historyVars, feeVars>>

(* Account a2 has caps of its own; the node routes a1 alone. *)
Caps == a2 :> 1
Values == a2 :> 1000
Inputs ==
  [broker : Broker, account : {a1}, market : Market, side : Side, order_type : OrderType,
   price : {NULL, 0, 1000, 1005}, stop_price : {NULL, 1000}, quantity : Qty,
   display_qty : Qty \cup {NULL}, tif : {"DAY", "GTC"},
   position_effect : PositionEffect \cup {NULL}]
Plain ==
  [broker : Broker, account : Account, market : {"SET"}, side : {"BUY"}, order_type : {"LIMIT"},
   price : {1000}, stop_price : {NULL}, quantity : Qty, display_qty : {NULL}, tif : {"DAY"},
   position_effect : {NULL}]
Nodes ==
  {[stage |-> stage, public_mode |-> FALSE, api_key |-> "full", read_api_key |-> "read",
    keys |-> _REAL_BROKERS, real_routing_accounts |-> {a1}] : stage \in {"sim", "micro_live"}}

(* The calendar of the fee months. *)
Months == <<31, 28, 30>>

SomeNode == CHOOSE n \in Nodes : TRUE
SomeOrder == CHOOSE o \in Plain : TRUE
SomeAccount == CHOOSE a \in VenueAccount : LooksAt("account", a)

(* The part whose behaviour it is starts anywhere, the others in one state. *)
ServicesInit ==
  /\ part \in {"hub", "gates", "bucket", "recovery", "reads", "breaker", "history", "fees"}
  /\ Init /\ BucketInit /\ HistoryInit
  /\ RecoveryInit /\ (part # "recovery" => recovery.elapsed = 0)
  /\ BreakerInit /\ (part # "breaker" => broker = "liberator")
  /\ FeeInit /\ (part # "fees" => \A fee \in Fee : file[1].value <= fee)
  /\ IF part = "gates" THEN GateInit
     ELSE /\ node = SomeNode
          /\ request = [route |-> "read", provided |-> "other", order |-> SomeOrder]
          /\ answer = NULL
  /\ IF part = "reads" THEN ReadInit
     ELSE /\ asked = [broker |-> "liberator", what |-> "account", form |-> "account"]
          /\ venue = SomeAccount
          /\ front = NULL /\ told = NULL

ServicesNext ==
  /\ UNCHANGED part
  /\ \/ part = "hub" /\ Next /\ UNCHANGED serviceVars
     \/ /\ UNCHANGED vars
        /\ \/ /\ part = "gates" /\ GateNext
              /\ UNCHANGED <<bucketVars, recovery, readVars, breakerVars, historyVars, feeVars>>
           \/ /\ part = "bucket" /\ BucketNext
              /\ UNCHANGED <<gateVars, recovery, readVars, breakerVars, historyVars, feeVars>>
           \/ /\ part = "recovery" /\ RecoveryNext
              /\ UNCHANGED <<gateVars, bucketVars, readVars, breakerVars, historyVars, feeVars>>
           \/ /\ part = "reads" /\ ReadNext
              /\ UNCHANGED <<gateVars, bucketVars, recovery, breakerVars, historyVars, feeVars>>
           \/ /\ part = "breaker" /\ BreakerNext
              /\ UNCHANGED <<gateVars, bucketVars, recovery, readVars, historyVars, feeVars>>
           \/ /\ part = "history" /\ HistoryNext
              /\ UNCHANGED <<gateVars, bucketVars, recovery, readVars, breakerVars, feeVars>>
           \/ /\ part = "fees" /\ FeeNext
              /\ UNCHANGED <<gateVars, bucketVars, recovery, readVars, breakerVars, historyVars>>

ServicesSpec == ServicesInit /\ [][ServicesNext]_<<part, vars, serviceVars>>
=============================================================================
