-------------------------- MODULE SubmitGatesProofs --------------------------
(***************************************************************************)
(* What passes the gates of SubmitGates to a venue is authorized and       *)
(* within its caps, for every node, request, order, price and cap.         *)
(***************************************************************************)
EXTENDS SubmitGates, TLAPS

RequestTypes == node \in Settings /\ request \in Request

(* A request none of whose gates fails passes each of them. *)
LEMMA AllGatesPass ==
  ASSUME NEW n, NEW r, NEW close, Failing(gates(n, r, close)) = {}
  PROVE  /\ require_api_key(n, r.provided) /\ _check_quantity(r.order)
         /\ _cross_field_rules(r.order) /\ _check_notional(r.order)
         /\ resolve_adapter(n, r.order.broker, "TRADE") # NULL
         /\ assert_may_route_real(n, r.order.account,
                                  resolve_adapter(n, r.order.broker, "TRADE"))
<1> DEFINE checks == gates(n, r, close)
<1>1. Len(checks) = 9
  BY DEF gates
<1>2. \A i \in 1..9 : checks[i][2]
  BY <1>1 DEF Failing
<1>3. /\ checks[1][2] = require_api_key(n, r.provided)
      /\ checks[3][2] = _cross_field_rules(r.order)
      /\ checks[5][2] = _check_quantity(r.order)
      /\ checks[6][2] = _check_notional(r.order)
      /\ checks[8][2] = (resolve_adapter(n, r.order.broker, "TRADE") # NULL)
      /\ checks[9][2] = assert_may_route_real(n, r.order.account,
                          resolve_adapter(n, r.order.broker, "TRADE"))
  BY DEF gates
<1> HIDE DEF checks
<1>4. /\ checks[1][2] /\ checks[3][2] /\ checks[5][2] /\ checks[6][2] /\ checks[8][2]
      /\ checks[9][2]
  BY <1>2
<1> QED
  BY <1>3, <1>4, Zenon

(* An adapter that is neither the sim's nor missing is the broker's own, at   *)
(* micro_live and with a credential.                                          *)
LEMMA TradeIsReal ==
  ASSUME NEW n \in Settings, NEW broker, NEW adapter,
         adapter = resolve_adapter(n, broker, "TRADE"), adapter # NULL, adapter # "sim"
  PROVE  /\ n.stage = "micro_live" /\ adapter = broker /\ broker \in _REAL_BROKERS
         /\ ~n.public_mode /\ broker \in n.keys
<1>1. n.stage \in Stage
  BY DEF Settings
<1>2. n.stage = "micro_live" /\ adapter = _real_adapter_for(n, broker)
  BY <1>1 DEF resolve_adapter, Stage
<1> QED
  BY <1>2 DEF _real_adapter_for, enabled

(* A payload comes from a submit that passed every gate. *)
LEMMA WireIsGated ==
  ASSUME RequestTypes, submit_order, OnWire'
  PROVE  \E close, level \in MarketPrice \cup {NULL} :
           /\ Failing(gates(node, request, close)) = {}
           /\ answer' = place(request.order,
                              resolve_adapter(node, request.order.broker, "TRADE"), level, close)
           /\ answer'.wire # NULL
<1>1. PICK close \in MarketPrice \cup {NULL}, level \in MarketPrice \cup {NULL} :
        answer' = IF Failing(gates(node, request, close)) # {}
                  THEN Refused(FirstFailing(gates(node, request, close)))
                  ELSE place(request.order,
                             resolve_adapter(node, request.order.broker, "TRADE"), level, close)
  BY DEF submit_order
<1>2. answer' # NULL /\ answer'.wire # NULL
  BY DEF OnWire
<1>3. \A code : Refused(code).wire = NULL
  BY DEF Refused
<1> QED
  BY <1>1, <1>2, <1>3

LEMMA TypesHold == GateSpec => []RequestTypes
<1>1. GateInit => RequestTypes
  <2> SUFFICES ASSUME GateInit PROVE RequestTypes
    OBVIOUS
  <2>1. node \in Settings
    BY GateAssumption DEF GateInit
  <2>2. request \in Request
    BY GateAssumption DEF GateInit, Request
  <2> QED
    BY <2>1, <2>2 DEF RequestTypes
<1>2. RequestTypes /\ [GateNext]_gateVars => RequestTypes'
  BY DEF RequestTypes, GateNext, gateVars, submit_order, account_read
<1> QED
  BY <1>1, <1>2, PTL DEF GateSpec

(* A read, and a step that does nothing, put nothing on a wire. *)
LEMMA OnlySubmitsReachAWire ==
  ASSUME [GateNext]_gateVars, OnWire'
  PROVE  submit_order \/ (OnWire /\ UNCHANGED gateVars)
<1>1. CASE UNCHANGED gateVars
  BY <1>1 DEF OnWire, gateVars
<1>2. CASE account_read
  <2>1. \A code, adapter : [code |-> code, adapter |-> adapter, wire |-> NULL, fill |-> NULL].wire = NULL
    OBVIOUS
  <2>2. answer'.wire = NULL
    BY <1>2, <2>1 DEF account_read, Refused
  <2> QED
    BY <2>2 DEF OnWire
<1> QED
  BY <1>1, <1>2 DEF GateNext

(* An order reaches a venue only from an owner-mode node at micro_live that   *)
(* holds the broker's credential and is declared the router of the account,   *)
(* and only with the full key: for every node and request, whatever the order *)
(* and the market data (submit of core/router.py with the guards of           *)
(* api/deps.py, core/stage.py and core/routing_authority.py).                 *)
THEOREM GatesAuthorizeRealOrders == GateSpec => []RealOrderIsAuthorized
<1>1. GateInit => RealOrderIsAuthorized
  BY DEF GateInit, RealOrderIsAuthorized, OnWire
<1>2. ASSUME RequestTypes, RealOrderIsAuthorized, [GateNext]_gateVars
      PROVE  RealOrderIsAuthorized'
  <2> SUFFICES ASSUME OnWire' PROVE RealOrderIsAuthorized'
    BY DEF RealOrderIsAuthorized
  <2>1. CASE OnWire /\ UNCHANGED gateVars
    BY <1>2, <2>1 DEF RealOrderIsAuthorized, gateVars
  <2>2. CASE submit_order
    <3> DEFINE o == request.order
               adapter == resolve_adapter(node, o.broker, "TRADE")
    <3>1. PICK close \in MarketPrice \cup {NULL}, level \in MarketPrice \cup {NULL} :
            /\ Failing(gates(node, request, close)) = {}
            /\ answer' = place(o, adapter, level, close) /\ answer'.wire # NULL
      BY <1>2, <2>2, WireIsGated
    <3>2. /\ require_api_key(node, request.provided) /\ adapter # NULL
          /\ assert_may_route_real(node, o.account, adapter)
      BY <3>1, AllGatesPass
    <3>3. adapter # "sim"
      BY <3>1 DEF place
    <3> HIDE DEF adapter
    <3>4. /\ node.stage = "micro_live" /\ ~node.public_mode /\ o.broker \in node.keys
      BY <1>2, <3>2, <3>3, TradeIsReal DEF RequestTypes, adapter
    <3>5. /\ o.account \in node.real_routing_accounts
          /\ node.api_key # NULL /\ request.provided = "full"
      BY <3>2, <3>3 DEF assert_may_route_real, require_api_key
    <3>6. node' = node /\ request' = request
      BY <2>2 DEF submit_order
    <3> QED
      BY <3>4, <3>5, <3>6 DEF RealOrderIsAuthorized
  <2> QED
    BY <1>2, <2>1, <2>2, OnlySubmitsReachAWire
<1> QED
  BY <1>1, <1>2, TypesHold, PTL DEF GateSpec

(* Each mapping sends the order's own quantity, at the price the notional cap *)
(* was computed from or at zero.                                              *)
LEMMA WireCarriesBasis ==
  ASSUME NEW o, NEW adapter \in _REAL_BROKERS, NEW level, NEW close, NEW wire,
         wire = place(o, adapter, level, close).wire, wire # NULL
  PROVE  /\ wire.volume = o.quantity
         /\ \/ wire.price = 0
            \/ Given(o.price, o.stop_price) # NULL /\ wire.price = Given(o.price, o.stop_price)
<1>1. wire = IF adapter = "liberator" THEN lib_to_place_payload(o) ELSE sp_to_place_payload(o)
  BY DEF place, _REAL_BROKERS
<1>2. CASE adapter = "liberator" /\ o.market = "SET"
  BY <1>1, <1>2 DEF lib_to_place_payload, lib_to_set_payload, _set_wire_price
<1>3. CASE adapter = "liberator" /\ o.market # "SET"
  BY <1>1, <1>3 DEF lib_to_place_payload, lib_to_tfex_payload, Given
<1>4. CASE adapter # "liberator"
  BY <1>1, <1>4 DEF sp_to_place_payload, Given
<1> QED
  BY <1>2, <1>3, <1>4

(* While no cap is negative, the volume and the value on the wire are within  *)
(* the caps of the account, whichever of its prices an order carries, for     *)
(* every order, cap and account (_check_quantity and _check_notional of       *)
(* core/risk.py against both wire mappings).                                  *)
THEOREM GatesCapTheWire ==
  ASSUME \A a : CapOf(AccountMaxNotional, a, MaxOrderValue) \in Nat
  PROVE  GateSpec => []WireWithinCaps
<1>1. GateInit => WireWithinCaps
  BY DEF GateInit, WireWithinCaps, OnWire
<1>2. ASSUME RequestTypes, WireWithinCaps, [GateNext]_gateVars
      PROVE  WireWithinCaps'
  <2> SUFFICES ASSUME OnWire' PROVE WireWithinCaps'
    BY DEF WireWithinCaps
  <2>1. CASE OnWire /\ UNCHANGED gateVars
    BY <1>2, <2>1 DEF WireWithinCaps, gateVars
  <2>2. CASE submit_order
    <3> DEFINE o == request.order
               adapter == resolve_adapter(node, o.broker, "TRADE")
               cap == CapOf(AccountMaxNotional, o.account, MaxOrderValue)
    <3>1. PICK close \in MarketPrice \cup {NULL}, level \in MarketPrice \cup {NULL} :
            /\ Failing(gates(node, request, close)) = {}
            /\ answer' = place(o, adapter, level, close) /\ answer'.wire # NULL
      BY <1>2, <2>2, WireIsGated
    <3>2. _check_quantity(o) /\ _check_notional(o) /\ adapter # NULL
      BY <3>1, AllGatesPass
    <3>3. adapter # "sim"
      BY <3>1 DEF place
    <3>4. adapter \in _REAL_BROKERS
      BY <1>2, <3>2, <3>3, TradeIsReal DEF RequestTypes
    <3>5. PICK wire : wire = answer'.wire
      OBVIOUS
    <3>6. /\ wire.volume = o.quantity
          /\ \/ wire.price = 0
             \/ Given(o.price, o.stop_price) # NULL /\ wire.price = Given(o.price, o.stop_price)
      BY <3>1, <3>4, <3>5, WireCarriesBasis
    <3>7. o.quantity \in Nat
      BY <1>2, GateAssumption DEF RequestTypes, Request, Order
    <3>8. wire.price * wire.volume <= cap
      <4>1. CASE wire.price = 0
        BY <3>6, <3>7, <4>1
      <4>2. CASE wire.price # 0
        BY <3>2, <3>6, <4>2 DEF _check_notional
      <4> QED
        BY <4>1, <4>2
    <3>9. wire.volume <= CapOf(AccountMaxQty, o.account, MaxOrderQty)
      BY <3>2, <3>6 DEF _check_quantity
    <3>10. request' = request
      BY <2>2 DEF submit_order
    <3> QED
      BY <3>5, <3>8, <3>9, <3>10 DEF WireWithinCaps, CapOf
  <2> QED
    BY <1>2, <2>1, <2>2, OnlySubmitsReachAWire
<1> QED
  BY <1>1, <1>2, TypesHold, PTL DEF GateSpec
=============================================================================
