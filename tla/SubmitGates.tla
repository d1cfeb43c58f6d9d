----------------------------- MODULE SubmitGates -----------------------------
(***************************************************************************)
(* What stands between a request and a venue: the API key and owner-mode   *)
(* guards, the order contract, the capability matrix, the per-order risk   *)
(* caps, the price band, the stage ladder, the EH6 declaration and the two *)
(* wire mappings.  A state is one node, one request and its answer.        *)
(*                                                                         *)
(* Prices are in thousandths of a baht, so a price of at most two decimal  *)
(* places is a multiple of ten.                                            *)
(***************************************************************************)
EXTENDS Integers, Sequences, Vocabulary

CONSTANTS
  Account, Price, Qty,
  MaxOrderQty, AccountMaxQty,        \* the second: account -> cap, partial
  MaxOrderValue, AccountMaxNotional, \* likewise
  MaxPct,                            \* price_band_max_pct
  FillPrice,                         \* sim_default_fill_price
  MarketPrice,                       \* book levels and closes the market data may give
  OrderInput, OrderNode, PlainOrder  \* the orders tried on some nodes, the orders tried on all

VARIABLES node, request, answer
gateVars == <<node, request, answer>>

Order == [broker : Broker, account : Account, market : Market, side : Side,
          order_type : OrderType, price : Price \cup {NULL}, stop_price : Price \cup {NULL},
          quantity : Qty, display_qty : Qty \cup {NULL}, tif : Tif,
          position_effect : PositionEffect \cup {NULL}]
Settings == [stage : Stage, public_mode : BOOLEAN, api_key : {NULL, "full"},
             read_api_key : {NULL, "full", "read"}, keys : SUBSET _REAL_BROKERS,
             real_routing_accounts : SUBSET Account]
Request == [route : {"submit", "read"}, provided : {"full", "read", "other"}, order : Order]

ASSUME GateAssumption ==
  /\ Price \subseteq Int /\ Qty \subseteq Nat \ {0}
  /\ OrderNode \subseteq Settings /\ OrderInput \subseteq Order /\ PlainOrder \subseteq Order
  /\ MarketPrice \subseteq Int
  /\ DOMAIN AccountMaxQty \subseteq Account /\ DOMAIN AccountMaxNotional \subseteq Account

-----------------------------------------------------------------------------
(* The HTTP guards. *)

_is_read_key(n, provided) == n.read_api_key = "read" /\ provided = "read"

(* Variant: every route takes the read key. *)
require_api_key_or_read(n, provided) ==
  n.api_key # NULL /\ (provided = "full" \/ _is_read_key(n, provided))

require_api_key(n, provided) ==
  n.api_key # NULL /\ provided = "full"

require_read_or_full_key(n, provided) ==
  n.api_key # NULL /\ (provided = "full" \/ _is_read_key(n, provided))

require_owner_mode(n) == ~n.public_mode

-----------------------------------------------------------------------------
(* The order contract and the capability matrix. *)

_PRICED_TYPES == {"LIMIT", "STOP_LIMIT"}
_STOP_TYPES == {"STOP", "STOP_LIMIT"}

(* Variant: only the presence of display_qty is checked, not its size. *)
_cross_field_rules_unsized(o) ==
  /\ o.price # NULL => o.price > 0
  /\ o.stop_price # NULL => o.stop_price > 0
  /\ o.order_type \in _PRICED_TYPES => o.price # NULL
  /\ o.order_type \in _STOP_TYPES => o.stop_price # NULL
  /\ (o.display_qty # NULL) = (o.order_type = "ICEBERG")
  /\ (o.position_effect # NULL) = (o.market = "TFEX")

_cross_field_rules(o) ==
  /\ o.price # NULL => o.price > 0
  /\ o.stop_price # NULL => o.stop_price > 0
  /\ o.order_type \in _PRICED_TYPES => o.price # NULL
  /\ o.order_type \in _STOP_TYPES => o.stop_price # NULL
  /\ IF o.display_qty # NULL
     THEN o.order_type = "ICEBERG" /\ o.display_qty <= o.quantity
     ELSE o.order_type # "ICEBERG"
  /\ (o.position_effect # NULL) = (o.market = "TFEX")

(* CAPABILITY_MATRIX, one function per column. *)
order_types ==
  [bm \in Broker \X Market |->
     CASE bm[1] = "sim" -> OrderType
       [] bm = <<"liberator", "SET">> -> {"MARKET", "LIMIT", "ICEBERG", "MTL", "ATO", "ATC"}
       [] bm = <<"liberator", "TFEX">> -> {"MARKET", "LIMIT", "STOP", "STOP_LIMIT", "ICEBERG"}
       [] bm[1] = "streaming_pro" -> {"MARKET", "LIMIT"}]

tifs == [b \in Broker |-> IF b = "streaming_pro" THEN {"DAY"} ELSE Tif]
position_effects == [m \in Market |-> IF m = "TFEX" THEN PositionEffect ELSE {}]

assert_supports(o) ==
  /\ o.order_type \in order_types[<<o.broker, o.market>>]
  /\ o.tif \in tifs[o.broker]
  /\ o.position_effect # NULL => o.position_effect \in position_effects[o.market]

-----------------------------------------------------------------------------
(* The per-order caps and the price band. *)

CapOf(caps, account, global) == IF account \in DOMAIN caps THEN caps[account] ELSE global

_check_quantity(o) == o.quantity <= CapOf(AccountMaxQty, o.account, MaxOrderQty)

_check_notional(o) ==
  LET basis == Given(o.price, o.stop_price) IN
  basis # NULL =>
    basis * o.quantity <= CapOf(AccountMaxNotional, o.account, MaxOrderValue)

abs(x) == IF x < 0 THEN -x ELSE x

(* close: the last close, NULL when the market data gave none. *)
_price_band(o, close) ==
  o.price # NULL /\ close # NULL =>
    close <= 0 \/ abs(o.price - close) * 100 <= MaxPct * close

-----------------------------------------------------------------------------
(* Start-up, the broker runtimes, the stage ladder and EH6. *)

assert_startup_declaration(n) ==
  n.stage \in {"micro_live", "live"} => n.real_routing_accounts # {} /\ n.keys # {}

(* liberator_enabled and streaming_pro_enabled *)
enabled(n, broker) ==
  n.stage \in {"paper", "micro_live", "live"} /\ ~n.public_mode /\ broker \in n.keys

_real_adapter_for(n, broker) ==
  IF broker \in _REAL_BROKERS /\ enabled(n, broker) THEN broker ELSE NULL


(* NULL: StageRejected. *)
resolve_adapter(n, broker, intent) ==
  LET real == _real_adapter_for(n, broker) IN
  CASE n.stage = "sim" -> "sim"
    [] n.stage = "paper" -> IF intent = "READ" /\ broker \in _REAL_BROKERS THEN real ELSE "sim"
    [] n.stage = "micro_live" -> real
    [] n.stage = "live" -> NULL

assert_may_route_real(n, account, adapter) ==
  adapter = "sim" \/ account \in n.real_routing_accounts

-----------------------------------------------------------------------------
(* The Liberator wire; NULL is LiberatorMappingError. *)

lib_venue_side(side, m) ==
  CASE m = "SET" -> IF side = "BUY" THEN "Buy" ELSE "Sell"
    [] m = "TFEX" -> IF side = "BUY" THEN "Long" ELSE "Short"

from_venue_side(raw) ==
  CASE raw \in {"B", "Buy", "BUY", "Long"} -> "BUY"
    [] raw \in {"S", "Sell", "SELL", "Short"} -> "SELL"
    [] OTHER -> NULL

lib_price_type(order_type, m) ==
  CASE order_type \in {"LIMIT", "ICEBERG"} -> "Limit"
    [] order_type = "MARKET" -> "Market"
    [] order_type = "MTL" /\ m = "SET" -> "MP"
    [] order_type \in {"ATO", "ATC"} /\ m = "SET" -> order_type
    [] order_type \in _STOP_TYPES /\ m = "TFEX" -> "Stop"
    [] OTHER -> NULL

_set_wire_price(o) ==
  LET price == Given(o.price, o.stop_price) IN
  IF price # NULL /\ price % 10 = 0 THEN price ELSE NULL

lib_to_set_payload(o) ==
  LET price == _set_wire_price(o)
      type == lib_price_type(o.order_type, "SET")
  IN IF price = NULL \/ type = NULL THEN NULL
     ELSE [front |-> "SET", side |-> lib_venue_side(o.side, "SET"), position |-> NULL,
           type |-> type, validity |-> o.tif, volume |-> o.quantity,
           iceberg |-> Given(o.display_qty, 0), price |-> price, stop |-> 0]

lib_to_tfex_payload(o) ==
  LET type == lib_price_type(o.order_type, "TFEX")
  IN IF o.position_effect = NULL \/ type = NULL THEN NULL
     ELSE [front |-> "TFEX", side |-> lib_venue_side(o.side, "TFEX"),
           position |-> o.position_effect, type |-> type, validity |-> o.tif,
           volume |-> o.quantity, iceberg |-> Given(o.display_qty, 0),
           price |-> Given(o.price, 0),
           stop |-> IF o.order_type \in _STOP_TYPES THEN Given(o.stop_price, 0) ELSE 0]

lib_to_place_payload(o) ==
  IF o.market = "SET" THEN lib_to_set_payload(o) ELSE lib_to_tfex_payload(o)

(* The row the venue lists for a payload it took. *)
venue_row(w) ==
  [w EXCEPT !.side = IF w.side \in {"Buy", "Long"} THEN "B" ELSE "S"]

_READ_PRICE_TYPES ==
  [LIMIT |-> "LIMIT", MARKET |-> "MARKET", MP |-> "MTL", ATO |-> "ATO", ATC |-> "ATC",
   STOP |-> "STOP"]

upper(type) ==
  CASE type = "Limit" -> "LIMIT" [] type = "Market" -> "MARKET" [] type = "Stop" -> "STOP"
    [] OTHER -> type

(* NULL: the frozen contract cannot represent the row, and it is skipped. *)
venue_item_to_normalized(row, account) ==
  LET known == upper(row.type) \in DOMAIN _READ_PRICE_TYPES
      read == IF known THEN _READ_PRICE_TYPES[upper(row.type)] ELSE NULL
      type == IF read = "LIMIT" /\ row.iceberg > 0 THEN "ICEBERG" ELSE read
      o == [broker |-> "liberator", account |-> account,
            market |-> IF row.position # NULL THEN "TFEX" ELSE "SET",
            side |-> from_venue_side(row.side), order_type |-> type, price |-> row.price,
            stop_price |-> IF type = "STOP" THEN row.stop ELSE NULL, quantity |-> row.volume,
            display_qty |-> IF type = "ICEBERG" THEN row.iceberg ELSE NULL,
            tif |-> row.validity, position_effect |-> row.position]
  IN IF ~known \/ o.side = NULL THEN NULL ELSE IF _cross_field_rules(o) THEN o ELSE NULL

(* The Streaming Pro wire: the bridge takes the contract's own words. *)
sp_to_place_payload(o) ==
  IF o.market = "TFEX" /\ o.position_effect = NULL THEN NULL
  ELSE [front |-> o.market, side |-> o.side, position |-> o.position_effect,
        type |-> o.order_type, validity |-> o.tif, volume |-> o.quantity, iceberg |-> 0,
        price |-> Given(Given(o.price, o.stop_price), 0), stop |-> 0]

-----------------------------------------------------------------------------
(* The price of a simulated fill. *)

_bound_by_limit(price, o) ==
  IF o.price = NULL THEN price
  ELSE IF o.side = "BUY" THEN (IF price < o.price THEN price ELSE o.price)
  ELSE (IF price > o.price THEN price ELSE o.price)

_reference_price(o) ==
  CASE o.order_type \in _PRICED_TYPES -> o.price
    [] o.order_type = "STOP" -> o.stop_price
    [] OTHER -> Given(Given(o.price, o.stop_price), FillPrice)

(* level: the best opposite level of a fresh cached book; close: the last close. *)
fill_price(o, level, close) ==
  LET seen == Given(level, close)
  IN IF seen # NULL THEN _bound_by_limit(seen, o) ELSE _reference_price(o)

-----------------------------------------------------------------------------
(* The two kinds of route. *)

Refused(code) == [code |-> code, adapter |-> NULL, wire |-> NULL, fill |-> NULL]

(* The gates in the order submit meets them; a refusal is by the first that fails. *)
gates(n, r, close) ==
  LET o == r.order
      adapter == resolve_adapter(n, o.broker, "TRADE")
  IN << <<"invalid API key", require_api_key(n, r.provided)>>,
        <<"public_mode", require_owner_mode(n)>>,
        <<"validation", _cross_field_rules(o)>>,
        <<"capability_unsupported", assert_supports(o)>>,
        <<"max_order_qty", _check_quantity(o)>>,
        <<"max_order_value", _check_notional(o)>>,
        <<"price_band", _price_band(o, close)>>,
        <<"stage_rejected", adapter # NULL>>,
        <<"real_routing_not_authorized", assert_may_route_real(n, o.account, adapter)>> >>

Failing(checks) == {i \in 1..Len(checks) : ~checks[i][2]}
FirstFailing(checks) ==
  checks[CHOOSE i \in Failing(checks) : \A j \in Failing(checks) : i <= j][1]

place(o, adapter, level, close) ==
  LET wire == IF adapter = "liberator" THEN lib_to_place_payload(o) ELSE sp_to_place_payload(o)
  IN IF adapter = "sim"
     THEN [code |-> "placed", adapter |-> adapter, wire |-> NULL,
           fill |-> fill_price(o, level, close)]
     ELSE [code |-> IF wire # NULL THEN "placed" ELSE "rejected", adapter |-> adapter,
           wire |-> wire, fill |-> NULL]

(* POST /orders *)
submit_order ==
  /\ answer = NULL /\ request.route = "submit"
  /\ \E close, level \in MarketPrice \cup {NULL} :
       LET checks == gates(node, request, close)
           o == request.order
       IN answer' = IF Failing(checks) # {} THEN Refused(FirstFailing(checks))
                    ELSE place(o, resolve_adapter(node, o.broker, "TRADE"), level, close)
  /\ UNCHANGED <<node, request>>

(* GET /accounts/{account}, .../positions, .../open-orders and .../venue-orders *)
account_read ==
  /\ answer = NULL /\ request.route = "read"
  /\ LET o == request.order
         adapter == resolve_adapter(node, o.broker, "READ")
         checks == <<
           <<"invalid API key", require_read_or_full_key(node, request.provided)>>,
           <<"public_mode", require_owner_mode(node)>>,
           <<"stage_rejected", adapter # NULL>>,
           <<"real_routing_not_authorized", assert_may_route_real(node, o.account, adapter)>> >>
     IN answer' = IF Failing(checks) # {} THEN Refused(FirstFailing(checks))
                  ELSE [code |-> "read", adapter |-> adapter, wire |-> NULL, fill |-> NULL]
  /\ UNCHANGED <<node, request>>

GateInit ==
  /\ answer = NULL
  /\ \/ /\ node \in OrderNode
        /\ request \in [route : {"submit"}, provided : {"full"}, order : OrderInput]
     \/ /\ node \in Settings
        /\ request \in [route : {"submit", "read"}, provided : {"full", "read", "other"},
                        order : PlainOrder]
  /\ assert_startup_declaration(node)

GateNext == submit_order \/ account_read
GateSpec == GateInit /\ [][GateNext]_gateVars

-----------------------------------------------------------------------------
(* Properties. *)

OnWire == IF answer = NULL THEN FALSE ELSE answer.wire # NULL

(* An accepted order is carried out as it was ordered (contracts/, the        *)
(* mappings of both adapters, sim_pricing.py).                                *)
PlacedAsOrdered ==
  LET o == request.order
      sim_fill == IF answer = NULL THEN NULL ELSE answer.fill
      basis == Given(o.price, o.stop_price)
  IN \* "LiberatorAdapter maps exactly these cells": a well-formed order has a
     \* payload iff the matrix lists its type, but for the SET wire's own
     \* demand for a price of two decimal places.
     /\ _cross_field_rules(o) /\ o.broker = "liberator" =>
          (lib_to_place_payload(o) # NULL) =
            /\ o.order_type \in order_types[<<"liberator", o.market>>]
            /\ o.market = "SET" => IF basis = NULL THEN FALSE ELSE basis % 10 = 0
     \* What goes to a venue says what the order says, and an iceberg shows
     \* some of its volume and no more.
     /\ OnWire =>
          LET w == answer.wire
          IN /\ from_venue_side(w.side) = o.side
             /\ w.front = o.market /\ w.position = o.position_effect /\ w.volume = o.quantity
             /\ o.price # NULL => w.price = o.price
             /\ o.order_type \in _STOP_TYPES => w.stop = o.stop_price
             /\ (w.iceberg > 0) = (o.order_type = "ICEBERG")
             /\ w.iceberg <= w.volume
     \* The open-orders read shows a Liberator order as it was sent, a
     \* stop-limit as a stop; only a row without a price may be skipped.
     /\ OnWire /\ answer.adapter = "liberator" =>
          LET w == answer.wire
              back == venue_item_to_normalized(venue_row(w), o.account)
          IN /\ w.price > 0 => back # NULL
             /\ back # NULL =>
                  back = [o EXCEPT !.price = w.price,
                            !.order_type = IF @ = "STOP_LIMIT" THEN "STOP" ELSE @,
                            !.stop_price = IF o.order_type \in _STOP_TYPES THEN @ ELSE NULL]
     \* A simulated fill never crosses the limit, whichever source priced it;
     \* a STOP order fills at its trigger when no source has a price.
     /\ sim_fill # NULL /\ o.price # NULL /\ o.order_type # "STOP" =>
          IF o.side = "BUY" THEN sim_fill <= o.price ELSE sim_fill >= o.price

(* An order reaches a venue only from an owner-mode node at micro_live that   *)
(* holds the broker's credential and is declared the real router for the      *)
(* account, and only with the full API key.                                   *)
RealOrderIsAuthorized ==
  OnWire =>
    /\ node.stage = "micro_live" /\ ~node.public_mode
    /\ request.order.broker \in node.keys
    /\ request.order.account \in node.real_routing_accounts
    /\ node.api_key # NULL /\ request.provided = "full"

(* Whatever price a payload carries, the limit or a stop price in its place,  *)
(* its volume and value are within the caps of its account (core/risk.py).    *)
WireWithinCaps ==
  OnWire =>
    LET a == request.order.account IN
    /\ answer.wire.volume <= CapOf(AccountMaxQty, a, MaxOrderQty)
    /\ answer.wire.price * answer.wire.volume <= CapOf(AccountMaxNotional, a, MaxOrderValue)

=============================================================================
