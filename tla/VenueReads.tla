------------------------------ MODULE VenueReads ------------------------------
(***************************************************************************)
(* The account reads of the two real adapters: GET /accounts/{account},    *)
(* .../positions, .../open-orders and .../venue-orders.  A venue holds one *)
(* account, the engine asks about it, and every HTTP request of the read   *)
(* is a step at which the venue may fail or answer in a shape the adapter  *)
(* does not know.  Liberator tells SET from TFEX by the account number;    *)
(* Streaming Pro has one front per market and asks them in turn.           *)
(***************************************************************************)
EXTENDS Integers, FiniteSets, Vocabulary

CONSTANTS Symbol,       \* instruments an account may hold
          Volume,       \* volumes of a holding row and of an order
          Money,        \* amounts a venue may report
          OrderNo,      \* venue order numbers
          VenueFaults   \* answers no adapter tells from an honest one, see Bodies

ASSUME VenueReadsAssumption ==
  /\ Volume \subseteq Nat
  /\ VenueFaults \subseteq {"unrecognised", "bad_row", "unlisted", "garbled_orders"}

VARIABLES venue,   \* what is true of the account at the venue
          asked,   \* the read: its broker, its kind and the number it names
          front,   \* the request now waiting for its answer
          told     \* the answer of the read

readVars == <<venue, asked, front, told>>

What == {"positions", "account", "orders", "open"}
Raised == [raised |-> TRUE, found |-> {}]
Found(xs) == [raised |-> FALSE, found |-> xs]

(* One order at the venue: its life, its counters, and whether the venue words it. *)
VenueOrder ==
  {o \in [life : {"working", "cancelled", "rejected"}, volume : Volume, matched : Volume,
          worded : BOOLEAN] :
     /\ o.matched <= o.volume /\ o.volume > 0
     /\ o.life = "cancelled" => o.matched < o.volume
     /\ o.life = "rejected" => o.matched = 0 /\ o.worded}

(* Per symbol, the volume of its row; a sold-out symbol may keep a row of volume 0. *)
VenueAccount ==
  {a \in [market : Market \cup {NULL}, holding : [Symbol -> Volume \cup {NULL}], short : BOOLEAN,
          line : Money, margin : Money \cup {NULL}, orders : [OrderNo -> VenueOrder \cup {NULL}]] :
     a.market = "SET" => ~a.short /\ a.margin = NULL}

(* The parts of the account the read looks at; the others are left empty. *)
LooksAt(what, a) ==
  /\ what # "positions" => ~a.short /\ \A s \in Symbol : a.holding[s] = NULL
  /\ what # "account" => a.margin = NULL /\ \A x \in Money : a.line <= x
  /\ what \notin {"orders", "open"} => \A n \in OrderNo : a.orders[n] = NULL
-----------------------------------------------------------------------------
HoldingRows ==
  {[symbol |-> s, volume |-> venue.holding[s],
    side_show |-> IF venue.market = "SET" THEN "" ELSE IF venue.short THEN "Short" ELSE "Long"] :
     s \in {x \in Symbol : venue.holding[x] # NULL}}

Listed == {n \in OrderNo : venue.orders[n] # NULL}

OrderRow(n, o) ==
  [order_no |-> n, volume |-> o.volume, matched |-> o.matched,
   balance |-> IF o.life = "working" THEN o.volume - o.matched ELSE 0,
   cancelled |-> IF o.life = "cancelled" THEN o.volume - o.matched ELSE 0,
   position |-> IF venue.market = "TFEX" THEN "Open" ELSE NULL,
   word |-> IF o.worded THEN o.life ELSE "other"]

(* A body: the envelope may be missing, or present without its list. *)
Answer(rows) == [shape |-> "ok", rows |-> rows]
Refusal == [shape |-> "refused", rows |-> {}]
Outage == [shape |-> "outage", rows |-> {}]
NoEnvelope == [shape |-> "no_envelope", rows |-> {}]
NoList == [shape |-> "no_list", rows |-> {}]
Unshaped == {NoEnvelope, NoList}

FrontOf(request) == IF request \in {"sp_account", "sp_orders"} THEN "SET" ELSE "TFEX"

(* A money field of the account record; a cash account has no margin block. *)
BalanceRow ==
  [type |-> IF venue.market = "SET" THEN "CASH BALANCE" ELSE "DERIVATIVE",
   line |-> venue.line, margin |-> IF venue.market = "SET" THEN NULL ELSE venue.margin]

Unreadable(rows) == {[r EXCEPT !.volume = NULL] : r \in rows}

(* What the venue may answer on each request.  An outage and a body of     *)
(* another shape may meet every request; the answers of VenueFaults are    *)
(* the ones an adapter reads as if they were honest.                       *)
Bodies ==
  LET fault(name, bodies) == IF name \in VenueFaults THEN bodies ELSE {}
      held == IF asked.form = "account" THEN venue.market ELSE NULL
      orders == {OrderRow(n, venue.orders[n]) : n \in Listed}
  IN {Outage} \cup
     CASE front = "lib_portfolio" -> Unshaped \cup
            (IF asked.form = "login" THEN {Answer({})}
             ELSE IF held = NULL THEN {Refusal}
             ELSE {Answer(HoldingRows), Answer(Unreadable(HoldingRows))})
       [] front = "lib_profile" -> Unshaped \cup
            {Answer(IF held = NULL THEN {} ELSE {BalanceRow})}
       [] front = "lib_orders" ->
            {NoEnvelope, Answer(IF held = NULL THEN {} ELSE orders)}
            \cup fault("garbled_orders", {NoList})
       [] front = "sp_tfex_portfolio" ->
            {NoList, IF held = "TFEX" THEN Answer(HoldingRows) ELSE Refusal}
            \cup fault("unrecognised", {NoEnvelope})
       [] front = "sp_portfolio" -> Unshaped \cup
            (IF held = "SET" THEN {Answer(HoldingRows)}
                 \cup fault("bad_row", {Answer(Unreadable(HoldingRows))})
             ELSE IF held = "TFEX" THEN {Answer({})}
             ELSE {Refusal} \cup fault("unlisted", {Answer({})}))
       [] front \in {"sp_account", "sp_tfex_account"} -> Unshaped \cup
            {IF held = FrontOf(front) THEN Answer({BalanceRow}) ELSE Refusal}
       [] front \in {"sp_orders", "sp_tfex_orders"} ->
            {Answer(IF held = FrontOf(front) THEN orders ELSE {})}
            \cup fault("garbled_orders", Unshaped)
-----------------------------------------------------------------------------
(* liberator/adapter.py *)

(* The account number is eight digits whose suffix names the market; a bare *)
(* login, which the venue answers as a flat account, has none and is refused. *)
_position_market == IF asked.form = "login" THEN NULL ELSE Given(venue.market, "SET")

_POSITION_SIDES == [Long |-> "BUY", Short |-> "SELL"]

_position(m, row) ==
  [market |-> m, symbol |-> row.symbol, net_qty |-> row.volume,
   side |-> IF row.side_show = "" THEN NULL ELSE _POSITION_SIDES[row.side_show]]


(* The envelope is refused on the venue's own error text and on every shape *)
(* but the known one.                                                       *)
_venue_result(body) == body.shape = "ok"

lib_get_positions(body) ==
  IF _venue_result(body) /\ \A r \in body.rows : r.volume # NULL
  THEN Found({_position(_position_market, r) : r \in {x \in body.rows : x.volume # 0}})
  ELSE Raised

(* The margin block is forbidden on an account that is no derivative one. *)
AccountInfo(type, line, margin) ==
  [account_type |-> type, buying_power |-> line,
   equity |-> IF type = "DERIVATIVE" THEN margin ELSE NULL]

_account_info(row) ==
  AccountInfo(CASE row.type = "CASH BALANCE" -> "CASH"
                [] row.type = "DERIVATIVE" -> "DERIVATIVE"
                [] OTHER -> "UNKNOWN", row.line, row.margin)

lib_get_account(body) ==
  IF _venue_result(body) /\ body.rows # {} THEN Found({_account_info(r) : r \in body.rows})
  ELSE Raised

(* A result object with no list is an empty book; no result object raises. *)
parse_order_items(body) == IF body.shape = "no_list" THEN Answer({}) ELSE body
-----------------------------------------------------------------------------
(* mapping.py and base.py: a row of the venue's order list, as it is shown. *)

classify_venue_state(row) ==
  IF row.word \in {"cancelled", "rejected"} THEN row.word
  ELSE IF row.cancelled > 0 /\ row.balance = 0 /\ row.matched < row.volume THEN "cancelled"
  ELSE "resting"

display_state(row) ==
  LET classified == classify_venue_state(row)
  IN IF classified # "resting" THEN classified
     ELSE IF row.matched > 0 /\ row.balance <= 0 /\ row.matched >= row.volume THEN "filled"
     ELSE IF row.matched > 0 /\ row.balance > 0 THEN "partially_filled"
     ELSE IF row.balance > 0 THEN "resting"
     ELSE "unknown"

venue_order_to_view(row, m) ==
  [venue_order_id |-> row.order_no, market |-> m, state |-> display_state(row),
   matched_qty |-> row.matched, remaining_qty |-> row.balance]

get_open_orders(rows) ==
  {r.order_no : r \in {x \in rows : classify_venue_state(x) = "resting" /\ x.balance > 0}}

(* Liberator knows a TFEX row by its position field, Streaming Pro by the front. *)
Shown(rows, m) ==
  IF asked.what = "open" THEN get_open_orders(rows)
  ELSE {venue_order_to_view(r, Given(m, IF r.position # NULL THEN "TFEX" ELSE "SET")) : r \in rows}
-----------------------------------------------------------------------------
(* streaming_pro/adapter.py *)

(* An unreadable body and a refusal are both an empty book here. *)
parse_order_rows(body) == IF body.shape = "outage" THEN body ELSE Answer(body.rows)

(* The second answer of get_positions; a row without its numbers is skipped. *)
sp_set_positions(body) ==
  IF body.shape = "ok"
  THEN Found({[market |-> "SET", symbol |-> r.symbol, net_qty |-> r.volume, side |-> NULL] :
                r \in {x \in body.rows : x.volume \notin {NULL, 0}}})
  ELSE Raised

sp_account(type, body) ==
  IF body.shape = "ok" THEN Found({AccountInfo(type, r.line, r.margin) : r \in body.rows})
  ELSE Raised
-----------------------------------------------------------------------------
ReadInit ==
  /\ venue \in VenueAccount
  /\ asked \in [broker : _REAL_BROKERS, what : What, form : {"account", "login"}]
  /\ asked.broker = "streaming_pro" => asked.form = "account"
  /\ LooksAt(asked.what, venue)
  /\ front = NULL
  /\ told = NULL

FirstRequest ==
  IF asked.broker = "liberator"
  THEN CASE asked.what = "positions" -> "lib_portfolio"
         [] asked.what = "account" -> "lib_profile"
         [] OTHER -> "lib_orders"
  ELSE CASE asked.what = "positions" -> "sp_tfex_portfolio"
         [] asked.what = "account" -> "sp_account"
         [] OTHER -> "sp_orders"

(* The route resolves the adapter and the adapter sends its first request. *)
ask ==
  /\ front = NULL /\ told = NULL
  /\ IF asked.what = "positions" /\ asked.broker = "liberator" /\ _position_market = NULL
     THEN told' = Raised /\ UNCHANGED front
     ELSE front' = FirstRequest /\ UNCHANGED told
  /\ UNCHANGED <<venue, asked>>

Return(answer) == told' = answer /\ front' = NULL /\ UNCHANGED <<venue, asked>>
Then(request) == front' = request /\ UNCHANGED <<venue, asked, told>>

(* Streaming Pro asks the TFEX front first: only that front refuses an account *)
(* it does not hold.  Rows of a TFEX account are refused, never guessed.       *)
sp_tfex_portfolio(body) ==
  CASE body.shape \in {"refused", "no_envelope"} -> Then("sp_portfolio")
    [] body.shape = "ok" /\ body.rows = {} -> Return(Found({}))
    [] OTHER -> Return(Raised)

Answered(body) ==
  CASE front = "lib_portfolio" -> Return(lib_get_positions(body))
    [] front = "lib_profile" -> Return(lib_get_account(body))
    [] front = "lib_orders" ->
         LET book == parse_order_items(body)
         IN Return(IF book.shape = "ok" THEN Found(Shown(book.rows, NULL)) ELSE Raised)
    [] front = "sp_tfex_portfolio" -> sp_tfex_portfolio(body)
    [] front = "sp_portfolio" -> Return(sp_set_positions(body))
    [] front = "sp_account" ->
         IF body.shape = "ok" THEN Return(sp_account("CASH", body))
         ELSE IF body.shape = "outage" THEN Return(Raised) ELSE Then("sp_tfex_account")
    [] front = "sp_tfex_account" -> Return(sp_account("DERIVATIVE", body))
    [] front = "sp_orders" ->
         IF body.shape = "outage" THEN Return(Raised)
         ELSE /\ told' = Found(Shown(parse_order_rows(body).rows, "SET"))
              /\ front' = "sp_tfex_orders"
              /\ UNCHANGED <<venue, asked>>
    [] front = "sp_tfex_orders" ->
         Return(IF body.shape = "outage" THEN Raised
                ELSE Found(told.found \cup Shown(parse_order_rows(body).rows, "TFEX")))

respond == front # NULL /\ \E body \in Bodies : Answered(body)

ReadNext == ask \/ respond
ReadSpec == ReadInit /\ [][ReadNext]_readVars
-----------------------------------------------------------------------------
Done == front = NULL /\ told # NULL
Answers(what) == Done /\ asked.what \in what /\ ~told.raised

(* The holdings of the account, as a set of positions. *)
Holdings ==
  {[market |-> venue.market, symbol |-> r.symbol, net_qty |-> r.volume,
    side |-> IF r.side_show = "" THEN NULL ELSE IF venue.short THEN "SELL" ELSE "BUY"] :
     r \in {x \in HoldingRows : x.volume > 0}}

(* What an order at the venue is to a person who knows its whole life. *)
TrueState(o) ==
  CASE o.life # "working" -> o.life
    [] o.matched = o.volume -> "filled"
    [] o.matched > 0 -> "partially_filled"
    [] OTHER -> "resting"

=============================================================================
