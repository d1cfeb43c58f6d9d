---------------------------- MODULE OrderStoreProofs ----------------------------
(***************************************************************************)
(* Proofs about the order store, for every set of orders, workers, ids and *)
(* quantities, and for callers that may issue any call at any time.        *)
(***************************************************************************)
EXTENDS OrderStore, TLAPS

Event == (OrderState \cup {NULL}) \X OrderState

(* A worker that returns a result, or goes on to publish, keeps a          *)
(* well-typed call.                                                        *)
LEMMA ContinueType ==
  ASSUME call \in [Worker -> Call], NEW w \in Worker
  PROVE  /\ \A next \in Call : Continue(w, next) => call' \in [Worker -> Call]
         /\ \A result \in Result : Return(w, result) => call' \in [Worker -> Call]
         /\ \A c \in Cid, s \in OrderState :
              ThenPublish(w, c, s) => call' \in [Worker -> Call]
<1>1. ASSUME NEW next \in Call, Continue(w, next)
      PROVE  call' \in [Worker -> Call]
  BY <1>1 DEF Continue
<1>2. \A result \in Result : [op |-> result] \in Call
  BY DEF Call
<1>3. \A c \in Cid, s \in OrderState :
        [op |-> "publish", cid |-> c, state |-> s] \in Call
  BY DEF Call
<1> QED
  BY <1>1, <1>2, <1>3 DEF Return, ThenPublish

(* The command a worker is about to execute has the arguments of its kind. *)
LEMMA CallArguments ==
  ASSUME call \in [Worker -> Call], NEW w \in Worker
  PROVE  /\ call[w].op = "insert_order" => call[w].cid \in Cid /\ call[w].quantity \in Quantity
         /\ call[w].op = "ack_order" =>
              call[w].cid \in Cid /\ call[w].broker_order_id \in BrokerOrderId
         /\ call[w].op = "replace_order" =>
              call[w].cid \in Cid /\ call[w].quantity \in Quantity \cup {NULL}
         /\ call[w].op \in {"update_status", "update_write"} =>
              call[w].cid \in Cid /\ call[w].new \in OrderState
         /\ call[w].op = "update_status" =>
              call[w] \in [op : {"update_status"}, cid : Cid, new : OrderState]
         /\ call[w].op = "set_reject_reason" => call[w].cid \in Cid
         /\ call[w].op = "apply_fill" =>
              call[w].cid \in Cid /\ call[w].fill \in Fill /\ call[w].total \in Quantity
         /\ call[w].op = "fill_status" => call[w] \in FillStatus
         /\ call[w].op = "fill_commit" => call[w] \in FillCommit
         /\ call[w].op = "publish" => call[w].cid \in Cid /\ call[w].state \in OrderState
<1> call[w] \in Call
  OBVIOUS
<1> QED
  BY DEF Call, Command, Result, FillCall, FillStatus, FillCommit

(* An UPDATE of an existing row keeps both tables well typed. *)
LEMMA UpdateRowType ==
  ASSUME orders \in [Cid -> Row \cup {NULL}], order_events \in [Cid -> Seq(Event)],
         NEW c \in Cid, orders[c] # NULL, NEW row \in Row, UpdateRow(c, row)
  PROVE  /\ orders' \in [Cid -> Row \cup {NULL}]
         /\ order_events' \in [Cid -> Seq(Event)]
<1>1. <<orders[c].status, row.status>> \in Event
  BY DEF Row, Event
<1>2. Append(order_events[c], <<orders[c].status, row.status>>) \in Seq(Event)
  BY <1>1
<1> QED
  BY <1>2 DEF UpdateRow

(* The fields an UPDATE may set leave a row a row. *)
LEMMA RowFields ==
  ASSUME NEW row \in Row
  PROVE  /\ \A s \in OrderState : [row EXCEPT !.status = s] \in Row
         /\ \A b \in BrokerOrderId :
              [row EXCEPT !.status = "NEW", !.broker_order_id = b] \in Row
         /\ \A q \in Quantity : [row EXCEPT !.status = "NEW", !.quantity = q] \in Row
         /\ [row EXCEPT !.reject_reason = TRUE] \in Row
BY Zenon DEF Row, OrderState

(* StoreTypeOK is inductive: each statement leaves every table, and every  *)
(* worker's call, of its type.                                             *)
LEMMA StoreTypeStep == StoreTypeOK /\ [StoreNext]_storeVars => StoreTypeOK'
<1> SUFFICES ASSUME StoreTypeOK, [StoreNext]_storeVars
             PROVE  StoreTypeOK'
  OBVIOUS
<1> USE DEF StoreTypeOK
<1>1. ASSUME NEW w \in Worker, NEW command \in Command, Invoke(w, command)
      PROVE  StoreTypeOK'
  BY <1>1 DEF Invoke, Call
<1>2. ASSUME NEW w \in Worker, insert_order(w)
      PROVE  StoreTypeOK'
  <2> DEFINE c == call[w].cid
             row == [status |-> "PENDING_NEW", broker_order_id |-> NULL,
                     quantity |-> call[w].quantity, reject_reason |-> FALSE]
  <2>1. c \in Cid /\ row \in Row
    BY <1>2, CallArguments DEF insert_order, Row, OrderState
  <2>2. Append(order_events[c], <<NULL, "PENDING_NEW">>) \in Seq(Event)
    BY <2>1 DEF Event, OrderState
  <2>3. "duplicate" \in Result /\ "raised" \in Result /\ "PENDING_NEW" \in OrderState
    BY DEF Result, OrderState
  <2>4. call' \in [Worker -> Call]
    BY <1>2, <2>1, <2>3, ContinueType DEF insert_order
  <2>5. orders' \in [Cid -> Row \cup {NULL}] /\ order_events' \in [Cid -> Seq(Event)]
    BY <1>2, <2>1, <2>2, Zenon DEF insert_order, Event
  <2> QED
    BY <1>2, <2>4, <2>5 DEF insert_order, Event
<1>3. ASSUME NEW w \in Worker, ack_order(w)
      PROVE  StoreTypeOK'
  <2> DEFINE c == call[w].cid
  <2>1. c \in Cid /\ call[w].broker_order_id \in BrokerOrderId
    BY <1>3, CallArguments DEF ack_order
  <2>2. "NEW" \in OrderState /\ "raised" \in Result
    BY DEF OrderState, Result
  <2>3. CASE StatusOf(c) = "PENDING_NEW"
    <3>1. orders[c] # NULL /\ orders[c] \in Row
      BY <2>1, <2>3, NullAssumption DEF StatusOf, OrderState
    <3>2. QED
      BY <1>3, <2>1, <2>2, <2>3, <3>1, RowFields, UpdateRowType, ContinueType, Zenon
      DEF ack_order, Event
  <2>4. CASE StatusOf(c) # "PENDING_NEW"
    BY <1>3, <2>2, <2>4, ContinueType DEF ack_order
  <2> QED
    BY <2>3, <2>4
<1>4. ASSUME NEW w \in Worker, replace_order(w)
      PROVE  StoreTypeOK'
  <2> DEFINE c == call[w].cid
             q == IF call[w].quantity = NULL THEN orders[c].quantity ELSE call[w].quantity
  <2>1. c \in Cid /\ call[w].quantity \in Quantity \cup {NULL}
    BY <1>4, CallArguments DEF replace_order
  <2>2. "NEW" \in OrderState /\ "raised" \in Result
    BY DEF OrderState, Result
  <2>3. CASE StatusOf(c) = "PENDING_REPLACE"
    <3>1. orders[c] # NULL /\ orders[c] \in Row
      BY <2>1, <2>3, NullAssumption DEF StatusOf, OrderState
    <3>2. q \in Quantity
      BY <2>1, <3>1 DEF Row
    <3>3. UpdateRow(c, [orders[c] EXCEPT !.status = "NEW", !.quantity = q])
      BY <1>4, <2>3, <3>1 DEF replace_order, Row
    <3>4. QED
      BY <1>4, <2>1, <2>2, <2>3, <3>1, <3>2, <3>3, RowFields, UpdateRowType, ContinueType, Zenon
      DEF replace_order, Event
  <2>4. CASE StatusOf(c) # "PENDING_REPLACE"
    BY <1>4, <2>2, <2>4, ContinueType DEF replace_order
  <2> QED
    BY <2>3, <2>4
<1>5. ASSUME NEW w \in Worker, update_status(w)
      PROVE  StoreTypeOK'
  <2>1. "ok" \in Result /\ "raised" \in Result
    BY DEF Result
  <2>2. [call[w] EXCEPT !.op = "update_write"] \in Call
    BY <1>5, CallArguments, Zenon DEF update_status, Call
  <2> QED
    BY <1>5, <2>1, <2>2, ContinueType DEF update_status
<1>6. ASSUME NEW w \in Worker, update_write(w)
      PROVE  StoreTypeOK'
  <2> DEFINE c == call[w].cid
  <2>1. c \in Cid /\ call[w].new \in OrderState
    BY <1>6, CallArguments DEF update_write
  <2>2. "raised" \in Result
    BY DEF Result
  <2>3. CASE orders_guard(c, call[w].new)
    BY <1>6, <2>1, <2>3, RowFields, UpdateRowType, ContinueType, Zenon
    DEF update_write, orders_guard, Event
  <2>4. CASE ~orders_guard(c, call[w].new)
    BY <1>6, <2>2, <2>4, ContinueType DEF update_write
  <2> QED
    BY <2>3, <2>4
<1>7. ASSUME NEW w \in Worker, set_reject_reason(w)
      PROVE  StoreTypeOK'
  <2> DEFINE c == call[w].cid
  <2>1. c \in Cid /\ "ok" \in Result
    BY <1>7, CallArguments DEF set_reject_reason, Result
  <2>2. CASE orders[c] = NULL
    BY <1>7, <2>1, <2>2, ContinueType DEF set_reject_reason
  <2>3. CASE orders[c] # NULL
    BY <1>7, <2>1, <2>3, RowFields, UpdateRowType, ContinueType, Zenon DEF set_reject_reason, Event
  <2> QED
    BY <2>2, <2>3
<1>8. ASSUME NEW w \in Worker, apply_fill(w)
      PROVE  StoreTypeOK'
  <2>1. call[w].cid \in Cid /\ call[w].fill \in Fill /\ "raised" \in Result
    BY <1>8, CallArguments DEF apply_fill, Result
  <2>2. \A b \in BOOLEAN, s \in {"FILLED", "PARTIALLY_FILLED"} :
          [op |-> "fill_status", cid |-> call[w].cid, fill |-> call[w].fill,
           fresh |-> b, target |-> s] \in Call
    BY <2>1 DEF Call, FillStatus
  <2>3. PICK b \in BOOLEAN, s \in {"FILLED", "PARTIALLY_FILLED"} :
          \/ Return(w, "raised")
          \/ Continue(w, [op |-> "fill_status", cid |-> call[w].cid,
                          fill |-> call[w].fill, fresh |-> b, target |-> s])
    BY <1>8, Zenon DEF apply_fill
  <2>4. call' \in [Worker -> Call]
    BY <2>1, <2>2, <2>3, ContinueType, Zenon
  <2> QED
    BY <1>8, <2>4 DEF apply_fill
<1>9. ASSUME NEW w \in Worker, fill_status(w)
      PROVE  StoreTypeOK'
  <2>1. call[w] \in FillStatus
    BY <1>9, CallArguments DEF fill_status
  <2>2. [op |-> "fill_commit", cid |-> call[w].cid, fill |-> call[w].fill,
         fresh |-> call[w].fresh, target |-> call[w].target,
         write |-> orders[call[w].cid].status # call[w].target] \in Call
    BY <2>1 DEF FillStatus, FillCommit, Call
  <2> QED
    BY <1>9, <2>2, ContinueType DEF fill_status
<1>10. ASSUME NEW w \in Worker, fill_commit(w)
      PROVE  StoreTypeOK'
  <2> DEFINE c == call[w].cid
  <2>1. /\ c \in Cid /\ call[w].fill \in Fill /\ call[w].target \in OrderState
        /\ "ok" \in Result /\ "raised" \in Result
    BY <1>10, CallArguments DEF fill_commit, FillCommit, OrderState, Result
  <2>2. CASE call[w].write /\ ~orders_guard(c, call[w].target)
    BY <1>10, <2>1, <2>2, ContinueType DEF fill_commit, tables
  <2>3. CASE ~(call[w].write /\ ~orders_guard(c, call[w].target))
    <3>1. call' \in [Worker -> Call]
      BY <1>10, <2>1, <2>3, ContinueType DEF fill_commit
    <3>2. fills' \in [Cid -> SUBSET Fill]
      <4>1. fills[c] \cup {call[w].fill} \in SUBSET Fill
        BY <2>1
      <4>2. fills' = fills \/ fills' = [fills EXCEPT ![c] = fills[c] \cup {call[w].fill}]
        BY <1>10, <2>3 DEF fill_commit
      <4> QED
        BY <2>1, <4>1, <4>2, Zenon
    <3>3. orders' \in [Cid -> Row \cup {NULL}] /\ order_events' \in [Cid -> Seq(Event)]
      <4>1. CASE call[w].write
        BY <1>10, <2>1, <2>3, <4>1, RowFields, UpdateRowType, Zenon
        DEF fill_commit, orders_guard, Event
      <4>2. CASE ~call[w].write
        BY <1>10, <2>3, <4>2 DEF fill_commit, Event
      <4> QED
        BY <4>1, <4>2
    <3> QED
      BY <1>10, <3>1, <3>2, <3>3 DEF fill_commit, Event
  <2> QED
    BY <2>2, <2>3
<1>11. ASSUME NEW w \in Worker, publish(w)
      PROVE  StoreTypeOK'
  <2>1. call[w].cid \in Cid /\ call[w].state \in OrderState /\ "ok" \in Result
    BY <1>11, CallArguments DEF publish, Result
  <2>2. Append(published[call[w].cid], call[w].state) \in Seq(OrderState)
    BY <2>1
  <2> QED
    BY <1>11, <2>1, <2>2, ContinueType DEF publish, tables
<1>12. CASE StoreCrash
  BY <1>12 DEF StoreCrash, Call, Result
<1>13. CASE UNCHANGED storeVars
  BY <1>13 DEF storeVars
<1> QED
  BY <1>1, <1>2, <1>3, <1>4, <1>5, <1>6, <1>7, <1>8, <1>9, <1>10, <1>11, <1>12, <1>13
  DEF StoreNext, StoreStep

(* The type invariant of the store (every table and every call in flight   *)
(* of its declared type) holds for every instance.                         *)
THEOREM StoreTypeCorrect == StoreSpec => []StoreTypeOK
<1>1. StoreInit => StoreTypeOK
  BY DEF StoreInit, StoreTypeOK, Call, Result
<1> QED
  BY <1>1, StoreTypeStep, PTL DEF StoreSpec

-----------------------------------------------------------------------------
(* The three things a step may do to execution.orders: leave it, insert a  *)
(* row at the entry state, or update a row along a legal edge.             *)

Untouched == UNCHANGED <<orders, order_events>>

Inserted(c) ==
  /\ orders[c] = NULL
  /\ \E row \in Row : row.status = "PENDING_NEW" /\ orders' = [orders EXCEPT ![c] = row]
  /\ order_events' = [order_events EXCEPT ![c] = Append(@, <<NULL, "PENDING_NEW">>)]

Updated(c) ==
  /\ orders[c] # NULL
  /\ \E row \in Row : is_legal(orders[c].status, row.status) /\ UpdateRow(c, row)

(* Every write of every caller is one of the three, although update_status *)
(* decides on a row it read before and apply_fill spans three statements:  *)
(* the guard of the UPDATE sees the row as it is.                          *)
LEMMA TableStep ==
  ASSUME StoreTypeOK, [StoreNext]_storeVars
  PROVE  Untouched \/ \E c \in Cid : Inserted(c) \/ Updated(c)
<1> USE DEF StoreTypeOK
<1>1. ASSUME NEW w \in Worker, insert_order(w)
      PROVE  Untouched \/ \E d \in Cid : Inserted(d)
  <2>1. call[w].cid \in Cid /\ call[w].quantity \in Quantity
    BY <1>1, CallArguments DEF insert_order
  <2>2. [status |-> "PENDING_NEW", broker_order_id |-> NULL,
         quantity |-> call[w].quantity, reject_reason |-> FALSE] \in Row
    BY <2>1 DEF Row, OrderState
  <2> QED
    BY <1>1, <2>1, <2>2, Zenon DEF insert_order, Untouched, Inserted
<1>2. ASSUME NEW w \in Worker, ack_order(w)
      PROVE  Untouched \/ \E d \in Cid : Updated(d)
  <2> DEFINE c == call[w].cid
             row == [orders[c] EXCEPT !.status = "NEW",
                                      !.broker_order_id = call[w].broker_order_id]
  <2>1. c \in Cid /\ call[w].broker_order_id \in BrokerOrderId
    BY <1>2, CallArguments DEF ack_order
  <2>2. CASE StatusOf(c) = "PENDING_NEW"
    <3>1. orders[c] # NULL /\ orders[c] \in Row /\ orders[c].status = "PENDING_NEW"
      BY <2>1, <2>2, NullAssumption DEF StatusOf, OrderState
    <3>2. row \in Row /\ row.status = "NEW"
      BY <2>1, <3>1, Zenon DEF Row, OrderState
    <3>3. UpdateRow(c, row)
      BY <1>2, <2>2 DEF ack_order
    <3>4. is_legal("PENDING_NEW", "NEW")
      BY DEF is_legal, LEGAL_EDGES
    <3> HIDE DEF c, row
    <3>5. Updated(c)
      BY <3>1, <3>2, <3>3, <3>4 DEF Updated
    <3> QED
      BY <2>1, <3>5
  <2>3. CASE StatusOf(c) # "PENDING_NEW"
    BY <1>2, <2>3 DEF ack_order, Untouched
  <2> QED
    BY <2>2, <2>3
<1>3. ASSUME NEW w \in Worker, replace_order(w)
      PROVE  Untouched \/ \E d \in Cid : Updated(d)
  <2> DEFINE c == call[w].cid
             q == IF call[w].quantity = NULL THEN orders[c].quantity ELSE call[w].quantity
             row == [orders[c] EXCEPT !.status = "NEW", !.quantity = q]
  <2>1. c \in Cid /\ call[w].quantity \in Quantity \cup {NULL}
    BY <1>3, CallArguments DEF replace_order
  <2>2. CASE StatusOf(c) = "PENDING_REPLACE"
    <3>1. orders[c] # NULL /\ orders[c] \in Row /\ orders[c].status = "PENDING_REPLACE"
      BY <2>1, <2>2, NullAssumption DEF StatusOf, OrderState
    <3>2. row \in Row /\ row.status = "NEW"
      BY <2>1, <3>1, Zenon DEF Row, OrderState
    <3>3. UpdateRow(c, row)
      BY <1>3, <2>2, <3>1 DEF replace_order, Row
    <3>4. is_legal("PENDING_REPLACE", "NEW")
      BY DEF is_legal, LEGAL_EDGES
    <3> HIDE DEF c, row
    <3>5. Updated(c)
      BY <3>1, <3>2, <3>3, <3>4 DEF Updated
    <3> QED
      BY <2>1, <3>5
  <2>3. CASE StatusOf(c) # "PENDING_REPLACE"
    BY <1>3, <2>3 DEF replace_order, Untouched
  <2> QED
    BY <2>2, <2>3
<1>4. ASSUME NEW c \in Cid, NEW s \in OrderState, orders_guard(c, s),
             UpdateRow(c, [orders[c] EXCEPT !.status = s])
      PROVE  Updated(c)
  <2>1. orders[c] # NULL /\ orders[c] \in Row /\ is_legal(orders[c].status, s)
    BY <1>4 DEF orders_guard, StatusOf
  <2>2. [orders[c] EXCEPT !.status = s] \in Row /\ [orders[c] EXCEPT !.status = s].status = s
    BY <2>1, Zenon DEF Row
  <2> QED
    BY <1>4, <2>1, <2>2, Zenon DEF Updated
<1>5. ASSUME NEW w \in Worker, update_write(w)
      PROVE  Untouched \/ \E d \in Cid : Updated(d)
  BY <1>4, <1>5, CallArguments DEF update_write, Untouched
<1>6. ASSUME NEW w \in Worker, fill_commit(w)
      PROVE  Untouched \/ \E d \in Cid : Updated(d)
  <2>1. call[w].cid \in Cid /\ call[w].target \in OrderState
    BY <1>6, CallArguments DEF fill_commit, FillCommit, OrderState
  <2> QED
    BY <1>4, <1>6, <2>1 DEF fill_commit, Untouched, tables
<1>7. ASSUME NEW w \in Worker, set_reject_reason(w)
      PROVE  Untouched \/ \E d \in Cid : Updated(d)
  <2> DEFINE c == call[w].cid
             row == [orders[c] EXCEPT !.reject_reason = TRUE]
  <2>1. c \in Cid
    BY <1>7, CallArguments DEF set_reject_reason
  <2>2. CASE orders[c] # NULL
    <3>1. row \in Row /\ row.status = orders[c].status
      BY <2>1, <2>2, Zenon DEF Row
    <3> QED
      BY <1>7, <2>1, <2>2, <3>1, Zenon DEF set_reject_reason, Updated, is_legal
  <2>3. CASE orders[c] = NULL
    BY <1>7, <2>3 DEF set_reject_reason, Untouched
  <2> QED
    BY <2>2, <2>3
<1>8. ASSUME NEW w \in Worker,
             \/ update_status(w) \/ apply_fill(w) \/ fill_status(w) \/ publish(w)
             \/ \E command \in Command : Invoke(w, command)
      PROVE  Untouched
  BY <1>8 DEF update_status, apply_fill, fill_status, publish, Invoke, Untouched, tables
<1>9. StoreCrash \/ UNCHANGED storeVars => Untouched
  BY DEF StoreCrash, storeVars, Untouched
<1> QED
  BY <1>1, <1>2, <1>3, <1>5, <1>6, <1>7, <1>8, <1>9 DEF StoreNext, StoreStep

-----------------------------------------------------------------------------
LEMMA AuditStep ==
  ASSUME StoreTypeOK, AuditTrail, [StoreNext]_storeVars
  PROVE  AuditTrail'
<1> DEFINE Trail(row, trail) ==
      IF row = NULL
      THEN trail = <<>>
      ELSE /\ Len(trail) > 0
           /\ trail[1] = <<NULL, "PENDING_NEW">>
           /\ trail[Len(trail)][2] = row.status
           /\ \A i \in 2 .. Len(trail) :
                trail[i] \in LEGAL_EDGES /\ trail[i][1] = trail[i - 1][2]
<1>1. \A c \in Cid : Trail(orders[c], order_events[c])
  BY DEF AuditTrail
<1>2. orders \in [Cid -> Row \cup {NULL}] /\ order_events \in [Cid -> Seq(Event)]
  BY DEF StoreTypeOK, Event
<1>3. CASE Untouched
  BY <1>3 DEF Untouched, AuditTrail
<1>4. ASSUME NEW d \in Cid, NEW row \in Row, NEW e \in Event,
             orders' = [orders EXCEPT ![d] = row],
             order_events' = [order_events EXCEPT ![d] = Append(@, e)],
             e[2] = row.status,
             \/ orders[d] = NULL /\ e = <<NULL, "PENDING_NEW">>
             \/ orders[d] # NULL /\ e[1] = orders[d].status /\ e \in LEGAL_EDGES
      PROVE  AuditTrail'
  <2>1. SUFFICES ASSUME NEW c \in Cid
                 PROVE  Trail(orders'[c], order_events'[c])
    BY DEF AuditTrail
  <2>2. CASE c # d
    BY <1>1, <1>2, <1>4, <2>2
  <2>3. CASE c = d
    <3> DEFINE old == order_events[d]
               new == Append(old, e)
    <3>1. old \in Seq(Event) /\ new \in Seq(Event) /\ Len(new) = Len(old) + 1
      BY <1>2
    <3>2. orders'[c] = row /\ order_events'[c] = new /\ row # NULL
      BY <1>2, <1>4, <2>3, NullAssumption
    <3>3. /\ new[Len(new)] = e
          /\ \A i \in 1 .. Len(old) : new[i] = old[i]
      BY <3>1
    <3>4. CASE orders[d] = NULL
      <4>1. Len(old) = 0
        BY <1>1, <3>4
      <4>2. e = <<NULL, "PENDING_NEW">>
        BY <1>4, <3>4
      <4> HIDE DEF old, new
      <4>3. Len(new) = 1
        BY <3>1, <4>1
      <4>4. \A i \in 2 .. Len(new) : FALSE
        BY <4>3
      <4>5. new[Len(new)][2] = row.status /\ new[1] = e /\ Len(new) > 0
        BY <1>4, <3>3, <4>3
      <4>6. Trail(row, new)
        BY <3>2, <4>2, <4>4, <4>5
      <4> QED
        BY <3>2, <4>6
    <3>5. CASE orders[d] # NULL
      <4>1. /\ Len(old) > 0 /\ old[1] = <<NULL, "PENDING_NEW">>
            /\ old[Len(old)][2] = orders[d].status
            /\ \A i \in 2 .. Len(old) :
                 old[i] \in LEGAL_EDGES /\ old[i][1] = old[i - 1][2]
        BY <1>1, <3>5
      <4>2. Len(old) \in Nat
        BY <3>1
      <4>3. e[1] = orders[d].status /\ e \in LEGAL_EDGES
        BY <1>4, <3>5
      <4> HIDE DEF old, new
      <4>4. ASSUME NEW i \in 2 .. Len(new)
            PROVE  new[i] \in LEGAL_EDGES /\ new[i][1] = new[i - 1][2]
        <5>1. CASE i = Len(new)
          <6>1. new[i] = e /\ new[i - 1] = old[Len(old)]
            BY <3>1, <3>3, <4>1, <4>2, <5>1
          <6> QED
            BY <4>1, <4>3, <6>1
        <5>2. CASE i # Len(new)
          <6>1. i \in 2 .. Len(old) /\ i \in 1 .. Len(old) /\ i - 1 \in 1 .. Len(old)
            BY <3>1, <4>2, <5>2
          <6> QED
            BY <3>3, <4>1, <6>1
        <5> QED
          BY <5>1, <5>2
      <4>5. new[1] = old[1]
        BY <3>3, <4>1, <4>2
      <4>6. new[Len(new)][2] = row.status /\ Len(new) > 0
        BY <1>4, <3>1, <3>3, <4>2
      <4>7. Trail(row, new)
        BY <3>2, <4>1, <4>4, <4>5, <4>6
      <4> QED
        BY <3>2, <4>7
    <3> QED
      BY <3>4, <3>5
  <2> QED
    BY <2>2, <2>3
<1>5. ASSUME NEW d \in Cid, Inserted(d)
      PROVE  AuditTrail'
  <2>1. <<NULL, "PENDING_NEW">> \in Event /\ <<NULL, "PENDING_NEW">>[2] = "PENDING_NEW"
    BY DEF Event, OrderState
  <2> QED
    BY <1>4, <1>5, <2>1, Zenon DEF Inserted
<1>6. ASSUME NEW d \in Cid, Updated(d)
      PROVE  AuditTrail'
  <2>1. PICK row \in Row : is_legal(orders[d].status, row.status) /\ UpdateRow(d, row)
    BY <1>6 DEF Updated
  <2>2. orders[d] \in Row /\ orders[d] # NULL /\ row # NULL
    BY <1>2, <1>6, NullAssumption DEF Updated
  <2>3. CASE row.status = orders[d].status
    <3>1. orders' = [orders EXCEPT ![d] = row] /\ order_events' = order_events
      BY <2>1, <2>3 DEF UpdateRow
    <3> QED
      BY <1>1, <1>2, <2>2, <2>3, <3>1 DEF AuditTrail
  <2>4. CASE row.status # orders[d].status
    <3> DEFINE e == <<orders[d].status, row.status>>
    <3>1. e \in Event /\ e \in LEGAL_EDGES
      BY <2>1, <2>2, <2>4 DEF Event, Row, is_legal
    <3>2. /\ orders' = [orders EXCEPT ![d] = row]
          /\ order_events' = [order_events EXCEPT ![d] = Append(@, e)]
      BY <2>1, <2>4 DEF UpdateRow
    <3>3. e[1] = orders[d].status /\ e[2] = row.status
      OBVIOUS
    <3> HIDE DEF e
    <3> QED
      BY <1>4, <2>2, <3>1, <3>2, <3>3, Zenon
  <2> QED
    BY <2>3, <2>4
<1> QED
  BY <1>3, <1>5, <1>6, TableStep

(* Whatever the callers of the repository ask for and however their        *)
(* statements interleave, the audit trail stays a legal path that ends at  *)
(* the row's status.                                                       *)
THEOREM StoreAuditTrail == StoreSpec => []AuditTrail
<1>1. StoreInit => AuditTrail
  BY DEF StoreInit, AuditTrail
<1>2. StoreTypeOK /\ AuditTrail /\ [StoreNext]_storeVars => AuditTrail'
  BY AuditStep
<1> QED
  BY <1>1, <1>2, StoreTypeCorrect, PTL DEF StoreSpec

-----------------------------------------------------------------------------
(* Fills.  An open apply_fill transaction works on a row that exists, and  *)
(* one that decided not to write the status decided so on a row the venue  *)
(* had acknowledged, which is then so for good.                            *)

Acked(c) == StatusOf(c) \notin {NULL, "PENDING_NEW", "REJECTED"}

Filling(w) == call[w].op \in {"fill_status", "fill_commit"}

FillInv ==
  /\ NoFillBeforeAck
  /\ \A w \in Worker : Filling(w) => orders[call[w].cid] # NULL
  /\ \A w \in Worker : call[w].op = "fill_commit" /\ ~call[w].write => Acked(call[w].cid)

LEMMA AckedIsStable ==
  ASSUME StoreTypeOK, [StoreNext]_storeVars, NEW c \in Cid
  PROVE  /\ Acked(c) => Acked(c)'
         /\ orders[c] # NULL => orders'[c] # NULL
<1>1. orders \in [Cid -> Row \cup {NULL}]
  BY DEF StoreTypeOK
<1>2. CASE Untouched
  BY <1>2 DEF Untouched, Acked, StatusOf
<1>3. ASSUME NEW d \in Cid, Inserted(d) \/ Updated(d), c # d
      PROVE  orders'[c] = orders[c]
  BY <1>1, <1>3 DEF Inserted, Updated, UpdateRow
<1>4. ASSUME Inserted(c)
      PROVE  ~Acked(c) /\ orders[c] = NULL
  BY <1>4 DEF Inserted, Acked, StatusOf
<1>5. ASSUME Updated(c)
      PROVE  (Acked(c) => Acked(c)') /\ orders'[c] # NULL
  <2>1. PICK row \in Row : is_legal(orders[c].status, row.status) /\ UpdateRow(c, row)
    BY <1>5 DEF Updated
  <2>2. orders'[c] = row /\ row # NULL /\ orders[c] # NULL /\ row.status \in OrderState
    BY <1>1, <1>5, <2>1, NullAssumption DEF UpdateRow, Updated, Row
  <2>3. orders[c].status \notin {"PENDING_NEW", "REJECTED"}
          => row.status \notin {"PENDING_NEW", "REJECTED"}
    BY <2>1 DEF is_legal, LEGAL_EDGES
  <2> QED
    BY <2>2, <2>3, NullAssumption DEF Acked, StatusOf
<1> QED
  BY <1>2, <1>3, <1>4, <1>5, TableStep DEF Acked, StatusOf

(* Only the first two statements of apply_fill leave a worker with an open *)
(* transaction.                                                            *)
LEMMA FillingStep ==
  ASSUME StoreTypeOK, [StoreNext]_storeVars, NEW v \in Worker, Filling(v)'
  PROVE  call'[v] = call[v] \/ apply_fill(v) \/ fill_status(v)
<1> USE DEF StoreTypeOK, Filling
<1>1. ASSUME NEW w \in Worker, NEW next, call' = [call EXCEPT ![w] = next],
             next.op \notin {"fill_status", "fill_commit"}
      PROVE  call'[v] = call[v]
  BY <1>1
<1>2. ASSUME NEW w \in Worker,
             \/ insert_order(w) \/ ack_order(w) \/ replace_order(w) \/ update_write(w)
             \/ set_reject_reason(w) \/ fill_commit(w) \/ publish(w)
      PROVE  call'[v] = call[v]
  <2>1. \A result \in Result : \A c, s :
          /\ [op |-> result].op \notin {"fill_status", "fill_commit"}
          /\ [op |-> "publish", cid |-> c, state |-> s].op \notin {"fill_status", "fill_commit"}
    BY DEF Result
  <2>2. \/ \E result \in Result : Return(w, result)
        \/ \E c, s : ThenPublish(w, c, s)
    BY <1>2, Zenon DEF insert_order, ack_order, replace_order, update_write, set_reject_reason,
                fill_commit, publish, Result
  <2> QED
    BY <1>1, <2>1, <2>2 DEF Return, ThenPublish, Continue
<1>3. ASSUME NEW w \in Worker, update_status(w)
      PROVE  call'[v] = call[v]
  <2>1. call[w] \in [op : {"update_status"}, cid : Cid, new : OrderState]
    BY <1>3, CallArguments DEF update_status
  <2> QED
    BY <1>1, <1>3, <2>1 DEF update_status, Return, Continue, Result
<1>4. ASSUME NEW w \in Worker, NEW command \in Command, Invoke(w, command)
      PROVE  call'[v] = call[v]
  <2>1. command.op \notin {"fill_status", "fill_commit"}
    BY DEF Command, FillCall
  <2> QED
    BY <1>1, <1>4, <2>1 DEF Invoke
<1>5. ASSUME NEW w \in Worker, apply_fill(w) \/ fill_status(w)
      PROVE  call'[v] = call[v] \/ v = w
  BY <1>5 DEF apply_fill, fill_status, Return, Continue
<1>6. ~StoreCrash
  BY DEF StoreCrash
<1>7. UNCHANGED storeVars => call'[v] = call[v]
  BY DEF storeVars
<1> QED
  BY <1>2, <1>3, <1>4, <1>5, <1>6, <1>7 DEF StoreNext, StoreStep

LEMMA FillStep ==
  ASSUME StoreTypeOK, FillInv, [StoreNext]_storeVars
  PROVE  FillInv'
<1> USE DEF StoreTypeOK
<1>1. ASSUME NEW v \in Worker, Filling(v)'
      PROVE  call'[v].cid \in Cid /\ orders'[call'[v].cid] # NULL
  <2>1. CASE call'[v] = call[v]
    <3>1. call[v].cid \in Cid
      BY <1>1, <2>1, CallArguments DEF Filling, FillStatus, FillCommit
    <3> QED
      BY <1>1, <2>1, <3>1, AckedIsStable DEF FillInv, Filling
  <2>2. CASE apply_fill(v)
    <3>1. call[v].cid \in Cid
      BY <2>2, CallArguments DEF apply_fill
    <3>2. orders[call[v].cid] # NULL /\ call'[v].cid = call[v].cid
      BY <1>1, <2>2 DEF apply_fill, Return, Continue, Filling
    <3> QED
      BY <3>1, <3>2, AckedIsStable
  <2>3. CASE fill_status(v)
    <3>1. call[v].cid \in Cid /\ call'[v].cid = call[v].cid /\ Filling(v)
      BY <2>3, CallArguments DEF fill_status, Continue, FillStatus, Filling
    <3> QED
      BY <3>1, AckedIsStable DEF FillInv
  <2> QED
    BY <1>1, <2>1, <2>2, <2>3, FillingStep
<1>2. ASSUME NEW v \in Worker, (call[v].op = "fill_commit" /\ ~call[v].write)'
      PROVE  Acked(call[v].cid)'
  <2>1. CASE call'[v] = call[v]
    <3>1. call[v].cid \in Cid /\ Acked(call[v].cid)
      BY <1>2, <2>1, CallArguments DEF FillCommit, FillInv
    <3>2. Acked(call[v].cid) => LET c == call[v].cid IN orders'[c] # NULL /\
             (IF orders'[c] = NULL THEN NULL ELSE orders'[c].status)
                \notin {NULL, "PENDING_NEW", "REJECTED"}
      BY <3>1, AckedIsStable DEF Acked, StatusOf
    <3> QED
      BY <2>1, <3>1, <3>2 DEF Acked, StatusOf
  <2>2. ~apply_fill(v)
    BY <1>2 DEF apply_fill, Return, Continue, Result
  <2>3. CASE fill_status(v)
    <3>1. /\ call[v].cid \in Cid /\ call'[v].cid = call[v].cid
          /\ call[v].target \in {"FILLED", "PARTIALLY_FILLED"}
          /\ orders[call[v].cid].status = call[v].target
      BY <1>2, <2>3, CallArguments, Zenon DEF fill_status, Continue, FillStatus
    <3>2. orders' = orders
      BY <2>3 DEF fill_status
    <3>3. orders[call[v].cid] # NULL
      BY <2>3 DEF FillInv, Filling, fill_status
    <3> QED
      BY <3>1, <3>2, <3>3, NullAssumption DEF Acked, StatusOf, OrderState
  <2> QED
    BY <1>2, <2>1, <2>2, <2>3, FillingStep DEF Filling
<1>3. NoFillBeforeAck'
  <2>1. SUFFICES ASSUME NEW c \in Cid, fills'[c] # {}
                 PROVE  Acked(c)'
    BY DEF NoFillBeforeAck, Acked
  <2>2. CASE fills'[c] = fills[c]
    BY <2>1, <2>2, AckedIsStable, Zenon DEF FillInv, NoFillBeforeAck, Acked
  <2>3. CASE fills'[c] # fills[c]
    <3>1. PICK w \in Worker : fill_commit(w)
      BY <2>3, Zenon
         DEF StoreNext, StoreStep, StoreCrash, storeVars, tables, insert_order, ack_order,
                  replace_order, update_status, update_write, set_reject_reason, apply_fill,
                  fill_status, publish, Invoke
    <3>2. call[w] \in FillCommit
      BY <3>1, CallArguments DEF fill_commit
    <3>3. c = call[w].cid /\ (call[w].write => orders_guard(c, call[w].target))
      BY <2>3, <3>1, <3>2 DEF fill_commit, tables, FillCommit
    <3>4. CASE ~call[w].write
      BY <3>1, <3>3, <3>4, AckedIsStable DEF FillInv, fill_commit
    <3>5. CASE call[w].write
      <4>1. orders[c] # NULL /\ orders[c] \in Row
        BY <3>3, <3>5 DEF orders_guard
      <4>2. orders' = [orders EXCEPT ![c] = [orders[c] EXCEPT !.status = call[w].target]]
        BY <3>1, <3>3, <3>5 DEF fill_commit, UpdateRow
      <4>3. orders'[c] \in Row /\ orders'[c].status \in {"FILLED", "PARTIALLY_FILLED"}
        BY <3>2, <4>1, <4>2, Zenon DEF Row, FillCommit, OrderState
      <4> QED
        BY <4>3, NullAssumption DEF Acked, StatusOf, OrderState
    <3> QED
      BY <3>4, <3>5
  <2> QED
    BY <2>2, <2>3
<1> QED
  BY <1>1, <1>2, <1>3 DEF FillInv

(* No caller can attach a fill to an order no venue has acknowledged, or   *)
(* that was rejected: apply_fill commits fill and status together.         *)
THEOREM StoreNoFillBeforeAck == StoreSpec => []NoFillBeforeAck
<1>1. StoreInit => FillInv
  BY DEF StoreInit, FillInv, NoFillBeforeAck, Filling
<1>2. StoreTypeOK /\ FillInv /\ [StoreNext]_storeVars => FillInv'
  BY FillStep
<1>3. FillInv => NoFillBeforeAck
  BY DEF FillInv
<1> QED
  BY <1>1, <1>2, <1>3, StoreTypeCorrect, PTL DEF StoreSpec

-----------------------------------------------------------------------------
(* Refinement.  The status column, with NULL for a row that is not there,  *)
(* and the fills are the variables of OrderLifecycle.                      *)

LEMMA OnlyCommitFills ==
  ASSUME [StoreNext]_storeVars, fills' # fills
  PROVE  \E w \in Worker : fill_commit(w)
BY Zenon DEF StoreNext, StoreStep, StoreCrash, storeVars, tables, insert_order, ack_order,
       replace_order, update_status, update_write, set_reject_reason, apply_fill,
       fill_status, publish, Invoke

(* OrderLifecycle sees the state machine the store sees. *)
LEMMA SameStateMachine ==
  /\ Lifecycle!OrderState = OrderState
  /\ \A s, r : Lifecycle!is_legal(s, r) = is_legal(s, r)
BY DEF Lifecycle!OrderState, OrderState, Lifecycle!is_legal, is_legal, Lifecycle!LEGAL_EDGES,
       LEGAL_EDGES

LEMMA LifecycleStep ==
  ASSUME StoreTypeOK, FillInv, FillInv', StoreTypeOK', [StoreNext]_storeVars
  PROVE  [Lifecycle!Next]_(Lifecycle!vars)
<1> DEFINE st == [c \in Cid |-> StatusOf(c)]
<1> SUFFICES [Lifecycle!Next]_<<st, fills>>
  BY DEF Lifecycle!vars
<1>1. orders \in [Cid -> Row \cup {NULL}] /\ fills \in [Cid -> SUBSET Fill]
  BY DEF StoreTypeOK
<1>2. \A c \in Cid : st[c] = StatusOf(c)
  OBVIOUS
<1>3. CASE fills' = fills
  <2>1. CASE Untouched
    BY <1>3, <2>1 DEF Untouched, StatusOf
  <2>2. ASSUME NEW d \in Cid, Inserted(d)
        PROVE  Lifecycle!Birth(d)
    <3>1. PICK row \in Row : row.status = "PENDING_NEW" /\ orders' = [orders EXCEPT ![d] = row]
      BY <2>2, Zenon DEF Inserted
    <3>2. st[d] = NULL
      BY <2>2 DEF Inserted, StatusOf
    <3>3. st' = [st EXCEPT ![d] = "PENDING_NEW"]
      BY <1>1, <3>1, NullAssumption, Zenon DEF StatusOf
    <3> QED
      BY <1>3, <3>2, <3>3 DEF Lifecycle!Birth
  <2>3. ASSUME NEW d \in Cid, Updated(d)
        PROVE  Lifecycle!Advance(d)
    <3>1. PICK row \in Row : is_legal(orders[d].status, row.status) /\ UpdateRow(d, row)
      BY <2>3 DEF Updated
    <3>2. st[d] = orders[d].status /\ st[d] # NULL /\ row.status \in OrderState
      BY <1>1, <2>3, NullAssumption DEF Updated, StatusOf, Row
    <3>3. st' = [st EXCEPT ![d] = row.status]
      BY <1>1, <3>1, NullAssumption, Zenon DEF StatusOf, UpdateRow
    <3> QED
      BY <1>3, <3>1, <3>2, <3>3, SameStateMachine, Zenon DEF Lifecycle!Advance
  <2> HIDE DEF st
  <2> QED
    BY <1>3, <2>1, <2>2, <2>3, TableStep DEF Lifecycle!Next
<1>4. CASE fills' # fills
  <2>1. PICK w \in Worker : fill_commit(w)
    BY <1>4, OnlyCommitFills
  <2>2. call[w] \in FillCommit
    BY <2>1, CallArguments DEF fill_commit, StoreTypeOK
  <2> PICK c \in Cid : c = call[w].cid
    BY <2>2 DEF FillCommit
  <2>3. /\ c \in Cid /\ call[w].fill \in Fill /\ call[w].write \in BOOLEAN
        /\ orders[c] # NULL /\ orders[c] \in Row /\ st[c] = orders[c].status
    BY <1>1, <2>1, <2>2 DEF FillCommit, FillInv, Filling, fill_commit, StatusOf
  <2>4. fills' = [fills EXCEPT ![c] = fills[c] \cup {call[w].fill}]
    BY <1>4, <2>1, <2>2 DEF fill_commit, tables, FillCommit
  <2>5. Acked(c)'
    BY <1>1, <2>3, <2>4 DEF FillInv, NoFillBeforeAck, Acked
  <2>6. \E new \in OrderState : is_legal(st[c], new) /\ st' = [st EXCEPT ![c] = new]
    <3>1. CASE ~call[w].write
      <4>1. st' = st /\ st[c] \in OrderState /\ is_legal(st[c], st[c])
        BY <2>1, <2>3, <3>1 DEF fill_commit, StatusOf, Row, is_legal
      <4>2. st = [st EXCEPT ![c] = st[c]]
        BY <2>3
      <4> HIDE DEF st
      <4> QED
        BY <4>1, <4>2
    <3>2. CASE call[w].write
      <4>1. orders_guard(c, call[w].target)
        BY <1>4, <2>1, <3>2 DEF fill_commit, tables
      <4>2. orders' = [orders EXCEPT ![c] = [orders[c] EXCEPT !.status = call[w].target]]
        BY <2>1, <3>2, <4>1 DEF fill_commit, UpdateRow
      <4>3. /\ is_legal(st[c], call[w].target) /\ call[w].target \in OrderState
            /\ [orders[c] EXCEPT !.status = call[w].target] \in Row
            /\ [orders[c] EXCEPT !.status = call[w].target].status = call[w].target
        BY <2>2, <2>3, <4>1 DEF orders_guard, FillCommit, OrderState, Row
      <4>4. st' = [st EXCEPT ![c] = call[w].target]
        BY <1>1, <2>3, <4>2, <4>3, NullAssumption DEF StatusOf
      <4> HIDE DEF st
      <4> QED
        BY <4>3, <4>4, Zenon
    <3> QED
      BY <2>3, <3>1, <3>2
  <2>7. st'[c] \in OrderState \ {"PENDING_NEW", "REJECTED"}
    <3>1. orders'[c] \in Row \cup {NULL}
      BY <2>3 DEF StoreTypeOK
    <3> QED
      BY <2>3, <2>5, <3>1 DEF Acked, StatusOf, Row
  <2>8. st[c] # NULL
    BY <2>3, NullAssumption DEF Row
  <2>9. Lifecycle!Advance(c)
    BY <2>3, <2>4, <2>6, <2>7, <2>8, SameStateMachine, Zenon
    DEF Lifecycle!Advance, Lifecycle!Acknowledged
  <2> QED
    BY <2>3, <2>9 DEF Lifecycle!Next
<1> QED
  BY <1>3, <1>4

(* The store implements the lifecycle of an order for every set of callers: *)
(* rows are born PENDING_NEW, never vanish, move along the frozen edges and *)
(* gather fills only once acknowledged.                                     *)
THEOREM StoreImplementsLifecycle == StoreSpec => LifecycleSpec
<1>1. StoreInit => FillInv
  BY DEF StoreInit, FillInv, NoFillBeforeAck, Filling
<1>2. StoreTypeOK /\ FillInv /\ [StoreNext]_storeVars => FillInv'
  BY FillStep
<1>3. StoreInit => Lifecycle!Init
  BY DEF StoreInit, Lifecycle!Init, StatusOf
<1>4. StoreTypeOK /\ StoreTypeOK' /\ FillInv /\ FillInv' /\ [StoreNext]_storeVars
        => [Lifecycle!Next]_(Lifecycle!vars)
  BY LifecycleStep
<1> QED
  BY <1>1, <1>2, <1>3, <1>4, StoreTypeCorrect, PTL DEF StoreSpec, LifecycleSpec, Lifecycle!Spec

=============================================================================
