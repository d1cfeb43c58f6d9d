------------------------------- MODULE OrderStore -------------------------------
(***************************************************************************)
(* The durable order store as its callers see it: db/repositories.py over  *)
(* the tables execution.orders, execution.fills and execution.order_events *)
(* and their triggers.                                                     *)
(*                                                                         *)
(* A worker is a coroutine of the engine.  It starts a repository call     *)
(* with Invoke; each action below is then ONE database statement (or the   *)
(* commit of one transaction), so that every await of the Python code is a *)
(* point where other workers run.  call[w].op names the statement w is     *)
(* about to issue, or the result its last call returned.  The modules that *)
(* model the router and the reconcilers drive the store through Invoke.    *)
(***************************************************************************)
EXTENDS OrderStateMachine, Sequences, FiniteSetsExt

CONSTANTS
  Cid,             \* client_order_id values
  Worker,          \* coroutines that call the repository
  BrokerOrderId,   \* ids a venue gives an order
  FillId,          \* broker_fill_id values
  Quantity,        \* order and fill quantities
  NULL             \* no row, no id

ASSUME QuantityAssumption == Quantity \subseteq Nat \ {0}

VARIABLES
  orders,         \* [Cid -> Row \cup {NULL}]: execution.orders
  fills,          \* [Cid -> SUBSET Fill]: execution.fills, keyed (cid, id)
  order_events,   \* [Cid -> Seq of <<from, to>>]: execution.order_events
  published,      \* [Cid -> Seq(OrderState)]: what the event hub was handed
  call            \* [Worker -> Call]

tables == <<orders, fills, order_events>>
storeVars == <<orders, fills, order_events, published, call>>

Row == [status : OrderState, broker_order_id : BrokerOrderId \cup {NULL},
        quantity : Quantity, reject_reason : BOOLEAN]

ASSUME NullAssumption == NULL \notin OrderState \cup Row

Fill == [id : FillId, quantity : Quantity]

Result == {"idle", "ok", "duplicate", "raised"}

(* What apply_fill carries from statement to statement of its transaction. *)
FillCall == [op : {"apply_fill"}, cid : Cid, fill : Fill, total : Quantity]
FillStatus == [op : {"fill_status"}, cid : Cid, fill : Fill,
               fresh : BOOLEAN, target : {"FILLED", "PARTIALLY_FILLED"}]
FillCommit == [op : {"fill_commit"}, cid : Cid, fill : Fill, fresh : BOOLEAN,
               target : {"FILLED", "PARTIALLY_FILLED"}, write : BOOLEAN]

(* The calls a worker may start, with their arguments. *)
Command ==
  [op : {"insert_order"}, cid : Cid, quantity : Quantity]
  \cup [op : {"ack_order"}, cid : Cid, broker_order_id : BrokerOrderId]
  \cup [op : {"replace_order"}, cid : Cid, quantity : Quantity \cup {NULL}]
  \cup [op : {"update_status"}, cid : Cid, new : OrderState]
  \cup [op : {"set_reject_reason"}, cid : Cid]
  \cup FillCall

Call ==
  [op : Result]
  \cup Command
  \cup [op : {"update_write"}, cid : Cid, new : OrderState]
  \cup FillStatus
  \cup FillCommit
  \cup [op : {"publish"}, cid : Cid, state : OrderState]

StatusOf(c) == IF orders[c] = NULL THEN NULL ELSE orders[c].status

filled_qty(c) == MapThenSumSet(LAMBDA f : f.quantity, fills[c])

Returned(w) == call[w].op \in Result

StoreInit ==
  /\ orders = [c \in Cid |-> NULL]
  /\ fills = [c \in Cid |-> {}]
  /\ order_events = [c \in Cid |-> <<>>]
  /\ published = [c \in Cid |-> <<>>]
  /\ call = [w \in Worker |-> [op |-> "idle"]]

Invoke(w, command) ==
  /\ Returned(w)
  /\ call' = [call EXCEPT ![w] = command]
  /\ UNCHANGED <<orders, fills, order_events, published>>

Continue(w, next) == call' = [call EXCEPT ![w] = next]
Return(w, result) == Continue(w, [op |-> result])
ThenPublish(w, c, state) ==
  Continue(w, [op |-> "publish", cid |-> c, state |-> state])

(* Variant: the table has no trigger. *)
orders_guard_missing(c, new) == orders[c] # NULL

(***************************************************************************)
(* An UPDATE of one row.  The orders_guard trigger compares the new status *)
(* with the row as it is NOW, whatever the caller read before; the         *)
(* orders_append_event trigger appends one audit row per status change.    *)
(***************************************************************************)
orders_guard(c, new) == orders[c] # NULL /\ is_legal(StatusOf(c), new)

UpdateRow(c, row) ==
  /\ orders' = [orders EXCEPT ![c] = row]
  /\ order_events' =
       IF row.status = orders[c].status
       THEN order_events
       ELSE [order_events EXCEPT ![c] = Append(@, <<orders[c].status, row.status>>)]

(* A primary-key collision raises DuplicateOrderSignal, any other column   *)
(* CHECK the row fails raises StoreConstraintViolated.                     *)
insert_order(w) ==
  /\ call[w].op = "insert_order"
  /\ LET c == call[w].cid IN
     \/ /\ orders[c] # NULL
        /\ Return(w, "duplicate")
        /\ UNCHANGED <<orders, order_events>>
     \/ /\ Return(w, "raised")
        /\ UNCHANGED <<orders, order_events>>
     \/ /\ orders[c] = NULL
        /\ orders' = [orders EXCEPT ![c] =
             [status |-> "PENDING_NEW", broker_order_id |-> NULL,
              quantity |-> call[w].quantity, reject_reason |-> FALSE]]
        /\ order_events' =
             [order_events EXCEPT ![c] = Append(@, <<NULL, "PENDING_NEW">>)]
        /\ ThenPublish(w, c, "PENDING_NEW")
  /\ UNCHANGED <<fills, published>>

(* Variant: the UPDATE has no condition on the old status, and no trigger. *)
ack_order_unguarded(w) ==
  /\ call[w].op = "ack_order"
  /\ LET c == call[w].cid IN
     IF orders[c] # NULL
     THEN /\ UpdateRow(c, [orders[c] EXCEPT !.status = "NEW",
                             !.broker_order_id = call[w].broker_order_id])
          /\ ThenPublish(w, c, "NEW")
     ELSE /\ Return(w, "raised")
          /\ UNCHANGED <<orders, order_events>>
  /\ UNCHANGED <<fills, published>>

ack_order(w) ==
  /\ call[w].op = "ack_order"
  /\ LET c == call[w].cid IN
     IF StatusOf(c) = "PENDING_NEW"
     THEN /\ UpdateRow(c, [orders[c] EXCEPT !.status = "NEW",
                             !.broker_order_id = call[w].broker_order_id])
          /\ ThenPublish(w, c, "NEW")
     ELSE /\ Return(w, "raised")
          /\ UNCHANGED <<orders, order_events>>
  /\ UNCHANGED <<fills, published>>

replace_order(w) ==
  /\ call[w].op = "replace_order"
  /\ LET c == call[w].cid IN
     IF StatusOf(c) = "PENDING_REPLACE"
     THEN /\ UpdateRow(c, [orders[c] EXCEPT !.status = "NEW",
               !.quantity = IF call[w].quantity = NULL THEN @ ELSE call[w].quantity])
          /\ ThenPublish(w, c, "NEW")
     ELSE /\ Return(w, "raised")
          /\ UNCHANGED <<orders, order_events>>
  /\ UNCHANGED <<fills, published>>

(***************************************************************************)
(* update_status reads the row, guards on what it read, and then writes    *)
(* without a condition on the old status.                                  *)
(***************************************************************************)
update_status(w) ==
  /\ call[w].op = "update_status"
  /\ LET row == orders[call[w].cid] IN
     IF row = NULL \/ ~is_legal(row.status, call[w].new)
     THEN Return(w, "raised")
     ELSE IF row.status = call[w].new
     THEN Return(w, "ok")
     ELSE Continue(w, [call[w] EXCEPT !.op = "update_write"])
  /\ UNCHANGED <<orders, fills, order_events, published>>

(* Variant: the event is published whether or not the row was written. *)
update_write_publishes(w) ==
  /\ call[w].op = "update_write"
  /\ LET c == call[w].cid IN
     IF orders_guard(c, call[w].new)
     THEN UpdateRow(c, [orders[c] EXCEPT !.status = call[w].new])
     ELSE UNCHANGED <<orders, order_events>>
  /\ ThenPublish(w, call[w].cid, call[w].new)
  /\ UNCHANGED <<fills, published>>

update_write(w) ==
  /\ call[w].op = "update_write"
  /\ LET c == call[w].cid IN
     IF orders_guard(c, call[w].new)
     THEN /\ UpdateRow(c, [orders[c] EXCEPT !.status = call[w].new])
          /\ ThenPublish(w, c, call[w].new)
     ELSE /\ Return(w, "raised")
          /\ UNCHANGED <<orders, order_events>>
  /\ UNCHANGED <<fills, published>>

set_reject_reason(w) ==
  /\ call[w].op = "set_reject_reason"
  /\ LET c == call[w].cid IN
     IF orders[c] = NULL
     THEN UNCHANGED <<orders, order_events>>
     ELSE UpdateRow(c, [orders[c] EXCEPT !.reject_reason = TRUE])
  /\ Return(w, "ok")
  /\ UNCHANGED <<fills, published>>

(* Variant: the fill is inserted without a conflict clause. *)
apply_fill_always(w) ==
  /\ call[w].op = "apply_fill"
  /\ LET c == call[w].cid IN
     IF orders[c] = NULL
     THEN Return(w, "raised")
     ELSE Continue(w, [op |-> "fill_status", cid |-> c, fill |-> call[w].fill, fresh |-> TRUE,
            target |-> IF filled_qty(c) + call[w].fill.quantity >= call[w].total
                       THEN "FILLED" ELSE "PARTIALLY_FILLED"])
  /\ UNCHANGED <<orders, fills, order_events, published>>

(***************************************************************************)
(* apply_fill is one READ COMMITTED transaction: INSERT ... ON CONFLICT DO *)
(* NOTHING and SUM (which sees committed fills and its own), then SELECT   *)
(* status, then UPDATE and COMMIT.  The insert waits for another open      *)
(* transaction that inserted the same fill.  The guard of the UPDATE rolls *)
(* the whole transaction back.                                             *)
(***************************************************************************)
apply_fill(w) ==
  /\ call[w].op = "apply_fill"
  /\ \A v \in Worker : call[v].op \in {"fill_status", "fill_commit"} =>
        ~(call[v].fresh /\ call[v].cid = call[w].cid /\ call[v].fill.id = call[w].fill.id)
  /\ LET c == call[w].cid
         fresh == \A f \in fills[c] : f.id # call[w].fill.id
         filled == filled_qty(c) + (IF fresh THEN call[w].fill.quantity ELSE 0)
     IN IF orders[c] = NULL
        THEN Return(w, "raised")
        ELSE Continue(w, [op |-> "fill_status", cid |-> c, fill |-> call[w].fill,
               fresh |-> fresh,
               target |-> IF filled >= call[w].total THEN "FILLED"
                                                     ELSE "PARTIALLY_FILLED"])
  /\ UNCHANGED <<orders, fills, order_events, published>>

fill_status(w) ==
  /\ call[w].op = "fill_status"
  /\ Continue(w, [op |-> "fill_commit", cid |-> call[w].cid, fill |-> call[w].fill,
                  fresh |-> call[w].fresh, target |-> call[w].target,
                  write |-> orders[call[w].cid].status # call[w].target])
  /\ UNCHANGED <<orders, fills, order_events, published>>

(* Variant: a refused status flip leaves the fill committed. *)
fill_commit_keeps(w) ==
  /\ call[w].op = "fill_commit"
  /\ LET c == call[w].cid IN
     /\ IF call[w].write /\ orders_guard(c, call[w].target)
        THEN UpdateRow(c, [orders[c] EXCEPT !.status = call[w].target])
        ELSE UNCHANGED <<orders, order_events>>
     /\ fills' = IF call[w].fresh
                 THEN [fills EXCEPT ![c] = @ \cup {call[w].fill}]
                 ELSE fills
     /\ Return(w, "ok")
  /\ UNCHANGED published

fill_commit(w) ==
  /\ call[w].op = "fill_commit"
  /\ LET c == call[w].cid IN
     IF call[w].write /\ ~orders_guard(c, call[w].target)
     THEN /\ Return(w, "raised")
          /\ UNCHANGED tables
     ELSE /\ IF call[w].write
             THEN UpdateRow(c, [orders[c] EXCEPT !.status = call[w].target])
             ELSE UNCHANGED <<orders, order_events>>
          /\ fills' = IF call[w].fresh
                      THEN [fills EXCEPT ![c] = @ \cup {call[w].fill}]
                      ELSE fills
          /\ IF call[w].fresh THEN ThenPublish(w, c, call[w].target)
                              ELSE Return(w, "ok")
  /\ UNCHANGED published

(* The coroutine resumes after its commit and only then calls hub.publish. *)
publish(w) ==
  /\ call[w].op = "publish"
  /\ published' = [published EXCEPT ![call[w].cid] = Append(@, call[w].state)]
  /\ Return(w, "ok")
  /\ UNCHANGED tables

StoreStep(w) ==
  \/ insert_order(w) \/ ack_order(w) \/ replace_order(w)
  \/ update_status(w) \/ update_write(w) \/ set_reject_reason(w)
  \/ apply_fill(w) \/ fill_status(w) \/ fill_commit(w)
  \/ publish(w)

(* The process dies: open transactions roll back, committed rows stay. *)
StoreCrash ==
  /\ call' = [w \in Worker |-> [op |-> "idle"]]
  /\ UNCHANGED <<orders, fills, order_events, published>>

(* The store under callers that may ask anything at any time. *)
StoreNext ==
  \/ \E w \in Worker : StoreStep(w) \/ \E command \in Command : Invoke(w, command)
  \/ StoreCrash

StoreSpec == StoreInit /\ [][StoreNext]_storeVars

-----------------------------------------------------------------------------
(* Every variable has its type. *)
StoreTypeOK ==
  /\ orders \in [Cid -> Row \cup {NULL}]
  /\ fills \in [Cid -> SUBSET Fill]
  /\ order_events \in [Cid -> Seq((OrderState \cup {NULL}) \X OrderState)]
  /\ published \in [Cid -> Seq(OrderState)]
  /\ call \in [Worker -> Call]

(***************************************************************************)
(* The audit trail of a row is a path through the legal edges: it starts   *)
(* with the birth event, each event starts where the one before it ended,  *)
(* and the last one ends at the row's status.  This is what makes          *)
(* execution.order_events a replayable history although update_status      *)
(* writes on the strength of a stale read.                                 *)
(***************************************************************************)
AuditTrail ==
  \A c \in Cid :
    LET trail == order_events[c] IN
    IF orders[c] = NULL
    THEN trail = <<>>
    ELSE /\ Len(trail) > 0
         /\ trail[1] = <<NULL, "PENDING_NEW">>
         /\ trail[Len(trail)][2] = orders[c].status
         /\ \A i \in 2 .. Len(trail) :
              trail[i] \in LEGAL_EDGES /\ trail[i][1] = trail[i - 1][2]

(* No fill belongs to an order the venue has not acknowledged or has       *)
(* rejected: apply_fill commits the fill with the status flip or not at    *)
(* all, even when the flip is skipped because an earlier read showed the   *)
(* target status.                                                          *)
NoFillBeforeAck ==
  \A c \in Cid : fills[c] # {} =>
    StatusOf(c) \notin {NULL, "PENDING_NEW", "REJECTED"}

(* The hub is never handed a state the row has not durably been in.        *)
PublishedIsDurable ==
  \A c \in Cid : \A i \in 1 .. Len(published[c]) :
    \E j \in 1 .. Len(order_events[c]) : order_events[c][j][2] = published[c][i]

(* One fill per broker_fill_id, under every interleaving of redeliveries.  *)
FillOnce ==
  \A c \in Cid : \A f, g \in fills[c] : f.id = g.id => f = g

(* The store implements the abstract lifecycle of an order. *)
Lifecycle == INSTANCE OrderLifecycle WITH
  status <- [c \in Cid |-> StatusOf(c)]
LifecycleSpec == Lifecycle!Spec

=============================================================================
