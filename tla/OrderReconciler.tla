---------------------------- MODULE OrderReconciler ----------------------------
(***************************************************************************)
(* adapters/liberator/reconciler.py: what the reconciler decides from the  *)
(* venue's book, in the steady loop (reconcile_once) and in the burst a    *)
(* submit runs when its ack carried no handle (resolve_order_now).         *)
(*                                                                         *)
(* Both read rows, then the book, then the fills of a row, and act on      *)
(* these snapshots statement by statement, while the venue trades and the  *)
(* submit and the cancel of the same order run on.  The number the venue   *)
(* gives the order of c is c itself, so that a row is bound to a wrong     *)
(* order when its broker_order_id is another order's.                      *)
(***************************************************************************)
EXTENDS OrderStore

CONSTANTS
  OrderQty,     \* the quantity of every order
  Alike,        \* <<c, d>>: the listing of d has the symbol, side, price and time of c
  Resolver,     \* whether the router has a handle resolver
  Faults,       \* what venue, callers and process may do: see the actions
  MaxOutages    \* how often the book cannot be read

ASSUME ReconcilerAssumption ==
  OrderQty \in Nat \ {0} /\ Alike \subseteq Cid \X Cid /\ MaxOutages \in Nat

VARIABLES
  venue,      \* [Cid -> VenueOrder]: what the venue holds
  age,        \* [Cid -> Age]: of the row, by the two windows of the reconciler
  day,        \* the venue's day; every row is created on day 0
  outages,    \* reads of the book that failed
  crashed,    \* whether the process died once
  proc        \* [Worker -> Proc]: the coroutines

recVars == <<venue, age, day, outages, crashed, proc>>
vars == <<storeVars, recVars>>

VenueOrder == [state : {"none", "resting", "cancelled", "rejected", "expired"},
               matched : 0 .. OrderQty, day : 0 .. 1]

(* Up to _STUCK_PENDING_SECONDS, up to _ACK_LOST_TIMEOUT_SECONDS, beyond. *)
Age == {"fresh", "stuck", "old"}

Steady == <<"steady", NULL>>
Submit(c) == <<"submit", c>>
Cancel(c) == <<"cancel", c>>
Bursts == {Submit(c) : c \in Cid}
Cancels == {Cancel(c) : c \in Cid}
Coroutines == {Steady} \cup Bursts \cup Cancels

(* A coroutine: where it is suspended, and the snapshots it works from. *)
Listing == [Cid -> VenueOrder \cup {NULL}]
Proc == [pc : STRING, todo : SUBSET Cid, rows : [Cid -> Row \cup {NULL}],
         items : Listing, claimed : SUBSET Cid,
         age : [Cid -> Age], day : 0 .. 1, plan : Seq(Seq(Command))]

NoRows == [c \in Cid |-> NULL]
At(label) ==
  [pc |-> label, todo |-> {}, rows |-> NoRows, items |-> NoRows, claimed |-> {},
   age |-> [c \in Cid |-> "fresh"], day |-> 0, plan |-> <<>>]

Goto(w, label) == proc' = [proc EXCEPT ![w].pc = label]
Finish(w, label) == proc' = [proc EXCEPT ![w] = At(label)]

Init ==
  /\ StoreInit
  /\ venue = [c \in Cid |-> [state |-> "none", matched |-> 0, day |-> 0]]
  /\ age = [c \in Cid |-> "fresh"]
  /\ day = 0
  /\ outages = 0
  /\ crashed = FALSE
  /\ proc = [w \in Worker |-> At("start")]

-----------------------------------------------------------------------------
(* The decisions: one local row and one snapshot of the book. *)

_is_resolved(row) == row.broker_order_id # NULL \/ is_terminal(row.status)

(* The venue rows that pass for the order of c.  Its own does: the          *)
(* placement takes less than _FUZZY_WINDOW_SECONDS.                         *)
Candidates(c, items, claimed) ==
  {no \in Cid \ claimed : items[no] # NULL /\ (no = c \/ <<c, no>> \in Alike)}

(* Variant: the first of several candidates is taken. *)
fuzzy_match_first(c, items, claimed) ==
  IF Candidates(c, items, claimed) = {} THEN NULL
  ELSE CHOOSE no \in Candidates(c, items, claimed) : TRUE

fuzzy_match(c, items, claimed) ==
  LET candidates == Candidates(c, items, claimed)
  IN IF Cardinality(candidates) = 1 THEN CHOOSE no \in candidates : TRUE ELSE NULL

(* Variant: several candidates count as none. *)
ambiguous_never(c, items, claimed) == FALSE

ambiguous(c, items, claimed) == Cardinality(Candidates(c, items, claimed)) > 1

Status(c, state) == [op |-> "update_status", cid |-> c, new |-> state]
Reason(c) == [op |-> "set_reject_reason", cid |-> c]

(* An action of the plan is the repository calls _execute makes for it. *)
ack(c, no) == <<[op |-> "ack_order", cid |-> c, broker_order_id |-> no]>>
fill(c, no, matched, delta, total) ==
  <<[op |-> "apply_fill", cid |-> c, total |-> total,
     fill |-> [id |-> <<no, matched>>, quantity |-> delta]]>>
cancel_two_step(c) == <<Status(c, "PENDING_CANCEL"), Status(c, "CANCELLED")>>
cancel_confirm(c) == <<Status(c, "CANCELLED")>>
expire(c) == <<Status(c, "EXPIRED")>>
reject(c) == <<Status(c, "REJECTED"), Reason(c)>>
post_ack_reject(c) == <<Reason(c), Status(c, "PENDING_CANCEL"), Status(c, "CANCELLED")>>

_venue_terminal_actions(c, row, item) ==
  CASE item.state = "cancelled" -> <<cancel_two_step(c)>>
    [] item.state = "expired" -> <<expire(c)>>
    [] item.state = "rejected" ->
         <<IF row.status = "PENDING_NEW" THEN reject(c) ELSE post_ack_reject(c)>>
    [] OTHER -> <<>>

(* Variant: absence tells on any day. *)
absence_always_informative(now_day) == TRUE

absence_is_informative(now_day) == now_day = 0

(* plan_actions for a row the book does not have. *)
plan_absent(c, row, now_age, now_day, unsure) ==
  CASE row.status = "PENDING_NEW" /\ ~unsure /\ now_age = "old" -> <<reject(c)>>
    [] row.status = "PENDING_CANCEL" /\ absence_is_informative(now_day) -> <<cancel_confirm(c)>>
    [] OTHER -> <<>>

(* Variant: the whole matched quantity, whatever is recorded already. *)
plan_fill_cumulative(c, row, filled, no, item) ==
  IF item.matched > filled
  THEN <<fill(c, no, item.matched, item.matched, row.quantity)>> ELSE <<>>

(* Variant: one fill an order. *)
plan_fill_once(c, row, filled, no, item) ==
  IF item.matched > 0 /\ filled = 0
  THEN <<fill(c, no, item.matched, item.matched, row.quantity)>> ELSE <<>>

plan_fill(c, row, filled, no, item) ==
  IF item.matched > filled
  THEN <<fill(c, no, item.matched, item.matched - filled, row.quantity)>> ELSE <<>>

(* Variant: the handle is recorded with the first fill only. *)
plan_present_silent(c, row, filled, no, item) ==
  IF row.status = "PENDING_NEW" /\ item.state = "resting" /\ item.matched = 0
  THEN <<>>
  ELSE (IF row.status = "PENDING_NEW" THEN <<ack(c, no)>> ELSE <<>>)
         \o plan_fill(c, row, filled, no, item)
         \o (IF item.matched < row.quantity THEN _venue_terminal_actions(c, row, item) ELSE <<>>)

(* plan_actions for a row and its venue counterpart. *)
plan_present(c, row, filled, no, item) ==
  LET terminal == _venue_terminal_actions(c, row, item)
      acked == IF row.status = "PENDING_NEW" THEN <<ack(c, no)>> ELSE <<>>
  IN CASE row.status = "PENDING_NEW" /\ item.state = "rejected" -> terminal
       [] row.status = "PENDING_CANCEL" ->
            IF item.state \in {"cancelled", "expired"} THEN <<cancel_confirm(c)>> ELSE <<>>
       [] OTHER -> acked \o plan_fill(c, row, filled, no, item)
                   \o (IF item.matched < row.quantity THEN terminal ELSE <<>>)

-----------------------------------------------------------------------------
(* A pass of the steady loop. *)

Handles(rows) == {rows[c].broker_order_id : c \in {d \in Cid : rows[d] # NULL}} \ {NULL}
WorkingSet == [c \in Cid |-> IF StatusOf(c) \in RECONCILE_STATES THEN orders[c] ELSE NULL]

reconcile_once ==
  /\ proc[Steady].pc = "start"
  /\ WorkingSet # NoRows
  /\ proc' = [proc EXCEPT ![Steady] =
       [At("fetch_venue_orders") EXCEPT !.rows = WorkingSet,
          !.todo = {c \in Cid : WorkingSet[c] # NULL}, !.claimed = Handles(WorkingSet),
          !.age = age, !.day = day]]
  /\ UNCHANGED <<storeVars, venue, age, day, outages, crashed>>

(* The book holds the orders of the venue's day.  With the fault "gone" a   *)
(* closed order may be missing from it.                                     *)
Closed == {c \in Cid : venue[c].state \in {"cancelled", "rejected", "expired"}}

fetch_venue_orders(w) ==
  /\ proc[w].pc = "fetch_venue_orders"
  /\ \/ /\ \E gone \in SUBSET (IF "gone" \in Faults THEN Closed ELSE {}) :
             proc' = [proc EXCEPT ![w].pc = "_apply_row", ![w].items =
               [c \in Cid |-> IF venue[c].state # "none" /\ venue[c].day = day /\ c \notin gone
                              THEN venue[c] ELSE NULL]]
        /\ UNCHANGED outages
     \/ /\ outages < MaxOutages
        /\ outages' = outages + 1
        /\ IF w = Steady THEN Finish(w, "start")
           ELSE \E next \in {"resolve_order_now", "done"} : Finish(w, next)
  /\ UNCHANGED <<storeVars, venue, age, day, crashed>>

(* One row: match it, read its fills, plan.  The burst asks for the time    *)
(* now and does not wait for the row to be stuck.  The loop takes the rows  *)
(* by creation time, here in any order.                                     *)
_apply_row(w) ==
  /\ proc[w].pc = "_apply_row"
  /\ \E c \in proc[w].todo :
       LET p == proc[w]
           row == p.rows[c]
           now_age == IF w = Steady THEN p.age[c] ELSE age[c]
           now_day == IF w = Steady THEN p.day ELSE day
           known == row.broker_order_id
           bound == known # NULL /\ p.items[known] # NULL
           fuzzy == ~bound /\ row.status = "PENDING_NEW" /\ (now_age # "fresh" \/ w # Steady)
           no == IF bound THEN known
                 ELSE IF fuzzy THEN fuzzy_match(c, p.items, p.claimed) ELSE NULL
       IN proc' = [proc EXCEPT ![w].pc = "_execute", ![w].todo = @ \ {c},
            ![w].claimed = IF no = NULL THEN @ ELSE @ \cup {no},
            ![w].plan =
              IF no = NULL
              THEN plan_absent(c, row, now_age, now_day,
                               fuzzy /\ ambiguous(c, p.items, p.claimed))
              ELSE plan_present(c, row, filled_qty(c), no, p.items[no])]
  /\ UNCHANGED <<storeVars, venue, age, day, outages, crashed>>

(* _execute, call by call.  A call that raises ends its action; the next    *)
(* action of the plan is executed all the same.                             *)
Rest(w) ==
  LET plan == proc[w].plan
  IN IF proc[w].pc = "executing" /\ (call[w].op = "raised" \/ Head(plan) = <<>>)
     THEN Tail(plan) ELSE plan

_execute(w) ==
  /\ proc[w].pc \in {"_execute", "executing"} /\ Returned(w)
  /\ \/ /\ Rest(w) # <<>>
        /\ Invoke(w, Head(Head(Rest(w))))
        /\ proc' = [proc EXCEPT ![w].pc = "executing",
                               ![w].plan = <<Tail(Head(Rest(w)))>> \o Tail(Rest(w))]
     \/ /\ Rest(w) = <<>> /\ proc[w].todo # {}
        /\ proc' = [proc EXCEPT ![w].pc = "_apply_row", ![w].plan = <<>>]
        /\ UNCHANGED storeVars
     \/ /\ Rest(w) = <<>> /\ proc[w].todo = {}
        /\ Finish(w, IF w = Steady THEN "start" ELSE "after")
        /\ UNCHANGED storeVars
  /\ UNCHANGED <<venue, age, day, outages, crashed>>

-----------------------------------------------------------------------------
(* The submit of an order, as far as the reconciler meets it, and the burst *)
(* it runs.  recover_handle asks again or gives up.                         *)

submit(c) ==
  /\ proc[Submit(c)].pc = "start" /\ day = 0
  /\ Invoke(Submit(c), [op |-> "insert_order", cid |-> c, quantity |-> OrderQty])
  /\ Goto(Submit(c), "inserting")
  /\ UNCHANGED <<venue, age, day, outages, crashed>>

submit_inserted(c) ==
  /\ proc[Submit(c)].pc = "inserting" /\ Returned(Submit(c))
  /\ Goto(Submit(c), IF call[Submit(c)].op = "ok" THEN "place" ELSE "done")
  /\ UNCHANGED <<storeVars, venue, age, day, outages, crashed>>

place(c) ==
  LET w == Submit(c) IN
  /\ proc[w].pc = "place"
  /\ \/ /\ venue' = [venue EXCEPT ![c].state = "resting", ![c].day = day]
        /\ \/ /\ Invoke(w, Head(ack(c, c)))
              /\ Goto(w, "done")
           \/ /\ Goto(w, IF Resolver THEN "resolve_order_now" ELSE "done")
              /\ UNCHANGED storeVars
           \/ /\ Goto(w, "done")
              /\ UNCHANGED storeVars
     \/ /\ "rejects" \in Faults
        /\ Invoke(w, Status(c, "REJECTED"))
        /\ Goto(w, "rejecting")
        /\ UNCHANGED venue
     \/ /\ "lost_request" \in Faults
        /\ Goto(w, "done")
        /\ UNCHANGED <<storeVars, venue>>
  /\ UNCHANGED <<age, day, outages, crashed>>

rejecting(c) ==
  /\ proc[Submit(c)].pc = "rejecting" /\ Returned(Submit(c))
  /\ Goto(Submit(c), "done")
  /\ IF call[Submit(c)].op = "ok" THEN Invoke(Submit(c), Reason(c)) ELSE UNCHANGED storeVars
  /\ UNCHANGED <<venue, age, day, outages, crashed>>

resolve_order_now(c) ==
  LET w == Submit(c) IN
  /\ proc[w].pc = "resolve_order_now"
  /\ IF _is_resolved(orders[c])
     THEN Finish(w, "done")
     ELSE proc' = [proc EXCEPT ![w] = [At("working_set") EXCEPT
                                         !.rows[c] = orders[c], !.todo = {c}]]
  /\ UNCHANGED <<storeVars, venue, age, day, outages, crashed>>

working_set(c) ==
  LET w == Submit(c) IN
  /\ proc[w].pc = "working_set"
  /\ proc' = [proc EXCEPT ![w].pc = "fetch_venue_orders",
                          ![w].claimed = Handles([WorkingSet EXCEPT ![c] = NULL])]
  /\ UNCHANGED <<storeVars, venue, age, day, outages, crashed>>

after_apply(c) ==
  /\ proc[Submit(c)].pc = "after"
  /\ \E next \in IF _is_resolved(orders[c]) THEN {"done"} ELSE {"resolve_order_now", "done"} :
       Goto(Submit(c), next)
  /\ UNCHANGED <<storeVars, venue, age, day, outages, crashed>>

-----------------------------------------------------------------------------
(* The cancel of an order.  The answer of the venue may be lost, or be a    *)
(* refusal.                                                                 *)

cancel(c) ==
  /\ "cancel" \in Faults
  /\ proc[Cancel(c)].pc = "start"
  /\ StatusOf(c) \in {"NEW", "PARTIALLY_FILLED"}
  /\ Invoke(Cancel(c), Status(c, "PENDING_CANCEL"))
  /\ Goto(Cancel(c), "marking")
  /\ UNCHANGED <<venue, age, day, outages, crashed>>

Live(c) == venue[c].state = "resting" /\ venue[c].matched < OrderQty

adapter_cancel(c) ==
  LET w == Cancel(c)
      no == orders[c].broker_order_id
  IN
  /\ proc[w].pc = "marking" /\ Returned(w)
  /\ Goto(w, "done")
  /\ \/ /\ call[w].op = "ok" /\ Live(no)
        /\ venue' = [venue EXCEPT ![no].state = "cancelled"]
        /\ Invoke(w, Status(c, "CANCELLED")) \/ UNCHANGED storeVars
     \/ UNCHANGED <<storeVars, venue>>
  /\ UNCHANGED <<age, day, outages, crashed>>

-----------------------------------------------------------------------------
(* The venue trades and closes orders; time passes; the process dies. *)

Trades(c) ==
  /\ Live(c)
  /\ venue' = [venue EXCEPT ![c].matched = @ + 1]
  /\ UNCHANGED <<storeVars, age, day, outages, crashed, proc>>

Closes(c) ==
  /\ "closes" \in Faults /\ Live(c)
  /\ \E state \in {"cancelled", "rejected", "expired"} :
       venue' = [venue EXCEPT ![c].state = state]
  /\ UNCHANGED <<storeVars, age, day, outages, crashed, proc>>

(* A placement and its burst are over before the row counts as stuck.  The  *)
(* age of a row tells only while it is PENDING_NEW.                         *)
Ages(c) ==
  /\ StatusOf(c) = "PENDING_NEW"
  /\ \/ /\ age[c] = "fresh" /\ proc[Submit(c)].pc = "done" /\ Returned(Submit(c))
        /\ age' = [age EXCEPT ![c] = "stuck"]
     \/ /\ age[c] = "stuck"
        /\ age' = [age EXCEPT ![c] = "old"]
  /\ UNCHANGED <<storeVars, venue, day, outages, crashed, proc>>

(* Midnight at the venue.  It meets a pass of the steady loop between its   *)
(* reading of the clock and of the book only as a fault of its own.         *)
DayRolls ==
  /\ "day" \in Faults /\ day = 0
  /\ "midnight" \in Faults \/ proc[Steady].pc # "fetch_venue_orders"
  /\ day' = 1
  /\ UNCHANGED <<storeVars, venue, age, outages, crashed, proc>>

Crash ==
  /\ "crash" \in Faults /\ ~crashed
  /\ crashed' = TRUE
  /\ StoreCrash
  /\ proc' = [w \in Worker |-> IF w = Steady \/ proc[w].pc = "start" THEN At("start") ELSE At("done")]
  /\ UNCHANGED <<venue, age, day, outages>>

SteadyStep ==
  reconcile_once \/ fetch_venue_orders(Steady) \/ _apply_row(Steady) \/ _execute(Steady)
SubmitStep(c) ==
  \/ submit_inserted(c) \/ place(c) \/ rejecting(c) \/ resolve_order_now(c) \/ working_set(c)
  \/ fetch_venue_orders(Submit(c)) \/ _apply_row(Submit(c)) \/ _execute(Submit(c))
  \/ after_apply(c)
Database(w) == StoreStep(w) /\ UNCHANGED recVars

Next ==
  \/ SteadyStep
  \/ \E c \in Cid : submit(c) \/ SubmitStep(c) \/ cancel(c) \/ adapter_cancel(c)
  \/ \E w \in Worker : Database(w)
  \/ \E c \in Cid : Trades(c) \/ Closes(c) \/ Ages(c)
  \/ DayRolls \/ Crash

Spec == Init /\ [][Next]_vars

(* The loop, submits and cancels run on, Postgres answers, time passes. *)
FairSpec ==
  /\ Spec
  /\ WF_vars(SteadyStep)
  /\ \A c \in Cid : WF_vars(SubmitStep(c)) /\ WF_vars(adapter_cancel(c)) /\ WF_vars(Ages(c))
  /\ \A w \in Worker : WF_vars(Database(w))

-----------------------------------------------------------------------------

(* No row is bound to the venue order of another row, although the match is *)
(* on symbol, side, quantity, price and time.  It holds as long as orders   *)
(* like each other reach the venue or are rejected: when one is lost on its *)
(* way, its row can be bound to the other's order.                          *)
HandleIsOwn == \A c \in Cid : orders[c] # NULL => orders[c].broker_order_id \in {NULL, c}

(* No order that is working at the venue is declared over.  It is not       *)
(* CANCELLED or EXPIRED on any day, whichever of cancel, loop and burst     *)
(* closes it; within the venue's day it is not REJECTED, neither after      *)
(* sixty seconds without an ack nor because the book holds more than one    *)
(* order like it.                                                           *)
NoFalseEnd ==
  \A c \in Cid : Live(c) =>
    /\ StatusOf(c) \notin {"CANCELLED", "EXPIRED"}
    /\ day = 0 => StatusOf(c) # "REJECTED"

(* The fills recorded for an order are fills the venue made. *)
FillsAreMatched == \A c \in Cid : filled_qty(c) <= venue[c].matched

(* No order stays PENDING_NEW: a lost ack is repaired or the order rejected *)
(* after sixty seconds, also when the process died in between.              *)
AckSettles == \A c \in Cid : StatusOf(c) = "PENDING_NEW" ~> StatusOf(c) # "PENDING_NEW"

(* An order the venue filled completely ends FILLED, unless a cancel or the *)
(* end of the day came first.                                               *)
FillSettles ==
  \A c \in Cid :
    StatusOf(c) \in {"NEW", "PARTIALLY_FILLED"} /\ venue[c].matched = OrderQty
      ~> StatusOf(c) \in {"FILLED", "PENDING_CANCEL"} \/ day = 1

(* No order stays PENDING_CANCEL within the venue's day                     *)
(* (state-machine.md:90).                                                   *)
CancelSettles ==
  \A c \in Cid : StatusOf(c) = "PENDING_CANCEL" ~> StatusOf(c) # "PENDING_CANCEL" \/ day = 1

=============================================================================
