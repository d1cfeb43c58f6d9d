----------------------------- MODULE StreamingPro -----------------------------
(***************************************************************************)
(* adapters/streaming_pro: the placement and the cancel of the adapter,    *)
(* with its cache of order references, and the reconciler that repairs the *)
(* rows from the venue's book, one front (market) after the other.         *)
(*                                                                         *)
(* The venue numbers the order of c with c, and the second number that a   *)
(* SET cancel must carry is c as well, so that a request is for the wrong  *)
(* order when it carries another number.                                   *)
(***************************************************************************)
EXTENDS OrderStore

CONSTANTS
  OrderQty,     \* the quantity of every order
  Markets,      \* the assignments of orders to markets
  Alike,        \* <<c, d>>: the listing of d has symbol, side, price and time of c
  Faults,       \* what venue, callers and process may do: see the actions
  MaxOutages    \* how often a read of the book fails

ASSUME StreamingProAssumption ==
  /\ OrderQty \in Nat \ {0} /\ MaxOutages \in Nat
  /\ Markets \subseteq [Cid -> {"SET", "TFEX"}] /\ Alike \subseteq Cid \X Cid

VARIABLES
  venue,             \* [Cid -> VenueOrder]
  _order_ref_cache,  \* [Cid -> Cid \cup {NULL}]: the order number of a placement
  cancels,           \* <<c, order_no, ext_order_no>>: the cancels sent to the venue
  age,               \* [Cid -> Age] of the row, by the two windows of the reconciler
  outages,           \* reads of the book that failed
  crashed,           \* whether the process died once
  market,            \* [Cid -> {"SET", "TFEX"}]
  proc               \* [Worker -> Proc]: the coroutines

proVars == <<venue, _order_ref_cache, cancels, age, outages, crashed, market, proc>>
vars == <<storeVars, proVars>>

VenueOrder == [state : {"none", "resting", "cancelled", "rejected", "expired"},
               matched : 0 .. OrderQty]
Age == {"fresh", "stuck", "old"}

Steady == <<"steady", NULL>>
Submit(c) == <<"submit", c>>
Cancel(c) == <<"cancel", c>>
Coroutines == {Steady} \cup {Submit(c) : c \in Cid} \cup {Cancel(c) : c \in Cid}

(* A coroutine: where it is suspended, and the snapshots it works from. *)
NoRows == [c \in Cid |-> NULL]
At(label) ==
  [pc |-> label, rows |-> NoRows, groups |-> {}, todo |-> {}, items |-> NoRows, claimed |-> {},
   age |-> [c \in Cid |-> "fresh"], plan |-> <<>>, order_no |-> NULL]

Goto(w, label) == proc' = [proc EXCEPT ![w].pc = label]
Finish(w, label) == proc' = [proc EXCEPT ![w] = At(label)]

Init ==
  /\ StoreInit
  /\ venue = [c \in Cid |-> [state |-> "none", matched |-> 0]]
  /\ _order_ref_cache = NoRows
  /\ cancels = {}
  /\ age = [c \in Cid |-> "fresh"]
  /\ outages = 0 /\ crashed = FALSE
  /\ market \in Markets
  /\ proc = [w \in Worker |-> At("start")]

Live(c) == venue[c].state = "resting" /\ venue[c].matched < OrderQty
Closed == {c \in Cid : venue[c].state \in {"cancelled", "rejected", "expired"}}

(* The book of a front.  With the fault "gone" a closed order may be missing *)
(* from it; with "garbled" it is a body without rows, read as an empty book; *)
(* with "day" it lists nothing of an earlier day.                            *)
Books(m) ==
  {[c \in Cid |-> IF venue[c].state # "none" /\ market[c] = m /\ c \notin gone
                  THEN venue[c] ELSE NULL] :
     gone \in (SUBSET (IF "gone" \in Faults THEN Closed ELSE {}))
              \cup (IF {"garbled", "day"} \cap Faults # {} THEN {Cid} ELSE {})}
-----------------------------------------------------------------------------
(* The decisions of the reconciler: one local row and one snapshot of a front. *)

Candidates(c, items, claimed) ==
  {no \in Cid \ claimed : items[no] # NULL /\ (no = c \/ <<c, no>> \in Alike)}

fuzzy_match(c, items, claimed) ==
  LET candidates == Candidates(c, items, claimed)
  IN IF Cardinality(candidates) = 1 THEN CHOOSE no \in candidates : TRUE ELSE NULL

ambiguous(c, items, claimed) == Cardinality(Candidates(c, items, claimed)) > 1

Status(c, state) == [op |-> "update_status", cid |-> c, new |-> state]
Reason(c) == [op |-> "set_reject_reason", cid |-> c]

(* An action of the plan is the repository calls _execute makes for it. *)
ack(c, no) == <<[op |-> "ack_order", cid |-> c, broker_order_id |-> no]>>
fill(c, no, matched, delta) ==
  <<[op |-> "apply_fill", cid |-> c, total |-> OrderQty,
     fill |-> [id |-> <<no, matched>>, quantity |-> delta]]>>
close(c) == <<Status(c, "PENDING_CANCEL"), Status(c, "CANCELLED")>>
cancel_confirm(c) == <<Status(c, "CANCELLED")>>
reject(c) == <<Status(c, "REJECTED"), Reason(c)>>

_venue_terminal_actions(c, row, item) ==
  CASE item.state = "cancelled" -> <<close(c)>>
    [] item.state = "expired" -> <<<<Status(c, "EXPIRED")>>>>
    [] item.state = "rejected" ->
         <<IF row.status = "PENDING_NEW" THEN reject(c) ELSE <<Reason(c)>> \o close(c)>>
    [] OTHER -> <<>>

(* Variant: an ambiguous match counts as an absent order. *)
plan_absent_ambiguous(c, row, now_age, unsure) ==
  CASE row.status = "PENDING_NEW" /\ now_age = "old" -> <<reject(c)>>
    [] row.status = "PENDING_CANCEL" -> <<cancel_confirm(c)>>
    [] OTHER -> <<>>

(* Variant: an absent order is never given up. *)
plan_absent_waits(c, row, now_age, unsure) ==
  IF row.status = "PENDING_CANCEL" THEN <<cancel_confirm(c)>> ELSE <<>>

(* plan_actions for a row the book does not have: absence confirms a cancel. *)
plan_absent(c, row, now_age, unsure) ==
  CASE row.status = "PENDING_NEW" /\ ~unsure /\ now_age = "old" -> <<reject(c)>>
    [] row.status = "PENDING_CANCEL" -> <<cancel_confirm(c)>>
    [] OTHER -> <<>>

(* Variant: the whole matched quantity, whatever is recorded already. *)
plan_fill_cumulative(c, filled, no, item) ==
  IF item.matched > filled THEN <<fill(c, no, item.matched, item.matched)>> ELSE <<>>

(* A fill has the price of the listing, else the limit; without either it is *)
(* skipped.                                                                  *)
plan_fill(c, filled, no, item) ==
  IF item.matched > filled /\ "unpriced" \notin Faults
  THEN <<fill(c, no, item.matched, item.matched - filled)>> ELSE <<>>

(* plan_actions for a row and its venue counterpart. *)
plan_present(c, row, filled, no, item) ==
  LET terminal == _venue_terminal_actions(c, row, item)
      acked == IF row.status = "PENDING_NEW" THEN <<ack(c, no)>> ELSE <<>>
  IN CASE row.status = "PENDING_NEW" /\ item.state = "rejected" -> terminal
       [] row.status = "PENDING_CANCEL" ->
            IF item.state \in {"cancelled", "expired"} THEN <<cancel_confirm(c)>> ELSE <<>>
       [] OTHER -> acked \o plan_fill(c, filled, no, item)
                   \o (IF item.matched < OrderQty THEN terminal ELSE <<>>)
-----------------------------------------------------------------------------
(* A pass of the reconciler. *)

WorkingSet == [c \in Cid |-> IF StatusOf(c) \in RECONCILE_STATES THEN orders[c] ELSE NULL]

reconcile_once ==
  /\ proc[Steady].pc = "start"
  /\ WorkingSet # NoRows
  /\ proc' = [proc EXCEPT ![Steady] = [At("fetch_venue_orders") EXCEPT
       !.rows = WorkingSet, !.age = age,
       !.groups = {market[c] : c \in {d \in Cid : WorkingSet[d] # NULL}}]]
  /\ UNCHANGED <<storeVars, venue, _order_ref_cache, cancels, age, outages, crashed, market>>

(* A front that cannot be read is skipped; a row that does not validate ends *)
(* the pass.                                                                 *)
fetch_venue_orders ==
  /\ proc[Steady].pc = "fetch_venue_orders"
  /\ \E m \in proc[Steady].groups :
       LET rows == proc[Steady].rows
           group == {c \in Cid : rows[c] # NULL /\ market[c] = m}
           skipped == proc[Steady].groups \ {m}
       IN \/ /\ \E book \in Books(m) :
                  proc' = [proc EXCEPT ![Steady].pc = "_apply_row", ![Steady].items = book,
                    ![Steady].groups = skipped, ![Steady].todo = group,
                    ![Steady].claimed = {rows[c].broker_order_id : c \in group} \ {NULL}]
             /\ UNCHANGED outages
          \/ /\ outages < MaxOutages
             /\ outages' = outages + 1
             /\ \/ Finish(Steady, "start")
                \/ skipped # {} /\ proc' = [proc EXCEPT ![Steady].groups = skipped]
  /\ UNCHANGED <<storeVars, venue, _order_ref_cache, cancels, age, crashed, market>>

_apply_row ==
  /\ proc[Steady].pc = "_apply_row"
  /\ \E c \in proc[Steady].todo :
       LET p == proc[Steady]
           row == p.rows[c]
           known == row.broker_order_id
           bound == known # NULL /\ p.items[known] # NULL
           fuzzy == ~bound /\ row.status = "PENDING_NEW" /\ p.age[c] # "fresh"
           no == IF bound THEN known
                 ELSE IF fuzzy THEN fuzzy_match(c, p.items, p.claimed) ELSE NULL
       IN proc' = [proc EXCEPT ![Steady].pc = "_execute", ![Steady].todo = @ \ {c},
            ![Steady].claimed = IF no = NULL THEN @ ELSE @ \cup {no},
            ![Steady].plan =
              IF no = NULL
              THEN plan_absent(c, row, p.age[c], fuzzy /\ ambiguous(c, p.items, p.claimed))
              ELSE plan_present(c, row, filled_qty(c), no, p.items[no])]
  /\ UNCHANGED <<storeVars, venue, _order_ref_cache, cancels, age, outages, crashed, market>>

(* The calls of a plan; one that raises ends its action, not the plan. *)
Rest ==
  LET plan == proc[Steady].plan
  IN IF proc[Steady].pc = "executing" /\ (call[Steady].op = "raised" \/ Head(plan) = <<>>)
     THEN Tail(plan) ELSE plan

_execute ==
  /\ proc[Steady].pc \in {"_execute", "executing"} /\ Returned(Steady)
  /\ IF Rest # <<>>
     THEN /\ Invoke(Steady, Head(Head(Rest)))
          /\ proc' = [proc EXCEPT ![Steady].pc = "executing",
                                 ![Steady].plan = <<Tail(Head(Rest))>> \o Tail(Rest)]
     ELSE /\ CASE proc[Steady].todo # {} ->
                    proc' = [proc EXCEPT ![Steady].pc = "_apply_row", ![Steady].plan = <<>>]
               [] proc[Steady].todo = {} /\ proc[Steady].groups # {} ->
                    proc' = [proc EXCEPT ![Steady].pc = "fetch_venue_orders", ![Steady].plan = <<>>]
               [] OTHER -> Finish(Steady, "start")
          /\ UNCHANGED storeVars
  /\ UNCHANGED <<venue, _order_ref_cache, cancels, age, outages, crashed, market>>
-----------------------------------------------------------------------------
(* The submit of an order and the placement of the adapter. *)

submit(c) ==
  /\ proc[Submit(c)].pc = "start"
  /\ Invoke(Submit(c), [op |-> "insert_order", cid |-> c, quantity |-> OrderQty])
  /\ Goto(Submit(c), "inserting")
  /\ UNCHANGED <<venue, _order_ref_cache, cancels, age, outages, crashed, market>>

inserted(c) ==
  /\ proc[Submit(c)].pc = "inserting" /\ Returned(Submit(c))
  /\ Goto(Submit(c), IF call[Submit(c)].op = "ok" THEN "place" ELSE "done")
  /\ UNCHANGED <<storeVars, venue, _order_ref_cache, cancels, age, outages, crashed, market>>

(* The answers of the bridge to a placement: numbered; accepted without a    *)
(* number, which the adapter reports as a rejection; rejected; none at all,  *)
(* the request delivered or lost.                                            *)
Placements ==
  {"numbered", "unanswered"}
  \cup (Faults \cap {"unnumbered", "rejects", "lost_request"})

place(c) ==
  LET w == Submit(c) IN
  /\ proc[w].pc = "place"
  /\ \E outcome \in Placements :
       /\ venue' = IF outcome \in {"rejects", "lost_request"} THEN venue
                   ELSE [venue EXCEPT ![c].state = "resting"]
       /\ _order_ref_cache' = IF outcome = "numbered" THEN [_order_ref_cache EXCEPT ![c] = c]
                              ELSE _order_ref_cache
       /\ CASE outcome = "numbered" -> Invoke(w, Head(ack(c, c))) /\ Goto(w, "done")
            [] outcome \in {"unnumbered", "rejects"} ->
                 Invoke(w, Status(c, "REJECTED")) /\ Goto(w, "rejecting")
            [] OTHER -> Goto(w, "done") /\ UNCHANGED storeVars
  /\ UNCHANGED <<cancels, age, outages, crashed, market>>

rejecting(c) ==
  /\ proc[Submit(c)].pc = "rejecting" /\ Returned(Submit(c))
  /\ Goto(Submit(c), "done")
  /\ IF call[Submit(c)].op = "ok" THEN Invoke(Submit(c), Reason(c)) ELSE UNCHANGED storeVars
  /\ UNCHANGED <<venue, _order_ref_cache, cancels, age, outages, crashed, market>>
-----------------------------------------------------------------------------
(* The cancel of an order: the router marks the row, the adapter finds the   *)
(* numbers of the order, and the venue answers or does not.                  *)

mark(c) ==
  /\ "cancel" \in Faults
  /\ proc[Cancel(c)].pc = "start" /\ StatusOf(c) \in {"NEW", "PARTIALLY_FILLED"}
  /\ Invoke(Cancel(c), Status(c, "PENDING_CANCEL"))
  /\ Goto(Cancel(c), "cancel")
  /\ UNCHANGED <<venue, _order_ref_cache, cancels, age, outages, crashed, market>>

(* _resolve_order_from_store, behind the cache of this process. *)
_resolve_order(c) ==
  IF _order_ref_cache[c] # NULL THEN _order_ref_cache[c] ELSE orders[c].broker_order_id

cancel(c) ==
  LET w == Cancel(c)
      no == _resolve_order(c)
  IN
  /\ proc[w].pc = "cancel" /\ Returned(w)
  /\ IF call[w].op # "ok" \/ no = NULL
     THEN Finish(w, "done")
     ELSE proc' = [proc EXCEPT ![w].order_no = no,
                     ![w].pc = IF market[c] = "SET" THEN "_lookup_ext_order_no" ELSE "post"]
  /\ UNCHANGED <<storeVars, venue, _order_ref_cache, cancels, age, outages, crashed, market>>

(* Variant: the order number stands in for a second number not found. *)
_lookup_ext_order_no_guess(c) ==
  /\ proc[Cancel(c)].pc = "_lookup_ext_order_no"
  /\ Goto(Cancel(c), "post")
  /\ UNCHANGED <<storeVars, venue, _order_ref_cache, cancels, age, outages, crashed, market>>

(* A SET cancel needs the second number, from the row of the order in the    *)
(* book.  Without it the cancel is refused.                                  *)
_lookup_ext_order_no(c) ==
  LET w == Cancel(c) IN
  /\ proc[w].pc = "_lookup_ext_order_no"
  /\ \/ /\ \E book \in Books("SET") :
             IF book[proc[w].order_no] = NULL THEN Finish(w, "done")
             ELSE proc' = [proc EXCEPT ![w].pc = "post", ![w].claimed = {proc[w].order_no}]
        /\ UNCHANGED outages
     \/ outages < MaxOutages /\ outages' = outages + 1 /\ Finish(w, "done")
  /\ UNCHANGED <<storeVars, venue, _order_ref_cache, cancels, age, crashed, market>>

(* The venue cancels a live order and confirms it, or its answer is lost; or *)
(* it refuses; or the request never arrives.  Only a confirmation closes the *)
(* row.                                                                      *)
post(c) ==
  LET w == Cancel(c)
      no == proc[w].order_no
  IN
  /\ proc[w].pc = "post"
  /\ cancels' = cancels \cup {<<c, no, proc[w].claimed>>}
  /\ \/ /\ Live(no)
        /\ venue' = [venue EXCEPT ![no].state = "cancelled"]
        /\ Invoke(w, Status(c, "CANCELLED")) \/ UNCHANGED storeVars
     \/ UNCHANGED <<storeVars, venue>>
  /\ Finish(w, "done")
  /\ UNCHANGED <<_order_ref_cache, age, outages, crashed, market>>
-----------------------------------------------------------------------------
(* The venue trades and closes orders; time passes; the process dies. *)

Trades(c) ==
  /\ Live(c)
  /\ venue' = [venue EXCEPT ![c].matched = @ + 1]
  /\ UNCHANGED <<storeVars, _order_ref_cache, cancels, age, outages, crashed, market, proc>>

Closes(c) ==
  /\ "closes" \in Faults /\ Live(c)
  /\ \E state \in {"cancelled", "rejected", "expired"} :
       venue' = [venue EXCEPT ![c].state = state]
  /\ UNCHANGED <<storeVars, _order_ref_cache, cancels, age, outages, crashed, market, proc>>

(* A placement is over before its row counts as stuck, unless the limiter    *)
(* holds it back longer ("slow_place").                                      *)
Ages(c) ==
  /\ StatusOf(c) = "PENDING_NEW"
  /\ \/ /\ age[c] = "fresh"
        /\ \/ "slow_place" \in Faults
           \/ proc[Submit(c)].pc = "done" /\ Returned(Submit(c))
        /\ age' = [age EXCEPT ![c] = "stuck"]
     \/ /\ age[c] = "stuck"
        /\ age' = [age EXCEPT ![c] = "old"]
  /\ UNCHANGED <<storeVars, venue, _order_ref_cache, cancels, outages, crashed, market, proc>>

(* A restart begins with an empty cache. *)
Crash ==
  /\ "crash" \in Faults /\ ~crashed
  /\ crashed' = TRUE
  /\ StoreCrash
  /\ _order_ref_cache' = NoRows
  /\ proc' = [w \in Worker |-> IF w = Steady \/ proc[w].pc = "start" THEN At("start") ELSE At("done")]
  /\ UNCHANGED <<venue, cancels, age, outages, market>>

SteadyStep == reconcile_once \/ fetch_venue_orders \/ _apply_row \/ _execute
SubmitStep(c) == inserted(c) \/ place(c) \/ rejecting(c)
CancelStep(c) == cancel(c) \/ _lookup_ext_order_no(c) \/ post(c)
Database(w) == StoreStep(w) /\ UNCHANGED proVars

Next ==
  \/ SteadyStep
  \/ \E c \in Cid : submit(c) \/ SubmitStep(c) \/ mark(c) \/ CancelStep(c)
  \/ \E w \in Worker : Database(w)
  \/ \E c \in Cid : Trades(c) \/ Closes(c) \/ Ages(c)
  \/ Crash

Spec == Init /\ [][Next]_vars

(* The loop, submits and cancels run on, Postgres answers, time passes. *)
FairSpec ==
  /\ Spec
  /\ WF_vars(SteadyStep)
  /\ \A c \in Cid : WF_vars(SubmitStep(c)) /\ WF_vars(CancelStep(c)) /\ WF_vars(Ages(c))
  /\ \A w \in Worker : WF_vars(Database(w))
-----------------------------------------------------------------------------
(* No row is bound to the venue order of another row, and every cancel the   *)
(* engine sends names the order it was asked to cancel: by its own number,   *)
(* and on SET by its own second number as well, whether the reference came   *)
(* from the cache, from the store after a restart, or from a fuzzy match     *)
(* (adapter.cancel, "a wrong cancel is not" recoverable).  It holds as long  *)
(* as of two orders like each other both reach the venue.                    *)
NumbersAreOwn ==
  /\ \A c \in Cid : orders[c] # NULL => orders[c].broker_order_id \in {NULL, c}
  /\ \A k \in cancels : /\ k[2] = k[1]
                        /\ k[3] = IF market[k[1]] = "SET" THEN {k[1]} ELSE {}

(* No order that works at the venue is declared over: not REJECTED after     *)
(* sixty seconds without an ack or because the book holds several like it    *)
(* (plan_actions, [[TK-0493]]), and not CANCELLED or EXPIRED, though absence *)
(* from the book confirms a cancel ([[TK-0459]]).                            *)
NoFalseEnd ==
  \A c \in Cid : Live(c) => StatusOf(c) \notin {"REJECTED", "CANCELLED", "EXPIRED"}

(* The fills recorded for an order are fills the venue made. *)
FillsAreMatched == \A c \in Cid : filled_qty(c) <= venue[c].matched

(* A row whose ack was lost is bound, or rejected after sixty seconds, also    *)
(* when the process died in between, unless an order like it is at the venue. *)
AckSettles ==
  \A c \in Cid :
    StatusOf(c) = "PENDING_NEW"
      ~> \/ StatusOf(c) # "PENDING_NEW"
         \/ \E d \in Cid : <<c, d>> \in Alike /\ venue[d].state # "none"
=============================================================================
