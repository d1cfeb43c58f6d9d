------------------------------ MODULE OrderRouter ------------------------------
(***************************************************************************)
(* core/router.py: submit, cancel, amend and mass_cancel as coroutines     *)
(* that interleave at every await, with what they depend on: the           *)
(* single-flight lock and the kill switch in Redis, the session breaker,   *)
(* the durable store (module OrderStore) and the venue behind the adapter. *)
(*                                                                         *)
(* A task is one API call.  pc[t] names the await it is at; job[t] holds   *)
(* its locals.  Workers that are not tasks stand for the reconcilers: they *)
(* may issue any repository call a reconciler issues, on any row, any time.*)
(***************************************************************************)
EXTENDS OrderStore, Functions

CONSTANTS
  Task,          \* API calls, a subset of Worker
  Ops,           \* the operations the tasks may be
  SimAdapter,    \* orders that resolve to the sim adapter
  NativeAmend,   \* those of them whose broker declares amend "native"
  OrderQty,      \* quantity of a submitted order
  FillPlans,     \* metadata.sim_fills: sequences of quantities
  AmendQty,      \* new_qty of an amend; NULL is a price-only amend
  Faults,        \* what fails around the router: "lock_ttl", "redis"
  MaxCrashes     \* how often the process dies

Ack == {"rejected", "handle", "no_handle", "error", "ok", "refused"}
Answer == {"refused", "duplicate", "accepted", "unknown", "failed", "cancelled",
           "amended", "swept"}

ASSUME RouterAssumption ==
  /\ Task \subseteq Worker
  /\ NativeAmend \subseteq SimAdapter /\ SimAdapter \subseteq Cid
  /\ Cid \subseteq BrokerOrderId
  /\ OrderQty \in Quantity
  /\ AmendQty \subseteq Quantity \cup {NULL}
  /\ \A plan \in FillPlans :
       plan \in Seq(Quantity) /\ DOMAIN plan \subseteq FillId
  /\ FillId # {}
  /\ MaxCrashes \in Nat
  /\ NULL \notin Cid \cup Worker \cup Quantity
  /\ NULL \notin Answer

VARIABLES
  pc,             \* [Task -> label]
  job,            \* [Task -> Job]
  lock,           \* [Cid -> Task \cup {NULL}]: the keys exe:submit:<cid>
  kill_switch,    \* BOOLEAN: the Redis kill-switch key
  redis_up,       \* BOOLEAN
  breaker_open,   \* BOOLEAN: the real adapter's session breaker
  venue,          \* [Cid -> {"none", "live", "gone"}]: the venue's own book
  placed,         \* [Cid -> Nat]: calls of adapter.place
  crashes         \* 0 .. MaxCrashes

worldVars == <<kill_switch, redis_up, breaker_open, venue, placed, crashes>>
envVars == <<lock, worldVars>>
vars == <<storeVars, pc, job, envVars>>

Background == Worker \ Task

Job == [op : Ops \cup {NULL}, cid : Cid \cup {NULL}, new_cid : Cid \cup {NULL},
        replaces : Cid \cup {NULL}, qty : Quantity \cup {NULL}, ack : Ack \cup {NULL},
        fills : Seq(Fill), plan : Seq(Command), ioc : BOOLEAN, rows : SUBSET Cid, failed : BOOLEAN,
        partial : BOOLEAN, answer : Answer \cup {NULL}]

NewJob(op, cid, new_cid, qty, answer) ==
  [op |-> op, cid |-> cid, new_cid |-> new_cid, replaces |-> NULL, qty |-> qty,
   ack |-> NULL, fills |-> <<>>, plan |-> <<>>, ioc |-> FALSE, rows |-> {},
   failed |-> FALSE, partial |-> FALSE, answer |-> answer]

NoJob == NewJob(NULL, NULL, NULL, NULL, NULL)

Init ==
  /\ StoreInit
  /\ pc = [t \in Task |-> "start"]
  /\ job = [t \in Task |-> NoJob]
  /\ lock = [c \in Cid |-> NULL]
  /\ kill_switch = FALSE
  /\ redis_up = TRUE
  /\ breaker_open = FALSE
  /\ venue = [c \in Cid |-> "none"]
  /\ placed = [c \in Cid |-> 0]
  /\ crashes = 0

-----------------------------------------------------------------------------
(* Helpers.  A task that awaits a repository call resumes once the call    *)
(* has returned.                                                           *)

Goto(t, label) == pc' = [pc EXCEPT ![t] = label]
Ok(t) == call[t].op = "ok"
Raised(t) == call[t].op = "raised"

(* The answer is all a finished task leaves behind. *)
Answered(t, answer) == NewJob(job[t].op, job[t].cid, NULL, NULL, answer)

Finish(t, answer) ==
  /\ Goto(t, "done")
  /\ job' = [job EXCEPT ![t] = Answered(t, answer)]

(* KillSwitch.status: an unreadable key counts as disengaged. *)
engaged == kill_switch /\ redis_up

(* adapter.breaker.guard: a sim adapter's breaker never trips. *)
guard_raises(c) == breaker_open /\ c \notin SimAdapter

(* Compare-and-delete of the lock by its holder; a failed release leaves   *)
(* the key to its TTL.                                                     *)
release(t, c) ==
  lock' = IF redis_up /\ lock[c] = t THEN [lock EXCEPT ![c] = NULL] ELSE lock

(* The exits of single_flight, and the next repository call inside it. *)
Leave(t, answer) ==
  /\ Finish(t, answer)
  /\ release(t, job[t].cid)
  /\ UNCHANGED storeVars

Await(t, command, label) ==
  /\ Invoke(t, command)
  /\ Goto(t, label)
  /\ UNCHANGED <<job, lock>>

Begin(t) ==
  /\ pc[t] = "start"
  /\ \E op \in Ops, c \in Cid :
       \/ /\ op = "submit"
          /\ job' = [job EXCEPT ![t] = NewJob(op, c, NULL, OrderQty, NULL)]
          /\ Goto(t, "submit")
       \/ /\ op = "cancel"
          /\ job' = [job EXCEPT ![t] = NewJob(op, c, NULL, NULL, NULL)]
          /\ Goto(t, "cancel")
       \/ /\ op = "amend"
          /\ \E n \in {d \in Cid : d \in SimAdapter <=> c \in SimAdapter} \cup {NULL},
                q \in AmendQty :
               job' = [job EXCEPT ![t] = NewJob(op, c, n, q, NULL)]
          /\ Goto(t, "amend")
       \/ /\ op \in {"engage", "disengage", "trip"}
          /\ job' = [job EXCEPT ![t] = NewJob(op, NULL, NULL, NULL, NULL)]
          /\ Goto(t, op)
  /\ UNCHANGED <<storeVars, envVars>>

-----------------------------------------------------------------------------
(* submit: the kill switch first, then the deduplicating read, then the    *)
(* risk, price-band and routing gates, which may refuse for reasons of     *)
(* their own.                                                              *)

submit(t) ==
  /\ pc[t] = "submit"
  /\ IF engaged THEN Finish(t, "refused")
                ELSE Goto(t, "dedupe") /\ UNCHANGED job
  /\ UNCHANGED <<storeVars, envVars>>

submit_dedupe(t) ==
  /\ pc[t] = "dedupe"
  /\ IF orders[job[t].cid] # NULL THEN Finish(t, "duplicate")
                                  ELSE Goto(t, "gate") /\ UNCHANGED job
  /\ UNCHANGED <<storeVars, envVars>>

submit_gate(t) ==
  /\ pc[t] = "gate"
  /\ \/ Finish(t, "refused")
     \/ ~guard_raises(job[t].cid) /\ Goto(t, "single_flight") /\ UNCHANGED job
  /\ UNCHANGED <<storeVars, envVars>>

(* With Redis down every submit counts as the holder. *)
single_flight(t) ==
  /\ pc[t] = "single_flight"
  /\ LET c == job[t].cid IN
     IF redis_up /\ lock[c] # NULL
     THEN /\ Goto(t, "await_concurrent")
          /\ UNCHANGED <<storeVars, lock>>
     ELSE /\ lock' = IF redis_up THEN [lock EXCEPT ![c] = t] ELSE lock
          /\ Invoke(t, [op |-> "insert_order", cid |-> c, quantity |-> job[t].qty])
          /\ Goto(t, "inserting")
  /\ UNCHANGED <<job, worldVars>>

(* _await_concurrent polls for the holder's row until its budget is spent. *)
await_concurrent(t) ==
  /\ pc[t] = "await_concurrent"
  /\ Finish(t, IF orders[job[t].cid] # NULL THEN "duplicate" ELSE "refused")
  /\ UNCHANGED <<storeVars, envVars>>

(* Variant: a collision on the primary key counts as this call's insert. *)
submit_inserted_twice(t) ==
  /\ pc[t] = "inserting"
  /\ \/ /\ call[t].op \in {"ok", "duplicate"}
        /\ Goto(t, "place")
        /\ UNCHANGED <<job, lock>>
     \/ /\ Raised(t)
        /\ Finish(t, "failed")
        /\ release(t, job[t].cid)
  /\ UNCHANGED <<storeVars, worldVars>>

submit_inserted(t) ==
  /\ pc[t] = "inserting"
  /\ \/ /\ Ok(t)
        /\ Goto(t, "place")
        /\ UNCHANGED <<job, lock>>
     \/ /\ call[t].op \in {"duplicate", "raised"}
        /\ Finish(t, IF Raised(t) THEN "failed" ELSE "duplicate")
        /\ release(t, job[t].cid)
  /\ UNCHANGED <<storeVars, worldVars>>

-----------------------------------------------------------------------------
(* adapter.place.  A real venue may accept the order and answer with or    *)
(* without a handle, or accept it and the answer be lost; it may reject;   *)
(* the request may never arrive.  The sim adapter rejects when its plan    *)
(* says so, is too large or is not what a FOK order needs, and answers     *)
(* with the fills of the plan; an IOC order asks for its remainder to be   *)
(* cancelled.                                                              *)

real_place(t) ==
  /\ job[t].cid \notin SimAdapter
  /\ \/ /\ venue' = [venue EXCEPT ![job[t].cid] = "live"]
        /\ \E ack \in {"handle", "no_handle", "error"} :
             job' = [job EXCEPT ![t].ack = ack]
     \/ /\ \E ack \in {"rejected", "error"} : job' = [job EXCEPT ![t].ack = ack]
        /\ UNCHANGED venue

sim_place(t) ==
  /\ job[t].cid \in SimAdapter
  /\ \E plan \in FillPlans, ioc, refuse \in BOOLEAN :
       LET filled == SumFunction(plan) IN
       job' = [job EXCEPT ![t] =
         IF refuse \/ filled > job[t].qty
         THEN [@ EXCEPT !.ack = "rejected"]
         ELSE [@ EXCEPT !.ack = "handle",
                 !.fills = [i \in DOMAIN plan |-> [id |-> i, quantity |-> plan[i]]],
                 !.ioc = ioc /\ filled < job[t].qty]]
  /\ UNCHANGED venue

place(t) ==
  /\ pc[t] = "place"
  /\ placed' = [placed EXCEPT ![job[t].cid] = @ + 1]
  /\ real_place(t) \/ sim_place(t)
  /\ Goto(t, "placed")
  /\ UNCHANGED <<storeVars, lock, kill_switch, redis_up, breaker_open, crashes>>


(* _place_and_settle after the adapter has answered. *)
settle(t) ==
  /\ pc[t] = "placed"
  /\ LET c == job[t].cid IN
     \/ /\ job[t].ack = "rejected"
        /\ Await(t, [op |-> "update_status", cid |-> c, new |-> "REJECTED"], "rejecting")
     \/ /\ job[t].ack = "handle"
        /\ Await(t, [op |-> "ack_order", cid |-> c, broker_order_id |-> c], "settling")
     \/ /\ job[t].ack = "no_handle"
        /\ Goto(t, "recover_handle")
        /\ UNCHANGED <<storeVars, job, lock>>
     \/ /\ job[t].ack = "error"
        /\ Leave(t, "failed")
  /\ UNCHANGED worldVars

(* update_status(REJECTED), then set_reject_reason. *)
rejecting(t) ==
  /\ pc[t] = "rejecting"
  /\ LET c == job[t].cid IN
     \/ Raised(t) /\ Leave(t, "failed")
     \/ /\ Ok(t)
        /\ Await(t, [op |-> "set_reject_reason", cid |-> c], "settled")
  /\ UNCHANGED worldVars

(* _recover_handle reads the venue's book until the order is found, and    *)
(* then repairs the row by the plan the book calls for, each action        *)
(* whether or not the one before it failed.  A read that does not find the *)
(* order changes nothing.  The burst is over long before a row may be      *)
(* rejected for a lost ack.                                                *)

Status(c, new) == [op |-> "update_status", cid |-> c, new |-> new]

Acking(c) == [op |-> "ack_order", cid |-> c, broker_order_id |-> c]
Matched(c, n, qty) ==
  [op |-> "apply_fill", cid |-> c, total |-> qty,
   fill |-> [id |-> CHOOSE id \in FillId : TRUE, quantity |-> n]]

FoundPlans(c, qty) ==
  {<<Acking(c)>>} \cup {<<Acking(c), Matched(c, n, qty)>> : n \in {m \in Quantity : m < qty}}
ClosePlans(c) ==
  {<<Status(c, "PENDING_CANCEL"), Status(c, "CANCELLED")>>, <<Status(c, "EXPIRED")>>}
GonePlans(c, qty) ==
  {<<Acking(c), Matched(c, qty, qty)>>,
   <<Status(c, "REJECTED"), [op |-> "set_reject_reason", cid |-> c]>>}
  \cup {found \o close : found \in FoundPlans(c, qty), close \in ClosePlans(c)}

RepairPlans(c, qty) ==
  {<<>>} \cup (IF venue[c] = "live" THEN FoundPlans(c, qty)
              ELSE IF venue[c] = "gone" THEN GonePlans(c, qty) ELSE {})

recover_handle(t) ==
  /\ pc[t] = "recover_handle"
  /\ \E plan \in RepairPlans(job[t].cid, job[t].qty) : job' = [job EXCEPT ![t].plan = plan]
  /\ Goto(t, "recovering")
  /\ UNCHANGED <<storeVars, envVars>>

(* An action of two calls is given up when its first call raised; it is    *)
(* the last of its plan.                                                   *)
Abandoned(t) ==
  /\ Raised(t) /\ job[t].plan # <<>>
  /\ Head(job[t].plan) \in
       {Status(job[t].cid, "CANCELLED"), [op |-> "set_reject_reason", cid |-> job[t].cid]}

recovering(t) ==
  /\ pc[t] = "recovering"
  /\ Returned(t)
  /\ \/ /\ job[t].plan # <<>> /\ ~Abandoned(t)
        /\ Invoke(t, Head(job[t].plan))
        /\ job' = [job EXCEPT ![t].plan = Tail(@)]
        /\ UNCHANGED <<pc, lock>>
     \/ /\ job[t].plan = <<>> \/ Abandoned(t)
        /\ Leave(t, IF orders[job[t].cid].status = "PENDING_NEW" THEN "unknown" ELSE "accepted")
  /\ UNCHANGED worldVars

(* The ack or a fill returned: apply the next fill, with the quantity the  *)
(* order was submitted with, or cancel an IOC remainder, or answer.        *)
settling(t) ==
  /\ pc[t] = "settling"
  /\ LET c == job[t].cid IN
     \/ Raised(t) /\ Leave(t, "failed")
     \/ /\ Ok(t) /\ job[t].fills # <<>>
        /\ Invoke(t, [op |-> "apply_fill", cid |-> c, fill |-> Head(job[t].fills),
                      total |-> job[t].qty])
        /\ job' = [job EXCEPT ![t].fills = Tail(@)]
        /\ UNCHANGED <<pc, lock>>
     \/ /\ Ok(t) /\ job[t].fills = <<>> /\ job[t].ioc
        /\ Await(t, [op |-> "update_status", cid |-> c, new |-> "PENDING_CANCEL"], "remainder")
     \/ /\ Ok(t) /\ job[t].fills = <<>> /\ ~job[t].ioc
        /\ Leave(t, "accepted")
  /\ UNCHANGED worldVars

(* The sim adapter confirms the cancel of the remainder at once. *)
remainder(t) ==
  /\ pc[t] = "remainder"
  /\ LET c == job[t].cid IN
     \/ Raised(t) /\ Leave(t, "failed")
     \/ /\ Ok(t)
        /\ Await(t, [op |-> "update_status", cid |-> c, new |-> "CANCELLED"], "settled")
  /\ UNCHANGED worldVars

(* The last write of _place_and_settle returned: leave single_flight. *)
settled(t) ==
  /\ pc[t] = "settled"
  /\ Returned(t)
  /\ Finish(t, IF Ok(t) THEN "accepted" ELSE "failed")
  /\ release(t, job[t].cid)
  /\ UNCHANGED <<storeVars, worldVars>>

-----------------------------------------------------------------------------
(* cancel, which a caller, cancel+replace amend and mass_cancel go through. *)

Sweeping(t) == job[t].op \in {"engage", "trip"}

(* Where a cancel continues: the sweep with its next row, the amend with   *)
(* the replacement order, a plain cancel with its answer.                  *)
CancelEnds(t, answer) ==
  \/ /\ Sweeping(t)
     /\ Goto(t, "sweep")
     /\ job' = [job EXCEPT ![t].ack = NULL, ![t].failed = @ \/ answer = "failed"]
  \/ /\ job[t].op = "amend" /\ answer = "cancelled"
     /\ Goto(t, "submit")
     /\ job' = [job EXCEPT ![t].replaces = job[t].cid, ![t].cid = job[t].new_cid,
                           ![t].ack = NULL]
  \/ /\ job[t].op = "cancel" \/ (job[t].op = "amend" /\ answer # "cancelled")
     /\ Finish(t, answer)

(* The routing ladder may refuse the order's account or broker, and an     *)
(* open breaker refuses.                                                   *)
cancel(t) ==
  /\ pc[t] = "cancel"
  /\ LET c == job[t].cid IN
     \/ /\ StatusOf(c) \in TERMINAL_STATES \cup {NULL, "PENDING_NEW", "PENDING_REPLACE"}
        /\ Finish(t, "refused")
        /\ UNCHANGED storeVars
     \/ /\ StatusOf(c) = "PENDING_CANCEL"
        /\ CancelEnds(t, "cancelled")
        /\ UNCHANGED storeVars
     \/ /\ StatusOf(c) \in OPEN_STATES
        /\ \/ Finish(t, "refused") /\ UNCHANGED storeVars
           \/ /\ ~guard_raises(c)
              /\ Invoke(t, [op |-> "update_status", cid |-> c, new |-> "PENDING_CANCEL"])
              /\ Goto(t, "marking")
              /\ UNCHANGED job
  /\ UNCHANGED envVars

cancel_marked(t) ==
  /\ pc[t] = "marking"
  /\ \/ Raised(t) /\ CancelEnds(t, "failed")
     \/ Ok(t) /\ Goto(t, "adapter_cancel") /\ UNCHANGED job
  /\ UNCHANGED <<storeVars, envVars>>

(* adapter.cancel: the venue takes a live order off its book, and the      *)
(* confirmation may be lost; or it refuses; or the request never arrives.  *)
adapter_cancel(t) ==
  /\ pc[t] = "adapter_cancel"
  /\ LET c == job[t].cid IN
     \/ /\ c \in SimAdapter
        /\ job' = [job EXCEPT ![t].ack = "ok"]
        /\ UNCHANGED venue
     \/ /\ c \notin SimAdapter /\ venue[c] = "live"
        /\ venue' = [venue EXCEPT ![c] = "gone"]
        /\ \E ack \in {"ok", "refused"} : job' = [job EXCEPT ![t].ack = ack]
     \/ /\ c \notin SimAdapter
        /\ job' = [job EXCEPT ![t].ack = "refused"]
        /\ UNCHANGED venue
  /\ Goto(t, "cancel_acked")
  /\ UNCHANGED <<storeVars, lock, kill_switch, redis_up, breaker_open, placed, crashes>>

(* Variant: the row is closed without the venue's confirmation. *)
cancel_acked_early(t) ==
  /\ pc[t] = "cancel_acked"
  /\ Invoke(t, [op |-> "update_status", cid |-> job[t].cid, new |-> "CANCELLED"])
  /\ Goto(t, "confirming")
  /\ UNCHANGED <<job, envVars>>

cancel_acked(t) ==
  /\ pc[t] = "cancel_acked"
  /\ \/ /\ job[t].ack = "refused"
        /\ CancelEnds(t, "failed")
        /\ UNCHANGED storeVars
     \/ /\ job[t].ack = "ok"
        /\ Invoke(t, [op |-> "update_status", cid |-> job[t].cid, new |-> "CANCELLED"])
        /\ Goto(t, "confirming")
        /\ UNCHANGED job
  /\ UNCHANGED envVars

cancel_confirmed(t) ==
  /\ pc[t] = "confirming"
  /\ Returned(t)
  /\ CancelEnds(t, IF Ok(t) THEN "cancelled" ELSE "failed")
  /\ UNCHANGED <<storeVars, envVars>>

-----------------------------------------------------------------------------
(* amend: the kill switch first, then the branch on the declared amend     *)
(* semantics.  cancel_replace needs a fresh id and goes through cancel;    *)
(* the replacement has the new quantity or the row's.                      *)

amend(t) ==
  /\ pc[t] = "amend"
  /\ IF engaged THEN Finish(t, "refused")
                ELSE Goto(t, "amend_fetch") /\ UNCHANGED job
  /\ UNCHANGED <<storeVars, envVars>>

amend_fetch(t) ==
  /\ pc[t] = "amend_fetch"
  /\ LET c == job[t].cid IN
     \/ /\ \/ orders[c] = NULL
           \/ c \notin NativeAmend /\ job[t].new_cid = NULL
           \/ c \in NativeAmend /\ job[t].new_cid # NULL
           \/ c \in NativeAmend /\ StatusOf(c) \notin OPEN_STATES
        /\ Finish(t, "refused")
     \/ /\ orders[c] # NULL /\ c \notin NativeAmend /\ job[t].new_cid # NULL
        /\ job' = [job EXCEPT ![t].qty = IF @ = NULL THEN orders[c].quantity ELSE @]
        /\ Goto(t, "cancel")
     \/ /\ StatusOf(c) \in OPEN_STATES /\ c \in NativeAmend /\ job[t].new_cid = NULL
        /\ Goto(t, "amend_native")
        /\ UNCHANGED job
  /\ UNCHANGED <<storeVars, envVars>>

(* The fill aggregate is read, the new quantity checked against it, the    *)
(* risk gate passed; then the row is marked PENDING_REPLACE.               *)
amend_native(t) ==
  /\ pc[t] = "amend_native"
  /\ LET c == job[t].cid IN
     \/ /\ Finish(t, "refused")
        /\ UNCHANGED storeVars
     \/ /\ job[t].qty # NULL => job[t].qty > filled_qty(c)
        /\ job' = [job EXCEPT ![t].partial = (filled_qty(c) # 0)]
        /\ Invoke(t, [op |-> "update_status", cid |-> c, new |-> "PENDING_REPLACE"])
        /\ Goto(t, "replace_marking")
  /\ UNCHANGED envVars

amend_marked(t) ==
  /\ pc[t] = "replace_marking"
  /\ \/ Raised(t) /\ Finish(t, "failed")
     \/ Ok(t) /\ Goto(t, "venue_amend") /\ UNCHANGED job
  /\ UNCHANGED <<storeVars, envVars>>

(* Variant: a refused amend leaves the row as it is. *)
venue_amend_forgets(t) ==
  /\ pc[t] = "venue_amend"
  /\ \/ /\ job' = [job EXCEPT ![t].ack = "ok"]
        /\ Invoke(t, [op |-> "replace_order", cid |-> job[t].cid, quantity |-> job[t].qty])
        /\ Goto(t, "replacing")
     \/ Finish(t, "failed") /\ UNCHANGED storeVars
  /\ UNCHANGED envVars

(* _venue_amend: a native adapter confirms, or refuses the amend and the   *)
(* row goes back to NEW.                                                   *)
venue_amend(t) ==
  /\ pc[t] = "venue_amend"
  /\ LET c == job[t].cid IN
     \/ /\ job' = [job EXCEPT ![t].ack = "ok"]
        /\ Invoke(t, [op |-> "replace_order", cid |-> c, quantity |-> job[t].qty])
     \/ /\ job' = [job EXCEPT ![t].ack = "refused"]
        /\ Invoke(t, [op |-> "update_status", cid |-> c, new |-> "NEW"])
  /\ Goto(t, "replacing")
  /\ UNCHANGED envVars

(* _restore_partial acts on the aggregate read before the amend. *)
amend_replaced(t) ==
  /\ pc[t] = "replacing"
  /\ \/ /\ Ok(t) /\ job[t].partial
        /\ Invoke(t, [op |-> "update_status", cid |-> job[t].cid, new |-> "PARTIALLY_FILLED"])
        /\ Goto(t, "restoring")
        /\ UNCHANGED job
     \/ /\ Raised(t) \/ (Ok(t) /\ ~job[t].partial)
        /\ Finish(t, IF Ok(t) /\ job[t].ack = "ok" THEN "amended" ELSE "failed")
        /\ UNCHANGED storeVars
  /\ UNCHANGED envVars

amend_restored(t) ==
  /\ pc[t] = "restoring"
  /\ Returned(t)
  /\ Finish(t, IF Ok(t) /\ job[t].ack = "ok" THEN "amended" ELSE "failed")
  /\ UNCHANGED <<storeVars, envVars>>

-----------------------------------------------------------------------------
(* The kill switch routes and the breaker trip, and the sweep they run.    *)

(* kill_switch_engage: a switch that reads as engaged answers without a    *)
(* second sweep.                                                           *)
engage(t) ==
  /\ pc[t] = "engage"
  /\ IF engaged THEN Finish(t, "duplicate")
                ELSE Goto(t, "trip_switch") /\ UNCHANGED job
  /\ UNCHANGED <<storeVars, envVars>>

trip_switch(t) ==
  /\ pc[t] = "trip_switch"
  /\ IF redis_up
     THEN Goto(t, "fetch_open") /\ kill_switch' = TRUE /\ UNCHANGED job
     ELSE Finish(t, "failed") /\ UNCHANGED kill_switch
  /\ UNCHANGED <<storeVars, lock, redis_up, breaker_open, venue, placed, crashes>>

disengage(t) ==
  /\ pc[t] = "disengage"
  /\ IF engaged THEN Goto(t, "clear_switch") /\ UNCHANGED job
                ELSE Finish(t, "refused")
  /\ UNCHANGED <<storeVars, envVars>>

clear_switch(t) ==
  /\ pc[t] = "clear_switch"
  /\ kill_switch' = (kill_switch /\ ~redis_up)
  /\ Finish(t, IF redis_up THEN "accepted" ELSE "failed")
  /\ UNCHANGED <<storeVars, lock, redis_up, breaker_open, venue, placed, crashes>>

(* The heartbeat opens the breaker and sweeps on the step that opens it. *)
trip(t) ==
  /\ pc[t] = "trip"
  /\ breaker_open' = TRUE
  /\ IF breaker_open THEN Finish(t, "duplicate")
                     ELSE Goto(t, "fetch_open") /\ UNCHANGED job
  /\ UNCHANGED <<storeVars, lock, kill_switch, redis_up, venue, placed, crashes>>

(* mass_cancel: one snapshot of the open rows, then each in turn; a row    *)
(* the routing ladder refuses counts as failed.                            *)
fetch_open(t) ==
  /\ pc[t] = "fetch_open"
  /\ job' = [job EXCEPT ![t].rows =
       {c \in Cid : StatusOf(c) \in OPEN_STATES}]
  /\ Goto(t, "sweep")
  /\ UNCHANGED <<storeVars, envVars>>

sweep(t) ==
  /\ pc[t] = "sweep"
  /\ \/ /\ job[t].rows = {}
        /\ Finish(t, IF job[t].failed THEN "failed" ELSE "swept")
        /\ UNCHANGED storeVars
     \/ \E c \in job[t].rows :
        \/ /\ job' = [job EXCEPT ![t].rows = @ \ {c}, ![t].cid = c]
           /\ Invoke(t, [op |-> "update_status", cid |-> c, new |-> "PENDING_CANCEL"])
           /\ Goto(t, "marking")
        \/ /\ job' = [job EXCEPT ![t].rows = @ \ {c}, ![t].failed = TRUE]
           /\ Goto(t, "sweep")
           /\ UNCHANGED storeVars
  /\ UNCHANGED envVars

-----------------------------------------------------------------------------
(* The world outside the router. *)

(* The TTL of a lock runs out, whatever its holder is doing. *)
LockExpires(c) ==
  /\ "lock_ttl" \in Faults
  /\ lock[c] # NULL
  /\ lock' = [lock EXCEPT ![c] = NULL]
  /\ UNCHANGED <<storeVars, pc, job, worldVars>>

RedisFlips ==
  /\ "redis" \in Faults
  /\ redis_up' = ~redis_up
  /\ UNCHANGED <<storeVars, pc, job, lock, kill_switch, breaker_open, venue, placed, crashes>>

(* A heartbeat succeeds again. *)
BreakerResets ==
  /\ breaker_open
  /\ breaker_open' = FALSE
  /\ UNCHANGED <<storeVars, pc, job, lock, kill_switch, redis_up, venue, placed, crashes>>

(* A resting order trades out or expires at the venue. *)
VenueCloses(c) ==
  /\ venue[c] = "live"
  /\ venue' = [venue EXCEPT ![c] = "gone"]
  /\ UNCHANGED <<storeVars, pc, job, lock, kill_switch, redis_up, breaker_open, placed,
                 crashes>>

(* The process dies and restarts: running calls are lost, rows, Redis keys *)
(* and the venue's book are not.                                           *)
Crash ==
  /\ crashes < MaxCrashes
  /\ crashes' = crashes + 1
  /\ pc' = [t \in Task |-> IF pc[t] \in {"start", "done"} THEN pc[t] ELSE "dead"]
  /\ job' = [t \in Task |-> IF pc[t] \in {"start", "done"} THEN job[t] ELSE NoJob]
  /\ breaker_open' = FALSE
  /\ StoreCrash
  /\ UNCHANGED <<lock, kill_switch, redis_up, venue, placed>>

(* A reconciler's repository call on a row that exists: it acknowledges,   *)
(* records a fill, explains a rejection or closes the row.                 *)
ReconcilerCommand(c) ==
  {command \in Command :
     /\ command.cid = c
     /\ command.op \in {"ack_order", "apply_fill", "set_reject_reason", "update_status"}
     /\ command.op = "update_status" =>
          command.new \in {"PENDING_CANCEL", "CANCELLED", "REJECTED", "EXPIRED"}}

BackgroundCall(w) ==
  /\ \E c \in Cid :
       /\ orders[c] # NULL
       /\ \E command \in ReconcilerCommand(c) : Invoke(w, command)
  /\ UNCHANGED <<pc, job, envVars>>

TaskStep(t) ==
  \/ submit(t) \/ submit_dedupe(t) \/ submit_gate(t) \/ single_flight(t)
  \/ await_concurrent(t) \/ submit_inserted(t) \/ place(t) \/ settle(t)
  \/ rejecting(t) \/ recover_handle(t) \/ recovering(t)
  \/ settling(t) \/ remainder(t) \/ settled(t)
  \/ cancel(t) \/ cancel_marked(t) \/ adapter_cancel(t) \/ cancel_acked(t)
  \/ cancel_confirmed(t)
  \/ amend(t) \/ amend_fetch(t) \/ amend_native(t) \/ amend_marked(t)
  \/ venue_amend(t) \/ amend_replaced(t) \/ amend_restored(t)
  \/ engage(t) \/ trip_switch(t) \/ disengage(t) \/ clear_switch(t)
  \/ trip(t) \/ fetch_open(t) \/ sweep(t)

Database(w) == StoreStep(w) /\ UNCHANGED <<pc, job, envVars>>

Environment ==
  \/ \E c \in Cid : LockExpires(c) \/ VenueCloses(c)
  \/ RedisFlips \/ BreakerResets \/ Crash

Next ==
  \/ \E t \in Task : Begin(t) \/ TaskStep(t)
  \/ \E w \in Worker : Database(w)
  \/ \E w \in Background : BackgroundCall(w)
  \/ Environment

Spec == Init /\ [][Next]_vars

(* The event loop runs every coroutine that is ready, Postgres answers     *)
(* every statement and an HTTP call to a venue returns or times out.       *)
FairSpec ==
  /\ Spec
  /\ \A t \in Task : WF_vars(TaskStep(t))
  /\ \A w \in Worker : WF_vars(Database(w))

-----------------------------------------------------------------------------
Label ==
  {"start", "done", "dead", "submit", "dedupe", "gate", "single_flight",
   "await_concurrent", "inserting", "place", "placed", "rejecting", "recover_handle",
   "recovering", "settling", "remainder", "settled", "cancel", "marking", "adapter_cancel",
   "cancel_acked", "confirming", "amend", "amend_fetch", "amend_native",
   "replace_marking", "venue_amend", "replacing", "restoring", "engage", "trip_switch",
   "disengage", "clear_switch", "trip", "fetch_open", "sweep"}

(* Every variable has its type. *)
TypeOK ==
  /\ StoreTypeOK
  /\ pc \in [Task -> Label]
  /\ job \in [Task -> Job]
  /\ lock \in [Cid -> Task \cup {NULL}]
  /\ kill_switch \in BOOLEAN /\ redis_up \in BOOLEAN /\ breaker_open \in BOOLEAN
  /\ venue \in [Cid -> {"none", "live", "gone"}]
  /\ placed \in [Cid -> Nat]
  /\ crashes \in 0 .. MaxCrashes

(***************************************************************************)
(* An order is sent to its venue at most once, and only after its row is   *)
(* durable: however many calls carry the same client_order_id, with the    *)
(* lock expired, Redis down or the process restarted in between.           *)
(***************************************************************************)
AtMostOncePlace == \A c \in Cid : placed[c] <= (IF orders[c] = NULL THEN 0 ELSE 1)

(* Of the calls that carry one client_order_id at most one is answered as  *)
(* the original; the others learn that they are duplicates.                *)
OneOriginal ==
  \A t, u \in Task :
    /\ job[t].answer \in {"accepted", "unknown"} /\ job[u].answer \in {"accepted", "unknown"}
    /\ job[t].op \in {"submit", "amend"} /\ job[u].op \in {"submit", "amend"}
    /\ job[t].cid = job[u].cid
    => t = u

(* A row the router closed as CANCELLED or REJECTED is off the venue's     *)
(* book, whatever cancels, sweeps and replacements ran at the same time.   *)
ClosedIsOffBook ==
  \A c \in Cid :
    StatusOf(c) \in {"CANCELLED", "REJECTED"} => venue[c] # "live"

(* While the process lives, a row in PENDING_REPLACE has an amend that will *)
(* take it out again: no interleaving of amends, cancels and fills strands *)
(* it.                                                                     *)
ReplaceIsOwned ==
  \A c \in Cid : StatusOf(c) = "PENDING_REPLACE" =>
    \E t \in Task :
      job[t].cid = c /\ pc[t] \in {"replace_marking", "venue_amend", "replacing"}

(* When a cancel+replace amend sends its replacement, the order it replaces *)
(* is CANCELLED (router.py:399, orders-amend.md:76).                        *)
ReplacedIsCancelled ==
  \A t \in Task : pc[t] = "place" /\ job[t].replaces # NULL =>
    StatusOf(job[t].replaces) = "CANCELLED"


=============================================================================
