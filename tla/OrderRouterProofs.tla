--------------------------- MODULE OrderRouterProofs --------------------------
(***************************************************************************)
(* Proofs about the router, for every set of orders, calls, reconcilers,   *)
(* fill plans and faults.  The router's steps are store steps, so what     *)
(* OrderStoreProofs proves of the store holds of the rows it writes.       *)
(***************************************************************************)
EXTENDS OrderRouterLocals

-----------------------------------------------------------------------------
(* Every step of the router is a step of the store, or none. *)

Calls(t) == UNCHANGED storeVars \/ \E command \in Command : Invoke(t, command)

LEMMA CommandKinds ==
  ASSUME NEW c \in Cid
  PROVE  /\ \A q \in Quantity : [op |-> "insert_order", cid |-> c, quantity |-> q] \in Command
         /\ [op |-> "ack_order", cid |-> c, broker_order_id |-> c] \in Command
         /\ \A q \in Quantity \cup {NULL} :
              [op |-> "replace_order", cid |-> c, quantity |-> q] \in Command
         /\ \A s \in OrderState : [op |-> "update_status", cid |-> c, new |-> s] \in Command
         /\ [op |-> "set_reject_reason", cid |-> c] \in Command
         /\ \A f \in Fill, q \in Quantity :
              [op |-> "apply_fill", cid |-> c, fill |-> f, total |-> q] \in Command
BY RouterAssumption DEF Command, FillCall

LEMMA SubmitCalls ==
  ASSUME TypeOK, Locals, NEW t \in Task,
         \/ Begin(t) \/ submit(t) \/ submit_dedupe(t) \/ submit_gate(t) \/ single_flight(t)
         \/ await_concurrent(t) \/ submit_inserted(t) \/ place(t) \/ settle(t)
         \/ rejecting(t) \/ recover_handle(t) \/ recovering(t) \/ settling(t)
         \/ remainder(t) \/ settled(t)
  PROVE  Calls(t)
<1> job[t] \in Job /\ LocalOK(pc[t], job[t])
  BY DEF TypeOK, Locals
<1> USE DEF Calls
<1>1. CASE \/ Begin(t) \/ submit(t) \/ submit_dedupe(t) \/ submit_gate(t)
           \/ await_concurrent(t) \/ submit_inserted(t) \/ place(t) \/ recover_handle(t)
           \/ settled(t)
  BY <1>1 DEF Begin, submit, submit_dedupe, submit_gate, await_concurrent, submit_inserted,
              place, recover_handle, settled
<1>2. CASE pc[t] \in SubmitLabel /\ ~recovering(t)
  <2>1. job[t].cid \in Cid /\ job[t].qty \in Quantity
    BY <1>2 DEF LocalOK
  <2>2. single_flight(t) => Calls(t)
    BY <2>1, CommandKinds, Zenon DEF single_flight
  <2>3. settle(t) => Calls(t)
    BY <2>1, CommandKinds, Zenon DEF settle, Await, Leave, OrderState
  <2>4. rejecting(t) => Calls(t)
    BY <2>1, CommandKinds, Zenon DEF rejecting, Await, Leave
  <2>5. settling(t) => Calls(t)
    <3>1. job[t].fills # <<>> => Head(job[t].fills) \in Fill
      BY DEF Job
    <3> QED
      BY <2>1, <3>1, CommandKinds, Zenon DEF settling, Await, Leave, OrderState
  <2>6. remainder(t) => Calls(t)
    BY <2>1, CommandKinds, Zenon DEF remainder, Await, Leave, OrderState
  <2> QED
    BY <1>1, <1>2, <2>2, <2>3, <2>4, <2>5, <2>6
<1>3. CASE recovering(t)
  <2>1. job[t].plan # <<>> => Head(job[t].plan) \in Command
    BY DEF Job
  <2> QED
    BY <1>3, <2>1 DEF recovering, Leave
<1> QED
  BY <1>1, <1>2, <1>3
  DEF SubmitLabel, single_flight, settle, rejecting, settling, remainder

LEMMA CancelCalls ==
  ASSUME TypeOK, Locals, NEW t \in Task,
         \/ cancel(t) \/ cancel_marked(t) \/ adapter_cancel(t) \/ cancel_acked(t)
         \/ cancel_confirmed(t)
  PROVE  Calls(t)
<1>1. pc[t] \in CancelLabel
  BY DEF CancelLabel, cancel, cancel_marked, adapter_cancel, cancel_acked, cancel_confirmed
<1>2. job[t].cid \in Cid
  BY <1>1 DEF Locals, LocalOK
<1>3. CASE cancel(t)
  BY <1>2, <1>3, CommandKinds, Zenon DEF cancel, Calls, OrderState
<1>4. CASE cancel_acked(t)
  BY <1>2, <1>4, CommandKinds, Zenon DEF cancel_acked, Calls, OrderState
<1> QED
  BY <1>3, <1>4 DEF Calls, cancel_marked, adapter_cancel, cancel_confirmed

LEMMA AmendCalls ==
  ASSUME TypeOK, Locals, NEW t \in Task,
         \/ amend(t) \/ amend_fetch(t) \/ amend_native(t) \/ amend_marked(t)
         \/ venue_amend(t) \/ amend_replaced(t) \/ amend_restored(t)
  PROVE  Calls(t)
<1>1. pc[t] \in AmendLabel
  BY DEF AmendLabel, amend, amend_fetch, amend_native, amend_marked, venue_amend,
         amend_replaced, amend_restored
<1>2. job[t].cid \in Cid /\ job[t].qty \in Quantity \cup {NULL}
  BY <1>1 DEF Locals, LocalOK, TypeOK, Job
<1>3. CASE amend_native(t)
  BY <1>2, <1>3, CommandKinds, Zenon DEF amend_native, Calls, OrderState
<1>4. CASE venue_amend(t)
  BY <1>2, <1>4, CommandKinds, Zenon DEF venue_amend, Calls, OrderState
<1>5. CASE amend_replaced(t)
  BY <1>2, <1>5, CommandKinds, Zenon DEF amend_replaced, Calls, OrderState
<1> QED
  BY <1>3, <1>4, <1>5 DEF Calls, amend, amend_fetch, amend_marked, amend_restored

LEMMA SwitchCalls ==
  ASSUME TypeOK, Locals, NEW t \in Task,
         \/ engage(t) \/ trip_switch(t) \/ disengage(t) \/ clear_switch(t) \/ trip(t)
         \/ fetch_open(t) \/ sweep(t)
  PROVE  Calls(t)
<1>1. job[t].rows \subseteq Cid
  BY DEF TypeOK, Job
<1>2. CASE sweep(t)
  BY <1>1, <1>2, CommandKinds, Zenon DEF sweep, Calls, OrderState
<1> QED
  BY <1>2 DEF Calls, engage, trip_switch, disengage, clear_switch, trip, fetch_open

LEMMA RouterStoreStep ==
  ASSUME TypeOK, Locals, [Next]_vars
  PROVE  [StoreNext]_storeVars
<1>1. ASSUME NEW t \in Task, Begin(t) \/ TaskStep(t)
      PROVE  [StoreNext]_storeVars
  <2>1. Calls(t)
    BY <1>1, SubmitCalls, CancelCalls, AmendCalls, SwitchCalls DEF TaskStep
  <2> QED
    BY <2>1, RouterAssumption DEF Calls, StoreNext
<1>2. ASSUME NEW w \in Worker, Database(w)
      PROVE  StoreNext
  BY <1>2 DEF Database, StoreNext
<1>3. ASSUME NEW w \in Background, BackgroundCall(w)
      PROVE  StoreNext
  BY <1>3 DEF Background, BackgroundCall, ReconcilerCommand, StoreNext
<1>4. Environment => [StoreNext]_storeVars
  BY DEF Environment, LockExpires, VenueCloses, RedisFlips, BreakerResets, Crash, StoreNext
<1>5. UNCHANGED vars => UNCHANGED storeVars
  BY DEF vars
<1> QED
  BY <1>1, <1>2, <1>3, <1>4, <1>5 DEF Next

-----------------------------------------------------------------------------
(* Type correctness. *)

World ==
  /\ lock \in [Cid -> Task \cup {NULL}]
  /\ kill_switch \in BOOLEAN /\ redis_up \in BOOLEAN /\ breaker_open \in BOOLEAN
  /\ venue \in [Cid -> {"none", "live", "gone"}]
  /\ placed \in [Cid -> Nat]
  /\ crashes \in 0 .. MaxCrashes

LEMMA ReleaseType ==
  ASSUME lock \in [Cid -> Task \cup {NULL}], NEW t, NEW c, release(t, c)
  PROVE  lock' \in [Cid -> Task \cup {NULL}]
BY Zenon DEF release

LEMMA TaskWorld ==
  ASSUME TypeOK, Locals, NEW t \in Task, Begin(t) \/ TaskStep(t)
  PROVE  World'
<1> World /\ LocalOK(pc[t], job[t])
  BY DEF TypeOK, Locals, World
<1>1. ASSUME UNCHANGED envVars
      PROVE  World'
  BY <1>1 DEF World, envVars, worldVars
<1>2. ASSUME UNCHANGED worldVars, lock' \in [Cid -> Task \cup {NULL}]
      PROVE  World'
  BY <1>2 DEF World, worldVars
<1>3. CASE \/ Begin(t) \/ submit(t) \/ submit_dedupe(t) \/ submit_gate(t)
           \/ await_concurrent(t) \/ recover_handle(t)
  BY <1>1, <1>3 DEF Begin, submit, submit_dedupe, submit_gate, await_concurrent, recover_handle
<1>4. CASE \/ cancel(t) \/ cancel_marked(t) \/ cancel_acked(t) \/ cancel_confirmed(t)
           \/ amend(t) \/ amend_fetch(t) \/ amend_native(t) \/ amend_marked(t)
           \/ venue_amend(t) \/ amend_replaced(t) \/ amend_restored(t)
  BY <1>1, <1>4 DEF cancel, cancel_marked, cancel_acked, cancel_confirmed, amend, amend_fetch,
       amend_native, amend_marked, venue_amend, amend_replaced, amend_restored
<1>5. CASE engage(t) \/ disengage(t) \/ fetch_open(t) \/ sweep(t)
  BY <1>1, <1>5 DEF engage, disengage, fetch_open, sweep
<1>6. CASE single_flight(t)
  BY <1>2, <1>6 DEF single_flight, World
<1>7. CASE submit_inserted(t) \/ settled(t)
  BY <1>2, <1>7, ReleaseType DEF submit_inserted, settled, World
<1>8. CASE settle(t) \/ rejecting(t) \/ settling(t) \/ remainder(t)
  BY <1>2, <1>8, ReleaseType DEF settle, rejecting, settling, remainder, Await, Leave, World
<1>9. CASE recovering(t)
  BY <1>2, <1>9, ReleaseType DEF recovering, Leave, World
<1>10. CASE place(t)
  <2>1. job[t].cid \in Cid
    BY <1>10 DEF place, LocalOK, SubmitLabel
  <2>2. venue' \in [Cid -> {"none", "live", "gone"}]
    BY <1>10, <2>1, Zenon DEF place, real_place, sim_place, World
  <2>3. placed' \in [Cid -> Nat]
    BY <1>10, <2>1 DEF place, World
  <2> QED
    BY <1>10, <2>2, <2>3 DEF place, World
<1>11. CASE adapter_cancel(t)
  BY <1>11 DEF adapter_cancel, World
<1>12. CASE trip_switch(t) \/ clear_switch(t) \/ trip(t)
  BY <1>12, Zenon DEF trip_switch, clear_switch, trip, World
<1> QED
  BY <1>3, <1>4, <1>5, <1>6, <1>7, <1>8, <1>9, <1>10, <1>11, <1>12, Zenon DEF TaskStep

LEMMA EnvironmentWorld ==
  ASSUME TypeOK, Environment
  PROVE  World'
<1> World
  BY DEF TypeOK, World
<1>1. ASSUME NEW c \in Cid, LockExpires(c) \/ VenueCloses(c)
      PROVE  World'
  BY <1>1 DEF LockExpires, VenueCloses, World, worldVars
<1>2. CASE RedisFlips \/ BreakerResets
  BY <1>2, Zenon DEF RedisFlips, BreakerResets, World
<1>3. CASE Crash
  <2>1. MaxCrashes \in Nat
    BY RouterAssumption
  <2>2. crashes' \in 0 .. MaxCrashes
    BY <1>3, <2>1 DEF Crash, World
  <2> QED
    BY <1>3, <2>2, Zenon DEF Crash, World
<1> QED
  BY <1>1, <1>2, <1>3 DEF Environment

LEMMA RouterTypeStep ==
  ASSUME TypeOK, Locals, [Next]_vars
  PROVE  TypeOK' /\ Locals'
<1>1. StoreTypeOK'
  BY RouterStoreStep, StoreTypeStep DEF TypeOK
<1>2. pc \in [Task -> Label] /\ job \in [Task -> Job] /\ World
  BY DEF TypeOK, World
<1>3. ASSUME NEW t \in Task, Begin(t) \/ TaskStep(t)
      PROVE  TypeOK' /\ Locals'
  <2>1. PICK l, j : /\ LocalOK(l, j) /\ pc' = [pc EXCEPT ![t] = l]
                    /\ job' = [job EXCEPT ![t] = j]
    BY <1>3, TaskMoves DEF Moves
  <2>2. pc' \in [Task -> Label] /\ job' \in [Task -> Job]
    BY <1>2, <2>1 DEF LocalOK
  <2>3. ASSUME NEW u \in Task
        PROVE  LocalOK(pc'[u], job'[u])
    <3>1. CASE u = t
      BY <1>2, <2>1, <3>1
    <3>2. CASE u # t
      <4>1. pc'[u] = pc[u] /\ job'[u] = job[u]
        BY <1>2, <2>1, <3>2
      <4> QED
        BY <4>1 DEF Locals
    <3> QED
      BY <3>1, <3>2
  <2>4. Locals'
    BY <2>3, Zenon DEF Locals, LocalOK, Job, Command, FillCall, Fill, Row
  <2> QED
    BY <1>1, <1>3, <2>2, <2>4, TaskWorld DEF TypeOK, World
<1>4. ASSUME UNCHANGED <<pc, job>>, World'
      PROVE  TypeOK' /\ Locals'
  BY <1>1, <1>2, <1>4 DEF TypeOK, Locals, World
<1>5. ASSUME NEW w \in Worker, Database(w) \/ BackgroundCall(w)
      PROVE  TypeOK' /\ Locals'
  BY <1>2, <1>4, <1>5 DEF Database, BackgroundCall, World, envVars, worldVars
<1>6. CASE Crash
  <2>1. \A t \in Task : \/ pc'[t] = pc[t] /\ job'[t] = job[t]
                        \/ pc'[t] = "dead" /\ job'[t] = NoJob
    BY <1>6 DEF Crash
  <2>2. NoJob \in Job /\ LocalOK("dead", NoJob)
    BY NewJobType
    DEF NoJob, LocalOK, Label, SubmitLabel, CancelLabel, AmendLabel, SweepLabel
  <2>3. pc' \in [Task -> Label] /\ job' \in [Task -> Job]
    BY <1>2, <1>6, <2>2 DEF Crash, Label
  <2>4. Locals'
    BY <2>1, <2>2 DEF Locals
  <2> QED
    BY <1>1, <1>6, <2>3, <2>4, EnvironmentWorld DEF TypeOK, World, Environment
<1>7. CASE Environment /\ ~Crash
  BY <1>4, <1>7, EnvironmentWorld, Zenon
  DEF Environment, LockExpires, VenueCloses, RedisFlips, BreakerResets
<1>8. CASE UNCHANGED vars
  BY <1>2, <1>4, <1>8 DEF vars, envVars, worldVars, World
<1> QED
  BY <1>3, <1>5, <1>6, <1>7, <1>8 DEF Next, Background

LEMMA RouterTypeInit ==
  ASSUME Init
  PROVE  TypeOK /\ Locals
<1>1. StoreTypeOK
  BY DEF Init, StoreInit, StoreTypeOK, Call, Result
<1>2. NoJob \in Job /\ LocalOK("start", NoJob)
  BY NewJobType
  DEF NoJob, LocalOK, Label, SubmitLabel, CancelLabel, AmendLabel, SweepLabel
<1>3. MaxCrashes \in Nat
  BY RouterAssumption
<1>4. /\ pc \in [Task -> Label] /\ job \in [Task -> Job]
      /\ \A t \in Task : pc[t] = "start" /\ job[t] = NoJob
  BY <1>2 DEF Init, Label
<1>5. Locals
  BY <1>2, <1>4 DEF Locals
<1>6. World
  <2>1. crashes \in 0 .. MaxCrashes
    BY <1>3 DEF Init
  <2>2. lock \in [Cid -> Task \cup {NULL}] /\ venue \in [Cid -> {"none", "live", "gone"}]
    BY DEF Init
  <2>3. placed \in [Cid -> Nat]
    BY DEF Init
  <2>4. kill_switch \in BOOLEAN /\ redis_up \in BOOLEAN /\ breaker_open \in BOOLEAN
    BY Zenon DEF Init
  <2> QED
    BY <2>1, <2>2, <2>3, <2>4 DEF World
<1> QED
  BY <1>1, <1>4, <1>5, <1>6 DEF TypeOK, World

(* The variables of the router keep their types, and the locals of every   *)
(* call are what the statement it is at needs.                             *)
THEOREM RouterTypeCorrect == Spec => [](TypeOK /\ Locals)
<1>1. Init => TypeOK /\ Locals
  BY RouterTypeInit
<1>2. TypeOK /\ Locals /\ [Next]_vars => TypeOK' /\ Locals'
  BY RouterTypeStep
<1> QED
  BY <1>1, <1>2, PTL DEF Spec

(* The router drives the store only through its repository calls: what     *)
(* holds of the store under any callers holds of it under the router.      *)
THEOREM RouterUsesStore == Spec => StoreSpec
<1>1. Init => StoreInit
  BY DEF Init
<1>2. TypeOK /\ Locals /\ [Next]_vars => [StoreNext]_storeVars
  BY RouterStoreStep
<1> QED
  BY <1>1, <1>2, RouterTypeCorrect, PTL DEF Spec, StoreSpec

(* The audit trail of every order is a legal path ending at its status,    *)
(* under every interleaving of submits, cancels, amends, sweeps and        *)
(* reconcilers, crashes included.                                          *)
THEOREM RouterAuditTrail == Spec => []AuditTrail
BY RouterUsesStore, StoreAuditTrail, PTL

(* No fill is recorded on an order no venue acknowledged.                  *)
THEOREM RouterNoFillBeforeAck == Spec => []NoFillBeforeAck
BY RouterUsesStore, StoreNoFillBeforeAck, PTL

=============================================================================
