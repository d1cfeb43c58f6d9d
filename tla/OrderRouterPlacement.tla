------------------------- MODULE OrderRouterPlacement -------------------------
(***************************************************************************)
(* The proof that an order is sent to its venue at most once, and answered *)
(* as the original at most once.                                           *)
(***************************************************************************)
EXTENDS OrderRouterProofs

-----------------------------------------------------------------------------
(* At most one call owns the sending of an order: the call whose INSERT    *)
(* created its row.  It keeps the ownership, in its label and then in its  *)
(* answer, and no task step creates a second one.                          *)

Settling == {"placed", "rejecting", "recover_handle", "recovering", "settling", "remainder",
             "settled"}

(* The row is durable and the order not yet sent. *)
Fresh(t) ==
  \/ pc[t] = "inserting" /\ call[t].op \in {"publish", "ok"}
  \/ pc[t] = "place"

Kept(t) ==
  job[t].answer \in {"accepted", "unknown"} /\ job[t].op \in {"submit", "amend"}

Owner(t) == Fresh(t) \/ pc[t] \in Settling \/ Kept(t)

Inserting(t) ==
  /\ call[t].op \in {"insert_order", "publish", "ok", "duplicate", "raised"}
  /\ call[t].op = "insert_order" => call[t].cid = job[t].cid

PlaceInv ==
  /\ \A t \in Task : pc[t] = "inserting" => Inserting(t)
  /\ \A t \in Task : Owner(t) => job[t].cid \in Cid /\ orders[job[t].cid] # NULL
  /\ \A t, u \in Task : Owner(t) /\ Owner(u) /\ job[t].cid = job[u].cid => t = u
  /\ \A t \in Task : Fresh(t) => placed[job[t].cid] = 0
  /\ AtMostOncePlace

(* A step after which t owns nothing and inserts nothing. *)
Neutral(t) ==
  /\ pc'[t] \notin Settling \cup {"inserting", "place"}
  /\ pc'[t] = "done" => job'[t].answer \notin {"accepted", "unknown"}

LEMMA FinishNeutral ==
  ASSUME TypeOK, NEW t \in Task, NEW answer, Finish(t, answer)
  PROVE  /\ pc'[t] = "done"
         /\ job'[t].answer = answer /\ job'[t].op = job[t].op /\ job'[t].cid = job[t].cid
         /\ answer \notin {"accepted", "unknown"} => Neutral(t)
<1>1. pc'[t] = "done" /\ job'[t] = Answered(t, answer)
  BY DEF TypeOK, Finish, Goto
<1> QED
  BY <1>1 DEF Answered, NewJob, Neutral, Settling

LEMMA GotoNeutral ==
  ASSUME TypeOK, NEW t \in Task, NEW l, Goto(t, l)
  PROVE  /\ pc'[t] = l
         /\ l \notin Settling \cup {"inserting", "place", "done"} => Neutral(t)
BY DEF TypeOK, Goto, Neutral

LEMMA CancelEndsNeutral ==
  ASSUME TypeOK, NEW t \in Task, NEW answer \in {"cancelled", "failed"}, CancelEnds(t, answer)
  PROVE  Neutral(t)
<1>1. CASE Goto(t, "sweep") \/ Goto(t, "submit")
  BY <1>1, GotoNeutral DEF Settling
<1>2. CASE Finish(t, answer)
  BY <1>2, FinishNeutral
<1> QED
  BY <1>1, <1>2 DEF CancelEnds

LEMMA NeutralSteps ==
  ASSUME TypeOK, NEW t \in Task,
         \/ Begin(t) \/ submit(t) \/ submit_dedupe(t) \/ submit_gate(t) \/ await_concurrent(t)
         \/ cancel(t) \/ cancel_marked(t) \/ adapter_cancel(t) \/ cancel_acked(t)
         \/ cancel_confirmed(t)
         \/ amend(t) \/ amend_fetch(t) \/ amend_native(t) \/ amend_marked(t)
         \/ venue_amend(t) \/ amend_replaced(t) \/ amend_restored(t)
         \/ engage(t) \/ trip_switch(t) \/ disengage(t) \/ trip(t) \/ fetch_open(t) \/ sweep(t)
  PROVE  Neutral(t) /\ UNCHANGED placed
<1>1. \A a : Finish(t, a) /\ a \notin {"accepted", "unknown"} => Neutral(t)
  BY FinishNeutral
<1>2. \A l : Goto(t, l) /\ l \notin Settling \cup {"inserting", "place", "done"} => Neutral(t)
  BY GotoNeutral
<1>3. \A a \in {"cancelled", "failed"} : CancelEnds(t, a) => Neutral(t)
  BY CancelEndsNeutral
<1>4. CASE \/ Begin(t) \/ submit(t) \/ submit_dedupe(t)
           \/ submit_gate(t) \/ await_concurrent(t)
  <2>1. CASE Begin(t)
    BY <1>1, <1>2, <2>1 DEF Begin, envVars, worldVars, Settling
  <2>2. CASE submit(t)
    BY <1>1, <1>2, <2>2 DEF submit, envVars, worldVars, Settling
  <2>3. CASE submit_dedupe(t)
    BY <1>1, <1>2, <2>3 DEF submit_dedupe, envVars, worldVars, Settling
  <2>4. CASE submit_gate(t)
    BY <1>1, <1>2, <2>4 DEF submit_gate, envVars, worldVars, Settling
  <2>5. CASE await_concurrent(t)
    BY <1>1, <1>2, <2>5 DEF await_concurrent, envVars, worldVars, Settling
  <2> QED
    BY <1>4, <2>1, <2>2, <2>3, <2>4, <2>5
<1>5. CASE \/ cancel(t) \/ cancel_marked(t) \/ adapter_cancel(t)
           \/ cancel_acked(t) \/ cancel_confirmed(t)
  <2>1. CASE cancel(t)
    BY <1>1, <1>2, <1>3, <2>1 DEF cancel, envVars, worldVars, Settling
  <2>2. CASE cancel_marked(t)
    BY <1>1, <1>2, <1>3, <2>2 DEF cancel_marked, envVars, worldVars, Settling
  <2>3. CASE adapter_cancel(t)
    BY <1>1, <1>2, <1>3, <2>3 DEF adapter_cancel, envVars, worldVars, Settling
  <2>4. CASE cancel_acked(t)
    BY <1>1, <1>2, <1>3, <2>4 DEF cancel_acked, envVars, worldVars, Settling
  <2>5. CASE cancel_confirmed(t)
    BY <1>1, <1>2, <1>3, <2>5 DEF cancel_confirmed, envVars, worldVars, Settling
  <2> QED
    BY <1>5, <2>1, <2>2, <2>3, <2>4, <2>5
<1>6. CASE \/ amend(t) \/ amend_fetch(t) \/ amend_native(t) \/ amend_marked(t)
           \/ venue_amend(t) \/ amend_replaced(t) \/ amend_restored(t)
  <2>1. CASE amend(t)
    BY <1>1, <1>2, <2>1 DEF amend, envVars, worldVars, Settling
  <2>2. CASE amend_fetch(t)
    BY <1>1, <1>2, <2>2 DEF amend_fetch, envVars, worldVars, Settling
  <2>3. CASE amend_native(t)
    BY <1>1, <1>2, <2>3 DEF amend_native, envVars, worldVars, Settling
  <2>4. CASE amend_marked(t)
    BY <1>1, <1>2, <2>4 DEF amend_marked, envVars, worldVars, Settling
  <2>5. CASE venue_amend(t)
    BY <1>1, <1>2, <2>5 DEF venue_amend, envVars, worldVars, Settling
  <2>6. CASE amend_replaced(t)
    BY <1>1, <1>2, <2>6 DEF amend_replaced, envVars, worldVars, Settling
  <2>7. CASE amend_restored(t)
    BY <1>1, <1>2, <2>7 DEF amend_restored, envVars, worldVars, Settling
  <2> QED
    BY <1>6, <2>1, <2>2, <2>3, <2>4, <2>5, <2>6, <2>7
<1>7. CASE \/ engage(t) \/ trip_switch(t) \/ disengage(t) \/ trip(t)
           \/ fetch_open(t) \/ sweep(t)
  <2>1. CASE engage(t)
    BY <1>1, <1>2, <2>1 DEF engage, envVars, worldVars, Settling
  <2>2. CASE trip_switch(t)
    BY <1>1, <1>2, <2>2 DEF trip_switch, envVars, worldVars, Settling
  <2>3. CASE disengage(t)
    BY <1>1, <1>2, <2>3 DEF disengage, envVars, worldVars, Settling
  <2>4. CASE trip(t)
    BY <1>1, <1>2, <2>4 DEF trip, envVars, worldVars, Settling
  <2>5. CASE fetch_open(t)
    BY <1>1, <1>2, <2>5 DEF fetch_open, envVars, worldVars, Settling
  <2>6. CASE sweep(t)
    <3>1. \/ Finish(t, IF job[t].failed THEN "failed" ELSE "swept")
          \/ Goto(t, "marking")
          \/ Goto(t, "sweep")
      BY <2>6, Zenon DEF sweep
    <3>2. Neutral(t)
      BY <1>1, <1>2, <3>1 DEF Settling
    <3> QED
      BY <2>6, <3>2 DEF sweep, envVars, worldVars
  <2> QED
    BY <1>7, <2>1, <2>2, <2>3, <2>4, <2>5, <2>6
<1> QED
  BY <1>4, <1>5, <1>6, <1>7

(* The steps of a call that owns its order, or comes to own one. *)
LEMMA OwningSteps ==
  ASSUME TypeOK, Locals, NEW t \in Task,
         \/ single_flight(t) \/ submit_inserted(t) \/ place(t)
         \/ settle(t) \/ rejecting(t) \/ recover_handle(t) \/ recovering(t)
         \/ settling(t) \/ remainder(t) \/ settled(t)
  PROVE  /\ pc'[t] = "inserting" =>
              call'[t].op = "insert_order" /\ call'[t].cid = job'[t].cid
         /\ \/ Neutral(t) /\ UNCHANGED placed
            \/ pc'[t] = "inserting" /\ UNCHANGED placed
            \/ Fresh(t) /\ pc'[t] = "place" /\ job'[t] = job[t] /\ UNCHANGED placed
            \/ /\ pc[t] = "place" /\ pc'[t] = "placed" /\ job'[t].cid = job[t].cid
               /\ placed' = [placed EXCEPT ![job[t].cid] = @ + 1]
            \/ /\ pc[t] \in Settling /\ pc'[t] \in Settling \cup {"done"}
               /\ job'[t].cid = job[t].cid /\ UNCHANGED placed
<1> job \in [Task -> Job] /\ pc \in [Task -> Label] /\ call \in [Worker -> Call]
  BY DEF TypeOK, StoreTypeOK
<1> t \in Worker
  BY RouterAssumption
<1>1. \A a : Finish(t, a) => pc'[t] = "done" /\ job'[t].cid = job[t].cid
  BY FinishNeutral
<1>2. \A l : Goto(t, l) => pc'[t] = l
  BY GotoNeutral
<1>3. \A a : Finish(t, a) /\ a \notin {"accepted", "unknown"} => Neutral(t)
  BY FinishNeutral
<1>4. CASE single_flight(t)
  <2>1. CASE Goto(t, "await_concurrent")
    BY <1>4, <2>1, GotoNeutral DEF single_flight, Settling, worldVars
  <2>2. CASE Goto(t, "inserting")
    <3>1. Invoke(t, [op |-> "insert_order", cid |-> job[t].cid, quantity |-> job[t].qty])
      BY <1>2, <1>4, <2>2 DEF single_flight
    <3> QED
      BY <1>2, <1>4, <2>2, <3>1 DEF single_flight, Invoke, worldVars
  <2> QED
    BY <1>4, <2>1, <2>2 DEF single_flight
<1>5. CASE submit_inserted(t)
  <2>1. CASE Ok(t) /\ Goto(t, "place") /\ UNCHANGED job
    BY <1>2, <1>5, <2>1 DEF submit_inserted, Fresh, Ok, worldVars
  <2>2. CASE Finish(t, IF Raised(t) THEN "failed" ELSE "duplicate")
    BY <1>1, <1>3, <1>5, <2>2 DEF submit_inserted, worldVars
  <2> QED
    BY <1>5, <2>1, <2>2, Zenon DEF submit_inserted
<1>6. CASE place(t)
  <2>1. job'[t].cid = job[t].cid
    <3>1. CASE real_place(t)
      BY <3>1 DEF real_place, Job
    <3>2. CASE sim_place(t)
      <4>1. PICK plan \in FillPlans, ioc, refuse \in BOOLEAN :
              LET filled == SumFunction(plan) IN
              job' = [job EXCEPT ![t] =
                IF refuse \/ filled > job[t].qty
                THEN [@ EXCEPT !.ack = "rejected"]
                ELSE [@ EXCEPT !.ack = "handle",
                        !.fills = [i \in DOMAIN plan |-> [id |-> i, quantity |-> plan[i]]],
                        !.ioc = ioc /\ filled < job[t].qty]]
        BY <3>2, Zenon DEF sim_place
      <4> DEFINE f == [i \in DOMAIN plan |-> [id |-> i, quantity |-> plan[i]]]
                 b == ioc /\ SumFunction(plan) < job[t].qty
                 j1 == [job[t] EXCEPT !.ack = "handle"]
                 j2 == [j1 EXCEPT !.fills = f]
                 j3 == [j2 EXCEPT !.ioc = b]
                 j4 == [job[t] EXCEPT !.ack = "rejected"]
      <4>2. job'[t] = j3 \/ job'[t] = j4
        BY <4>1
      <4>3. "cid" \in DOMAIN job[t] /\ j4.cid = job[t].cid
        BY DEF Job
      <4> HIDE DEF f, b
      <4>4. j1.cid = job[t].cid /\ "cid" \in DOMAIN j1
        BY DEF Job
      <4> HIDE DEF j1
      <4>5. j2.cid = j1.cid /\ "cid" \in DOMAIN j2
        BY <4>4
      <4> HIDE DEF j2
      <4>6. j3.cid = j2.cid
        BY <4>5
      <4> HIDE DEF j3, j4
      <4> QED
        BY <4>2, <4>3, <4>4, <4>5, <4>6
    <3> QED
      BY <1>6, <3>1, <3>2 DEF place
  <2> QED
    BY <1>2, <1>6, <2>1 DEF place
<1>7. ASSUME pc[t] \in Settling, UNCHANGED placed, job'[t].cid = job[t].cid,
             pc'[t] \in Settling \cup {"done"}
      PROVE  /\ pc'[t] # "inserting"
             /\ pc[t] \in Settling /\ pc'[t] \in Settling \cup {"done"}
             /\ job'[t].cid = job[t].cid /\ UNCHANGED placed
  BY <1>7 DEF Settling
<1>8. CASE settle(t) \/ rejecting(t) \/ remainder(t) \/ settled(t)
  BY <1>1, <1>2, <1>7, <1>8, Zenon
  DEF settle, rejecting, remainder, settled, Await, Leave, Settling, worldVars
<1>9. CASE recover_handle(t)
  <2>1. job'[t].cid = job[t].cid
    BY <1>9 DEF recover_handle, Job
  <2> QED
    BY <1>2, <1>7, <1>9, <2>1 DEF recover_handle, Settling, envVars, worldVars
<1>10. CASE recovering(t)
  <2>1. job'[t].cid = job[t].cid
    BY <1>1, <1>10 DEF recovering, Leave, Job
  <2> QED
    BY <1>1, <1>7, <1>10, <2>1 DEF recovering, Leave, Settling, worldVars
<1>11. CASE settling(t)
  <2>1. job'[t].cid = job[t].cid
    BY <1>1, <1>11 DEF settling, Leave, Await, Job
  <2> QED
    BY <1>1, <1>2, <1>7, <1>11, <2>1 DEF settling, Leave, Await, Settling, worldVars
<1> QED
  BY <1>4, <1>5, <1>6, <1>8, <1>9, <1>10, <1>11, Zenon

(* No step of a call makes it an owner. *)
LEMMA TaskOwner ==
  ASSUME TypeOK, Locals, NEW t \in Task, Begin(t) \/ TaskStep(t)
  PROVE  /\ pc'[t] = "inserting" =>
              call'[t].op = "insert_order" /\ call'[t].cid = job'[t].cid
         /\ Owner(t)' => Owner(t) /\ job'[t].cid = job[t].cid
         /\ Fresh(t)' => Fresh(t)
         /\ \/ UNCHANGED placed
            \/ /\ Fresh(t) /\ ~Fresh(t)'
               /\ placed' = [placed EXCEPT ![job[t].cid] = @ + 1]
<1>1. PICK l, j : LocalOK(l, j) /\ pc' = [pc EXCEPT ![t] = l] /\ job' = [job EXCEPT ![t] = j]
  BY TaskMoves DEF Moves
<1>2. pc'[t] = l /\ job'[t] = j
  BY <1>1 DEF TypeOK
<1>3. pc'[t] # "done" => job'[t].answer = NULL
  BY <1>1, <1>2 DEF LocalOK
<1>4. NULL \notin {"accepted", "unknown"}
  BY RouterAssumption DEF Answer
<1>5. pc'[t] # "done" => ~Kept(t)'
  BY <1>3, <1>4 DEF Kept
<1>6. ASSUME Neutral(t)
      PROVE  ~Owner(t)' /\ pc'[t] # "inserting"
  BY <1>5, <1>6 DEF Neutral, Owner, Fresh, Kept
<1>7. CASE \/ Begin(t) \/ submit(t) \/ submit_dedupe(t) \/ submit_gate(t) \/ await_concurrent(t)
           \/ cancel(t) \/ cancel_marked(t) \/ adapter_cancel(t) \/ cancel_acked(t)
           \/ cancel_confirmed(t)
           \/ amend(t) \/ amend_fetch(t) \/ amend_native(t) \/ amend_marked(t)
           \/ venue_amend(t) \/ amend_replaced(t) \/ amend_restored(t)
           \/ engage(t) \/ trip_switch(t) \/ disengage(t) \/ trip(t) \/ fetch_open(t)
           \/ sweep(t)
  BY <1>6, <1>7, NeutralSteps, Zenon DEF Owner
<1>8. CASE clear_switch(t)
  <2>1. job[t].op = "disengage"
    BY <1>8 DEF clear_switch, Locals, LocalOK
  <2>2. pc'[t] = "done" /\ job'[t].op = "disengage" /\ UNCHANGED placed
    BY <1>8, <2>1, FinishNeutral, Zenon DEF clear_switch
  <2> QED
    BY <2>2 DEF Owner, Fresh, Kept, Settling
<1>9. CASE \/ single_flight(t) \/ submit_inserted(t) \/ place(t)
           \/ settle(t) \/ rejecting(t) \/ recover_handle(t) \/ recovering(t)
           \/ settling(t) \/ remainder(t) \/ settled(t)
  <2>1. pc'[t] = "inserting" => call'[t].op = "insert_order" /\ call'[t].cid = job'[t].cid
    BY <1>9, OwningSteps, Zenon
  <2>2. CASE Neutral(t) /\ UNCHANGED placed
    BY <1>6, <2>2 DEF Owner
  <2>3. CASE pc'[t] = "inserting" /\ UNCHANGED placed
    BY <1>5, <2>1, <2>3, Zenon DEF Owner, Fresh, Settling
  <2>4. CASE Fresh(t) /\ pc'[t] = "place" /\ job'[t] = job[t] /\ UNCHANGED placed
    BY <2>4, Zenon DEF Owner
  <2>5. CASE /\ pc[t] = "place" /\ pc'[t] = "placed" /\ job'[t].cid = job[t].cid
             /\ placed' = [placed EXCEPT ![job[t].cid] = @ + 1]
    BY <2>5 DEF Owner, Fresh
  <2>6. CASE /\ pc[t] \in Settling /\ pc'[t] \in Settling \cup {"done"}
             /\ job'[t].cid = job[t].cid /\ UNCHANGED placed
    BY <2>6 DEF Owner, Fresh, Settling
  <2> QED
    BY <1>9, <2>2, <2>3, <2>4, <2>5, <2>6, OwningSteps, Zenon
<1> QED
  BY <1>7, <1>8, <1>9, Zenon DEF TaskStep

LEMMA PlaceTaskStep ==
  ASSUME TypeOK, Locals, PlaceInv, NEW t \in Task, Begin(t) \/ TaskStep(t)
  PROVE  PlaceInv'
<1>1. /\ pc'[t] = "inserting" => call'[t].op = "insert_order" /\ call'[t].cid = job'[t].cid
      /\ Owner(t)' => Owner(t) /\ job'[t].cid = job[t].cid
      /\ Fresh(t)' => Fresh(t)
      /\ \/ UNCHANGED placed
         \/ /\ Fresh(t) /\ ~Fresh(t)'
            /\ placed' = [placed EXCEPT ![job[t].cid] = @ + 1]
  BY TaskOwner
<1>2. UNCHANGED orders
  BY SubmitCalls, CancelCalls, AmendCalls, SwitchCalls
  DEF TaskStep, Calls, storeVars, Invoke
<1>3. ASSUME NEW u \in Task, u # t
      PROVE  pc'[u] = pc[u] /\ job'[u] = job[u] /\ call'[u] = call[u]
  <2>1. pc'[u] = pc[u] /\ job'[u] = job[u]
    BY <1>3, TaskMoves DEF Moves, TypeOK
  <2>2. u \in Worker /\ t \in Worker
    BY RouterAssumption
  <2>3. call'[u] = call[u]
    BY <1>3, <2>2, SubmitCalls, CancelCalls, AmendCalls, SwitchCalls, Zenon
    DEF TaskStep, Calls, storeVars, Invoke, TypeOK, StoreTypeOK
  <2> QED
    BY <2>1, <2>3
<1>4. ASSUME NEW u \in Task
      PROVE  /\ Owner(u)' => Owner(u) /\ job'[u].cid = job[u].cid
             /\ Fresh(u)' => Fresh(u)
  BY <1>1, <1>3 DEF Owner, Fresh, Kept
<1>5. ASSUME NEW u \in Task, pc'[u] = "inserting"
      PROVE  Inserting(u)'
  BY <1>1, <1>3, <1>5 DEF Inserting, PlaceInv
<1>6. ASSUME NEW u \in Task, Owner(u)'
      PROVE  job'[u].cid \in Cid /\ orders'[job'[u].cid] # NULL
  BY <1>2, <1>4, <1>6 DEF PlaceInv
<1>7. ASSUME NEW u \in Task, NEW v \in Task, Owner(u)', Owner(v)', job'[u].cid = job'[v].cid
      PROVE  u = v
  BY <1>4, <1>7 DEF PlaceInv
<1>8. placed \in [Cid -> Nat]
  BY DEF TypeOK
<1>9. ASSUME NEW u \in Task, Fresh(u)'
      PROVE  placed'[job'[u].cid] = 0
  <2>1. Owner(u) /\ Owner(u)' /\ Fresh(u)
    BY <1>4, <1>9 DEF Owner
  <2>2. job'[u].cid = job[u].cid /\ job[u].cid \in Cid /\ placed[job[u].cid] = 0
    BY <1>4, <2>1 DEF PlaceInv
  <2>3. CASE UNCHANGED placed
    BY <2>2, <2>3
  <2>4. CASE Fresh(t) /\ ~Fresh(t)' /\ placed' = [placed EXCEPT ![job[t].cid] = @ + 1]
    <3>1. u # t /\ Owner(t)
      BY <1>9, <2>4 DEF Owner
    <3>2. job[u].cid # job[t].cid
      BY <2>1, <3>1 DEF PlaceInv
    <3> QED
      BY <1>8, <2>2, <2>4, <3>2
  <2> QED
    BY <1>1, <2>3, <2>4
<1>10. AtMostOncePlace'
  <2>1. CASE UNCHANGED placed
    BY <1>2, <2>1 DEF PlaceInv, AtMostOncePlace
  <2>2. CASE Fresh(t) /\ placed' = [placed EXCEPT ![job[t].cid] = @ + 1]
    <3>1. job[t].cid \in Cid /\ orders[job[t].cid] # NULL /\ placed[job[t].cid] = 0
      BY <2>2 DEF PlaceInv, Owner
    <3>2. ASSUME NEW c \in Cid
          PROVE  placed'[c] <= (IF orders'[c] = NULL THEN 0 ELSE 1)
      <4>1. CASE c = job[t].cid
        BY <1>2, <1>8, <2>2, <3>1, <4>1
      <4>2. CASE c # job[t].cid
        <5>1. placed'[c] = placed[c] /\ orders'[c] = orders[c]
          BY <1>2, <1>8, <2>2, <4>2
        <5> QED
          BY <5>1 DEF PlaceInv, AtMostOncePlace
      <4> QED
        BY <4>1, <4>2
    <3> QED
      BY <3>2 DEF AtMostOncePlace
  <2> QED
    BY <1>1, <2>1, <2>2
<1> QED
  BY <1>5, <1>6, <1>7, <1>9, <1>10 DEF PlaceInv

(* A statement of the database makes an owner of the call whose INSERT it  *)
(* executes, and of no other.                                              *)
LEMMA PlaceDatabaseStep ==
  ASSUME TypeOK, Locals, PlaceInv, NEW w \in Worker, Database(w), [StoreNext]_storeVars
  PROVE  PlaceInv'
<1>1. /\ UNCHANGED <<pc, job, placed>> /\ call \in [Worker -> Call]
      /\ orders \in [Cid -> Row \cup {NULL}] /\ placed \in [Cid -> Nat]
  BY DEF Database, envVars, worldVars, TypeOK, StoreTypeOK
<1>2. \A c \in Cid : orders[c] # NULL => orders'[c] # NULL
  BY AckedIsStable DEF TypeOK
<1>3. AtMostOncePlace'
  <2>1. SUFFICES ASSUME NEW c \in Cid
                 PROVE  placed[c] <= IF orders'[c] = NULL THEN 0 ELSE 1
    BY <1>1 DEF AtMostOncePlace
  <2>2. placed[c] <= IF orders[c] = NULL THEN 0 ELSE 1
    BY DEF PlaceInv, AtMostOncePlace
  <2>3. placed[c] \in Nat
    BY <1>1
  <2> QED
    BY <1>2, <2>2, <2>3
<1>4. \A v \in Worker : v # w => call'[v] = call[v]
  BY <1>1, Zenon DEF Database, StoreStep, insert_order, ack_order, replace_order, update_status,
       update_write, set_reject_reason, apply_fill, fill_status, fill_commit, publish,
       Return, Continue, ThenPublish
<1>5. \A u \in Task : u \in Worker
  BY RouterAssumption
<1>6. ASSUME w \in Task, pc[w] = "inserting"
      PROVE  /\ Inserting(w)'
             /\ Fresh(w)' => \/ Fresh(w)
                             \/ /\ job[w].cid \in Cid /\ orders[job[w].cid] = NULL
                                /\ orders'[job[w].cid] # NULL
  <2>1. job[w].cid \in Cid
    BY <1>6 DEF Locals, LocalOK, SubmitLabel
  <2>2. Inserting(w)
    BY <1>6 DEF PlaceInv
  <2>3. CASE insert_order(w)
    <3>1. call[w].cid = job[w].cid
      BY <2>2, <2>3 DEF Inserting, insert_order
    <3>2. CASE Return(w, "duplicate") \/ Return(w, "raised")
      BY <1>1, <1>6, <3>2 DEF Return, Continue, Inserting, Fresh
    <3>3. CASE ~(Return(w, "duplicate") \/ Return(w, "raised"))
      <4>1. /\ orders[job[w].cid] = NULL
            /\ ThenPublish(w, job[w].cid, "PENDING_NEW")
            /\ orders' = [orders EXCEPT ![job[w].cid] =
                 [status |-> "PENDING_NEW", broker_order_id |-> NULL,
                  quantity |-> call[w].quantity, reject_reason |-> FALSE]]
        BY <2>3, <3>1, <3>3, Zenon DEF insert_order
      <4>2. call[w].quantity \in Quantity
        BY <1>1, <2>3, CallArguments DEF insert_order
      <4>3. orders'[job[w].cid] \in Row
        BY <1>1, <2>1, <4>1, <4>2 DEF Row, OrderState
      <4>4. orders'[job[w].cid] # NULL
        BY <4>3, NullAssumption
      <4>5. Inserting(w)'
        BY <1>1, <4>1 DEF ThenPublish, Continue, Inserting
      <4> QED
        BY <2>1, <4>1, <4>4, <4>5
    <3> QED
      BY <3>2, <3>3
  <2>4. CASE publish(w)
    BY <1>1, <1>6, <2>4 DEF publish, Return, Continue, Inserting, Fresh
  <2> QED
    BY <2>2, <2>3, <2>4, Zenon DEF Inserting, Database, StoreStep, ack_order, replace_order,
       update_status, update_write, set_reject_reason, apply_fill, fill_status, fill_commit
<1>7. ASSUME NEW u \in Task, Fresh(u)'
      PROVE  \/ Fresh(u)
             \/ /\ u = w /\ pc[w] = "inserting"
                /\ job[w].cid \in Cid /\ orders[job[w].cid] = NULL
                /\ orders'[job[w].cid] # NULL
  BY <1>1, <1>4, <1>5, <1>6, <1>7 DEF Fresh
<1>8. ASSUME NEW u \in Task, Owner(u)'
      PROVE  \/ Owner(u)
             \/ /\ u = w /\ job[w].cid \in Cid /\ orders[job[w].cid] = NULL
                /\ orders'[job[w].cid] # NULL
  BY <1>1, <1>7, <1>8 DEF Owner, Kept
<1>9. ASSUME NEW u \in Task, pc'[u] = "inserting"
      PROVE  Inserting(u)'
  BY <1>1, <1>4, <1>5, <1>6, <1>9 DEF Inserting, PlaceInv
<1>10. ASSUME NEW u \in Task, Owner(u)'
       PROVE  job'[u].cid \in Cid /\ orders'[job'[u].cid] # NULL
  BY <1>1, <1>2, <1>8, <1>10, Zenon DEF PlaceInv
<1>11. ASSUME NEW u \in Task, NEW v \in Task, Owner(u)', Owner(v)', job'[u].cid = job'[v].cid
       PROVE  u = v
  BY <1>1, <1>8, <1>11 DEF PlaceInv
<1>12. ASSUME NEW u \in Task, Fresh(u)'
       PROVE  placed'[job'[u].cid] = 0
  <2>1. CASE Fresh(u)
    BY <1>1, <2>1 DEF PlaceInv
  <2>2. CASE ~Fresh(u)
    <3>1. job'[u].cid = job[w].cid /\ job[w].cid \in Cid /\ orders[job[w].cid] = NULL
      BY <1>1, <1>7, <1>12, <2>2
    <3>2. placed[job[w].cid] <= 0
      BY <3>1 DEF PlaceInv, AtMostOncePlace
    <3>3. placed[job[w].cid] \in Nat /\ placed' = placed
      BY <1>1, <3>1
    <3> QED
      BY <3>1, <3>2, <3>3
  <2> QED
    BY <2>1, <2>2
<1> QED
  BY <1>3, <1>9, <1>10, <1>11, <1>12 DEF PlaceInv

LEMMA PlaceStep ==
  ASSUME TypeOK, Locals, PlaceInv, [Next]_vars
  PROVE  PlaceInv'
<1>1. ASSUME UNCHANGED <<pc, job, placed, orders>>, \A t \in Task : call'[t] = call[t]
      PROVE  PlaceInv'
  BY <1>1 DEF PlaceInv, AtMostOncePlace, Inserting, Owner, Fresh, Kept
<1>2. ASSUME NEW t \in Task, Begin(t) \/ TaskStep(t)
      PROVE  PlaceInv'
  BY <1>2, PlaceTaskStep
<1>3. ASSUME NEW w \in Worker, Database(w)
      PROVE  PlaceInv'
  BY <1>3, RouterStoreStep, PlaceDatabaseStep
<1>4. ASSUME NEW w \in Background, BackgroundCall(w)
      PROVE  PlaceInv'
  <2>1. \A t \in Task : t # w /\ t \in Worker
    BY RouterAssumption DEF Background
  <2> QED
    BY <1>1, <1>4, <2>1
    DEF BackgroundCall, Invoke, envVars, worldVars, TypeOK, StoreTypeOK
<1>5. CASE Crash
  <2>1. NULL \notin {"accepted", "unknown"}
    BY RouterAssumption DEF Answer
  <2>2. ASSUME NEW t \in Task
        PROVE  /\ pc'[t] \in {"start", "done", "dead"}
               /\ Owner(t)' => Owner(t) /\ job'[t] = job[t]
    <3>1. pc'[t] \in {"start", "done", "dead"}
      BY <1>5 DEF Crash
    <3>2. job'[t] = job[t] \/ job'[t] = NoJob
      BY <1>5 DEF Crash
    <3>3. NoJob.answer = NULL
      BY DEF NoJob, NewJob
    <3>4. Owner(t)' => job'[t].answer \in {"accepted", "unknown"} /\ Kept(t)'
      BY <3>1 DEF Owner, Fresh, Kept, Settling
    <3>5. Owner(t)' => job'[t] = job[t]
      BY <2>1, <3>2, <3>3, <3>4
    <3>6. Owner(t)' => Owner(t)
      BY <3>4, <3>5 DEF Owner, Kept
    <3> QED
      BY <3>1, <3>5, <3>6
  <2>3. \A t \in Task : pc'[t] # "inserting" /\ ~Fresh(t)'
    BY <2>2 DEF Fresh
  <2>4. UNCHANGED <<orders, placed>>
    BY <1>5 DEF Crash, StoreCrash
  <2> QED
    BY <2>2, <2>3, <2>4 DEF PlaceInv, AtMostOncePlace
<1>6. CASE Environment /\ ~Crash
  BY <1>1, <1>6
  DEF Environment, LockExpires, VenueCloses, RedisFlips, BreakerResets, storeVars, worldVars
<1>7. CASE UNCHANGED vars
  BY <1>1, <1>7 DEF vars, storeVars, envVars, worldVars
<1> QED
  BY <1>2, <1>3, <1>4, <1>5, <1>6, <1>7 DEF Next

LEMMA PlaceInit ==
  ASSUME Init
  PROVE  PlaceInv
<1>1. NULL \notin {"accepted", "unknown"}
  BY RouterAssumption DEF Answer
<1>2. ASSUME NEW t \in Task
      PROVE  pc[t] = "start" /\ ~Owner(t) /\ ~Fresh(t)
  BY <1>1, Zenon DEF Init, Owner, Fresh, Kept, Settling, NoJob, NewJob
<1>3. AtMostOncePlace
  BY DEF Init, StoreInit, AtMostOncePlace
<1> QED
  BY <1>2, <1>3 DEF PlaceInv

LEMMA PlaceInvariant == Spec => []PlaceInv
<1>1. Init => PlaceInv
  BY PlaceInit
<1>2. TypeOK /\ Locals /\ PlaceInv /\ [Next]_vars => PlaceInv'
  BY PlaceStep
<1> QED
  BY <1>1, <1>2, RouterTypeCorrect, PTL DEF Spec

(* However many calls carry a client_order_id, and whatever expires, fails *)
(* or crashes, adapter.place is called for it at most once, and only once  *)
(* its row is durable.                                                     *)
THEOREM RouterAtMostOncePlace == Spec => []AtMostOncePlace
<1>1. PlaceInv => AtMostOncePlace
  BY DEF PlaceInv
<1> QED
  BY <1>1, PlaceInvariant, PTL

(* Of the submits and replacements that carry one client_order_id at most  *)
(* one is answered as the original.                                        *)
THEOREM RouterOneOriginal == Spec => []OneOriginal
<1>1. PlaceInv => OneOriginal
  BY DEF PlaceInv, OneOriginal, Owner, Kept
<1> QED
  BY <1>1, PlaceInvariant, PTL

=============================================================================
