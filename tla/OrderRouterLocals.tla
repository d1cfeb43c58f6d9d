--------------------------- MODULE OrderRouterLocals --------------------------
(***************************************************************************)
(* What the locals of a call are at each of its labels, and that every     *)
(* step of a call keeps them so.  OrderRouterProofs builds the type        *)
(* correctness of the router on the last lemma, TaskMoves.                 *)
(***************************************************************************)
EXTENDS OrderRouter, OrderStoreProofs

-----------------------------------------------------------------------------
(* What a call's locals are at each label. *)

SweepLabel == {"engage", "trip_switch", "trip", "fetch_open", "sweep"}
SubmitLabel ==
  {"submit", "dedupe", "gate", "single_flight", "await_concurrent", "inserting", "place",
   "placed", "rejecting", "recover_handle", "recovering", "settling", "remainder", "settled"}
CancelLabel == {"cancel", "marking", "adapter_cancel", "cancel_acked", "confirming"}
AmendLabel ==
  {"amend", "amend_fetch", "amend_native", "replace_marking", "venue_amend", "replacing",
   "restoring"}

LocalOK(l, j) ==
  /\ l \in Label /\ j \in Job
  /\ l \in SubmitLabel \cup CancelLabel \cup AmendLabel => j.cid \in Cid
  /\ l \in SubmitLabel => j.qty \in Quantity
  /\ l \in CancelLabel /\ j.op = "amend" => j.new_cid \in Cid /\ j.qty \in Quantity
  /\ l \in SweepLabel => j.op \in {"engage", "trip"}
  /\ l \in {"disengage", "clear_switch"} => j.op = "disengage"
  /\ l # "done" => j.answer = NULL

Locals == \A t \in Task : LocalOK(pc[t], job[t])

(* A step of task t that keeps its locals in order. *)
Moves(t) ==
  \E l, j : /\ LocalOK(l, j)
            /\ pc' = [pc EXCEPT ![t] = l]
            /\ job' = [job EXCEPT ![t] = j]

LEMMA NewJobType ==
  ASSUME NEW op \in Ops \cup {NULL}, NEW c \in Cid \cup {NULL}, NEW n \in Cid \cup {NULL},
         NEW q \in Quantity \cup {NULL}, NEW a \in Answer \cup {NULL}
  PROVE  LET j == NewJob(op, c, n, q, a) IN
         /\ j \in Job
         /\ j.op = op /\ j.cid = c /\ j.new_cid = n /\ j.qty = q /\ j.answer = a
BY DEF NewJob, Job

LEMMA FinishMoves ==
  ASSUME TypeOK, NEW t \in Task, NEW answer \in Answer, Finish(t, answer)
  PROVE  Moves(t)
<1>1. job[t] \in Job
  BY DEF TypeOK
<1>2. Answered(t, answer) \in Job
  BY <1>1, NewJobType, Zenon DEF Answered, Job
<1>3. LocalOK("done", Answered(t, answer))
  BY <1>2 DEF LocalOK, Label, SubmitLabel, CancelLabel, AmendLabel, SweepLabel
<1> QED
  BY <1>3, Zenon DEF Moves, Finish, Goto

LEMMA GotoMoves ==
  ASSUME TypeOK, NEW t \in Task, NEW l, LocalOK(l, job[t]), Goto(t, l), UNCHANGED job
  PROVE  Moves(t)
<1>1. job' = [job EXCEPT ![t] = job[t]]
  BY DEF TypeOK
<1> QED
  BY <1>1, Zenon DEF Moves, Goto

(* A step that gives t the label l and the locals j. *)
LEMMA JobMoves ==
  ASSUME TypeOK, NEW t \in Task, NEW l, NEW j, LocalOK(l, j), Goto(t, l),
         job' = [job EXCEPT ![t] = j]
  PROVE  Moves(t)
BY Zenon DEF Moves, Goto

LEMMA BeginMoves ==
  ASSUME TypeOK, Locals, NEW t \in Task, Begin(t)
  PROVE  Moves(t)
<1>1. PICK op \in Ops, c \in Cid :
        \/ /\ op = "submit"
           /\ job' = [job EXCEPT ![t] = NewJob(op, c, NULL, OrderQty, NULL)]
           /\ Goto(t, "submit")
        \/ /\ op = "cancel"
           /\ job' = [job EXCEPT ![t] = NewJob(op, c, NULL, NULL, NULL)]
           /\ Goto(t, "cancel")
        \/ /\ op = "amend"
           /\ \E n \in {d \in Cid : d \in SimAdapter <=> c \in SimAdapter} \cup {NULL},
                 q \in AmendQty :
                job' = [job EXCEPT ![t] = NewJob(op, c, n, q, NULL)]
           /\ Goto(t, "amend")
        \/ /\ op \in {"engage", "disengage", "trip"}
           /\ job' = [job EXCEPT ![t] = NewJob(op, NULL, NULL, NULL, NULL)]
           /\ Goto(t, op)
  BY DEF Begin
<1>2. CASE op = "submit"
  <2>1. LocalOK("submit", NewJob(op, c, NULL, OrderQty, NULL))
    BY <1>2, RouterAssumption, NewJobType
    DEF LocalOK, Label, SubmitLabel, CancelLabel, AmendLabel, SweepLabel
  <2> QED
    BY <1>1, <1>2, <2>1, JobMoves
<1>3. CASE op = "cancel"
  <2>1. LocalOK("cancel", NewJob(op, c, NULL, NULL, NULL))
    BY <1>3, NewJobType
    DEF LocalOK, Label, SubmitLabel, CancelLabel, AmendLabel, SweepLabel
  <2> QED
    BY <1>1, <1>3, <2>1, JobMoves
<1>4. CASE op = "amend"
  <2>1. PICK n \in Cid \cup {NULL}, q \in AmendQty :
          job' = [job EXCEPT ![t] = NewJob(op, c, n, q, NULL)]
    BY <1>1, <1>4
  <2>2. LocalOK("amend", NewJob(op, c, n, q, NULL))
    BY <1>4, RouterAssumption, NewJobType
    DEF LocalOK, Label, SubmitLabel, CancelLabel, AmendLabel, SweepLabel
  <2> QED
    BY <1>1, <1>4, <2>1, <2>2, JobMoves, Zenon
<1>5. CASE op \in {"engage", "disengage", "trip"}
  <2>1. LocalOK(op, NewJob(op, NULL, NULL, NULL, NULL))
    BY <1>5, NewJobType
    DEF LocalOK, Label, SubmitLabel, CancelLabel, AmendLabel, SweepLabel
  <2> QED
    BY <1>1, <1>5, <2>1, JobMoves
<1> QED
  BY <1>1, <1>2, <1>3, <1>4, <1>5

(* Labels between which a call keeps its identity. *)
SameClass(l, m) ==
  \E class \in {SubmitLabel, CancelLabel, AmendLabel, SweepLabel, {"disengage", "clear_switch"}} :
    l \in class /\ m \in class

SameCall(j, k) ==
  j.op = k.op /\ j.cid = k.cid /\ j.new_cid = k.new_cid /\ j.qty = k.qty /\ j.answer = k.answer

LEMMA ClassKeepsLocals ==
  ASSUME NEW l, NEW m, NEW j, NEW k \in Job, LocalOK(l, j), SameClass(l, m), SameCall(j, k)
  PROVE  LocalOK(m, k)
<1>1. l # "done" /\ m \in Label
  BY DEF SameClass, SubmitLabel, CancelLabel, AmendLabel, SweepLabel, Label
<1>2. k.answer = NULL
  BY <1>1 DEF LocalOK, SameCall
<1>3. CASE l \in SubmitLabel /\ m \in SubmitLabel
  BY <1>1, <1>2, <1>3
  DEF LocalOK, SameCall, SubmitLabel, CancelLabel, AmendLabel, SweepLabel
<1>4. CASE l \in CancelLabel /\ m \in CancelLabel
  BY <1>1, <1>2, <1>4
  DEF LocalOK, SameCall, SubmitLabel, CancelLabel, AmendLabel, SweepLabel
<1>5. CASE l \in AmendLabel /\ m \in AmendLabel
  BY <1>1, <1>2, <1>5
  DEF LocalOK, SameCall, SubmitLabel, CancelLabel, AmendLabel, SweepLabel
<1>6. CASE l \in SweepLabel /\ m \in SweepLabel
  BY <1>1, <1>2, <1>6
  DEF LocalOK, SameCall, SubmitLabel, CancelLabel, AmendLabel, SweepLabel
<1>7. CASE l \in {"disengage", "clear_switch"} /\ m \in {"disengage", "clear_switch"}
  BY <1>1, <1>2, <1>7
  DEF LocalOK, SameCall, SubmitLabel, CancelLabel, AmendLabel, SweepLabel
<1> QED
  BY <1>3, <1>4, <1>5, <1>6, <1>7 DEF SameClass

LEMMA ClassMoves ==
  ASSUME TypeOK, Locals, NEW t \in Task, NEW m, Goto(t, m), SameClass(pc[t], m),
         \/ UNCHANGED job
         \/ \E k \in Job : SameCall(job[t], k) /\ job' = [job EXCEPT ![t] = k]
  PROVE  Moves(t)
<1>1. job \in [Task -> Job] /\ LocalOK(pc[t], job[t])
  BY DEF TypeOK, Locals
<1>2. CASE UNCHANGED job
  <2>1. SameCall(job[t], job[t]) /\ job[t] \in Job
    BY <1>1 DEF SameCall
  <2> QED
    BY <1>1, <1>2, <2>1, ClassKeepsLocals, GotoMoves
<1>3. ASSUME NEW k \in Job, SameCall(job[t], k), job' = [job EXCEPT ![t] = k]
      PROVE  Moves(t)
  BY <1>1, <1>3, ClassKeepsLocals, JobMoves, Zenon
<1> QED
  BY <1>2, <1>3

(* A task that goes on without a change of label. *)
LEMMA StayMoves ==
  ASSUME TypeOK, Locals, NEW t \in Task, UNCHANGED pc, SameClass(pc[t], pc[t]),
         NEW k \in Job, SameCall(job[t], k), job' = [job EXCEPT ![t] = k]
  PROVE  Moves(t)
<1>1. Goto(t, pc[t])
  BY DEF Goto, TypeOK
<1> QED
  BY <1>1, ClassMoves, Zenon

(* Updates of locals that leave the call what it is. *)
LEMMA LocalUpdates ==
  ASSUME NEW j \in Job
  PROVE  /\ \A a \in Ack \cup {NULL} :
              [j EXCEPT !.ack = a] \in Job /\ SameCall(j, [j EXCEPT !.ack = a])
         /\ \A f \in Seq(Fill) :
              [j EXCEPT !.fills = f] \in Job /\ SameCall(j, [j EXCEPT !.fills = f])
         /\ \A p \in Seq(Command) :
              [j EXCEPT !.plan = p] \in Job /\ SameCall(j, [j EXCEPT !.plan = p])
         /\ \A b \in BOOLEAN :
              /\ [j EXCEPT !.ioc = b] \in Job /\ SameCall(j, [j EXCEPT !.ioc = b])
              /\ [j EXCEPT !.failed = b] \in Job /\ SameCall(j, [j EXCEPT !.failed = b])
              /\ [j EXCEPT !.partial = b] \in Job /\ SameCall(j, [j EXCEPT !.partial = b])
         /\ \A r \in SUBSET Cid :
              [j EXCEPT !.rows = r] \in Job /\ SameCall(j, [j EXCEPT !.rows = r])
<1>1. \A a \in Ack \cup {NULL} :
        [j EXCEPT !.ack = a] \in Job /\ SameCall(j, [j EXCEPT !.ack = a])
  BY DEF Job, SameCall
<1>2. \A f \in Seq(Fill) :
        [j EXCEPT !.fills = f] \in Job /\ SameCall(j, [j EXCEPT !.fills = f])
  BY Zenon DEF Job, SameCall
<1>3. \A p \in Seq(Command) :
        [j EXCEPT !.plan = p] \in Job /\ SameCall(j, [j EXCEPT !.plan = p])
  BY DEF Job, SameCall
<1>4. \A b \in BOOLEAN :
        /\ [j EXCEPT !.ioc = b] \in Job /\ SameCall(j, [j EXCEPT !.ioc = b])
        /\ [j EXCEPT !.failed = b] \in Job /\ SameCall(j, [j EXCEPT !.failed = b])
        /\ [j EXCEPT !.partial = b] \in Job /\ SameCall(j, [j EXCEPT !.partial = b])
  <2>1. \A b \in BOOLEAN : [j EXCEPT !.ioc = b] \in Job /\ SameCall(j, [j EXCEPT !.ioc = b])
    BY Zenon DEF Job, SameCall
  <2>2. \A b \in BOOLEAN : [j EXCEPT !.failed = b] \in Job /\ SameCall(j, [j EXCEPT !.failed = b])
    BY Zenon DEF Job, SameCall
  <2>3. \A b \in BOOLEAN : [j EXCEPT !.partial = b] \in Job /\ SameCall(j, [j EXCEPT !.partial = b])
    BY Zenon DEF Job, SameCall
  <2> QED
    BY <2>1, <2>2, <2>3, Zenon
<1>5. \A r \in SUBSET Cid :
        [j EXCEPT !.rows = r] \in Job /\ SameCall(j, [j EXCEPT !.rows = r])
  BY DEF Job, SameCall
<1> QED
  BY <1>1, <1>2, <1>3, <1>4, <1>5

(* Updates of the order a call is about. *)
LEMMA OrderUpdates ==
  ASSUME NEW j \in Job
  PROVE  /\ \A c \in Cid :
              LET k == [j EXCEPT !.cid = c] IN
              /\ k \in Job /\ k.cid = c
              /\ k.op = j.op /\ k.new_cid = j.new_cid /\ k.qty = j.qty /\ k.answer = j.answer
         /\ \A q \in Quantity :
              LET k == [j EXCEPT !.qty = q] IN
              /\ k \in Job /\ k.qty = q
              /\ k.op = j.op /\ k.cid = j.cid /\ k.new_cid = j.new_cid /\ k.answer = j.answer
BY DEF Job

-----------------------------------------------------------------------------
(* Every step of a call keeps its locals in order: submit. *)

LEMMA SubmitClass ==
  \A l, m \in SubmitLabel : SameClass(l, m)
BY DEF SameClass

LEMMA SubmitMoves ==
  ASSUME TypeOK, Locals, NEW t \in Task,
         \/ submit(t) \/ submit_dedupe(t) \/ submit_gate(t) \/ single_flight(t)
         \/ await_concurrent(t) \/ submit_inserted(t) \/ settled(t)
  PROVE  Moves(t)
<1> USE DEF SubmitLabel, Answer
<1>1. CASE submit(t)
  BY <1>1, FinishMoves, ClassMoves, SubmitClass DEF submit
<1>2. CASE submit_dedupe(t)
  BY <1>2, FinishMoves, ClassMoves, SubmitClass DEF submit_dedupe
<1>3. CASE submit_gate(t)
  BY <1>3, FinishMoves, ClassMoves, SubmitClass DEF submit_gate
<1>4. CASE single_flight(t)
  BY <1>4, ClassMoves, SubmitClass DEF single_flight
<1>5. CASE await_concurrent(t)
  BY <1>5, FinishMoves DEF await_concurrent
<1>6. CASE submit_inserted(t)
  BY <1>6, FinishMoves, ClassMoves, SubmitClass DEF submit_inserted
<1>7. CASE settled(t)
  BY <1>7, FinishMoves DEF settled
<1> QED
  BY <1>1, <1>2, <1>3, <1>4, <1>5, <1>6, <1>7

(* The plans of handle recovery consist of repository calls. *)
LEMMA RepairPlansType ==
  ASSUME NEW c \in Cid, NEW q \in Quantity, NEW plan \in RepairPlans(c, q)
  PROVE  plan \in Seq(Command)
<1>1. Acking(c) \in Command
  BY RouterAssumption DEF Acking, Command
<1>2. ASSUME NEW n \in Quantity
      PROVE  Matched(c, n, q) \in Command
  <2>1. (CHOOSE id \in FillId : TRUE) \in FillId
    BY RouterAssumption
  <2> QED
    BY <2>1 DEF Matched, Command, FillCall, Fill
<1>3. ASSUME NEW s \in OrderState
      PROVE  Status(c, s) \in Command
  BY DEF Status, Command
<1>4. [op |-> "set_reject_reason", cid |-> c] \in Command
  BY DEF Command
<1>5. \A a, b \in Command : <<a>> \in Seq(Command) /\ <<a, b>> \in Seq(Command)
  OBVIOUS
<1>6. \A p, r \in Seq(Command) : p \o r \in Seq(Command)
  OBVIOUS
<1>7. <<>> \in Seq(Command)
  OBVIOUS
<1>8. ASSUME NEW p \in FoundPlans(c, q)
      PROVE  p \in Seq(Command)
  BY <1>1, <1>2, <1>5, Zenon DEF FoundPlans
<1>9. ASSUME NEW p \in ClosePlans(c)
      PROVE  p \in Seq(Command)
  BY <1>3, <1>5, Zenon DEF ClosePlans, OrderState
<1>10. ASSUME NEW p \in GonePlans(c, q)
       PROVE  p \in Seq(Command)
  <2>1. <<Acking(c), Matched(c, q, q)>> \in Seq(Command)
    BY <1>1, <1>2, <1>5
  <2>2. <<Status(c, "REJECTED"), [op |-> "set_reject_reason", cid |-> c]>> \in Seq(Command)
    BY <1>3, <1>4, <1>5 DEF OrderState
  <2>3. \/ p = <<Acking(c), Matched(c, q, q)>>
        \/ p = <<Status(c, "REJECTED"), [op |-> "set_reject_reason", cid |-> c]>>
        \/ \E found \in FoundPlans(c, q), close \in ClosePlans(c) : p = found \o close
    BY DEF GonePlans
  <2>4. CASE \E found \in FoundPlans(c, q), close \in ClosePlans(c) : p = found \o close
    BY <1>6, <1>8, <1>9, <2>4
  <2> QED
    BY <2>1, <2>2, <2>3, <2>4, Zenon
<1> QED
  BY <1>7, <1>8, <1>10, Zenon DEF RepairPlans

LEMMA SettleMoves ==
  ASSUME TypeOK, Locals, NEW t \in Task,
         \/ place(t) \/ settle(t) \/ rejecting(t) \/ recover_handle(t) \/ recovering(t)
         \/ settling(t) \/ remainder(t)
  PROVE  Moves(t)
<1> job[t] \in Job /\ job \in [Task -> Job] /\ LocalOK(pc[t], job[t])
  BY DEF TypeOK, Locals
<1> USE DEF SubmitLabel, Answer
<1>1. CASE place(t)
  <2>1. SameClass(pc[t], "placed") /\ Goto(t, "placed")
    BY <1>1, SubmitClass DEF place
  <2>2. CASE real_place(t)
    <3>1. PICK ack \in Ack : job' = [job EXCEPT ![t].ack = ack]
      BY <2>2 DEF real_place, Ack
    <3>2. job' = [job EXCEPT ![t] = [job[t] EXCEPT !.ack = ack]]
      BY <3>1
    <3> QED
      BY <2>1, <3>2, LocalUpdates, ClassMoves, Zenon
  <2>3. CASE sim_place(t)
    <3>1. PICK plan \in FillPlans, ioc, refuse \in BOOLEAN :
            LET filled == SumFunction(plan) IN
            job' = [job EXCEPT ![t] =
              IF refuse \/ filled > job[t].qty
              THEN [@ EXCEPT !.ack = "rejected"]
              ELSE [@ EXCEPT !.ack = "handle",
                      !.fills = [i \in DOMAIN plan |-> [id |-> i, quantity |-> plan[i]]],
                      !.ioc = ioc /\ filled < job[t].qty]]
      BY <2>3, Zenon DEF sim_place
    <3> DEFINE f == [i \in DOMAIN plan |-> [id |-> i, quantity |-> plan[i]]]
               b == ioc /\ SumFunction(plan) < job[t].qty
               j1 == [job[t] EXCEPT !.ack = "handle"]
               j2 == [j1 EXCEPT !.fills = f]
               j3 == [j2 EXCEPT !.ioc = b]
    <3>2. f \in Seq(Fill)
      <4>1. plan \in Seq(Quantity) /\ DOMAIN plan \subseteq FillId
        BY RouterAssumption
      <4>2. Len(plan) \in Nat /\ DOMAIN plan = 1 .. Len(plan)
        BY <4>1
      <4>3. \A i \in 1 .. Len(plan) : [id |-> i, quantity |-> plan[i]] \in Fill
        BY <4>1, <4>2 DEF Fill
      <4> QED
        BY <4>2, <4>3
    <3>3. b \in BOOLEAN
      OBVIOUS
    <3>4. "handle" \in Ack /\ "rejected" \in Ack
      BY DEF Ack
    <3>5. \/ job' = [job EXCEPT ![t] = [job[t] EXCEPT !.ack = "rejected"]]
          \/ job' = [job EXCEPT ![t] = j3]
      BY <3>1, Zenon
    <3> HIDE DEF f, b
    <3>6. j1 \in Job /\ SameCall(job[t], j1)
      BY <3>4, LocalUpdates
    <3> HIDE DEF j1
    <3>7. j2 \in Job /\ SameCall(j1, j2)
      BY <3>2, <3>6, LocalUpdates
    <3> HIDE DEF j2
    <3>8. j3 \in Job /\ SameCall(j2, j3)
      BY <3>3, <3>7, LocalUpdates, Zenon
    <3> HIDE DEF j3
    <3>9. SameCall(job[t], j3)
      BY <3>6, <3>7, <3>8 DEF SameCall
    <3> QED
      BY <2>1, <3>4, <3>5, <3>8, <3>9, LocalUpdates, ClassMoves
  <2> QED
    BY <1>1, <2>2, <2>3 DEF place
<1>2. CASE settle(t)
  BY <1>2, FinishMoves, ClassMoves, SubmitClass DEF settle, Await, Leave
<1>3. CASE rejecting(t)
  BY <1>3, FinishMoves, ClassMoves, SubmitClass DEF rejecting, Await, Leave
<1>4. CASE recover_handle(t)
  <2>1. PICK plan \in RepairPlans(job[t].cid, job[t].qty) : job' = [job EXCEPT ![t].plan = plan]
    BY <1>4, Zenon DEF recover_handle
  <2>2. job[t].cid \in Cid /\ job[t].qty \in Quantity
    BY <1>4 DEF recover_handle, LocalOK
  <2>3. plan \in Seq(Command)
    BY <2>2, RepairPlansType
  <2>4. job' = [job EXCEPT ![t] = [job[t] EXCEPT !.plan = plan]]
    BY <2>1
  <2> QED
    BY <1>4, <2>3, <2>4, LocalUpdates, ClassMoves, SubmitClass, Zenon DEF recover_handle
<1>5. CASE recovering(t)
  <2>1. CASE job[t].plan # <<>> /\ ~Abandoned(t)
    <3>1. Tail(job[t].plan) \in Seq(Command)
      BY <2>1 DEF Job
    <3>2. job' = [job EXCEPT ![t] = [job[t] EXCEPT !.plan = Tail(job[t].plan)]] /\ UNCHANGED pc
      BY <1>5, <2>1 DEF recovering
    <3> QED
      BY <1>5, <3>1, <3>2, LocalUpdates, StayMoves, SubmitClass, Zenon DEF recovering
  <2>2. CASE job[t].plan = <<>> \/ Abandoned(t)
    BY <1>5, <2>2, FinishMoves DEF recovering, Leave
  <2> QED
    BY <2>1, <2>2
<1>6. CASE settling(t)
  <2>1. CASE Ok(t) /\ job[t].fills # <<>>
    <3>1. Tail(job[t].fills) \in Seq(Fill)
      BY <2>1 DEF Job
    <3>2. job' = [job EXCEPT ![t] = [job[t] EXCEPT !.fills = Tail(job[t].fills)]] /\ UNCHANGED pc
      BY <1>6, <2>1 DEF settling, Ok, Raised
    <3> QED
      BY <1>6, <3>1, <3>2, LocalUpdates, StayMoves, SubmitClass, Zenon DEF settling
  <2>2. CASE ~(Ok(t) /\ job[t].fills # <<>>)
    BY <1>6, <2>2, FinishMoves, ClassMoves, SubmitClass DEF settling, Await, Leave
  <2> QED
    BY <2>1, <2>2
<1>7. CASE remainder(t)
  BY <1>7, FinishMoves, ClassMoves, SubmitClass DEF remainder, Await, Leave
<1> QED
  BY <1>1, <1>2, <1>3, <1>4, <1>5, <1>6, <1>7

-----------------------------------------------------------------------------
(* ... cancel ... *)

LEMMA CancelClass ==
  \A l, m \in CancelLabel : SameClass(l, m)
BY DEF SameClass

LEMMA CancelEndsMoves ==
  ASSUME TypeOK, Locals, NEW t \in Task, pc[t] \in CancelLabel, NEW answer \in Answer,
         CancelEnds(t, answer)
  PROVE  Moves(t)
<1> job[t] \in Job /\ job \in [Task -> Job] /\ LocalOK(pc[t], job[t])
  BY DEF TypeOK, Locals
<1>0. pc[t] # "done" /\ job[t].answer = NULL
  BY DEF LocalOK, CancelLabel
<1>1. ASSUME Sweeping(t), Goto(t, "sweep"),
             job' = [job EXCEPT ![t].ack = NULL, ![t].failed = @ \/ answer = "failed"]
      PROVE  Moves(t)
  <2> DEFINE b == job[t].failed \/ answer = "failed"
             j1 == [job[t] EXCEPT !.ack = NULL]
             j2 == [j1 EXCEPT !.failed = b]
  <2>1. b \in BOOLEAN
    OBVIOUS
  <2>2. j1 \in Job /\ SameCall(job[t], j1)
    BY LocalUpdates
  <2>3. job' = [job EXCEPT ![t] = [j1 EXCEPT !.failed = b]]
    BY <1>1, Zenon
  <2> HIDE DEF b, j1
  <2>4. j2 \in Job /\ SameCall(j1, j2)
    BY <2>1, <2>2, LocalUpdates, Zenon
  <2>5. job' = [job EXCEPT ![t] = j2]
    BY <2>3
  <2> HIDE DEF j2
  <2>6. j2.op \in {"engage", "trip"} /\ j2.answer = NULL
    BY <1>0, <1>1, <2>2, <2>4 DEF Sweeping, SameCall
  <2>7. LocalOK("sweep", j2)
    BY <2>4, <2>6 DEF LocalOK, Label, SweepLabel, SubmitLabel, CancelLabel, AmendLabel
  <2> QED
    BY <1>1, <2>5, <2>7, JobMoves, Zenon
<1>2. ASSUME job[t].op = "amend", Goto(t, "submit"),
             job' = [job EXCEPT ![t].replaces = job[t].cid, ![t].cid = job[t].new_cid,
                                ![t].ack = NULL]
      PROVE  Moves(t)
  <2> DEFINE j1 == [job[t] EXCEPT !.replaces = job[t].cid]
             j2 == [j1 EXCEPT !.cid = job[t].new_cid]
             j3 == [j2 EXCEPT !.ack = NULL]
  <2>1. job[t].new_cid \in Cid /\ job[t].qty \in Quantity /\ job[t].cid \in Cid
    BY <1>2 DEF LocalOK
  <2>2. job' = [job EXCEPT ![t] = j3]
    BY <1>2, Zenon
  <2>3. j1 \in Job /\ SameCall(job[t], j1)
    BY <2>1, Zenon DEF Job, SameCall
  <2> HIDE DEF j1
  <2>4. /\ j2 \in Job /\ j2.cid = job[t].new_cid /\ j2.qty = job[t].qty
        /\ j2.op = "amend" /\ j2.answer = NULL
    BY <1>0, <1>2, <2>1, <2>3, OrderUpdates DEF SameCall
  <2> HIDE DEF j2
  <2>5. j3 \in Job /\ SameCall(j2, j3)
    BY <2>4, LocalUpdates, Zenon
  <2> HIDE DEF j3
  <2>6. LocalOK("submit", j3)
    BY <2>1, <2>4, <2>5
    DEF SameCall, LocalOK, Label, SweepLabel, SubmitLabel, CancelLabel, AmendLabel
  <2> QED
    BY <1>2, <2>2, <2>6, JobMoves, Zenon
<1> QED
  BY <1>1, <1>2, FinishMoves DEF CancelEnds

LEMMA CancelMoves ==
  ASSUME TypeOK, Locals, NEW t \in Task,
         \/ cancel(t) \/ cancel_marked(t) \/ adapter_cancel(t) \/ cancel_acked(t)
         \/ cancel_confirmed(t)
  PROVE  Moves(t)
<1> job[t] \in Job /\ job \in [Task -> Job]
  BY DEF TypeOK
<1> USE DEF CancelLabel, Answer
<1>1. CASE cancel(t)
  BY <1>1, FinishMoves, CancelEndsMoves, ClassMoves, CancelClass DEF cancel
<1>2. CASE cancel_marked(t)
  BY <1>2, CancelEndsMoves, ClassMoves, CancelClass DEF cancel_marked
<1>3. CASE adapter_cancel(t)
  <2>1. PICK ack \in {"ok", "refused"} : job' = [job EXCEPT ![t].ack = ack]
    BY <1>3 DEF adapter_cancel
  <2>2. job' = [job EXCEPT ![t] = [job[t] EXCEPT !.ack = ack]] /\ ack \in Ack
    BY <2>1 DEF Ack
  <2> QED
    BY <1>3, <2>2, LocalUpdates, ClassMoves, CancelClass, Zenon DEF adapter_cancel
<1>4. CASE cancel_acked(t)
  BY <1>4, CancelEndsMoves, ClassMoves, CancelClass DEF cancel_acked
<1>5. CASE cancel_confirmed(t)
  BY <1>5, CancelEndsMoves DEF cancel_confirmed
<1> QED
  BY <1>1, <1>2, <1>3, <1>4, <1>5

-----------------------------------------------------------------------------
(* ... amend, the kill switch and the sweep. *)

LEMMA AmendClass ==
  \A l, m \in AmendLabel : SameClass(l, m)
BY DEF SameClass

LEMMA AmendMoves ==
  ASSUME TypeOK, Locals, NEW t \in Task,
         \/ amend(t) \/ amend_fetch(t) \/ amend_native(t) \/ amend_marked(t)
         \/ venue_amend(t) \/ amend_replaced(t) \/ amend_restored(t)
  PROVE  Moves(t)
<1> job[t] \in Job /\ job \in [Task -> Job] /\ LocalOK(pc[t], job[t])
  BY DEF TypeOK, Locals
<1> USE DEF AmendLabel, Answer
<1>1. CASE amend(t)
  BY <1>1, FinishMoves, ClassMoves, AmendClass DEF amend
<1>2. CASE amend_fetch(t)
  <2> DEFINE c == job[t].cid
             q == IF job[t].qty = NULL THEN orders[c].quantity ELSE job[t].qty
             j == [job[t] EXCEPT !.qty = q]
  <2>1. CASE orders[c] # NULL /\ job[t].new_cid # NULL /\ Goto(t, "cancel")
              /\ job' = [job EXCEPT ![t].qty = IF @ = NULL THEN orders[c].quantity ELSE @]
    <3>1. c \in Cid /\ job[t].answer = NULL
      BY <1>2 DEF amend_fetch, LocalOK
    <3>2. orders[c] \in Row /\ job[t].new_cid \in Cid /\ job[t].qty \in Quantity \cup {NULL}
      BY <2>1, <3>1 DEF TypeOK, StoreTypeOK, Job
    <3>3. q \in Quantity
      BY <3>2 DEF Row
    <3>4. job' = [job EXCEPT ![t] = j]
      BY <2>1
    <3> HIDE DEF q
    <3>5. /\ j \in Job /\ j.qty = q /\ j.cid = job[t].cid /\ j.new_cid = job[t].new_cid
          /\ j.answer = NULL
      BY <3>1, <3>3, OrderUpdates
    <3> HIDE DEF j
    <3>6. LocalOK("cancel", j)
      BY <3>1, <3>2, <3>3, <3>5 DEF LocalOK, Label, SweepLabel, SubmitLabel, CancelLabel
    <3> QED
      BY <2>1, <3>4, <3>6, JobMoves, Zenon
  <2> QED
    BY <1>2, <2>1, FinishMoves, ClassMoves, AmendClass DEF amend_fetch
<1>3. CASE amend_native(t)
  <2>1. ASSUME job' = [job EXCEPT ![t].partial = (filled_qty(job[t].cid) # 0)],
               Goto(t, "replace_marking")
        PROVE  Moves(t)
    <3>1. PICK b \in BOOLEAN : b = (filled_qty(job[t].cid) # 0)
      OBVIOUS
    <3>2. job' = [job EXCEPT ![t] = [job[t] EXCEPT !.partial = b]]
      BY <2>1, <3>1
    <3> QED
      BY <1>3, <2>1, <3>2, LocalUpdates, ClassMoves, AmendClass, Zenon DEF amend_native
  <2> QED
    BY <1>3, <2>1, FinishMoves DEF amend_native
<1>4. CASE amend_marked(t)
  BY <1>4, FinishMoves, ClassMoves, AmendClass DEF amend_marked
<1>5. CASE venue_amend(t)
  <2>1. PICK ack \in {"ok", "refused"} : job' = [job EXCEPT ![t].ack = ack]
    BY <1>5 DEF venue_amend
  <2>2. job' = [job EXCEPT ![t] = [job[t] EXCEPT !.ack = ack]] /\ ack \in Ack
    BY <2>1 DEF Ack
  <2> QED
    BY <1>5, <2>2, LocalUpdates, ClassMoves, AmendClass, Zenon DEF venue_amend
<1>6. CASE amend_replaced(t)
  BY <1>6, FinishMoves, ClassMoves, AmendClass DEF amend_replaced
<1>7. CASE amend_restored(t)
  BY <1>7, FinishMoves DEF amend_restored
<1> QED
  BY <1>1, <1>2, <1>3, <1>4, <1>5, <1>6, <1>7

LEMMA SwitchMoves ==
  ASSUME TypeOK, Locals, NEW t \in Task,
         \/ engage(t) \/ trip_switch(t) \/ disengage(t) \/ clear_switch(t) \/ trip(t)
         \/ fetch_open(t) \/ sweep(t)
  PROVE  Moves(t)
<1> job[t] \in Job /\ job \in [Task -> Job] /\ LocalOK(pc[t], job[t])
  BY DEF TypeOK, Locals
<1>0. /\ \A l, m \in SweepLabel : SameClass(l, m)
      /\ SameClass("disengage", "clear_switch")
  BY DEF SameClass
<1> USE DEF SweepLabel, Answer
<1>1. CASE engage(t)
  BY <1>0, <1>1, FinishMoves, ClassMoves DEF engage
<1>2. CASE trip_switch(t)
  BY <1>0, <1>2, FinishMoves, ClassMoves DEF trip_switch
<1>3. CASE disengage(t)
  BY <1>0, <1>3, FinishMoves, ClassMoves DEF disengage
<1>4. CASE clear_switch(t)
  BY <1>4, FinishMoves DEF clear_switch
<1>5. CASE trip(t)
  BY <1>0, <1>5, FinishMoves, ClassMoves DEF trip
<1>6. CASE fetch_open(t)
  <2> DEFINE r == {c \in Cid : StatusOf(c) \in OPEN_STATES}
  <2>1. r \in SUBSET Cid
    OBVIOUS
  <2>2. job' = [job EXCEPT ![t] = [job[t] EXCEPT !.rows = r]]
    BY <1>6 DEF fetch_open
  <2> HIDE DEF r
  <2> QED
    BY <1>0, <1>6, <2>1, <2>2, LocalUpdates, ClassMoves, Zenon DEF fetch_open
<1>7. CASE sweep(t)
  <2>1. ASSUME NEW c \in job[t].rows,
               job' = [job EXCEPT ![t].rows = @ \ {c}, ![t].cid = c], Goto(t, "marking")
        PROVE  Moves(t)
    <3> DEFINE r == job[t].rows \ {c}
               j1 == [job[t] EXCEPT !.rows = r]
               j2 == [j1 EXCEPT !.cid = c]
    <3>1. c \in Cid /\ r \in SUBSET Cid
      BY DEF Job
    <3>2. job' = [job EXCEPT ![t] = j2]
      BY <2>1, Zenon
    <3> HIDE DEF r
    <3>3. j1 \in Job /\ SameCall(job[t], j1)
      BY <3>1, LocalUpdates
    <3> HIDE DEF j1
    <3>4. j2 \in Job /\ j2.cid = c /\ j2.op = job[t].op /\ j2.answer = job[t].answer
      BY <3>1, <3>3, OrderUpdates DEF SameCall
    <3> HIDE DEF j2
    <3>5. job[t].op \in {"engage", "trip"} /\ job[t].answer = NULL
      BY <1>7 DEF sweep, LocalOK
    <3>6. LocalOK("marking", j2)
      BY <3>1, <3>4, <3>5 DEF LocalOK, Label, SubmitLabel, CancelLabel, AmendLabel
    <3> QED
      BY <2>1, <3>2, <3>6, JobMoves, Zenon
  <2>2. ASSUME NEW c \in job[t].rows, Goto(t, "sweep"),
               job' = [job EXCEPT ![t].rows = @ \ {c}, ![t].failed = TRUE]
        PROVE  Moves(t)
    <3> DEFINE r == job[t].rows \ {c}
               j1 == [job[t] EXCEPT !.rows = r]
               j2 == [j1 EXCEPT !.failed = TRUE]
    <3>1. r \in SUBSET Cid
      BY DEF Job
    <3>2. job' = [job EXCEPT ![t] = j2]
      BY <2>2, Zenon
    <3> HIDE DEF r
    <3>3. j1 \in Job /\ SameCall(job[t], j1)
      BY <3>1, LocalUpdates
    <3> HIDE DEF j1
    <3>4. j2 \in Job /\ SameCall(j1, j2)
      BY <3>3, LocalUpdates, Zenon
    <3> HIDE DEF j2
    <3>5. j2.op \in {"engage", "trip"} /\ j2.answer = NULL
      BY <1>7, <3>3, <3>4 DEF sweep, LocalOK, SameCall
    <3>6. LocalOK("sweep", j2)
      BY <3>4, <3>5 DEF LocalOK, Label, SweepLabel, SubmitLabel, CancelLabel, AmendLabel
    <3> QED
      BY <2>2, <3>2, <3>6, JobMoves, Zenon
  <2>3. CASE Finish(t, IF job[t].failed THEN "failed" ELSE "swept")
    BY <1>7, <2>3, FinishMoves DEF sweep
  <2> QED
    BY <1>7, <2>1, <2>2, <2>3, Zenon DEF sweep
<1> QED
  BY <1>1, <1>2, <1>3, <1>4, <1>5, <1>6, <1>7

LEMMA TaskMoves ==
  ASSUME TypeOK, Locals, NEW t \in Task, Begin(t) \/ TaskStep(t)
  PROVE  Moves(t)
BY BeginMoves, SubmitMoves, SettleMoves, CancelMoves, AmendMoves, SwitchMoves DEF TaskStep

=============================================================================
