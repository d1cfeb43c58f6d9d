---------------------------- MODULE SessionBreaker ----------------------------
(***************************************************************************)
(* The heartbeat of one real broker and the session breaker it drives      *)
(* (adapters/session.py, adapters/*/heartbeat.py, the on_trip hooks of the *)
(* runtimes), against the history of what the venue answered.              *)
(***************************************************************************)
EXTENDS Naturals, Sequences, FiniteSets

CONSTANTS BreakerBroker,    \* {"liberator", "streaming_pro"} or one of them
          Threshold,        \* failure_threshold
          MaxProbes,        \* bound
          ProbeFaults       \* {"not_a_dict"}: a health answer that is no JSON object

ASSUME BreakerAssumption == Threshold \in Nat \ {0} /\ MaxProbes \in Nat

VARIABLES broker,    \* whose heartbeat this is
          breaker,   \* [failures, open]
          pass,      \* the running heartbeat_pass: [at, was_open]
          probes,    \* what the venue answered to each probe
          sweeps     \* probes after which on_trip ran
breakerVars == <<broker, breaker, pass, probes, sweeps>>

BreakerInit ==
  /\ broker \in BreakerBroker
  /\ breaker = [failures |-> 0, open |-> FALSE]
  /\ pass = [at |-> "asleep", was_open |-> FALSE]
  /\ probes = <<>> /\ sweeps = {}

(* Variant: a healthy probe leaves the count. *)
record_success_keeps(b) == [b EXCEPT !.open = FALSE]

record_success(b) == [failures |-> 0, open |-> FALSE]

record_failure(b) ==
  [failures |-> b.failures + 1, open |-> b.open \/ b.failures + 1 >= Threshold]

(* adapter.heartbeat: what an answer says, or "raised". *)
heartbeat(answer) ==
  IF answer = "not_a_dict" /\ broker = "liberator" THEN "raised"
  ELSE IF answer = "healthy" THEN "ok" ELSE "failed"

probing ==
  /\ pass.at = "asleep" /\ Len(probes) < MaxProbes
  /\ pass' = [at |-> "asked", was_open |-> breaker.open]
  /\ UNCHANGED <<broker, breaker, probes, sweeps>>

tripping(after) == after.open /\ ~pass.was_open

(* The rest of heartbeat_pass up to on_trip. *)
answering ==
  /\ pass.at = "asked"
  /\ \E answer \in {"healthy", "unhealthy", "down"} \cup ProbeFaults :
       LET said == heartbeat(answer)
           after == IF said = "ok" THEN record_success(breaker)
                    ELSE IF said = "failed" THEN record_failure(breaker) ELSE breaker
           trips == said = "failed" /\ tripping(after)
       IN /\ probes' = Append(probes, answer)
          /\ breaker' = after
          /\ sweeps' = IF trips THEN sweeps \cup {Len(probes')} ELSE sweeps
          /\ pass' = [pass EXCEPT !.at = IF trips THEN "sweeping" ELSE "asleep"]
  /\ UNCHANGED broker

(* on_trip returns, or fails and is logged; the loop sleeps and goes on. *)
swept ==
  /\ pass.at = "sweeping"
  /\ pass' = [pass EXCEPT !.at = "asleep"]
  /\ UNCHANGED <<broker, breaker, probes, sweeps>>

BreakerNext == probing \/ answering \/ swept
BreakerSpec == BreakerInit /\ [][BreakerNext]_breakerVars
-----------------------------------------------------------------------------
FailedProbe(i) == probes[i] # "healthy"
FailedRun(i) == i >= Threshold /\ \A j \in i - Threshold + 1..i : FailedProbe(j)

(* The breaker refuses orders exactly when the last Threshold probes failed:  *)
(* one healthy probe closes it, and failures on both sides of a healthy one   *)
(* do not add up (adapters/session.py).                                       *)
OpenIffFailing == breaker.open <=> FailedRun(Len(probes))

(* on_trip, which cancels every open order, runs once for each run of         *)
(* failures that reaches the threshold, and at no other time                  *)
(* (adapters/liberator/heartbeat.py: "the CLOSED->OPEN transition fires       *)
(* on_trip exactly once").                                                    *)
SweepPerTrip ==
  sweeps = {i \in 1..Len(probes) : FailedRun(i) /\ (i > Threshold => ~FailedRun(i - 1))}
=============================================================================
