----------------------------- MODULE RiskWindows -----------------------------
(***************************************************************************)
(* The rate and duplicate-burst caps of core/risk.py: concurrent submits   *)
(* that count themselves in Redis keys, one command per await, while keys  *)
(* expire and commands fail.  Submits start before second MaxTime.         *)
(***************************************************************************)
EXTENDS Naturals, FiniteSets

CONSTANTS
  Submit, Fingerprint,    \* Fingerprint[c]: account, symbol, side, quantity, type and price of c
  MaxRate, Window,        \* orders per second; seconds of the duplicate-burst window
  MaxTime, MaxFailures,   \* bounds
  RedisFaults             \* {"no_ttl"}: a burst key may be counted and its TTL not armed

ASSUME RiskAssumption == MaxRate \in Nat /\ Window \in Nat \ {0} /\ MaxTime \in Nat

VARIABLES
  risk,       \* the settings: [live_stage, guard_on]
  second,     \* int(time.time())
  rate_count, \* the exe:rate key of this second
  bursts,     \* [fingerprint -> count]: the exe:burst keys
  ttl,        \* [fingerprint -> seconds left]; 0: none armed
  submits,    \* [Submit -> [pc, key, rate, at]]
  failures
riskVars == <<risk, second, rate_count, bursts, ttl, submits, failures>>

_burst_key(c) == Fingerprint[c]
BurstKey == {_burst_key(c) : c \in Submit}

RiskInit ==
  /\ risk \in [live_stage : BOOLEAN, guard_on : BOOLEAN]
  /\ second = 0 /\ rate_count = 0 /\ failures = 0
  /\ bursts = [k \in BurstKey |-> 0] /\ ttl = [k \in BurstKey |-> 0]
  /\ submits = [c \in Submit |-> [pc |-> "start", key |-> 0, rate |-> 0, at |-> 0]]

(* Variant: the burst cap lets a second order through. *)
_verdict_late(rate, burst, ok) ==
  IF ~ok THEN (IF risk.live_stage THEN "refused" ELSE "passed")
  ELSE IF rate > MaxRate \/ (risk.guard_on /\ burst > 2) THEN "refused" ELSE "passed"

(* The end of _windowed_checks; ~ok: _risk_backend_down. *)
_verdict(rate, burst, ok) ==
  IF ~ok THEN (IF risk.live_stage THEN "refused" ELSE "passed")
  ELSE IF rate > MaxRate \/ (risk.guard_on /\ burst > 1) THEN "refused" ELSE "passed"

Outcome == IF failures < MaxFailures THEN BOOLEAN ELSE {TRUE}
Counted(ok) == failures' = IF ok THEN failures ELSE failures + 1

(* What a submit that is done leaves behind: when it was counted, if it passed. *)
Settled(verdict, key, at) ==
  IF verdict = "passed" THEN [pc |-> verdict, key |-> key, rate |-> 0, at |-> at]
  ELSE [pc |-> verdict, key |-> 0, rate |-> 0, at |-> 0]

(* Variant: a submit is judged by the count before its own. *)
incr_rate_before(c) ==
  /\ submits[c].pc = "start" /\ second < MaxTime
  /\ \E ok \in Outcome :
       /\ Counted(ok)
       /\ rate_count' \in {rate_count + 1} \cup (IF ok THEN {} ELSE {rate_count})
       /\ submits' = [submits EXCEPT ![c] =
            IF ok /\ risk.guard_on
            THEN [pc |-> "burst", key |-> second, rate |-> rate_count, at |-> 0]
            ELSE Settled(_verdict(rate_count, 0, ok), second, second)]
  /\ UNCHANGED <<risk, second, bursts, ttl>>

(* A command that fails may have been carried out all the same. *)
incr_rate(c) ==
  /\ submits[c].pc = "start" /\ second < MaxTime
  /\ \E ok \in Outcome :
       /\ Counted(ok)
       /\ rate_count' \in {rate_count + 1} \cup (IF ok THEN {} ELSE {rate_count})
       /\ submits' = [submits EXCEPT ![c] =
            IF ok /\ risk.guard_on
            THEN [pc |-> "burst", key |-> second, rate |-> rate_count', at |-> 0]
            ELSE Settled(_verdict(rate_count', 0, ok), second, second)]
  /\ UNCHANGED <<risk, second, bursts, ttl>>

incr_burst(c) ==
  LET k == _burst_key(c)
      me == submits[c]
  IN /\ me.pc = "burst"
     /\ \E ok \in Outcome :
          /\ Counted(ok)
          /\ bursts' \in {[bursts EXCEPT ![k] = @ + 1]} \cup (IF ok THEN {} ELSE {bursts})
          /\ ~ok /\ bursts[k] = 0 /\ "no_ttl" \notin RedisFaults => bursts' = bursts
          /\ submits' = [submits EXCEPT ![c] =
               IF ok /\ bursts'[k] = 1 THEN [me EXCEPT !.pc = "expire", !.at = second]
               ELSE Settled(_verdict(me.rate, bursts'[k], ok), me.key, second)]
     /\ UNCHANGED <<risk, second, rate_count, ttl>>


expire(c) ==
  LET me == submits[c] IN
  /\ me.pc = "expire"
  /\ \E ok \in Outcome :
       /\ Counted(ok)
       /\ ttl' \in {[ttl EXCEPT ![_burst_key(c)] = Window]}
                  \cup (IF ok \/ "no_ttl" \notin RedisFaults THEN {} ELSE {ttl})
       /\ submits' = [submits EXCEPT ![c] = Settled(_verdict(me.rate, 1, ok), me.key, me.at)]
  /\ UNCHANGED <<risk, second, rate_count, bursts>>

(* A second passes; a key whose time is up is gone. *)
tick ==
  /\ second = MaxTime => \A c \in Submit : submits[c].pc \notin {"burst", "expire"}
  /\ second < MaxTime \/ \E k \in BurstKey : ttl[k] > 0
  /\ second' = IF second < MaxTime THEN second + 1 ELSE second
  /\ rate_count' = 0
  /\ ttl' = [k \in BurstKey |-> IF ttl[k] > 0 THEN ttl[k] - 1 ELSE 0]
  /\ bursts' = [k \in BurstKey |-> IF ttl[k] = 1 THEN 0 ELSE bursts[k]]
  /\ UNCHANGED <<risk, submits, failures>>

RiskNext == tick \/ \E c \in Submit : incr_rate(c) \/ incr_burst(c) \/ expire(c)
RiskSpec == RiskInit /\ [][RiskNext]_riskVars
RiskFairness ==
  WF_riskVars(tick) /\ \A c \in Submit : WF_riskVars(incr_burst(c)) /\ WF_riskVars(expire(c))
RiskFairSpec == RiskSpec /\ RiskFairness

-----------------------------------------------------------------------------
Passed == {c \in Submit : submits[c].pc = "passed"}

(* Where a failing Redis refuses orders, or while none has failed, at most    *)
(* MaxRate of the orders of one second pass, however the submits interleave   *)
(* (core/risk.py, _windowed_checks).                                          *)
RateHolds ==
  risk.live_stage \/ failures = 0 =>
    \A t \in 0..MaxTime : Cardinality({c \in Passed : submits[c].key = t}) <= MaxRate

(* Under the same conditions no two economically identical orders pass within *)
(* one burst window of each other when the guard is on.                       *)
BurstHolds ==
  risk.guard_on /\ (risk.live_stage \/ failures = 0) =>
    \A c, d \in Passed :
      c # d /\ _burst_key(c) = _burst_key(d) =>
        submits[c].at >= submits[d].at + Window \/ submits[d].at >= submits[c].at + Window

=============================================================================
