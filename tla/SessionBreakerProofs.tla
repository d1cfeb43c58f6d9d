------------------------- MODULE SessionBreakerProofs -------------------------
(***************************************************************************)
(* The breaker of SessionBreaker is open exactly while the venue has       *)
(* failed the last Threshold probes, and trips once for each such run, for *)
(* every threshold and every history.  FailureRun ties the count, which    *)
(* goes on past the threshold, to the history.                             *)
(***************************************************************************)
EXTENDS SessionBreaker, Integers, TLAPS

BreakerTypes ==
  /\ breaker \in [failures : Nat, open : BOOLEAN]
  /\ pass \in [at : {"asleep", "asked", "sweeping"}, was_open : BOOLEAN]
  /\ probes \in Seq({"healthy", "unhealthy", "down"})

(* The count is the length of the run of failed probes the history ends with. *)
FailureRun ==
  /\ breaker.failures <= Len(probes)
  /\ \A j \in Len(probes) - breaker.failures + 1..Len(probes) : FailedProbe(j)
  /\ breaker.failures < Len(probes) => ~FailedProbe(Len(probes) - breaker.failures)
  /\ breaker.open <=> breaker.failures >= Threshold

(* A pass in flight remembers the breaker it found; nothing else moves it. *)
PassSawBreaker == pass.at = "asked" => pass.was_open = breaker.open

BreakerInv == BreakerTypes /\ FailureRun /\ PassSawBreaker /\ SweepPerTrip

(* What the count says of the history. *)
LEMMA RunIsOpen == BreakerTypes /\ FailureRun => OpenIffFailing
<1> SUFFICES ASSUME BreakerTypes, FailureRun PROVE OpenIffFailing
  OBVIOUS
<1>1. /\ breaker.failures \in Nat /\ Len(probes) \in Nat /\ Threshold \in Nat \ {0}
      /\ breaker.open \in BOOLEAN
  BY BreakerAssumption DEF BreakerTypes
<1>2. CASE breaker.failures >= Threshold
  <2>1. FailedRun(Len(probes))
    BY <1>1, <1>2 DEF FailureRun, FailedRun
  <2> QED
    BY <1>2, <2>1 DEF FailureRun, OpenIffFailing
<1>3. CASE ~(breaker.failures >= Threshold)
  <2>1. ~FailedRun(Len(probes))
    <3>1. CASE breaker.failures = Len(probes)
      BY <1>1, <1>3, <3>1 DEF FailedRun
    <3>2. CASE breaker.failures < Len(probes)
      <4> SUFFICES ASSUME FailedRun(Len(probes)) PROVE FALSE
        OBVIOUS
      <4>1. Len(probes) - breaker.failures \in Len(probes) - Threshold + 1..Len(probes)
        BY <1>1, <1>3, <3>2
      <4> QED
        BY <3>2, <4>1 DEF FailureRun, FailedRun
    <3> QED
      BY <1>1, <3>1, <3>2 DEF FailureRun
  <2> QED
    BY <1>3, <2>1 DEF FailureRun, OpenIffFailing
<1> QED
  BY <1>2, <1>3

(* Appending an answer leaves the runs that ended before it. *)
LEMMA RunsStand ==
  ASSUME BreakerTypes, NEW answer \in {"healthy", "unhealthy", "down"},
         probes' = Append(probes, answer)
  PROVE  /\ Len(probes') = Len(probes) + 1 /\ Len(probes) \in Nat
         /\ probes'[Len(probes) + 1] = answer
         /\ \A i \in 1..Len(probes) : FailedProbe(i)' <=> FailedProbe(i)
         /\ \A i \in 1..Len(probes) : FailedRun(i)' <=> FailedRun(i)
<1>1. probes \in Seq({"healthy", "unhealthy", "down"})
  BY DEF BreakerTypes
<1>2. /\ Len(probes') = Len(probes) + 1 /\ Len(probes) \in Nat
      /\ probes'[Len(probes) + 1] = answer
      /\ \A i \in 1..Len(probes) : probes'[i] = probes[i]
  BY <1>1
<1>3. \A i \in 1..Len(probes) : FailedProbe(i)' <=> FailedProbe(i)
  BY <1>2 DEF FailedProbe
<1>4. ASSUME NEW i \in 1..Len(probes) PROVE FailedRun(i)' <=> FailedRun(i)
  <2>1. i >= Threshold => i - Threshold + 1..i \subseteq 1..Len(probes)
    BY <1>2, BreakerAssumption
  <2> QED
    BY <1>3, <2>1 DEF FailedRun
<1> QED
  BY <1>2, <1>3, <1>4

LEMMA AnsweringKeepsInv ==
  ASSUME ProbeFaults = {}, BreakerInv, answering
  PROVE  BreakerInv'
<1>1. BreakerTypes /\ FailureRun /\ PassSawBreaker /\ SweepPerTrip
  BY DEF BreakerInv
<1>2. PICK answer \in {"healthy", "unhealthy", "down"} :
        LET said == heartbeat(answer)
            after == IF said = "ok" THEN record_success(breaker)
                     ELSE IF said = "failed" THEN record_failure(breaker) ELSE breaker
            trips == said = "failed" /\ tripping(after)
        IN /\ probes' = Append(probes, answer)
           /\ breaker' = after
           /\ sweeps' = IF trips THEN sweeps \cup {Len(probes')} ELSE sweeps
           /\ pass' = [pass EXCEPT !.at = IF trips THEN "sweeping" ELSE "asleep"]
  BY DEF answering
<1>3. pass.at = "asked"
  BY DEF answering
<1>4. /\ Len(probes') = Len(probes) + 1 /\ Len(probes) \in Nat
      /\ probes'[Len(probes) + 1] = answer
      /\ \A i \in 1..Len(probes) : FailedProbe(i)' <=> FailedProbe(i)
      /\ \A i \in 1..Len(probes) : FailedRun(i)' <=> FailedRun(i)
  BY <1>1, <1>2, RunsStand
<1>5. PICK n, run : n = Len(probes) /\ run = breaker.failures
  OBVIOUS
<1>6. heartbeat(answer) = IF answer = "healthy" THEN "ok" ELSE "failed"
  BY DEF heartbeat
<1>7. breaker' = IF answer = "healthy" THEN [failures |-> 0, open |-> FALSE]
                 ELSE [failures |-> breaker.failures + 1,
                       open |-> breaker.open \/ breaker.failures + 1 >= Threshold]
  BY <1>2, <1>6 DEF record_success, record_failure
<1>8. BreakerTypes'
  <2>1. breaker' \in [failures : Nat, open : BOOLEAN]
    BY <1>1, <1>7 DEF BreakerTypes
  <2>2. probes' \in Seq({"healthy", "unhealthy", "down"})
    BY <1>1, <1>2 DEF BreakerTypes
  <2>3. pass' \in [at : {"asleep", "asked", "sweeping"}, was_open : BOOLEAN]
    BY <1>1, <1>2 DEF BreakerTypes
  <2> QED
    BY <2>1, <2>2, <2>3 DEF BreakerTypes
<1>9. FailureRun'
  <2>t. /\ run \in Nat /\ n \in Nat /\ run <= n
        /\ breaker.open <=> run >= Threshold
        /\ Threshold \in Nat \ {0} /\ Len(probes') = n + 1
    BY <1>1, <1>4, <1>5, BreakerAssumption DEF BreakerTypes, FailureRun
  <2>1. CASE answer = "healthy"
    <3>1. breaker'.failures = 0 /\ breaker'.open = FALSE
      BY <1>7, <2>1
    <3>2. ~FailedProbe(n + 1)'
      BY <1>4, <1>5, <2>1 DEF FailedProbe
    <3> QED
      BY <2>t, <3>1, <3>2 DEF FailureRun
  <2>2. CASE answer # "healthy"
    <3>1. /\ breaker'.failures = run + 1
          /\ breaker'.open <=> breaker.open \/ run + 1 >= Threshold
      BY <1>5, <1>7, <2>2
    <3>2. ASSUME NEW j \in n - run + 1..n + 1 PROVE FailedProbe(j)'
      <4>1. CASE j = n + 1
        BY <1>4, <1>5, <2>2, <4>1 DEF FailedProbe
      <4>2. CASE j # n + 1
        <5>1. j \in n - run + 1..n /\ j \in 1..n
          BY <2>t, <4>2
        <5> QED
          BY <1>1, <1>4, <1>5, <5>1 DEF FailureRun
      <4> QED
        BY <4>1, <4>2
    <3>3. run < n => ~FailedProbe(n - run)'
      BY <1>1, <1>4, <1>5, <2>t DEF FailureRun
    <3>4. /\ Len(probes') - breaker'.failures = n - run
          /\ Len(probes') - breaker'.failures + 1 = n - run + 1
      BY <2>t, <3>1
    <3>5. breaker'.failures < Len(probes') => run < n
      BY <2>t, <3>1
    <3>6. breaker'.open <=> breaker'.failures >= Threshold
      BY <2>t, <3>1
    <3>7. breaker'.failures <= Len(probes')
      BY <2>t, <3>1
    <3> QED
      BY <2>t, <3>2, <3>3, <3>4, <3>5, <3>6, <3>7 DEF FailureRun
  <2> QED
    BY <2>1, <2>2
<1>10. PassSawBreaker'
  BY <1>1, <1>2 DEF PassSawBreaker, BreakerTypes

<1>11. SweepPerTrip'
  <2>1. OpenIffFailing /\ OpenIffFailing'
    BY <1>1, <1>8, <1>9, RunIsOpen, PTL
  <2>2. breaker.open <=> FailedRun(n)
    BY <1>5, <2>1 DEF OpenIffFailing
  <2>3. breaker'.open <=> FailedRun(n + 1)'
    BY <1>4, <1>5, <2>1 DEF OpenIffFailing
  <2>4. sweeps' = IF answer # "healthy" /\ breaker'.open /\ ~breaker.open
                  THEN sweeps \cup {n + 1} ELSE sweeps
    BY <1>1, <1>2, <1>3, <1>4, <1>5, <1>6 DEF tripping, PassSawBreaker
  <2>5. breaker'.open => answer # "healthy"
    BY <1>7
  <2>6. \A i \in 1..n : i > Threshold => i - 1 \in 1..n
    BY <1>4, <1>5, BreakerAssumption
  <2>7. FailedRun(n + 1)' /\ ~FailedRun(n)
          <=> FailedRun(n + 1)' /\ (n + 1 > Threshold => ~FailedRun(n + 1 - 1)')
    <3>1. n + 1 - 1 = n /\ n \in Nat
      BY <1>4, <1>5
    <3>2. n \in 1..n \/ n = 0
      BY <3>1
    <3>3. FailedRun(n) => n >= Threshold /\ n \in 1..n
      BY <3>1, BreakerAssumption DEF FailedRun
    <3> QED
      BY <1>4, <1>5, <3>1, <3>2, <3>3, BreakerAssumption
  <2>8. sweeps = {i \in 1..n : FailedRun(i) /\ (i > Threshold => ~FailedRun(i - 1))}
    BY <1>1, <1>5 DEF SweepPerTrip
  <2>9. sweeps' = {i \in 1..n + 1 : FailedRun(i)' /\ (i > Threshold => ~FailedRun(i - 1)')}
    <3>1. \A i \in 1..n : (FailedRun(i) /\ (i > Threshold => ~FailedRun(i - 1)))
                           <=> (FailedRun(i)' /\ (i > Threshold => ~FailedRun(i - 1)'))
      BY <1>4, <1>5, <2>6
    <3>2. n + 1 \in sweeps' <=> FailedRun(n + 1)' /\ ~FailedRun(n)
      BY <1>4, <1>5, <2>2, <2>3, <2>4, <2>5, <2>8
    <3>3. \A i : i \in sweeps' <=> i \in sweeps \/ (i = n + 1 /\ n + 1 \in sweeps')
      BY <2>4
    <3>4. \A i : i \in 1..n + 1 <=> i \in 1..n \/ i = n + 1
      BY <1>4, <1>5
    <3>5. ASSUME NEW i \in 1..n + 1
          PROVE  i \in sweeps' <=> FailedRun(i)' /\ (i > Threshold => ~FailedRun(i - 1)')
      <4>1. CASE i = n + 1
        <5>1. n + 1 \in sweeps'
                <=> FailedRun(n + 1)' /\ (n + 1 > Threshold => ~FailedRun(n + 1 - 1)')
          BY <2>7, <3>2, Zenon
        <5> QED
          BY <1>4, <1>5, <4>1, <5>1, BreakerAssumption DEF FailedRun, FailedProbe
      <4>2. CASE i # n + 1
        <5>1. i \in 1..n
          BY <3>4, <4>2
        <5>2. i \in sweeps' <=> i \in sweeps
          BY <3>3, <4>2
        <5>3. i \in sweeps <=> FailedRun(i) /\ (i > Threshold => ~FailedRun(i - 1))
          BY <2>8, <5>1, Zenon
        <5> QED
          BY <3>1, <5>1, <5>2, <5>3, Zenon
      <4> QED
        BY <4>1, <4>2
    <3>6. sweeps' \subseteq 1..n + 1
      BY <2>8, <3>3, <3>4, Zenon
    <3> QED
      BY <3>5, <3>6, Zenon
  <2> QED
    BY <1>4, <1>5, <2>9 DEF SweepPerTrip
<1> QED
  BY <1>8, <1>9, <1>10, <1>11 DEF BreakerInv

LEMMA BreakerInvariant == ASSUME ProbeFaults = {} PROVE BreakerSpec => []BreakerInv
<1>1. BreakerInit => BreakerInv
  <2> SUFFICES ASSUME BreakerInit PROVE BreakerInv
    OBVIOUS
  <2>1. /\ breaker = [failures |-> 0, open |-> FALSE] /\ probes = <<>> /\ sweeps = {}
        /\ pass = [at |-> "asleep", was_open |-> FALSE]
    BY DEF BreakerInit
  <2>2. Len(probes) = 0
    BY <2>1
  <2>3. BreakerTypes /\ PassSawBreaker
    BY <2>1 DEF BreakerTypes, PassSawBreaker
  <2>4. FailureRun
    BY <2>1, <2>2, BreakerAssumption DEF FailureRun
  <2>5. SweepPerTrip
    BY <2>1, <2>2 DEF SweepPerTrip
  <2> QED
    BY <2>3, <2>4, <2>5 DEF BreakerInv
<1>2. ASSUME BreakerInv, [BreakerNext]_breakerVars PROVE BreakerInv'
  <2>1. CASE answering
    BY <1>2, <2>1, AnsweringKeepsInv
  <2>2. ASSUME UNCHANGED <<breaker, probes, sweeps>>, BreakerTypes', PassSawBreaker'
        PROVE  BreakerInv'
    BY <1>2, <2>2
    DEF BreakerInv, FailureRun, SweepPerTrip, FailedRun, FailedProbe
  <2>3. CASE probing
    BY <1>2, <2>2, <2>3 DEF BreakerInv, probing, BreakerTypes, PassSawBreaker
  <2>4. CASE swept
    BY <1>2, <2>2, <2>4 DEF BreakerInv, swept, BreakerTypes, PassSawBreaker
  <2>5. CASE UNCHANGED breakerVars
    BY <1>2, <2>2, <2>5 DEF BreakerInv, breakerVars, BreakerTypes, PassSawBreaker
  <2> QED
    BY <1>2, <2>1, <2>3, <2>4, <2>5 DEF BreakerNext
<1> QED
  BY <1>1, <1>2, PTL DEF BreakerSpec

(* While every health answer is a JSON object, the breaker refuses orders     *)
(* exactly when the last Threshold probes failed, for every threshold         *)
(* (record_success and record_failure of adapters/session.py).                *)
THEOREM BreakerOpenIffFailing ==
  ASSUME ProbeFaults = {} PROVE BreakerSpec => []OpenIffFailing
<1>1. BreakerInv => BreakerTypes /\ FailureRun
  BY DEF BreakerInv
<1> QED
  BY <1>1, RunIsOpen, BreakerInvariant, PTL

(* Under the same assumption on_trip runs once for each run of failures that  *)
(* reaches the threshold, and at no other time (heartbeat_pass of both        *)
(* adapters/liberator and adapters/streaming_pro).                            *)
THEOREM BreakerSweepsPerTrip ==
  ASSUME ProbeFaults = {} PROVE BreakerSpec => []SweepPerTrip
<1>1. BreakerInv => SweepPerTrip
  BY DEF BreakerInv
<1> QED
  BY <1>1, BreakerInvariant, PTL
=============================================================================
