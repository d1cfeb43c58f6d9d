-------------------------- MODULE RiskWindowsProofs --------------------------
(***************************************************************************)
(* The duplicate-burst guard of RiskWindows holds for every set of         *)
(* submits, every window and any number of failing commands, a TTL that is *)
(* never armed included.  The invariant follows the submits that counted   *)
(* themselves first (Claimed): while one is inside its window its key is   *)
(* counted and outlives the window, so that nobody else counts first.      *)
(***************************************************************************)
EXTENDS RiskWindows, TLAPS

RiskTypes ==
  /\ risk \in [live_stage : BOOLEAN, guard_on : BOOLEAN]
  /\ second \in Nat /\ second <= MaxTime /\ failures \in Nat /\ rate_count \in Nat
  /\ bursts \in [BurstKey -> Nat] /\ ttl \in [BurstKey -> Nat]
  /\ submits \in [Submit -> [pc : {"start", "burst", "expire", "passed", "refused"},
                             key : Nat, rate : Nat, at : Nat]]

Guarded == risk.guard_on /\ (risk.live_stage \/ failures = 0)
InFlight == \E c \in Submit : submits[c].pc \in {"burst", "expire"}
Claimed(c) == submits[c].pc \in {"expire", "passed"}

(* A key without a count has no TTL. *)
IdleIsBare == \A k \in BurstKey : bursts[k] = 0 => ttl[k] = 0

(* A submit about to arm the TTL is alone with a counted key that has none. *)
ArmingIsAlone ==
  \A c \in Submit : submits[c].pc = "expire" =>
    /\ bursts[_burst_key(c)] # 0 /\ ttl[_burst_key(c)] = 0
    /\ \A d \in Submit :
         submits[d].pc = "expire" /\ _burst_key(d) = _burst_key(c) => d = c

(* While submits can still be judged, a key outlives the window of the submit *)
(* that counted first.                                                        *)
KeyOutlives ==
  second < MaxTime \/ InFlight =>
    \A c \in Submit : Claimed(c) /\ second < submits[c].at + Window =>
      /\ bursts[_burst_key(c)] # 0
      /\ ttl[_burst_key(c)] = 0 \/ submits[c].at + Window <= ttl[_burst_key(c)] + second

ClaimedBefore == \A c \in Submit : Claimed(c) => submits[c].at <= second

ClaimsApart ==
  \A c, d \in Submit :
    Claimed(c) /\ Claimed(d) /\ c # d /\ _burst_key(c) = _burst_key(d) =>
      submits[c].at >= submits[d].at + Window \/ submits[d].at >= submits[c].at + Window

Claims == IdleIsBare /\ ArmingIsAlone /\ KeyOutlives /\ ClaimedBefore /\ ClaimsApart

BurstInv == RiskTypes /\ (Guarded => Claims)

(* Every submit has a burst key. *)
LEMMA KeyIsKnown == \A c \in Submit : _burst_key(c) \in BurstKey
  BY DEF BurstKey

LEMMA InitBurstInv == RiskInit => BurstInv
<1> SUFFICES ASSUME RiskInit PROVE BurstInv
  OBVIOUS
<1>1. \A c \in Submit : submits[c].pc = "start"
  BY DEF RiskInit
<1>2. RiskTypes
  BY RiskAssumption DEF RiskInit, RiskTypes
<1>3. IdleIsBare
  BY DEF RiskInit, IdleIsBare
<1>4. ArmingIsAlone /\ KeyOutlives /\ ClaimedBefore /\ ClaimsApart
  BY <1>1 DEF ArmingIsAlone, KeyOutlives, ClaimedBefore, ClaimsApart, Claimed
<1> QED
  BY <1>2, <1>3, <1>4 DEF BurstInv, Claims

(* What is known of a submit that is done. *)
LEMMA SettledTypes ==
  ASSUME NEW verdict \in {"passed", "refused"}, NEW key \in Nat, NEW at \in Nat
  PROVE  /\ Settled(verdict, key, at) \in
              [pc : {"start", "burst", "expire", "passed", "refused"},
               key : Nat, rate : Nat, at : Nat]
         /\ Settled(verdict, key, at).pc = verdict
         /\ verdict = "passed" => Settled(verdict, key, at).at = at
  BY DEF Settled

LEMMA VerdictTypes ==
  ASSUME NEW rate, NEW burst, NEW ok \in BOOLEAN
  PROVE  _verdict(rate, burst, ok) \in {"passed", "refused"}
  BY DEF _verdict

(* A command that fails where the guard still counts is a refusal. *)
LEMMA FailureRefuses ==
  ASSUME RiskTypes, NEW ok \in BOOLEAN, ~ok, Counted(ok), Guarded', risk' = risk,
         NEW rate, NEW burst
  PROVE  _verdict(rate, burst, ok) = "refused"
<1>1. failures' = failures + 1 /\ failures \in Nat
  BY DEF Counted, RiskTypes
<1>2. failures' # 0
  BY <1>1
<1> QED
  BY <1>2 DEF Guarded, _verdict

(* What the guard asks of a run holds of its past. *)
LEMMA GuardedBefore ==
  ASSUME RiskTypes, NEW ok \in BOOLEAN, Counted(ok), risk' = risk, Guarded'
  PROVE  Guarded
<1>1. failures \in Nat /\ (failures' = failures \/ failures' = failures + 1)
  BY DEF Counted, RiskTypes
<1>2. failures' = 0 => failures = 0
  BY <1>1
<1> QED
  BY <1>2 DEF Guarded

(* A step by which nobody counts first and no key goes. *)
LEMMA NoNewClaim ==
  ASSUME Claims, second < MaxTime \/ InFlight, second' = second, ttl' = ttl,
         \A k \in BurstKey : bursts[k] # 0 => bursts'[k] # 0,
         \A d \in Submit : submits'[d].pc \in {"expire", "passed"} => submits'[d] = submits[d]
  PROVE  Claims'
<1> USE DEF Claims
<1>0. IdleIsBare'
  BY DEF IdleIsBare
<1>1. \A d \in Submit : submits'[d].pc = "expire" => submits[d].pc = "expire"
  OBVIOUS
<1>2. \A d \in Submit : Claimed(d)' => Claimed(d) /\ submits'[d].at = submits[d].at
  BY DEF Claimed
<1>3. ArmingIsAlone'
  <2> SUFFICES ASSUME NEW c \in Submit, submits'[c].pc = "expire"
               PROVE  /\ bursts'[_burst_key(c)] # 0 /\ ttl'[_burst_key(c)] = 0
                      /\ \A d \in Submit :
                           submits'[d].pc = "expire" /\ _burst_key(d) = _burst_key(c) => d = c
    BY DEF ArmingIsAlone, _burst_key
  <2> QED
    BY <1>1, KeyIsKnown DEF ArmingIsAlone
<1>4. KeyOutlives'
  <2> SUFFICES ASSUME NEW c \in Submit, Claimed(c)', second < submits'[c].at + Window
               PROVE  /\ bursts'[_burst_key(c)] # 0
                      /\ \/ ttl[_burst_key(c)] = 0
                         \/ submits'[c].at + Window <= ttl[_burst_key(c)] + second
    BY DEF KeyOutlives, _burst_key
  <2> QED
    BY <1>2, KeyIsKnown DEF KeyOutlives
<1>5. ClaimedBefore'
  BY <1>2 DEF ClaimedBefore
<1>6. ClaimsApart'
  BY <1>2 DEF ClaimsApart, _burst_key
<1> QED
  BY <1>0, <1>3, <1>4, <1>5, <1>6

LEMMA RateKeepsInv ==
  ASSUME BurstInv, NEW c \in Submit, incr_rate(c)
  PROVE  BurstInv'
<1>t. RiskTypes
  BY DEF BurstInv
<1>1. PICK ok \in BOOLEAN :
        /\ Counted(ok)
        /\ rate_count' \in {rate_count + 1} \cup (IF ok THEN {} ELSE {rate_count})
        /\ submits' = [submits EXCEPT ![c] =
             IF ok /\ risk.guard_on
             THEN [pc |-> "burst", key |-> second, rate |-> rate_count', at |-> 0]
             ELSE Settled(_verdict(rate_count', 0, ok), second, second)]
  BY DEF incr_rate, Outcome
<1>2. second < MaxTime /\ risk' = risk /\ second' = second /\ bursts' = bursts /\ ttl' = ttl
  BY DEF incr_rate
<1>3. rate_count' \in Nat /\ failures' \in Nat
  BY <1>1, <1>t DEF RiskTypes, Counted
<1>4. /\ _verdict(rate_count', 0, ok) \in {"passed", "refused"}
      /\ second \in Nat
  BY VerdictTypes, <1>t DEF RiskTypes
<1>5. Settled(_verdict(rate_count', 0, ok), second, second) \in
        [pc : {"start", "burst", "expire", "passed", "refused"}, key : Nat, rate : Nat, at : Nat]
  BY <1>4, SettledTypes
<1>6. RiskTypes'
  <2>1. submits' \in [Submit -> [pc : {"start", "burst", "expire", "passed", "refused"},
                                 key : Nat, rate : Nat, at : Nat]]
    BY <1>1, <1>3, <1>4, <1>5, <1>t DEF RiskTypes
  <2> QED
    BY <1>2, <1>3, <1>t, <2>1 DEF RiskTypes
<1>8. ASSUME Guarded' PROVE Claims'
  <2>1. Guarded
    BY <1>1, <1>2, <1>8, <1>t, GuardedBefore
  <2>2. ~ok => _verdict(rate_count', 0, ok) = "refused"
    BY <1>1, <1>2, <1>8, <1>t, FailureRefuses
  <2>3. submits'[c].pc \in {"burst", "refused"}
    <3>1. submits'[c] = IF ok /\ risk.guard_on
             THEN [pc |-> "burst", key |-> second, rate |-> rate_count', at |-> 0]
             ELSE Settled(_verdict(rate_count', 0, ok), second, second)
      BY <1>1, <1>t DEF RiskTypes
    <3>2. risk.guard_on
      BY <2>1 DEF Guarded
    <3>3. CASE ok
      BY <3>1, <3>2, <3>3
    <3>4. CASE ~ok
      <4>1. Settled("refused", second, second).pc = "refused"
        BY <1>4, SettledTypes
      <4> QED
        BY <2>2, <3>1, <3>4, <4>1
    <3> QED
      BY <3>3, <3>4
  <2>4. \A d \in Submit : submits'[d].pc \in {"expire", "passed"} => submits'[d] = submits[d]
    BY <1>1, <1>t, <2>3 DEF RiskTypes
  <2>5. Claims
    BY <2>1 DEF BurstInv
  <2> QED
    BY <1>2, <2>4, <2>5, NoNewClaim
<1> QED
  BY <1>6, <1>8 DEF BurstInv

(* The submit that counts first finds every earlier one past its window. *)
LEMMA FirstClaim ==
  ASSUME RiskTypes, Claims, InFlight, NEW c \in Submit, bursts[_burst_key(c)] = 0, ~Claimed(c),
         bursts' = [bursts EXCEPT ![_burst_key(c)] = 1], second' = second, ttl' = ttl,
         submits' = [submits EXCEPT ![c] = [submits[c] EXCEPT !.pc = "expire", !.at = second]]
  PROVE  Claims'
<1> USE DEF Claims
<1>t. /\ second \in Nat /\ \A d \in Submit : submits[d].at \in Nat
      /\ Window \in Nat \ {0}
  BY RiskAssumption DEF RiskTypes
<1>1. submits'[c].pc = "expire" /\ submits'[c].at = second
  BY DEF RiskTypes
<1>2. \A d \in Submit : d # c => submits'[d] = submits[d]
  BY DEF RiskTypes
<1>3. /\ \A k \in BurstKey : bursts[k] # 0 => bursts'[k] # 0
      /\ bursts'[_burst_key(c)] # 0 /\ ttl[_burst_key(c)] = 0
  BY KeyIsKnown DEF RiskTypes, IdleIsBare
<1>4. \A d \in Submit : _burst_key(d) = _burst_key(c) /\ Claimed(d) =>
        submits[d].pc # "expire" /\ second >= submits[d].at + Window
  <2> SUFFICES ASSUME NEW d \in Submit, _burst_key(d) = _burst_key(c), Claimed(d)
               PROVE  submits[d].pc # "expire" /\ second >= submits[d].at + Window
    OBVIOUS
  <2>1. submits[d].pc # "expire"
    BY DEF ArmingIsAlone
  <2>2. ~(second < submits[d].at + Window)
    BY DEF KeyOutlives
  <2> QED
    BY <1>t, <2>1, <2>2
<1>0. IdleIsBare'
  BY <1>3 DEF IdleIsBare, RiskTypes
<1>5. ArmingIsAlone'
  <2> SUFFICES ASSUME NEW d \in Submit, submits'[d].pc = "expire"
               PROVE  /\ bursts'[_burst_key(d)] # 0 /\ ttl[_burst_key(d)] = 0
                      /\ \A e \in Submit :
                           submits'[e].pc = "expire" /\ _burst_key(e) = _burst_key(d) => e = d
    BY DEF ArmingIsAlone, _burst_key
  <2>1. \A e \in Submit : e # c /\ submits'[e].pc = "expire" => _burst_key(e) # _burst_key(c)
    BY <1>2, <1>4 DEF Claimed
  <2>2. CASE d = c
    BY <1>3, <2>1, <2>2
  <2>3. CASE d # c
    BY <1>2, <1>3, <2>1, <2>3, KeyIsKnown DEF ArmingIsAlone
  <2> QED
    BY <2>2, <2>3
<1>6. KeyOutlives'
  <2> SUFFICES ASSUME NEW d \in Submit, Claimed(d)', second < submits'[d].at + Window
               PROVE  /\ bursts'[_burst_key(d)] # 0
                      /\ \/ ttl[_burst_key(d)] = 0
                         \/ submits'[d].at + Window <= ttl[_burst_key(d)] + second
    BY DEF KeyOutlives, _burst_key
  <2>1. CASE d = c
    BY <1>3, <2>1
  <2>2. CASE d # c
    <3>1. Claimed(d) /\ submits'[d].at = submits[d].at
      BY <1>2, <2>2 DEF Claimed
    <3> QED
      BY <1>3, <3>1, KeyIsKnown DEF KeyOutlives
  <2> QED
    BY <2>1, <2>2
<1>7. ClaimedBefore'
  BY <1>1, <1>2, <1>t DEF ClaimedBefore, Claimed
<1>8. ClaimsApart'
  <2> SUFFICES ASSUME NEW d \in Submit, NEW e \in Submit, Claimed(d)', Claimed(e)', d # e,
                      _burst_key(d) = _burst_key(e)
               PROVE  \/ submits'[d].at >= submits'[e].at + Window
                      \/ submits'[e].at >= submits'[d].at + Window
    BY DEF ClaimsApart, _burst_key
  <2>1. \A f \in Submit : f # c /\ Claimed(f)' => Claimed(f) /\ submits'[f].at = submits[f].at
    BY <1>2 DEF Claimed
  <2>2. CASE d = c
    BY <1>1, <1>4, <2>1, <2>2
  <2>3. CASE e = c
    BY <1>1, <1>4, <2>1, <2>3
  <2>4. CASE d # c /\ e # c
    BY <2>1, <2>4 DEF ClaimsApart
  <2> QED
    BY <2>2, <2>3, <2>4
<1> QED
  BY <1>0, <1>5, <1>6, <1>7, <1>8

LEMMA BurstKeepsInv ==
  ASSUME BurstInv, NEW c \in Submit, incr_burst(c)
  PROVE  BurstInv'
<1>t. RiskTypes
  BY DEF BurstInv
<1> DEFINE k == _burst_key(c)
<1>0. PICK ok \in BOOLEAN :
        /\ Counted(ok)
        /\ bursts' \in {[bursts EXCEPT ![k] = @ + 1]} \cup (IF ok THEN {} ELSE {bursts})
        /\ submits' = [submits EXCEPT ![c] =
             IF ok /\ bursts'[k] = 1
             THEN [submits[c] EXCEPT !.pc = "expire", !.at = second]
             ELSE Settled(_verdict(submits[c].rate, bursts'[k], ok), submits[c].key, second)]
  BY DEF incr_burst, Outcome
<1>s. PICK said : said = _verdict(submits[c].rate, bursts'[k], ok)
  OBVIOUS
<1>1. /\ Counted(ok)
      /\ bursts' \in {[bursts EXCEPT ![k] = @ + 1]} \cup (IF ok THEN {} ELSE {bursts})
      /\ submits' = [submits EXCEPT ![c] =
           IF ok /\ bursts'[k] = 1
           THEN [submits[c] EXCEPT !.pc = "expire", !.at = second]
           ELSE Settled(said, submits[c].key, second)]
  BY <1>0, <1>s
<1>2. /\ submits[c].pc = "burst" /\ risk' = risk /\ second' = second
      /\ rate_count' = rate_count /\ ttl' = ttl
  BY DEF incr_burst
<1>3. /\ k \in BurstKey /\ bursts[k] \in Nat /\ bursts' \in [BurstKey -> Nat]
      /\ \A l \in BurstKey : bursts[l] # 0 => bursts'[l] # 0
      /\ bursts' = bursts \/ bursts'[k] = bursts[k] + 1
      /\ ok => bursts' = [bursts EXCEPT ![k] = bursts[k] + 1]
  BY <1>1, <1>t, KeyIsKnown DEF RiskTypes
<1>4. /\ said \in {"passed", "refused"} /\ second \in Nat
      /\ submits[c].key \in Nat /\ failures' \in Nat
  BY <1>1, <1>s, <1>t, VerdictTypes DEF RiskTypes, Counted
<1>5. /\ Settled(said, submits[c].key, second) \in
           [pc : {"start", "burst", "expire", "passed", "refused"},
            key : Nat, rate : Nat, at : Nat]
      /\ Settled(said, submits[c].key, second).pc = said
  BY <1>4 DEF Settled
<1>6. RiskTypes'
  <2>1. submits' \in [Submit -> [pc : {"start", "burst", "expire", "passed", "refused"},
                                 key : Nat, rate : Nat, at : Nat]]
    BY <1>1, <1>4, <1>5, <1>t DEF RiskTypes
  <2> QED
    BY <1>2, <1>3, <1>4, <1>t, <2>1 DEF RiskTypes
<1>8. ASSUME Guarded' PROVE Claims'
  <2>1. Guarded
    BY <1>1, <1>2, <1>8, <1>t, GuardedBefore
  <2>2. Claims
    BY <2>1 DEF BurstInv
  <2>3. InFlight /\ ~Claimed(c)
    BY <1>2 DEF InFlight, Claimed
  <2>4. CASE ok /\ bursts'[k] = 1
    <3>1. bursts[k] = 0 /\ bursts' = [bursts EXCEPT ![k] = 1]
      BY <1>3, <1>t, <2>4 DEF RiskTypes
    <3>2. submits' = [submits EXCEPT ![c] = [submits[c] EXCEPT !.pc = "expire", !.at = second]]
      BY <1>1, <2>4
    <3> QED
      BY <1>2, <1>t, <2>2, <2>3, <3>1, <3>2, FirstClaim
  <2>5. CASE ~(ok /\ bursts'[k] = 1)
    <3>1. said = "refused"
      <4>1. CASE ~ok
        BY <1>1, <1>2, <1>8, <1>t, <4>1, <1>s, FailureRefuses
      <4>2. CASE ok
        <5>1. bursts'[k] \in Nat /\ bursts'[k] = bursts[k] + 1 /\ bursts'[k] # 1
          BY <1>3, <1>t, <2>5, <4>2 DEF RiskTypes
        <5>2. bursts'[k] > 1
          BY <1>3, <5>1
        <5>3. risk.guard_on
          BY <2>1 DEF Guarded
        <5> QED
          BY <1>s, <4>2, <5>2, <5>3 DEF _verdict
      <4> QED
        BY <4>1, <4>2
    <3>2. submits'[c].pc = "refused"
      BY <1>1, <1>5, <1>t, <2>5, <3>1 DEF RiskTypes
    <3>3. \A d \in Submit : submits'[d].pc \in {"expire", "passed"} => submits'[d] = submits[d]
      BY <1>1, <1>t, <3>2 DEF RiskTypes
    <3> QED
      BY <1>2, <1>3, <2>2, <2>3, <3>3, NoNewClaim
  <2> QED
    BY <2>4, <2>5
<1> QED
  BY <1>6, <1>8 DEF BurstInv

LEMMA ExpireKeepsInv ==
  ASSUME BurstInv, NEW c \in Submit, expire(c)
  PROVE  BurstInv'
<1>t. RiskTypes
  BY DEF BurstInv
<1> DEFINE k == _burst_key(c)
<1>0. PICK ok \in BOOLEAN :
        /\ Counted(ok)
        /\ ttl' \in {[ttl EXCEPT ![k] = Window]} \cup (IF ok THEN {} ELSE {ttl})
        /\ submits' = [submits EXCEPT ![c] =
             Settled(_verdict(submits[c].rate, 1, ok), submits[c].key, submits[c].at)]
  BY DEF expire, Outcome
<1>s. PICK said : said = _verdict(submits[c].rate, 1, ok)
  OBVIOUS
<1>1. /\ Counted(ok)
      /\ ttl' \in {[ttl EXCEPT ![k] = Window]} \cup (IF ok THEN {} ELSE {ttl})
      /\ submits' = [submits EXCEPT ![c] = Settled(said, submits[c].key, submits[c].at)]
  BY <1>0, <1>s
<1>2. /\ submits[c].pc = "expire" /\ risk' = risk /\ second' = second
      /\ rate_count' = rate_count /\ bursts' = bursts
  BY DEF expire
<1>3. /\ said \in {"passed", "refused"}
      /\ submits[c].key \in Nat /\ submits[c].at \in Nat /\ failures' \in Nat
  BY <1>1, <1>s, <1>t, VerdictTypes DEF RiskTypes, Counted
<1>4. /\ Settled(said, submits[c].key, submits[c].at) \in
           [pc : {"start", "burst", "expire", "passed", "refused"},
            key : Nat, rate : Nat, at : Nat]
      /\ Settled(said, submits[c].key, submits[c].at).pc = said
      /\ said = "passed" =>
           Settled(said, submits[c].key, submits[c].at).at = submits[c].at
  BY <1>3 DEF Settled
<1>5. /\ ttl' \in [BurstKey -> Nat] /\ k \in BurstKey
      /\ \A l \in BurstKey : l # k => ttl'[l] = ttl[l]
      /\ ttl' = ttl \/ ttl'[k] = Window
      /\ Window \in Nat \ {0}
  BY <1>1, <1>t, KeyIsKnown, RiskAssumption DEF RiskTypes
<1>6. RiskTypes'
  <2>1. submits' \in [Submit -> [pc : {"start", "burst", "expire", "passed", "refused"},
                                 key : Nat, rate : Nat, at : Nat]]
    BY <1>1, <1>4, <1>t DEF RiskTypes
  <2> QED
    BY <1>2, <1>3, <1>5, <1>t, <2>1 DEF RiskTypes
<1>7. /\ \A d \in Submit : d # c => submits'[d] = submits[d]
      /\ submits'[c].pc = said /\ (said = "passed" => submits'[c].at = submits[c].at)
  BY <1>1, <1>4, <1>t DEF RiskTypes
<1>8. ASSUME Guarded' PROVE Claims'
  <2>1. Guarded
    BY <1>1, <1>2, <1>8, <1>t, GuardedBefore
  <2>2. Claims
    BY <2>1 DEF BurstInv
  <2>3. ~ok => said = "refused"
    BY <1>1, <1>2, <1>8, <1>t, <1>s, FailureRefuses
  <2>4. InFlight /\ Claimed(c) /\ bursts[k] # 0 /\ ttl[k] = 0
    BY <1>2, <2>2 DEF InFlight, Claimed, Claims, ArmingIsAlone
  <2>5. \A d \in Submit : Claimed(d)' => Claimed(d) /\ submits'[d].at = submits[d].at
    BY <1>3, <1>7, <2>4 DEF Claimed
  <2>6. \A d \in Submit : submits'[d].pc = "expire" =>
          submits[d].pc = "expire" /\ d # c /\ _burst_key(d) # k
    BY <1>2, <1>3, <1>7, <2>2 DEF Claims, ArmingIsAlone
  <2>7. IdleIsBare'
    BY <1>2, <1>5, <2>2, <2>4 DEF Claims, IdleIsBare
  <2>8. ArmingIsAlone'
    <3> SUFFICES ASSUME NEW d \in Submit, submits'[d].pc = "expire"
                 PROVE  /\ bursts[_burst_key(d)] # 0 /\ ttl'[_burst_key(d)] = 0
                        /\ \A e \in Submit :
                             submits'[e].pc = "expire" /\ _burst_key(e) = _burst_key(d) => e = d
      BY <1>2 DEF ArmingIsAlone, _burst_key
    <3> QED
      BY <1>5, <2>2, <2>6, KeyIsKnown DEF Claims, ArmingIsAlone
  <2>9. KeyOutlives'
    <3> SUFFICES ASSUME NEW d \in Submit, Claimed(d)', second < submits'[d].at + Window
                 PROVE  /\ bursts[_burst_key(d)] # 0
                        /\ \/ ttl'[_burst_key(d)] = 0
                           \/ submits'[d].at + Window <= ttl'[_burst_key(d)] + second
      BY <1>2 DEF KeyOutlives, _burst_key
    <3>1. Claimed(d) /\ submits'[d].at = submits[d].at
      BY <2>5
    <3>2. /\ bursts[_burst_key(d)] # 0
          /\ ttl[_burst_key(d)] = 0 \/ submits[d].at + Window <= ttl[_burst_key(d)] + second
      BY <2>2, <2>4, <3>1 DEF Claims, KeyOutlives
    <3>3. submits[d].at <= second /\ submits[d].at \in Nat /\ second \in Nat
      BY <1>t, <2>2, <3>1 DEF Claims, ClaimedBefore, RiskTypes
    <3>4. CASE ttl'[_burst_key(d)] = ttl[_burst_key(d)]
      BY <3>1, <3>2, <3>4
    <3>5. CASE ttl'[_burst_key(d)] # ttl[_burst_key(d)]
      <4>1. ttl'[_burst_key(d)] = Window
        BY <1>5, <3>5, KeyIsKnown
      <4> QED
        BY <1>5, <3>1, <3>2, <3>3, <4>1
    <3> QED
      BY <3>4, <3>5
  <2>10. ClaimedBefore'
    BY <1>2, <2>2, <2>5 DEF Claims, ClaimedBefore
  <2>11. ClaimsApart'
    BY <2>2, <2>5 DEF Claims, ClaimsApart, _burst_key
  <2> QED
    BY <2>7, <2>8, <2>9, <2>10, <2>11 DEF Claims
<1> QED
  BY <1>6, <1>8 DEF BurstInv

(* Time passes: a key goes no earlier than the window of its claim ends. *)
LEMMA TickKeepsInv == ASSUME BurstInv, tick PROVE BurstInv'
<1>t. RiskTypes
  BY DEF BurstInv
<1>1. /\ risk' = risk /\ failures' = failures /\ submits' = submits /\ rate_count' = 0
      /\ second' = (IF second < MaxTime THEN second + 1 ELSE second)
      /\ ttl' = [k \in BurstKey |-> IF ttl[k] > 0 THEN ttl[k] - 1 ELSE 0]
      /\ bursts' = [k \in BurstKey |-> IF ttl[k] = 1 THEN 0 ELSE bursts[k]]
      /\ second = MaxTime => ~InFlight
  BY DEF tick, InFlight
<1>2. /\ second \in Nat /\ MaxTime \in Nat /\ second <= MaxTime
      /\ \A k \in BurstKey : ttl[k] \in Nat /\ bursts[k] \in Nat
  BY <1>t, RiskAssumption DEF RiskTypes
<1>3. RiskTypes'
  <2>1. ttl' \in [BurstKey -> Nat] /\ bursts' \in [BurstKey -> Nat]
    BY <1>1, <1>2
  <2>2. second' \in Nat /\ second' <= MaxTime
    BY <1>1, <1>2
  <2> QED
    BY <1>1, <1>t, <2>1, <2>2 DEF RiskTypes
<1>4. ASSUME Guarded' PROVE Claims'
  <2>1. Claims
    BY <1>1, <1>4 DEF BurstInv, Guarded
  <2>2. IdleIsBare'
    BY <1>1, <1>2, <2>1 DEF Claims, IdleIsBare
  <2>3. ArmingIsAlone'
    <3> SUFFICES ASSUME NEW c \in Submit, submits[c].pc = "expire"
                 PROVE  /\ bursts'[_burst_key(c)] # 0 /\ ttl'[_burst_key(c)] = 0
                        /\ \A d \in Submit :
                             submits[d].pc = "expire" /\ _burst_key(d) = _burst_key(c) => d = c
      BY <1>1 DEF ArmingIsAlone, _burst_key
    <3> QED
      BY <1>1, <2>1, KeyIsKnown DEF Claims, ArmingIsAlone
  <2>4. KeyOutlives'
    <3> SUFFICES ASSUME second' < MaxTime \/ InFlight', NEW c \in Submit, Claimed(c)',
                        second' < submits[c].at + Window
                 PROVE  /\ bursts'[_burst_key(c)] # 0
                        /\ \/ ttl'[_burst_key(c)] = 0
                           \/ submits[c].at + Window <= ttl'[_burst_key(c)] + second'
      BY <1>1 DEF KeyOutlives, _burst_key
    <3>1. InFlight' <=> InFlight
      BY <1>1 DEF InFlight
    <3>2. second < MaxTime /\ second' = second + 1
      BY <1>1, <1>2, <3>1
    <3>3. Claimed(c) /\ submits[c].at \in Nat /\ Window \in Nat
      BY <1>1, <1>t, RiskAssumption DEF Claimed, RiskTypes
    <3>4. /\ bursts[_burst_key(c)] # 0
          /\ ttl[_burst_key(c)] = 0 \/ submits[c].at + Window <= ttl[_burst_key(c)] + second
      BY <1>2, <2>1, <3>2, <3>3 DEF Claims, KeyOutlives
    <3>5. _burst_key(c) \in BurstKey
      BY KeyIsKnown
    <3> QED
      BY <1>1, <1>2, <3>2, <3>3, <3>4, <3>5
  <2>5. ClaimedBefore'
    BY <1>1, <1>2, <1>t, <2>1 DEF Claims, ClaimedBefore, Claimed, RiskTypes
  <2>6. ClaimsApart'
    BY <1>1, <2>1 DEF Claims, ClaimsApart, Claimed, _burst_key
  <2> QED
    BY <2>2, <2>3, <2>4, <2>5, <2>6 DEF Claims
<1> QED
  BY <1>3, <1>4 DEF BurstInv

(* With the guard on, no two economically identical orders pass within one    *)
(* window of each other where a failing Redis refuses orders or while none    *)
(* has failed, for any number of submits and however their commands           *)
(* interleave with each other and with the expiry of keys (_windowed_checks   *)
(* of core/risk.py and incr_with_ttl of cache/counters.py).                   *)
THEOREM RiskBurstHolds == RiskSpec => []BurstHolds
<1>1. ASSUME BurstInv, [RiskNext]_riskVars PROVE BurstInv'
  <2>1. CASE tick
    BY <1>1, <2>1, TickKeepsInv
  <2>2. CASE \E c \in Submit : incr_rate(c) \/ incr_burst(c) \/ expire(c)
    BY <1>1, <2>2, RateKeepsInv, BurstKeepsInv, ExpireKeepsInv
  <2>3. CASE UNCHANGED riskVars
    BY <1>1, <2>3
    DEF riskVars, BurstInv, RiskTypes, Guarded, Claims, IdleIsBare, ArmingIsAlone,
        KeyOutlives, ClaimedBefore, ClaimsApart, Claimed, InFlight, _burst_key
  <2> QED
    BY <1>1, <2>1, <2>2, <2>3 DEF RiskNext
<1>2. BurstInv => BurstHolds
  <2> SUFFICES ASSUME BurstInv, Guarded PROVE BurstHolds
    BY DEF BurstHolds, Guarded
  <2> QED
    BY DEF BurstInv, Claims, ClaimsApart, Claimed, BurstHolds, Passed
<1> QED
  BY InitBurstInv, <1>1, <1>2, PTL DEF RiskSpec
=============================================================================
