-------------------------- MODULE TokenBucketProofs --------------------------
(***************************************************************************)
(* The bucket of TokenBucket never lets through more than its capacity and *)
(* what time refills, for every rate, clock resolution and set of callers. *)
(* What the bucket holds is part of the same account: Ledger adds it to    *)
(* what was taken since a grant.                                           *)
(***************************************************************************)
EXTENDS TokenBucket, Integers, TLAPS

BucketTypes ==
  /\ clock \in Nat /\ tokens \in Nat /\ updated \in Nat
  /\ wake \in Nat \cup {NULL}
  /\ grants \in Seq(Nat)
  /\ updated <= clock

(* The tokens taken from the i-th grant on and those still in the bucket come *)
(* out of a full bucket and what was refilled since that grant.               *)
Ledger ==
  \A i \in 1..Len(grants) :
    (Len(grants) - i + 1) * K + tokens <= _capacity + (updated - grants[i]) * Rate

(* When the sleep is over the sleeper's token has accrued. *)
SleepIsEnough == wake # NULL => K <= tokens + (wake - updated) * Rate

BucketInv ==
  BucketTypes /\ tokens <= _capacity /\ SleepIsEnough /\ Ledger /\ NeverBursts

(* A token fits in the bucket. *)
LEMMA TokenFits == K \in Nat /\ Rate \in Nat /\ _capacity \in Nat /\ K <= _capacity
<1>1. K \in Nat /\ Rate \in Nat /\ Rate >= 1
  BY BucketAssumption
<1>2. \A k \in Nat, r \in Nat : r >= 1 => r * k \in Nat /\ k <= r * k
  OBVIOUS
<1> QED
  BY <1>1, <1>2 DEF _capacity

(* What _refill_locked returns: no more than what time adds, and never more  *)
(* than the capacity.                                                        *)
LEMMA RefillIsBounded ==
  ASSUME BucketTypes, tokens <= _capacity
  PROVE  /\ _refill_locked(tokens) \in Nat
         /\ _refill_locked(tokens) <= _capacity
         /\ _refill_locked(tokens) <= tokens + (clock - updated) * Rate
         /\ \/ _refill_locked(tokens) = _capacity
            \/ _refill_locked(tokens) = tokens + (clock - updated) * Rate
<1>1. (clock - updated) * Rate \in Nat
  <2>1. clock - updated \in Nat
    BY DEF BucketTypes
  <2>2. \A a, b \in Nat : a * b \in Nat
    OBVIOUS
  <2> QED
    BY <2>1, <2>2, TokenFits
<1>2. tokens \in Nat
  BY DEF BucketTypes
<1> QED
  BY <1>1, <1>2, TokenFits DEF _refill_locked

(* The quotient of the sleep is rounded up. *)
LEMMA SleepRoundsUp ==
  ASSUME NEW r \in Nat \ {0}, NEW short \in Nat
  PROVE  /\ (short + r - 1) \div r \in Nat
         /\ short <= ((short + r - 1) \div r) * r
<1> DEFINE n == short + r - 1
<1>1. n \in Nat
  OBVIOUS
<1>2. \A a \in Nat, b \in Nat \ {0} :
        a \div b \in Nat /\ a = b * (a \div b) + (a % b) /\ a % b \in 0..(b - 1)
  OBVIOUS
<1>3. n \div r \in Nat /\ n = r * (n \div r) + (n % r) /\ n % r \in 0..(r - 1)
  BY <1>1, <1>2
<1> QED
  BY <1>3

LEMMA InitBucketInv == BucketInit => BucketInv
<1> SUFFICES ASSUME BucketInit PROVE BucketInv
  OBVIOUS
<1>1. clock = 0 /\ tokens = _capacity /\ updated = 0 /\ wake = NULL /\ grants = <<>>
  BY DEF BucketInit
<1>2. Len(grants) = 0 /\ grants \in Seq(Nat)
  BY <1>1
<1>3. BucketTypes /\ tokens <= _capacity
  BY <1>1, <1>2, TokenFits DEF BucketTypes
<1>4. Ledger /\ NeverBursts
  BY <1>2 DEF Ledger, NeverBursts
<1> QED
  BY <1>1, <1>3, <1>4 DEF BucketInv, SleepIsEnough

(* A step that takes no token and leaves the bucket alone. *)
LEMMA BucketUntouched ==
  ASSUME BucketInv, clock' \in Nat, clock' >= clock,
         UNCHANGED <<tokens, updated, grants>>, wake' \in {wake, NULL}
  PROVE  BucketInv'
<1>1. BucketTypes'
  BY DEF BucketInv, BucketTypes
<1>2. (tokens <= _capacity)'
  BY DEF BucketInv, _capacity
<1>3. SleepIsEnough'
  BY DEF BucketInv, SleepIsEnough
<1>4. Ledger' /\ NeverBursts'
  BY DEF BucketInv, Ledger, NeverBursts, _capacity
<1> QED
  BY <1>1, <1>2, <1>3, <1>4 DEF BucketInv

(* The ledger holds of the refilled bucket too. *)
LEMMA RefillKeepsLedger ==
  ASSUME BucketInv, NEW level \in Nat, level <= tokens + (clock - updated) * Rate,
         NEW i \in 1..Len(grants)
  PROVE  (Len(grants) - i + 1) * K + level <= _capacity + (clock - grants[i]) * Rate
<1>t. /\ clock \in Nat /\ tokens \in Nat /\ updated \in Nat /\ grants[i] \in Nat
      /\ Len(grants) \in Nat
  BY DEF BucketInv, BucketTypes
<1>1. (Len(grants) - i + 1) * K + tokens <= _capacity + (updated - grants[i]) * Rate
  BY DEF BucketInv, Ledger
<1>2. (clock - grants[i]) * Rate = (clock - updated) * Rate + (updated - grants[i]) * Rate
  <2>1. /\ clock - grants[i] = (clock - updated) + (updated - grants[i])
        /\ clock - updated \in Int /\ updated - grants[i] \in Int
    BY <1>t
  <2>2. \A a, b, c \in Int : (a + b) * c = a * c + b * c
    OBVIOUS
  <2> QED
    BY <2>1, <2>2, TokenFits
<1>3. /\ (Len(grants) - i + 1) * K \in Int /\ (clock - updated) * Rate \in Int
      /\ (updated - grants[i]) * Rate \in Int
  BY <1>t, TokenFits
<1>4. \A taken, accrued, elapsed, held, full, l \in Int :
        taken + held <= full + elapsed /\ l <= held + accrued
          => taken + l <= full + (accrued + elapsed)
  OBVIOUS
<1>5. tokens \in Int /\ _capacity \in Int /\ level \in Int
  BY <1>t, TokenFits
<1> QED
  BY <1>1, <1>2, <1>3, <1>4, <1>5

(* A token is taken now out of what the refilled bucket holds. *)
LEMMA GrantKeepsLedger ==
  ASSUME BucketInv, NEW level \in Nat, level >= K, level <= _capacity,
         level <= tokens + (clock - updated) * Rate,
         tokens' = level - K, updated' = clock, clock' = clock,
         grants' = Append(grants, clock), wake' = NULL
  PROVE  BucketInv'
<1> USE TokenFits
<1>t. /\ clock \in Nat /\ tokens \in Nat /\ updated \in Nat /\ updated <= clock
      /\ grants \in Seq(Nat)
  BY DEF BucketInv, BucketTypes
<1>1. BucketTypes' /\ (tokens <= _capacity)' /\ SleepIsEnough'
  BY <1>t DEF BucketTypes, SleepIsEnough, _capacity
<1>2. /\ Len(grants) \in Nat /\ Len(grants') = Len(grants) + 1
      /\ grants'[Len(grants) + 1] = clock
      /\ \A i \in 1..Len(grants) : grants'[i] = grants[i] /\ grants[i] \in Nat
  BY <1>t
<1>3. Ledger'
  <2> SUFFICES ASSUME NEW i \in 1..(Len(grants) + 1)
               PROVE  (Len(grants) + 1 - i + 1) * K + (level - K)
                        <= _capacity + (clock - grants'[i]) * Rate
    BY <1>2 DEF Ledger, _capacity
  <2>1. CASE i = Len(grants) + 1
    <3>1. (Len(grants) + 1 - i + 1) * K = K /\ (clock - grants'[i]) * Rate = 0
      BY <1>2, <1>t, <2>1
    <3> QED
      BY <3>1
  <2>2. CASE i \in 1..Len(grants)
    <3>1. (Len(grants) - i + 1) * K + level <= _capacity + (clock - grants[i]) * Rate
      BY <2>2, RefillKeepsLedger
    <3>2. (Len(grants) + 1 - i + 1) * K = (Len(grants) - i + 1) * K + K
      <4>1. Len(grants) + 1 - i + 1 = (Len(grants) - i + 1) + 1 /\ Len(grants) - i + 1 \in Int
        BY <1>2
      <4>2. \A a, c \in Int : (a + 1) * c = a * c + c
        OBVIOUS
      <4> QED
        BY <4>1, <4>2
    <3>3. /\ (Len(grants) - i + 1) * K \in Int /\ (clock - grants[i]) * Rate \in Int
          /\ grants'[i] = grants[i]
      BY <1>t, <1>2, <2>2
    <3>4. (Len(grants) - i + 1) * K + K + (level - K) = (Len(grants) - i + 1) * K + level
      BY <3>3
    <3> QED
      BY <3>1, <3>2, <3>3, <3>4
  <2> QED
    BY <1>2, <2>1, <2>2
<1>4. NeverBursts'
  <2> SUFFICES ASSUME NEW i \in 1..(Len(grants) + 1), NEW j \in i..(Len(grants) + 1)
               PROVE  (j - i + 1) * K <= _capacity + (grants'[j] - grants'[i]) * Rate
    BY <1>2 DEF NeverBursts, _capacity
  <2>1. CASE j = Len(grants) + 1
    <3>1. (j - i + 1) * K + (level - K) <= _capacity + (clock - grants'[i]) * Rate
      BY <1>2, <1>3, <2>1 DEF Ledger, _capacity
    <3>2. (j - i + 1) * K \in Int /\ (clock - grants'[i]) * Rate \in Int
      BY <1>1, <1>2, <1>t, <2>1
    <3> QED
      BY <1>2, <2>1, <3>1, <3>2
  <2>2. CASE j \in 1..Len(grants)
    <3>1. i \in 1..Len(grants) /\ j \in i..Len(grants)
      BY <1>2, <2>2
    <3>2. (j - i + 1) * K <= _capacity + (grants[j] - grants[i]) * Rate
      BY <3>1 DEF BucketInv, NeverBursts
    <3> QED
      BY <1>2, <3>1, <3>2
  <2> QED
    BY <1>2, <2>1, <2>2
<1> QED
  BY <1>1, <1>3, <1>4 DEF BucketInv

LEMMA TakeKeepsInv == ASSUME BucketInv, take PROVE BucketInv'
<1> DEFINE level == _refill_locked(tokens)
<1>1. BucketTypes /\ tokens <= _capacity
  BY DEF BucketInv
<1>2. /\ level \in Nat /\ level <= _capacity
      /\ level <= tokens + (clock - updated) * Rate
      /\ level = _capacity \/ level = tokens + (clock - updated) * Rate
  BY <1>1, RefillIsBounded
<1>3. /\ updated' = clock /\ clock' = clock /\ wake = NULL
      /\ IF level >= K THEN tokens' = level - K /\ grants' = Append(grants, clock) /\ wake' = wake
         ELSE tokens' = level /\ wake' = clock + (K - level + Rate - 1) \div Rate
              /\ grants' = grants
  BY DEF take
<1> HIDE DEF level
<1>4. CASE level >= K
  BY <1>2, <1>3, <1>4, GrantKeepsLedger
<1>5. CASE ~(level >= K)
  <2>1. /\ clock \in Nat /\ tokens \in Nat /\ updated \in Nat /\ updated <= clock
        /\ grants \in Seq(Nat)
    BY <1>1 DEF BucketTypes
  <2>2. /\ (K - level + Rate - 1) \div Rate \in Nat
        /\ K - level <= ((K - level + Rate - 1) \div Rate) * Rate
    BY <1>2, <1>5, TokenFits, BucketAssumption, SleepRoundsUp
  <2>3. BucketTypes' /\ (tokens <= _capacity)'
    BY <1>2, <1>3, <1>5, <2>1, <2>2 DEF BucketTypes, _capacity
  <2>4. SleepIsEnough'
    <3>1. wake' - updated' = (K - level + Rate - 1) \div Rate
      BY <1>3, <1>5, <2>1, <2>2
    <3>2. ((K - level + Rate - 1) \div Rate) * Rate \in Int
      BY <2>2, TokenFits
    <3> QED
      BY <1>2, <1>3, <1>5, <2>2, <3>1, <3>2, TokenFits DEF SleepIsEnough
  <2>5. Ledger'
    <3> SUFFICES ASSUME NEW i \in 1..Len(grants)
                 PROVE  (Len(grants) - i + 1) * K + level
                          <= _capacity + (clock - grants[i]) * Rate
      BY <1>3, <1>5 DEF Ledger, _capacity
    <3> QED
      BY <1>2, RefillKeepsLedger
  <2>6. NeverBursts'
    BY <1>3, <1>5 DEF BucketInv, NeverBursts, _capacity
  <2> QED
    BY <2>3, <2>4, <2>5, <2>6 DEF BucketInv
<1> QED
  BY <1>4, <1>5

LEMMA SleptKeepsInv == ASSUME BucketInv, slept PROVE BucketInv'
<1> DEFINE level == _refill_locked(tokens)
<1>1. BucketTypes /\ tokens <= _capacity /\ SleepIsEnough
  BY DEF BucketInv
<1>2. /\ level \in Nat /\ level <= _capacity
      /\ level <= tokens + (clock - updated) * Rate
      /\ level = _capacity \/ level = tokens + (clock - updated) * Rate
  BY <1>1, RefillIsBounded
<1>3. /\ updated' = clock /\ clock' = clock /\ wake # NULL /\ clock >= wake /\ wake' = NULL
      /\ tokens' = (IF level > K THEN level - K ELSE 0) /\ grants' = Append(grants, clock)
  BY DEF slept
<1> HIDE DEF level
<1>4. level >= K
  <2>1. /\ wake \in Nat /\ clock \in Nat /\ updated \in Nat /\ tokens \in Nat
        /\ K <= tokens + (wake - updated) * Rate
    BY <1>1, <1>3 DEF BucketTypes, SleepIsEnough
  <2>2. (wake - updated) * Rate <= (clock - updated) * Rate
    <3>1. \A a, b \in Int, r \in Nat : a <= b => a * r <= b * r
      OBVIOUS
    <3>2. wake - updated \in Int /\ clock - updated \in Int /\ wake - updated <= clock - updated
      BY <1>3, <2>1
    <3> QED
      BY <3>1, <3>2, TokenFits
  <2>3. (wake - updated) * Rate \in Int /\ (clock - updated) * Rate \in Int
    BY <2>1, TokenFits
  <2> QED
    BY <1>2, <2>1, <2>2, <2>3, TokenFits
<1>5. tokens' = level - K
  BY <1>2, <1>3, <1>4, TokenFits
<1> QED
  BY <1>2, <1>3, <1>4, <1>5, GrantKeepsLedger

(* However callers come, wait, sleep, wake late and are cancelled, any        *)
(* stretch of time sees at most the capacity and what that time refills, for  *)
(* every rate, resolution of the clock and set of callers (acquire of         *)
(* adapters/rate_limit.py).                                                   *)
THEOREM BucketNeverBursts == BucketSpec => []NeverBursts
<1>1. ASSUME BucketInv, [BucketNext]_bucketVars PROVE BucketInv'
  <2>t. BucketTypes
    BY <1>1 DEF BucketInv
  <2>1. CASE take
    BY <1>1, <2>1, TakeKeepsInv
  <2>2. CASE slept
    BY <1>1, <2>2, SleptKeepsInv
  <2>3. CASE bucket_tick
    BY <1>1, <2>3, <2>t, BucketUntouched DEF bucket_tick, BucketTypes
  <2>4. CASE \E c \in Caller : acquire(c)
    BY <1>1, <2>4, <2>t, BucketUntouched DEF acquire, BucketTypes
  <2>5. CASE \E i \in 1..Len(lock) : cancelled_in_line(i)
    BY <1>1, <2>5, <2>t, BucketUntouched DEF cancelled_in_line, BucketTypes
  <2>6. CASE UNCHANGED bucketVars
    BY <1>1, <2>6, <2>t, BucketUntouched DEF bucketVars, BucketTypes
  <2> QED
    BY <1>1, <2>1, <2>2, <2>3, <2>4, <2>5, <2>6 DEF BucketNext
<1>2. BucketInv => NeverBursts
  BY DEF BucketInv
<1> QED
  BY InitBucketInv, <1>1, <1>2, PTL DEF BucketSpec
=============================================================================
