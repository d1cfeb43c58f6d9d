----------------------------- MODULE TokenBucket -----------------------------
(***************************************************************************)
(* adapters/rate_limit.py: the bucket every placement takes a token from.  *)
(* The clock ticks K times a second and a token is K units, so that a tick *)
(* refills Rate units and no fraction is lost.  A sleeper wakes at most    *)
(* MaxLate ticks late; callers come until tick MaxIdle.                    *)
(***************************************************************************)
EXTENDS Naturals, Sequences, Vocabulary

CONSTANTS Caller, Rate, K, MaxIdle, MaxLate

ASSUME BucketAssumption ==
  Rate \in Nat \ {0} /\ K \in Nat \ {0} /\ MaxIdle \in Nat /\ MaxLate \in Nat

VARIABLES
  clock,     \* the monotonic clock
  tokens,    \* _tokens, in units
  updated,   \* _updated
  lock,      \* the callers at _lock, the holder first
  wake,      \* when the holder's sleep is over; NULL while nobody sleeps
  came,      \* the callers that have called acquire
  grants     \* when each token was taken, in order
bucketVars == <<clock, tokens, updated, lock, wake, came, grants>>

_capacity == Rate * K

BucketInit ==
  /\ clock = 0 /\ tokens = _capacity /\ updated = 0
  /\ lock = <<>> /\ wake = NULL /\ came = {} /\ grants = <<>>

(* Variant: time refills the bucket past its capacity. *)
_refill_locked_uncapped(level) == level + (clock - updated) * Rate

_refill_locked(level) ==
  LET filled == level + (clock - updated) * Rate
  IN IF filled > _capacity THEN _capacity ELSE filled

(* acquire waits for the lock. *)
acquire(c) ==
  /\ c \notin came /\ clock <= MaxIdle
  /\ came' = came \cup {c} /\ lock' = Append(lock, c)
  /\ UNCHANGED <<clock, tokens, updated, wake, grants>>

(* The holder takes a token, or sleeps until one more has accrued. *)
take ==
  /\ lock # <<>> /\ wake = NULL
  /\ updated' = clock
  /\ LET level == _refill_locked(tokens) IN
     IF level >= K
     THEN tokens' = level - K /\ lock' = Tail(lock) /\ grants' = Append(grants, clock)
          /\ UNCHANGED wake
     ELSE tokens' = level /\ wake' = clock + (K - level + Rate - 1) \div Rate
          /\ UNCHANGED <<lock, grants>>
  /\ UNCHANGED <<clock, came>>

slept ==
  /\ wake # NULL /\ clock >= wake
  /\ LET level == _refill_locked(tokens) IN tokens' = IF level > K THEN level - K ELSE 0
  /\ updated' = clock /\ wake' = NULL
  /\ lock' = Tail(lock) /\ grants' = Append(grants, clock)
  /\ UNCHANGED <<clock, came>>

(* A caller is cancelled while it waits or sleeps. *)
cancelled_in_line(i) ==
  /\ i \in DOMAIN lock
  /\ lock' = SubSeq(lock, 1, i - 1) \o SubSeq(lock, i + 1, Len(lock))
  /\ wake' = IF i = 1 THEN NULL ELSE wake
  /\ UNCHANGED <<clock, tokens, updated, came, grants>>

(* Time passes while nobody is ready to run. *)
bucket_tick ==
  /\ IF wake = NULL THEN lock = <<>> /\ clock < MaxIdle ELSE clock < wake + MaxLate
  /\ clock' = clock + 1
  /\ UNCHANGED <<tokens, updated, lock, wake, came, grants>>

BucketNext ==
  \/ take \/ slept \/ bucket_tick
  \/ \E c \in Caller : acquire(c)
  \/ \E i \in 1..Len(lock) : cancelled_in_line(i)
BucketSpec == BucketInit /\ [][BucketNext]_bucketVars

-----------------------------------------------------------------------------
(* However callers come, wait and are cancelled, any stretch of n ticks sees  *)
(* at most the capacity plus what n ticks refill (TokenBucket.acquire).       *)
NeverBursts ==
  \A i \in 1..Len(grants) : \A j \in i..Len(grants) :
    (j - i + 1) * K <= _capacity + (grants[j] - grants[i]) * Rate
=============================================================================
