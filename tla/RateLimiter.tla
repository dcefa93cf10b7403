----------------------------- MODULE RateLimiter -----------------------------
(***************************************************************************)
(* The per-client token bucket in front of the public API.  Allow runs     *)
(* under one mutex, so a request is one step.  The code counts tokens in   *)
(* floating point; here a token is Cost parts and a tick of the clock      *)
(* brings Rate parts, so every refill is a whole number.                   *)
(***************************************************************************)
EXTENDS Integers, FiniteSets

CONSTANTS
  Client,          \* the addresses requests come from
  Cost,            \* parts in a token
  Rate,            \* parts a bucket gains per tick
  Burst,           \* tokens in a full bucket
  Second,          \* ticks in a second, the unit of the headers
  SweepThreshold,  \* buckets at which a new client triggers a sweep
  SweepIdle,       \* a sweep spares buckets used within this time
  MaxTime          \* bound of the model

\* NewRateLimiter makes a burst of 0 or less the per-minute rate, so that
\* Burst >= 1 whenever API_RATE_LIMIT_PER_MINUTE is positive.
ASSUME RateLimiterAssumption ==
  /\ Cost \in Nat \ {0} /\ Rate \in Nat \ {0}
  /\ Burst \in Nat \ {0} /\ Second \in Nat \ {0}
  /\ SweepThreshold \in Nat /\ SweepIdle \in Nat /\ MaxTime \in Nat

VARIABLES
  buckets,  \* the limiter's map: what each known client has left
  now,
  \* history, for the properties only
  spent,    \* per client and moment t: parts taken at t or later
  retryAt   \* per client: when its last refusal told it to come back

vars == <<buckets, now, spent, retryAt>>

None == -1
Time == 0 .. MaxTime
Known == DOMAIN buckets
Capacity == Burst * Cost
Bucket == [tokens : 0 .. Capacity, last : Time]

Init ==
  /\ buckets = [c \in {} |-> [tokens |-> Capacity, last |-> 0]]
  /\ now = 0
  /\ spent = [c \in Client |-> [t \in Time |-> 0]]
  /\ retryAt = [c \in Client |-> None]

Atmost(a, b) == IF a <= b THEN a ELSE b

\* (mutants)
RefillUncapped(b) == b.tokens + Rate * (now - b.last)
TruncatedSeconds(tokens) ==
  LET s == ((Cost - tokens + Rate - 1) \div Rate) \div Second IN IF s < 1 THEN 1 ELSE s
FreshIsFuller(c) ==
  IF c \in Known THEN Atmost(Capacity, buckets[c].tokens + Rate * (now - buckets[c].last))
  ELSE Capacity + Cost

\* What a bucket holds once the time since its last use is credited.
Refilled(b) == Atmost(Capacity, b.tokens + Rate * (now - b.last))

Tokens(c) == IF c \in Known THEN Refilled(buckets[c]) ELSE Capacity

\* sweepLocked judges a bucket by the tokens its last use left in it.
Evictable(b) == b.tokens >= Capacity /\ now - b.last > SweepIdle

\* A sweep only happens on the way to a new client's bucket.
Kept(c) ==
  IF c \notin Known /\ Cardinality(Known) >= SweepThreshold
  THEN {d \in Known : ~Evictable(buckets[d])}
  ELSE Known

Use(c, left) ==
  buckets' = [d \in Kept(c) \cup {c} |->
                IF d = c THEN [tokens |-> left, last |-> now] ELSE buckets[d]]

\* Ticks until the bucket holds a whole token again, rounded up.
WaitTicks(tokens) == (Cost - tokens + Rate - 1) \div Rate

\* Retry-After: whole seconds, rounded up, at least one.
RetrySeconds(tokens) ==
  LET s == (WaitTicks(tokens) + Second - 1) \div Second IN IF s < 1 THEN 1 ELSE s

Grant(c) ==
  /\ Tokens(c) >= Cost
  /\ Use(c, Tokens(c) - Cost)
  /\ spent' = [spent EXCEPT ![c] = [t \in Time |-> IF t <= now THEN @[t] + Cost ELSE @[t]]]
  /\ retryAt' = [retryAt EXCEPT ![c] = None]
  /\ UNCHANGED now

Refuse(c) ==
  /\ Tokens(c) < Cost
  /\ Use(c, Tokens(c))
  /\ retryAt' = [retryAt EXCEPT ![c] = now + RetrySeconds(Tokens(c)) * Second]
  /\ UNCHANGED <<now, spent>>

Tick ==
  /\ now < MaxTime
  /\ now' = now + 1
  /\ UNCHANGED <<buckets, spent, retryAt>>

Next == Tick \/ \E c \in Client : Grant(c) \/ Refuse(c)

Spec == Init /\ [][Next]_vars

-----------------------------------------------------------------------------
(* Properties.                                                             *)

\* Every variable keeps its type; no bucket ever holds more than the burst.
TypeOK ==
  /\ Known \subseteq Client
  /\ buckets \in [Known -> Bucket]
  /\ now \in Time
  /\ spent \in [Client -> [Time -> Nat]]
  /\ retryAt \in [Client -> Int]

\* Over any window, a client is granted at most a burst plus what the window
\* refills, sweeps and re-created buckets included (Allow, sweepLocked).  Every
\* window ends now in some state.
QuotaHolds ==
  \A c \in Client : \A t \in 0 .. now :
    spent[c][t] <= Capacity + Rate * (now - t)

\* A client that waits as long as Retry-After said is not refused on its next
\* request, whatever it and others asked in the meantime (Allow, Middleware).
RetryAfterIsEnough ==
  [][\A c \in Client :
       retryAt[c] # None /\ now >= retryAt[c] => retryAt'[c] \in {retryAt[c], None}]_vars

\* No stored bucket is ever full: each was left by a request that took a token
\* or found less than one.  Hence no sweep finds anything to evict.
NeverFull == \A c \in Known : buckets[c].tokens < Capacity

\* What the comment on bucketSweepThreshold says: memory is bounded, idle
\* clients are evicted.  Here: once a new client arrives at the threshold, no
\* bucket is kept that is long idle and would be full again.
SweepForgetsIdle ==
  [][\A c \in Known' \ Known :
       Cardinality(Known) >= SweepThreshold =>
         \A d \in Known \cap Known' :
           ~(Refilled(buckets[d]) >= Capacity /\ now - buckets[d].last > SweepIdle)]_vars
=============================================================================
