-------------------------- MODULE RateLimiterProofs --------------------------
(***************************************************************************)
(* The quota of the rate limiter, for any rate, burst, number of clients   *)
(* and sweep threshold.  The argument has two parts: no stored bucket is   *)
(* ever full, so a sweep evicts nothing and a client is unknown only       *)
(* before its first request; and what a bucket still holds, added to what  *)
(* its client was granted since t, never exceeds a burst and the refill    *)
(* since t.                                                                *)
(***************************************************************************)
EXTENDS Front, SequenceTheorems, TLAPS

\* Parts credited over d ticks.
Credit(d) == Rate * d

LEMMA Constants ==
  /\ Cost \in Nat /\ Rate \in Nat /\ Burst \in Nat /\ Second \in Nat
  /\ Cost >= 1 /\ Rate >= 1 /\ Burst >= 1 /\ Second >= 1
  /\ MaxTime \in Nat
BY RateLimiterAssumption

LEMMA CapacityHoldsAToken == Capacity \in Nat /\ Capacity >= Cost
<1> DEFINE b == Burst
           k == Cost
<1>1. b \in Nat /\ k \in Nat /\ b >= 1 /\ k >= 1
  BY Constants
<1> HIDE DEF b, k
<1>2. b * k \in Nat /\ b * k >= k
  BY <1>1
<1> QED
  BY <1>2 DEF Capacity, b, k

\* The clock's arithmetic: credit is never negative and adds up.
LEMMA CreditAdds ==
  /\ \A d \in Nat : Credit(d) \in Nat
  /\ \A d \in Nat, e \in Nat : Credit(d) + Credit(e) = Credit(d + e)
<1> DEFINE r == Rate
<1>1. r \in Nat
  BY Constants
<1> HIDE DEF r
<1>2. \A d \in Nat : r * d \in Nat
  BY <1>1
<1>3. \A d \in Nat, e \in Nat : r * d + r * e = r * (d + e)
  BY <1>1
<1> QED
  BY <1>2, <1>3 DEF Credit, r

\* What a request finds in its client's bucket.
LEMMA TokensAre ==
  ASSUME TypeOK, NEW c \in Client, \A d \in Known : buckets[d].last <= now
  PROVE  /\ Tokens(c) \in 0 .. Capacity
         /\ c \in Known => Tokens(c) <= buckets[c].tokens + Credit(now - buckets[c].last)
<1>1. Capacity \in Nat
  BY CapacityHoldsAToken
<1>2. CASE c \in Known
  <2>1. buckets[c] \in Bucket /\ now \in Nat
    BY <1>2, Constants DEF TypeOK, Time
  <2>2. /\ buckets[c].tokens \in Nat /\ buckets[c].last \in Nat
        /\ now - buckets[c].last \in Nat
    BY <2>1, <1>1, <1>2, Constants DEF Bucket, Time
  <2>3. Credit(now - buckets[c].last) \in Nat
    BY <2>2, CreditAdds
  <2>4. Tokens(c) = Atmost(Capacity, buckets[c].tokens + Credit(now - buckets[c].last))
    BY <1>2 DEF Tokens, Refilled, Credit
  <2> QED
    BY <1>1, <2>2, <2>3, <2>4 DEF Atmost
<1>3. CASE c \notin Known
  BY <1>1, <1>3 DEF Tokens
<1> QED
  BY <1>2, <1>3

-----------------------------------------------------------------------------
\* No bucket was used after the present.
Used == \A c \in Known : buckets[c].last <= now

\* What a client was granted from t on, together with what it has left.
Balance ==
  \A c \in Client : \A t \in Time :
    /\ c \in Known /\ t <= buckets[c].last =>
         spent[c][t] + buckets[c].tokens <= Capacity + Credit(buckets[c].last - t)
    /\ c \in Known /\ t > buckets[c].last => spent[c][t] = 0
    /\ c \notin Known => spent[c][t] = 0

QuotaInv == TypeOK /\ NeverFull /\ Used /\ Balance

\* A sweep evicts nothing.
LEMMA NothingIsEvicted ==
  ASSUME TypeOK, NeverFull, NEW c \in Client
  PROVE  Kept(c) = Known
<1>1. \A d \in Known : buckets[d].tokens \in Nat /\ buckets[d].tokens < Capacity
  BY CapacityHoldsAToken DEF TypeOK, NeverFull, Bucket
<1>2. \A d \in Known : ~Evictable(buckets[d])
  BY <1>1, CapacityHoldsAToken DEF Evictable
<1> QED
  BY <1>2 DEF Kept

\* A request stores one bucket and leaves the others alone.
LEMMA UseStores ==
  ASSUME TypeOK, NeverFull, NEW c \in Client, NEW left, Use(c, left)
  PROVE  /\ Known' = Known \cup {c}
         /\ buckets' = [d \in Known \cup {c} |->
                          IF d = c THEN [tokens |-> left, last |-> now] ELSE buckets[d]]
BY NothingIsEvicted DEF Use, Known

LEMMA InitQuota == Init => QuotaInv
<1> SUFFICES ASSUME Init PROVE QuotaInv
  OBVIOUS
<1>1. Known = {}
  BY DEF Init, Known
<1>2. now \in Time
  BY Constants DEF Init, Time
<1>3. spent \in [Client -> [Time -> Nat]] /\ retryAt \in [Client -> Int]
  BY DEF Init, None
<1>4. buckets \in [Known -> Bucket]
  BY <1>1 DEF Init, Known
<1>5. TypeOK
  BY <1>1, <1>2, <1>3, <1>4 DEF TypeOK
<1>6. NeverFull /\ Used
  BY <1>1 DEF NeverFull, Used
<1>7. Balance
  BY <1>1 DEF Balance, Init
<1> QED
  BY <1>5, <1>6, <1>7 DEF QuotaInv

\* The bucket a request of c leaves, whatever it was told.
LEMMA RequestStores ==
  ASSUME QuotaInv, NEW c \in Client, NEW left \in Nat,
         left < Capacity, left <= Tokens(c), Use(c, left), now' = now
  PROVE  /\ Known' = Known \cup {c} /\ Known' \subseteq Client
         /\ buckets' \in [Known' -> Bucket]
         /\ buckets'[c] = [tokens |-> left, last |-> now]
         /\ \A d \in Known \ {c} : buckets'[d] = buckets[d]
         /\ NeverFull' /\ Used'
<1>1. /\ Known' = Known \cup {c}
      /\ buckets' = [d \in Known \cup {c} |->
                       IF d = c THEN [tokens |-> left, last |-> now] ELSE buckets[d]]
  BY UseStores DEF QuotaInv
<1>2. now \in Time /\ now \in Int /\ Capacity \in Nat
  BY Constants, CapacityHoldsAToken DEF QuotaInv, TypeOK, Time
<1>3. [tokens |-> left, last |-> now] \in Bucket
  BY <1>2 DEF Bucket
<1>4. \A d \in Known : buckets[d] \in Bucket
  BY DEF QuotaInv, TypeOK
<1>5. buckets' \in [Known' -> Bucket]
  BY <1>1, <1>3, <1>4
<1>6. Known' \subseteq Client
  BY <1>1 DEF QuotaInv, TypeOK
<1>7. buckets'[c] = [tokens |-> left, last |-> now]
  BY <1>1
<1>8. \A d \in Known \ {c} : buckets'[d] = buckets[d]
  BY <1>1
<1>9. NeverFull'
  BY <1>1, <1>7, <1>8 DEF QuotaInv, NeverFull
<1>10. Used'
  BY <1>1, <1>2, <1>7, <1>8 DEF QuotaInv, Used
<1> QED
  BY <1>1, <1>5, <1>6, <1>7, <1>8, <1>9, <1>10

LEMMA GrantQuota ==
  ASSUME QuotaInv, NEW c \in Client, Grant(c)
  PROVE  QuotaInv'
<1> DEFINE left == Tokens(c) - Cost
<1>1. TypeOK /\ NeverFull /\ Used /\ Balance
  BY DEF QuotaInv
<1>2. Tokens(c) \in 0 .. Capacity
      /\ (c \in Known => Tokens(c) <= buckets[c].tokens + Credit(now - buckets[c].last))
  BY <1>1, TokensAre DEF Used
<1>3. left \in Nat /\ left < Capacity /\ left <= Tokens(c)
  BY <1>2, Constants, CapacityHoldsAToken DEF Grant
<1>4. Use(c, left) /\ now' = now
  BY DEF Grant
<1>5. /\ Known' = Known \cup {c} /\ Known' \subseteq Client
      /\ buckets' \in [Known' -> Bucket]
      /\ buckets'[c] = [tokens |-> left, last |-> now]
      /\ \A d \in Known \ {c} : buckets'[d] = buckets[d]
      /\ NeverFull' /\ Used'
  BY <1>3, <1>4, RequestStores
<1>6. /\ spent' = [spent EXCEPT ![c] =
                     [t \in Time |-> IF t <= now THEN @[t] + Cost ELSE @[t]]]
      /\ retryAt' = [retryAt EXCEPT ![c] = None]
  BY DEF Grant
<1>7. \A t \in Time : spent[c][t] \in Nat
  BY <1>1 DEF TypeOK
<1>8. TypeOK'
  <2>1. spent' \in [Client -> [Time -> Nat]]
    BY <1>1, <1>6, <1>7, Constants DEF TypeOK
  <2>2. retryAt' \in [Client -> Int]
    BY <1>1, <1>6 DEF TypeOK, None
  <2> QED
    BY <1>1, <1>4, <1>5, <2>1, <2>2 DEF TypeOK, Time
<1>9. Balance'
  <2> SUFFICES ASSUME NEW e \in Client, NEW t \in Time
               PROVE  /\ e \in Known' /\ t <= buckets'[e].last =>
                           spent'[e][t] + buckets'[e].tokens
                             <= Capacity + Credit(buckets'[e].last - t)
                      /\ e \in Known' /\ t > buckets'[e].last => spent'[e][t] = 0
                      /\ e \notin Known' => spent'[e][t] = 0
    BY <1>4 DEF Balance, Time
  <2>1. CASE e # c
    <3>1. spent'[e] = spent[e]
      BY <2>1, <1>1, <1>6 DEF TypeOK
    <3>2. (e \in Known' <=> e \in Known) /\ (e \in Known => buckets'[e] = buckets[e])
      BY <2>1, <1>5
    <3> QED
      BY <1>1, <3>1, <3>2 DEF Balance
  <2>2. CASE e = c
    <3>1. spent'[c][t] = IF t <= now THEN spent[c][t] + Cost ELSE spent[c][t]
      BY <1>1, <1>6 DEF TypeOK
    <3>2. buckets'[c].last = now /\ buckets'[c].tokens = Tokens(c) - Cost
      BY <1>5
    <3>3. t \in Nat /\ now \in Nat /\ Capacity \in Nat /\ Cost \in Nat
      BY <1>1, Constants, CapacityHoldsAToken DEF TypeOK, Time
    <3>4. c \in Known => /\ buckets[c].last \in Nat /\ buckets[c].tokens \in Nat
                         /\ buckets[c].last <= now
      BY <1>1, Constants, CapacityHoldsAToken DEF TypeOK, Used, Bucket, Time
    <3>5. CASE t <= now
      <4>1. SUFFICES spent[c][t] + Tokens(c) <= Capacity + Credit(now - t)
        BY <1>2, <1>5, <1>7, <2>2, <3>1, <3>2, <3>3, <3>5
      <4>2. Credit(now - t) \in Nat
        <5>1. now - t \in Nat
          BY <3>3, <3>5
        <5> QED
          BY <5>1, CreditAdds
      <4>3. CASE c \in Known /\ t <= buckets[c].last
        <5>1. spent[c][t] + buckets[c].tokens <= Capacity + Credit(buckets[c].last - t)
          BY <1>1, <4>3 DEF Balance
        <5>2. now - buckets[c].last \in Nat /\ buckets[c].last - t \in Nat
              /\ (buckets[c].last - t) + (now - buckets[c].last) = now - t
          BY <3>3, <3>4, <4>3
        <5>3. Credit(buckets[c].last - t) + Credit(now - buckets[c].last) = Credit(now - t)
          BY <5>2, CreditAdds
        <5>4. Credit(buckets[c].last - t) \in Nat /\ Credit(now - buckets[c].last) \in Nat
          BY <5>2, CreditAdds
        <5> QED
          BY <1>2, <1>7, <3>3, <3>4, <4>2, <4>3, <5>1, <5>3, <5>4
      <4>4. CASE ~(c \in Known /\ t <= buckets[c].last)
        <5>1. spent[c][t] = 0
          BY <1>1, <3>3, <3>4, <4>4 DEF Balance
        <5> QED
          BY <1>2, <3>3, <4>2, <5>1
      <4> QED
        BY <4>3, <4>4
    <3>6. CASE t > now
      <4>1. spent[c][t] = 0
        BY <1>1, <3>3, <3>4, <3>6 DEF Balance
      <4> QED
        BY <1>5, <2>2, <3>1, <3>2, <3>3, <3>6, <4>1
    <3> QED
      BY <3>3, <3>5, <3>6
  <2> QED
    BY <2>1, <2>2
<1> QED
  BY <1>5, <1>8, <1>9 DEF QuotaInv

\* A refused client's bucket has been credited; nothing was granted.
LEMMA RefuseQuota ==
  ASSUME QuotaInv, NEW c \in Client, Refuse(c)
  PROVE  QuotaInv'
<1>1. TypeOK /\ NeverFull /\ Used /\ Balance
  BY DEF QuotaInv
<1>2. Tokens(c) \in 0 .. Capacity
      /\ (c \in Known => Tokens(c) <= buckets[c].tokens + Credit(now - buckets[c].last))
  BY <1>1, TokensAre DEF Used
<1>3. Tokens(c) \in Nat /\ Tokens(c) < Capacity /\ Tokens(c) <= Tokens(c)
  BY <1>2, Constants, CapacityHoldsAToken DEF Refuse
<1>4. Use(c, Tokens(c)) /\ now' = now /\ spent' = spent
  BY DEF Refuse
<1>5. /\ Known' = Known \cup {c} /\ Known' \subseteq Client
      /\ buckets' \in [Known' -> Bucket]
      /\ buckets'[c] = [tokens |-> Tokens(c), last |-> now]
      /\ \A d \in Known \ {c} : buckets'[d] = buckets[d]
      /\ NeverFull' /\ Used'
  BY <1>3, <1>4, RequestStores
<1>6. TypeOK'
  <2>1. now + RetrySeconds(Tokens(c)) * Second \in Int
    <3>1. RetrySeconds(Tokens(c)) \in Int
      BY <1>3, Constants DEF RetrySeconds, WaitTicks
    <3>2. RetrySeconds(Tokens(c)) * Second \in Int
      BY <3>1, Constants
    <3> QED
      BY <1>1, <3>2, Constants DEF TypeOK, Time
  <2>2. retryAt' \in [Client -> Int]
    BY <1>1, <2>1 DEF TypeOK, Refuse
  <2> QED
    BY <1>1, <1>4, <1>5, <2>2 DEF TypeOK, Time
<1>7. Balance'
  <2> SUFFICES ASSUME NEW e \in Client, NEW t \in Time
               PROVE  /\ e \in Known' /\ t <= buckets'[e].last =>
                           spent[e][t] + buckets'[e].tokens
                             <= Capacity + Credit(buckets'[e].last - t)
                      /\ e \in Known' /\ t > buckets'[e].last => spent[e][t] = 0
                      /\ e \notin Known' => spent[e][t] = 0
    BY <1>4 DEF Balance, Time
  <2>1. CASE e # c
    <3>1. (e \in Known' <=> e \in Known) /\ (e \in Known => buckets'[e] = buckets[e])
      BY <2>1, <1>5
    <3> QED
      BY <1>1, <3>1 DEF Balance
  <2>2. CASE e = c
    <3>1. buckets'[c].last = now /\ buckets'[c].tokens = Tokens(c)
      BY <1>5
    <3>2. t \in Nat /\ now \in Nat /\ Capacity \in Nat /\ spent[c][t] \in Nat
      BY <1>1, Constants, CapacityHoldsAToken DEF TypeOK, Time
    <3>3. c \in Known => /\ buckets[c].last \in Nat /\ buckets[c].tokens \in Nat
                         /\ buckets[c].last <= now
      BY <1>1, Constants, CapacityHoldsAToken DEF TypeOK, Used, Bucket, Time
    <3>4. CASE t > now
      <4>1. spent[c][t] = 0
        BY <1>1, <3>2, <3>3, <3>4 DEF Balance
      <4> QED
        BY <1>5, <2>2, <3>1, <3>2, <3>4, <4>1
    <3>5. CASE t <= now
      <4>1. SUFFICES spent[c][t] + Tokens(c) <= Capacity + Credit(now - t)
        BY <1>5, <2>2, <3>1, <3>2, <3>5
      <4>2. now - t \in Nat /\ Credit(now - t) \in Nat
        <5>1. now - t \in Nat
          BY <3>2, <3>5
        <5> QED
          BY <5>1, CreditAdds
      <4>3. CASE c \in Known /\ t <= buckets[c].last
        <5>1. spent[c][t] + buckets[c].tokens <= Capacity + Credit(buckets[c].last - t)
          BY <1>1, <4>3 DEF Balance
        <5>2. now - buckets[c].last \in Nat /\ buckets[c].last - t \in Nat
              /\ (buckets[c].last - t) + (now - buckets[c].last) = now - t
          BY <3>2, <3>3, <4>3
        <5>3. Credit(buckets[c].last - t) + Credit(now - buckets[c].last) = Credit(now - t)
          BY <5>2, CreditAdds
        <5>4. Credit(buckets[c].last - t) \in Nat /\ Credit(now - buckets[c].last) \in Nat
          BY <5>2, CreditAdds
        <5> QED
          BY <1>2, <3>2, <3>3, <4>2, <4>3, <5>1, <5>3, <5>4
      <4>4. CASE ~(c \in Known /\ t <= buckets[c].last)
        <5>1. spent[c][t] = 0
          BY <1>1, <3>2, <3>3, <4>4 DEF Balance
        <5> QED
          BY <1>2, <3>2, <4>2, <5>1
      <4> QED
        BY <4>3, <4>4
    <3> QED
      BY <3>2, <3>4, <3>5
  <2> QED
    BY <2>1, <2>2
<1> QED
  BY <1>5, <1>6, <1>7 DEF QuotaInv

LEMMA TickQuota ==
  ASSUME QuotaInv, Tick
  PROVE  QuotaInv'
<1>1. now' \in Time /\ now' > now
  BY Constants DEF QuotaInv, TypeOK, Time, Tick
<1>2. Known' = Known /\ buckets' = buckets /\ spent' = spent /\ retryAt' = retryAt
  BY DEF Tick, Known
<1>3. TypeOK' /\ NeverFull'
  BY <1>1, <1>2 DEF QuotaInv, TypeOK, NeverFull, Bucket
<1>4. Used'
  <2> SUFFICES ASSUME NEW c \in Known PROVE buckets[c].last <= now'
    BY <1>2 DEF Used
  <2>1. buckets[c].last \in Nat /\ buckets[c].last <= now /\ now \in Nat /\ now' \in Nat
    BY <1>1, Constants DEF QuotaInv, TypeOK, Used, Bucket, Time
  <2> QED
    BY <1>1, <2>1
<1>5. Balance'
  BY <1>2 DEF QuotaInv, Balance, Credit
<1> QED
  BY <1>3, <1>4, <1>5 DEF QuotaInv

LEMMA NextQuota ==
  ASSUME QuotaInv, [Next]_vars
  PROVE  QuotaInv'
<1>1. CASE Tick
  BY <1>1, TickQuota
<1>2. ASSUME NEW c \in Client, Grant(c) PROVE QuotaInv'
  BY <1>2, GrantQuota
<1>3. ASSUME NEW c \in Client, Refuse(c) PROVE QuotaInv'
  BY <1>3, RefuseQuota
<1>4. CASE UNCHANGED vars
  BY <1>4 DEF vars, QuotaInv, TypeOK, NeverFull, Used, Balance, Known, Bucket, Credit
<1> QED
  BY <1>1, <1>2, <1>3, <1>4 DEF Next

LEMMA InvImpliesQuota == QuotaInv => QuotaHolds
<1> SUFFICES ASSUME QuotaInv, NEW c \in Client, NEW t \in 0 .. now
             PROVE  spent[c][t] <= Capacity + Credit(now - t)
  BY DEF QuotaHolds, Credit
<1>1. /\ TypeOK /\ Used /\ Balance /\ now \in Nat /\ t \in Time /\ t \in Nat
      /\ Capacity \in Nat /\ spent[c][t] \in Nat
  BY Constants, CapacityHoldsAToken DEF QuotaInv, TypeOK, Time
<1>2. now - t \in Nat /\ Credit(now - t) \in Nat
  <2>1. now - t \in Nat
    BY <1>1
  <2> QED
    BY <2>1, CreditAdds
<1>3. c \in Known => /\ buckets[c].last \in Nat /\ buckets[c].tokens \in Nat
                     /\ buckets[c].last <= now
  BY <1>1, Constants, CapacityHoldsAToken DEF TypeOK, Used, Bucket, Time
<1>4. CASE c \in Known /\ t <= buckets[c].last
  <2>1. spent[c][t] + buckets[c].tokens <= Capacity + Credit(buckets[c].last - t)
    BY <1>1, <1>4 DEF Balance
  <2>2. now - buckets[c].last \in Nat /\ buckets[c].last - t \in Nat
        /\ (buckets[c].last - t) + (now - buckets[c].last) = now - t
    BY <1>1, <1>3, <1>4
  <2>3. Credit(buckets[c].last - t) + Credit(now - buckets[c].last) = Credit(now - t)
    BY <2>2, CreditAdds
  <2>4. Credit(buckets[c].last - t) \in Nat /\ Credit(now - buckets[c].last) \in Nat
    BY <2>2, CreditAdds
  <2> QED
    BY <1>1, <1>2, <1>3, <1>4, <2>1, <2>3, <2>4
<1>5. CASE ~(c \in Known /\ t <= buckets[c].last)
  <2>1. spent[c][t] = 0
    BY <1>1, <1>3, <1>5 DEF Balance
  <2> QED
    BY <1>1, <1>2, <2>1
<1> QED
  BY <1>4, <1>5

\* The invariant holds in every state.
THEOREM QuotaCorrect == Spec => []QuotaInv
<1>1. QuotaInv /\ [Next]_vars => QuotaInv'
  BY NextQuota
<1> QED
  BY InitQuota, <1>1, PTL DEF Spec

\* Every variable keeps its type: no bucket holds more than the burst.
COROLLARY RateTypeSafe == Spec => []TypeOK
<1>1. QuotaInv => TypeOK
  BY DEF QuotaInv
<1> QED
  BY QuotaCorrect, <1>1, PTL

\* Allow never grants a client more, over any window, than a burst and the
\* window's refill, whatever other clients and sweeps do.
COROLLARY QuotaSafe == Spec => []QuotaHolds
BY QuotaCorrect, InvImpliesQuota, PTL

\* Allow never stores a full bucket, so sweepLocked never finds one.
COROLLARY NeverFullSafe == Spec => []NeverFull
<1>1. QuotaInv => NeverFull
  BY DEF QuotaInv
<1> QED
  BY QuotaCorrect, <1>1, PTL

-----------------------------------------------------------------------------
(* Retry-After.                                                            *)

\* What the last refusal promised: by then the bucket holds a token.
Promise ==
  \A c \in Client : retryAt[c] # None =>
    /\ c \in Known /\ retryAt[c] - buckets[c].last \in Nat
    /\ buckets[c].tokens + Credit(retryAt[c] - buckets[c].last) >= Cost

\* Rounding up never falls short.
LEMMA RoundedUp ==
  ASSUME NEW a \in Int, NEW r \in Nat, r >= 1
  PROVE  ((a + r - 1) \div r) \in Int /\ ((a + r - 1) \div r) * r >= a
OBVIOUS

\* The wait the headers give is long enough for a whole token.
LEMMA WaitIsEnough ==
  ASSUME NEW k \in Nat
  PROVE  LET w == RetrySeconds(k) * Second
         IN  w \in Nat /\ k + Credit(w) >= Cost
<1> DEFINE q == (Cost - k + Rate - 1) \div Rate
           s == (q + Second - 1) \div Second
           n == IF s < 1 THEN 1 ELSE s
<1>1. q \in Int /\ q * Rate >= Cost - k
  BY Constants, RoundedUp
<1>2. RetrySeconds(k) = n
  BY DEF RetrySeconds, WaitTicks
<1> HIDE DEF q
<1>3. s \in Int /\ s * Second >= q
  BY <1>1, Constants, RoundedUp
<1> HIDE DEF s
<1>4. n \in Nat /\ n >= s
  BY <1>3
<1> HIDE DEF n
<1>5. n * Second \in Nat /\ n * Second >= s * Second
  BY <1>3, <1>4, Constants
<1> DEFINE w == n * Second
<1>6. w \in Nat /\ w >= q
  BY <1>1, <1>3, <1>5, Constants
<1> HIDE DEF w
<1>7. Rate * w \in Nat /\ Rate * w >= q * Rate
  BY <1>1, <1>6, Constants
<1>8. k + Rate * w >= Cost
  BY <1>1, <1>7, Constants
<1> QED
  BY <1>2, <1>6, <1>8 DEF Credit, w

\* Once the promised moment has come, the client's request is not refused.
LEMMA NotRefusedInTime ==
  ASSUME QuotaInv, Promise, NEW c \in Client, retryAt[c] # None, now >= retryAt[c]
  PROVE  ~Refuse(c)
<1> DEFINE last == buckets[c].last
<1>1. c \in Known /\ retryAt[c] - last \in Nat
      /\ buckets[c].tokens + Credit(retryAt[c] - last) >= Cost
  BY DEF Promise
<1>2. /\ last \in Nat /\ buckets[c].tokens \in Nat /\ now \in Nat /\ retryAt[c] \in Int
      /\ Capacity \in Nat /\ Capacity >= Cost /\ Cost \in Nat
  BY <1>1, Constants, CapacityHoldsAToken DEF QuotaInv, TypeOK, Bucket, Time
<1> HIDE DEF last
<1>3. now - retryAt[c] \in Nat /\ (retryAt[c] - last) + (now - retryAt[c]) = now - last
  BY <1>2
<1>4. /\ Credit(retryAt[c] - last) + Credit(now - retryAt[c]) = Credit(now - last)
      /\ Credit(retryAt[c] - last) \in Nat /\ Credit(now - retryAt[c]) \in Nat
  BY <1>1, <1>3, CreditAdds
<1>5. buckets[c].tokens + Credit(now - last) >= Cost
  BY <1>1, <1>2, <1>4
<1>6. Tokens(c) = Atmost(Capacity, buckets[c].tokens + Credit(now - last))
  BY <1>1 DEF Tokens, Refilled, Credit, last
<1>7. Tokens(c) >= Cost
  BY <1>2, <1>5, <1>6 DEF Atmost
<1>8. Tokens(c) \in Int
  BY <1>2, <1>4, <1>6 DEF Atmost
<1> QED
  BY <1>2, <1>7, <1>8 DEF Refuse

LEMMA RefusePromise ==
  ASSUME QuotaInv, Promise, NEW c \in Client, Refuse(c)
  PROVE  Promise'
<1>1. TypeOK /\ NeverFull /\ Used
  BY DEF QuotaInv
<1>2. Tokens(c) \in 0 .. Capacity
  BY <1>1, TokensAre DEF Used
<1>3. Tokens(c) \in Nat /\ Tokens(c) < Capacity /\ Tokens(c) <= Tokens(c)
  BY <1>2, Constants, CapacityHoldsAToken DEF Refuse
<1>4. Use(c, Tokens(c)) /\ now' = now
  BY DEF Refuse
<1>5. /\ Known' = Known \cup {c}
      /\ buckets'[c] = [tokens |-> Tokens(c), last |-> now]
      /\ \A d \in Known \ {c} : buckets'[d] = buckets[d]
  BY <1>3, <1>4, RequestStores
<1> DEFINE w == RetrySeconds(Tokens(c)) * Second
<1>6. w \in Nat /\ Tokens(c) + Credit(w) >= Cost
  BY <1>3, WaitIsEnough
<1>7. retryAt' = [retryAt EXCEPT ![c] = now + w]
  BY DEF Refuse
<1> HIDE DEF w
<1> SUFFICES ASSUME NEW e \in Client, retryAt'[e] # None
             PROVE  /\ e \in Known' /\ retryAt'[e] - buckets'[e].last \in Nat
                    /\ buckets'[e].tokens + Credit(retryAt'[e] - buckets'[e].last) >= Cost
  BY DEF Promise, Credit
<1>8. CASE e = c
  <2>1. retryAt'[c] = now + w /\ now \in Nat
    BY <1>1, <1>7, Constants DEF TypeOK, Time
  <2>2. buckets'[c].tokens = Tokens(c) /\ buckets'[c].last = now
    BY <1>5
  <2>3. retryAt'[c] - buckets'[c].last = w
    BY <1>6, <2>1, <2>2
  <2> QED
    BY <1>5, <1>6, <1>8, <2>2, <2>3
<1>9. CASE e # c
  <2>1. retryAt'[e] = retryAt[e]
    BY <1>1, <1>7, <1>9 DEF TypeOK
  <2>2. e \in Known
    BY <2>1 DEF Promise
  <2> QED
    BY <1>5, <1>9, <2>1, <2>2 DEF Promise
<1> QED
  BY <1>8, <1>9

LEMMA GrantPromise ==
  ASSUME QuotaInv, Promise, NEW c \in Client, Grant(c)
  PROVE  Promise'
<1> DEFINE left == Tokens(c) - Cost
<1>1. TypeOK /\ NeverFull /\ Used
  BY DEF QuotaInv
<1>2. Tokens(c) \in 0 .. Capacity
  BY <1>1, TokensAre DEF Used
<1>3. left \in Nat /\ left < Capacity /\ left <= Tokens(c)
  BY <1>2, Constants, CapacityHoldsAToken DEF Grant
<1>4. Use(c, left) /\ now' = now /\ retryAt' = [retryAt EXCEPT ![c] = None]
  BY DEF Grant
<1>5. /\ Known' = Known \cup {c}
      /\ \A d \in Known \ {c} : buckets'[d] = buckets[d]
  BY <1>3, <1>4, RequestStores
<1> SUFFICES ASSUME NEW e \in Client, retryAt'[e] # None
             PROVE  /\ e \in Known' /\ retryAt'[e] - buckets'[e].last \in Nat
                    /\ buckets'[e].tokens + Credit(retryAt'[e] - buckets'[e].last) >= Cost
  BY DEF Promise, Credit
<1>6. e # c /\ retryAt'[e] = retryAt[e]
  BY <1>1, <1>4 DEF TypeOK
<1>7. e \in Known
  BY <1>6 DEF Promise
<1> QED
  BY <1>5, <1>6, <1>7 DEF Promise

LEMMA NextPromise ==
  ASSUME QuotaInv, Promise, [Next]_vars
  PROVE  Promise'
<1>1. ASSUME NEW c \in Client, Grant(c) PROVE Promise'
  BY <1>1, GrantPromise
<1>2. ASSUME NEW c \in Client, Refuse(c) PROVE Promise'
  BY <1>2, RefusePromise
<1>3. CASE Tick
  BY <1>3 DEF Tick, Promise, Known, Credit
<1>4. CASE UNCHANGED vars
  BY <1>4 DEF vars, Promise, Known, Credit
<1> QED
  BY <1>1, <1>2, <1>3, <1>4 DEF Next

\* One step of the property: nobody who waited as told is refused.
LEMMA StepKeepsPromise ==
  ASSUME QuotaInv, Promise, [Next]_vars, NEW c \in Client,
         retryAt[c] # None, now >= retryAt[c]
  PROVE  retryAt'[c] \in {retryAt[c], None}
<1>1. retryAt \in [Client -> Int]
  BY DEF QuotaInv, TypeOK
<1>2. ASSUME NEW e \in Client, Grant(e) PROVE retryAt'[c] \in {retryAt[c], None}
  BY <1>1, <1>2 DEF Grant
<1>3. ASSUME NEW e \in Client, Refuse(e) PROVE retryAt'[c] \in {retryAt[c], None}
  <2>1. e # c
    BY <1>3, NotRefusedInTime
  <2> QED
    BY <1>1, <1>3, <2>1 DEF Refuse
<1>4. CASE Tick \/ UNCHANGED vars
  BY <1>4 DEF Tick, vars
<1> QED
  BY <1>2, <1>3, <1>4 DEF Next

\* A client that waits as Retry-After said is served on its next request.
THEOREM RetryAfterSuffices == Spec => RetryAfterIsEnough
<1>1. Init => Promise
  BY DEF Init, Promise
<1>2. QuotaInv /\ Promise /\ [Next]_vars => Promise'
  BY NextPromise
<1>3. QuotaInv /\ Promise /\ [Next]_vars =>
        [\A c \in Client : retryAt[c] # None /\ now >= retryAt[c]
                             => retryAt'[c] \in {retryAt[c], None}]_vars
  BY StepKeepsPromise
<1> QED
  BY QuotaCorrect, <1>1, <1>2, <1>3, PTL DEF Spec, RetryAfterIsEnough

-----------------------------------------------------------------------------
(* The quota and the Retry-After hold of sources: ClientIP charges every   *)
(* request to the source it came from, whatever that source wrote into the *)
(* header, for any set of sources, trusted proxies and header length.      *)

Entry == Client \cup {Blank}

LEMMA ForgedIsSeq == \A f \in Forged : f \in Seq(Entry)
<1> SUFFICES ASSUME NEW n \in 0 .. MaxForged, NEW f \in [1 .. n -> Entry] PROVE f \in Seq(Entry)
  BY DEF Forged, Entry
<1>1. n \in Nat
  BY FrontAssumption
<1> QED
  BY <1>1, SeqDef

LEMMA SourceFacts ==
  ASSUME NEW s \in Source
  PROVE  s \in Entry /\ s \notin Trusted \cup {Blank} /\ s \in Client
BY FrontAssumption DEF Source, Entry

\* The rightmost entry that is neither trusted nor blank decides.
LEMMA RightmostDecides ==
  ASSUME NEW peer \in Trusted, NEW f \in Seq(Entry), NEW i \in DOMAIN f,
         f[i] \notin Trusted \cup {Blank},
         \A j \in DOMAIN f : j > i => f[j] \in Trusted
  PROVE  ClientIP([peer |-> peer, forwarded |-> f]) = f[i]
<1> DEFINE others == {j \in DOMAIN f : f[j] \notin Trusted \cup {Blank}}
           k == CHOOSE m \in others : \A j \in others : j <= m
<1>1. DOMAIN f \subseteq Int /\ i \in others
  BY LenProperties
<1>2. \A j \in others : j <= i
  BY <1>1
<1>3. k \in others /\ \A j \in others : j <= k
  BY <1>1, <1>2
<1>4. k = i
  BY <1>1, <1>2, <1>3
<1>5. ClientIP([peer |-> peer, forwarded |-> f]) = f[k]
  BY <1>1 DEF ClientIP
<1> QED
  BY <1>4, <1>5

\* A request is charged to its source, however it arrives.
LEMMA CallerIsSource ==
  ASSUME NEW s \in Source, NEW r \in Arrivals(s)
  PROVE  ClientIP(r) = s
<1>0. s \in Entry /\ s \notin Trusted \cup {Blank}
  BY SourceFacts
<1>1. CASE r \in {[peer |-> s, forwarded |-> f] : f \in Forged}
  BY <1>0, <1>1 DEF ClientIP
<1>2. ASSUME NEW p \in Trusted, NEW f \in Forged, r = [peer |-> p, forwarded |-> Append(f, s)]
      PROVE  ClientIP(r) = s
  <2> DEFINE g == Append(f, s)
  <2>1. f \in Seq(Entry)
    BY ForgedIsSeq
  <2>2. g \in Seq(Entry) /\ Len(f) \in Nat /\ DOMAIN g = 1 .. Len(f) + 1 /\ g[Len(f) + 1] = s
    BY <1>0, <2>1
  <2> HIDE DEF g
  <2>3. Len(f) + 1 \in DOMAIN g /\ ~ \E j \in DOMAIN g : j > Len(f) + 1
    BY <2>2
  <2> QED
    BY <1>0, <1>2, <2>2, <2>3, RightmostDecides DEF g
<1>3. ASSUME NEW p \in Trusted, NEW q \in Trusted, NEW f \in Forged,
             r = [peer |-> p, forwarded |-> Append(Append(f, s), q)]
      PROVE  ClientIP(r) = s
  <2> DEFINE g == Append(Append(f, s), q)
  <2>1. f \in Seq(Entry) /\ q \in Entry
    BY <1>0, ForgedIsSeq, FrontAssumption DEF Entry
  <2>2. /\ g \in Seq(Entry) /\ Len(f) \in Nat /\ DOMAIN g = 1 .. Len(f) + 2
        /\ g[Len(f) + 1] = s /\ g[Len(f) + 2] = q
    BY <1>0, <2>1
  <2> HIDE DEF g
  <2>3. Len(f) + 1 \in DOMAIN g /\ \A j \in DOMAIN g : j > Len(f) + 1 => g[j] \in Trusted
    BY <2>2
  <2> QED
    BY <1>0, <1>3, <2>2, <2>3, RightmostDecides DEF g
<1>4. \/ r \in {[peer |-> s, forwarded |-> f] : f \in Forged}
      \/ \E p \in Trusted, f \in Chains(s) : r = [peer |-> p, forwarded |-> f]
  BY DEF Arrivals
<1>5. ASSUME NEW p \in Trusted, NEW c \in Chains(s), r = [peer |-> p, forwarded |-> c]
      PROVE  ClientIP(r) = s
  <2>1. CASE c \in {Append(f, s) : f \in Forged}
    <3>1. PICK f \in Forged : c = Append(f, s)
      BY <2>1, Zenon
    <3> QED
      BY <1>2, <1>5, <3>1
  <2>2. CASE c \in {Append(Append(f, s), q) : f \in Forged, q \in Trusted}
    <3>1. PICK f \in Forged, q \in Trusted : c = Append(Append(f, s), q)
      BY <2>2
    <3> QED
      BY <1>3, <1>5, <3>1
  <2> QED
    BY <2>1, <2>2 DEF Chains
<1> QED
  BY <1>1, <1>4, <1>5

LEMMA SourceArrives == \A s \in Source : {ClientIP(r) : r \in Arrivals(s)} \subseteq {s}
BY CallerIsSource

-----------------------------------------------------------------------------
(* What is kept per source is what the limiter keeps per client.           *)

SameBooks ==
  /\ taken \in [Source -> [Time -> Nat]] /\ comeBack \in [Source -> Int]
  /\ \A s \in Source : taken[s] = spent[s] /\ comeBack[s] = retryAt[s]

LEMMA InitFront == FrontInit => SameBooks
BY DEF FrontInit, Init, SameBooks, Source, None

\* Every request of a source is a request of the limiter's client of that name.
LEMMA FrontIsLimited == [FrontNext]_frontVars => [Next]_vars
<1>1. ASSUME NEW s \in Source, Serve(s, s) PROVE Next
  BY <1>1, SourceFacts DEF Serve, Next
<1> QED
  BY <1>1, SourceArrives DEF FrontNext, frontVars, vars, Next

LEMMA BooksKept ==
  ASSUME TypeOK, TypeOK', SameBooks, [FrontNext]_frontVars
  PROVE  SameBooks'
<1>1. CASE Tick /\ UNCHANGED <<taken, comeBack>>
  BY <1>1 DEF Tick, SameBooks
<1>2. ASSUME NEW s \in Source, Serve(s, s) PROVE SameBooks'
  <2>0. s \in Client /\ Source \subseteq Client
    BY SourceFacts DEF Source
  <2>2. CASE /\ Grant(s)
             /\ taken' = [taken EXCEPT ![s] = [t \in Time |-> IF t <= now THEN @[t] + Cost ELSE @[t]]]
             /\ comeBack' = [comeBack EXCEPT ![s] = None]
    <3>1. /\ spent' = [spent EXCEPT ![s] = [t \in Time |-> IF t <= now THEN spent[s][t] + Cost
                                                                        ELSE spent[s][t]]]
          /\ retryAt' = [retryAt EXCEPT ![s] = None]
      BY <2>2 DEF Grant
    <3> DEFINE plus(x) == [t \in Time |-> IF t <= now THEN x[t] + Cost ELSE x[t]]
    <3>2. taken' = [taken EXCEPT ![s] = plus(taken[s])] /\ spent' = [spent EXCEPT ![s] = plus(spent[s])]
      BY <2>2, <3>1
    <3>3. plus(taken[s]) = plus(spent[s]) /\ plus(taken[s]) \in [Time -> Nat]
      BY <2>0, Constants DEF SameBooks
    <3> HIDE DEF plus
    <3>4. taken' \in [Source -> [Time -> Nat]] /\ \A u \in Source : taken'[u] = spent'[u]
      BY <2>0, <3>2, <3>3 DEF SameBooks, TypeOK
    <3>5. comeBack' \in [Source -> Int] /\ \A u \in Source : comeBack'[u] = retryAt'[u]
      BY <2>0, <2>2, <3>1 DEF SameBooks, TypeOK, None
    <3> QED
      BY <3>4, <3>5 DEF SameBooks
  <2>3. CASE /\ Refuse(s)
             /\ comeBack' = [comeBack EXCEPT ![s] = retryAt'[s]]
             /\ UNCHANGED taken
    <3> DEFINE v == now + RetrySeconds(Tokens(s)) * Second
    <3>1. retryAt' = [retryAt EXCEPT ![s] = v] /\ UNCHANGED spent
      BY <2>3 DEF Refuse
    <3> HIDE DEF v
    <3>2. retryAt'[s] = v
      BY <2>0, <3>1 DEF TypeOK
    <3>3. v \in Int
      BY <3>2, <2>0 DEF TypeOK
    <3>4. /\ comeBack' \in [Source -> Int]
          /\ \A u \in Source : comeBack'[u] = retryAt'[u]
      BY <2>0, <2>3, <3>1, <3>2, <3>3 DEF SameBooks, TypeOK
    <3> QED
      BY <2>3, <3>1, <3>4 DEF SameBooks
  <2> QED
    BY <1>2, <2>2, <2>3 DEF Serve
<1>3. CASE UNCHANGED frontVars
  BY <1>3 DEF frontVars, vars, SameBooks
<1> QED
  BY <1>1, <1>2, <1>3, SourceArrives DEF FrontNext

\* In front of the limiter nothing can happen that its specification rules out.
THEOREM FrontCorrect == FrontSpec => []QuotaInv /\ []SameBooks /\ [][Next]_vars
<1>1. QuotaInv => TypeOK
  BY DEF QuotaInv
<1>2. FrontInit => QuotaInv
  BY InitQuota DEF FrontInit
<1>3. QuotaInv /\ SameBooks /\ [FrontNext]_frontVars => QuotaInv' /\ SameBooks'
  <2> SUFFICES ASSUME QuotaInv, SameBooks, [FrontNext]_frontVars PROVE QuotaInv' /\ SameBooks'
    OBVIOUS
  <2>1. QuotaInv'
    BY FrontIsLimited, NextQuota
  <2>2. TypeOK /\ TypeOK'
    BY <2>1 DEF QuotaInv
  <2> QED
    BY <2>1, <2>2, BooksKept
<1> QED
  BY <1>2, <1>3, InitFront, FrontIsLimited, PTL DEF FrontSpec

\* Over any window a source is granted at most a burst and the refill, whatever
\* it writes into X-Forwarded-For and through whichever proxies it comes.
THEOREM SourceQuotaSafe == FrontSpec => []SourceQuota
<1>1. QuotaInv /\ SameBooks => SourceQuota
  <2> SUFFICES ASSUME QuotaHolds, SameBooks PROVE SourceQuota
    BY InvImpliesQuota
  <2> QED
    BY SourceFacts DEF QuotaHolds, SourceQuota, SameBooks
<1> QED
  BY <1>1, FrontCorrect, PTL

\* A source that waits as long as it was told is served next, whatever the
\* others send through the same proxy.
THEOREM NoSourceStarves == FrontSpec => NobodyStarves
<1> DEFINE Told == \A c \in Client : retryAt[c] # None /\ now >= retryAt[c]
                                       => retryAt'[c] \in {retryAt[c], None}
           Served == \A s \in Source : comeBack[s] # None /\ now >= comeBack[s]
                                         => comeBack'[s] \in {comeBack[s], None}
<1>1. Told /\ SameBooks /\ SameBooks' => Served
  BY SourceFacts DEF SameBooks
<1>2. UNCHANGED vars /\ SameBooks /\ SameBooks' => Served
  BY SourceFacts DEF SameBooks, vars
<1>3. FrontSpec => Init /\ [][Next]_vars
  BY FrontCorrect, PTL DEF FrontSpec, FrontInit
<1>4. FrontSpec => [][Told]_vars
  BY <1>3, RetryAfterSuffices, PTL DEF Spec, RetryAfterIsEnough
<1> HIDE DEF Told, Served
<1>5. [Told]_vars /\ SameBooks /\ SameBooks' => [Served]_frontVars
  BY <1>1, <1>2
<1>6. FrontSpec => [][Served]_frontVars
  BY <1>4, <1>5, FrontCorrect, PTL
<1> QED
  BY <1>6 DEF NobodyStarves, Served
=============================================================================
