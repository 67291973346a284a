--------------------------- MODULE ReceptionProofs ---------------------------
(***************************************************************************)
(* Proofs about the way of a request past the rate limiter and into an     *)
(* issue: for any rate, any number of requests in progress, any keys,      *)
(* restarts and length of time, any events and any envelopes.              *)
(***************************************************************************)
EXTENDS Reception, ContentProofs, FiniteSetTheorems

\* The tokens that a call of Allow would find, were there no capacity.
Uncapped(b, now) == b.tokens + (now - b.last) * PerMinute

\* There is one bucket at most, none without a history and none of a time
\* ahead of the clock.
BucketIsFilled ==
    /\ \A b, c \in bucket : b = c
    /\ \A b \in bucket : b.last <= clock /\ filled[clock] > 0

\* A history of totals does not fall, and has no future.
Totals(history) ==
    /\ \A t, u \in Times : t <= u => history[t] <= history[u]
    /\ \A t \in Times : t >= clock => history[t] = history[clock]

HistoriesAreTotals == Totals(granted) /\ Totals(filled)

\* Whatever has been let through since s, and what the bucket holds now,
\* came out of full buckets and of the refill since then.
TokensAreAccounted ==
    \A t \in Times : \A s \in 0 .. t : \A b \in bucket :
        t = clock => Minute * GrantedIn(s, t) + Refilled(b, t)
                         <= Capacity * BucketsIn(s, t) + PerMinute * (t - s)

\* The same of what was let through until now or a moment before.
PastIsAccounted ==
    \A t \in Times : \A s \in 0 .. t :
        t <= clock => Minute * GrantedIn(s, t) <= Capacity * BucketsIn(s, t) + PerMinute * (t - s)

\* Nothing leaves the bucket but what is let through: what it holds, with
\* what was let through since s, is a full bucket or the refill since then.
NothingIsWasted ==
    \A t \in Times : \A b \in bucket : t = clock =>
        /\ Uncapped(b, t) + Minute * GrantedIn(0, t) >= Capacity
        /\ \A s \in 0 .. t :
              \/ Uncapped(b, t) + Minute * GrantedIn(s, t) >= Capacity
              \/ Uncapped(b, t) + Minute * GrantedIn(s, t) >= PerMinute * (t - s)

\* The inductive invariant of the limiter.
LimiterInv ==
    /\ BucketIsFilled
    /\ HistoriesAreTotals
    /\ TokensAreAccounted
    /\ PastIsAccounted
    /\ NothingIsWasted

\* What a request r has behind it where it is.
Consistent(r) ==
    /\ r.pc # "idle" => r.endpoint # "none" /\ r.status = "none"
    /\ r.asked \/ r.pc \in {"load", "take"} => r.key \in ProjectKeys

SlotInv == \A s \in Slots : Consistent(slot[s]) /\ slot[s].read <= clock

-----------------------------------------------------------------------------
(***************************************************************************)
(* Numbers, buckets and histories.                                         *)
(***************************************************************************)

LEMMA OneMoreTimes ==
    ASSUME NEW a \in Int, NEW x \in Int
    PROVE  a * x \in Int /\ a * (x + 1) = a * x + a
OBVIOUS

LEMMA TimesIsMonotone ==
    ASSUME NEW a \in Nat, NEW x \in Int, NEW y \in Int, x <= y
    PROVE  a * x <= a * y
<1>1. PICK d \in Nat : y = x + d
  <2>1. y - x \in Nat /\ y = x + (y - x)
    OBVIOUS
  <2> QED BY <2>1
<1>2. a * y = a * x + a * d /\ a * d >= 0
  BY <1>1
<1>3. a * x \in Int /\ a * y \in Int /\ a * d \in Int
  BY <1>1
<1> QED BY <1>2, <1>3

LEMMA MinOfTwo ==
    ASSUME NEW a \in Int, NEW b \in Int
    PROVE  Min({a, b}) = IF a <= b THEN a ELSE b
BY DEF Min

LEMMA CapacityType ==
    /\ Capacity \in Nat /\ Minute <= Capacity
    /\ PerMinute \in Nat \ {0} /\ Minute \in Nat \ {0} /\ MaxClock \in Nat
<1>1. PerMinute \in Nat \ {0} /\ Minute \in Nat \ {0} /\ MaxClock \in Nat
  BY RateAssumption
<1>2. Minute * 1 <= Minute * PerMinute
  BY <1>1, TimesIsMonotone
<1> QED BY <1>1, <1>2 DEF Capacity

\* What Allow finds in a bucket is what has come in, up to the capacity.
LEMMA RefilledIsCapped ==
    ASSUME NEW b, b.tokens \in 0 .. Capacity, b.last \in Nat, NEW now \in Nat, b.last <= now
    PROVE  /\ Refilled(b, now) \in 0 .. Capacity
           /\ Uncapped(b, now) \in Nat
           /\ Refilled(b, now) = IF Capacity <= Uncapped(b, now)
                                 THEN Capacity ELSE Uncapped(b, now)
<1>1. PerMinute \in Nat /\ Capacity \in Nat
  BY CapacityType
<1>2. (now - b.last) * PerMinute \in Nat
  BY <1>1
<1>3. b.tokens + (now - b.last) * PerMinute \in Nat
  BY <1>1, <1>2
<1>4. Refilled(b, now) = IF Capacity <= b.tokens + (now - b.last) * PerMinute
                         THEN Capacity ELSE b.tokens + (now - b.last) * PerMinute
  BY <1>1, <1>3, MinOfTwo DEF Refilled
<1> QED BY <1>1, <1>3, <1>4 DEF Uncapped

\* A call or a bucket more changes the totals from now on.
LEMMA OneMoreTotals ==
    ASSUME NEW history \in [Times -> Nat], clock \in Times, Totals(history)
    PROVE  /\ OneMore(history) \in [Times -> Nat]
           /\ Totals(OneMore(history))
           /\ OneMore(history)[clock] = history[clock] + 1
           /\ \A t \in Times : t < clock => OneMore(history)[t] = history[t]
           /\ \A s \in 0 .. clock : Before(OneMore(history), s) = Before(history, s)
<1>1. Times \subseteq Nat
  BY DEF Times
<1>2. \A t \in Times : OneMore(history)[t] = IF t < clock THEN history[t] ELSE history[t] + 1
  BY DEF OneMore
<1>3. OneMore(history) \in [Times -> Nat]
  BY DEF OneMore
<1>4. Totals(OneMore(history))
  BY <1>1, <1>2 DEF Totals
<1>5. \A s \in 0 .. clock : s # 0 => s - 1 \in Times /\ s - 1 < clock
  BY CapacityType DEF Times
<1>6. \A s \in 0 .. clock : Before(OneMore(history), s) = Before(history, s)
  BY <1>1, <1>2, <1>5 DEF Before
<1> QED BY <1>1, <1>2, <1>3, <1>4, <1>6

\* What was let through or filled between two moments is no negative number.
LEMMA BetweenType ==
    ASSUME LimiterTypeOK, HistoriesAreTotals, NEW t \in Times, NEW s \in 0 .. t
    PROVE  /\ GrantedIn(s, t) \in Nat /\ BucketsIn(s, t) \in Nat
           /\ Before(granted, s) \in Nat /\ Before(filled, s) \in Nat
<1>1. t \in Nat /\ \A u \in 0 .. t : u \in Times
  BY CapacityType DEF Times
<1>2. CASE s = 0
  BY <1>1, <1>2 DEF GrantedIn, BucketsIn, Before, LimiterTypeOK
<1>3. CASE s # 0
  <2>1. s - 1 \in Times /\ s - 1 <= t
    BY <1>1, <1>3
  <2>2. /\ granted[s - 1] \in Nat /\ granted[t] \in Nat /\ granted[s - 1] <= granted[t]
        /\ filled[s - 1] \in Nat /\ filled[t] \in Nat /\ filled[s - 1] <= filled[t]
    BY <2>1 DEF LimiterTypeOK, HistoriesAreTotals, Totals
  <2> QED BY <1>3, <2>2 DEF GrantedIn, BucketsIn, Before
<1> QED BY <1>2, <1>3

\* What a step that lets a call through or fills a bucket does to the totals.
LEMMA TotalsStep ==
    ASSUME LimiterTypeOK, HistoriesAreTotals, clock' = clock,
           granted' = granted \/ granted' = OneMore(granted),
           filled' = filled \/ filled' = OneMore(filled)
    PROVE  /\ granted' \in [Times -> Nat] /\ filled' \in [Times -> Nat]
           /\ HistoriesAreTotals'
           /\ \A t \in Times : \A s \in 0 .. t :
                /\ t < clock => GrantedIn(s, t)' = GrantedIn(s, t) /\ BucketsIn(s, t)' = BucketsIn(s, t)
                /\ t = clock =>
                     /\ granted' = granted => GrantedIn(s, t)' = GrantedIn(s, t)
                     /\ granted' = OneMore(granted) => GrantedIn(s, t)' = GrantedIn(s, t) + 1
                     /\ filled' = filled => BucketsIn(s, t)' = BucketsIn(s, t)
                     /\ filled' = OneMore(filled) => BucketsIn(s, t)' = BucketsIn(s, t) + 1
<1>1. /\ granted \in [Times -> Nat] /\ filled \in [Times -> Nat] /\ clock \in Times
      /\ Totals(granted) /\ Totals(filled)
  BY DEF LimiterTypeOK, HistoriesAreTotals
<1>2. granted' \in [Times -> Nat] /\ filled' \in [Times -> Nat]
  BY <1>1, OneMoreTotals
<1>3. HistoriesAreTotals'
  <2>1. Totals(OneMore(granted)) /\ Totals(OneMore(filled))
    BY <1>1, OneMoreTotals
  <2> QED BY <1>1, <2>1 DEF HistoriesAreTotals, Totals
<1>4. ASSUME NEW t \in Times, NEW s \in 0 .. t, t <= clock
      PROVE  /\ Before(granted', s) = Before(granted, s) /\ Before(filled', s) = Before(filled, s)
             /\ GrantedIn(s, t) \in Nat /\ BucketsIn(s, t) \in Nat
             /\ Before(granted, s) \in Nat /\ Before(filled, s) \in Nat
  <2>1. s \in 0 .. clock
    BY <1>1, <1>4 DEF Times
  <2>2. /\ Before(OneMore(granted), s) = Before(granted, s)
        /\ Before(OneMore(filled), s) = Before(filled, s)
    BY <1>1, <2>1, OneMoreTotals
  <2>3. Before(granted', s) = Before(granted, s) /\ Before(filled', s) = Before(filled, s)
    BY <2>2
  <2> QED BY <1>4, <2>3, BetweenType
<1>5. ASSUME NEW t \in Times, NEW s \in 0 .. t, t < clock
      PROVE  GrantedIn(s, t)' = GrantedIn(s, t) /\ BucketsIn(s, t)' = BucketsIn(s, t)
  <2>1. granted'[t] = granted[t] /\ filled'[t] = filled[t]
    BY <1>1, <1>5, OneMoreTotals
  <2>2. Before(granted', s) = Before(granted, s) /\ Before(filled', s) = Before(filled, s)
    BY <1>1, <1>4, <1>5, SMTT(30) DEF Times
  <2> QED BY <2>1, <2>2 DEF GrantedIn, BucketsIn, Before
<1>6. ASSUME NEW t \in Times, NEW s \in 0 .. t, t = clock
      PROVE  /\ granted' = granted => GrantedIn(s, t)' = GrantedIn(s, t)
             /\ granted' = OneMore(granted) => GrantedIn(s, t)' = GrantedIn(s, t) + 1
             /\ filled' = filled => BucketsIn(s, t)' = BucketsIn(s, t)
             /\ filled' = OneMore(filled) => BucketsIn(s, t)' = BucketsIn(s, t) + 1
  <2>1. /\ OneMore(granted)[t] = granted[t] + 1 /\ OneMore(filled)[t] = filled[t] + 1
        /\ granted[t] \in Nat /\ filled[t] \in Nat
    BY <1>1, <1>6, OneMoreTotals
  <2>2. /\ Before(granted', s) = Before(granted, s) /\ Before(filled', s) = Before(filled, s)
        /\ Before(granted, s) \in Nat /\ Before(filled, s) \in Nat
    BY <1>1, <1>4, <1>6 DEF Times
  <2> QED BY <2>1, <2>2 DEF GrantedIn, BucketsIn, Before
<1> QED BY <1>2, <1>3, <1>5, <1>6

-----------------------------------------------------------------------------
(***************************************************************************)
(* The steps of the limiter.                                               *)
(***************************************************************************)

\* A bucket that is in the map.
LEMMA BucketType ==
    ASSUME LimiterTypeOK, BucketIsFilled, NEW b \in bucket
    PROVE  /\ b.tokens \in 0 .. Capacity /\ b.last \in Nat /\ clock \in Nat /\ b.last <= clock
           /\ bucket = {b}
BY DEF LimiterTypeOK, BucketIsFilled, Times

LEMMA BucketTypeOK ==
    ASSUME NEW b \in [tokens : 0 .. Capacity, last : Times], bucket' = {b}
    PROVE  bucket' \subseteq [tokens : 0 .. Capacity, last : Times] /\ Cardinality(bucket') <= 1
<1>1. Cardinality({b}) = 1
  BY FS_Singleton
<1> QED BY <1>1

LEMMA StoreBucketKeepsInv ==
    ASSUME LimiterTypeOK, LimiterInv, NEW read \in Times, read <= clock, StoreBucket(read)
    PROVE  LimiterTypeOK' /\ LimiterInv'
<1> DEFINE full == [tokens |-> Capacity, last |-> read]
<1>1. clock' = clock /\ granted' = granted /\ filled' = OneMore(filled) /\ bucket' = {full}
  BY DEF StoreBucket
<1>2. clock \in Times /\ clock \in Nat /\ read \in Nat /\ Times \subseteq Nat
  BY CapacityType DEF LimiterTypeOK, Times
<1>3. /\ granted' \in [Times -> Nat] /\ filled' \in [Times -> Nat] /\ HistoriesAreTotals'
      /\ \A t \in Times : \A s \in 0 .. t :
           /\ t < clock => GrantedIn(s, t)' = GrantedIn(s, t) /\ BucketsIn(s, t)' = BucketsIn(s, t)
           /\ t = clock => GrantedIn(s, t)' = GrantedIn(s, t) /\ BucketsIn(s, t)' = BucketsIn(s, t) + 1
  BY <1>1, TotalsStep DEF LimiterInv
<1>4. \A t \in Times : \A s \in 0 .. t : GrantedIn(s, t) \in Nat /\ BucketsIn(s, t) \in Nat
  BY BetweenType DEF LimiterInv
<1>5. LimiterTypeOK'
  <2>1. full \in [tokens : 0 .. Capacity, last : Times]
    BY CapacityType
  <2>2. bucket' \subseteq [tokens : 0 .. Capacity, last : Times] /\ Cardinality(bucket') <= 1
    BY <1>1, <2>1, BucketTypeOK
  <2> QED BY <1>1, <1>2, <1>3, <2>2 DEF LimiterTypeOK
<1>6. full.tokens = Capacity /\ full.last = read
  OBVIOUS
<1>7. BucketIsFilled'
  <2>1. filled'[clock] > 0
    BY <1>1, <1>2, OneMoreTotals DEF LimiterInv, HistoriesAreTotals, LimiterTypeOK
  <2> QED BY <1>1, <1>6, <2>1 DEF BucketIsFilled
<1> HIDE DEF full
<1>8. ASSUME NEW t \in Times, t = clock
      PROVE  /\ Refilled(full, t) = Capacity
             /\ Uncapped(full, t) \in Nat /\ Uncapped(full, t) >= Capacity
  <2>1. (t - read) * PerMinute \in Nat
    BY <1>2, <1>8, CapacityType
  <2>2. Uncapped(full, t) \in Nat /\ Uncapped(full, t) >= Capacity
    BY <1>6, <2>1, CapacityType DEF Uncapped
  <2> QED BY <1>2, <1>6, <1>8, <2>2, RefilledIsCapped, CapacityType
<1>9. ASSUME NEW t \in Times, NEW s \in 0 .. t, t = clock
      PROVE  /\ Minute * GrantedIn(s, t)' + Capacity
                    <= Capacity * BucketsIn(s, t)' + PerMinute * (t - s)
             /\ Minute * GrantedIn(s, t)' \in Nat
  <2>1. Minute * GrantedIn(s, t) <= Capacity * BucketsIn(s, t) + PerMinute * (t - s)
    BY <1>2, <1>9 DEF LimiterInv, PastIsAccounted
  <2>2. Capacity * (BucketsIn(s, t) + 1) = Capacity * BucketsIn(s, t) + Capacity
    BY <1>4, CapacityType, OneMoreTimes
  <2>3. Minute * GrantedIn(s, t) \in Nat /\ Capacity * BucketsIn(s, t) \in Nat
        /\ PerMinute * (t - s) \in Nat
    BY <1>2, <1>4, CapacityType
  <2>4. GrantedIn(s, t)' = GrantedIn(s, t) /\ BucketsIn(s, t)' = BucketsIn(s, t) + 1
    BY <1>3, <1>9
  <2> QED BY <2>1, <2>2, <2>3, <2>4, CapacityType
<1>10. TokensAreAccounted'
  BY <1>1, <1>8, <1>9 DEF TokensAreAccounted
<1>11. PastIsAccounted'
  <2> SUFFICES ASSUME NEW t \in Times, NEW s \in 0 .. t, t <= clock
               PROVE  Minute * GrantedIn(s, t)'
                          <= Capacity * BucketsIn(s, t)' + PerMinute * (t - s)
    BY <1>1 DEF PastIsAccounted
  <2>1. CASE t < clock
    BY <1>3, <2>1 DEF LimiterInv, PastIsAccounted
  <2>2. CASE t = clock
    <3>1. BucketsIn(s, t)' \in Nat /\ t - s \in Nat
      BY <1>2, <1>3, <1>4, <2>2
    <3>2. Capacity * BucketsIn(s, t)' \in Nat /\ PerMinute * (t - s) \in Nat
      BY <3>1, CapacityType
    <3> QED BY <1>9, <2>2, <3>2, CapacityType
  <2> QED BY <1>2, <2>1, <2>2
<1>12. NothingIsWasted'
  <2> SUFFICES ASSUME NEW t \in Times, t = clock
               PROVE  \A s \in 0 .. t :
                          Uncapped(full, t) + Minute * GrantedIn(s, t)' >= Capacity
    BY <1>1, <1>2 DEF NothingIsWasted
  <2> QED BY <1>8, <1>9, CapacityType
<1> QED BY <1>3, <1>5, <1>7, <1>10, <1>11, <1>12 DEF LimiterInv
LEMMA TakeTokenKeepsInv ==
    ASSUME LimiterTypeOK, LimiterInv, TakeToken(clock)
    PROVE  LimiterTypeOK' /\ LimiterInv'
<1>1. PICK b \in bucket :
         /\ Refilled(b, clock) >= Minute
         /\ bucket' = {[tokens |-> Refilled(b, clock) - Minute, last |-> clock]}
         /\ granted' = OneMore(granted) /\ clock' = clock /\ filled' = filled
  BY DEF TakeToken
<1>2. PICK now \in Times : now = clock
  BY DEF LimiterTypeOK
<1>3. now \in Nat /\ Times \subseteq Nat
  BY <1>2, CapacityType DEF Times
<1>4. PICK r \in 0 .. Capacity :
         /\ r = Refilled(b, now) /\ r >= Minute
         /\ Uncapped(b, now) \in Nat
         /\ r = IF Capacity <= Uncapped(b, now) THEN Capacity ELSE Uncapped(b, now)
  BY <1>1, <1>2, BucketType, RefilledIsCapped DEF LimiterInv
<1> DEFINE rest == [tokens |-> r - Minute, last |-> now]
<1>5. bucket' = {rest}
  BY <1>1, <1>2, <1>4
<1>6. rest.tokens = r - Minute /\ rest.last = now /\ r - Minute \in 0 .. Capacity
  BY <1>4, CapacityType
<1>7. /\ granted' \in [Times -> Nat] /\ filled' \in [Times -> Nat] /\ HistoriesAreTotals'
      /\ \A t \in Times : \A s \in 0 .. t :
           /\ t < clock => GrantedIn(s, t)' = GrantedIn(s, t) /\ BucketsIn(s, t)' = BucketsIn(s, t)
           /\ t = clock => GrantedIn(s, t)' = GrantedIn(s, t) + 1 /\ BucketsIn(s, t)' = BucketsIn(s, t)
  BY <1>1, TotalsStep DEF LimiterInv
<1>8. \A t \in Times : \A s \in 0 .. t : GrantedIn(s, t) \in Nat /\ BucketsIn(s, t) \in Nat
  BY BetweenType DEF LimiterInv
<1>9. LimiterTypeOK'
  <2>1. rest \in [tokens : 0 .. Capacity, last : Times]
    BY <1>6
  <2>2. bucket' \subseteq [tokens : 0 .. Capacity, last : Times] /\ Cardinality(bucket') <= 1
    BY <1>5, <2>1, BucketTypeOK
  <2> QED BY <1>1, <1>2, <1>7, <2>2 DEF LimiterTypeOK
<1>10. BucketIsFilled'
  <2>1. filled'[now] > 0
    BY <1>1, <1>2 DEF LimiterInv, BucketIsFilled
  <2> QED BY <1>1, <1>2, <1>3, <1>5, <1>6, <2>1 DEF BucketIsFilled
<1> HIDE DEF rest
<1>11. Uncapped(rest, now) = r - Minute /\ Refilled(rest, now) = r - Minute
  <2>1. (now - rest.last) * PerMinute = 0
    BY <1>3, <1>6, CapacityType
  <2>2. Uncapped(rest, now) = r - Minute
    BY <1>4, <1>6, <2>1, CapacityType DEF Uncapped
  <2> QED BY <1>3, <1>4, <1>6, <2>2, RefilledIsCapped, CapacityType
<1>12. ASSUME NEW s \in 0 .. now
       PROVE  /\ Minute * GrantedIn(s, now)' = Minute * GrantedIn(s, now) + Minute
              /\ Minute * GrantedIn(s, now) \in Nat /\ Minute * GrantedIn(s, now)' \in Nat
              /\ Minute * GrantedIn(s, now) + r
                     <= Capacity * BucketsIn(s, now) + PerMinute * (now - s)
              /\ BucketsIn(s, now)' = BucketsIn(s, now)
              /\ Capacity * BucketsIn(s, now) \in Nat
              /\ PerMinute * (now - s) \in Nat
  <2>1. GrantedIn(s, now) \in Nat /\ BucketsIn(s, now) \in Nat /\ now - s \in Nat
    BY <1>3, <1>8
  <2>2. GrantedIn(s, now)' = GrantedIn(s, now) + 1 /\ BucketsIn(s, now)' = BucketsIn(s, now)
    BY <1>2, <1>7
  <2>3. Minute * (GrantedIn(s, now) + 1) = Minute * GrantedIn(s, now) + Minute
    BY <2>1, CapacityType, OneMoreTimes
  <2>4. Minute * GrantedIn(s, now) + r <= Capacity * BucketsIn(s, now) + PerMinute * (now - s)
    BY <1>2, <1>4 DEF LimiterInv, TokensAreAccounted
  <2>5. /\ Minute * GrantedIn(s, now) \in Nat /\ Capacity * BucketsIn(s, now) \in Nat
        /\ PerMinute * (now - s) \in Nat
    BY <2>1, CapacityType
  <2> QED BY <2>2, <2>3, <2>4, <2>5, CapacityType
<1>13. TokensAreAccounted'
  <2> SUFFICES ASSUME NEW s \in 0 .. now
               PROVE  Minute * GrantedIn(s, now)' + Refilled(rest, now)
                          <= Capacity * BucketsIn(s, now)' + PerMinute * (now - s)
    BY <1>1, <1>2, <1>5 DEF TokensAreAccounted
  <2> QED BY <1>4, <1>11, <1>12, CapacityType
<1>14. PastIsAccounted'
  <2> SUFFICES ASSUME NEW t \in Times, NEW s \in 0 .. t, t <= now
               PROVE  Minute * GrantedIn(s, t)'
                          <= Capacity * BucketsIn(s, t)' + PerMinute * (t - s)
    BY <1>1, <1>2 DEF PastIsAccounted
  <2>1. CASE t < now
    BY <1>2, <1>7, <2>1 DEF LimiterInv, PastIsAccounted
  <2>2. CASE t = now
    BY <1>4, <1>12, <2>2, CapacityType
  <2> QED BY <1>3, <2>1, <2>2
<1>15. NothingIsWasted'
  <2> SUFFICES
        /\ Uncapped(rest, now) + Minute * GrantedIn(0, now)' >= Capacity
        /\ \A s \in 0 .. now :
              \/ Uncapped(rest, now) + Minute * GrantedIn(s, now)' >= Capacity
              \/ Uncapped(rest, now) + Minute * GrantedIn(s, now)' >= PerMinute * (now - s)
    BY <1>1, <1>2, <1>5 DEF NothingIsWasted
  <2>1. \A s \in 0 .. now : Uncapped(rest, now) + Minute * GrantedIn(s, now)'
                                = r + Minute * GrantedIn(s, now)
    BY <1>4, <1>11, <1>12, CapacityType
  <2>2. CASE r = Capacity
    BY <1>3, <1>12, <2>1, <2>2, CapacityType
  <2>3. CASE r = Uncapped(b, now)
    BY <1>1, <1>2, <1>3, <2>1, <2>3 DEF LimiterInv, NothingIsWasted
  <2> QED BY <1>4, <2>2, <2>3
<1> QED BY <1>7, <1>9, <1>10, <1>13, <1>14, <1>15 DEF LimiterInv
LEMMA FindNoTokenKeepsInv ==
    ASSUME LimiterTypeOK, LimiterInv, FindNoToken(clock)
    PROVE  LimiterTypeOK' /\ LimiterInv'
<1>1. PICK b \in bucket :
         /\ Refilled(b, clock) < Minute
         /\ bucket' = {[tokens |-> Refilled(b, clock), last |-> clock]}
         /\ clock' = clock /\ granted' = granted /\ filled' = filled
  BY DEF FindNoToken
<1>2. PICK now \in Times : now = clock
  BY DEF LimiterTypeOK
<1>3. now \in Nat /\ Times \subseteq Nat
  BY <1>2, CapacityType DEF Times
<1>4. PICK r \in 0 .. Capacity : r = Refilled(b, now) /\ r = Uncapped(b, now)
  <2>1. /\ Refilled(b, now) \in 0 .. Capacity /\ Uncapped(b, now) \in Nat
        /\ Refilled(b, now) = IF Capacity <= Uncapped(b, now) THEN Capacity ELSE Uncapped(b, now)
    BY <1>2, BucketType, RefilledIsCapped DEF LimiterInv
  <2>2. Refilled(b, now) # Capacity
    BY <1>1, <1>2, <2>1, CapacityType
  <2> QED BY <2>1, <2>2
<1> DEFINE rest == [tokens |-> r, last |-> now]
<1>5. bucket' = {rest}
  BY <1>1, <1>2, <1>4
<1>6. rest.tokens = r /\ rest.last = now
  OBVIOUS
<1>7. /\ HistoriesAreTotals'
      /\ \A t \in Times : \A s \in 0 .. t :
            t <= clock => GrantedIn(s, t)' = GrantedIn(s, t) /\ BucketsIn(s, t)' = BucketsIn(s, t)
  BY <1>1, <1>2, <1>3, TotalsStep DEF LimiterInv
<1>8. LimiterTypeOK'
  <2>1. rest \in [tokens : 0 .. Capacity, last : Times]
    OBVIOUS
  <2>2. bucket' \subseteq [tokens : 0 .. Capacity, last : Times] /\ Cardinality(bucket') <= 1
    BY <1>5, <2>1, BucketTypeOK
  <2> QED BY <1>1, <2>2 DEF LimiterTypeOK
<1>9. BucketIsFilled'
  <2>1. filled'[now] > 0
    BY <1>1, <1>2 DEF LimiterInv, BucketIsFilled
  <2> QED BY <1>1, <1>2, <1>3, <1>5, <1>6, <2>1 DEF BucketIsFilled
<1> HIDE DEF rest
<1>10. Uncapped(rest, now) = r /\ Refilled(rest, now) = r
  <2>1. (now - rest.last) * PerMinute = 0
    BY <1>3, <1>6, CapacityType
  <2>2. Uncapped(rest, now) = r
    BY <1>4, <1>6, <2>1, CapacityType DEF Uncapped
  <2> QED BY <1>3, <1>4, <1>6, <2>2, RefilledIsCapped, CapacityType
<1>11. TokensAreAccounted'
  <2> SUFFICES ASSUME NEW s \in 0 .. now
               PROVE  Minute * GrantedIn(s, now)' + Refilled(rest, now)
                          <= Capacity * BucketsIn(s, now)' + PerMinute * (now - s)
    BY <1>1, <1>2, <1>5 DEF TokensAreAccounted
  <2>1. GrantedIn(s, now)' = GrantedIn(s, now) /\ BucketsIn(s, now)' = BucketsIn(s, now)
    BY <1>2, <1>3, <1>7
  <2>2. Minute * GrantedIn(s, now) + Refilled(b, now)
            <= Capacity * BucketsIn(s, now) + PerMinute * (now - s)
    BY <1>2 DEF LimiterInv, TokensAreAccounted
  <2>3. Refilled(rest, now) = Refilled(b, now)
    BY <1>4, <1>10
  <2> QED BY <2>1, <2>2, <2>3
<1>12. PastIsAccounted'
  <2> SUFFICES ASSUME NEW t \in Times, NEW s \in 0 .. t, t <= clock
               PROVE  Minute * GrantedIn(s, t)'
                          <= Capacity * BucketsIn(s, t)' + PerMinute * (t - s)
    BY <1>1 DEF PastIsAccounted
  <2> QED BY <1>7 DEF LimiterInv, PastIsAccounted
<1>13. NothingIsWasted'
  <2> SUFFICES
        /\ Uncapped(rest, now) + Minute * GrantedIn(0, now)' >= Capacity
        /\ \A s \in 0 .. now :
              \/ Uncapped(rest, now) + Minute * GrantedIn(s, now)' >= Capacity
              \/ Uncapped(rest, now) + Minute * GrantedIn(s, now)' >= PerMinute * (now - s)
    BY <1>1, <1>2, <1>5 DEF NothingIsWasted
  <2> QED BY <1>2, <1>3, <1>4, <1>7, <1>10 DEF LimiterInv, NothingIsWasted
<1> QED BY <1>7, <1>8, <1>9, <1>11, <1>12, <1>13 DEF LimiterInv

LEMMA LoseBucketsKeepsInv ==
    ASSUME LimiterTypeOK, LimiterInv, LoseBuckets
    PROVE  LimiterTypeOK' /\ LimiterInv'
<1>1. bucket' = {} /\ clock' = clock /\ granted' = granted /\ filled' = filled
  BY DEF LoseBuckets
<1>2. LimiterTypeOK'
  BY <1>1, FS_EmptySet DEF LimiterTypeOK
<1>3. PastIsAccounted' /\ HistoriesAreTotals'
  BY <1>1 DEF LimiterInv, PastIsAccounted, HistoriesAreTotals, Totals, GrantedIn, BucketsIn, Before
<1> QED BY <1>1, <1>2, <1>3 DEF LimiterInv, BucketIsFilled, TokensAreAccounted, NothingIsWasted

LEMMA LimiterTickKeepsInv ==
    ASSUME LimiterTypeOK, LimiterInv, LimiterTick
    PROVE  LimiterTypeOK' /\ LimiterInv'
<1>1. clock < MaxClock /\ clock' = clock + 1 /\ bucket' = bucket /\ granted' = granted /\ filled' = filled
  BY DEF LimiterTick
<1>2. PICK now \in Times : now = clock
  BY DEF LimiterTypeOK
<1>3. PICK next \in Times : next = now + 1 /\ next = clock'
  BY <1>1, <1>2, CapacityType DEF Times
<1>4. now \in Nat /\ next \in Nat /\ Times \subseteq Nat
  BY <1>2, CapacityType DEF Times
<1>5. /\ granted \in [Times -> Nat] /\ filled \in [Times -> Nat]
      /\ Totals(granted) /\ Totals(filled)
  BY DEF LimiterTypeOK, LimiterInv, HistoriesAreTotals
<1>6. \A t \in Times : \A s \in 0 .. t :
         GrantedIn(s, t)' = GrantedIn(s, t) /\ BucketsIn(s, t)' = BucketsIn(s, t)
  BY <1>1 DEF GrantedIn, BucketsIn, Before
<1>7. \A t \in Times : \A s \in 0 .. t : GrantedIn(s, t) \in Nat /\ BucketsIn(s, t) \in Nat
  BY BetweenType DEF LimiterInv
<1>8. granted[next] = granted[now] /\ filled[next] = filled[now]
  BY <1>2, <1>3, <1>4, <1>5 DEF Totals
<1>9. ASSUME NEW s \in 0 .. now
      PROVE  /\ GrantedIn(s, next) = GrantedIn(s, now) /\ BucketsIn(s, next) = BucketsIn(s, now)
             /\ PerMinute * (next - s) = PerMinute * (now - s) + PerMinute
             /\ PerMinute * (now - s) \in Nat
             /\ Minute * GrantedIn(s, now) \in Nat /\ Capacity * BucketsIn(s, now) \in Nat
  <2>1. now - s \in Nat /\ next - s = (now - s) + 1
    BY <1>3, <1>4
  <2>2. PerMinute * ((now - s) + 1) = PerMinute * (now - s) + PerMinute
    BY <2>1, CapacityType, OneMoreTimes
  <2>3. /\ PerMinute * (now - s) \in Nat
        /\ Minute * GrantedIn(s, now) \in Nat /\ Capacity * BucketsIn(s, now) \in Nat
    BY <1>7, <2>1, CapacityType
  <2> QED BY <1>8, <2>1, <2>2, <2>3 DEF GrantedIn, BucketsIn
<1>10. /\ Minute * GrantedIn(next, next) = 0
       /\ PerMinute * (next - next) = 0
       /\ Capacity * BucketsIn(next, next) \in Nat
       /\ bucket # {} => Capacity * BucketsIn(next, next) = Capacity
  <2>1. Before(granted, next) = granted[now] /\ Before(filled, next) = filled[now]
    BY <1>3, <1>4 DEF Before
  <2>2. GrantedIn(next, next) = 0 /\ BucketsIn(next, next) = IF filled[now] > 0 THEN 1 ELSE 0
    BY <1>5, <1>8, <2>1 DEF GrantedIn, BucketsIn
  <2>3. bucket # {} => filled[now] > 0
    BY <1>2 DEF LimiterInv, BucketIsFilled
  <2> QED BY <1>4, <2>2, <2>3, CapacityType
<1>11. \A b \in bucket :
          /\ Uncapped(b, next) = Uncapped(b, now) + PerMinute
          /\ Uncapped(b, now) \in Nat
          /\ Refilled(b, now) \in Nat /\ Refilled(b, next) \in Nat
          /\ Refilled(b, next) <= Capacity
          /\ Refilled(b, next) <= Refilled(b, now) + PerMinute
  <2> SUFFICES ASSUME NEW b \in bucket
               PROVE  /\ Uncapped(b, next) = Uncapped(b, now) + PerMinute
                      /\ Uncapped(b, now) \in Nat
                      /\ Refilled(b, now) \in Nat /\ Refilled(b, next) \in Nat
                      /\ Refilled(b, next) <= Capacity
                      /\ Refilled(b, next) <= Refilled(b, now) + PerMinute
    OBVIOUS
  <2>1. b.tokens \in 0 .. Capacity /\ b.last \in Nat /\ b.last <= now
    BY <1>2, BucketType DEF LimiterInv
  <2>2. now - b.last \in Nat /\ next - b.last = (now - b.last) + 1
    BY <1>3, <1>4, <2>1
  <2>3. /\ (next - b.last) * PerMinute = (now - b.last) * PerMinute + PerMinute
        /\ (now - b.last) * PerMinute \in Nat
    BY <2>2, CapacityType
  <2>4. Uncapped(b, next) = Uncapped(b, now) + PerMinute
    BY <2>1, <2>3, CapacityType DEF Uncapped
  <2>5. /\ Uncapped(b, now) \in Nat
        /\ Refilled(b, now) = IF Capacity <= Uncapped(b, now) THEN Capacity ELSE Uncapped(b, now)
    BY <1>4, <2>1, RefilledIsCapped
  <2>6. Refilled(b, next) = IF Capacity <= Uncapped(b, next) THEN Capacity ELSE Uncapped(b, next)
    BY <1>3, <1>4, <2>1, RefilledIsCapped
  <2> QED BY <2>4, <2>5, <2>6, CapacityType
<1>12. LimiterTypeOK'
  BY <1>1, <1>3 DEF LimiterTypeOK
<1>13. HistoriesAreTotals'
  BY <1>1, <1>2, <1>3, <1>4, <1>5, <1>8 DEF HistoriesAreTotals, Totals
<1>14. BucketIsFilled'
  <2>1. \A b \in bucket : b.last \in Nat /\ b.last <= now /\ filled[now] > 0
    BY <1>2, BucketType DEF LimiterInv, BucketIsFilled
  <2> QED BY <1>1, <1>2, <1>3, <1>4, <1>8, <2>1 DEF LimiterInv, BucketIsFilled
<1>15. TokensAreAccounted'
  <2> SUFFICES ASSUME NEW s \in 0 .. next, NEW b \in bucket
               PROVE  Minute * GrantedIn(s, next) + Refilled(b, next)
                          <= Capacity * BucketsIn(s, next) + PerMinute * (next - s)
    BY <1>1, <1>3, <1>6 DEF TokensAreAccounted
  <2>1. CASE s \in 0 .. now
    <3>1. Minute * GrantedIn(s, now) + Refilled(b, now)
              <= Capacity * BucketsIn(s, now) + PerMinute * (now - s)
      BY <1>2, <2>1 DEF LimiterInv, TokensAreAccounted
    <3> QED BY <1>9, <1>11, <2>1, <3>1, CapacityType
  <2>2. CASE s = next
    BY <1>10, <1>11, <2>2, CapacityType
  <2> QED BY <1>3, <1>4, <2>1, <2>2
<1>16. PastIsAccounted'
  <2> SUFFICES ASSUME NEW t \in Times, NEW s \in 0 .. t, t <= next
               PROVE  Minute * GrantedIn(s, t) <= Capacity * BucketsIn(s, t) + PerMinute * (t - s)
    BY <1>3, <1>6 DEF PastIsAccounted
  <2>1. \A u \in Times : \A v \in 0 .. u :
           u <= now => Minute * GrantedIn(v, u) <= Capacity * BucketsIn(v, u) + PerMinute * (u - v)
    BY <1>2 DEF LimiterInv, PastIsAccounted
  <2>2. CASE t <= now
    BY <2>1, <2>2
  <2>3. CASE t = next /\ s \in 0 .. now
    <3>1. Minute * GrantedIn(s, now) <= Capacity * BucketsIn(s, now) + PerMinute * (now - s)
      BY <1>4, <2>1, <2>3
    <3> QED BY <1>9, <2>3, <3>1, CapacityType
  <2>4. CASE t = next /\ s = next
    BY <1>10, <2>4
  <2> QED BY <1>3, <1>4, <2>2, <2>3, <2>4
<1>17. NothingIsWasted'
  <2> SUFFICES ASSUME NEW b \in bucket
               PROVE  /\ Uncapped(b, next) + Minute * GrantedIn(0, next) >= Capacity
                      /\ \A s \in 0 .. next :
                            \/ Uncapped(b, next) + Minute * GrantedIn(s, next) >= Capacity
                            \/ Uncapped(b, next) + Minute * GrantedIn(s, next)
                                   >= PerMinute * (next - s)
    BY <1>1, <1>3, <1>4, <1>6 DEF NothingIsWasted
  <2>1. /\ Uncapped(b, now) + Minute * GrantedIn(0, now) >= Capacity
        /\ \A s \in 0 .. now :
              \/ Uncapped(b, now) + Minute * GrantedIn(s, now) >= Capacity
              \/ Uncapped(b, now) + Minute * GrantedIn(s, now) >= PerMinute * (now - s)
    BY <1>2 DEF LimiterInv, NothingIsWasted
  <2>2. Uncapped(b, next) = Uncapped(b, now) + PerMinute /\ Uncapped(b, now) \in Nat
    BY <1>11
  <2>3. Uncapped(b, next) + Minute * GrantedIn(0, next) >= Capacity
    BY <1>4, <1>9, <2>1, <2>2, CapacityType
  <2>4. ASSUME NEW s \in 0 .. now
        PROVE  \/ Uncapped(b, next) + Minute * GrantedIn(s, next) >= Capacity
               \/ Uncapped(b, next) + Minute * GrantedIn(s, next) >= PerMinute * (next - s)
    BY <1>9, <2>1, <2>2, CapacityType
  <2>5. Uncapped(b, next) + Minute * GrantedIn(next, next) >= PerMinute * (next - next)
    BY <1>10, <2>2, CapacityType
  <2> QED BY <1>3, <1>4, <2>3, <2>4, <2>5
<1> QED BY <1>12, <1>13, <1>14, <1>15, <1>16, <1>17 DEF LimiterInv

LEMMA LimiterUnchangedKeepsInv ==
    ASSUME LimiterTypeOK, LimiterInv, UNCHANGED limiterVars
    PROVE  LimiterTypeOK' /\ LimiterInv'
BY DEF limiterVars, LimiterTypeOK, LimiterInv, BucketIsFilled, HistoriesAreTotals, Totals,
   TokensAreAccounted, PastIsAccounted, NothingIsWasted, GrantedIn, BucketsIn, Before

LEMMA LimiterInitCorrect == LimiterInit => LimiterTypeOK /\ LimiterInv
<1> SUFFICES ASSUME LimiterInit PROVE LimiterTypeOK /\ LimiterInv
  OBVIOUS
<1>1. 0 \in Times /\ Times \subseteq Nat
  BY CapacityType DEF Times
<1>2. /\ clock = 0 /\ bucket = {}
      /\ \A t \in Times : granted[t] = 0 /\ filled[t] = 0
  BY DEF LimiterInit
<1>3. LimiterTypeOK
  BY <1>1, FS_EmptySet DEF LimiterInit, LimiterTypeOK
<1>4. PastIsAccounted
  <2> SUFFICES ASSUME NEW t \in Times, NEW s \in 0 .. t, t <= 0
               PROVE  Minute * GrantedIn(s, t) <= Capacity * BucketsIn(s, t) + PerMinute * (t - s)
    BY <1>2 DEF PastIsAccounted
  <2>1. t = 0 /\ s = 0
    BY <1>1
  <2>2. GrantedIn(s, t) = 0 /\ BucketsIn(s, t) = 0
    BY <1>1, <1>2, <2>1 DEF GrantedIn, BucketsIn, Before
  <2> QED BY <2>1, <2>2, CapacityType
<1>5. HistoriesAreTotals
  BY <1>1, <1>2 DEF HistoriesAreTotals, Totals
<1> QED BY <1>2, <1>3, <1>4, <1>5
        DEF LimiterInv, BucketIsFilled, TokensAreAccounted, NothingIsWasted

-----------------------------------------------------------------------------
(***************************************************************************)
(* The steps of a request.                                                 *)
(***************************************************************************)

LEMMA HeaderDSNIsRead ==
    ASSUME NEW key
    PROVE  HeaderDSN(JSON([dsn |-> key])) = key
<1> DEFINE value == [dsn |-> key]
           opening == [sym |-> "opening", value |-> value]
           closing == [sym |-> "closing"]
           body == <<opening, closing>>
<1>1. Len(body) = 2 /\ body[1] = opening /\ body[2] = closing /\ JSON(value) = body
  BY DEF JSON
<1>2. opening.sym = "opening" /\ closing.sym = "closing" /\ NL.sym = "newline"
  BY DEF NL
<1>3. opening # NL /\ closing # NL
  BY <1>2
<1>4. {n \in 0 .. Len(body) - 1 : body[n + 1] = NL} = {}
  <2>1. \A n \in 0 .. Len(body) - 1 : n = 0 \/ n = 1
    BY <1>1
  <2> QED BY <1>1, <1>3, <2>1
<1>5. SubSeq(body, 0 + 1, Len(body)) = body
  <2>1. body \in Seq({opening, closing})
    OBVIOUS
  <2> HIDE DEF body
  <2>2. SubSeq(body, 1, Len(body)) = body
    BY <2>1, SubSeqFull
  <2> QED BY <2>2
<1> HIDE DEF body
<1>6. ReadLine(body, 0) = [line |-> body, next |-> Len(body)]
  BY <1>4, <1>5 DEF ReadLine
<1>7. opening.value = value /\ value.dsn = key
  OBVIOUS
<1>8. ReadLine(body, 0).line = body /\ body[1].value = value
  BY <1>1, <1>6, <1>7
<1>9. Decodes(body)
  BY <1>1, <1>8 DEF Decodes
<1>10. body # <<>>
  BY <1>1
<1> QED BY <1>1, <1>7, <1>8, <1>9, <1>10 DEF HeaderDSN

LEMMA ExtractedKeysAreKeys == ExtractedKeys \subseteq Keys
<1> SUFFICES ASSUME NEW sources \in [1 .. 3 -> Keys]
             PROVE  ExtractPublicKey(sources) \in Keys
  BY DEF ExtractedKeys
<1> DEFINE found == {n \in 1 .. Len(sources) : sources[n] # ""}
           first == IF found # {} THEN Min(found) ELSE 0
<1>1. Len(sources) = 3
  <2>1. sources \in Seq(Keys)
    BY SeqDef
  <2> QED BY <2>1, LenProperties
<1>2. first = 0 \/ first \in 1 .. 3
  <2>1. CASE found # {}
    <3>1. \E n \in found : \A m \in found : n <= m
      <4>1. found \subseteq 1 .. 3
        BY <1>1
      <4> HIDE DEF found
      <4>2. \A n \in found : n \in Int /\ (n = 1 \/ n = 2 \/ n = 3)
        BY <4>1
      <4> QED BY <2>1, <4>2
    <3>2. Min(found) \in found
      BY <3>1 DEF Min
    <3> QED BY <1>1, <2>1, <3>2
  <2> QED BY <2>1
<1>3. ExtractPublicKey(sources) = IF first = 0 THEN "" ELSE sources[first]
  BY DEF ExtractPublicKey, SelectInSeq
<1> QED BY <1>2, <1>3 DEF Keys

\* A step of one request leaves the others alone.
LEMMA StepKeepsInv ==
    ASSUME TypeOK, SlotInv, NEW s \in Slots, NEW pc, NEW next \in Slot, Step(s, pc, next),
           Consistent(next), next.read <= clock, clock' = clock
    PROVE  slot' \in [Slots -> Slot] /\ SlotInv' /\ restarts' \in 0 .. MaxRestarts
<1>1. slot' = [slot EXCEPT ![s] = next] /\ restarts' = restarts
  BY DEF Step
<1>2. slot \in [Slots -> Slot] /\ restarts \in 0 .. MaxRestarts
  BY DEF TypeOK
<1>3. \A t \in Slots : slot'[t] = IF t = s THEN next ELSE slot[t]
  BY <1>1, <1>2
<1>4. SlotInv'
  BY <1>3 DEF SlotInv
<1> QED BY <1>1, <1>2, <1>4

\* What a slot may hold next.
LEMMA NextSlots ==
    ASSUME TypeOK, SlotInv, NEW s \in Slots
    PROVE  /\ \A status \in {"accepted", "empty", "limited", "forbidden", "error"} :
                /\ Answers(s, status) \in Slot /\ Consistent(Answers(s, status))
                /\ Answers(s, status).read <= clock
           /\ slot[s].pc \notin {"idle", "load", "parse"} =>
                /\ Goes(s) \in Slot /\ Goes(s).read <= clock
                /\ Goes(s).key = slot[s].key /\ Goes(s).asked = slot[s].asked
                /\ Goes(s).status = "none" /\ Goes(s).endpoint = slot[s].endpoint
                /\ Goes(s).pc = After(slot[s].endpoint, slot[s].pc)
           /\ slot[s] \in Slot /\ slot[s].read <= clock /\ Consistent(slot[s])
<1>1. slot[s] \in Slot /\ slot[s].read <= clock /\ Consistent(slot[s])
  BY DEF TypeOK, SlotInv
<1>2. 0 \in Times /\ 0 <= clock /\ "" \in Keys
  BY CapacityType DEF TypeOK, LimiterTypeOK, Times, Keys
<1>3. ASSUME NEW status \in {"accepted", "empty", "limited", "forbidden", "error"}
      PROVE  /\ Answers(s, status) \in Slot /\ Consistent(Answers(s, status))
             /\ Answers(s, status).read <= clock
  BY <1>2 DEF Answers, Free, Slot, Consistent
<1>4. ASSUME slot[s].pc \notin {"idle", "load", "parse"}
      PROVE  /\ Goes(s) \in Slot /\ Goes(s).read <= clock
             /\ Goes(s).key = slot[s].key /\ Goes(s).asked = slot[s].asked
             /\ Goes(s).status = "none" /\ Goes(s).endpoint = slot[s].endpoint
             /\ Goes(s).pc = After(slot[s].endpoint, slot[s].pc)
  <2>1. After(slot[s].endpoint, slot[s].pc) \in {"body", "key", "authenticate", "load", "parse"}
    BY <1>1, <1>4 DEF After, Slot, Consistent
  <2> QED BY <1>1, <1>4, <2>1 DEF Goes, Slot, Consistent
<1> QED BY <1>1, <1>3, <1>4

\* Up to the limiter, or away from it.
LEMMA BeforeLimiterKeepsInv ==
    ASSUME TypeOK, SlotInv, NEW s \in Slots,
           \/ \E endpoint \in {"envelope", "store"}, key \in ExtractedKeys :
                 Arrive(s, endpoint, key)
           \/ \E dsn \in Keys : ReadBody(s, dsn)
           \/ ReadBodyFails(s) \/ CheckKey(s)
           \/ AuthenticateProjectKey(s) \/ AuthenticateFails(s) \/ ReadTime(s)
           \/ \E endpoint, parses : ParseBody(s, endpoint, parses)
    PROVE  /\ UNCHANGED limiterVars
           /\ slot' \in [Slots -> Slot] /\ SlotInv' /\ restarts' \in 0 .. MaxRestarts
<1>1. UNCHANGED limiterVars /\ clock' = clock
  BY DEF Arrive, ReadBody, ReadBodyFails, CheckKey, AuthenticateProjectKey, AuthenticateFails,
     ReadTime, ParseBody, limiterVars
<1>2. clock \in Times /\ clock \in Nat /\ 0 \in Times
  BY CapacityType DEF TypeOK, LimiterTypeOK, Times
<1>3. SUFFICES \E pc, next : /\ Step(s, pc, next) /\ next \in Slot
                             /\ Consistent(next) /\ next.read <= clock
  BY <1>1, StepKeepsInv
<1>4. CASE \E endpoint \in {"envelope", "store"}, key \in ExtractedKeys :
              Arrive(s, endpoint, key)
  <2>1. PICK endpoint \in {"envelope", "store"}, key \in Keys : Arrive(s, endpoint, key)
    BY <1>4, ExtractedKeysAreKeys
  <2> DEFINE first == IF endpoint = "envelope" THEN "body" ELSE "key"
             next == [Free EXCEPT !.pc = first, !.endpoint = endpoint, !.key = key]
  <2>2. Step(s, "idle", next)
    BY <2>1 DEF Arrive
  <2>3. first \in {"body", "key"}
    OBVIOUS
  <2> HIDE DEF first
  <2>4. /\ Free \in Slot /\ Free.read = 0 /\ Free.asked = FALSE /\ Free.status = "none"
    BY <1>2 DEF Free, Slot, Keys
  <2>5. /\ next \in Slot /\ next.pc = first /\ next.endpoint = endpoint
        /\ next.read = 0 /\ next.asked = FALSE /\ next.status = "none"
    BY <2>3, <2>4 DEF Slot
  <2>6. Consistent(next) /\ next.read <= clock
    BY <1>2, <2>3, <2>5 DEF Consistent
  <2> QED BY <2>2, <2>5, <2>6
<1>5. CASE \E dsn \in Keys : ReadBody(s, dsn)
  <2>1. PICK dsn \in Keys : ReadBody(s, dsn)
    BY <1>5
  <2> DEFINE key == IF slot[s].key = "" /\ slot[s].endpoint = "envelope" THEN dsn ELSE slot[s].key
             next == [Goes(s) EXCEPT !.key = key]
  <2>2. slot[s].pc = "body"
    BY <2>1 DEF ReadBody, Step
  <2>3. /\ Goes(s) \in Slot /\ Goes(s).read <= clock
        /\ Goes(s).key = slot[s].key /\ Goes(s).asked = slot[s].asked
        /\ Goes(s).status = "none" /\ Goes(s).endpoint = slot[s].endpoint
        /\ Goes(s).pc = After(slot[s].endpoint, "body")
        /\ slot[s] \in Slot /\ Consistent(slot[s])
    BY <2>2, NextSlots
  <2>4. Step(s, "body", next)
    BY <2>1, <2>3, HeaderDSNIsRead DEF ReadBody
  <2>5. key \in Keys /\ (slot[s].asked => key \in ProjectKeys)
    BY <2>3, KeysAssumption DEF Slot, Consistent
  <2>6. After(slot[s].endpoint, "body") \in {"key", "parse"}
    BY <2>2, <2>3 DEF After, Slot, Consistent
  <2>7. next \in Slot /\ Consistent(next) /\ next.read <= clock
    <3> HIDE DEF key
    <3>1. /\ next.key = key /\ next.pc = Goes(s).pc /\ next.endpoint = Goes(s).endpoint
          /\ next.read = Goes(s).read /\ next.asked = Goes(s).asked
          /\ next.status = Goes(s).status /\ next \in Slot
      BY <2>3, <2>5 DEF Slot
    <3>2. Goes(s).endpoint # "none" /\ Goes(s).pc \in {"key", "parse"}
      BY <2>2, <2>3, <2>6 DEF Consistent
    <3> QED BY <2>3, <2>5, <3>1, <3>2 DEF Consistent
  <2> QED BY <2>4, <2>7
<1>6. CASE ReadBodyFails(s) \/ AuthenticateFails(s)
  BY <1>6, NextSlots DEF ReadBodyFails, AuthenticateFails
<1>7. CASE CheckKey(s)
  <2>1. CASE slot[s].key = ""
    BY <1>7, <2>1, NextSlots DEF CheckKey
  <2>2. CASE slot[s].key # ""
    <3>1. Step(s, "key", Goes(s)) /\ slot[s].pc = "key"
      BY <1>7, <2>2 DEF CheckKey, Step
    <3>2. Goes(s).pc = "authenticate"
      BY <3>1, NextSlots DEF After
    <3> QED BY <3>1, <3>2, NextSlots DEF Consistent
  <2> QED BY <2>1, <2>2
<1>8. CASE AuthenticateProjectKey(s)
  <2>1. Step(s, "authenticate", Goes(s)) /\ slot[s].pc = "authenticate" /\ slot[s].key \in ProjectKeys
    BY <1>8 DEF AuthenticateProjectKey, Step
  <2> QED BY <2>1, NextSlots DEF Consistent
<1>9. CASE ReadTime(s)
  <2> DEFINE next == [slot[s] EXCEPT !.asked = TRUE, !.read = clock]
  <2>1. Step(s, "load", next) /\ slot[s].pc = "load"
    BY <1>9 DEF ReadTime, Step
  <2>2. slot[s] \in Slot /\ Consistent(slot[s])
    BY NextSlots
  <2>3. /\ next \in Slot /\ next.read = clock /\ next.pc = slot[s].pc /\ next.key = slot[s].key
        /\ next.endpoint = slot[s].endpoint /\ next.status = slot[s].status
    BY <1>2, <2>2 DEF Slot
  <2>4. Consistent(next) /\ next.read <= clock
    BY <1>2, <2>1, <2>2, <2>3 DEF Consistent
  <2> QED BY <2>1, <2>3, <2>4
<1>10. CASE \E endpoint, parses : ParseBody(s, endpoint, parses)
  BY <1>10, NextSlots DEF ParseBody
<1> QED BY <1>4, <1>5, <1>6, <1>7, <1>8, <1>9, <1>10

\* Allow: the bucket is there, one is put there, a token is taken or not.
LEMMA AtLimiterKeepsInv ==
    ASSUME TypeOK, LimiterInv, SlotInv, NEW s \in Slots, LoadOrStore(s) \/ Allow(s)
    PROVE  TypeOK' /\ LimiterInv' /\ SlotInv'
<1>1. LimiterTypeOK
  BY DEF TypeOK
<1>2. slot[s] \in Slot /\ slot[s].read <= clock /\ Consistent(slot[s])
  BY NextSlots
<1>3. clock \in Nat /\ 0 \in Times /\ 0 <= clock
  BY <1>1, CapacityType DEF LimiterTypeOK, Times
<1>4. CASE LoadOrStore(s)
  <2> DEFINE next == [slot[s] EXCEPT !.pc = "take"]
  <2>1. /\ slot[s].pc = "load" /\ Step(s, "load", next)
        /\ LoadBucket \/ StoreBucket(slot[s].read)
    BY <1>4 DEF LoadOrStore, Step
  <2>2. LimiterTypeOK' /\ LimiterInv' /\ clock' = clock
    <3>1. slot[s].read \in Times
      BY <1>2 DEF Slot
    <3>2. CASE LoadBucket
      BY <1>1, <3>2, LimiterUnchangedKeepsInv DEF LoadBucket, limiterVars
    <3>3. CASE StoreBucket(slot[s].read)
      <4>1. PICK read \in Times : read = slot[s].read
        BY <3>1
      <4>2. StoreBucket(read) /\ read <= clock
        BY <1>2, <3>3, <4>1
      <4> QED BY <1>1, <4>2, StoreBucketKeepsInv DEF StoreBucket
    <3> QED BY <2>1, <3>2, <3>3
  <2>3. next \in Slot /\ next.key = slot[s].key /\ next.endpoint = slot[s].endpoint
        /\ next.status = slot[s].status /\ next.read = slot[s].read
    BY <1>2 DEF Slot
  <2>4. Consistent(next) /\ next.read <= clock
    BY <1>2, <2>1, <2>3 DEF Consistent
  <2> QED BY <2>1, <2>2, <2>3, <2>4, StepKeepsInv DEF TypeOK
<1>5. CASE Allow(s)
  <2>1. LimiterTypeOK' /\ LimiterInv' /\ clock' = clock
    <3>1. TakeToken(clock) \/ FindNoToken(clock)
      BY <1>5 DEF Allow
    <3>2. clock' = clock
      BY <3>1 DEF TakeToken, FindNoToken
    <3> QED BY <1>1, <3>1, <3>2, TakeTokenKeepsInv, FindNoTokenKeepsInv
  <2>2. \E next : /\ Step(s, "take", next) /\ next \in Slot
                  /\ Consistent(next) /\ next.read <= clock
    <3>1. CASE Step(s, "take", Answers(s, "limited"))
      BY <3>1, NextSlots
    <3>2. CASE Step(s, "take", [Goes(s) EXCEPT !.read = 0])
      <4> DEFINE next == [Goes(s) EXCEPT !.read = 0]
      <4>1. slot[s].pc = "take"
        BY <3>2 DEF Step
      <4>2. /\ Goes(s) \in Slot /\ Goes(s).key = slot[s].key /\ Goes(s).status = "none"
            /\ Goes(s).endpoint = slot[s].endpoint
            /\ Goes(s).pc = After(slot[s].endpoint, "take")
        BY <4>1, NextSlots
      <4>3. next \in Slot /\ next.key = slot[s].key /\ next.endpoint = slot[s].endpoint
            /\ next.status = "none" /\ next.read = 0
        BY <1>3, <4>2 DEF Slot
      <4>4. Consistent(next) /\ next.read <= clock
        BY <1>2, <1>3, <4>1, <4>3 DEF Consistent
      <4> QED BY <3>2, <4>3, <4>4
    <3> QED BY <1>5, <3>1, <3>2 DEF Allow
  <2> QED BY <2>1, <2>2, StepKeepsInv DEF TypeOK
<1> QED BY <1>4, <1>5

LEMMA NextKeepsInv ==
    ASSUME TypeOK, LimiterInv, SlotInv, [Next]_vars
    PROVE  TypeOK' /\ LimiterInv' /\ SlotInv'
<1>1. LimiterTypeOK /\ clock \in Nat
  BY CapacityType DEF TypeOK, LimiterTypeOK, Times
<1>2. ASSUME NEW s \in Slots,
             \/ \E endpoint \in {"envelope", "store"}, key \in ExtractedKeys :
                   Arrive(s, endpoint, key)
             \/ \E dsn \in Keys : ReadBody(s, dsn)
             \/ ReadBodyFails(s) \/ CheckKey(s)
             \/ AuthenticateProjectKey(s) \/ AuthenticateFails(s) \/ ReadTime(s)
             \/ \E endpoint, parses : ParseBody(s, endpoint, parses)
      PROVE  TypeOK' /\ LimiterInv' /\ SlotInv'
  <2>1. /\ UNCHANGED limiterVars
        /\ slot' \in [Slots -> Slot] /\ SlotInv' /\ restarts' \in 0 .. MaxRestarts
    BY <1>2, BeforeLimiterKeepsInv
  <2>2. LimiterTypeOK' /\ LimiterInv'
    BY <1>1, <2>1, LimiterUnchangedKeepsInv
  <2> QED BY <2>1, <2>2 DEF TypeOK
<1>3. CASE Restart
  <2>1. LimiterTypeOK' /\ LimiterInv' /\ clock' = clock
    BY <1>1, <1>3, LoseBucketsKeepsInv DEF Restart, LoseBuckets
  <2>2. slot' = [s \in Slots |-> Free] /\ restarts' \in 0 .. MaxRestarts
    BY <1>3, RestartsAssumption DEF Restart, TypeOK
  <2>3. Free \in Slot /\ Consistent(Free) /\ Free.read <= clock
    BY <1>1, CapacityType DEF Free, Slot, Keys, Times, Consistent
  <2>4. SlotInv'
    BY <2>1, <2>2, <2>3 DEF SlotInv
  <2> QED BY <2>1, <2>2, <2>3, <2>4 DEF TypeOK
<1>4. CASE Tick
  <2>1. LimiterTypeOK' /\ LimiterInv'
    BY <1>1, <1>4, LimiterTickKeepsInv DEF Tick
  <2>2. slot' = slot /\ restarts' = restarts /\ clock' = clock + 1
    BY <1>4 DEF Tick, LimiterTick
  <2>3. \A s \in Slots : slot[s].read \in Nat
    BY CapacityType DEF TypeOK, Slot, Times
  <2>4. SlotInv'
    BY <1>1, <2>2, <2>3 DEF SlotInv
  <2> QED BY <2>1, <2>2, <2>4 DEF TypeOK
<1>5. CASE UNCHANGED vars
  <2>1. LimiterTypeOK' /\ LimiterInv'
    BY <1>1, <1>5, LimiterUnchangedKeepsInv DEF vars
  <2> QED BY <1>5, <2>1 DEF vars, limiterVars, TypeOK, SlotInv
<1> QED BY <1>2, <1>3, <1>4, <1>5, AtLimiterKeepsInv DEF Next

LEMMA InitCorrect == Init => TypeOK /\ LimiterInv /\ SlotInv
<1> SUFFICES ASSUME Init PROVE TypeOK /\ LimiterInv /\ SlotInv
  OBVIOUS
<1>1. LimiterTypeOK /\ LimiterInv /\ clock = 0
  BY LimiterInitCorrect DEF Init, LimiterInit
<1>2. Free \in Slot /\ Consistent(Free) /\ Free.read <= clock
  BY <1>1, CapacityType DEF Free, Slot, Keys, Times, Consistent
<1>3. restarts = 0 /\ 0 \in 0 .. MaxRestarts
  BY RestartsAssumption DEF Init
<1> QED BY <1>1, <1>2, <1>3 DEF Init, TypeOK, SlotInv

-----------------------------------------------------------------------------
(***************************************************************************)
(* The results.                                                            *)
(***************************************************************************)

\* The inductive invariant of the limiter and of the requests on their way
\* to it, which the results below follow from.
THEOREM ReceptionInvariant == Spec => [](TypeOK /\ LimiterInv /\ SlotInv)
<1>1. (TypeOK /\ LimiterInv /\ SlotInv) /\ [Next]_vars => (TypeOK /\ LimiterInv /\ SlotInv)'
  BY NextKeepsInv
<1> QED BY <1>1, InitCorrect, PTL DEF Spec

\* Every request and the bucket have the parts that the handlers and Allow
\* expect, with no negative number of tokens and never more than New allows.
THEOREM ReceptionTypeCorrect == Spec => []TypeOK
BY ReceptionInvariant, PTL

\* Between any two moments a project is let through at most a full bucket
\* per start of the process and the refill of the time that passed, however
\* many calls race in LoadOrStore and for the lock of Allow.
THEOREM BudgetIsKept == Spec => []WithinBudget
<1>1. TypeOK /\ LimiterInv => WithinBudget
  <2> SUFFICES ASSUME TypeOK, LimiterInv, NEW t \in Times, NEW s \in 0 .. t
               PROVE  Minute * GrantedIn(s, t) <= Capacity * BucketsIn(s, t) + PerMinute * (t - s)
    BY DEF WithinBudget
  <2>1. LimiterTypeOK /\ HistoriesAreTotals /\ Totals(granted) /\ Totals(filled)
    BY DEF TypeOK, LimiterInv, HistoriesAreTotals
  <2>2. PICK now \in Times : now = clock
    BY <2>1 DEF LimiterTypeOK
  <2>3. t \in Nat /\ now \in Nat /\ s \in Times
    BY <2>2, CapacityType DEF Times
  <2>4. CASE t <= now
    BY <2>2, <2>4 DEF LimiterInv, PastIsAccounted
  \* What is still to come has let nothing through.
  <2>5. CASE now < t /\ s <= now
    <3>1. granted[t] = granted[now] /\ filled[t] = filled[now]
      BY <2>1, <2>2, <2>3, <2>5 DEF Totals
    <3>2. GrantedIn(s, t) = GrantedIn(s, now) /\ BucketsIn(s, t) = BucketsIn(s, now)
      BY <3>1 DEF GrantedIn, BucketsIn
    <3>3. Minute * GrantedIn(s, now) <= Capacity * BucketsIn(s, now) + PerMinute * (now - s)
      BY <2>2, <2>3, <2>5 DEF LimiterInv, PastIsAccounted
    <3>4. PerMinute * (now - s) <= PerMinute * (t - s)
      BY <2>3, <2>5, CapacityType, TimesIsMonotone
    <3>5. /\ GrantedIn(s, now) \in Nat /\ BucketsIn(s, now) \in Nat
          /\ now - s \in Nat /\ t - s \in Nat
      BY <2>1, <2>3, <2>5, BetweenType
    <3>6. /\ Minute * GrantedIn(s, now) \in Nat /\ Capacity * BucketsIn(s, now) \in Nat
          /\ PerMinute * (now - s) \in Nat /\ PerMinute * (t - s) \in Nat
      BY <3>5, CapacityType
    <3> QED BY <3>2, <3>3, <3>4, <3>6
  <2>6. CASE now < s
    <3>1. s - 1 \in Times /\ s # 0
      BY <2>3, <2>6, CapacityType DEF Times
    <3>2. granted[t] = granted[now] /\ granted[s - 1] = granted[now] /\ granted[now] \in Nat
      BY <2>1, <2>2, <2>3, <2>6, <3>1 DEF Totals, LimiterTypeOK
    <3>3. GrantedIn(s, t) = 0
      BY <3>1, <3>2 DEF GrantedIn, Before
    <3>4. BucketsIn(s, t) \in Nat /\ t - s \in Nat
      BY <2>1, <2>3, BetweenType
    <3>5. Capacity * BucketsIn(s, t) \in Nat /\ PerMinute * (t - s) \in Nat
      BY <3>4, CapacityType
    <3> QED BY <3>3, <3>5, CapacityType
  <2> QED BY <2>3, <2>4, <2>5, <2>6
<1> QED BY <1>1, ReceptionInvariant, PTL

\* On either endpoint, only a request with a key of the project gets as far
\* as the limiter.
THEOREM StrangersSpendNothing == Spec => []OnlyKnownKeysSpend
<1>1. SlotInv => OnlyKnownKeysSpend
  BY DEF SlotInv, Consistent, OnlyKnownKeysSpend
<1> QED BY <1>1, ReceptionInvariant, PTL

\* When no token is found, all that a minute refills has been let through.
LEMMA NoTokenForAReason ==
    ASSUME LimiterTypeOK, LimiterInv, FindNoToken(clock)
    PROVE  RefusedForAReason
<1>1. PICK b \in bucket : Refilled(b, clock) < Minute
  BY DEF FindNoToken
<1>2. PICK now \in Times : now = clock
  BY DEF LimiterTypeOK
<1>3. now \in Nat
  BY <1>2, CapacityType DEF Times
<1>4. Uncapped(b, now) \in Nat /\ Uncapped(b, now) < Minute
  <2>1. /\ Uncapped(b, now) \in Nat
        /\ Refilled(b, now) = IF Capacity <= Uncapped(b, now) THEN Capacity ELSE Uncapped(b, now)
    BY <1>2, BucketType, RefilledIsCapped DEF LimiterInv
  <2> QED BY <1>1, <1>2, <2>1, CapacityType
<1> DEFINE s == IF now < Minute THEN 0 ELSE now - Minute
<1>5. s \in 0 .. now
  BY <1>3, CapacityType
<1>6. Uncapped(b, now) + Minute * GrantedIn(s, now) >= Capacity
  <2>1. CASE now < Minute
    BY <1>2, <2>1 DEF LimiterInv, NothingIsWasted
  <2>2. CASE ~(now < Minute)
    <3>1. PerMinute * (now - s) = Capacity
      BY <1>3, <2>2, CapacityType DEF Capacity
    <3> HIDE DEF s
    <3> QED BY <1>2, <1>5, <3>1 DEF LimiterInv, NothingIsWasted
  <2> QED BY <2>1, <2>2
<1> HIDE DEF s
<1>7. GrantedIn(s, now) \in Nat
  BY <1>5, BetweenType DEF LimiterInv
<1>8. GrantedIn(s, now) >= PerMinute
  <2>1. SUFFICES ASSUME GrantedIn(s, now) + 1 <= PerMinute PROVE FALSE
    BY <1>7, CapacityType
  <2>2. Minute * (GrantedIn(s, now) + 1) <= Minute * PerMinute
    BY <1>7, <2>1, CapacityType, TimesIsMonotone
  <2>3. Minute * (GrantedIn(s, now) + 1) = Minute * GrantedIn(s, now) + Minute
    BY <1>7, CapacityType, OneMoreTimes
  <2>4. Minute * PerMinute = Capacity
    BY CapacityType DEF Capacity
  <2>5. Minute * GrantedIn(s, now) \in Nat
    BY <1>7, CapacityType
  <2> QED BY <1>4, <1>6, <2>2, <2>3, <2>4, <2>5, CapacityType
<1> QED BY <1>2, <1>8 DEF RefusedForAReason, s

\* A request is answered 429 only if PerMinute others were let through in
\* the minute before, however the calls of Allow interleave.
THEOREM LimitedForAReason == Spec => NeverLimitedWithoutReason
<1> DEFINE LimitedStep == \A s \in Slots : slot[s].pc = "take" /\ slot'[s].status = "limited"
                              => RefusedForAReason
<1>1. TypeOK /\ LimiterInv /\ SlotInv /\ [Next]_vars => [LimitedStep]_vars
  <2> SUFFICES ASSUME TypeOK, LimiterInv, SlotInv, Next, NEW t \in Slots,
                      slot[t].pc = "take", slot'[t].status = "limited"
               PROVE  RefusedForAReason
    OBVIOUS
  <2>1. slot[t].status = "none" /\ slot \in [Slots -> Slot] /\ LimiterTypeOK
    BY DEF SlotInv, Consistent, TypeOK
  <2>2. slot'[t] # slot[t]
    BY <2>1
  <2>3. slot' # [s \in Slots |-> Free]
    <3>1. Free.status # "limited"
      BY DEF Free
    <3> QED BY <3>1
  <2>4. \A s \in Slots : \A pc, next : Step(s, pc, next) => pc = "take" /\ s = t
    BY <2>1, <2>2 DEF Step
  <2>5. PICK s \in Slots : Allow(s)
    <3>1. ~Restart /\ ~Tick
      BY <2>2, <2>3 DEF Restart, Tick
    <3>2. ASSUME NEW s \in Slots
          PROVE  /\ ~ReadBodyFails(s) /\ ~CheckKey(s) /\ ~AuthenticateProjectKey(s)
                 /\ ~AuthenticateFails(s) /\ ~ReadTime(s) /\ ~LoadOrStore(s)
                 /\ \A endpoint, key : ~Arrive(s, endpoint, key)
                 /\ \A dsn : ~ReadBody(s, dsn)
                 /\ \A endpoint, parses : ~ParseBody(s, endpoint, parses)
      <4>1. \A next : /\ ~Step(s, "idle", next) /\ ~Step(s, "body", next) /\ ~Step(s, "key", next)
                      /\ ~Step(s, "authenticate", next) /\ ~Step(s, "load", next)
                      /\ ~Step(s, "parse", next)
        BY <2>4
      <4> QED BY <4>1, Zenon
              DEF ReadBodyFails, CheckKey, AuthenticateProjectKey, AuthenticateFails, ReadTime,
                  LoadOrStore, Arrive, ReadBody, ParseBody
    <3> QED BY <3>1, <3>2 DEF Next
  <2>6. CASE Step(s, "take", [Goes(s) EXCEPT !.read = 0])
    <3>1. s = t /\ slot' = [slot EXCEPT ![t] = [Goes(t) EXCEPT !.read = 0]]
      BY <2>4, <2>6 DEF Step
    <3>2. slot'[t] = [Goes(t) EXCEPT !.read = 0]
      BY <2>1, <3>1
    <3>3. Goes(t) \in Slot /\ Goes(t).status = "none"
      BY NextSlots
    <3>4. slot'[t].status = "none"
      BY <3>2, <3>3 DEF Slot
    <3> QED BY <3>4
  <2>7. CASE FindNoToken(clock)
    BY <2>1, <2>7, NoTokenForAReason
  <2> QED BY <2>5, <2>6, <2>7 DEF Allow
<1> QED BY <1>1, ReceptionInvariant, PTL DEF Spec, NeverLimitedWithoutReason

\* Whichever events clients send, those that are accepted become one issue if
\* and only if they have the same fingerprint or, without any, the same first
\* exception (or message, where there is none), place and platform.
THEOREM IssuesAreProblems == Spec => []EventsAreGroupedByIdentity
<1>1. EventsAreGroupedByIdentity
  BY GroupedByIdentity, EventsAssumption
     DEF EventsAreGroupedByIdentity, AllEventsAreGroupedAlike
<1> QED BY <1>1, PTL

\* Every envelope that clients write arrives whole or cut, but not torn, and at
\* any limit on the body.
THEOREM EnvelopesArrive == Spec => []EnvelopesArriveWholeOrCut
<1>1. ASSUME NEW e \in Envelopes PROVE ArrivesWholeOrCut("", e.items, e.ending)
  <2>1. /\ e.items \in Seq(Item) /\ e.ending \in Seq({NL}) /\ Writable(e.items)
    BY EnvelopesAssumption
  <2> DEFINE items == e.items
             ending == e.ending
             dsn == ""
  <2>2. items \in Seq(Item) /\ ending \in Seq({NL}) /\ Writable(items)
    BY <2>1
  <2> HIDE DEF items, ending, dsn
  <2>3. ArrivesWholeOrCut(dsn, items, ending)
    BY <2>2, EnvelopeArrives
  <2> QED BY <2>3 DEF items, ending, dsn
<1>2. EnvelopesArriveWholeOrCut
  BY <1>1 DEF EnvelopesArriveWholeOrCut, EveryEnvelopeArrives
<1> QED BY <1>2, PTL
=============================================================================
