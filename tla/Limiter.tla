------------------------------ MODULE Limiter ------------------------------
(***************************************************************************)
(* The token bucket of internal/ratelimit.  Project "1" is the only one    *)
(* that can exist (see IssueTables), so the map holds one bucket or none;  *)
(* it is lost when the process restarts.                                   *)
(*                                                                         *)
(* Tokens are counted in parts of 1/Minute, so that a second refills a     *)
(* whole number of them.  The rounding of float64 is left out.             *)
(***************************************************************************)
EXTENDS Integers, FiniteSetsExt

CONSTANTS PerMinute,      \* New's eventsPerMinute
          Minute,         \* seconds in a minute
          MaxClock        \* bound: seconds that pass

VARIABLES clock,          \* time.Now()
          bucket,         \* {} or {the bucket of the project}
          granted,        \* history: calls let through until each time
          filled          \* history: full buckets put in the map until each time

limiterVars == <<clock, bucket, granted, filled>>

ASSUME RateAssumption == PerMinute \in Nat \ {0} /\ Minute \in Nat \ {0} /\ MaxClock \in Nat

Times == 0 .. MaxClock

Capacity == PerMinute * Minute

LimiterTypeOK ==
    /\ clock \in Times
    /\ bucket \subseteq [tokens : 0 .. Capacity, last : Times]
    /\ Cardinality(bucket) <= 1
    /\ granted \in [Times -> Nat]
    /\ filled \in [Times -> Nat]

LimiterInit ==
    /\ clock = 0
    /\ bucket = {}
    /\ granted = [t \in Times |-> 0]
    /\ filled = [t \in Times |-> 0]

\* A history of how many there were until each time, with one more now.
OneMore(history) ==
    [t \in Times |-> IF t < clock THEN history[t] ELSE history[t] + 1]

(***************************************************************************)
(* Allow: LoadOrStore, given a bucket that was filled at a time read just  *)
(* before, and then one step under the bucket's lock.                      *)
(***************************************************************************)
LoadBucket ==
    /\ bucket # {}
    /\ UNCHANGED limiterVars

StoreBucket(read) ==
    /\ bucket = {}
    /\ bucket' = {[tokens |-> Capacity, last |-> read]}
    /\ filled' = OneMore(filled)
    /\ UNCHANGED <<clock, granted>>

\* The tokens of bucket b at time now.  (Mutant: no cap.)
RefilledUncapped(b, now) == b.tokens + (now - b.last) * PerMinute
Refilled(b, now) == Min({Capacity, b.tokens + (now - b.last) * PerMinute})

\* One token is taken, or none is there; both leave the time behind.
TakeToken(now) ==
    \E b \in bucket :
        /\ Refilled(b, now) >= Minute
        /\ bucket' = {[tokens |-> Refilled(b, now) - Minute, last |-> now]}
        /\ granted' = OneMore(granted)
        /\ UNCHANGED <<clock, filled>>

FindNoToken(now) ==
    \E b \in bucket :
        /\ Refilled(b, now) < Minute
        /\ bucket' = {[tokens |-> Refilled(b, now), last |-> now]}
        /\ UNCHANGED <<clock, granted, filled>>

LoseBuckets ==
    /\ bucket' = {}
    /\ UNCHANGED <<clock, granted, filled>>

LimiterTick ==
    /\ clock < MaxClock
    /\ clock' = clock + 1
    /\ UNCHANGED <<bucket, granted, filled>>

(***************************************************************************)
(* Properties.                                                             *)
(***************************************************************************)

Before(history, s) == IF s = 0 THEN 0 ELSE history[s - 1]

GrantedIn(s, t) == granted[t] - Before(granted, s)

\* The full buckets that calls between s and t may have used: those put in
\* the map meanwhile, and one that was there before.
BucketsIn(s, t) ==
    filled[t] - Before(filled, s) + IF Before(filled, s) > 0 THEN 1 ELSE 0

\* Between any two moments, however calls race for the lock and for the
\* first bucket, a project is let through at most a full bucket per start
\* of the process and the refill of the time that passed.
WithinBudget ==
    \A t \in Times : \A s \in 0 .. t :
        Minute * GrantedIn(s, t) <= Capacity * BucketsIn(s, t) + PerMinute * (t - s)

\* The other direction, of a call that is refused: PerMinute others have
\* been let through in the last minute.
RefusedForAReason ==
    GrantedIn(IF clock < Minute THEN 0 ELSE clock - Minute, clock) >= PerMinute
=============================================================================
