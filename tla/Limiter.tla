------------------------------ MODULE Limiter ------------------------------
(***************************************************************************)
(* The token buckets of platform/ratelimit, which the middleware throttle  *)
(* of package httpapi asks before every request that checks a credential   *)
(* or sends mail.                                                          *)
(*                                                                         *)
(* A request reads the clock before it takes the mutex, so requests may    *)
(* come to the buckets in another order than their times, and a bucket may *)
(* see time go back.  Tokens are counted in the ticks it takes to earn     *)
(* them: one token is Every of them.  Time in ticks stands for the         *)
(* floating-point seconds of the code.                                     *)
(***************************************************************************)
EXTENDS Integers, FiniteSets

CONSTANTS
    Addresses, \* client addresses with paths
    Askers,    \* requests at the limiter at one moment
    Burst,     \* tokens in a full bucket
    Every,     \* ticks that earn a token
    MaxKeys,   \* the bound on buckets
    LastTick   \* the bound on the clock

ASSUME LimiterAssumption ==
    /\ IsFiniteSet(Addresses)
    /\ Burst \in Nat \ {0} /\ Every \in Nat \ {0} /\ MaxKeys \in Nat \ {0}
    /\ LastTick \in Nat

VARIABLES
    clock,      \* the time
    asker,      \* the requests, each with the time it read
    bucket,     \* the limiter's map
    lastPurge,  \* when full buckets were last dropped
    granted,    \* requests each bucket has let through
    promised    \* when a refused client was told to try again

limiterVars == <<clock, asker, bucket, lastPurge, granted, promised>>

Full  == Burst * Every
Sweep == Every * Burst * 2

NoBucket == [last |-> -1]
NoAsk    == [at |-> "idle"]
NoTime   == -1
Instants == 0 .. LastTick

Buckets == {NoBucket} \cup [last: Instants, born: Instants, tokens: Int]

LimiterTypeOK ==
    /\ clock \in Instants
    /\ asker \in [Askers -> {NoAsk} \cup [at: {"asking"}, key: Addresses, now: Instants]]
    /\ bucket \in [Addresses -> Buckets]
    /\ lastPurge \in Int
    /\ granted \in [Addresses -> Nat]
    /\ promised \in [Addresses -> Int]

(* The first request finds the last purge at the zero of time. *)
LimiterInit ==
    /\ clock = 0
    /\ asker = [a \in Askers |-> NoAsk]
    /\ bucket = [k \in Addresses |-> NoBucket]
    /\ lastPurge = 0 - Sweep
    /\ granted = [k \in Addresses |-> 0]
    /\ promised = [k \in Addresses |-> NoTime]

Tracked(buckets) == {k \in Addresses : buckets[k] # NoBucket}

-----------------------------------------------------------------------------
Earned(b, now) == b.tokens + (now - b.last)
Refilled(b, now) == IF Earned(b, now) < Full THEN Earned(b, now) ELSE Full

(* The buckets that have had the time to fill go; if that is not enough, all. *)
Spared(now) ==
    [k \in Addresses |-> IF bucket[k] # NoBucket /\ Earned(bucket[k], now) >= Full
                    THEN NoBucket ELSE bucket[k]]

(* Mutant: only the full buckets go. *)
PurgedOfFull(now) ==
    IF now - lastPurge < Sweep /\ Cardinality(Tracked(bucket)) < MaxKeys
    THEN bucket ELSE Spared(now)

Purged(now) ==
    IF now - lastPurge < Sweep /\ Cardinality(Tracked(bucket)) < MaxKeys THEN bucket
    ELSE IF Cardinality(Tracked(Spared(now))) >= MaxKeys
         THEN [k \in Addresses |-> NoBucket] ELSE Spared(now)

PurgedAt(now) ==
    IF now - lastPurge < Sweep /\ Cardinality(Tracked(bucket)) < MaxKeys
    THEN lastPurge ELSE now

Arrive(a, k) ==
    /\ asker[a] = NoAsk
    /\ asker' = [asker EXCEPT ![a] = [at |-> "asking", key |-> k, now |-> clock]]
    /\ UNCHANGED <<clock, bucket, lastPurge, granted, promised>>

Forgotten(history, buckets, value) ==
    [k \in Addresses |-> IF buckets[k] = NoBucket THEN value ELSE history[k]]

(* A key that has no bucket is let through, and starts one. *)
AdmitNew(k, now, buckets) ==
    /\ buckets[k] = NoBucket
    /\ bucket' = [buckets EXCEPT ![k] =
         [last |-> now, born |-> now, tokens |-> Full - Every]]
    /\ granted' = [Forgotten(granted, buckets, 0) EXCEPT ![k] = 1]
    /\ promised' = Forgotten(promised, buckets, NoTime)

Take(k, now, buckets) ==
    /\ buckets[k] # NoBucket
    /\ Refilled(buckets[k], now) >= Every
    /\ bucket' = [buckets EXCEPT ![k].last = now,
                                 ![k].tokens = Refilled(buckets[k], now) - Every]
    /\ granted' = [Forgotten(granted, buckets, 0) EXCEPT ![k] = @ + 1]
    /\ promised' = [Forgotten(promised, buckets, NoTime) EXCEPT ![k] = NoTime]

(* Mutant: a refusal keeps what it earned and forgets when. *)
RefuseKeepingTime(k, now, buckets) ==
    /\ buckets[k] # NoBucket
    /\ Refilled(buckets[k], now) < Every
    /\ bucket' = [buckets EXCEPT ![k].tokens = Refilled(buckets[k], now)]
    /\ granted' = Forgotten(granted, buckets, 0)
    /\ promised' = [Forgotten(promised, buckets, NoTime) EXCEPT ![k] =
         now + (Every - Refilled(buckets[k], now))]

(* Mutant: the wait is rounded down. *)
RefuseToldEarly(k, now, buckets) ==
    /\ buckets[k] # NoBucket
    /\ Refilled(buckets[k], now) < Every
    /\ bucket' = [buckets EXCEPT ![k].last = now,
                                 ![k].tokens = Refilled(buckets[k], now)]
    /\ granted' = Forgotten(granted, buckets, 0)
    /\ promised' = [Forgotten(promised, buckets, NoTime) EXCEPT ![k] =
         now + (Every - Refilled(buckets[k], now)) - 1]

Refuse(k, now, buckets) ==
    /\ buckets[k] # NoBucket
    /\ Refilled(buckets[k], now) < Every
    /\ bucket' = [buckets EXCEPT ![k].last = now,
                                 ![k].tokens = Refilled(buckets[k], now)]
    /\ granted' = Forgotten(granted, buckets, 0)
    /\ promised' = [Forgotten(promised, buckets, NoTime) EXCEPT ![k] =
         now + (Every - Refilled(buckets[k], now))]

Allow(a) ==
    LET k == asker[a].key  now == asker[a].now IN
    /\ asker[a] # NoAsk
    /\ \/ AdmitNew(k, now, Purged(now))
       \/ Take(k, now, Purged(now))
       \/ Refuse(k, now, Purged(now))
    /\ lastPurge' = PurgedAt(now)
    /\ asker' = [asker EXCEPT ![a] = NoAsk]
    /\ UNCHANGED clock

TickLimiter ==
    /\ clock < LastTick
    /\ clock' = clock + 1
    /\ UNCHANGED <<asker, bucket, lastPurge, granted, promised>>

LimiterNext ==
    \/ \E a \in Askers, k \in Addresses : Arrive(a, k)
    \/ \E a \in Askers : Allow(a)
    \/ TickLimiter

LimiterSpec == LimiterInit /\ [][LimiterNext]_limiterVars

-----------------------------------------------------------------------------
(* From the request that started its bucket a client gets Burst requests
   and one more for every Every that has passed, in whatever order the
   requests that raced for the mutex had read the clock.                    *)
WithinBudget == \A k \in Tracked(bucket) :
    granted[k] * Every <= Full + (clock - bucket[k].born)

(* The map is at most MaxKeys buckets, however many addresses come by. *)
MapIsBounded == Cardinality(Tracked(bucket)) <= MaxKeys

(* The Retry-After of a refusal is long enough: a client that keeps to it
   finds a token, unless another request with its key took one first, and
   whatever refusals and purges come between.                               *)
RetryIsHonoured == \A k \in Tracked(bucket) : promised[k] # NoTime =>
    Earned(bucket[k], promised[k]) >= Every
=============================================================================
