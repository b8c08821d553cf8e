------------------------------- MODULE Cache -------------------------------
(***************************************************************************)
(* The in-process cache every request of a workspace passes through:       *)
(* platform/cache between the middleware of package httpapi and the host   *)
(* lookup of package tenant.                                               *)
(*                                                                         *)
(* A caller looks, and on a miss joins the flight of its key or leads one. *)
(* The leader looks again, loads with its own request's context, stores    *)
(* what it got, an error included, and hands it to all who waited.  Time   *)
(* passes in ticks, and the time a caller leaves is its client's choice.   *)
(***************************************************************************)
EXTENDS Integers, FiniteSets

CONSTANTS
    Keys,         \* hosts
    Callers,      \* requests in flight at one moment
    Found,        \* what the database may answer for a host that it knows
    MaxEntries,   \* the bound on entries
    TTL,          \* how long an answer is kept
    NegativeTTL,  \* how long an error is kept
    Slowest,      \* ticks a load takes, at most, once the database has read
    MaxTime       \* the bound on the clock

NotFound  == "missing"    \* ErrNotFound: the truth of a host nobody registered
Failed    == "failed"     \* the query failed
QueryCancelled == "cancelled"  \* the query's context was cancelled

ASSUME CacheAssumption ==
    /\ IsFiniteSet(Keys)
    /\ Found # {} /\ Found \cap {NotFound, Failed, QueryCancelled} = {}
    /\ MaxEntries \in Nat \ {0}
    /\ TTL \in Nat \ {0} /\ NegativeTTL \in Nat /\ Slowest \in Nat
    /\ MaxTime \in Nat

VARIABLES
    now,      \* the clock
    truth,    \* what the database would answer for each host
    lastTrue, \* when each answer was last the truth of each host
    entries,  \* the cache's map
    flight,   \* the load under way for each host
    caller    \* the requests

cacheVars == <<now, truth, lastTrue, entries, flight, caller>>

Truths  == Found \cup {NotFound}
CacheAnswers == Truths \cup {Failed, QueryCancelled}
Times   == 0 .. MaxTime
Never   == 0 - (TTL + NegativeTTL + Slowest + 1)

NotHeld == [answer |-> "none"]
CacheEntries == {NotHeld} \cup [answer: CacheAnswers, expires: Nat]
NoFlight == [at |-> "none"]
Flights  == {NoFlight}
    \cup [at: {"check", "load"}, leader: Callers]
    \cup [at: {"store", "deliver"}, leader: Callers, answer: CacheAnswers, read: Times]
NotAsking == [at |-> "idle"]
CallerStates == {NotAsking}
    \cup [at: {"missed", "waiting"}, key: Keys, gone: BOOLEAN]
    \cup [at: {"done"}, key: Keys, gone: BOOLEAN, answer: CacheAnswers, when: Times]

CacheTypeOK ==
    /\ now \in Times
    /\ truth \in [Keys -> Truths]
    /\ lastTrue \in [Keys -> [Truths -> Times \cup {Never}]]
    /\ entries \in [Keys -> CacheEntries]
    /\ flight \in [Keys -> Flights]
    /\ caller \in [Callers -> CallerStates]

CacheInit ==
    /\ now = 0
    /\ truth \in [Keys -> Truths]
    /\ lastTrue = [k \in Keys |-> [v \in Truths |-> IF v = truth[k] THEN 0 ELSE Never]]
    /\ entries = [k \in Keys |-> NotHeld]
    /\ flight = [k \in Keys |-> NoFlight]
    /\ caller = [c \in Callers |-> NotAsking]

Fresh(k) == entries[k] # NotHeld /\ now <= entries[k].expires
InCache  == {k \in Keys : entries[k] # NotHeld}

-----------------------------------------------------------------------------
(* A request asks for a host. *)

(* Mutant: an error reaches those who waited as a value of nothing. *)
GivenZero(c, answer) ==
    [at |-> "done", key |-> caller[c].key, gone |-> caller[c].gone,
     answer |-> IF answer \in {Failed, QueryCancelled} THEN NotHeld.answer ELSE answer,
     when |-> now]

Given(c, answer) ==
    [at |-> "done", key |-> caller[c].key, gone |-> caller[c].gone,
     answer |-> answer, when |-> now]

Look(c, k) ==
    /\ caller[c] = NotAsking
    /\ caller' = [caller EXCEPT ![c] =
         IF Fresh(k)
         THEN [at |-> "done", key |-> k, gone |-> FALSE,
               answer |-> entries[k].answer, when |-> now]
         ELSE [at |-> "missed", key |-> k, gone |-> FALSE]]
    /\ UNCHANGED <<now, truth, lastTrue, entries, flight>>

Join(c) ==
    LET k == caller[c].key IN
    /\ caller[c].at = "missed"
    /\ flight' = IF flight[k] = NoFlight
                 THEN [flight EXCEPT ![k] = [at |-> "check", leader |-> c]]
                 ELSE flight
    /\ caller' = [caller EXCEPT ![c].at = "waiting"]
    /\ UNCHANGED <<now, truth, lastTrue, entries>>

TakeAnswer(c) ==
    /\ caller[c].at = "done"
    /\ caller' = [caller EXCEPT ![c] = NotAsking]
    /\ UNCHANGED <<now, truth, lastTrue, entries, flight>>

(* The client hangs up.  Nobody in the flight notices; a load of this
   request's does.                                                          *)
HangUp(c) ==
    /\ caller[c].at \in {"missed", "waiting"} /\ ~caller[c].gone
    /\ caller' = [caller EXCEPT ![c].gone = TRUE]
    /\ UNCHANGED <<now, truth, lastTrue, entries, flight>>

-----------------------------------------------------------------------------
(* The flight of a host. *)

(* All who wait get the one answer, and the flight is over. *)
Land(k, answer) ==
    /\ caller' = [c \in Callers |->
                    IF caller[c].at = "waiting" /\ caller[c].key = k
                    THEN Given(c, answer) ELSE caller[c]]
    /\ flight' = [flight EXCEPT ![k] = NoFlight]

(* Mutant: the leader does not look again. *)
CheckNothing(k) ==
    /\ flight[k].at = "check"
    /\ flight' = [flight EXCEPT ![k].at = "load"]
    /\ UNCHANGED <<now, truth, lastTrue, entries, caller>>

Check(k) ==
    /\ flight[k].at = "check"
    /\ IF Fresh(k)
       THEN Land(k, entries[k].answer)
       ELSE /\ flight' = [flight EXCEPT ![k].at = "load"]
            /\ UNCHANGED caller
    /\ UNCHANGED <<now, truth, lastTrue, entries>>

Loaded(k, answer) ==
    [at |-> "store", leader |-> flight[k].leader, answer |-> answer, read |-> now]

Load(k) ==
    /\ flight[k].at = "load"
    /\ \/ /\ ~caller[flight[k].leader].gone
          /\ \E answer \in {truth[k], Failed} :
                flight' = [flight EXCEPT ![k] = Loaded(k, answer)]
       \/ /\ caller[flight[k].leader].gone
          /\ flight' = [flight EXCEPT ![k] = Loaded(k, QueryCancelled)]
    /\ UNCHANGED <<now, truth, lastTrue, entries, caller>>

Life(answer) == IF answer \in Found THEN TTL ELSE NegativeTTL

(* Mutant: only what has expired makes room. *)
RoomOfExpired ==
    IF Cardinality(InCache) < MaxEntries THEN entries
    ELSE [k \in Keys |-> IF Fresh(k) THEN entries[k] ELSE NotHeld]

Room ==
    LET live == {k \in Keys : Fresh(k)} IN
    IF Cardinality(InCache) < MaxEntries THEN entries
    ELSE IF Cardinality(live) < MaxEntries
    THEN [k \in Keys |-> IF k \in live THEN entries[k] ELSE NotHeld]
    ELSE [k \in Keys |-> NotHeld]

(* Mutant: "not found" is kept as long as what was found. *)
StoreForTTL(k) ==
    /\ flight[k].at = "store"
    /\ entries' = [Room EXCEPT ![k] = [answer |-> flight[k].answer, expires |-> now + TTL]]
    /\ flight' = [flight EXCEPT ![k].at = "deliver"]
    /\ UNCHANGED <<now, truth, lastTrue, caller>>

Store(k) ==
    /\ flight[k].at = "store"
    /\ entries' = [Room EXCEPT ![k] =
         [answer |-> flight[k].answer, expires |-> now + Life(flight[k].answer)]]
    /\ flight' = [flight EXCEPT ![k].at = "deliver"]
    /\ UNCHANGED <<now, truth, lastTrue, caller>>

(* Mutant: the answer reaches the leader only. *)
HandToLeader(k) ==
    /\ flight[k].at = "deliver"
    /\ caller' = [caller EXCEPT ![flight[k].leader] = Given(flight[k].leader, flight[k].answer)]
    /\ flight' = [flight EXCEPT ![k] = NoFlight]
    /\ UNCHANGED <<now, truth, lastTrue, entries>>

HandOver(k) ==
    /\ flight[k].at = "deliver"
    /\ Land(k, flight[k].answer)
    /\ UNCHANGED <<now, truth, lastTrue, entries>>

-----------------------------------------------------------------------------
(* The world around it. *)

(* A host is registered, changed or given up in the database. *)
Change(k, answer) ==
    /\ truth' = [truth EXCEPT ![k] = answer]
    /\ lastTrue' = [lastTrue EXCEPT ![k][answer] = now]
    /\ UNCHANGED <<now, entries, flight, caller>>

Invalidate(k) ==
    /\ entries' = [entries EXCEPT ![k] = NotHeld]
    /\ UNCHANGED <<now, truth, lastTrue, flight, caller>>

(* A load that has its answer is stored and delivered within Slowest. *)
Tick ==
    /\ now < MaxTime
    /\ \A k \in Keys : flight[k].at \in {"store", "deliver"} =>
                           now < flight[k].read + Slowest
    /\ now' = now + 1
    /\ lastTrue' = [k \in Keys |-> [lastTrue[k] EXCEPT ![truth[k]] = now + 1]]
    /\ UNCHANGED <<truth, entries, flight, caller>>

-----------------------------------------------------------------------------
CacheNext ==
    \/ \E c \in Callers :
          \/ \E k \in Keys : Look(c, k)
          \/ Join(c) \/ TakeAnswer(c) \/ HangUp(c)
    \/ \E k \in Keys :
          \/ Check(k) \/ Load(k) \/ Store(k) \/ HandOver(k)
          \/ \E answer \in Truths : Change(k, answer)
          \/ Invalidate(k)
    \/ Tick

CacheSpec == CacheInit /\ [][CacheNext]_cacheVars

-----------------------------------------------------------------------------
(* The database is asked only for what the cache does not hold: callers that
   miss together, or just after a flight has landed, cost one query.        *)
LoadsAreNeeded ==
    \A k \in Keys : flight[k].at \in {"load", "store"} => ~Fresh(k)

(* The map does not outgrow its bound, whatever is stored into it at once. *)
SizeIsBounded == Cardinality(InCache) <= MaxEntries

(* What a caller is told of a host was the truth within the time the cache may
   keep it, and the time a load may take: a host just registered is not
   refused for longer than NegativeTTL allows.                              *)
AnswersAreRecent ==
    \A c \in Callers :
        caller[c].at = "done" /\ caller[c].answer \in Truths =>
            caller[c].when <=
                lastTrue[caller[c].key][caller[c].answer] + Life(caller[c].answer) + Slowest

(* Nobody waits for a flight that is over: a caller that missed while a flight
   was landing is given its answer or leads the next one.                   *)
WaitersHaveFlight ==
    \A c \in Callers : caller[c].at = "waiting" => flight[caller[c].key] # NoFlight

(* A caller whose own client is still there is not answered with another
   client's hanging up.                                                     *)
OwnCancelOnly ==
    \A c \in Callers :
        caller[c].at = "done" /\ caller[c].answer = QueryCancelled => caller[c].gone
=============================================================================
