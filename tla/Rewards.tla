------------------------------ MODULE Rewards ------------------------------
(***************************************************************************)
(* One learner's points and badges: package gamify, called in the          *)
(* transaction that finishes a lesson and then, perhaps, a course.         *)
(*                                                                         *)
(* Every statement sees what was committed when it began, and its own      *)
(* transaction's writes.  The index of point_awards makes a second insert  *)
(* of one award wait for the first; the row of user_points is locked from  *)
(* the first addition to the end.                                          *)
(***************************************************************************)
EXTENDS Naturals, FiniteSets

CONSTANTS
    Passed,            \* lessons the learner may finish
    Finished,          \* courses the learner may finish
    HonorRollCourses,  \* how many courses the honour roll takes
    Givers             \* lesson requests of the learner at one moment

ASSUME RewardAssumption ==
    /\ IsFiniteSet(Passed) /\ IsFiniteSet(Finished) /\ Passed \cap Finished = {}
    /\ HonorRollCourses \in Nat \ {0}

VARIABLES
    rewarded,  \* the rows of point_awards: what each was given for
    points,  \* the row of user_points; none is 0
    badges,  \* the rows of user_badges
    giving   \* the transactions in flight

rewardsVars == <<rewarded, points, badges, giving>>

Sourced == Passed \cup Finished
Badges  == {"first_lesson", "graduate", "honor_roll"}
Worth(source) == IF source \in Passed THEN 10 ELSE 100

(* What a transaction has inserted, added and granted so far; last is what it
   was called about last.                                                   *)
Gifts == [at: {"idle", "add", "count", "open"}, last: SUBSET Sourced,
          new: SUBSET Sourced, added: Nat, granted: SUBSET Badges]

NoGift == [at |-> "idle", last |-> {}, new |-> {}, added |-> 0, granted |-> {}]

RewardsTypeOK ==
    /\ rewarded \subseteq Sourced
    /\ points \in Nat
    /\ badges \subseteq Badges
    /\ giving \in [Givers -> Gifts]

RewardsInit ==
    /\ rewarded = {} /\ points = 0 /\ badges = {}
    /\ giving = [g \in Givers |-> NoGift]

-----------------------------------------------------------------------------
(* A lesson comes first in its transaction, the course it completes second. *)
MayGive(g, source) ==
    \/ giving[g].at = "idle" /\ source \in Passed
    \/ giving[g].at = "open" /\ giving[g].last \subseteq Passed /\ source \in Finished

(* INSERT ... ON CONFLICT DO NOTHING: an award already there ends the matter,
   one that somebody is inserting is waited for.                            *)
InsertAward(g, source) ==
    /\ MayGive(g, source)
    /\ \A h \in Givers : source \notin giving[h].new
    /\ giving' =
        [giving EXCEPT ![g].last = {source},
                       ![g].at = IF source \in rewarded THEN "open" ELSE "add",
                       ![g].new = @ \cup ({source} \ rewarded)]
    /\ UNCHANGED <<rewarded, points, badges>>

Holds(g) == giving[g].added > 0

(* Mutant: the total is added to without its row being kept. *)
AddUnlocked(g) ==
    /\ giving[g].at = "add"
    /\ \E source \in giving[g].last :
        giving' = [giving EXCEPT ![g].at = "count", ![g].added = @ + Worth(source)]
    /\ UNCHANGED <<rewarded, points, badges>>

AddPoints(g) ==
    /\ giving[g].at = "add"
    /\ \A h \in Givers \ {g} : ~Holds(h)
    /\ \E source \in giving[g].last :
        giving' = [giving EXCEPT ![g].at = "count", ![g].added = @ + Worth(source)]
    /\ UNCHANGED <<rewarded, points, badges>>

(* CountAwards, as the transaction sees them, and the badges of that count. *)
CountAwards(g, reason) == Cardinality((rewarded \cup giving[g].new) \cap reason)

LessonBadges(count) == IF count = 1 THEN {"first_lesson"} ELSE {}

CourseBadges(count) ==
    (IF count = 1 THEN {"graduate"} ELSE {})
        \cup (IF count >= HonorRollCourses THEN {"honor_roll"} ELSE {})

GrantBadge(g) ==
    /\ giving[g].at = "count"
    /\ giving' =
        [giving EXCEPT
            ![g].at = "open",
            ![g].granted = @ \cup IF giving[g].last \subseteq Passed
                                  THEN LessonBadges(CountAwards(g, Passed))
                                  ELSE CourseBadges(CountAwards(g, Finished))]
    /\ UNCHANGED <<rewarded, points, badges>>

CommitGift(g) ==
    /\ giving[g].at = "open"
    /\ rewarded' = rewarded \cup giving[g].new
    /\ points' = points + giving[g].added
    /\ badges' = badges \cup giving[g].granted
    /\ giving' = [giving EXCEPT ![g] = NoGift]

AbortGift(g) ==
    /\ giving[g].at # "idle"
    /\ giving' = [giving EXCEPT ![g] = NoGift]
    /\ UNCHANGED <<rewarded, points, badges>>

-----------------------------------------------------------------------------
RewardsNext ==
    \E g \in Givers :
        \/ \E source \in Sourced : InsertAward(g, source)
        \/ AddPoints(g) \/ GrantBadge(g) \/ CommitGift(g) \/ AbortGift(g)

RewardsSpec == RewardsInit /\ [][RewardsNext]_rewardsVars

-----------------------------------------------------------------------------
Earned(given) ==
    LET lessons == Cardinality(given \cap Passed)
        courses == Cardinality(given \cap Finished)
    IN  (IF lessons >= 1 THEN {"first_lesson"} ELSE {})
            \cup (IF courses >= 1 THEN {"graduate"} ELSE {})
            \cup (IF courses >= HonorRollCourses THEN {"honor_roll"} ELSE {})

(* The total and the badges are those the awards earn, whatever requests of
   the learner race or fail: the badge of the first and of the fifth is not
   missed because two requests counted without each other.                  *)
StandingIsEarned ==
    /\ badges = Earned(rewarded)
    /\ points = 10 * Cardinality(rewarded \cap Passed)
                    + 100 * Cardinality(rewarded \cap Finished)
=============================================================================
