------------------------------ MODULE Progress ------------------------------
(***************************************************************************)
(* One learner's progress through one course: package enroll's lesson      *)
(* completion, at READ COMMITTED.                                          *)
(*                                                                         *)
(* Completing a lesson is one transaction: decide that the learner may,    *)
(* mark the lesson, award it, count the course, and write the roll-up with *)
(* the status and the certificate that follow from it.  Each statement     *)
(* sees what was committed when it began, and its own transaction's        *)
(* writes.  The mark locks its lesson's row until the transaction ends,    *)
(* and so does a first award the learner's row of points: two lessons      *)
(* finished for the first time take turns, two reopened or finished again  *)
(* do not.  The roll-up is written under the lock of its own row, and what *)
(* is written after it up to the commit is one step here, since nobody     *)
(* can see it before.                                                      *)
(*                                                                         *)
(* Whether the course is published and whether a lesson's date has come    *)
(* are the catalogue's and the clock's to say: Decide may not happen.      *)
(***************************************************************************)
EXTENDS EnrolmentRows, Naturals, FiniteSets

CONSTANTS
    Lessons,   \* every lesson there may be, numbered in curriculum order
    Editable,  \* the lessons an author adds and removes
    Previews,  \* the lessons that are free samples
    Txs        \* lesson requests a learner has in flight at one moment

ASSUME LessonAssumption ==
    /\ Lessons \subseteq Nat \ {0} /\ IsFiniteSet(Lessons)
    /\ Editable \subseteq Lessons /\ Previews \subseteq Lessons

VARIABLES
    curriculum,  \* the lessons the course has
    drip,        \* the course's drip mode
    done,        \* the lessons with a completed_at in lesson_progress
    awards,      \* the lessons the learner has points for
    rollup,      \* the row of course_progress; none is a row of zeros
    enrolment,   \* the row of enrolments
    stamped,     \* whether the enrolment has a completed_at
    certified,   \* whether the learner has the course's certificate
    tx           \* the lesson transactions in flight

lessonsVars == <<curriculum, drip, done, awards, rollup, enrolment, stamped,
                 certified, tx>>

(* A date-driven mode is "free" here: the date may always have passed. *)
DripModes == {"free", "sequential"}

Rollups == [completed: Nat, total: Nat]
Steps   == {"idle", "mark", "award", "count", "write"}

NoLesson == 0
NoCount  == [completed |-> 0, total |-> 0]

(* met is a history variable: another lesson transaction, or an edit of the
   curriculum, has shared the course with this one.                         *)
TxStates == [at: Steps, lesson: Lessons \cup {NoLesson}, complete: BOOLEAN,
             counted: Rollups, met: BOOLEAN]

NoTx == [at |-> "idle", lesson |-> NoLesson, complete |-> FALSE,
         counted |-> NoCount, met |-> FALSE]

LessonsTypeOK ==
    /\ curriculum \subseteq Lessons
    /\ drip \in DripModes
    /\ done \subseteq awards /\ awards \subseteq curriculum
    /\ rollup \in Rollups
    /\ enrolment \in Rows
    /\ stamped \in BOOLEAN /\ certified \in BOOLEAN
    /\ tx \in [Txs -> TxStates]

LessonsInit ==
    /\ curriculum = Lessons \ Editable
    /\ drip \in DripModes
    /\ done = {} /\ awards = {}
    /\ rollup = NoCount
    /\ enrolment = NoRow
    /\ stamped = FALSE /\ certified = FALSE
    /\ tx = [t \in Txs |-> NoTx]

-----------------------------------------------------------------------------
Complete(count) == count.total > 0 /\ count.completed = count.total

CountOf(finished) ==
    [completed |-> Cardinality(finished), total |-> Cardinality(curriculum)]

InFlight(t) == tx[t].at # "idle"
Marked(t)   == tx[t].at \in {"award", "count", "write"}
Locked(l)   == \E t \in Txs : Marked(t) /\ tx[t].lesson = l

(* The lessons done, as the transaction itself sees them. *)
Seen(t) == IF tx[t].complete THEN done \cup {tx[t].lesson}
           ELSE done \ {tx[t].lesson}

(* Everybody in flight has company. *)
Disturbed == [t \in Txs |-> [tx[t] EXCEPT !.met = @ \/ InFlight(t)]]

PriorIncomplete(l) == \E p \in curriculum \ done : p < l

-----------------------------------------------------------------------------
(* Completing or reopening a lesson. *)

(* LessonForReader and decide: only a live enrolment, and a lesson that the
   drip has released, a preview always.                                     *)
Decide(t, l, complete) ==
    /\ ~InFlight(t)
    /\ l \in curriculum
    /\ Live(enrolment)
    /\ drip = "sequential" /\ l \notin Previews => ~PriorIncomplete(l)
    /\ tx' = [Disturbed EXCEPT ![t] =
                [at |-> "mark", lesson |-> l, complete |-> complete,
                 counted |-> NoCount,
                 met |-> \E u \in Txs : InFlight(u)]]
    /\ UNCHANGED <<curriculum, drip, done, awards, rollup, enrolment, stamped, certified>>

(* The upsert of lesson_progress waits for whoever holds the row. *)
MarkLesson(t) ==
    /\ tx[t].at = "mark"
    /\ tx[t].lesson \in curriculum
    /\ ~Locked(tx[t].lesson)
    /\ tx' = [tx EXCEPT ![t].at = "award"]
    /\ UNCHANGED <<curriculum, drip, done, awards, rollup, enrolment, stamped, certified>>

(* A first award adds to the learner's points, whose row stays locked; a
   lesson awarded before, or reopened, adds nothing and locks nothing.      *)
FirstTime(t)  == tx[t].complete /\ tx[t].lesson \notin awards
Awarding(t)   == tx[t].at \in {"count", "write"} /\ FirstTime(t)

AwardLesson(t) ==
    /\ tx[t].at = "award"
    /\ FirstTime(t) => \A u \in Txs : ~Awarding(u)
    /\ tx' = [tx EXCEPT ![t].at = "count"]
    /\ UNCHANGED <<curriculum, drip, done, awards, rollup, enrolment, stamped, certified>>

(* Mutant: the count is taken before the mark is visible. *)
CountCommitted(t) ==
    /\ tx[t].at = "count"
    /\ tx' = [tx EXCEPT ![t].at = "write", ![t].counted = CountOf(done)]
    /\ UNCHANGED <<curriculum, drip, done, awards, rollup, enrolment, stamped, certified>>

(* RecomputeProgress counts in the snapshot its statement begins with, and
   may then wait for the roll-up's row.                                     *)
CountCourse(t) ==
    /\ tx[t].at = "count"
    /\ tx' = [tx EXCEPT ![t].at = "write", ![t].counted = CountOf(Seen(t))]
    /\ UNCHANGED <<curriculum, drip, done, awards, rollup, enrolment, stamped, certified>>

(* Mutant: reopening a lesson leaves the enrolment alone. *)
NeverReopens == UNCHANGED <<enrolment, stamped, certified>>

ReopenEnrolment ==
    /\ enrolment' = IF MayReopen(enrolment) THEN Reopened(enrolment) ELSE enrolment
    /\ stamped' = IF MayReopen(enrolment) THEN FALSE ELSE stamped
    /\ certified' = certified

(* IssueIfEarned keeps the certificate already there. *)
CompleteCourse ==
    /\ enrolment' = IF MayComplete(enrolment) THEN Completed(enrolment) ELSE enrolment
    /\ stamped' = (stamped \/ MayComplete(enrolment))
    /\ certified' = (certified \/ MayComplete(enrolment))

WriteProgress(t) ==
    /\ tx[t].at = "write"
    /\ done' = Seen(t)
    /\ awards' = IF tx[t].complete THEN awards \cup {tx[t].lesson} ELSE awards
    /\ rollup' = tx[t].counted
    /\ IF Complete(tx[t].counted) THEN CompleteCourse ELSE ReopenEnrolment
    /\ tx' = [tx EXCEPT ![t] = NoTx]
    /\ UNCHANGED <<curriculum, drip>>

(* The transaction fails where it stands, and is rolled back. *)
Abort(t) ==
    /\ InFlight(t)
    /\ tx' = [tx EXCEPT ![t] = NoTx]
    /\ UNCHANGED <<curriculum, drip, done, awards, rollup, enrolment, stamped, certified>>

-----------------------------------------------------------------------------
(* The enrolment, reached from outside: one transaction each.  A fresh one, by
   the learner or by a school, counts the course at once; a reactivated one,
   a purchase or a bundle's grant does not.                                 *)
EnrolLearner(source) ==
    /\ source = "granted" => ~Exists(enrolment)
    /\ enrolment' = Upserted(enrolment, source)
    /\ stamped' = (stamped /\ enrolment.status # "cancelled")
    /\ rollup' = IF Exists(enrolment) THEN rollup ELSE CountOf(done)
    /\ UNCHANGED <<curriculum, drip, done, awards, certified, tx>>

Admit(source) ==
    /\ enrolment' = Upserted(enrolment, source)
    /\ stamped' = (stamped /\ enrolment.status # "cancelled")
    /\ UNCHANGED <<curriculum, drip, done, awards, rollup, certified, tx>>

Withdraw ==
    /\ MayCancel(enrolment)
    /\ enrolment' = Cancelled(enrolment)
    /\ UNCHANGED <<curriculum, drip, done, awards, rollup, stamped, certified, tx>>

-----------------------------------------------------------------------------
(* The author edits the course.  Nothing recounts anybody's progress. *)

AddLesson(l) ==
    /\ l \in Editable \ curriculum
    /\ \A t \in Txs : InFlight(t) => tx[t].lesson # l
    /\ curriculum' = curriculum \cup {l}
    /\ tx' = Disturbed
    /\ UNCHANGED <<drip, done, awards, rollup, enrolment, stamped, certified>>

(* Mutant: a deleted lesson leaves its progress behind. *)
DeleteLessonOnly(l) ==
    /\ l \in Editable \cap curriculum
    /\ ~Locked(l)
    /\ curriculum' = curriculum \ {l}
    /\ tx' = Disturbed
    /\ UNCHANGED <<drip, done, awards, rollup, enrolment, stamped, certified>>

(* The lesson's progress goes with it; a transaction that has marked it holds
   it in place.  The points stay, but a lesson added later is another one.  *)
DeleteLesson(l) ==
    /\ l \in Editable \cap curriculum
    /\ ~Locked(l)
    /\ curriculum' = curriculum \ {l}
    /\ done' = done \ {l}
    /\ awards' = awards \ {l}
    /\ tx' = Disturbed
    /\ UNCHANGED <<drip, rollup, enrolment, stamped, certified>>

SetDrip(mode) ==
    /\ drip' = mode
    /\ UNCHANGED <<curriculum, done, awards, rollup, enrolment, stamped, certified, tx>>

-----------------------------------------------------------------------------
LessonSteps ==
    \E t \in Txs :
        \/ \E l \in Lessons : \E complete \in BOOLEAN : Decide(t, l, complete)
        \/ MarkLesson(t) \/ AwardLesson(t) \/ CountCourse(t)
        \/ WriteProgress(t) \/ Abort(t)

EnrolmentSteps ==
    \/ \E source \in {"self", "granted"} : EnrolLearner(source)
    \/ \E source \in {"purchase", "granted"} : Admit(source)
    \/ Withdraw

AuthorSteps ==
    \/ \E l \in Lessons : AddLesson(l) \/ DeleteLesson(l)
    \/ \E mode \in DripModes : SetDrip(mode)

LessonsNext == LessonSteps \/ EnrolmentSteps \/ AuthorSteps

LessonsSpec == LessonsInit /\ [][LessonsNext]_lessonsVars

-----------------------------------------------------------------------------
(* What the learner is told agrees with itself, however many lesson requests
   race: an enrolment says completed only with a roll-up that says all of the
   lessons and with a certificate issued, and completed_at is there exactly
   while a live enrolment says completed.                                   *)
StatusFollowsRollup ==
    /\ enrolment.status = "completed" =>
          Complete(rollup) /\ stamped /\ certified
    /\ enrolment.status \in {"none", "active"} => ~stamped

(* A lesson finished or reopened with nobody else about leaves the roll-up and
   the enrolment right, whatever races and edits of the course went before:
   a lost update lasts until the next undisturbed lesson, and no longer.    *)
AloneAgrees ==
    [][\A t \in Txs : WriteProgress(t) /\ ~tx[t].met
        => /\ rollup' = [completed |-> Cardinality(done'),
                         total |-> Cardinality(curriculum)]
           /\ Live(enrolment') =>
                (enrolment'.status = "completed"
                    <=> curriculum # {} /\ done' = curriculum)]_lessonsVars

(* The roll-up never disagrees with the rows it summarises, once no lesson
   request is in flight.                                                    *)
RollupAgrees ==
    (\A t \in Txs : ~InFlight(t)) => rollup.completed = Cardinality(done)
=============================================================================
