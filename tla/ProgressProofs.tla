--------------------------- MODULE ProgressProofs ---------------------------
(* What holds of a learner's progress, and of the points and badges it earns,
   for any course and any number of lesson requests in flight.              *)
EXTENDS Progress, Rewards, FiniteSetTheorems, TLAPS

LEMMA RowStatementsTyped ==
    ASSUME NEW row \in Rows
    PROVE  /\ \A source \in Sources : Upserted(row, source) \in Rows
           /\ Cancelled(row) \in Rows
           /\ Completed(row) \in Rows
           /\ Reopened(row) \in Rows
BY DEF Rows, Upserted, KeptSource, Cancelled, Completed, Reopened, Statuses, Sources

LEMMA FiniteCourse ==
    ASSUME LessonsTypeOK, NEW finished \in SUBSET curriculum
    PROVE  /\ IsFiniteSet(finished) /\ IsFiniteSet(curriculum)
           /\ CountOf(finished) \in Rollups
           /\ Complete(CountOf(finished)) <=> curriculum # {} /\ finished = curriculum
<1>1. IsFiniteSet(curriculum)
  BY LessonAssumption, FS_Subset DEF LessonsTypeOK
<1>2. /\ IsFiniteSet(finished)
      /\ Cardinality(finished) <= Cardinality(curriculum)
      /\ Cardinality(finished) = Cardinality(curriculum) => finished = curriculum
  BY <1>1, FS_Subset
<1>3. Cardinality(finished) \in Nat /\ Cardinality(curriculum) \in Nat
  BY <1>1, <1>2, FS_CardinalityType
<1>4. Cardinality(curriculum) > 0 <=> curriculum # {}
  BY <1>1, <1>3, FS_EmptySet
<1> QED BY <1>1, <1>2, <1>3, <1>4 DEF CountOf, Complete, Rollups

-----------------------------------------------------------------------------
(* The inductive invariant.  A transaction that holds its lesson's row keeps
   that lesson in the course; two transactions in flight know of each other;
   and one that knows of nobody holds a count that is still right.          *)
HeldIsThere ==
    \A t \in Txs : Marked(t) => tx[t].lesson \in curriculum

CompanyIsMet ==
    \A t, u \in Txs : t # u /\ InFlight(t) /\ InFlight(u) => tx[t].met

AloneIsRight ==
    \A t \in Txs :
        tx[t].at = "write" /\ ~tx[t].met => tx[t].counted = CountOf(Seen(t))

ProgressInv ==
    LessonsTypeOK /\ HeldIsThere /\ CompanyIsMet /\ AloneIsRight /\ StatusFollowsRollup

LEMMA ProgressInit == LessonsInit => ProgressInv
<1> SUFFICES ASSUME LessonsInit PROVE ProgressInv
  OBVIOUS
<1>1. NoTx \in TxStates
  BY DEF NoTx, TxStates, Steps, NoCount, Rollups
<1>2. LessonsTypeOK
  BY <1>1, LessonAssumption DEF LessonsInit, LessonsTypeOK, NoRow, Rows, Statuses, Sources,
     NoCount, Rollups
<1>3. HeldIsThere /\ CompanyIsMet /\ AloneIsRight
  BY DEF LessonsInit, NoTx, HeldIsThere, Marked, CompanyIsMet, AloneIsRight, InFlight
<1>4. StatusFollowsRollup
  BY DEF LessonsInit, StatusFollowsRollup, NoRow
<1> QED BY <1>2, <1>3, <1>4 DEF ProgressInv

LEMMA SeenIsThere ==
    ASSUME ProgressInv, NEW t \in Txs, tx[t].at \in {"count", "write"}
    PROVE  Seen(t) \in SUBSET curriculum
BY DEF ProgressInv, LessonsTypeOK, HeldIsThere, Marked, Seen

-----------------------------------------------------------------------------
(* The steps of a lesson transaction before it writes. *)
LEMMA DecideKeeps ==
    ASSUME ProgressInv, NEW t \in Txs, NEW l \in Lessons, NEW complete \in BOOLEAN,
           Decide(t, l, complete)
    PROVE  ProgressInv'
<1>1. /\ tx \in [Txs -> TxStates]
      /\ UNCHANGED <<curriculum, drip, done, awards, rollup, enrolment, stamped, certified>>
  BY DEF ProgressInv, LessonsTypeOK, Decide
<1>2. Disturbed \in [Txs -> TxStates]
  BY <1>1 DEF Disturbed, TxStates
<1>3. tx' \in [Txs -> TxStates]
  BY <1>1, <1>2 DEF Decide, TxStates, Steps, NoCount, Rollups
<1>4. /\ tx'[t].at = "mark"
      /\ tx'[t].met = \E u \in Txs : InFlight(u)
      /\ \A u \in Txs \ {t} :
            /\ tx'[u].at = tx[u].at /\ tx'[u].lesson = tx[u].lesson
            /\ tx'[u].complete = tx[u].complete /\ tx'[u].counted = tx[u].counted
            /\ tx'[u].met = (tx[u].met \/ InFlight(u))
  BY <1>1, <1>2 DEF Decide, Disturbed, TxStates
<1>5. LessonsTypeOK'
  BY <1>1, <1>3 DEF ProgressInv, LessonsTypeOK
<1>6. HeldIsThere'
  BY <1>1, <1>4 DEF ProgressInv, HeldIsThere, Marked
<1>7. CompanyIsMet'
  BY <1>4 DEF ProgressInv, CompanyIsMet, InFlight
<1>8. AloneIsRight'
  BY <1>1, <1>4 DEF ProgressInv, AloneIsRight, InFlight, CountOf, Seen
<1>9. StatusFollowsRollup'
  BY <1>1 DEF ProgressInv, StatusFollowsRollup, Complete
<1> QED BY <1>5, <1>6, <1>7, <1>8, <1>9 DEF ProgressInv

LEMMA MarkKeeps ==
    ASSUME ProgressInv, NEW t \in Txs, MarkLesson(t)
    PROVE  ProgressInv'
<1>1. /\ tx \in [Txs -> TxStates]
      /\ UNCHANGED <<curriculum, drip, done, awards, rollup, enrolment, stamped, certified>>
      /\ tx' = [tx EXCEPT ![t].at = "award"]
  BY DEF ProgressInv, LessonsTypeOK, MarkLesson
<1>2. LessonsTypeOK'
  BY <1>1 DEF ProgressInv, LessonsTypeOK, TxStates, Steps
<1>3. HeldIsThere' /\ CompanyIsMet'
  BY <1>1 DEF ProgressInv, HeldIsThere, Marked, CompanyIsMet, InFlight, MarkLesson, TxStates
<1>4. AloneIsRight'
  BY ZenonT(40), <1>1 DEF ProgressInv, AloneIsRight, CountOf, Seen, TxStates
<1>5. StatusFollowsRollup'
  BY <1>1 DEF ProgressInv, StatusFollowsRollup, Complete
<1> QED BY <1>2, <1>3, <1>4, <1>5 DEF ProgressInv

LEMMA AwardKeeps ==
    ASSUME ProgressInv, NEW t \in Txs, AwardLesson(t)
    PROVE  ProgressInv'
<1>1. /\ tx \in [Txs -> TxStates] /\ tx[t].at = "award"
      /\ UNCHANGED <<curriculum, drip, done, awards, rollup, enrolment, stamped, certified>>
      /\ tx' = [tx EXCEPT ![t].at = "count"]
  BY DEF ProgressInv, LessonsTypeOK, AwardLesson
<1>2. LessonsTypeOK'
  BY <1>1 DEF ProgressInv, LessonsTypeOK, TxStates, Steps
<1>3. HeldIsThere' /\ CompanyIsMet'
  BY <1>1 DEF ProgressInv, HeldIsThere, Marked, CompanyIsMet, InFlight, TxStates
<1>4. AloneIsRight'
  BY ZenonT(40), <1>1 DEF ProgressInv, AloneIsRight, CountOf, Seen, TxStates
<1>5. StatusFollowsRollup'
  BY <1>1 DEF ProgressInv, StatusFollowsRollup, Complete
<1> QED BY <1>2, <1>3, <1>4, <1>5 DEF ProgressInv

LEMMA CountKeeps ==
    ASSUME ProgressInv, NEW t \in Txs, CountCourse(t)
    PROVE  ProgressInv'
<1> DEFINE count == CountOf(Seen(t))
<1>1. /\ tx \in [Txs -> TxStates] /\ tx[t].at = "count"
      /\ UNCHANGED <<curriculum, drip, done, awards, rollup, enrolment, stamped, certified>>
      /\ tx' = [tx EXCEPT ![t].at = "write", ![t].counted = count]
  BY DEF ProgressInv, LessonsTypeOK, CountCourse
<1>2. count \in Rollups
  BY <1>1, SeenIsThere, FiniteCourse DEF ProgressInv
<1> HIDE DEF count
<1>3. LessonsTypeOK'
  BY ZenonT(40), <1>1, <1>2 DEF ProgressInv, LessonsTypeOK, TxStates, Steps
<1>4. HeldIsThere' /\ CompanyIsMet'
  BY <1>1 DEF ProgressInv, HeldIsThere, Marked, CompanyIsMet, InFlight, TxStates
<1>5. AloneIsRight'
  <2> SUFFICES ASSUME NEW u \in Txs, tx'[u].at = "write", ~tx'[u].met
               PROVE  tx'[u].counted = CountOf(Seen(u))'
    BY DEF AloneIsRight
  <2>1. CountOf(Seen(u))' = CountOf(Seen(u))
    BY <1>1 DEF CountOf, Seen, TxStates
  <2>2. CASE u = t
    BY <1>1, <2>1, <2>2 DEF count, TxStates
  <2>3. CASE u # t
    BY <1>1, <2>1, <2>3 DEF ProgressInv, AloneIsRight
  <2> QED BY <2>2, <2>3
<1>6. StatusFollowsRollup'
  BY <1>1 DEF ProgressInv, StatusFollowsRollup, Complete
<1> QED BY <1>3, <1>4, <1>5, <1>6 DEF ProgressInv

-----------------------------------------------------------------------------
(* The step that ends a lesson transaction: whoever else is in flight has met
   it, so no count still trusted can be upset by it.                        *)
LEMMA WriteKeeps ==
    ASSUME ProgressInv, NEW t \in Txs, WriteProgress(t)
    PROVE  ProgressInv'
<1>1. /\ tx \in [Txs -> TxStates] /\ tx[t].at = "write"
      /\ UNCHANGED <<curriculum, drip>>
      /\ done' = Seen(t) /\ rollup' = tx[t].counted
      /\ awards' = IF tx[t].complete THEN awards \cup {tx[t].lesson} ELSE awards
      /\ tx' = [tx EXCEPT ![t] = NoTx]
      /\ enrolment \in Rows
  BY DEF ProgressInv, LessonsTypeOK, WriteProgress
<1>2. NoTx \in TxStates /\ NoTx.at = "idle"
  BY DEF NoTx, TxStates, Steps, NoCount, Rollups
<1>3. /\ enrolment' \in Rows
      /\ stamped' \in BOOLEAN /\ certified' \in BOOLEAN
  BY <1>1, RowStatementsTyped DEF ProgressInv, LessonsTypeOK, WriteProgress,
     CompleteCourse, ReopenEnrolment
<1>4. LessonsTypeOK'
  <2>1. done' \subseteq awards' /\ awards' \subseteq curriculum
    BY <1>1 DEF ProgressInv, LessonsTypeOK, HeldIsThere, Marked, Seen
  <2>2. tx' \in [Txs -> TxStates] /\ rollup' \in Rollups
    BY <1>1, <1>2 DEF TxStates
  <2> QED BY <1>1, <1>3, <2>1, <2>2 DEF ProgressInv, LessonsTypeOK
<1>5. HeldIsThere' /\ CompanyIsMet'
  BY <1>1, <1>2 DEF ProgressInv, HeldIsThere, Marked, CompanyIsMet, InFlight
<1>6. AloneIsRight'
  <2> SUFFICES ASSUME NEW u \in Txs, tx'[u].at = "write", ~tx'[u].met
               PROVE  FALSE
    BY DEF AloneIsRight
  <2>1. u # t /\ tx'[u] = tx[u]
    BY <1>1, <1>2
  <2> QED BY <1>1, <2>1 DEF ProgressInv, CompanyIsMet, InFlight
<1>7. StatusFollowsRollup'
  <2>1. CASE Complete(tx[t].counted)
    BY <1>1, <2>1 DEF ProgressInv, StatusFollowsRollup, WriteProgress,
       CompleteCourse, MayComplete, Completed, Exists, Rows, Complete
  <2>2. CASE ~Complete(tx[t].counted)
    BY <1>1, <2>2 DEF ProgressInv, StatusFollowsRollup, WriteProgress,
       ReopenEnrolment, MayReopen, Reopened, Rows
  <2> QED BY <2>1, <2>2
<1> QED BY <1>4, <1>5, <1>6, <1>7 DEF ProgressInv

LEMMA AbortKeeps ==
    ASSUME ProgressInv, NEW t \in Txs, Abort(t)
    PROVE  ProgressInv'
<1>1. /\ tx \in [Txs -> TxStates]
      /\ UNCHANGED <<curriculum, drip, done, awards, rollup, enrolment, stamped, certified>>
      /\ tx' = [tx EXCEPT ![t] = NoTx]
  BY DEF ProgressInv, LessonsTypeOK, Abort
<1>2. NoTx \in TxStates /\ NoTx.at = "idle"
  BY DEF NoTx, TxStates, Steps, NoCount, Rollups
<1>3. LessonsTypeOK'
  BY <1>1, <1>2 DEF ProgressInv, LessonsTypeOK
<1>4. HeldIsThere' /\ CompanyIsMet'
  BY <1>1, <1>2 DEF ProgressInv, HeldIsThere, Marked, CompanyIsMet, InFlight
<1>5. AloneIsRight'
  BY <1>1, <1>2 DEF ProgressInv, AloneIsRight, CountOf, Seen
<1>6. StatusFollowsRollup'
  BY <1>1 DEF ProgressInv, StatusFollowsRollup, Complete
<1> QED BY <1>3, <1>4, <1>5, <1>6 DEF ProgressInv

-----------------------------------------------------------------------------
(* The steps that reach the enrolment from outside, and the author's. *)
LEMMA EnrolmentKeeps ==
    ASSUME ProgressInv, EnrolmentSteps
    PROVE  ProgressInv'
<1>1. UNCHANGED <<curriculum, drip, done, awards, certified, tx>>
  BY DEF EnrolmentSteps, EnrolLearner, Admit, Withdraw
<1>2. enrolment \in Rows
  BY DEF ProgressInv, LessonsTypeOK
<1>3. HeldIsThere' /\ CompanyIsMet' /\ AloneIsRight'
  BY <1>1 DEF ProgressInv, HeldIsThere, Marked, CompanyIsMet, AloneIsRight, InFlight,
     CountOf, Seen
<1>4. CountOf(done) \in Rollups
  BY FiniteCourse DEF ProgressInv, LessonsTypeOK
<1>5. ASSUME NEW source \in {"self", "granted", "purchase"},
             EnrolLearner(source) \/ Admit(source)
      PROVE  LessonsTypeOK' /\ StatusFollowsRollup'
  <2>1. /\ enrolment' = Upserted(enrolment, source)
        /\ stamped' = (stamped /\ enrolment.status # "cancelled")
        /\ rollup' \in {rollup, CountOf(done)}
        /\ Exists(enrolment) => rollup' = rollup
    BY <1>5 DEF EnrolLearner, Admit
  <2>2. enrolment' \in Rows
    BY <1>2, <2>1, RowStatementsTyped DEF Sources
  <2>3. LessonsTypeOK'
    BY <1>1, <1>4, <2>1, <2>2 DEF ProgressInv, LessonsTypeOK
  <2>4. StatusFollowsRollup'
    BY <1>1, <1>2, <2>1 DEF ProgressInv, StatusFollowsRollup, Upserted, Exists,
       Rows, Statuses, Complete
  <2> QED BY <2>3, <2>4
<1>6. CASE Withdraw
  <2>1. enrolment' = Cancelled(enrolment) /\ UNCHANGED <<rollup, stamped>>
    BY <1>6 DEF Withdraw
  <2>2. LessonsTypeOK'
    BY <1>1, <1>2, <2>1, RowStatementsTyped DEF ProgressInv, LessonsTypeOK
  <2>3. StatusFollowsRollup'
    BY <1>1, <1>2, <2>1 DEF StatusFollowsRollup, Cancelled, Rows
  <2> QED BY <2>2, <2>3, <1>3 DEF ProgressInv
<1> QED BY <1>3, <1>5, <1>6 DEF ProgressInv, EnrolmentSteps

LEMMA AuthorKeeps ==
    ASSUME ProgressInv, AuthorSteps
    PROVE  ProgressInv'
<1>1. tx \in [Txs -> TxStates] /\ UNCHANGED <<rollup, enrolment, stamped, certified>>
  BY DEF ProgressInv, LessonsTypeOK, AuthorSteps, AddLesson, DeleteLesson, SetDrip
<1>2. Disturbed \in [Txs -> TxStates]
  BY <1>1 DEF Disturbed, TxStates
<1>3. \A u \in Txs :
        /\ Disturbed[u].at = tx[u].at /\ Disturbed[u].lesson = tx[u].lesson
        /\ Disturbed[u].met = (tx[u].met \/ InFlight(u))
  BY <1>1 DEF Disturbed, TxStates
<1>4. StatusFollowsRollup'
  BY <1>1 DEF ProgressInv, StatusFollowsRollup, Complete
<1>5. ASSUME tx' = Disturbed PROVE CompanyIsMet' /\ AloneIsRight'
  BY <1>3, <1>5 DEF ProgressInv, CompanyIsMet, AloneIsRight, InFlight
<1>6. ASSUME NEW l \in Lessons, AddLesson(l) PROVE ProgressInv'
  <2>1. LessonsTypeOK'
    BY <1>1, <1>2, <1>6 DEF ProgressInv, LessonsTypeOK, AddLesson
  <2>2. HeldIsThere'
    BY <1>3, <1>6 DEF ProgressInv, HeldIsThere, Marked, AddLesson
  <2> QED BY <1>4, <1>5, <1>6, <2>1, <2>2 DEF ProgressInv, AddLesson
<1>7. ASSUME NEW l \in Lessons, DeleteLesson(l) PROVE ProgressInv'
  <2>1. LessonsTypeOK'
    BY <1>1, <1>2, <1>7 DEF ProgressInv, LessonsTypeOK, DeleteLesson
  <2>2. HeldIsThere'
    BY <1>3, <1>7 DEF ProgressInv, HeldIsThere, Marked, DeleteLesson, Locked
  <2> QED BY <1>4, <1>5, <1>7, <2>1, <2>2 DEF ProgressInv, DeleteLesson
<1>8. ASSUME NEW mode \in DripModes, SetDrip(mode) PROVE ProgressInv'
  <2>1. UNCHANGED <<curriculum, done, awards, tx>> /\ drip' \in DripModes
    BY <1>8 DEF SetDrip
  <2>2. LessonsTypeOK'
    BY <1>1, <2>1 DEF ProgressInv, LessonsTypeOK
  <2>3. HeldIsThere' /\ CompanyIsMet' /\ AloneIsRight'
    BY <2>1 DEF ProgressInv, HeldIsThere, Marked, CompanyIsMet, AloneIsRight, InFlight,
       CountOf, Seen
  <2> QED BY <1>4, <2>2, <2>3 DEF ProgressInv
<1> QED BY <1>6, <1>7, <1>8 DEF AuthorSteps

LEMMA ProgressStep == ProgressInv /\ [LessonsNext]_lessonsVars => ProgressInv'
<1> SUFFICES ASSUME ProgressInv, [LessonsNext]_lessonsVars PROVE ProgressInv'
  OBVIOUS
<1>1. CASE UNCHANGED lessonsVars
  BY <1>1 DEF lessonsVars, ProgressInv, LessonsTypeOK, HeldIsThere, Marked, CompanyIsMet, AloneIsRight,
     StatusFollowsRollup, InFlight, CountOf, Seen, Complete
<1>2. CASE LessonSteps
  BY <1>2, DecideKeeps, MarkKeeps, AwardKeeps, CountKeeps,
      WriteKeeps, AbortKeeps DEF LessonSteps
<1>3. CASE EnrolmentSteps
  BY <1>3, EnrolmentKeeps
<1>4. CASE AuthorSteps
  BY <1>4, AuthorKeeps
<1> QED BY <1>1, <1>2, <1>3, <1>4 DEF LessonsNext

-----------------------------------------------------------------------------
(* The invariant holds of every reachable state. *)
THEOREM ProgressHolds == LessonsSpec => []ProgressInv
BY ProgressInit, ProgressStep, PTL DEF LessonsSpec

(* Every state of a learner's progress is well typed. *)
THEOREM ProgressTyped == LessonsSpec => []LessonsTypeOK
<1>1. ProgressInv => LessonsTypeOK
  BY DEF ProgressInv
<1> QED BY <1>1, ProgressHolds, PTL

(* Status, completed_at, roll-up and certificate never contradict one another,
   for any course and any number of racing lesson requests.                 *)
THEOREM StatusIsFollowed == LessonsSpec => []StatusFollowsRollup
<1>1. ProgressInv => StatusFollowsRollup
  BY DEF ProgressInv
<1> QED BY <1>1, ProgressHolds, PTL

(* A lesson transaction that nobody disturbed writes the right roll-up and the
   right status, whatever lost updates went before it.                      *)
LEMMA AloneStep ==
    ASSUME ProgressInv, NEW t \in Txs, WriteProgress(t), ~tx[t].met
    PROVE  /\ rollup' = [completed |-> Cardinality(done'),
                         total |-> Cardinality(curriculum)]
           /\ Live(enrolment') =>
                (enrolment'.status = "completed"
                    <=> curriculum # {} /\ done' = curriculum)
<1>1. done' = Seen(t) /\ rollup' = CountOf(Seen(t)) /\ enrolment \in Rows
  BY DEF ProgressInv, LessonsTypeOK, AloneIsRight, WriteProgress
<1>2. Complete(tx[t].counted) <=> curriculum # {} /\ done' = curriculum
  BY <1>1, SeenIsThere, FiniteCourse DEF ProgressInv, WriteProgress
<1>3. Live(enrolment') => (enrolment'.status = "completed" <=> Complete(tx[t].counted))
  BY <1>1 DEF WriteProgress, CompleteCourse, ReopenEnrolment, MayComplete,
     MayReopen, Completed, Reopened, Exists, Live, Rows
<1> QED BY <1>1, <1>2, <1>3 DEF CountOf

THEOREM AloneIsCorrect == LessonsSpec => AloneAgrees
<1>1. ProgressInv /\ [LessonsNext]_lessonsVars =>
        [\A t \in Txs : WriteProgress(t) /\ ~tx[t].met
            => /\ rollup' = [completed |-> Cardinality(done'),
                             total |-> Cardinality(curriculum)]
               /\ Live(enrolment') =>
                    (enrolment'.status = "completed"
                        <=> curriculum # {} /\ done' = curriculum)]_lessonsVars
  BY AloneStep
<1> QED BY <1>1, ProgressHolds, PTL DEF LessonsSpec, AloneAgrees

-----------------------------------------------------------------------------
(* Points and badges.  Value is what a set of awards is worth. *)
Value(given) ==
    10 * Cardinality(given \cap Passed) + 100 * Cardinality(given \cap Finished)

LEMMA OneMore ==
    ASSUME NEW given \in SUBSET Sourced, IsFiniteSet(given),
           NEW source \in Sourced, source \notin given
    PROVE  /\ IsFiniteSet(given \cup {source})
           /\ source \in Passed =>
                /\ Cardinality((given \cup {source}) \cap Passed)
                        = Cardinality(given \cap Passed) + 1
                /\ (given \cup {source}) \cap Finished = given \cap Finished
           /\ source \notin Passed =>
                /\ Cardinality((given \cup {source}) \cap Finished)
                        = Cardinality(given \cap Finished) + 1
                /\ (given \cup {source}) \cap Passed = given \cap Passed
           /\ Cardinality(given \cap Passed) \in Nat
           /\ Cardinality(given \cap Finished) \in Nat
<1>1. IsFiniteSet(given \cap Passed) /\ IsFiniteSet(given \cap Finished)
  BY FS_Subset
<1>2. CASE source \in Passed
  <2>1. /\ (given \cup {source}) \cap Passed = (given \cap Passed) \cup {source}
        /\ (given \cup {source}) \cap Finished = given \cap Finished
    BY <1>2, RewardAssumption
  <2> QED BY <1>1, <1>2, <2>1, FS_AddElement, FS_CardinalityType
<1>3. CASE source \notin Passed
  <2>1. /\ (given \cup {source}) \cap Finished = (given \cap Finished) \cup {source}
        /\ (given \cup {source}) \cap Passed = given \cap Passed
    BY <1>3 DEF Sourced
  <2> QED BY <1>1, <1>3, <2>1, FS_AddElement, FS_CardinalityType
<1> QED BY <1>2, <1>3

LEMMA ValueOfOneMore ==
    ASSUME NEW given \in SUBSET Sourced, IsFiniteSet(given),
           NEW source \in Sourced, source \notin given
    PROVE  /\ Value(given \cup {source}) = Value(given) + Worth(source)
           /\ Value(given) \in Nat /\ Worth(source) \in Nat \ {0}
<1> DEFINE more == given \cup {source}
           lessons == Cardinality(given \cap Passed)
           courses == Cardinality(given \cap Finished)
<1>1. lessons \in Nat /\ courses \in Nat
  BY OneMore
<1>2. Value(given) = 10 * lessons + 100 * courses
  BY DEF Value
<1>3. CASE source \in Passed
  <2>1. Value(more) = 10 * (lessons + 1) + 100 * courses
    BY <1>3, OneMore DEF Value
  <2>2. Worth(source) = 10
    BY <1>3 DEF Worth
  <2> HIDE DEF lessons, courses, more
  <2>3. Value(more) = Value(given) + Worth(source) /\ Value(given) \in Nat
    BY <1>1, <1>2, <2>1, <2>2, SMT
  <2> QED BY <2>2, <2>3 DEF more
<1>4. CASE source \notin Passed
  <2>1. Value(more) = 10 * lessons + 100 * (courses + 1)
    BY <1>4, OneMore DEF Value
  <2>2. Worth(source) = 100
    BY <1>4 DEF Worth
  <2> HIDE DEF lessons, courses, more
  <2>3. Value(more) = Value(given) + Worth(source) /\ Value(given) \in Nat
    BY <1>1, <1>2, <2>1, <2>2, SMT
  <2> QED BY <2>2, <2>3 DEF more
<1> QED BY <1>3, <1>4

(* The badges one more award adds are those of the count it leaves. *)
LEMMA BadgesOfOneMore ==
    ASSUME NEW given \in SUBSET Sourced, IsFiniteSet(given),
           NEW source \in Sourced, source \notin given
    PROVE  Earned(given \cup {source}) =
             Earned(given) \cup
               IF source \in Passed
               THEN LessonBadges(Cardinality((given \cup {source}) \cap Passed))
               ELSE CourseBadges(Cardinality((given \cup {source}) \cap Finished))
<1> DEFINE lessons == Cardinality(given \cap Passed)
           courses == Cardinality(given \cap Finished)
<1>1. lessons \in Nat /\ courses \in Nat /\ HonorRollCourses \in Nat \ {0}
  BY OneMore, RewardAssumption
<1>2. CASE source \in Passed
  <2>1. /\ Cardinality((given \cup {source}) \cap Passed) = lessons + 1
        /\ Cardinality((given \cup {source}) \cap Finished) = courses
    BY <1>2, OneMore
  <2> QED BY <1>1, <1>2, <2>1 DEF Earned, LessonBadges
<1>3. CASE source \notin Passed
  <2>1. /\ Cardinality((given \cup {source}) \cap Finished) = courses + 1
        /\ Cardinality((given \cup {source}) \cap Passed) = lessons
    BY <1>3, OneMore
  <2> QED BY <1>1, <1>3, <2>1 DEF Earned, CourseBadges
<1> QED BY <1>2, <1>3

(* The inductive invariant.  Tallied is what the transaction has counted,
   Paid what it has added points for; one transaction at most has added
   anything, so what it counted stays counted until it ends.                *)
Tallied(g) == IF giving[g].at \in {"add", "count"} THEN giving[g].new \ giving[g].last
              ELSE giving[g].new
Paid(g)    == IF giving[g].at = "add" THEN giving[g].new \ giving[g].last
              ELSE giving[g].new

GiftOK(g) ==
    /\ giving[g].new \cap rewarded = {}
    /\ giving[g].at \in {"add", "count"} =>
          \E source \in Sourced : giving[g].last = {source} /\ source \in giving[g].new
    /\ giving[g].at = "open" => \E source \in Sourced : giving[g].last = {source}
    /\ giving[g].at = "idle" => giving[g] = NoGift
    /\ giving[g].added = Value(Paid(g))
    /\ giving[g].added = 0 => Paid(g) = {} /\ giving[g].granted = {}
    /\ badges \cup giving[g].granted = Earned(rewarded \cup Tallied(g))

OneHolder == \A g, h \in Givers : Holds(g) /\ Holds(h) => g = h

OwnSources ==
    \A g, h \in Givers : g # h => giving[g].new \cap giving[h].new = {}

RewardsInv ==
    /\ RewardsTypeOK
    /\ \A g \in Givers : GiftOK(g)
    /\ OneHolder /\ OwnSources
    /\ StandingIsEarned

LEMMA SourcedFinite ==
    ASSUME NEW given \in SUBSET Sourced
    PROVE  IsFiniteSet(given)
BY RewardAssumption, FS_Union, FS_Subset DEF Sourced

LEMMA NothingIsWorthNothing == Value({}) = 0 /\ Earned({}) = {}
<1>1. Cardinality({} \cap Passed) = 0 /\ Cardinality({} \cap Finished) = 0
  BY FS_EmptySet
<1> QED BY <1>1, RewardAssumption DEF Value, Earned

LEMMA NoGiftTyped == NoGift \in Gifts
BY DEF NoGift, Gifts

LEMMA RewardsStart == RewardsInit => RewardsInv
<1> SUFFICES ASSUME RewardsInit PROVE RewardsInv
  OBVIOUS
<1>1. RewardsTypeOK
  BY NoGiftTyped DEF RewardsInit, RewardsTypeOK
<1>2. ASSUME NEW g \in Givers PROVE GiftOK(g)
  <2>1. giving[g] = NoGift /\ rewarded = {} /\ badges = {}
    BY DEF RewardsInit
  <2>2. Paid(g) = {} /\ Tallied(g) = {} /\ rewarded \cup Tallied(g) = {}
    BY <2>1 DEF Paid, Tallied, NoGift
  <2> QED BY <2>1, <2>2, NothingIsWorthNothing DEF GiftOK, NoGift
<1>3. OneHolder /\ OwnSources
  BY DEF RewardsInit, OneHolder, OwnSources, Holds, NoGift
<1>4. StandingIsEarned
  BY NothingIsWorthNothing DEF RewardsInit, StandingIsEarned, Value
<1> QED BY <1>1, <1>2, <1>3, <1>4 DEF RewardsInv

(* What is true of a transaction stays so while only others move. *)
LEMMA OthersRest ==
    ASSUME NEW g \in Givers, GiftOK(g), giving'[g] = giving[g],
           UNCHANGED <<rewarded, badges>>
    PROVE  GiftOK(g)'
BY DEF GiftOK, Paid, Tallied

LEMMA InsertKeeps ==
    ASSUME RewardsInv, NEW g \in Givers, NEW source \in Sourced, InsertAward(g, source)
    PROVE  RewardsInv'
<1>1. /\ giving \in [Givers -> Gifts]
      /\ UNCHANGED <<rewarded, points, badges>>
      /\ giving[g].at \in {"idle", "open"}
  BY DEF RewardsInv, RewardsTypeOK, InsertAward, MayGive
<1> DEFINE fresh == {source} \ rewarded
<1>2. /\ giving'[g].at = IF source \in rewarded THEN "open" ELSE "add"
      /\ giving'[g].last = {source}
      /\ giving'[g].new = giving[g].new \cup fresh
      /\ giving'[g].added = giving[g].added
      /\ giving'[g].granted = giving[g].granted
      /\ \A h \in Givers \ {g} : giving'[h] = giving[h]
      /\ giving' \in [Givers -> Gifts]
  <2>1. giving[g] \in Gifts /\ fresh \in SUBSET Sourced
    BY <1>1
  <2>2. giving' = [giving EXCEPT ![g] =
                    [giving[g] EXCEPT !.last = {source},
                                      !.at = IF source \in rewarded THEN "open" ELSE "add",
                                      !.new = giving[g].new \cup fresh]]
    BY <1>1 DEF InsertAward
  <2> HIDE DEF fresh
  <2>3. /\ giving'[g] = [giving[g] EXCEPT !.last = {source},
                             !.at = IF source \in rewarded THEN "open" ELSE "add",
                             !.new = giving[g].new \cup fresh]
        /\ \A h \in Givers \ {g} : giving'[h] = giving[h]
    BY <1>1, <2>2
  <2>4. giving'[g] \in Gifts
    <3> DEFINE all == giving[g].new \cup fresh
    <3>1. {source} \in SUBSET Sourced /\ all \in SUBSET Sourced
      BY <2>1 DEF Gifts
    <3>2. giving'[g] = [giving[g] EXCEPT !.last = {source},
                            !.at = IF source \in rewarded THEN "open" ELSE "add",
                            !.new = all]
      BY <2>3
    <3> HIDE DEF all
    <3> QED BY <2>1, <3>1, <3>2 DEF Gifts
  <2>5. giving' \in [Givers -> Gifts]
    BY <1>1, <2>2, <2>3, <2>4
  <2> QED BY <2>1, <2>3, <2>5 DEF Gifts
<1>3. source \notin giving[g].new
  BY DEF InsertAward
<1>4. Paid(g) = giving[g].new /\ Tallied(g) = giving[g].new
  BY <1>1 DEF Paid, Tallied
<1>5. Paid(g)' = giving[g].new /\ Tallied(g)' = giving[g].new
  BY <1>2, <1>3 DEF Paid, Tallied
<1>6. GiftOK(g)'
  <2>1. GiftOK(g)
    BY DEF RewardsInv
  <2> QED BY <1>1, <1>2, <1>4, <1>5, <2>1 DEF GiftOK
<1>7. \A h \in Givers \ {g} : GiftOK(h)'
  BY <1>1, <1>2, OthersRest DEF RewardsInv
<1>8. OneHolder' /\ OwnSources'
  <2>1. \A h \in Givers \ {g} : source \notin giving[h].new
    BY DEF InsertAward
  <2> QED BY <1>2, <2>1 DEF RewardsInv, OneHolder, OwnSources, Holds
<1>9. RewardsTypeOK' /\ StandingIsEarned'
  BY <1>1, <1>2 DEF RewardsInv, RewardsTypeOK, StandingIsEarned
<1> QED BY <1>6, <1>7, <1>8, <1>9 DEF RewardsInv

LEMMA AddKeeps ==
    ASSUME RewardsInv, NEW g \in Givers, AddPoints(g)
    PROVE  RewardsInv'
<1>1. /\ giving \in [Givers -> Gifts]
      /\ UNCHANGED <<rewarded, points, badges>>
      /\ giving[g].at = "add" /\ GiftOK(g)
  BY DEF RewardsInv, RewardsTypeOK, AddPoints
<1>2. PICK source \in Sourced : giving[g].last = {source} /\ source \in giving[g].new
  BY <1>1 DEF GiftOK
<1> DEFINE before == giving[g].new \ {source}
<1>3. /\ giving'[g].at = "count"
      /\ giving'[g].last = giving[g].last
      /\ giving'[g].new = giving[g].new
      /\ giving'[g].added = giving[g].added + Worth(source)
      /\ giving'[g].granted = giving[g].granted
      /\ \A h \in Givers \ {g} : giving'[h] = giving[h]
  BY <1>1, <1>2 DEF AddPoints, Gifts
<1>4. /\ before \in SUBSET Sourced /\ IsFiniteSet(before) /\ source \notin before
      /\ before \cup {source} = giving[g].new
  BY <1>1, <1>2, SourcedFinite DEF Gifts
<1>5. /\ Value(giving[g].new) = Value(before) + Worth(source)
      /\ Value(before) \in Nat /\ Worth(source) \in Nat \ {0}
  BY <1>4, ValueOfOneMore
<1>6. Paid(g) = before /\ Tallied(g) = before
  BY <1>1, <1>2 DEF Paid, Tallied
<1>7. Paid(g)' = giving[g].new /\ Tallied(g)' = before
  BY <1>2, <1>3 DEF Paid, Tallied
<1>8. giving[g].added = Value(before)
  BY <1>1, <1>6 DEF GiftOK
<1>9. giving'[g].added = Value(giving[g].new) /\ giving'[g].added > 0
  BY <1>3, <1>5, <1>8
<1>10. GiftOK(g)'
  BY <1>1, <1>2, <1>3, <1>6, <1>7, <1>9 DEF GiftOK
<1>11. \A h \in Givers \ {g} : GiftOK(h)'
  BY <1>1, <1>3, OthersRest DEF RewardsInv
<1>12. OneHolder' /\ OwnSources'
  <2>1. \A h \in Givers \ {g} : ~Holds(h)'
    BY <1>3 DEF AddPoints, Holds
  <2>2. OneHolder'
    BY <2>1 DEF OneHolder
  <2>3. OwnSources'
    BY <1>3 DEF RewardsInv, OwnSources
  <2> QED BY <2>2, <2>3
<1>13. RewardsTypeOK' /\ StandingIsEarned'
  <2>1. giving'[g] \in Gifts
    BY <1>1, <1>2, <1>5 DEF AddPoints, Gifts
  <2>2. giving' \in [Givers -> Gifts]
    BY <1>1, <2>1 DEF AddPoints
  <2> QED BY <1>1, <2>2 DEF RewardsInv, RewardsTypeOK, StandingIsEarned
<1> QED BY <1>10, <1>11, <1>12, <1>13 DEF RewardsInv

LEMMA GrantKeeps ==
    ASSUME RewardsInv, NEW g \in Givers, GrantBadge(g)
    PROVE  RewardsInv'
<1>1. /\ giving \in [Givers -> Gifts] /\ rewarded \subseteq Sourced
      /\ UNCHANGED <<rewarded, points, badges>>
      /\ giving[g].at = "count" /\ GiftOK(g)
  BY DEF RewardsInv, RewardsTypeOK, GrantBadge
<1>2. PICK source \in Sourced : giving[g].last = {source} /\ source \in giving[g].new
  BY <1>1 DEF GiftOK
<1> DEFINE before == rewarded \cup (giving[g].new \ {source})
           earned == IF source \in Passed
                     THEN LessonBadges(CountAwards(g, Passed))
                     ELSE CourseBadges(CountAwards(g, Finished))
<1>3. (giving[g].last \subseteq Passed) <=> source \in Passed
  BY <1>2
<1>4. /\ giving'[g].at = "open"
      /\ giving'[g].last = giving[g].last
      /\ giving'[g].new = giving[g].new
      /\ giving'[g].added = giving[g].added
      /\ giving'[g].granted = giving[g].granted \cup earned
      /\ \A h \in Givers \ {g} : giving'[h] = giving[h]
  BY <1>1, <1>3 DEF GrantBadge, Gifts
<1>5. earned \subseteq Badges
  BY DEF LessonBadges, CourseBadges, Badges
<1>6. giving' \in [Givers -> Gifts]
  <2>1. giving'[g] \in Gifts
    BY <1>1, <1>3, <1>5 DEF GrantBadge, Gifts
  <2> QED BY <1>1, <2>1 DEF GrantBadge
<1>7. /\ before \in SUBSET Sourced /\ IsFiniteSet(before) /\ source \notin before
      /\ before \cup {source} = rewarded \cup giving[g].new
  BY <1>1, <1>2, SourcedFinite DEF Gifts, GiftOK
<1>8. Earned(rewarded \cup giving[g].new) = Earned(before) \cup earned
  BY <1>7, BadgesOfOneMore DEF CountAwards
<1>9. Tallied(g) = giving[g].new \ {source} /\ Paid(g) = giving[g].new
  BY <1>1, <1>2 DEF Tallied, Paid
<1>10. badges \cup giving[g].granted = Earned(before)
  BY <1>1, <1>9 DEF GiftOK
<1> HIDE DEF before, earned
<1>11. Tallied(g)' = giving[g].new /\ Paid(g)' = giving[g].new
  BY <1>4 DEF Tallied, Paid
<1>12. giving[g].added # 0
  BY <1>1, <1>2, <1>9 DEF GiftOK
<1>13. badges' \cup giving'[g].granted = Earned(rewarded' \cup Tallied(g)')
  BY <1>1, <1>4, <1>8, <1>10, <1>11
<1>14. GiftOK(g)'
  BY <1>1, <1>2, <1>4, <1>9, <1>11, <1>12, <1>13 DEF GiftOK
<1>15. \A h \in Givers \ {g} : GiftOK(h)'
  BY <1>1, <1>4, OthersRest DEF RewardsInv
<1>16. OneHolder' /\ OwnSources'
  BY <1>4 DEF RewardsInv, OneHolder, OwnSources, Holds
<1>17. RewardsTypeOK' /\ StandingIsEarned'
  BY <1>1, <1>6 DEF RewardsInv, RewardsTypeOK, StandingIsEarned
<1> QED BY <1>14, <1>15, <1>16, <1>17 DEF RewardsInv

(* The commit: nobody else holds anything, so nobody else's count is upset. *)
LEMMA CommitKeeps ==
    ASSUME RewardsInv, NEW g \in Givers, CommitGift(g)
    PROVE  RewardsInv'
<1>1. /\ giving \in [Givers -> Gifts] /\ rewarded \subseteq Sourced
      /\ points \in Nat /\ badges \subseteq Badges
      /\ giving[g] \in Gifts /\ giving[g].at = "open" /\ GiftOK(g)
      /\ rewarded' = rewarded \cup giving[g].new
      /\ points' = points + giving[g].added
      /\ badges' = badges \cup giving[g].granted
      /\ giving' = [giving EXCEPT ![g] = NoGift]
  BY DEF RewardsInv, RewardsTypeOK, CommitGift
<1>2. Tallied(g) = giving[g].new /\ Paid(g) = giving[g].new
  BY <1>1 DEF Tallied, Paid
<1>3. badges' = Earned(rewarded')
  BY <1>1, <1>2 DEF GiftOK
<1>4. points' = Value(rewarded')
  <2>1. IsFiniteSet(rewarded) /\ IsFiniteSet(giving[g].new)
    BY <1>1, SourcedFinite DEF Gifts
  <2>2. rewarded \cap giving[g].new = {} /\ giving[g].added = Value(giving[g].new)
    BY <1>1, <1>2 DEF GiftOK
  <2>3. Value(rewarded \cup giving[g].new) = Value(rewarded) + Value(giving[g].new)
    <3>1. ASSUME NEW reason
          PROVE  /\ Cardinality((rewarded \cup giving[g].new) \cap reason)
                      = Cardinality(rewarded \cap reason)
                          + Cardinality(giving[g].new \cap reason)
                 /\ Cardinality(rewarded \cap reason) \in Nat
                 /\ Cardinality(giving[g].new \cap reason) \in Nat
      <4>1. /\ IsFiniteSet(rewarded \cap reason) /\ IsFiniteSet(giving[g].new \cap reason)
            /\ (rewarded \cap reason) \cap (giving[g].new \cap reason) = {}
            /\ (rewarded \cup giving[g].new) \cap reason
                    = (rewarded \cap reason) \cup (giving[g].new \cap reason)
        BY <2>1, <2>2, FS_Subset
      <4>2. Cardinality((rewarded \cap reason) \cup (giving[g].new \cap reason))
                = Cardinality(rewarded \cap reason) + Cardinality(giving[g].new \cap reason)
                    - Cardinality((rewarded \cap reason) \cap (giving[g].new \cap reason))
        BY <4>1, FS_Union
      <4>3. /\ Cardinality({}) = 0
            /\ Cardinality(rewarded \cap reason) \in Nat
            /\ Cardinality(giving[g].new \cap reason) \in Nat
        BY <4>1, FS_EmptySet, FS_CardinalityType
      <4>4. Cardinality((rewarded \cap reason) \cap (giving[g].new \cap reason)) = 0
        BY <4>1, <4>3
      <4>5. Cardinality((rewarded \cup giving[g].new) \cap reason)
                = Cardinality((rewarded \cap reason) \cup (giving[g].new \cap reason))
        BY <4>1
      <4> QED BY <4>2, <4>3, <4>4, <4>5
    <3>2. ASSUME NEW a \in Nat, NEW b \in Nat, NEW c \in Nat, NEW d \in Nat
          PROVE  10 * (a + b) + 100 * (c + d) = (10 * a + 100 * c) + (10 * b + 100 * d)
      OBVIOUS
    <3> DEFINE all == rewarded \cup giving[g].new
               a == Cardinality(rewarded \cap Passed)
               b == Cardinality(giving[g].new \cap Passed)
               c == Cardinality(rewarded \cap Finished)
               d == Cardinality(giving[g].new \cap Finished)
    <3>3. /\ Cardinality(all \cap Passed) = a + b /\ Cardinality(all \cap Finished) = c + d
          /\ a \in Nat /\ b \in Nat /\ c \in Nat /\ d \in Nat
      BY <3>1
    <3>4. /\ Value(all) = 10 * Cardinality(all \cap Passed) + 100 * Cardinality(all \cap Finished)
          /\ Value(rewarded) = 10 * a + 100 * c
          /\ Value(giving[g].new) = 10 * b + 100 * d
      BY DEF Value
    <3>5. Value(all) = 10 * (a + b) + 100 * (c + d)
      BY <3>3, <3>4
    <3> HIDE DEF a, b, c, d
    <3> QED BY <3>2, <3>3, <3>4, <3>5
  <2>4. points = Value(rewarded)
    BY DEF RewardsInv, StandingIsEarned, Value
  <2> QED BY <1>1, <2>2, <2>3, <2>4
<1>5. StandingIsEarned'
  BY <1>3, <1>4 DEF StandingIsEarned, Value
<1>6. RewardsTypeOK'
  BY <1>1, NoGiftTyped DEF RewardsTypeOK, Gifts
<1>7. GiftOK(g)'
  <2>1. giving'[g] = NoGift
    BY <1>1
  <2>2. Paid(g)' = {} /\ Tallied(g)' = {}
    BY <2>1 DEF Paid, Tallied, NoGift
  <2>3. rewarded' \cup Tallied(g)' = rewarded' /\ badges' \cup NoGift.granted = badges'
    BY <2>2 DEF NoGift
  <2> QED BY <1>3, <2>1, <2>2, <2>3, NothingIsWorthNothing DEF GiftOK, NoGift
<1>8. ASSUME NEW h \in Givers \ {g} PROVE GiftOK(h)'
  <2>1. giving'[h] = giving[h] /\ GiftOK(h) /\ giving[h] \in Gifts
    BY <1>1 DEF RewardsInv
  <2>2. CASE Holds(h)
    <3>1. giving[g].added = 0
      <4>1. ~Holds(g)
        BY <2>2 DEF RewardsInv, OneHolder
      <4> QED BY <1>1, <4>1 DEF Holds, Gifts
    <3>2. rewarded' = rewarded /\ badges' = badges
      BY <1>1, <1>2, <3>1 DEF GiftOK
    <3> QED BY <2>1, <3>2, OthersRest
  <2>3. CASE ~Holds(h)
    <3>1. giving[h].added = 0
      BY <2>1, <2>3 DEF Holds, Gifts
    <3>2. Paid(h) = {} /\ giving[h].granted = {}
      BY <2>1, <3>1 DEF GiftOK
    <3>3. /\ giving[h].at # "count"
          /\ Tallied(h) = {}
      BY <2>1, <3>2 DEF GiftOK, Paid, Tallied
    <3>4. Paid(h)' = {} /\ Tallied(h)' = {}
      BY <2>1, <3>2, <3>3 DEF Paid, Tallied
    <3>5. giving[h].new \cap rewarded' = {}
      <4>1. CASE giving[h].at = "add"
        <5>1. PICK source \in Sourced : giving[h].last = {source} /\ source \in giving[h].new
          BY <2>1, <4>1 DEF GiftOK
        <5>2. giving[h].new = {source}
          BY <3>3, <4>1, <5>1 DEF Tallied
        <5>3. source \notin giving[g].new
          BY <5>1 DEF RewardsInv, OwnSources
        <5> QED BY <1>1, <2>1, <5>2, <5>3 DEF GiftOK
      <4>2. CASE giving[h].at # "add"
        BY <3>2, <4>2 DEF Paid
      <4> QED BY <4>1, <4>2
    <3>6. badges' \cup giving'[h].granted = Earned(rewarded' \cup Tallied(h)')
      BY <1>3, <2>1, <3>2, <3>4
    <3> QED BY <2>1, <3>1, <3>2, <3>4, <3>5, <3>6, NothingIsWorthNothing DEF GiftOK
  <2> QED BY <2>2, <2>3
<1>9. OneHolder'
  BY <1>1 DEF RewardsInv, OneHolder, Holds, NoGift
<1>10. OwnSources'
  BY <1>1 DEF RewardsInv, OwnSources, NoGift
<1> QED BY <1>5, <1>6, <1>7, <1>8, <1>9, <1>10 DEF RewardsInv

LEMMA AbortGiftKeeps ==
    ASSUME RewardsInv, NEW g \in Givers, AbortGift(g)
    PROVE  RewardsInv'
<1>1. /\ giving \in [Givers -> Gifts]
      /\ UNCHANGED <<rewarded, points, badges>>
      /\ giving' = [giving EXCEPT ![g] = NoGift]
  BY DEF RewardsInv, RewardsTypeOK, AbortGift
<1>2. RewardsTypeOK' /\ StandingIsEarned'
  BY <1>1, NoGiftTyped DEF RewardsInv, RewardsTypeOK, StandingIsEarned
<1>3. GiftOK(g)'
  <2>1. giving'[g] = NoGift
    BY <1>1
  <2>2. Paid(g)' = {} /\ Tallied(g)' = {}
    BY <2>1 DEF Paid, Tallied, NoGift
  <2>3. rewarded' \cup Tallied(g)' = rewarded /\ badges' \cup NoGift.granted = badges
    BY <1>1, <2>2 DEF NoGift
  <2>4. badges = Earned(rewarded)
    BY DEF RewardsInv, StandingIsEarned
  <2> QED BY <2>1, <2>2, <2>3, <2>4, NothingIsWorthNothing DEF GiftOK, NoGift
<1>4. \A h \in Givers \ {g} : GiftOK(h)'
  BY <1>1, OthersRest DEF RewardsInv
<1>5. OneHolder' /\ OwnSources'
  BY <1>1 DEF RewardsInv, OneHolder, OwnSources, Holds, NoGift
<1> QED BY <1>2, <1>3, <1>4, <1>5 DEF RewardsInv

LEMMA RewardsStep == RewardsInv /\ [RewardsNext]_rewardsVars => RewardsInv'
<1> SUFFICES ASSUME RewardsInv, [RewardsNext]_rewardsVars PROVE RewardsInv'
  OBVIOUS
<1>1. CASE UNCHANGED rewardsVars
  BY <1>1 DEF rewardsVars, RewardsInv, RewardsTypeOK, GiftOK, Paid, Tallied, OneHolder,
     OwnSources, Holds, StandingIsEarned
<1>2. CASE RewardsNext
  BY <1>2, InsertKeeps, AddKeeps, GrantKeeps, CommitKeeps, AbortGiftKeeps DEF RewardsNext
<1> QED BY <1>1, <1>2

LEMMA RewardsHold == RewardsSpec => []RewardsInv
BY RewardsStart, RewardsStep, PTL DEF RewardsSpec

(* The total of points and the badges are those the rewarded earn, for any
   number of lessons, courses and racing requests.                          *)
THEOREM StandingHolds == RewardsSpec => []StandingIsEarned
<1>1. RewardsInv => StandingIsEarned
  BY DEF RewardsInv
<1> QED BY <1>1, RewardsHold, PTL
=============================================================================
