------------------------------ MODULE Attempts ------------------------------
(***************************************************************************)
(* One learner at one quiz: package assess from the first "start" to the   *)
(* gradebook of package grade, at READ COMMITTED.                          *)
(*                                                                         *)
(* The learner starts attempts, saves answers and submits; a River job     *)
(* grades what a machine can; people mark the essays; the author edits the *)
(* quiz meanwhile.  A transaction is split where another may come between  *)
(* its statements: what a statement read is in the request's record, what  *)
(* the transaction writes appears when it commits.                         *)
(*                                                                         *)
(* Every question is worth one point (one worth more is several of them),  *)
(* so that the sums of points in the code are cardinalities here.          *)
(***************************************************************************)
EXTENDS Integers, FiniteSets

CONSTANTS
    Questions,  \* every question there may ever be
    Essays,     \* those only a person can grade
    Revisable,   \* those the author may add, once, and remove
    Numbers,    \* attempt numbers, 1 .. N: the bound on attempts
    Limit,      \* the quiz's max_attempts; zero is none
    Bars,       \* the passing percentages the author chooses from
    Requests,   \* the learner's requests in flight at one moment
    Workers,    \* grading workers
    Markers,    \* people marking at one moment
    GradeAttempts  \* how often a grading job may fail: 10 in the program

ASSUME AttemptAssumption ==
    /\ IsFiniteSet(Questions) /\ Essays \subseteq Questions
    /\ Revisable \subseteq Questions
    /\ Numbers \subseteq Nat \ {0}
    /\ Limit \in Nat
    /\ Bars \subseteq 0 .. 100 /\ Bars # {}
    /\ GradeAttempts \in Nat \ {0}

VARIABLES
    present,  \* the quiz's questions
    removed,  \* the questions deleted from it
    bar,      \* its passing percentage
    attempt,  \* the rows of quiz_attempts
    answer,   \* the rows of attempt_answers
    queued,     \* the attempts with a grading job queued
    misses,   \* how many runs of an attempt's job have failed
    item,     \* grade_items: what the gradebook says the quiz is worth
    entry,    \* grade_entries: the learner's mark
    settled,  \* the attempts whose pass was handed to package enroll
    req, grader, marker   \* transactions in flight

rows == <<attempt, answer, queued, misses, item, entry, settled>>
quiz == <<present, removed, bar>>
txs  == <<req, grader, marker>>
quizVars == <<present, removed, bar, attempt, answer, queued, misses, item, entry,
              settled, req, grader, marker>>

(* A response is what the machine would make of it; a blank one is not right,
   and of an essay a machine makes nothing.                                 *)
Responses == {"right", "not"}
Submitted == {"awaiting_review", "graded"}
AttemptStatuses == {"none", "in_progress", "grading"} \cup Submitted
AttemptRows == [status: AttemptStatuses, points: Nat, max: Nat, passed: BOOLEAN]
AnswerRows  == [there: BOOLEAN, response: Responses, graded: BOOLEAN, awarded: BOOLEAN]
Entries     == [points: Nat, max: Nat]

NoAttempt == [status |-> "none", points |-> 0, max |-> 0, passed |-> FALSE]
NoAnswer  == [there |-> FALSE, response |-> "not", graded |-> FALSE, awarded |-> FALSE]
NoEntry   == [points |-> 0, max |-> 0]

Nobody == 0   \* the number of no attempt

ReqStates ==
    [at: {"idle", "start"}] \cup
    [at: {"save"}, n: Numbers, q: Questions, response: Responses]
GraderStates ==
    [on: {Nobody}] \cup
    [on: Numbers, asked: SUBSET Questions, right: SUBSET Questions, bar: Bars]
MarkerStates ==
    [at: {"idle"}] \cup
    [at: {"write", "count"}, n: Numbers, q: Questions, award: BOOLEAN] \cup
    [at: {"finish"}, n: Numbers, q: Questions, award: BOOLEAN,
     points: Nat, unmarked: BOOLEAN, bar: Bars]

AtRest == [at |-> "idle"]
NoRun == [on |-> Nobody]

QuizTypeOK ==
    /\ present \subseteq Questions /\ removed \subseteq Questions \ present
    /\ bar \in Bars
    /\ attempt \in [Numbers -> AttemptRows]
    /\ answer \in [Numbers -> [Questions -> AnswerRows]]
    /\ \A n \in Numbers : \A q \in Questions : answer[n][q].there => q \in present
    /\ queued \subseteq Numbers /\ settled \subseteq Numbers
    /\ misses \in [Numbers -> Nat]
    /\ item \in Nat /\ entry \in Entries
    /\ req \in [Requests -> ReqStates]
    /\ grader \in [Workers -> GraderStates]
    /\ marker \in [Markers -> MarkerStates]

QuizInit ==
    /\ present = Questions \ Revisable /\ removed = {}
    /\ bar \in Bars
    /\ attempt = [n \in Numbers |-> NoAttempt]
    /\ answer = [n \in Numbers |-> [q \in Questions |-> NoAnswer]]
    /\ queued = {} /\ settled = {}
    /\ misses = [n \in Numbers |-> 0]
    /\ item = Cardinality(present) /\ entry = NoEntry
    /\ req = [r \in Requests |-> AtRest]
    /\ grader = [w \in Workers |-> NoRun]
    /\ marker = [m \in Markers |-> AtRest]

-----------------------------------------------------------------------------
(* The learner. *)

Taken == {n \in Numbers : attempt[n].status # "none"}
LiveAttempt == \E n \in Numbers : attempt[n].status = "in_progress"

(* A live attempt is the answer to "start", and needs no step. *)
StartChecks(r) ==
    /\ req[r] = AtRest
    /\ present # {}
    /\ ~LiveAttempt
    /\ Limit > 0 => Cardinality(Taken) < Limit
    /\ req' = [req EXCEPT ![r] = [at |-> "start"]]
    /\ UNCHANGED <<quiz, rows, grader, marker>>

(* The partial unique index decides; the loser's transaction is aborted. *)
StartInserts(r) ==
    /\ req[r].at = "start"
    /\ \E n \in Numbers :
          /\ n = Cardinality(Taken) + 1
          /\ attempt' = IF LiveAttempt THEN attempt
                        ELSE [attempt EXCEPT ![n].status = "in_progress"]
    /\ req' = [req EXCEPT ![r] = AtRest]
    /\ UNCHANGED <<quiz, answer, queued, misses, item, entry, settled, grader, marker>>

(* The statement that saves has looked at the attempt and the question. *)
SaveChecks(r, n, q, response) ==
    /\ req[r] = AtRest
    /\ attempt[n].status = "in_progress"
    /\ q \in present
    /\ response = "right" => q \notin Essays
    /\ req' = [req EXCEPT ![r] =
                 [at |-> "save", n |-> n, q |-> q, response |-> response]]
    /\ UNCHANGED <<quiz, rows, grader, marker>>

SaveWrites(r) ==
    /\ req[r].at = "save"
    /\ req[r].q \in present
    /\ answer' = [answer EXCEPT ![req[r].n][req[r].q].there = TRUE,
                                ![req[r].n][req[r].q].response = req[r].response]
    /\ req' = [req EXCEPT ![r] = AtRest]
    /\ UNCHANGED <<quiz, attempt, queued, misses, item, entry, settled, grader,
                   marker>>

RequestFails(r) ==
    /\ req[r] # AtRest
    /\ req' = [req EXCEPT ![r] = AtRest]
    /\ UNCHANGED <<quiz, rows, grader, marker>>

(* Mutant: the job is not part of the submission's transaction. *)
SubmitUnqueued(n) ==
    /\ attempt[n].status = "in_progress"
    /\ attempt' = [attempt EXCEPT ![n].status = "grading"]
    /\ UNCHANGED <<quiz, answer, queued, misses, item, entry, settled, txs>>

Submit(n) ==
    /\ attempt[n].status = "in_progress"
    /\ attempt' = [attempt EXCEPT ![n].status = "grading"]
    /\ queued' = queued \cup {n}
    /\ UNCHANGED <<quiz, answer, misses, item, entry, settled, txs>>

-----------------------------------------------------------------------------
(* What follows a score. *)

Passes(points, max, percent) == max = 0 \/ points * 100 >= percent * max

(* Mutant: the latest mark replaces a better one. *)
LastMark(row) == [points |-> row.points, max |-> row.max]

(* UpsertEntry with KeepHighest: fractions, cross-multiplied. *)
BestMark(row) ==
    IF entry.max = 0 \/ row.points * entry.max > entry.points * row.max
    THEN [points |-> row.points, max |-> row.max]
    ELSE entry

Record(row) ==
    LET counts == row.status = "graded" /\ row.max > 0 IN
    /\ item'  = IF counts THEN row.max ELSE item
    /\ entry' = IF counts THEN BestMark(row) ELSE entry

(* Mutant: a pass settles only when it betters the gradebook. *)
SettleBetter(n, row) ==
    settled' = IF row.status = "graded" /\ row.passed /\ entry' # entry
               THEN settled \cup {n} ELSE settled

Settle(n, row) ==
    settled' = IF row.status = "graded" /\ row.passed
               THEN settled \cup {n} ELSE settled

-----------------------------------------------------------------------------
(* The grading job, claimed by one worker at a time and run again after a
   failure until it has failed GradeAttempts times.                         *)

(* Mutant: a job run again grades again. *)
GradeReadsAgain(w, n) ==
    /\ grader[w] = NoRun /\ n \in queued
    /\ \A v \in Workers : grader[v].on # n
    /\ grader' = [grader EXCEPT ![w] =
         [on |-> n, asked |-> present, bar |-> bar,
          right |-> {q \in present \ Essays : answer[n][q].response = "right"}]]
    /\ UNCHANGED <<quiz, rows, req, marker>>

(* Three statements, for the quiz, its questions and the responses.  One step
   stands for them: what others commit between two of them - an edit of the bar,
   a question added, a save that comes late - is of different rows, and could
   have come in the order that puts all three reads together; a question deleted
   between them fails the write below.                                      *)
GradeReads(w, n) ==
    /\ grader[w] = NoRun /\ n \in queued
    /\ \A v \in Workers : grader[v].on # n
    /\ attempt[n].status = "grading"
    /\ grader' = [grader EXCEPT ![w] =
         [on |-> n, asked |-> present, bar |-> bar,
          right |-> {q \in present \ Essays : answer[n][q].response = "right"}]]
    /\ UNCHANGED <<quiz, rows, req, marker>>

(* Mutant: an essay is graded like the rest. *)
MachineRow(run) ==
    [status |-> "graded", points |-> Cardinality(run.right),
     max |-> Cardinality(run.asked),
     passed |-> Passes(Cardinality(run.right), Cardinality(run.asked), run.bar)]

GradedRow(run) ==
    LET awaiting == run.asked \cap Essays # {} IN
    [status |-> IF awaiting THEN "awaiting_review" ELSE "graded",
     points |-> Cardinality(run.right),
     max |-> Cardinality(run.asked),
     passed |-> ~awaiting /\ Passes(Cardinality(run.right), Cardinality(run.asked), run.bar)]

(* A question gone since it was read fails the write of its verdict. *)
GradeWrites(w) ==
    LET run == grader[w] IN
    /\ run # NoRun
    /\ run.asked \subseteq present
    /\ answer' = [answer EXCEPT ![run.on] = [q \in Questions |->
                    IF q \in run.asked
                    THEN [there |-> TRUE, response |-> @[q].response,
                          graded |-> q \notin Essays, awarded |-> q \in run.right]
                    ELSE @[q]]]
    /\ attempt' = [attempt EXCEPT ![run.on] = GradedRow(run)]
    /\ Record(GradedRow(run))
    /\ Settle(run.on, GradedRow(run))
    /\ grader' = [grader EXCEPT ![w] = NoRun]
    /\ UNCHANGED <<quiz, queued, misses, req, marker>>

(* The run that fails once too often is the last: the queue discards the job. *)
GradeFails(w) ==
    LET n == grader[w].on IN
    /\ grader[w] # NoRun
    /\ misses' = [misses EXCEPT ![n] = @ + 1]
    /\ queued' = IF misses[n] + 1 < GradeAttempts THEN queued ELSE queued \ {n}
    /\ grader' = [grader EXCEPT ![w] = NoRun]
    /\ UNCHANGED <<quiz, attempt, answer, item, entry, settled, req, marker>>

(* A run that finds the attempt out of "grading" has nothing to do. *)
CloseJob(n) ==
    /\ n \in queued
    /\ attempt[n].status # "grading"
    /\ \A w \in Workers : grader[w].on # n
    /\ queued' = queued \ {n}
    /\ misses' = [misses EXCEPT ![n] = 0]
    /\ UNCHANGED <<quiz, attempt, answer, item, entry, settled, txs>>

-----------------------------------------------------------------------------
(* Marking an essay. *)

Held(n, q) == \E m \in Markers : /\ marker[m].at \in {"count", "finish"}
                                 /\ marker[m].n = n /\ marker[m].q = q

(* The checks, and the snapshot of the UPDATE that repeats them. *)
MarkChecks(m, n, q, award) ==
    /\ marker[m] = AtRest
    /\ attempt[n].status = "awaiting_review"
    /\ q \in present \cap Essays
    /\ answer[n][q].there
    /\ marker' = [marker EXCEPT ![m] =
                    [at |-> "write", n |-> n, q |-> q, award |-> award]]
    /\ UNCHANGED <<quiz, rows, req, grader>>

(* The UPDATE gets the answer's row; the attempt it checked is not locked. *)
MarkWrites(m) ==
    /\ marker[m].at = "write"
    /\ answer[marker[m].n][marker[m].q].there
    /\ ~Held(marker[m].n, marker[m].q)
    /\ marker' = [marker EXCEPT ![m].at = "count"]
    /\ UNCHANGED <<quiz, rows, req, grader>>

(* RecomputeAttempt counts in its own snapshot, which has this mark, and may
   then wait for the attempt's row.                                          *)
MarkCounts(m) ==
    LET it     == marker[m]
        others == {q \in Questions \ {it.q} : answer[it.n][q].there}
        own    == IF it.award THEN {it.q} ELSE {}
    IN
    /\ it.at = "count"
    /\ marker' = [marker EXCEPT ![m] =
         [at |-> "finish", n |-> it.n, q |-> it.q, award |-> it.award,
          points |-> Cardinality({q \in others : answer[it.n][q].awarded} \cup own),
          unmarked |-> \E q \in others : ~answer[it.n][q].graded,
          bar |-> bar]]
    /\ UNCHANGED <<quiz, rows, req, grader>>

(* max_points stays as the machine froze it. *)
MarkedRow(it) ==
    LET max == attempt[it.n].max IN
    [status |-> IF it.unmarked THEN "awaiting_review" ELSE "graded",
     points |-> it.points, max |-> max,
     passed |-> ~it.unmarked /\ Passes(it.points, max, it.bar)]

MarkFinishes(m) ==
    LET it == marker[m] IN
    /\ it.at = "finish"
    /\ answer' = [answer EXCEPT ![it.n][it.q].graded = TRUE,
                                ![it.n][it.q].awarded = it.award]
    /\ attempt' = [attempt EXCEPT ![it.n] = MarkedRow(it)]
    /\ Record(MarkedRow(it))
    /\ Settle(it.n, MarkedRow(it))
    /\ marker' = [marker EXCEPT ![m] = AtRest]
    /\ UNCHANGED <<quiz, queued, misses, req, grader>>

MarkFails(m) ==
    /\ marker[m] # AtRest
    /\ marker' = [marker EXCEPT ![m] = AtRest]
    /\ UNCHANGED <<quiz, rows, req, grader>>

-----------------------------------------------------------------------------
(* The author.  The gradebook's item follows the quiz; attempts do not. *)

SyncItem == item' = IF present' = {} THEN item ELSE Cardinality(present')

AddQuestion(q) ==
    /\ q \in Revisable \ (present \cup removed)
    /\ present' = present \cup {q}
    /\ SyncItem
    /\ UNCHANGED <<removed, bar, attempt, answer, queued, misses, entry, settled, txs>>

(* Mutant: the answers to a deleted question stay. *)
RemoveQuestionOnly(q) ==
    /\ q \in Revisable \cap present
    /\ \A n \in Numbers : ~Held(n, q)
    /\ present' = present \ {q}
    /\ removed' = removed \cup {q}
    /\ SyncItem
    /\ UNCHANGED <<bar, attempt, answer, queued, misses, entry, settled, txs>>

(* The answers to it go with it. *)
RemoveQuestion(q) ==
    /\ q \in Revisable \cap present
    /\ \A n \in Numbers : ~Held(n, q)
    /\ present' = present \ {q}
    /\ removed' = removed \cup {q}
    /\ answer' = [n \in Numbers |-> [answer[n] EXCEPT ![q] = NoAnswer]]
    /\ SyncItem
    /\ UNCHANGED <<bar, attempt, queued, misses, entry, settled, txs>>

EditQuiz(percent) ==
    /\ bar' = percent
    /\ UNCHANGED <<present, removed, rows, txs>>

-----------------------------------------------------------------------------
LearnerSteps ==
    \/ \E r \in Requests :
          \/ StartChecks(r) \/ StartInserts(r)
          \/ \E n \in Numbers : \E q \in Questions :
                \E response \in Responses : SaveChecks(r, n, q, response)
          \/ SaveWrites(r) \/ RequestFails(r)
    \/ \E n \in Numbers : Submit(n)

GradingSteps ==
    \/ \E w \in Workers :
          \/ \E n \in Numbers : GradeReads(w, n)
          \/ GradeWrites(w) \/ GradeFails(w)
    \/ \E n \in Numbers : CloseJob(n)

MarkingSteps ==
    \E m \in Markers :
        \/ \E n \in Numbers : \E q \in Questions : \E award \in BOOLEAN :
              MarkChecks(m, n, q, award)
        \/ MarkWrites(m) \/ MarkCounts(m) \/ MarkFinishes(m) \/ MarkFails(m)

QuizAuthorSteps ==
    \/ \E q \in Questions : AddQuestion(q) \/ RemoveQuestion(q)
    \/ \E percent \in Bars : EditQuiz(percent)

QuizNext == LearnerSteps \/ GradingSteps \/ MarkingSteps \/ QuizAuthorSteps

QuizSpec == QuizInit /\ [][QuizNext]_quizVars

-----------------------------------------------------------------------------
(* An attempt waiting to be graded has a job that will grade it, unless as many
   of its runs failed as the queue allows: the submission queues it, and a run
   lets it go only when it finds the attempt graded or fails for the last time.
   Then it stays in "grading" for ever, as the comment of TryCompleteLesson
   says.  assess/jobs.go, InsertOpts; enroll/service.go, TryCompleteLesson.  *)
GradingHasJob ==
    \A n \in Numbers :
        attempt[n].status = "grading" => n \in queued \/ misses[n] >= GradeAttempts

(* The gradebook never shows less than any graded attempt earned, in whatever
   order the attempts were graded and however the quiz's worth changed between
   them.                                                                    *)
BestIsKept ==
    \A n \in Numbers : attempt[n].status = "graded" /\ attempt[n].max > 0 =>
        /\ entry.max > 0
        /\ entry.points * attempt[n].max >= attempt[n].points * entry.max

(* Nobody is told they passed or failed while an answer is still unmarked, a
   late save and two people marking at once included.                       *)
GradedMeansMarked ==
    \A n \in Numbers : attempt[n].status = "graded" =>
        \A q \in Questions : answer[n][q].there => answer[n][q].graded

(* What a person marked stays marked: no retry of the grading job, and no save
   that comes late, takes it back.                                          *)
HandMarksStay ==
    [][\A n \in Numbers : \A q \in Essays :
          answer[n][q].graded /\ q \in present' => answer'[n][q].graded]_quizVars

(* A pass has completed its lesson, or tried to, in the transaction that gave
   it: by the job, or by the last mark.                                     *)
PassIsSettled ==
    \A n \in Numbers :
        attempt[n].status = "graded" /\ attempt[n].passed => n \in settled

(* Marking the last essay finishes the attempt: when nobody is marking, an
   attempt that awaits review has an essay left to mark.                    *)
AwaitingHasWork ==
    (\A m \in Markers : marker[m] = AtRest) =>
        \A n \in Numbers : attempt[n].status = "awaiting_review" =>
            \E q \in present \cap Essays : answer[n][q].there /\ ~answer[n][q].graded
=============================================================================
