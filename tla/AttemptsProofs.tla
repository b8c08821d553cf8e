--------------------------- MODULE AttemptsProofs ---------------------------
(* What holds of a learner's attempts for any quiz, any number of attempts and
   any number of requests, workers and markers in flight.                   *)
EXTENDS Attempts, FiniteSetTheorems, TLAPS

LEMMA CardTyped ==
    ASSUME NEW S \in SUBSET Questions
    PROVE  Cardinality(S) \in Nat
BY AttemptAssumption, FS_Subset, FS_CardinalityType

LEMMA SaveTyped ==
    ASSUME QuizTypeOK, NEW r \in Requests, req[r].at = "save"
    PROVE  /\ req[r].n \in Numbers /\ req[r].q \in Questions
           /\ req[r].response \in Responses
BY DEF QuizTypeOK, ReqStates

LEMMA RunTyped ==
    ASSUME QuizTypeOK, NEW w \in Workers, grader[w] # NoRun
    PROVE  /\ grader[w].on \in Numbers
           /\ grader[w].asked \in SUBSET Questions
           /\ grader[w].right \in SUBSET Questions
           /\ grader[w].bar \in Bars
BY DEF QuizTypeOK, GraderStates, NoRun

LEMMA FreeIsNobody ==
    ASSUME QuizTypeOK, NEW w \in Workers
    PROVE  grader[w].on \in Numbers <=> grader[w] # NoRun
BY AttemptAssumption DEF QuizTypeOK, GraderStates, NoRun, Nobody

LEMMA MarkTyped ==
    ASSUME QuizTypeOK, NEW m \in Markers, marker[m] # AtRest
    PROVE  /\ marker[m].at \in {"write", "count", "finish"}
           /\ marker[m].n \in Numbers /\ marker[m].q \in Questions
           /\ marker[m].award \in BOOLEAN
           /\ marker[m].at = "finish" =>
                /\ marker[m].points \in Nat /\ marker[m].unmarked \in BOOLEAN
                /\ marker[m].bar \in Bars
BY DEF QuizTypeOK, MarkerStates, AtRest

(* Marks are compared as fractions: the better of two beats all that the worse
   one beat.                                                                *)
LEMMA BetterBeats ==
    ASSUME NEW p \in Nat, NEW x \in Nat, NEW a \in Nat, NEW b \in Nat,
           NEW c \in Nat, NEW d \in Nat, b > 0, d > 0, x > 0,
           a * d > c * b, c * x >= p * d
    PROVE  a * x >= p * b
<1>1. (a * d) * x >= (c * b) * x
  OBVIOUS
<1>2. (c * x) * b >= (p * d) * b
  OBVIOUS
<1>3. (a * x) * d >= (p * b) * d
  BY <1>1, <1>2
<1>4. CASE a * x < p * b
  <2>1. (a * x) * d < (p * b) * d
    BY <1>4
  <2> QED BY <2>1, <1>3
<1> QED BY <1>4

LEMMA MarkKept ==
    ASSUME entry \in Entries, NEW row \in AttemptRows, row.max > 0
    PROVE  /\ BestMark(row) \in Entries
           /\ BestMark(row).max > 0
           /\ BestMark(row).points * row.max >= row.points * BestMark(row).max
           /\ \A p, x \in Nat :
                x > 0 /\ entry.max > 0 /\ entry.points * x >= p * entry.max
                => BestMark(row).points * x >= p * BestMark(row).max
<1>1. /\ row.points \in Nat /\ row.max \in Nat
      /\ entry.points \in Nat /\ entry.max \in Nat
  BY DEF AttemptRows, Entries
<1>2. CASE entry.max = 0
  BY <1>1, <1>2 DEF BestMark, Entries
<1>3. CASE entry.max > 0 /\ row.points * entry.max > entry.points * row.max
  <2>1. BestMark(row) = [points |-> row.points, max |-> row.max]
    BY <1>3 DEF BestMark
  <2>2. \A p, x \in Nat : x > 0 /\ entry.points * x >= p * entry.max
            => row.points * x >= p * row.max
    BY <1>1, <1>3, BetterBeats
  <2>3. /\ BestMark(row) \in Entries /\ BestMark(row).points = row.points
        /\ BestMark(row).max = row.max
    BY <1>1, <2>1 DEF Entries
  <2>4. row.points * row.max >= row.points * row.max
    <3>1. row.points * row.max \in Nat
      BY <1>1
    <3> QED BY <3>1
  <2> QED BY <2>2, <2>3, <2>4
<1>4. CASE entry.max > 0 /\ ~(row.points * entry.max > entry.points * row.max)
  <2>1. BestMark(row) = entry
    BY <1>1, <1>4 DEF BestMark
  <2>2. entry.points * row.max >= row.points * entry.max
    <3>1. row.points * entry.max \in Nat /\ entry.points * row.max \in Nat
      BY <1>1
    <3> QED BY <3>1, <1>4
  <2> QED BY <1>1, <1>4, <2>1, <2>2
<1> QED BY <1>1, <1>2, <1>3, <1>4

-----------------------------------------------------------------------------
(* The inductive invariant.

   Attempts are numbered as they come.  A run of the grading job has the
   attempt to itself while it is in "grading"; it asks of every question that
   has an answer, and a save still under way is of a question it asks of, or
   of one that is gone.  Nothing is graded before the attempt is, and a
   recount that found every other essay marked still finds it so.           *)
NumbersInOrder == \E k \in Nat : Taken = 1 .. k

UngradedEarly ==
    \A n \in Numbers : attempt[n].status \notin Submitted =>
        \A q \in Questions : ~answer[n][q].graded

RowsRight ==
    /\ GradingHasJob /\ BestIsKept /\ GradedMeansMarked /\ PassIsSettled
    /\ NumbersInOrder /\ UngradedEarly

RunsAreGrading ==
    \A w \in Workers : grader[w] # NoRun => attempt[grader[w].on].status = "grading"

RunsAreAlone ==
    \A v, w \in Workers :
        v # w /\ grader[v] # NoRun /\ grader[w] # NoRun => grader[v].on # grader[w].on

RunsAskAll ==
    \A w \in Workers : grader[w] # NoRun =>
        \A q \in Questions : answer[grader[w].on][q].there => q \in grader[w].asked

RunsRight == RunsAreGrading /\ RunsAreAlone /\ RunsAskAll

SaveSeen(save) ==
    /\ attempt[save.n].status # "none"
    /\ save.q \in present \cup removed
    /\ save.q \in present =>
         /\ attempt[save.n].status \in Submitted => answer[save.n][save.q].there
         /\ \A w \in Workers :
               grader[w] # NoRun /\ grader[w].on = save.n => save.q \in grader[w].asked

SavesRight == \A r \in Requests : req[r].at = "save" => SaveSeen(req[r])

MarksComeLate ==
    \A m \in Markers : marker[m] # AtRest => attempt[marker[m].n].status \in Submitted

CountsStand ==
    \A m \in Markers : marker[m].at = "finish" /\ ~marker[m].unmarked =>
        \A q \in Questions \ {marker[m].q} :
            answer[marker[m].n][q].there => answer[marker[m].n][q].graded

MarksRight == MarksComeLate /\ CountsStand

AttemptInv == QuizTypeOK /\ RowsRight /\ RunsRight /\ SavesRight /\ MarksRight

LEMMA AttemptInit == QuizInit => AttemptInv
<1> SUFFICES ASSUME QuizInit PROVE AttemptInv
  OBVIOUS
<1>1. /\ AtRest \in ReqStates /\ AtRest \in MarkerStates /\ NoRun \in GraderStates
      /\ NoAttempt \in AttemptRows /\ NoAnswer \in AnswerRows /\ NoEntry \in Entries
  BY DEF AtRest, NoRun, ReqStates, MarkerStates, GraderStates, NoAttempt, AttemptRows,
     AttemptStatuses, NoAnswer, AnswerRows, Responses, NoEntry, Entries
<1>2. Cardinality(Questions \ Revisable) \in Nat
  BY CardTyped
<1>3. QuizTypeOK
  BY <1>1, <1>2 DEF QuizInit, QuizTypeOK, NoAnswer
<1>4. NumbersInOrder
  <2>1. Taken = 1 .. 0
    BY DEF QuizInit, Taken, NoAttempt
  <2> QED BY <2>1 DEF NumbersInOrder
<1>5. RowsRight
  BY <1>4 DEF QuizInit, RowsRight, GradingHasJob, BestIsKept, GradedMeansMarked,
     PassIsSettled, UngradedEarly, NoAttempt, NoAnswer
<1>6. RunsRight /\ SavesRight /\ MarksRight
  BY DEF QuizInit, RunsRight, RunsAreGrading, RunsAreAlone, RunsAskAll, SavesRight,
     MarksRight, MarksComeLate, CountsStand, AtRest
<1> QED BY <1>3, <1>5, <1>6 DEF AttemptInv

(* What a step does not touch stays right. *)
LEMMA RowsFramed ==
    ASSUME AttemptInv, UNCHANGED rows
    PROVE  RowsRight'
BY DEF AttemptInv, rows, RowsRight, GradingHasJob, BestIsKept, GradedMeansMarked,
   PassIsSettled, NumbersInOrder, Taken, UngradedEarly

LEMMA RunsFramed ==
    ASSUME AttemptInv, UNCHANGED <<attempt, answer, grader>>
    PROVE  RunsRight'
BY DEF AttemptInv, RunsRight, RunsAreGrading, RunsAreAlone, RunsAskAll

LEMMA SavesFramed ==
    ASSUME AttemptInv, UNCHANGED <<present, removed, attempt, answer, grader, req>>
    PROVE  SavesRight'
BY DEF AttemptInv, SavesRight, SaveSeen

LEMMA MarksFramed ==
    ASSUME AttemptInv, UNCHANGED <<attempt, answer, marker>>
    PROVE  MarksRight'
BY DEF AttemptInv, MarksRight, MarksComeLate, CountsStand

-----------------------------------------------------------------------------
(* The learner's requests. *)
LEMMA RequestsFramed ==
    ASSUME AttemptInv, NEW r \in Requests, NEW state \in ReqStates,
           req' = [req EXCEPT ![r] = state],
           UNCHANGED <<quiz, rows, grader, marker>>,
           state.at = "save" => SaveSeen(state)
    PROVE  AttemptInv'
<1>1. UNCHANGED <<present, removed, bar, attempt, answer, queued, misses, item, entry, settled>>
  BY DEF quiz, rows
<1>2. QuizTypeOK'
  BY <1>1 DEF AttemptInv, QuizTypeOK
<1>3. RowsRight' /\ RunsRight' /\ MarksRight'
  BY <1>1, RowsFramed, RunsFramed, MarksFramed DEF rows
<1>4. SavesRight'
  BY <1>1 DEF AttemptInv, QuizTypeOK, SavesRight, SaveSeen
<1> QED BY <1>2, <1>3, <1>4 DEF AttemptInv

LEMMA StartChecksKeeps ==
    ASSUME AttemptInv, NEW r \in Requests, StartChecks(r)
    PROVE  AttemptInv'
<1>1. [at |-> "start"] \in ReqStates
  BY DEF ReqStates
<1> QED BY <1>1, RequestsFramed DEF StartChecks

LEMMA RequestFailsKeeps ==
    ASSUME AttemptInv, NEW r \in Requests, RequestFails(r)
    PROVE  AttemptInv'
<1>1. AtRest \in ReqStates /\ AtRest.at = "idle"
  BY DEF AtRest, ReqStates
<1> QED BY <1>1, RequestsFramed DEF RequestFails

LEMMA SaveChecksKeeps ==
    ASSUME AttemptInv, NEW r \in Requests, NEW n \in Numbers, NEW q \in Questions,
           NEW response \in Responses, SaveChecks(r, n, q, response)
    PROVE  AttemptInv'
<1> DEFINE save == [at |-> "save", n |-> n, q |-> q, response |-> response]
<1>1. save \in ReqStates
  BY DEF ReqStates
<1>2. SaveSeen(save)
  BY DEF SaveSeen, SaveChecks, AttemptInv, RunsRight, RunsAreGrading, Submitted
<1> QED BY <1>1, <1>2, RequestsFramed DEF SaveChecks

(* The attempt that starts is numbered after all there are. *)
LEMMA StartInsertsKeeps ==
    ASSUME AttemptInv, NEW r \in Requests, StartInserts(r)
    PROVE  AttemptInv'
<1>1. /\ UNCHANGED <<present, removed, bar, answer, queued, misses, item, entry, settled,
                     grader, marker>>
      /\ req' = [req EXCEPT ![r] = AtRest]
  BY DEF StartInserts, quiz
<1>2. AtRest \in ReqStates /\ AtRest.at = "idle"
  BY DEF AtRest, ReqStates
<1>3. CASE attempt' = attempt
  BY <1>1, <1>2, <1>3, RequestsFramed DEF quiz, rows
<1>4. CASE attempt' # attempt
  <2>1. PICK n \in Numbers :
          /\ n = Cardinality(Taken) + 1
          /\ attempt' = [attempt EXCEPT ![n].status = "in_progress"]
    BY <1>4 DEF StartInserts
  <2>2. PICK k \in Nat : Taken = 1 .. k
    BY DEF AttemptInv, RowsRight, NumbersInOrder
  <2>3. n = k + 1
    BY <2>1, <2>2, FS_Interval
  <2>4. attempt[n].status = "none"
    BY <2>2, <2>3 DEF Taken
  <2>5. attempt \in [Numbers -> AttemptRows]
    BY DEF AttemptInv, QuizTypeOK
  <2>6. attempt'[n].status = "in_progress"
    BY <2>1, <2>5 DEF AttemptRows
  <2>7. \A i \in Numbers \ {n} : attempt'[i] = attempt[i]
    BY <2>1, <2>5
  <2>8. attempt' \in [Numbers -> AttemptRows]
    BY <2>1, <2>5 DEF AttemptRows, AttemptStatuses
  <2>9. QuizTypeOK'
    BY <1>1, <1>2, <2>8 DEF AttemptInv, QuizTypeOK
  <2>10. NumbersInOrder'
    <3>1. Taken' = Taken \cup {n}
      BY <2>5, <2>6, <2>7 DEF Taken
    <3>2. Taken' = 1 .. (k + 1)
      BY <3>1, <2>2, <2>3
    <3> QED BY <3>2 DEF NumbersInOrder
  <2>11. RowsRight'
    BY <1>1, <2>4, <2>6, <2>7, <2>10 DEF AttemptInv, RowsRight, GradingHasJob,
       BestIsKept, GradedMeansMarked, PassIsSettled, UngradedEarly, Submitted
  <2>12. RunsRight'
    BY <1>1, <2>4, <2>7, RunTyped DEF AttemptInv, RunsRight, RunsAreGrading,
       RunsAreAlone, RunsAskAll
  <2>13. SavesRight'
    <3> SUFFICES ASSUME NEW s \in Requests, req'[s].at = "save" PROVE SaveSeen(req[s])' 
      BY DEF SavesRight
    <3>1. req'[s] = req[s]
      BY <1>1, <1>2 DEF AttemptInv, QuizTypeOK
    <3>2. req[s].n # n /\ req[s].n \in Numbers /\ SaveSeen(req[s])
      BY <2>4, <3>1, SaveTyped DEF AttemptInv, SavesRight, SaveSeen
    <3> QED BY <1>1, <2>7, <3>1, <3>2 DEF SaveSeen
  <2>14. MarksRight'
    BY <1>1, <2>4, <2>7, MarkTyped DEF AttemptInv, MarksRight, MarksComeLate,
       CountsStand, Submitted
  <2> QED BY <2>9, <2>11, <2>12, <2>13, <2>14 DEF AttemptInv
<1> QED BY <1>3, <1>4

(* What a save and a mark do to the answers, cell by cell. *)
LEMMA SaveEffect ==
    ASSUME QuizTypeOK, NEW r \in Requests, SaveWrites(r)
    PROVE  /\ answer' \in [Numbers -> [Questions -> AnswerRows]]
           /\ answer'[req[r].n][req[r].q].there
           /\ \A i \in Numbers : \A q \in Questions :
                 /\ answer'[i][q].graded = answer[i][q].graded
                 /\ ~(i = req[r].n /\ q = req[r].q) => answer'[i][q] = answer[i][q]
<1> DEFINE n   == req[r].n
           p   == req[r].q
           new == [answer[n][p] EXCEPT !.there = TRUE, !.response = req[r].response]
<1>1. n \in Numbers /\ p \in Questions /\ req[r].response \in Responses
  BY SaveTyped DEF SaveWrites
<1>2. answer \in [Numbers -> [Questions -> AnswerRows]] /\ answer[n][p] \in AnswerRows
  BY <1>1 DEF QuizTypeOK
<1>3. new \in AnswerRows /\ new.there /\ new.graded = answer[n][p].graded
  BY <1>1, <1>2 DEF AnswerRows
<1>4. answer' = [answer EXCEPT ![n] = [answer[n] EXCEPT ![p] = new]]
  BY <1>1, <1>2 DEF SaveWrites
<1> HIDE DEF new
<1>5. /\ answer'[n] = [answer[n] EXCEPT ![p] = new]
      /\ \A i \in Numbers \ {n} : answer'[i] = answer[i]
  BY <1>1, <1>2, <1>4
<1>6. /\ answer'[n][p] = new
      /\ \A q \in Questions \ {p} : answer'[n][q] = answer[n][q]
  BY <1>1, <1>2, <1>5
<1>7. answer' \in [Numbers -> [Questions -> AnswerRows]]
  BY <1>1, <1>2, <1>3, <1>4
<1> QED BY <1>3, <1>5, <1>6, <1>7

LEMMA MarkEffect ==
    ASSUME QuizTypeOK, NEW m \in Markers, MarkFinishes(m)
    PROVE  /\ answer' \in [Numbers -> [Questions -> AnswerRows]]
           /\ answer'[marker[m].n][marker[m].q].graded
           /\ \A i \in Numbers : \A q \in Questions :
                 /\ answer'[i][q].there = answer[i][q].there
                 /\ answer[i][q].graded => answer'[i][q].graded
                 /\ ~(i = marker[m].n /\ q = marker[m].q) => answer'[i][q] = answer[i][q]
<1> DEFINE n   == marker[m].n
           p   == marker[m].q
           new == [answer[n][p] EXCEPT !.graded = TRUE, !.awarded = marker[m].award]
<1>1. n \in Numbers /\ p \in Questions /\ marker[m].award \in BOOLEAN
  BY SMTT(30), MarkTyped DEF MarkFinishes, AtRest
<1>2. answer \in [Numbers -> [Questions -> AnswerRows]] /\ answer[n][p] \in AnswerRows
  BY <1>1 DEF QuizTypeOK
<1>3. new \in AnswerRows /\ new.graded /\ new.there = answer[n][p].there
  BY <1>1, <1>2 DEF AnswerRows
<1>4. answer' = [answer EXCEPT ![n] = [answer[n] EXCEPT ![p] = new]]
  BY <1>1, <1>2 DEF MarkFinishes
<1> HIDE DEF new
<1>5. /\ answer'[n] = [answer[n] EXCEPT ![p] = new]
      /\ \A i \in Numbers \ {n} : answer'[i] = answer[i]
  BY <1>1, <1>2, <1>4
<1>6. /\ answer'[n][p] = new
      /\ \A q \in Questions \ {p} : answer'[n][q] = answer[n][q]
  BY <1>1, <1>2, <1>5
<1>7. answer' \in [Numbers -> [Questions -> AnswerRows]]
  BY <1>1, <1>2, <1>3, <1>4
<1> QED BY <1>3, <1>5, <1>6, <1>7

(* A save that comes late finds its answer there, or a question gone. *)
LEMMA SaveWritesKeeps ==
    ASSUME AttemptInv, NEW r \in Requests, SaveWrites(r)
    PROVE  AttemptInv'
<1> DEFINE n == req[r].n
           p == req[r].q
<1>1. /\ UNCHANGED <<present, removed, bar, attempt, queued, misses, item, entry, settled,
                     grader, marker>>
      /\ req' = [req EXCEPT ![r] = AtRest]
      /\ req[r].at = "save" /\ p \in present
  BY DEF SaveWrites, quiz
<1>2. AtRest \in ReqStates /\ AtRest.at = "idle"
  BY DEF AtRest, ReqStates
<1>3. n \in Numbers /\ p \in Questions /\ QuizTypeOK
  BY <1>1, SaveTyped DEF AttemptInv
<1>4. SaveSeen(req[r])
  BY <1>1 DEF AttemptInv, SavesRight
<1> HIDE DEF n, p
<1>5. /\ answer' \in [Numbers -> [Questions -> AnswerRows]]
      /\ answer'[n][p].there
      /\ \A i \in Numbers : \A q \in Questions :
            /\ answer'[i][q].graded = answer[i][q].graded
            /\ ~(i = n /\ q = p) => answer'[i][q] = answer[i][q]
  BY <1>3, SaveEffect DEF n, p
<1>6. attempt[n].status \in Submitted => answer[n][p].there
  BY <1>1, <1>4 DEF SaveSeen, n, p
<1>7. \A w \in Workers : grader[w] # NoRun /\ grader[w].on = n => p \in grader[w].asked
  BY <1>1, <1>4 DEF SaveSeen, n, p
<1>8. QuizTypeOK'
  BY ZenonT(40), <1>1, <1>2, <1>3, <1>5 DEF QuizTypeOK
<1>9. GradedMeansMarked'
  BY <1>1, <1>5, <1>6 DEF AttemptInv, RowsRight, GradedMeansMarked, Submitted
<1>10. RowsRight'
  BY <1>1, <1>5, <1>9 DEF AttemptInv, RowsRight, GradingHasJob, BestIsKept,
     PassIsSettled, NumbersInOrder, Taken, UngradedEarly
<1>11. RunsRight'
  <2>1. RunsAreGrading' /\ RunsAreAlone'
    BY <1>1 DEF AttemptInv, RunsRight, RunsAreGrading, RunsAreAlone
  <2>2. \A w \in Workers : grader[w] # NoRun => grader[w].on \in Numbers
    BY <1>3, RunTyped
  <2>3. RunsAskAll'
    BY <1>1, <1>5, <1>7, <2>2 DEF AttemptInv, RunsRight, RunsAskAll
  <2> QED BY <2>1, <2>3 DEF RunsRight
<1>12. SavesRight'
  <2> SUFFICES ASSUME NEW s \in Requests, req'[s].at = "save" PROVE SaveSeen(req[s])'
    BY DEF SavesRight
  <2>1. req'[s] = req[s] /\ SaveSeen(req[s])
    BY <1>1, <1>2, <1>3 DEF AttemptInv, QuizTypeOK, SavesRight
  <2>2. req[s].n \in Numbers /\ req[s].q \in Questions
    BY <1>3, <2>1, SaveTyped
  <2> QED BY <1>1, <1>5, <2>1, <2>2 DEF SaveSeen
<1>13. MarksRight'
  <2>1. MarksComeLate'
    BY <1>1 DEF AttemptInv, MarksRight, MarksComeLate
  <2>2. CountsStand'
    <3> SUFFICES ASSUME NEW m \in Markers, marker[m].at = "finish", ~marker[m].unmarked,
                        NEW q \in Questions \ {marker[m].q},
                        answer'[marker[m].n][q].there
                 PROVE  answer'[marker[m].n][q].graded
      BY <1>1 DEF CountsStand
    <3>1. marker[m] # AtRest
      BY DEF AtRest
    <3>2. marker[m].n \in Numbers /\ attempt[marker[m].n].status \in Submitted
      BY <1>3, <3>1, MarkTyped DEF AttemptInv, MarksRight, MarksComeLate
    <3>3. answer[marker[m].n][q].there
      BY <1>5, <1>6, <3>2
    <3> QED BY <1>5, <3>2, <3>3 DEF AttemptInv, MarksRight, CountsStand
  <2> QED BY <2>1, <2>2 DEF MarksRight
<1> QED BY <1>8, <1>10, <1>11, <1>12, <1>13 DEF AttemptInv

LEMMA SubmitKeeps ==
    ASSUME AttemptInv, NEW n \in Numbers, Submit(n)
    PROVE  AttemptInv'
<1>1. /\ UNCHANGED <<present, removed, bar, answer, misses, item, entry, settled,
                     req, grader, marker>>
      /\ queued' = queued \cup {n}
      /\ attempt[n].status = "in_progress"
      /\ attempt' = [attempt EXCEPT ![n].status = "grading"]
      /\ QuizTypeOK
  BY DEF Submit, quiz, txs, AttemptInv
<1>2. /\ attempt' \in [Numbers -> AttemptRows]
      /\ attempt'[n].status = "grading"
      /\ \A i \in Numbers \ {n} : attempt'[i] = attempt[i]
  BY <1>1 DEF QuizTypeOK, AttemptRows, AttemptStatuses
<1>3. QuizTypeOK'
  BY <1>1, <1>2 DEF QuizTypeOK
<1>4. NumbersInOrder'
  <2>1. Taken' = Taken
    BY <1>1, <1>2 DEF Taken
  <2> QED BY <2>1 DEF AttemptInv, RowsRight, NumbersInOrder
<1>5. RowsRight'
  BY <1>1, <1>2, <1>4 DEF AttemptInv, RowsRight, GradingHasJob, BestIsKept,
     GradedMeansMarked, PassIsSettled, UngradedEarly, Submitted
<1>6. RunsRight'
  BY <1>1, <1>2, RunTyped DEF AttemptInv, RunsRight, RunsAreGrading, RunsAreAlone,
     RunsAskAll
<1>7. SavesRight'
  BY <1>1, <1>2, SaveTyped DEF AttemptInv, SavesRight, SaveSeen, Submitted
<1>8. MarksRight'
  BY <1>1, <1>2, MarkTyped DEF AttemptInv, MarksRight, MarksComeLate, CountsStand,
     Submitted
<1> QED BY <1>3, <1>5, <1>6, <1>7, <1>8 DEF AttemptInv

-----------------------------------------------------------------------------
(* The grading job. *)
LEMMA GradeReadsKeeps ==
    ASSUME AttemptInv, NEW w \in Workers, NEW n \in Numbers, GradeReads(w, n)
    PROVE  AttemptInv'
<1> DEFINE run == [on |-> n, asked |-> present, bar |-> bar,
                   right |-> {q \in present \ Essays : answer[n][q].response = "right"}]
<1>1. /\ UNCHANGED <<present, removed, bar, attempt, answer, queued, misses, item, entry,
                     settled, req, marker>>
      /\ grader' = [grader EXCEPT ![w] = run]
      /\ grader[w] = NoRun /\ attempt[n].status = "grading"
      /\ \A v \in Workers : grader[v].on # n
      /\ QuizTypeOK
  BY DEF GradeReads, quiz, rows, AttemptInv
<1>2. run \in GraderStates /\ run.on = n /\ run.asked = present
  BY <1>1 DEF QuizTypeOK, GraderStates
<1> HIDE DEF run
<1>3. grader'[w] = run /\ \A v \in Workers \ {w} : grader'[v] = grader[v]
  BY <1>1 DEF QuizTypeOK
<1>4. QuizTypeOK'
  BY <1>1, <1>2 DEF QuizTypeOK
<1>5. RowsRight' /\ MarksRight'
  BY <1>1, RowsFramed, MarksFramed DEF rows
<1>6. RunsRight'
  BY <1>1, <1>2, <1>3 DEF AttemptInv, RunsRight, RunsAreGrading, RunsAreAlone,
     RunsAskAll, QuizTypeOK
<1>7. SavesRight'
  BY <1>1, <1>2, <1>3 DEF AttemptInv, SavesRight, SaveSeen
<1> QED BY <1>4, <1>5, <1>6, <1>7 DEF AttemptInv

(* A job let go by its last failure leaves the count of its failures. *)
LEMMA GradeFailsKeeps ==
    ASSUME AttemptInv, NEW w \in Workers, GradeFails(w)
    PROVE  AttemptInv'
<1> DEFINE n == grader[w].on
<1>1. /\ UNCHANGED <<present, removed, bar, attempt, answer, item, entry, settled,
                     req, marker>>
      /\ grader' = [grader EXCEPT ![w] = NoRun]
      /\ misses' = [misses EXCEPT ![n] = @ + 1]
      /\ queued' = IF misses[n] + 1 < GradeAttempts THEN queued ELSE queued \ {n}
      /\ n \in Numbers /\ QuizTypeOK
  BY RunTyped DEF GradeFails, quiz, AttemptInv
<1>2. NoRun \in GraderStates
  BY DEF NoRun, GraderStates
<1> HIDE DEF n
<1>3. /\ misses' \in [Numbers -> Nat]
      /\ \A i \in Numbers : misses'[i] >= misses[i]
      /\ queued' \subseteq Numbers
      /\ \A i \in queued : i \in queued' \/ misses'[i] >= GradeAttempts
  BY <1>1, AttemptAssumption DEF QuizTypeOK
<1>4. QuizTypeOK'
  BY <1>1, <1>2, <1>3 DEF QuizTypeOK
<1>5. GradingHasJob'
  <2> SUFFICES ASSUME NEW i \in Numbers, attempt[i].status = "grading"
               PROVE  i \in queued' \/ misses'[i] >= GradeAttempts
    BY <1>1 DEF GradingHasJob
  <2>1. i \in queued \/ misses[i] >= GradeAttempts
    BY DEF AttemptInv, RowsRight, GradingHasJob
  <2>2. misses[i] \in Nat /\ misses'[i] \in Nat /\ GradeAttempts \in Nat
    BY <1>1, <1>3, AttemptAssumption DEF QuizTypeOK
  <2> QED BY <1>3, <2>1, <2>2
<1>6. RowsRight' /\ MarksRight'
  <2>1. RowsRight'
    BY <1>1, <1>5 DEF AttemptInv, RowsRight, BestIsKept, GradedMeansMarked,
       PassIsSettled, NumbersInOrder, Taken, UngradedEarly
  <2> QED BY <1>1, <2>1, MarksFramed
<1>7. \A v \in Workers : grader'[v] # NoRun => grader'[v] = grader[v]
  BY <1>1 DEF QuizTypeOK
<1>8. RunsRight'
  BY <1>1, <1>7 DEF AttemptInv, RunsRight, RunsAreGrading, RunsAreAlone, RunsAskAll
<1>9. SavesRight'
  BY <1>1, <1>7 DEF AttemptInv, SavesRight, SaveSeen
<1> QED BY <1>4, <1>6, <1>8, <1>9 DEF AttemptInv

LEMMA CloseJobKeeps ==
    ASSUME AttemptInv, NEW n \in Numbers, CloseJob(n)
    PROVE  AttemptInv'
<1>1. /\ UNCHANGED <<present, removed, bar, attempt, answer, item, entry, settled,
                     req, grader, marker>>
      /\ queued' = queued \ {n} /\ attempt[n].status # "grading"
      /\ misses' = [misses EXCEPT ![n] = 0]
  BY DEF CloseJob, quiz, txs
<1>2. /\ misses' \in [Numbers -> Nat]
      /\ \A i \in Numbers \ {n} : misses'[i] = misses[i]
  BY <1>1 DEF AttemptInv, QuizTypeOK
<1>3. QuizTypeOK'
  BY <1>1, <1>2 DEF AttemptInv, QuizTypeOK
<1>4. RowsRight'
  BY <1>1, <1>2 DEF AttemptInv, RowsRight, GradingHasJob, BestIsKept,
     GradedMeansMarked, PassIsSettled, NumbersInOrder, Taken, UngradedEarly
<1>5. RunsRight' /\ SavesRight' /\ MarksRight'
  BY <1>1, RunsFramed, SavesFramed, MarksFramed
<1> QED BY <1>3, <1>4, <1>5 DEF AttemptInv

(* What a verdict does outside its attempt's answers: the same from the job and
   from a person.                                                           *)
LEMMA VerdictKeeps ==
    ASSUME AttemptInv, NEW n \in Numbers, attempt[n].status # "none",
           NEW row \in AttemptRows, row.status \in Submitted,
           attempt' = [attempt EXCEPT ![n] = row],
           Record(row), Settle(n, row), UNCHANGED <<queued, misses>>
    PROVE  /\ attempt' \in [Numbers -> AttemptRows]
           /\ attempt'[n] = row /\ \A i \in Numbers \ {n} : attempt'[i] = attempt[i]
           /\ item' \in Nat /\ entry' \in Entries /\ settled' \subseteq Numbers
           /\ GradingHasJob' /\ BestIsKept' /\ PassIsSettled' /\ NumbersInOrder'
<1>1. /\ attempt \in [Numbers -> AttemptRows] /\ entry \in Entries
      /\ item \in Nat /\ settled \subseteq Numbers
  BY DEF AttemptInv, QuizTypeOK
<1>2. /\ attempt' \in [Numbers -> AttemptRows]
      /\ attempt'[n] = row /\ \A i \in Numbers \ {n} : attempt'[i] = attempt[i]
  BY <1>1
<1>3. item' \in Nat /\ entry' \in Entries
  BY <1>1, MarkKept DEF Record, AttemptRows
<1>4. settled' \subseteq Numbers /\ settled \subseteq settled'
  BY <1>1 DEF Settle
<1>5. GradingHasJob'
  BY <1>2 DEF AttemptInv, RowsRight, GradingHasJob, Submitted
<1>6. BestIsKept'
  <2> SUFFICES ASSUME NEW i \in Numbers, attempt'[i].status = "graded", attempt'[i].max > 0
               PROVE  /\ entry'.max > 0
                      /\ entry'.points * attempt'[i].max >= attempt'[i].points * entry'.max
    BY DEF BestIsKept
  <2>1. CASE row.status = "graded" /\ row.max > 0
    <3>1. entry' = BestMark(row)
      BY <2>1 DEF Record
    <3>2. CASE i = n
      BY <1>1, <1>2, <2>1, <3>1, <3>2, MarkKept
    <3>3. CASE i # n
      <4>1. /\ attempt[i].max > 0 /\ entry.max > 0
            /\ entry.points * attempt[i].max >= attempt[i].points * entry.max
            /\ attempt[i].max \in Nat /\ attempt[i].points \in Nat
        BY <1>1, <1>2, <3>3 DEF AttemptInv, RowsRight, BestIsKept, AttemptRows
      <4>2. attempt'[i] = attempt[i]
        BY <1>2, <3>3
      <4> QED BY <1>1, <2>1, <3>1, <4>1, <4>2, MarkKept
    <3> QED BY <3>2, <3>3
  <2>2. CASE ~(row.status = "graded" /\ row.max > 0)
    <3>1. entry' = entry /\ i # n
      BY <1>2, <2>2 DEF Record
    <3>2. attempt'[i] = attempt[i]
      BY <1>2, <3>1
    <3> QED BY <3>1, <3>2 DEF AttemptInv, RowsRight, BestIsKept
  <2> QED BY <2>1, <2>2
<1>7. PassIsSettled'
  BY <1>1, <1>2, <1>4 DEF AttemptInv, RowsRight, PassIsSettled, Settle
<1>8. NumbersInOrder'
  <2>1. Taken' = Taken
    BY <1>2 DEF Taken, Submitted
  <2> QED BY <2>1 DEF AttemptInv, RowsRight, NumbersInOrder
<1> QED BY <1>2, <1>3, <1>4, <1>5, <1>6, <1>7, <1>8

LEMMA GradedRowTyped ==
    ASSUME QuizTypeOK, NEW w \in Workers, grader[w] # NoRun
    PROVE  /\ GradedRow(grader[w]) \in AttemptRows
           /\ GradedRow(grader[w]).status \in Submitted
           /\ GradedRow(grader[w]).status = "graded" => grader[w].asked \cap Essays = {}
<1>1. /\ Cardinality(grader[w].right) \in Nat /\ Cardinality(grader[w].asked) \in Nat
  BY RunTyped, CardTyped
<1> QED BY <1>1 DEF GradedRow, AttemptRows, AttemptStatuses, Submitted

(* The run's verdict covers every answer there is, and those of the saves that
   are still to come.                                                       *)
LEMMA GradeWritesKeeps ==
    ASSUME AttemptInv, NEW w \in Workers, GradeWrites(w)
    PROVE  AttemptInv'
<1> DEFINE n     == grader[w].on
           asked == grader[w].asked
           row   == GradedRow(grader[w])
<1>1. /\ UNCHANGED <<present, removed, bar, queued, misses, req, marker>>
      /\ grader' = [grader EXCEPT ![w] = NoRun]
      /\ grader[w] # NoRun /\ QuizTypeOK
      /\ asked \subseteq present
  BY DEF GradeWrites, quiz, AttemptInv
<1>2. n \in Numbers /\ asked \in SUBSET Questions
  BY <1>1, RunTyped
<1>3. /\ row \in AttemptRows /\ row.status \in Submitted
      /\ row.status = "graded" => asked \cap Essays = {}
  BY <1>1, GradedRowTyped
<1>4. attempt[n].status = "grading"
  BY <1>1 DEF AttemptInv, RunsRight, RunsAreGrading
<1>5. \A q \in Questions : answer[n][q].there => q \in asked
  BY <1>1 DEF AttemptInv, RunsRight, RunsAskAll
<1>6. \A v \in Workers \ {w} : grader'[v] = grader[v] /\ (grader[v] # NoRun => grader[v].on # n)
  BY <1>1 DEF AttemptInv, RunsRight, RunsAreAlone, QuizTypeOK
<1>7. grader'[w] = NoRun /\ NoRun \in GraderStates
  BY <1>1 DEF QuizTypeOK, NoRun, GraderStates
<1>8. attempt' = [attempt EXCEPT ![n] = row] /\ Record(row) /\ Settle(n, row)
  BY DEF GradeWrites
<1>9. /\ attempt' \in [Numbers -> AttemptRows]
      /\ attempt'[n] = row /\ \A i \in Numbers \ {n} : attempt'[i] = attempt[i]
      /\ item' \in Nat /\ entry' \in Entries /\ settled' \subseteq Numbers
      /\ GradingHasJob' /\ BestIsKept' /\ PassIsSettled' /\ NumbersInOrder'
  BY <1>1, <1>2, <1>3, <1>4, <1>8, VerdictKeeps
<1>10. answer' = [answer EXCEPT ![n] = [q \in Questions |->
                    IF q \in asked
                    THEN [there |-> TRUE, response |-> answer[n][q].response,
                          graded |-> q \notin Essays, awarded |-> q \in grader[w].right]
                    ELSE answer[n][q]]]
  BY DEF GradeWrites
<1>11. answer \in [Numbers -> [Questions -> AnswerRows]]
  BY <1>1 DEF QuizTypeOK
<1> HIDE DEF n, asked, row
<1>12. \A i \in Numbers \ {n} : answer'[i] = answer[i]
  BY <1>2, <1>10, <1>11
<1>13. \A q \in Questions :
          /\ answer'[n][q].there <=> q \in asked
          /\ q \in asked => (answer'[n][q].graded <=> q \notin Essays)
          /\ answer'[n][q] \in AnswerRows
  <2> SUFFICES ASSUME NEW q \in Questions
               PROVE  /\ answer'[n][q].there <=> q \in asked
                      /\ q \in asked => (answer'[n][q].graded <=> q \notin Essays)
                      /\ answer'[n][q] \in AnswerRows
    OBVIOUS
  <2> DEFINE marked == q \notin Essays
             right  == q \in grader[w].right
  <2>1. answer[n][q] \in AnswerRows
    BY <1>2, <1>11
  <2>2. CASE q \in asked
    <3>1. answer'[n][q] = [there |-> TRUE, response |-> answer[n][q].response,
                           graded |-> marked, awarded |-> right]
      BY <1>2, <1>10, <1>11, <2>2
    <3>2. marked \in BOOLEAN /\ right \in BOOLEAN /\ (marked <=> q \notin Essays)
      OBVIOUS
    <3> HIDE DEF marked, right
    <3> QED BY <2>1, <2>2, <3>1, <3>2 DEF AnswerRows
  <2>3. CASE q \notin asked
    <3>1. answer'[n][q] = answer[n][q]
      BY <1>2, <1>10, <1>11, <2>3
    <3> QED BY <1>5, <2>1, <2>3, <3>1 DEF AnswerRows
  <2> QED BY <2>2, <2>3
<1>14. answer' \in [Numbers -> [Questions -> AnswerRows]]
  BY <1>2, <1>10, <1>11, <1>13
<1>15. QuizTypeOK'
  <2>1. \A i \in Numbers : \A q \in Questions : answer'[i][q].there => q \in present
    BY <1>1, <1>12, <1>13 DEF QuizTypeOK
  <2> QED BY <1>1, <1>7, <1>9, <1>14, <2>1 DEF QuizTypeOK
<1>16. GradedMeansMarked'
  BY <1>3, <1>9, <1>12, <1>13 DEF AttemptInv, RowsRight, GradedMeansMarked
<1>17. UngradedEarly'
  BY <1>3, <1>9, <1>12 DEF AttemptInv, RowsRight, UngradedEarly
<1>18. RowsRight'
  BY <1>9, <1>16, <1>17 DEF RowsRight
<1>19. RunsRight'
  BY <1>1, <1>6, <1>7, <1>9, <1>12, RunTyped DEF AttemptInv, RunsRight,
     RunsAreGrading, RunsAreAlone, RunsAskAll
<1>20. SavesRight'
  <2> SUFFICES ASSUME NEW r \in Requests, req[r].at = "save" PROVE SaveSeen(req[r])'
    BY <1>1 DEF SavesRight
  <2>1. SaveSeen(req[r]) /\ req[r].n \in Numbers /\ req[r].q \in Questions
    BY <1>1, SaveTyped DEF AttemptInv, SavesRight
  <2>2. CASE req[r].n = n
    <3>1. req[r].q \in present => req[r].q \in asked
      BY <1>1, <2>1, <2>2 DEF SaveSeen, n, asked
    <3>2. row.status # "none"
      BY <1>3 DEF Submitted
    <3> QED BY <1>1, <1>6, <1>7, <1>9, <1>13, <2>1, <2>2, <3>1, <3>2 DEF SaveSeen
  <2>3. CASE req[r].n # n
    BY <1>1, <1>6, <1>7, <1>9, <1>12, <2>1, <2>3 DEF SaveSeen
  <2> QED BY <2>2, <2>3
<1>21. MarksRight'
  <2>1. \A m \in Markers : marker[m] # AtRest => marker[m].n \in Numbers \ {n}
    BY <1>1, <1>4, MarkTyped DEF AttemptInv, MarksRight, MarksComeLate, Submitted
  <2>2. MarksComeLate'
    BY <1>1, <1>9, <2>1 DEF AttemptInv, MarksRight, MarksComeLate
  <2>3. \A m \in Markers : marker[m].at = "finish" => marker[m] # AtRest
    BY DEF AtRest
  <2>4. CountsStand'
    BY <1>1, <1>12, <2>1, <2>3 DEF AttemptInv, MarksRight, CountsStand
  <2> QED BY <2>2, <2>4 DEF MarksRight
<1> QED BY <1>15, <1>18, <1>19, <1>20, <1>21 DEF AttemptInv

-----------------------------------------------------------------------------
(* Marking. *)
LEMMA MarkersFramed ==
    ASSUME AttemptInv, NEW m \in Markers, NEW state \in MarkerStates,
           marker' = [marker EXCEPT ![m] = state],
           UNCHANGED <<quiz, rows, req, grader>>,
           state # AtRest => attempt[state.n].status \in Submitted,
           state.at = "finish" /\ ~state.unmarked =>
               \A q \in Questions \ {state.q} :
                   answer[state.n][q].there => answer[state.n][q].graded
    PROVE  AttemptInv'
<1>1. UNCHANGED <<present, removed, bar, attempt, answer, queued, misses, item, entry, settled>>
  BY DEF quiz, rows
<1>2. QuizTypeOK'
  BY <1>1 DEF AttemptInv, QuizTypeOK
<1>3. RowsRight' /\ RunsRight' /\ SavesRight'
  BY <1>1, RowsFramed, RunsFramed, SavesFramed DEF rows
<1>4. MarksRight'
  BY <1>1 DEF AttemptInv, QuizTypeOK, MarksRight, MarksComeLate, CountsStand
<1> QED BY <1>2, <1>3, <1>4 DEF AttemptInv

LEMMA MarkChecksKeeps ==
    ASSUME AttemptInv, NEW m \in Markers, NEW n \in Numbers, NEW q \in Questions,
           NEW award \in BOOLEAN, MarkChecks(m, n, q, award)
    PROVE  AttemptInv'
<1> DEFINE state == [at |-> "write", n |-> n, q |-> q, award |-> award]
<1>1. state \in MarkerStates /\ state.at = "write" /\ state.n = n
  BY DEF MarkerStates
<1>2. marker' = [marker EXCEPT ![m] = state] /\ attempt[n].status \in Submitted
  BY DEF MarkChecks, Submitted
<1> QED BY <1>1, <1>2, MarkersFramed DEF MarkChecks

LEMMA MarkWritesKeeps ==
    ASSUME AttemptInv, NEW m \in Markers, MarkWrites(m)
    PROVE  AttemptInv'
<1> DEFINE state == [marker[m] EXCEPT !.at = "count"]
<1>1. marker[m].at = "write" /\ marker[m] # AtRest
  BY DEF MarkWrites, AtRest
<1>2. /\ state \in MarkerStates /\ state.at = "count" /\ state.n = marker[m].n
  BY <1>1 DEF AttemptInv, QuizTypeOK, MarkerStates
<1>3. marker' = [marker EXCEPT ![m] = state]
  BY DEF MarkWrites
<1>4. attempt[marker[m].n].status \in Submitted
  BY <1>1 DEF AttemptInv, MarksRight, MarksComeLate
<1> QED BY <1>2, <1>3, <1>4, MarkersFramed DEF MarkWrites

LEMMA MarkCountsKeeps ==
    ASSUME AttemptInv, NEW m \in Markers, MarkCounts(m)
    PROVE  AttemptInv'
<1> DEFINE it       == marker[m]
           others   == {q \in Questions \ {it.q} : answer[it.n][q].there}
           own      == IF it.award THEN {it.q} ELSE {}
           points   == Cardinality({q \in others : answer[it.n][q].awarded} \cup own)
           unmarked == \E q \in others : ~answer[it.n][q].graded
           state    == [at |-> "finish", n |-> it.n, q |-> it.q, award |-> it.award,
                        points |-> points, unmarked |-> unmarked, bar |-> bar]
<1>1. it.at = "count" /\ it # AtRest
  BY DEF MarkCounts, AtRest
<1>2. it.n \in Numbers /\ it.q \in Questions /\ it.award \in BOOLEAN
  BY <1>1, MarkTyped DEF AttemptInv
<1>3. points \in Nat
  <2>1. {q \in others : answer[it.n][q].awarded} \cup own \in SUBSET Questions
    BY <1>2
  <2> QED BY <2>1, CardTyped
<1>4. bar \in Bars /\ unmarked \in BOOLEAN
  BY DEF AttemptInv, QuizTypeOK
<1>5. marker' = [marker EXCEPT ![m] = state]
  BY DEF MarkCounts
<1>6. attempt[it.n].status \in Submitted
  BY <1>1 DEF AttemptInv, MarksRight, MarksComeLate
<1>7. ~unmarked => \A q \in Questions \ {it.q} :
                      answer[it.n][q].there => answer[it.n][q].graded
  OBVIOUS
<1> HIDE DEF points, unmarked
<1>8. /\ state \in MarkerStates /\ state.n = it.n /\ state.q = it.q
      /\ state.unmarked = unmarked
  BY <1>2, <1>3, <1>4 DEF MarkerStates
<1> QED BY ZenonT(40), <1>5, <1>6, <1>7, <1>8, MarkersFramed DEF MarkCounts

LEMMA MarkFailsKeeps ==
    ASSUME AttemptInv, NEW m \in Markers, MarkFails(m)
    PROVE  AttemptInv'
<1>1. AtRest \in MarkerStates /\ AtRest.at = "idle"
  BY DEF AtRest, MarkerStates
<1> QED BY <1>1, MarkersFramed DEF MarkFails

LEMMA MarkFinishesKeeps ==
    ASSUME AttemptInv, NEW m \in Markers, MarkFinishes(m)
    PROVE  AttemptInv'
<1> DEFINE it  == marker[m]
           n   == it.n
           p   == it.q
           row == MarkedRow(it)
<1>1. /\ UNCHANGED <<present, removed, bar, queued, misses, req, grader>>
      /\ marker' = [marker EXCEPT ![m] = AtRest]
      /\ it.at = "finish" /\ it # AtRest /\ QuizTypeOK
  BY SMTT(30) DEF MarkFinishes, quiz, AttemptInv, AtRest
<1>2. /\ n \in Numbers /\ p \in Questions /\ it.award \in BOOLEAN
      /\ it.points \in Nat /\ it.unmarked \in BOOLEAN
  BY <1>1, MarkTyped
<1>3. attempt[n].status \in Submitted
  BY <1>1 DEF AttemptInv, MarksRight, MarksComeLate
<1>4. /\ row \in AttemptRows /\ row.status \in Submitted
      /\ row.status = "graded" => ~it.unmarked
  <2>1. attempt[n].max \in Nat
    BY <1>1, <1>2 DEF QuizTypeOK, AttemptRows
  <2> QED BY <1>2, <2>1 DEF MarkedRow, AttemptRows, AttemptStatuses, Submitted
<1>5. ~it.unmarked => \A q \in Questions \ {p} :
                          answer[n][q].there => answer[n][q].graded
  BY <1>1 DEF AttemptInv, MarksRight, CountsStand
<1>6. attempt' = [attempt EXCEPT ![n] = row] /\ Record(row) /\ Settle(n, row)
  BY DEF MarkFinishes
<1>7. attempt[n].status # "none"
  BY <1>3 DEF Submitted
<1>8. /\ attempt' \in [Numbers -> AttemptRows]
      /\ attempt'[n] = row /\ \A i \in Numbers \ {n} : attempt'[i] = attempt[i]
      /\ item' \in Nat /\ entry' \in Entries /\ settled' \subseteq Numbers
      /\ GradingHasJob' /\ BestIsKept' /\ PassIsSettled' /\ NumbersInOrder'
  BY <1>1, <1>2, <1>4, <1>6, <1>7, VerdictKeeps
<1> HIDE DEF it, n, p, row
<1>9. /\ answer' \in [Numbers -> [Questions -> AnswerRows]]
       /\ answer'[n][p].graded
       /\ \A i \in Numbers : \A q \in Questions :
             /\ answer'[i][q].there = answer[i][q].there
             /\ answer[i][q].graded => answer'[i][q].graded
             /\ ~(i = n /\ q = p) => answer'[i][q] = answer[i][q]
  BY <1>1, MarkEffect DEF it, n, p
<1>10. AtRest \in MarkerStates /\ AtRest.at = "idle"
  BY DEF AtRest, MarkerStates
<1>11. QuizTypeOK'
  <2>1. \A i \in Numbers : \A q \in Questions : answer'[i][q].there => q \in present
    BY <1>1, <1>9 DEF QuizTypeOK
  <2>2. marker' \in [Markers -> MarkerStates]
    BY <1>1, <1>10 DEF QuizTypeOK
  <2> QED BY <1>1, <1>8, <1>9, <2>1, <2>2 DEF QuizTypeOK
<1>12. GradedMeansMarked'
  BY <1>4, <1>5, <1>8, <1>9 DEF AttemptInv, RowsRight, GradedMeansMarked
<1>13. UngradedEarly'
  BY <1>4, <1>8, <1>9 DEF AttemptInv, RowsRight, UngradedEarly
<1>14. RowsRight'
  BY <1>8, <1>12, <1>13 DEF RowsRight
<1>15. \A w \in Workers : grader[w] # NoRun => grader[w].on \in Numbers \ {n}
  BY <1>1, <1>3, RunTyped DEF AttemptInv, RunsRight, RunsAreGrading, Submitted
<1>16. RunsRight'
  BY <1>1, <1>8, <1>9, <1>15 DEF AttemptInv, RunsRight, RunsAreGrading,
     RunsAreAlone, RunsAskAll
<1>17. SavesRight'
  <2> SUFFICES ASSUME NEW r \in Requests, req[r].at = "save" PROVE SaveSeen(req[r])'
    BY <1>1 DEF SavesRight
  <2>1. SaveSeen(req[r]) /\ req[r].n \in Numbers /\ req[r].q \in Questions
    BY <1>1, SaveTyped DEF AttemptInv, SavesRight
  <2>2. /\ attempt'[req[r].n].status # "none"
        /\ attempt'[req[r].n].status \in Submitted => attempt[req[r].n].status \in Submitted
    BY <1>3, <1>4, <1>8, <2>1 DEF SaveSeen, Submitted
  <2> QED BY <1>1, <1>9, <2>1, <2>2 DEF SaveSeen
<1>18. MarksRight'
  <2>1. \A k \in Markers : marker'[k] # AtRest => marker'[k] = marker[k]
    BY <1>1 DEF QuizTypeOK
  <2>2. MarksComeLate'
    BY <1>1, <1>4, <1>8, <2>1, MarkTyped DEF AttemptInv, MarksRight, MarksComeLate
  <2>3. CountsStand'
    <3> SUFFICES ASSUME NEW k \in Markers, marker'[k].at = "finish", ~marker'[k].unmarked,
                        NEW q \in Questions \ {marker'[k].q},
                        answer'[marker'[k].n][q].there
                 PROVE  answer'[marker'[k].n][q].graded
      BY DEF CountsStand
    <3>1. marker'[k] = marker[k] /\ marker[k] # AtRest
      BY <1>10, <2>1
    <3>2. marker[k].n \in Numbers
      BY <1>1, <3>1, MarkTyped
    <3> QED BY <1>9, <3>1, <3>2 DEF AttemptInv, MarksRight, CountsStand
  <2> QED BY <2>2, <2>3 DEF MarksRight
<1> QED BY <1>11, <1>14, <1>16, <1>17, <1>18 DEF AttemptInv

-----------------------------------------------------------------------------
(* The author. *)
LEMMA ItemTyped ==
    ASSUME QuizTypeOK, present' \in SUBSET Questions, SyncItem
    PROVE  item' \in Nat
BY CardTyped DEF QuizTypeOK, SyncItem

LEMMA AddQuestionKeeps ==
    ASSUME AttemptInv, NEW q \in Questions, AddQuestion(q)
    PROVE  AttemptInv'
<1>1. /\ UNCHANGED <<removed, bar, attempt, answer, queued, misses, entry, settled,
                     req, grader, marker>>
      /\ present' = present \cup {q} /\ SyncItem
      /\ q \notin present \cup removed /\ QuizTypeOK
  BY DEF AddQuestion, txs, AttemptInv
<1>2. QuizTypeOK'
  BY <1>1, ItemTyped DEF QuizTypeOK
<1>3. RowsRight'
  BY <1>1 DEF AttemptInv, RowsRight, GradingHasJob, BestIsKept, GradedMeansMarked,
     PassIsSettled, NumbersInOrder, Taken, UngradedEarly
<1>4. RunsRight' /\ MarksRight'
  BY <1>1, RunsFramed, MarksFramed
<1>5. SavesRight'
  BY <1>1 DEF AttemptInv, SavesRight, SaveSeen
<1> QED BY <1>2, <1>3, <1>4, <1>5 DEF AttemptInv

LEMMA RemoveQuestionKeeps ==
    ASSUME AttemptInv, NEW p \in Questions, RemoveQuestion(p)
    PROVE  AttemptInv'
<1>1. /\ UNCHANGED <<bar, attempt, queued, misses, entry, settled, req, grader, marker>>
      /\ present' = present \ {p} /\ removed' = removed \cup {p} /\ SyncItem
      /\ p \in present /\ QuizTypeOK
      /\ answer' = [n \in Numbers |-> [answer[n] EXCEPT ![p] = NoAnswer]]
  BY DEF RemoveQuestion, txs, AttemptInv
<1>2. NoAnswer \in AnswerRows /\ ~NoAnswer.there /\ ~NoAnswer.graded
  BY DEF NoAnswer, AnswerRows, Responses
<1>3. answer \in [Numbers -> [Questions -> AnswerRows]]
  BY <1>1 DEF QuizTypeOK
<1>4. /\ answer' \in [Numbers -> [Questions -> AnswerRows]]
      /\ \A n \in Numbers : \A q \in Questions :
            answer'[n][q] = IF q = p THEN NoAnswer ELSE answer[n][q]
  BY <1>1, <1>2, <1>3
<1>5. QuizTypeOK'
  BY <1>1, <1>2, <1>4, ItemTyped DEF QuizTypeOK
<1>6. RowsRight'
  BY <1>1, <1>2, <1>4 DEF AttemptInv, RowsRight, GradingHasJob, BestIsKept,
     GradedMeansMarked, PassIsSettled, NumbersInOrder, Taken, UngradedEarly
<1>7. RunsRight'
  BY <1>1, <1>2, <1>4, RunTyped DEF AttemptInv, RunsRight, RunsAreGrading,
     RunsAreAlone, RunsAskAll
<1>8. SavesRight'
  <2> SUFFICES ASSUME NEW r \in Requests, req[r].at = "save" PROVE SaveSeen(req[r])'
    BY <1>1 DEF SavesRight
  <2>1. SaveSeen(req[r]) /\ req[r].n \in Numbers /\ req[r].q \in Questions
    BY <1>1, SaveTyped DEF AttemptInv, SavesRight
  <2> QED BY <1>1, <1>4, <2>1 DEF SaveSeen
<1>9. MarksRight'
  <2>1. MarksComeLate'
    BY <1>1 DEF AttemptInv, MarksRight, MarksComeLate
  <2>2. CountsStand'
    <3> SUFFICES ASSUME NEW m \in Markers, marker[m].at = "finish", ~marker[m].unmarked,
                        NEW q \in Questions \ {marker[m].q},
                        answer'[marker[m].n][q].there
                 PROVE  answer'[marker[m].n][q].graded
      BY <1>1 DEF CountsStand
    <3>1. marker[m].n \in Numbers
      BY <1>1, MarkTyped DEF AtRest
    <3> QED BY <1>2, <1>4, <3>1 DEF AttemptInv, MarksRight, CountsStand
  <2> QED BY <2>1, <2>2 DEF MarksRight
<1> QED BY <1>5, <1>6, <1>7, <1>8, <1>9 DEF AttemptInv

LEMMA EditQuizKeeps ==
    ASSUME AttemptInv, NEW percent \in Bars, EditQuiz(percent)
    PROVE  AttemptInv'
<1>1. /\ UNCHANGED <<present, removed, attempt, answer, queued, misses, item, entry, settled,
                     req, grader, marker>>
      /\ bar' = percent
  BY DEF EditQuiz, rows, txs
<1>2. QuizTypeOK'
  BY <1>1 DEF AttemptInv, QuizTypeOK
<1>3. RowsRight' /\ RunsRight' /\ SavesRight' /\ MarksRight'
  BY <1>1, RowsFramed, RunsFramed, SavesFramed, MarksFramed DEF rows
<1> QED BY <1>2, <1>3 DEF AttemptInv

-----------------------------------------------------------------------------
LEMMA AttemptStep == AttemptInv /\ [QuizNext]_quizVars => AttemptInv'
<1> SUFFICES ASSUME AttemptInv, [QuizNext]_quizVars PROVE AttemptInv'
  OBVIOUS
<1>1. ASSUME NEW r \in Requests,
             \/ StartChecks(r) \/ StartInserts(r)
             \/ \E n \in Numbers : \E q \in Questions :
                   \E response \in Responses : SaveChecks(r, n, q, response)
             \/ SaveWrites(r) \/ RequestFails(r)
      PROVE  AttemptInv'
  BY <1>1, StartChecksKeeps, StartInsertsKeeps, SaveChecksKeeps, SaveWritesKeeps,
     RequestFailsKeeps
<1>2. ASSUME NEW n \in Numbers, Submit(n) \/ CloseJob(n) PROVE AttemptInv'
  BY <1>2, SubmitKeeps, CloseJobKeeps
<1>3. ASSUME NEW w \in Workers,
             \/ \E n \in Numbers : GradeReads(w, n)
             \/ GradeWrites(w) \/ GradeFails(w)
      PROVE  AttemptInv'
  BY <1>3, GradeReadsKeeps, GradeWritesKeeps, GradeFailsKeeps
<1>4. ASSUME NEW m \in Markers,
             \/ \E n \in Numbers : \E q \in Questions : \E award \in BOOLEAN :
                   MarkChecks(m, n, q, award)
             \/ MarkWrites(m) \/ MarkCounts(m) \/ MarkFinishes(m) \/ MarkFails(m)
      PROVE  AttemptInv'
  BY <1>4, MarkChecksKeeps, MarkWritesKeeps, MarkCountsKeeps, MarkFinishesKeeps,
     MarkFailsKeeps
<1>5. ASSUME NEW q \in Questions, AddQuestion(q) \/ RemoveQuestion(q) PROVE AttemptInv'
  BY <1>5, AddQuestionKeeps, RemoveQuestionKeeps
<1>6. ASSUME NEW percent \in Bars, EditQuiz(percent) PROVE AttemptInv'
  BY <1>6, EditQuizKeeps
<1>7. CASE UNCHANGED quizVars
  <2>1. UNCHANGED <<present, removed, bar, attempt, answer, queued, misses, item, entry,
                    settled, req, grader, marker>>
    BY <1>7 DEF quizVars
  <2>2. QuizTypeOK'
    BY <2>1 DEF AttemptInv, QuizTypeOK
  <2> QED BY <2>1, <2>2, RowsFramed, RunsFramed, SavesFramed, MarksFramed
          DEF AttemptInv, rows
<1> QED BY <1>1, <1>2, <1>3, <1>4, <1>5, <1>6, <1>7
        DEF QuizNext, LearnerSteps, GradingSteps, MarkingSteps, QuizAuthorSteps

(* Whatever the quiz and whoever is at it, the inductive invariant holds of
   every state the attempts reach.                                          *)
THEOREM AttemptsHold == QuizSpec => []AttemptInv
BY AttemptInit, AttemptStep, PTL DEF QuizSpec

(* Every row stays a row its table's columns and checks admit. *)
THEOREM AttemptsTyped == QuizSpec => []QuizTypeOK
<1>1. AttemptInv => QuizTypeOK
  BY DEF AttemptInv
<1> QED BY <1>1, AttemptsHold, PTL

(* An attempt waiting to be graded has its job, unless the job has failed as
   often as the queue allows: no order of submissions, runs, late saves and
   marks loses it otherwise.                                                *)
THEOREM JobIsKept == QuizSpec => []GradingHasJob
<1>1. AttemptInv => GradingHasJob
  BY DEF AttemptInv, RowsRight
<1> QED BY <1>1, AttemptsHold, PTL

(* The gradebook keeps the best of any number of attempts, in any order of
   grading and for any worths of the quiz.                                  *)
THEOREM BestStands == QuizSpec => []BestIsKept
<1>1. AttemptInv => BestIsKept
  BY DEF AttemptInv, RowsRight
<1> QED BY <1>1, AttemptsHold, PTL

(* A verdict is of answers that are all marked, for any number of markers and
   of saves that come late.                                                 *)
THEOREM VerdictIsMarked == QuizSpec => []GradedMeansMarked
<1>1. AttemptInv => GradedMeansMarked
  BY DEF AttemptInv, RowsRight
<1> QED BY <1>1, AttemptsHold, PTL

(* A pass settles its lesson in the transaction that gave it. *)
THEOREM PassSettles == QuizSpec => []PassIsSettled
<1>1. AttemptInv => PassIsSettled
  BY DEF AttemptInv, RowsRight
<1> QED BY <1>1, AttemptsHold, PTL

-----------------------------------------------------------------------------
(* The steps that write answers: a save leaves the verdict alone, the job
   finds no verdict to write over, a mark gives one, and an answer whose
   question is deleted goes with it.                                        *)
MarkStays ==
    \A n \in Numbers : \A q \in Essays :
        answer[n][q].graded /\ q \in present' => answer'[n][q].graded

LEMMA AnswersStay ==
    ASSUME UNCHANGED answer
    PROVE  MarkStays
BY DEF MarkStays

LEMMA SaveStays ==
    ASSUME AttemptInv, NEW r \in Requests, SaveWrites(r)
    PROVE  MarkStays
BY SaveEffect, AttemptAssumption DEF AttemptInv, MarkStays

LEMMA GradeStays ==
    ASSUME AttemptInv, NEW w \in Workers, GradeWrites(w)
    PROVE  MarkStays
<1>1. grader[w] # NoRun /\ QuizTypeOK
  BY DEF GradeWrites, AttemptInv
<1>2. grader[w].on \in Numbers /\ attempt[grader[w].on].status = "grading"
  BY <1>1, RunTyped DEF AttemptInv, RunsRight, RunsAreGrading
<1>3. \A q \in Questions : ~answer[grader[w].on][q].graded
  BY <1>2 DEF AttemptInv, RowsRight, UngradedEarly, Submitted
<1>4. \A n \in Numbers \ {grader[w].on} : answer'[n] = answer[n]
  BY <1>1 DEF GradeWrites, QuizTypeOK
<1> QED BY <1>3, <1>4, AttemptAssumption DEF MarkStays

LEMMA FinishStays ==
    ASSUME AttemptInv, NEW m \in Markers, MarkFinishes(m)
    PROVE  MarkStays
BY MarkEffect, AttemptAssumption DEF AttemptInv, MarkStays

LEMMA RemoveStays ==
    ASSUME AttemptInv, NEW p \in Questions, RemoveQuestion(p)
    PROVE  MarkStays
<1>1. /\ present' = present \ {p} /\ QuizTypeOK
      /\ answer' = [n \in Numbers |-> [answer[n] EXCEPT ![p] = NoAnswer]]
  BY DEF RemoveQuestion, AttemptInv
<1> QED BY <1>1, AttemptAssumption DEF MarkStays, QuizTypeOK

(* No retry of the job and no late save takes back what a person marked. *)
THEOREM HandMarksAreKept == QuizSpec => HandMarksStay
<1>1. AttemptInv /\ [QuizNext]_quizVars => [MarkStays]_quizVars
  <2> SUFFICES ASSUME AttemptInv, QuizNext PROVE MarkStays
    OBVIOUS
  <2>1. CASE LearnerSteps
    BY <2>1, SaveStays, AnswersStay DEF LearnerSteps, StartChecks, StartInserts,
       SaveChecks, RequestFails, Submit, rows
  <2>2. CASE GradingSteps
    BY <2>2, GradeStays, AnswersStay DEF GradingSteps, GradeReads, GradeFails,
       CloseJob, rows
  <2>3. CASE MarkingSteps
    BY <2>3, FinishStays, AnswersStay DEF MarkingSteps, MarkChecks, MarkWrites,
       MarkCounts, MarkFails, rows
  <2>4. CASE QuizAuthorSteps
    BY <2>4, RemoveStays, AnswersStay DEF QuizAuthorSteps, AddQuestion, EditQuiz, rows
  <2> QED BY <2>1, <2>2, <2>3, <2>4 DEF QuizNext
<1> QED BY <1>1, AttemptsHold, PTL DEF QuizSpec, HandMarksStay, MarkStays
=============================================================================
