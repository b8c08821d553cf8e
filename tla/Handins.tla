------------------------------- MODULE Handins -------------------------------
(***************************************************************************)
(* One assignment and the work one learner hands in for it: package assign *)
(* at READ COMMITTED, the mark in the gradebook, and the object store the  *)
(* learner uploads to.                                                     *)
(*                                                                         *)
(* A request that reads and later writes is in flight between the two.     *)
(* OpenDraft is an upsert that changes nothing and so locks the learner's  *)
(* submission to the end of the transaction; HandIn, Mark and the cascade  *)
(* of a deleted assignment wait for it.  Attaching a file asks the object  *)
(* store in between.                                                       *)
(*                                                                         *)
(* The deadline is a bit: whether the learner's window has closed.  Sizes  *)
(* and names of files, feedback and lateness are left out.                 *)
(***************************************************************************)
EXTENDS Integers, FiniteSets

CONSTANTS
    Uploads,   \* object keys
    Tabs,      \* requests in flight at one moment
    MaxFiles,  \* the limits an author may choose
    Points     \* what an assignment may be worth, and a bar or a mark be

ASSUME HandinsAssumption ==
    /\ IsFiniteSet(Uploads)
    /\ MaxFiles \subseteq Nat \ {0} /\ Points \subseteq Nat

VARIABLES
    assignment,  \* the row of assignments
    submission,  \* the learner's row of assignment_submissions
    files,       \* the keys of its rows of submission_files
    signed,      \* the keys an upload was signed for
    objects,     \* the keys the object store holds
    deletions,   \* the keys of queued deletions
    entry,       \* the learner's row of grade_entries
    completed,   \* whether a pass has completed the lesson
    tab,         \* the requests in flight
    most         \* the largest limit the assignment has had

storeVars   == <<signed, objects, deletions>>
gradeVars   == <<entry, completed>>
handinsVars == <<assignment, submission, files, storeVars, gradeVars, tab, most>>

Absent   == [status |-> "none"]
NoMark   == -1
Resting  == [at |-> "idle"]

AssignmentRows == {Absent, [status |-> "removed"]} \cup
    [status: {"set"}, maxFiles: MaxFiles, points: Points, passing: Points, shut: BOOLEAN]
SubmissionRows == {Absent} \cup
    [status: {"draft", "submitted", "graded"}, points: Points \cup {NoMark}]
TabStates == {Resting}
    \cup [at: {"attach"}, key: Uploads, maxFiles: MaxFiles]
    \cup [at: {"head", "insert", "detach"}, key: Uploads]
    \cup [at: {"submit"}]
    \cup [at: {"mark"}, points: Points, worth: Points, passing: Points]
    \cup [at: {"cascade"}, keys: SUBSET Uploads]

HandinsTypeOK ==
    /\ assignment \in AssignmentRows
    /\ submission \in SubmissionRows
    /\ files \subseteq signed /\ signed \subseteq Uploads
    /\ objects \subseteq signed /\ deletions \subseteq signed
    /\ entry \in Points \cup {NoMark}
    /\ completed \in BOOLEAN
    /\ tab \in [Tabs -> TabStates]
    /\ most \in MaxFiles \cup {0}
    /\ submission # Absent => assignment.status = "set"
    /\ files # {} => submission # Absent

HandinsInit ==
    /\ assignment = Absent
    /\ submission = Absent
    /\ files = {} /\ signed = {} /\ objects = {} /\ deletions = {}
    /\ entry = NoMark /\ completed = FALSE
    /\ tab = [r \in Tabs |-> Resting]
    /\ most = 0

IsSet      == assignment.status = "set"
IsDraft    == submission = Absent \/ submission.status = "draft"
Turn(r, what) == tab' = [tab EXCEPT ![r] = what]
Draft      == [status |-> "draft", points |-> NoMark]
Drafted    == IF submission = Absent THEN Draft ELSE submission

-----------------------------------------------------------------------------
(* The author. *)

(* What validate lets through. *)
Valid(a) == a.passing <= a.points

WriteAssignment(a) ==
    /\ assignment' = a
    /\ most' = IF a.maxFiles > most THEN a.maxFiles ELSE most
    /\ UNCHANGED <<submission, files, storeVars, gradeVars, tab>>

CreateAssignment(a) ==
    /\ assignment = Absent
    /\ Valid(a) /\ WriteAssignment(a)

(* Any field may be patched, the deadline among them. *)
EditAssignment(a) ==
    /\ IsSet
    /\ Valid(a) /\ WriteAssignment(a)

PassDeadline ==
    /\ IsSet /\ ~assignment.shut
    /\ assignment' = [assignment EXCEPT !.shut = TRUE]
    /\ UNCHANGED <<submission, files, storeVars, gradeVars, tab, most>>

(* The keys are collected in the snapshot the statement begins with. *)
RemoveAssignment(r) ==
    /\ IsSet /\ tab[r] = Resting
    /\ Turn(r, [at |-> "cascade", keys |-> files])
    /\ UNCHANGED <<assignment, submission, files, storeVars, gradeVars, most>>

(* Mutant: the draft is looked up and not locked. *)
DraftFree(r) == FALSE

(* The learner's submission is locked by the request that opened it. *)
Drafting(r) == tab[r].at \in {"head", "insert"}
Unlocked    == \A r \in Tabs : ~Drafting(r)

(* The cascade waits for the submission, and takes what it finds by then. *)
DeleteAssignment(r) ==
    /\ tab[r].at = "cascade" /\ IsSet /\ Unlocked
    /\ assignment' = [status |-> "removed"]
    /\ submission' = Absent
    /\ files' = {}
    /\ deletions' = deletions \cup tab[r].keys
    /\ Turn(r, Resting)
    /\ UNCHANGED <<signed, objects, gradeVars, most>>

-----------------------------------------------------------------------------
(* The learner. *)

StillOpen == IsSet /\ ~assignment.shut

PresignUpload(k) ==
    /\ StillOpen /\ Unlocked /\ IsDraft
    /\ Cardinality(files) < assignment.maxFiles
    /\ k \notin signed
    /\ signed' = signed \cup {k}
    /\ submission' = Drafted
    /\ UNCHANGED <<assignment, files, objects, deletions, gradeVars, tab, most>>

(* The browser puts its bytes, as often as it likes while the URL is valid. *)
Upload(k) ==
    /\ k \in signed
    /\ objects' = objects \cup {k}
    /\ UNCHANGED <<assignment, submission, files, signed, deletions, gradeVars, tab, most>>

ConfirmUpload(r, k) ==
    /\ tab[r] = Resting
    /\ StillOpen /\ k \in signed
    /\ Turn(r, [at |-> "attach", key |-> k, maxFiles |-> assignment.maxFiles])
    /\ UNCHANGED <<assignment, submission, files, storeVars, gradeVars, most>>

OpenDraft(r) ==
    /\ tab[r].at = "attach"
    /\ IsSet /\ Unlocked /\ IsDraft
    /\ Cardinality(files) < tab[r].maxFiles
    /\ Turn(r, [at |-> "head", key |-> tab[r].key])
    /\ UNCHANGED <<assignment, submission, files, storeVars, gradeVars, most>>

HeadObject(r) ==
    /\ tab[r].at = "head" /\ tab[r].key \in objects
    /\ Turn(r, [tab[r] EXCEPT !.at = "insert"])
    /\ UNCHANGED <<assignment, submission, files, storeVars, gradeVars, most>>

(* An object key is attached once. *)
AttachFile(r) ==
    /\ tab[r].at = "insert" /\ tab[r].key \notin files
    /\ IsSet
    /\ files' = files \cup {tab[r].key}
    /\ submission' = Drafted
    /\ Turn(r, Resting)
    /\ UNCHANGED <<assignment, storeVars, gradeVars, most>>

RemoveFile(r, k) ==
    /\ tab[r] = Resting
    /\ k \in files /\ submission.status = "draft"
    /\ Turn(r, [at |-> "detach", key |-> k])
    /\ UNCHANGED <<assignment, submission, files, storeVars, gradeVars, most>>

(* The row is deleted whatever has become of the submission. *)
DeleteFile(r) ==
    /\ tab[r].at = "detach" /\ tab[r].key \in files
    /\ files' = files \ {tab[r].key}
    /\ deletions' = deletions \cup {tab[r].key}
    /\ Turn(r, Resting)
    /\ UNCHANGED <<assignment, submission, signed, objects, gradeVars, most>>

Submit(r) ==
    /\ tab[r] = Resting
    /\ StillOpen /\ submission.status = "draft" /\ files # {}
    /\ Turn(r, [at |-> "submit"])
    /\ UNCHANGED <<assignment, submission, files, storeVars, gradeVars, most>>

HandIn(r) ==
    /\ tab[r].at = "submit" /\ Unlocked
    /\ submission.status = "draft"
    /\ submission' = [submission EXCEPT !.status = "submitted"]
    /\ Turn(r, Resting)
    /\ UNCHANGED <<assignment, files, storeVars, gradeVars, most>>

-----------------------------------------------------------------------------
(* The marker, and the store. *)

(* What was handed in may be marked, and marked again. *)
OpenWork(r, n) ==
    /\ tab[r] = Resting
    /\ submission.status \in {"submitted", "graded"}
    /\ n <= assignment.points
    /\ Turn(r, [at |-> "mark", points |-> n,
                worth |-> assignment.points, passing |-> assignment.passing])
    /\ UNCHANGED <<assignment, submission, files, storeVars, gradeVars, most>>

(* Mutant: the gradebook keeps the better mark, as it does for a quiz. *)
RecordBest(n) == entry' = IF n > entry THEN n ELSE entry

(* No keepHighest: who lowers a mark means to. *)
RecordMark(n) == entry' = n

(* The gradebook refuses an assessment worth nothing, and the transaction
   with it.  Completing a lesson is refused to who is not enrolled.         *)
Mark(r) ==
    LET n == tab[r].points IN
    /\ tab[r].at = "mark" /\ Unlocked
    /\ submission.status \in {"submitted", "graded"}
    /\ tab[r].worth > 0
    /\ submission' = [status |-> "graded", points |-> n]
    /\ RecordMark(n)
    /\ completed' \in IF n >= tab[r].passing THEN {completed, TRUE} ELSE {completed}
    /\ Turn(r, Resting)
    /\ UNCHANGED <<assignment, files, storeVars, most>>

(* A job may fail after some of its keys, and deletes them again. *)
DeleteObject(k) ==
    /\ k \in deletions
    /\ objects' = objects \ {k}
    /\ deletions' \in {deletions, deletions \ {k}}
    /\ UNCHANGED <<assignment, submission, files, signed, gradeVars, tab, most>>

(* A request is refused, or its transaction is rolled back. *)
CloseTab(r) ==
    /\ tab[r] # Resting
    /\ Turn(r, Resting)
    /\ UNCHANGED <<assignment, submission, files, storeVars, gradeVars, most>>

-----------------------------------------------------------------------------
Assignments ==
    [status: {"set"}, maxFiles: MaxFiles, points: Points, passing: Points, shut: BOOLEAN]

HandinsNext ==
    \/ \E a \in Assignments : CreateAssignment(a) \/ EditAssignment(a)
    \/ PassDeadline
    \/ \E r \in Tabs : RemoveAssignment(r) \/ DeleteAssignment(r)
    \/ \E k \in Uploads : PresignUpload(k) \/ Upload(k) \/ DeleteObject(k)
    \/ \E r \in Tabs, k \in Uploads : ConfirmUpload(r, k) \/ RemoveFile(r, k)
    \/ \E r \in Tabs : OpenDraft(r) \/ HeadObject(r) \/ AttachFile(r) \/ DeleteFile(r)
    \/ \E r \in Tabs : Submit(r) \/ HandIn(r) \/ Mark(r) \/ CloseTab(r)
    \/ \E r \in Tabs, n \in Points : OpenWork(r, n)

HandinsSpec == HandinsInit /\ [][HandinsNext]_handinsVars

-----------------------------------------------------------------------------
(* Nothing joins work that was handed in, though a file is attached long
   after its request looked whether the work still was a draft.
   assign/service.go, AttachFile and Submit.                                *)
NothingAttachedLate == [][files' \subseteq files \/ submission'.status = "draft"]_handinsVars

(* However many uploads are confirmed at once, a learner never has more files
   than the largest limit the assignment has had.  assign/service.go,
   AttachFile.                                                              *)
WithinLimit == Cardinality(files) <= most

(* The gradebook says what the marked work says, whoever marked it last and
   in whatever order the two markers had opened it.
   assign/service.go, Mark.                                                 *)
MarkAgrees == submission.status = "graded" => entry = submission.points
=============================================================================
