---------------------------- MODULE MCClassroom ----------------------------
(***************************************************************************)
(* What a workspace's courses are made of, each at a desk of its own: the  *)
(* quiz and those who mark it, the cache that finds the workspace's host,  *)
(* the order of the topics, what a course asks for, and what people are    *)
(* told.  The desk says which of them a behaviour is about; the others     *)
(* rest, so that their states add up and do not multiply.                  *)
(***************************************************************************)
EXTENDS Attempts, Cache, Syllabus, Prerequisites, Inbox, TLC

CONSTANTS
    r1, r2,                   \* two requests
    x1, x2,                   \* two who mark, two hosts, two people
    choice, essay1, essay2,   \* questions
    k1, k2, k3,               \* three courses, or three topics
    w1, acme, news, reply     \* a worker, a workspace, two things to tell

VARIABLE desk

classroomVars ==
    <<desk, quizVars, cacheVars, syllabusVars, loopVars, inboxVars>>

ClassroomInit ==
    /\ desk \in {"quiz", "host", "syllabus", "requirements", "inbox"}
    /\ QuizInit /\ (desk # "quiz" => bar = 50)
    /\ CacheInit /\ (desk # "host" => \A h \in Keys : truth[h] = NotFound)
    /\ SyllabusInit /\ (desk # "syllabus" => Placed(position) = {})
    /\ LoopInit
    /\ InboxInit /\ (desk # "inbox" => onCourse = {} /\ reachable = {})

AtQuiz ==
    /\ desk = "quiz" /\ QuizNext
    /\ UNCHANGED <<desk, cacheVars, syllabusVars, loopVars, inboxVars>>
AtHost ==
    /\ desk = "host" /\ CacheNext
    /\ UNCHANGED <<desk, quizVars, syllabusVars, loopVars, inboxVars>>
AtSyllabus ==
    /\ desk = "syllabus" /\ SyllabusNext
    /\ UNCHANGED <<desk, quizVars, cacheVars, loopVars, inboxVars>>
AtRequirements ==
    /\ desk = "requirements" /\ LoopNext
    /\ UNCHANGED <<desk, quizVars, cacheVars, syllabusVars, inboxVars>>
AtInbox ==
    /\ desk = "inbox" /\ InboxNext
    /\ UNCHANGED <<desk, quizVars, cacheVars, syllabusVars, loopVars>>

ClassroomNext == AtQuiz \/ AtHost \/ AtSyllabus \/ AtRequirements \/ AtInbox

ClassroomSpec == ClassroomInit /\ [][ClassroomNext]_classroomVars

ClassroomTypeOK ==
    QuizTypeOK /\ CacheTypeOK /\ SyllabusTypeOK /\ LoopTypeOK /\ InboxTypeOK

Alike == Permutations({r1, r2}) \cup Permutations({x1, x2})
=============================================================================
