----------------------------- MODULE MCLearner -----------------------------
(***************************************************************************)
(* What the school has of one learner: the sale, the course, the points,   *)
(* the quiz and the conversation, each at a desk of its own.  The desk     *)
(* says which of them a behaviour is about; the others rest, so that their *)
(* states add up and do not multiply.                                      *)
(***************************************************************************)
EXTENDS Commerce, Progress, Rewards, Attempts, Chat, TLC

CONSTANTS
    r1, r2,           \* two requests, two people marking, or two processes
    o1, o2, s1, c1,   \* orders, a seat and its course
    choice, essay1,   \* questions
    q1, w1,           \* a request and a worker
    p1, p2, m1, m2,   \* who talks, and what they say
    x1, x2, x3        \* sockets

ASSUME PeopleAssumption == {p1, p2} \subseteq Talkers /\ p1 # p2

VARIABLE desk

learnerVars == <<desk, vars, lessonsVars, rewardsVars, quizVars, chatVars>>

OneSeat   == [o \in Orders |-> s1]
OneCourse == [s \in Seats |-> c1]
FakeAndSSL == (o1 :> "fake") @@ (o2 :> "sslcommerz")

(* Two desks are about the conversation.  At one it is a group of one, who may
   let the other in, each at a process of their own - or nobody has opened it
   yet, and nobody listens.  At the other it is a conversation between others,
   and somebody watches who comes and goes.                                 *)
Settled(p, i) == [Unopened EXCEPT !.person = p, !.instance = i, !.at = "reading"]
Gone == [Unopened EXCEPT !.at = "closed"]

(* Each is at one socket, and the rest are as nobody's may be. *)
SettledAt(s, i, t, j, rest) ==
    socket = [z \in Sockets |-> IF z = s THEN Settled(p1, i)
                                ELSE IF z = t THEN Settled(p2, j) ELSE rest]

Talking ==
    /\ text = [m \in Texts |-> "unsent"]
    /\ crossed = Talkers
    /\ \/ /\ kind = "none" /\ members = {}
          /\ socket = [s \in Sockets |-> Gone]
       \/ /\ kind = "group" /\ members = {p1}
          /\ \E i, j \in Instances : i # j /\ SettledAt(x1, i, x2, j, Gone)
Watching ==
    /\ kind = "direct" /\ members = {} /\ text = [m \in Texts |-> "untold"]
    /\ crossed = {}
    /\ \E i, j \in Instances : SettledAt(x1, i, x3, j, Unopened)

ConversationInit ==
    /\ IF desk = "presence" THEN Watching ELSE Talking
    /\ joined = members /\ queue = <<>>
    /\ reached = [i \in Instances |-> 0] /\ deaf = {}
    /\ writing = [i \in Instances |-> {}]
    /\ heard = [s \in Sockets |-> <<>>]
    /\ seen = [s \in Sockets |-> [p \in Talkers |-> Nothing]]

LearnerInit ==
    /\ desk \in {"sale", "lessons", "rewards", "quiz", "messages", "presence"}
    /\ Init
    /\ LessonsInit /\ (desk # "lessons" => drip = "free")
    /\ RewardsInit
    /\ QuizInit /\ (desk # "quiz" => bar = 50)
    /\ IF desk \in {"messages", "presence"} THEN ConversationInit ELSE ChatInit

AtSale == /\ desk = "sale" /\ Next
          /\ UNCHANGED <<desk, lessonsVars, rewardsVars, quizVars, chatVars>>
AtLessons == /\ desk = "lessons" /\ LessonsNext
             /\ UNCHANGED <<desk, vars, rewardsVars, quizVars, chatVars>>
AtRewards == /\ desk = "rewards" /\ RewardsNext
             /\ UNCHANGED <<desk, vars, lessonsVars, quizVars, chatVars>>
AtQuiz == /\ desk = "quiz" /\ QuizNext
          /\ UNCHANGED <<desk, vars, lessonsVars, rewardsVars, chatVars>>
AtChat == /\ desk \in {"messages", "presence"} /\ ChatNext
          /\ UNCHANGED <<desk, vars, lessonsVars, rewardsVars, quizVars>>

LearnerNext == AtSale \/ AtLessons \/ AtRewards \/ AtQuiz \/ AtChat

LearnerSpec == LearnerInit /\ [][LearnerNext]_learnerVars

LearnerTypeOK ==
    TypeOK /\ LessonsTypeOK /\ RewardsTypeOK /\ QuizTypeOK /\ ChatTypeOK

Alike == Permutations({r1, r2}) \cup Permutations({m1, m2})
=============================================================================
