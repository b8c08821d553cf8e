--------------------------- MODULE Prerequisites ---------------------------
(***************************************************************************)
(* Which course asks for which, written by package catalog, and one        *)
(* learner whom package enroll lets onto a course by it.                   *)
(*                                                                         *)
(* An author's request asks whether the new edge would close a loop, in    *)
(* one statement of a READ COMMITTED transaction, and inserts it in a      *)
(* later one: what others add in between it does not see.                  *)
(***************************************************************************)
EXTENDS FiniteSets

CONSTANTS
    Catalogue,  \* the courses of a workspace
    Authors     \* requests to add a prerequisite, at one moment

VARIABLES
    requires,  \* the rows of course_prerequisites: a course, and what it asks for
    adding,    \* the requests in flight
    standing   \* the learner's enrolment in each course

loopVars == <<requires, adding, standing>>

Edges     == {e \in Catalogue \X Catalogue : e[1] # e[2]}
Standings == {"none", "active", "completed", "cancelled"}

(* met is a history variable: another request has been in flight meanwhile. *)
NoAdding  == [at |-> "idle"]
Additions == {NoAdding} \cup [at: {"checked"}, edge: Edges, met: BOOLEAN]

LoopTypeOK ==
    /\ requires \subseteq Edges
    /\ adding \in [Authors -> Additions]
    /\ standing \in [Catalogue -> Standings]

LoopInit ==
    /\ requires = {}
    /\ adding = [a \in Authors |-> NoAdding]
    /\ standing = [c \in Catalogue |-> "none"]

-----------------------------------------------------------------------------
(* The walk outward from a course: it finds what every set holds that has the
   course and, with a course, all that it asks for.                         *)
Closed(S) == \A e \in requires : e[1] \in S => e[2] \in S

Reaches(from, to) ==
    \A S \in SUBSET Catalogue : from \in S /\ Closed(S) => to \in S

(* Mutant: only the opposite edge is looked for. *)
AsksBack(course, required) == <<required, course>> \in requires

WouldCycle(course, required) == Reaches(required, course)

Adding(a) == adding[a].at = "checked"

(* Every request in flight has company when another one begins. *)
Accompanied(a) ==
    IF Adding(a) THEN [at |-> "checked", edge |-> adding[a].edge, met |-> TRUE]
    ELSE NoAdding

CheckPrerequisite(a, course, required) ==
    /\ ~Adding(a)
    /\ course # required
    /\ ~WouldCycle(course, required)
    /\ adding' = [b \in Authors |->
                    IF b = a
                    THEN [at |-> "checked", edge |-> <<course, required>>,
                          met |-> \E other \in Authors : Adding(other)]
                    ELSE Accompanied(b)]
    /\ UNCHANGED <<requires, standing>>

(* The insert and the commit; an edge already there is refused. *)
AddPrerequisite(a) ==
    /\ Adding(a)
    /\ adding[a].edge \notin requires
    /\ requires' = requires \cup {adding[a].edge}
    /\ adding' = [adding EXCEPT ![a] = NoAdding]
    /\ UNCHANGED standing

AbortAddition(a) ==
    /\ Adding(a)
    /\ adding' = [adding EXCEPT ![a] = NoAdding]
    /\ UNCHANGED <<requires, standing>>

RemovePrerequisite(course, required) ==
    /\ <<course, required>> \in requires
    /\ requires' = requires \ {<<course, required>>}
    /\ UNCHANGED <<adding, standing>>

-----------------------------------------------------------------------------
(* The learner. *)
Missing(course) ==
    {r \in Catalogue : <<course, r>> \in requires /\ standing[r] # "completed"}

LiveIn(course) == standing[course] \in {"active", "completed"}

(* Who is in already is not asked. *)
EnrolSelf(course) ==
    /\ ~LiveIn(course)
    /\ Missing(course) = {}
    /\ standing' = [standing EXCEPT ![course] = "active"]
    /\ UNCHANGED <<requires, adding>>

(* Bought, or granted in a bundle or from a list: whatever is missing. *)
Place(course) ==
    /\ ~LiveIn(course)
    /\ standing' = [standing EXCEPT ![course] = "active"]
    /\ UNCHANGED <<requires, adding>>

Leaves(course) ==
    /\ LiveIn(course)
    /\ standing' = [standing EXCEPT ![course] = "cancelled"]
    /\ UNCHANGED <<requires, adding>>

(* Who was withdrawn while the last lesson was being finished is finished too. *)
Finish(course) ==
    /\ standing[course] \in {"active", "cancelled"}
    /\ standing' = [standing EXCEPT ![course] = "completed"]
    /\ UNCHANGED <<requires, adding>>

(* A lesson of a finished course is reopened. *)
Unfinish(course) ==
    /\ standing[course] = "completed"
    /\ standing' = [standing EXCEPT ![course] = "active"]
    /\ UNCHANGED <<requires, adding>>

-----------------------------------------------------------------------------
LoopNext ==
    \/ \E a \in Authors :
        \/ \E e \in Edges : CheckPrerequisite(a, e[1], e[2])
        \/ AddPrerequisite(a) \/ AbortAddition(a)
    \/ \E e \in Edges : RemovePrerequisite(e[1], e[2])
    \/ \E c \in Catalogue :
        EnrolSelf(c) \/ Place(c) \/ Leaves(c) \/ Finish(c) \/ Unfinish(c)

LoopSpec == LoopInit /\ [][LoopNext]_loopVars

-----------------------------------------------------------------------------
Acyclic == \A e \in requires : ~Reaches(e[2], e[1])

(* A prerequisite added with no other request about keeps the courses free of
   loops, whatever chain they form and whatever is removed between the check
   and the insert: a loop takes two authors.  catalog/prerequisites.go,
   AddPrerequisite.                                                         *)
AloneStaysAcyclic ==
    [][\A a \in Authors : AddPrerequisite(a) /\ ~adding[a].met /\ Acyclic
        => Acyclic']_loopVars

(* A learner with courses left to finish may work on one of them: one they are
   in, or one that asks for nothing they have not finished.
   enroll/service.go, Enrol.                                                *)
WayForward ==
    (\E c \in Catalogue : standing[c] # "completed") =>
        \E c \in Catalogue :
            \/ standing[c] = "active"
            \/ (standing[c] # "completed" /\ Missing(c) = {})
=============================================================================
