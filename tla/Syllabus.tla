------------------------------ MODULE Syllabus ------------------------------
(***************************************************************************)
(* The order of the topics of a course, or of the lessons of a topic: the  *)
(* statements of catalog's postgres_authoring.go are the same for both.    *)
(*                                                                         *)
(* Positions are unique among siblings, and the constraint that says so is *)
(* deferred: it is asked at the commit.  A statement reads the positions   *)
(* as they were when it began, and writes to rows as they are by then.     *)
(***************************************************************************)
EXTENDS Integers, FiniteSets

CONSTANTS
    Siblings,    \* the topics there may be at one moment
    Writers,     \* authors' requests in flight at one moment
    MaxPosition  \* the bound on positions

ASSUME SyllabusAssumption == IsFiniteSet(Siblings) /\ MaxPosition \in Nat

VARIABLES
    position,  \* where each topic is, or Nowhere
    edit       \* the requests in flight

syllabusVars == <<position, edit>>

Nowhere == -1
Places  == Nat \cup {Nowhere}

Placed(p) == {i \in Siblings : p[i] # Nowhere}

(* An order as an author submits it: each topic named, and its rank. *)
Rankings(S) == {r \in [S -> 0 .. Cardinality(S) - 1] :
                    \A i, j \in S : r[i] = r[j] => i = j}

NoEdit == [at |-> "idle"]
Edits ==
    {NoEdit}
    \cup [at: {"append"}, item: Siblings, place: Nat]
    \cup [at: {"delete"}, item: Siblings, saw: [Siblings -> Places]]
    \cup [at: {"reorder"}, rank: UNION {Rankings(S) : S \in SUBSET Siblings}]

SyllabusTypeOK ==
    /\ position \in [Siblings -> Places]
    /\ edit \in [Writers -> Edits]

SyllabusInit ==
    /\ \E S \in SUBSET Siblings : \E r \in Rankings(S) :
          position = [i \in Siblings |-> IF i \in S THEN r[i] ELSE Nowhere]
    /\ edit = [w \in Writers |-> NoEdit]

(* The deferred constraint, and a mutant that leaves it out. *)
UnaskedUnique(p) == TRUE

Unique(p) == \A i, j \in Placed(p) : p[i] = p[j] => i = j

(* Of an edit at its commit: the positions it leaves. *)
CommitPositions(w, p) ==
    /\ Unique(p)
    /\ position' = p
    /\ edit' = [edit EXCEPT ![w] = NoEdit]

-----------------------------------------------------------------------------
(* A new topic goes after the last the statement sees. *)
AfterLast(place) ==
    \/ Placed(position) = {} /\ place = 0
    \/ \E i \in Placed(position) :
          /\ \A j \in Placed(position) : position[j] <= position[i]
          /\ place = position[i] + 1

(* A topic nobody has heard of yet. *)
Unheard(i) ==
    /\ position[i] = Nowhere
    /\ \A w \in Writers :
          /\ edit[w].at = "append" => edit[w].item # i
          /\ edit[w].at = "delete" => edit[w].saw[i] = Nowhere
          /\ edit[w].at = "reorder" => i \notin DOMAIN edit[w].rank

Append(w, i) ==
    /\ edit[w] = NoEdit
    /\ Unheard(i)
    /\ \E place \in 0 .. MaxPosition :
          /\ AfterLast(place)
          /\ edit' = [edit EXCEPT ![w] = [at |-> "append", item |-> i, place |-> place]]
    /\ UNCHANGED position

CommitAppend(w) ==
    /\ edit[w].at = "append"
    /\ CommitPositions(w, [position EXCEPT ![edit[w].item] = edit[w].place])

-----------------------------------------------------------------------------
(* A topic is removed and the gap closed in one statement: it moves the rows
   that it saw behind the gap, if that is where they still are.             *)
Delete(w, i) ==
    /\ edit[w] = NoEdit
    /\ i \in Placed(position)
    /\ edit' = [edit EXCEPT ![w] = [at |-> "delete", item |-> i, saw |-> position]]
    /\ UNCHANGED position

GapClosed(item, saw) ==
    LET gap == position[item]
        Behind(i) == saw[i] > gap /\ position[i] > gap
    IN  [i \in Siblings |->
            IF i = item THEN Nowhere
            ELSE IF Behind(i) THEN position[i] - 1 ELSE position[i]]

CommitDelete(w) ==
    /\ edit[w].at = "delete"
    /\ edit[w].item \in Placed(position)
    /\ CommitPositions(w, GapClosed(edit[w].item, edit[w].saw))

-----------------------------------------------------------------------------
(* Every topic is named once, as many as there are: then the ranks are written,
   if the named are the topics of this course.                              *)
Reorder(w, r) ==
    /\ edit[w] = NoEdit
    /\ Placed(position) # {}
    /\ Cardinality(DOMAIN r) = Cardinality(Placed(position))
    /\ edit' = [edit EXCEPT ![w] = [at |-> "reorder", rank |-> r]]
    /\ UNCHANGED position

CommitReorder(w) ==
    LET rank == edit[w].rank IN
    /\ edit[w].at = "reorder"
    /\ DOMAIN rank \subseteq Placed(position)
    /\ CommitPositions(w, [i \in Siblings |-> IF i \in DOMAIN rank THEN rank[i] ELSE position[i]])

(* Refused, cut off, or turned down at the commit. *)
Abandon(w) ==
    /\ edit[w] # NoEdit
    /\ edit' = [edit EXCEPT ![w] = NoEdit]
    /\ UNCHANGED position

-----------------------------------------------------------------------------
SyllabusNext ==
    \E w \in Writers :
        \/ \E i \in Siblings : Append(w, i) \/ Delete(w, i)
        \/ \E S \in SUBSET Siblings : \E r \in Rankings(S) : Reorder(w, r)
        \/ CommitAppend(w) \/ CommitDelete(w) \/ CommitReorder(w)
        \/ Abandon(w)

SyllabusSpec == SyllabusInit /\ [][SyllabusNext]_syllabusVars

-----------------------------------------------------------------------------
(* Only a reorder changes which of two topics comes first: what is added and
   removed at once with it, or with one another, leaves the others as the
   authors left them.  catalog/postgres_authoring.go, deleteTopicSQL.       *)
OrderIsKept ==
    [][\A i, j \in Placed(position) \cap Placed(position') :
            \/ (position[i] < position[j]) = (position'[i] < position'[j])
            \/ \E w \in Writers : CommitReorder(w)]_syllabusVars
=============================================================================
