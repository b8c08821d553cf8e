------------------------------- MODULE Campus -------------------------------
(***************************************************************************)
(* The school's office: packages admissions, academics (the roll), hostel  *)
(* and library, and the handler of package httpapi that turns an accepted  *)
(* application into a student.                                             *)
(*                                                                         *)
(* A room counts its beds in use and a book its copies on the shelf, each  *)
(* in its own row, beside the allocations and loans they count.  Lending,  *)
(* returning, allocating and vacating are transactions that hold the row   *)
(* of the counter to their end, so each is one action; one that finds no   *)
(* bed, no copy or no student rolls back and is no step.  The handler that *)
(* admits an applicant is four transactions, and anything may come between *)
(* them.                                                                   *)
(*                                                                         *)
(* An admission number is unique; the office may always think of a new     *)
(* one, and one that is taken ends the handler as CutClerk does.           *)
(***************************************************************************)
EXTENDS Naturals, FiniteSets

CONSTANTS
    Students,      \* ids of rows of students, never used twice
    Applications,  \* ids of rows of admission_applications
    Clerks,        \* requests to admit an applicant in flight at one moment
    Buildings,
    Rooms,
    Allocations,   \* ids of rows of hostel_allocations
    Books,
    Loans,         \* ids of rows of library_loans
    Sizes          \* the capacities and copy counts the office types in

NoOne         == "no student"
NoApplication == "no application"

ASSUME CampusAssumption ==
    /\ NoOne \notin Students /\ NoApplication \notin Applications
    /\ IsFiniteSet(Allocations) /\ IsFiniteSet(Loans)
    /\ Sizes \subseteq Nat

VARIABLES
    roll,         \* what became of each student
    bornOf,       \* the application each student was admitted from
    application,  \* the rows of admission_applications
    clerk,        \* the admit requests in flight
    disturbed,    \* the applications whose admission met another, or was cut
                  \* short when it had created the student
    buildings,    \* the rows of hostel_buildings
    room,         \* the rows of hostel_rooms
    allocation,   \* the rows of hostel_allocations
    book,         \* the rows of library_books
    loan          \* the rows of library_loans

admissionVars == <<roll, bornOf, application, clerk, disturbed>>
hostelVars    == <<buildings, room, allocation>>
libraryVars   == <<book, loan>>
campusVars    == <<admissionVars, hostelVars, libraryVars>>

NoRecord == [status |-> "none"]

ApplicationRows == {NoRecord}
    \cup [status: {"pending", "accepted", "rejected", "admitted"},
          student: Students \cup {NoOne}]
NoAdmission == [at |-> "idle"]
ClerkStates == {NoAdmission}
    \cup [at: {"admit"}, application: Applications]
    \cup [at: {"guardian", "close"}, application: Applications, student: Students]
RoomRows       == {NoRecord} \cup [status: {"open"}, capacity: Nat, occupied: Nat]
AllocationRows == {NoRecord} \cup [status: {"active", "vacated"}, room: Rooms, student: Students]
BookRows       == {NoRecord} \cup [status: {"held"}, total: Nat, available: Nat]
LoanRows       == {NoRecord} \cup [status: {"out", "returned"}, book: Books, student: Students]

Enrolled  == {s \in Students : roll[s] = "enrolled"}
Active(r) == {a \in Allocations : allocation[a].status = "active" /\ allocation[a].room = r}
Out(b)    == {l \in Loans : loan[l].status = "out" /\ loan[l].book = b}

(* The rows that reference a student go when the student goes. *)
CampusTypeOK ==
    /\ roll \in [Students -> {"none", "enrolled", "removed"}]
    /\ bornOf \in [Students -> Applications \cup {NoApplication}]
    /\ application \in [Applications -> ApplicationRows]
    /\ clerk \in [Clerks -> ClerkStates]
    /\ disturbed \subseteq Applications
    /\ buildings \subseteq Buildings
    /\ room \in [Rooms -> RoomRows]
    /\ allocation \in [Allocations -> AllocationRows]
    /\ book \in [Books -> BookRows]
    /\ loan \in [Loans -> LoanRows]
    /\ \A a \in Allocations : allocation[a] # NoRecord => allocation[a].student \in Enrolled
    /\ \A l \in Loans : loan[l] # NoRecord => loan[l].student \in Enrolled

CampusInit ==
    /\ roll = [s \in Students |-> "none"]
    /\ bornOf = [s \in Students |-> NoApplication]
    /\ application = [a \in Applications |-> NoRecord]
    /\ clerk = [c \in Clerks |-> NoAdmission]
    /\ disturbed = {}
    /\ buildings = {}
    /\ room = [r \in Rooms |-> NoRecord]
    /\ allocation = [a \in Allocations |-> NoRecord]
    /\ book = [b \in Books |-> NoRecord]
    /\ loan = [l \in Loans |-> NoRecord]

-----------------------------------------------------------------------------
(* Applications, and the roll. *)

SubmitApplication(a) ==
    /\ application[a] = NoRecord
    /\ application' = [application EXCEPT ![a] = [status |-> "pending", student |-> NoOne]]
    /\ UNCHANGED <<roll, bornOf, clerk, disturbed, hostelVars, libraryVars>>

(* Mutant: a decision may be taken back. *)
DecideAgain(a, to) ==
    /\ application[a].status \in {"pending", "accepted"}
    /\ application' = [application EXCEPT ![a].status = to]
    /\ UNCHANGED <<roll, bornOf, clerk, disturbed, hostelVars, libraryVars>>

DecideApplication(a, to) ==
    /\ application[a].status = "pending"
    /\ application' = [application EXCEPT ![a].status = to]
    /\ UNCHANGED <<roll, bornOf, clerk, disturbed, hostelVars, libraryVars>>

CreateStudent(s, from) ==
    /\ roll[s] = "none"
    /\ roll' = [roll EXCEPT ![s] = "enrolled"]
    /\ bornOf' = [bornOf EXCEPT ![s] = from]

AdmitStudent(s) ==
    /\ CreateStudent(s, NoApplication)
    /\ UNCHANGED <<application, clerk, disturbed, hostelVars, libraryVars>>

(* Mutant: a student's rows stay behind. *)
RemoveStudentOnly(s) ==
    /\ roll[s] = "enrolled"
    /\ roll' = [roll EXCEPT ![s] = "removed"]
    /\ UNCHANGED <<bornOf, application, clerk, disturbed, hostelVars, libraryVars>>

(* The allocations and loans of the student are deleted by the foreign keys;
   the room and the book are not told.                                      *)
RemoveStudent(s) ==
    /\ roll[s] = "enrolled"
    /\ roll' = [roll EXCEPT ![s] = "removed"]
    /\ application' = [a \in Applications |->
         IF application[a] # NoRecord /\ application[a].student = s
         THEN [application[a] EXCEPT !.student = NoOne] ELSE application[a]]
    /\ allocation' = [a \in Allocations |->
         IF allocation[a] # NoRecord /\ allocation[a].student = s THEN NoRecord ELSE allocation[a]]
    /\ loan' = [l \in Loans |->
         IF loan[l] # NoRecord /\ loan[l].student = s THEN NoRecord ELSE loan[l]]
    /\ UNCHANGED <<bornOf, clerk, disturbed, buildings, room, book>>

-----------------------------------------------------------------------------
(* Admitting an applicant: read the application, create the student, add the
   guardian, close the application, each in a transaction of its own.       *)

Admitting(c, a) == clerk[c] # NoAdmission /\ clerk[c].application = a

TakeUp(c, a) ==
    /\ clerk[c] = NoAdmission
    /\ clerk' = [clerk EXCEPT ![c] = [at |-> "admit", application |-> a]]
    /\ disturbed' = IF \E d \in Clerks : Admitting(d, a) THEN disturbed \cup {a} ELSE disturbed
    /\ UNCHANGED <<roll, bornOf, application, hostelVars, libraryVars>>

(* Mutant: an application that was admitted is admitted again. *)
OpenDecided(c, a) ==
    /\ application[a].status \in {"accepted", "admitted"}
    /\ TakeUp(c, a)

OpenAdmission(c, a) ==
    /\ application[a].status = "accepted"
    /\ TakeUp(c, a)

AdmitApplicant(c, s) ==
    /\ clerk[c].at = "admit"
    /\ CreateStudent(s, clerk[c].application)
    /\ clerk' = [clerk EXCEPT ![c] =
         [at |-> "guardian", application |-> clerk[c].application, student |-> s]]
    /\ UNCHANGED <<application, disturbed, hostelVars, libraryVars>>

AddGuardian(c) ==
    /\ clerk[c].at = "guardian"
    /\ clerk' = [clerk EXCEPT ![c] =
         IF clerk[c].student \in Enrolled THEN [clerk[c] EXCEPT !.at = "close"] ELSE NoAdmission]
    /\ UNCHANGED <<roll, bornOf, application, disturbed, hostelVars, libraryVars>>

MarkAdmitted(c) ==
    LET a == clerk[c].application IN
    /\ clerk[c].at = "close"
    /\ application' =
         IF application[a].status = "accepted" /\ clerk[c].student \in Enrolled
         THEN [application EXCEPT ![a] = [status |-> "admitted", student |-> clerk[c].student]]
         ELSE application
    /\ clerk' = [clerk EXCEPT ![c] = NoAdmission]
    /\ UNCHANGED <<roll, bornOf, disturbed, hostelVars, libraryVars>>

(* A transaction fails, the client goes or the process dies between two. *)
CutClerk(c) ==
    /\ clerk[c] # NoAdmission
    /\ disturbed' = IF clerk[c].at = "admit" THEN disturbed
                    ELSE disturbed \cup {clerk[c].application}
    /\ clerk' = [clerk EXCEPT ![c] = NoAdmission]
    /\ UNCHANGED <<roll, bornOf, application, hostelVars, libraryVars>>

-----------------------------------------------------------------------------
(* The hostel. *)

CreateBuilding(b) ==
    /\ b \notin buildings
    /\ buildings' = buildings \cup {b}
    /\ UNCHANGED <<admissionVars, room, allocation, libraryVars>>

(* A capacity of none is one. *)
AddRoom(r, n) ==
    /\ buildings # {}
    /\ room[r] = NoRecord
    /\ room' = [room EXCEPT ![r] =
         [status |-> "open", capacity |-> IF n = 0 THEN 1 ELSE n, occupied |-> 0]]
    /\ UNCHANGED <<admissionVars, buildings, allocation, libraryVars>>

HasBed(s) == \E a \in Allocations :
    allocation[a].status = "active" /\ allocation[a].student = s

Allocate(a, r, s) ==
    /\ allocation[a] = NoRecord
    /\ s \in Enrolled /\ ~HasBed(s)
    /\ room[r] # NoRecord /\ room[r].occupied < room[r].capacity
    /\ allocation' = [allocation EXCEPT ![a] = [status |-> "active", room |-> r, student |-> s]]
    /\ room' = [room EXCEPT ![r].occupied = @ + 1]
    /\ UNCHANGED <<admissionVars, buildings, libraryVars>>

(* Mutant: vacating twice frees two beds. *)
VacateAgain(a) ==
    /\ allocation[a] # NoRecord
    /\ allocation' = [allocation EXCEPT ![a].status = "vacated"]
    /\ room' = [room EXCEPT ![allocation[a].room].occupied = IF @ = 0 THEN 0 ELSE @ - 1]
    /\ UNCHANGED <<admissionVars, buildings, libraryVars>>

Vacate(a) ==
    /\ allocation[a].status = "active"
    /\ allocation' = [allocation EXCEPT ![a].status = "vacated"]
    /\ room' = [room EXCEPT ![allocation[a].room].occupied = IF @ = 0 THEN 0 ELSE @ - 1]
    /\ UNCHANGED <<admissionVars, buildings, libraryVars>>

-----------------------------------------------------------------------------
(* The library. *)

(* A book of no copies is a book of one. *)
AddBook(b, n) ==
    LET copies == IF n = 0 THEN 1 ELSE n IN
    /\ book[b] = NoRecord
    /\ book' = [book EXCEPT ![b] = [status |-> "held", total |-> copies, available |-> copies]]
    /\ UNCHANGED <<admissionVars, hostelVars, loan>>

IssueLoan(l, b, s) ==
    /\ loan[l] = NoRecord
    /\ s \in Enrolled
    /\ book[b] # NoRecord /\ book[b].available > 0
    /\ book' = [book EXCEPT ![b].available = @ - 1]
    /\ loan' = [loan EXCEPT ![l] = [status |-> "out", book |-> b, student |-> s]]
    /\ UNCHANGED <<admissionVars, hostelVars>>

Shelve(row) ==
    [row EXCEPT !.available = IF @ + 1 <= row.total THEN @ + 1 ELSE row.total]

ReturnLoan(l) ==
    /\ loan[l].status = "out"
    /\ loan' = [loan EXCEPT ![l].status = "returned"]
    /\ book' = [book EXCEPT ![loan[l].book] = Shelve(@)]
    /\ UNCHANGED <<admissionVars, hostelVars>>

-----------------------------------------------------------------------------
CampusNext ==
    \/ \E a \in Applications : SubmitApplication(a)
    \/ \E a \in Applications, to \in {"accepted", "rejected"} : DecideApplication(a, to)
    \/ \E s \in Students : AdmitStudent(s) \/ RemoveStudent(s)
    \/ \E c \in Clerks, a \in Applications : OpenAdmission(c, a)
    \/ \E c \in Clerks, s \in Students : AdmitApplicant(c, s)
    \/ \E c \in Clerks : AddGuardian(c) \/ MarkAdmitted(c) \/ CutClerk(c)
    \/ \E b \in Buildings : CreateBuilding(b)
    \/ \E r \in Rooms, n \in Sizes : AddRoom(r, n)
    \/ \E a \in Allocations, r \in Rooms, s \in Students : Allocate(a, r, s)
    \/ \E a \in Allocations : Vacate(a)
    \/ \E b \in Books, n \in Sizes : AddBook(b, n)
    \/ \E l \in Loans, b \in Books, s \in Students : IssueLoan(l, b, s)
    \/ \E l \in Loans : ReturnLoan(l)

CampusSpec == CampusInit /\ [][CampusNext]_campusVars

-----------------------------------------------------------------------------
(* However students are removed, admitted and moved, a room never sleeps more
   than its capacity: the counter that Allocate trusts is never below the
   allocations it stands for.  hostel/postgres.go, Allocate and Vacate.     *)
NeverOverbooked == \A r \in Rooms : room[r] # NoRecord =>
    Cardinality(Active(r)) <= room[r].occupied /\ room[r].occupied <= room[r].capacity

(* No copy is lent that is not there: what is out and what the shelf says
   are together at most what the library holds.  library/postgres.go.       *)
NeverOverlent == \A b \in Books : book[b] # NoRecord =>
    Cardinality(Out(b)) + book[b].available <= book[b].total

(* Neither counter is ever trusted with more than there is. *)
NeverOverdrawn == NeverOverbooked /\ NeverOverlent

(* A student comes of an application only if it was accepted, and two students
   of the school come of one only if two requests admitted it at once or one
   was cut short after it had created the student: the handler looks before
   three transactions more and does not look again.  That "a rejected or
   already-admitted one never mints an orphan student" is so of requests that
   come one after the other and end well.  httpapi/admissions_admit.go.     *)
AdmittedOnce ==
    /\ \A s \in Students : bornOf[s] # NoApplication =>
          application[bornOf[s]].status \in {"accepted", "admitted"}
    /\ \A s, t \in Enrolled :
          bornOf[s] = bornOf[t] /\ bornOf[s] \notin disturbed \cup {NoApplication} => s = t
=============================================================================
