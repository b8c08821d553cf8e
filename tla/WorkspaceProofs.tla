-------------------------- MODULE WorkspaceProofs --------------------------
(* What holds of the school's office, of the limiter and of what is handed in,
   for any number of students, rooms, books, addresses, files and requests;
   and of them and of package auth side by side.                             *)
EXTENDS MCWorkspace, SessionsProofs

-----------------------------------------------------------------------------
(* The office. *)

LEMMA ClerkTyped ==
    ASSUME CampusTypeOK, NEW c \in Clerks, clerk[c] # NoAdmission
    PROVE  /\ clerk[c].application \in Applications
           /\ clerk[c].at \in {"admit", "guardian", "close"}
           /\ clerk[c].at # "admit" => clerk[c].student \in Students
BY DEF CampusTypeOK, ClerkStates, NoAdmission

LEMMA RoomTyped ==
    ASSUME CampusTypeOK, NEW r \in Rooms, room[r] # NoRecord
    PROVE  room[r].capacity \in Nat /\ room[r].occupied \in Nat
BY DEF CampusTypeOK, RoomRows, NoRecord

LEMMA BookTyped ==
    ASSUME CampusTypeOK, NEW b \in Books, book[b] # NoRecord
    PROVE  book[b].total \in Nat /\ book[b].available \in Nat
BY DEF CampusTypeOK, BookRows, NoRecord

LEMMA AllocationTyped ==
    ASSUME CampusTypeOK, NEW a \in Allocations, allocation[a] # NoRecord
    PROVE  /\ allocation[a].room \in Rooms /\ allocation[a].student \in Enrolled
           /\ allocation[a].status \in {"active", "vacated"}
BY DEF CampusTypeOK, AllocationRows, NoRecord

LEMMA LoanTyped ==
    ASSUME CampusTypeOK, NEW l \in Loans, loan[l] # NoRecord
    PROVE  /\ loan[l].book \in Books /\ loan[l].student \in Enrolled
           /\ loan[l].status \in {"out", "returned"}
BY DEF CampusTypeOK, LoanRows, NoRecord

(* A room that is slept in is there, and so is a book that is lent; who is at
   an admission opened an application that nobody can reject any more.      *)
RoomsAreThere == \A a \in Allocations :
    allocation[a] # NoRecord => room[allocation[a].room] # NoRecord
BooksAreThere == \A l \in Loans :
    loan[l] # NoRecord => book[loan[l].book] # NoRecord
Decided(a) == application[a].status \in {"accepted", "admitted"}
AdmissionsAreDecided == \A c \in Clerks :
    clerk[c] # NoAdmission => Decided(clerk[c].application)

BornOfDecided == \A s \in Students :
    bornOf[s] # NoApplication => application[bornOf[s]].status \in {"accepted", "admitted"}

(* Whoever admits the applicant of an undisturbed application is alone at it;
   a student who comes of it is in that request's hands, or it is closed.    *)
BornOnce == \A s, t \in Enrolled :
    bornOf[s] = bornOf[t] /\ bornOf[s] \notin disturbed \cup {NoApplication} => s = t
AloneAt(a) ==
    /\ \A c, d \in Clerks : Admitting(c, a) /\ Admitting(d, a) => c = d
    /\ \A s \in Enrolled : bornOf[s] = a =>
          \/ application[a].status = "admitted" /\ \A c \in Clerks : ~Admitting(c, a)
          \/ \E c \in Clerks : /\ Admitting(c, a) /\ clerk[c].at # "admit"
                              /\ clerk[c].student = s
Undisturbed   == \A a \in Applications \ disturbed : AloneAt(a)
AdmittedAlone == BornOnce /\ Undisturbed

CampusInv ==
    /\ CampusTypeOK
    /\ RoomsAreThere /\ NeverOverbooked
    /\ BooksAreThere /\ NeverOverlent
    /\ AdmissionsAreDecided /\ BornOfDecided /\ AdmittedAlone

LEMMA ActiveFinite ==
    ASSUME NEW r
    PROVE  IsFiniteSet(Active(r)) /\ Cardinality(Active(r)) \in Nat
<1>1. Active(r) \subseteq Allocations
  BY DEF Active
<1> QED BY <1>1, CampusAssumption, FS_Subset, FS_CardinalityType

LEMMA OutFinite ==
    ASSUME NEW b
    PROVE  IsFiniteSet(Out(b)) /\ Cardinality(Out(b)) \in Nat
<1>1. Out(b) \subseteq Loans
  BY DEF Out
<1> QED BY <1>1, CampusAssumption, FS_Subset, FS_CardinalityType

LEMMA CampusInitInv == CampusInit => CampusInv
<1> SUFFICES ASSUME CampusInit PROVE CampusInv
  OBVIOUS
<1>1. CampusTypeOK
  BY DEF CampusInit, CampusTypeOK, ApplicationRows, ClerkStates, RoomRows,
         AllocationRows, BookRows, LoanRows
<1>2. RoomsAreThere /\ NeverOverbooked /\ BooksAreThere /\ NeverOverlent
  BY DEF CampusInit, RoomsAreThere, NeverOverbooked, BooksAreThere, NeverOverlent
<1>3. AdmissionsAreDecided /\ BornOfDecided
  BY DEF CampusInit, AdmissionsAreDecided, BornOfDecided
<1>4. AdmittedAlone
  BY DEF CampusInit, AdmittedAlone, BornOnce, Undisturbed, AloneAt, Admitting, Enrolled
<1> QED BY <1>1, <1>2, <1>3, <1>4 DEF CampusInv

-----------------------------------------------------------------------------
(* The hostel and the library keep what they hold when none of their rows
   change.                                                                   *)
LEMMA HostelStands ==
    ASSUME RoomsAreThere, NeverOverbooked, UNCHANGED hostelVars
    PROVE  RoomsAreThere' /\ NeverOverbooked'
BY DEF RoomsAreThere, NeverOverbooked, hostelVars, Active

LEMMA LibraryStands ==
    ASSUME BooksAreThere, NeverOverlent, UNCHANGED libraryVars
    PROVE  BooksAreThere' /\ NeverOverlent'
BY DEF BooksAreThere, NeverOverlent, libraryVars, Out

LEMMA AdmissionsStand ==
    ASSUME AdmissionsAreDecided, BornOfDecided, AdmittedAlone, UNCHANGED admissionVars
    PROVE  AdmissionsAreDecided' /\ BornOfDecided' /\ AdmittedAlone'
BY DEF AdmissionsAreDecided, BornOfDecided, AdmittedAlone, BornOnce, Undisturbed, AloneAt,
       Admitting, Enrolled, admissionVars, Decided

(* Nobody is at work on an application, and no student comes of one. *)
LEMMA AloneKept ==
    ASSUME CampusTypeOK, AdmittedAlone, UNCHANGED <<clerk, disturbed>>,
           \A a \in Applications :
               application[a].status = "admitted" => application'[a].status = "admitted",
           \A s \in Enrolled' : bornOf'[s] # NoApplication =>
               s \in Enrolled /\ bornOf'[s] = bornOf[s]
    PROVE  AdmittedAlone'
<1>1. BornOnce'
  BY DEF AdmittedAlone, BornOnce
<1>2. ASSUME NEW a \in Applications \ disturbed PROVE AloneAt(a)'
  <2>1. AloneAt(a) /\ a # NoApplication
    BY CampusAssumption DEF AdmittedAlone, Undisturbed
  <2> QED BY <2>1 DEF AloneAt, Admitting
<1> QED BY <1>1, <1>2 DEF AdmittedAlone, Undisturbed

(* No decision is taken back: an application that is decided stays so. *)
LEMMA AdmissionsKept ==
    ASSUME CampusTypeOK, AdmissionsAreDecided, BornOfDecided,
           \A a \in Applications : Decided(a) => Decided(a)',
           \A c \in Clerks : clerk'[c] # NoAdmission =>
               \/ /\ clerk[c] # NoAdmission
                  /\ clerk'[c].application = clerk[c].application
               \/ /\ clerk'[c].application \in Applications
                  /\ Decided(clerk'[c].application),
           \A s \in Students :
               \/ bornOf'[s] = bornOf[s]
               \/ bornOf'[s] = NoApplication
               \/ \E c \in Clerks : clerk[c] # NoAdmission /\ bornOf'[s] = clerk[c].application
    PROVE  AdmissionsAreDecided' /\ BornOfDecided'
<1>1. AdmissionsAreDecided'
  <2> SUFFICES ASSUME NEW c \in Clerks, clerk'[c] # NoAdmission
               PROVE  Decided(clerk[c].application)'
    BY DEF AdmissionsAreDecided
  <2>1. clerk'[c].application \in Applications /\ Decided(clerk'[c].application)
    BY ClerkTyped DEF AdmissionsAreDecided
  <2> QED BY <2>1 DEF Decided
<1>2. BornOfDecided'
  <2> SUFFICES ASSUME NEW s \in Students, bornOf'[s] # NoApplication
               PROVE  application'[bornOf'[s]].status \in {"accepted", "admitted"}
    BY DEF BornOfDecided
  <2>1. CASE bornOf'[s] = bornOf[s]
    <3>1. bornOf[s] \in Applications /\ Decided(bornOf[s])
      BY <2>1 DEF CampusTypeOK, BornOfDecided, Decided
    <3> QED BY <2>1, <3>1 DEF Decided
  <2>2. CASE \E c \in Clerks : clerk[c] # NoAdmission /\ bornOf'[s] = clerk[c].application
    BY <2>2, ClerkTyped DEF AdmissionsAreDecided, Decided
  <2> QED BY <2>1, <2>2
<1> QED BY <1>1, <1>2

-----------------------------------------------------------------------------
(* The roll and the applications. *)

LEMMA ApplicationsStep ==
    ASSUME CampusInv, NEW a \in Applications,
           \/ SubmitApplication(a)
           \/ \E to \in {"accepted", "rejected"} : DecideApplication(a, to)
    PROVE  CampusInv'
<1>1. CampusTypeOK'
  BY DEF CampusInv, CampusTypeOK, SubmitApplication, DecideApplication, ApplicationRows,
         NoRecord, hostelVars, libraryVars, Enrolled
<1>2. UNCHANGED hostelVars /\ UNCHANGED libraryVars
  BY DEF SubmitApplication, DecideApplication
<1>3. \A b \in Applications : Decided(b) => Decided(b)'
  BY DEF CampusInv, CampusTypeOK, Decided, SubmitApplication, DecideApplication, NoRecord,
         ApplicationRows
<1>4. clerk' = clerk /\ bornOf' = bornOf /\ roll' = roll /\ disturbed' = disturbed
  BY DEF SubmitApplication, DecideApplication
<1>5. AdmissionsAreDecided' /\ BornOfDecided'
  <2>1. \A c \in Clerks : clerk'[c] # NoAdmission =>
          clerk[c] # NoAdmission /\ clerk'[c].application = clerk[c].application
    BY <1>4
  <2>2. \A s \in Students : bornOf'[s] = bornOf[s]
    BY <1>4
  <2> QED BY <1>3, <2>1, <2>2, AdmissionsKept DEF CampusInv
<1>6. AdmittedAlone'
  <2>1. \A b \in Applications :
          application[b].status = "admitted" => application'[b].status = "admitted"
    BY DEF CampusInv, CampusTypeOK, SubmitApplication, DecideApplication, NoRecord
  <2>2. Enrolled' = Enrolled
    BY <1>4 DEF Enrolled
  <2> QED BY <1>4, <2>1, <2>2, AloneKept DEF CampusInv
<1> QED BY <1>1, <1>2, <1>5, <1>6, HostelStands, LibraryStands DEF CampusInv

LEMMA AdmitStudentStep ==
    ASSUME CampusInv, NEW s \in Students, AdmitStudent(s)
    PROVE  CampusInv'
<1>1. CampusTypeOK'
  BY DEF CampusInv, CampusTypeOK, AdmitStudent, CreateStudent, hostelVars, libraryVars, Enrolled
<1>2. UNCHANGED hostelVars /\ UNCHANGED libraryVars
  BY DEF AdmitStudent
<1>3. application' = application /\ clerk' = clerk /\ disturbed' = disturbed
  BY DEF AdmitStudent
<1>4. \A t \in Students : bornOf'[t] = bornOf[t] \/ bornOf'[t] = NoApplication
  BY DEF CampusInv, CampusTypeOK, AdmitStudent, CreateStudent
<1>5. AdmissionsAreDecided' /\ BornOfDecided'
  <2>1. \A b \in Applications : Decided(b) => Decided(b)'
    BY <1>3 DEF Decided
  <2>2. \A c \in Clerks : clerk'[c] # NoAdmission =>
          clerk[c] # NoAdmission /\ clerk'[c].application = clerk[c].application
    BY <1>3
  <2> QED BY <2>1, <2>2, <1>4, AdmissionsKept DEF CampusInv
<1>6. AdmittedAlone'
  <2>1. \A t \in Enrolled' : bornOf'[t] # NoApplication =>
          t \in Enrolled /\ bornOf'[t] = bornOf[t]
    BY DEF CampusInv, CampusTypeOK, AdmitStudent, CreateStudent, Enrolled
  <2> QED BY <1>3, <2>1, AloneKept DEF CampusInv
<1> QED BY <1>1, <1>2, <1>5, <1>6, HostelStands, LibraryStands DEF CampusInv

(* Removing a student empties beds and hands without telling the room or the
   book, so that both count at least what is left.                           *)
LEMMA RemoveStudentStep ==
    ASSUME CampusInv, NEW s \in Students, RemoveStudent(s)
    PROVE  CampusInv'
<1>1. CampusTypeOK'
  <2>1. /\ application' \in [Applications -> ApplicationRows]
        /\ allocation' \in [Allocations -> AllocationRows]
        /\ loan' \in [Loans -> LoanRows]
    BY DEF CampusInv, CampusTypeOK, RemoveStudent, ApplicationRows, AllocationRows, LoanRows, NoRecord
  <2>2. Enrolled' = Enrolled \ {s}
    BY DEF CampusInv, CampusTypeOK, RemoveStudent, Enrolled
  <2>3. /\ \A a \in Allocations : allocation'[a] # NoRecord => allocation'[a].student \in Enrolled'
        /\ \A l \in Loans : loan'[l] # NoRecord => loan'[l].student \in Enrolled'
    BY <2>2 DEF CampusInv, CampusTypeOK, RemoveStudent
  <2> QED BY <2>1, <2>3 DEF CampusInv, CampusTypeOK, RemoveStudent
<1>2. RoomsAreThere' /\ NeverOverbooked'
  <2>1. \A a \in Allocations : allocation'[a] = NoRecord \/ allocation'[a] = allocation[a]
    BY DEF RemoveStudent
  <2>2. \A r \in Rooms : Active(r)' \subseteq Active(r)
    BY <2>1 DEF Active, NoRecord
  <2>3. \A r \in Rooms : Cardinality(Active(r)') <= Cardinality(Active(r))
                         /\ Cardinality(Active(r)') \in Nat
    BY <2>2, ActiveFinite, FS_Subset, FS_CardinalityType
  <2>4. room' = room
    BY DEF RemoveStudent
  <2>5. RoomsAreThere'
    BY <2>1, <2>4 DEF RoomsAreThere, CampusInv
  <2>6. ASSUME NEW r \in Rooms, room[r] # NoRecord
        PROVE  Cardinality(Active(r)') <= room[r].occupied /\ room[r].occupied <= room[r].capacity
    BY <2>3, <2>6, ActiveFinite, RoomTyped DEF NeverOverbooked, CampusInv
  <2> QED BY <2>4, <2>5, <2>6 DEF NeverOverbooked
<1>3. BooksAreThere' /\ NeverOverlent'
  <2>1. \A l \in Loans : loan'[l] = NoRecord \/ loan'[l] = loan[l]
    BY DEF RemoveStudent
  <2>2. \A b \in Books : Out(b)' \subseteq Out(b)
    BY <2>1 DEF Out, NoRecord
  <2>3. \A b \in Books : Cardinality(Out(b)') <= Cardinality(Out(b))
                         /\ Cardinality(Out(b)') \in Nat
    BY <2>2, OutFinite, FS_Subset, FS_CardinalityType
  <2>4. book' = book
    BY DEF RemoveStudent
  <2>5. BooksAreThere'
    BY <2>1, <2>4 DEF BooksAreThere, CampusInv
  <2>6. ASSUME NEW b \in Books, book[b] # NoRecord
        PROVE  Cardinality(Out(b)') + book[b].available <= book[b].total
    BY <2>3, <2>6, OutFinite, BookTyped DEF NeverOverlent, CampusInv
  <2> QED BY <2>4, <2>5, <2>6 DEF NeverOverlent
<1>4. AdmissionsAreDecided' /\ BornOfDecided'
  <2>1. \A b \in Applications : Decided(b) => Decided(b)'
    BY DEF CampusInv, CampusTypeOK, Decided, RemoveStudent, ApplicationRows, NoRecord
  <2>2. clerk' = clerk /\ bornOf' = bornOf
    BY DEF RemoveStudent
  <2>3. \A c \in Clerks : clerk'[c] # NoAdmission =>
          clerk[c] # NoAdmission /\ clerk'[c].application = clerk[c].application
    BY <2>2
  <2>4. \A t \in Students : bornOf'[t] = bornOf[t]
    BY <2>2
  <2> QED BY <2>1, <2>3, <2>4, AdmissionsKept DEF CampusInv
<1>5. AdmittedAlone'
  <2>1. UNCHANGED <<clerk, disturbed, bornOf>>
    BY DEF RemoveStudent
  <2>2. Enrolled' \subseteq Enrolled
    BY DEF CampusInv, CampusTypeOK, RemoveStudent, Enrolled
  <2>3. \A b \in Applications :
          application[b].status = "admitted" => application'[b].status = "admitted"
    BY DEF CampusInv, CampusTypeOK, RemoveStudent, ApplicationRows, NoRecord
  <2> QED BY <2>1, <2>2, <2>3, AloneKept DEF CampusInv
<1> QED BY <1>1, <1>2, <1>3, <1>4, <1>5 DEF CampusInv

-----------------------------------------------------------------------------
(* Admitting an applicant. *)

LEMMA OpenAdmissionStep ==
    ASSUME CampusInv, NEW c \in Clerks, NEW a \in Applications, OpenAdmission(c, a)
    PROVE  CampusInv'
<1>1. CampusTypeOK'
  BY DEF CampusInv, CampusTypeOK, OpenAdmission, TakeUp, ClerkStates, hostelVars, libraryVars, Enrolled
<1>2. UNCHANGED hostelVars /\ UNCHANGED libraryVars
  BY DEF OpenAdmission, TakeUp
<1>3. AdmissionsAreDecided' /\ BornOfDecided'
  <2>1. \A b \in Applications : Decided(b) => Decided(b)'
    BY DEF OpenAdmission, TakeUp, Decided
  <2>2. \A d \in Clerks : clerk'[d] # NoAdmission =>
          \/ clerk[d] # NoAdmission /\ clerk'[d].application = clerk[d].application
          \/ clerk'[d].application \in Applications /\ Decided(clerk'[d].application)
    BY DEF CampusInv, CampusTypeOK, OpenAdmission, TakeUp, Decided
  <2>3. \A t \in Students : bornOf'[t] = bornOf[t]
    BY DEF OpenAdmission, TakeUp
  <2> QED BY <2>1, <2>2, <2>3, AdmissionsKept DEF CampusInv
<1>4. AdmittedAlone'
  <2>1. /\ clerk[c] = NoAdmission /\ application[a].status = "accepted"
        /\ clerk'[c] = [at |-> "admit", application |-> a]
        /\ \A d \in Clerks \ {c} : clerk'[d] = clerk[d]
        /\ UNCHANGED <<roll, bornOf, application>>
        /\ disturbed' = IF \E d \in Clerks : Admitting(d, a) THEN disturbed \cup {a} ELSE disturbed
    BY DEF CampusInv, CampusTypeOK, OpenAdmission, TakeUp
  <2>2. Enrolled' = Enrolled /\ disturbed \subseteq disturbed'
    BY <2>1 DEF Enrolled
  <2>3. BornOnce'
    BY <2>1, <2>2 DEF CampusInv, AdmittedAlone, BornOnce
  <2>4. clerk'[c] # NoAdmission
    BY <2>1 DEF NoAdmission
  <2>5. ASSUME NEW b \in Applications \ disturbed' PROVE AloneAt(b)'
    <3>1. AloneAt(b)
      BY <2>2 DEF CampusInv, AdmittedAlone, Undisturbed
    <3>2. CASE b = a
      <4>1. \A d \in Clerks : ~Admitting(d, a)
        BY <2>1, <3>2
      <4>2. \A t \in Enrolled : bornOf[t] # a
        BY <2>1, <3>1, <3>2, <4>1 DEF AloneAt
      <4>3. \A d \in Clerks : Admitting(d, a)' => d = c
        BY <2>1, <4>1 DEF Admitting
      <4> QED BY <2>1, <2>2, <3>2, <4>2, <4>3 DEF AloneAt
    <3>3. CASE b # a
      <4>1. ~Admitting(c, b) /\ ~Admitting(c, b)'
        BY <2>1, <3>3 DEF Admitting
      <4>2. \A d \in Clerks : Admitting(d, b)' <=> Admitting(d, b)
        BY <2>1, <4>1 DEF Admitting
      <4>3. \A d \in Clerks : Admitting(d, b) => clerk'[d] = clerk[d]
        BY <2>1, <4>1
      <4> QED BY <2>1, <2>2, <3>1, <4>2, <4>3 DEF AloneAt
    <3> QED BY <3>2, <3>3
  <2> QED BY <2>3, <2>5 DEF AdmittedAlone, Undisturbed
<1> QED BY <1>1, <1>2, <1>3, <1>4, HostelStands, LibraryStands DEF CampusInv

LEMMA AdmitApplicantStep ==
    ASSUME CampusInv, NEW c \in Clerks, NEW s \in Students, AdmitApplicant(c, s)
    PROVE  CampusInv'
<1>1. clerk[c] # NoAdmission
  BY DEF AdmitApplicant, NoAdmission
<1>2. clerk[c].application \in Applications
  BY <1>1, ClerkTyped DEF CampusInv
<1>3. CampusTypeOK'
  <2>1. clerk' \in [Clerks -> ClerkStates]
    BY <1>2 DEF CampusInv, CampusTypeOK, AdmitApplicant, ClerkStates
  <2> QED BY <1>2, <2>1 DEF CampusInv, CampusTypeOK, AdmitApplicant, CreateStudent,
                            hostelVars, libraryVars, Enrolled
<1>4. UNCHANGED hostelVars /\ UNCHANGED libraryVars
  BY DEF AdmitApplicant
<1>5. AdmissionsAreDecided' /\ BornOfDecided'
  <2>1. \A b \in Applications : Decided(b) => Decided(b)'
    BY DEF AdmitApplicant, Decided
  <2>2. \A d \in Clerks : clerk'[d] # NoAdmission =>
          clerk[d] # NoAdmission /\ clerk'[d].application = clerk[d].application
    BY <1>1 DEF CampusInv, CampusTypeOK, AdmitApplicant
  <2>3. \A t \in Students : bornOf'[t] = bornOf[t]
          \/ \E d \in Clerks : clerk[d] # NoAdmission /\ bornOf'[t] = clerk[d].application
    BY <1>1 DEF CampusInv, CampusTypeOK, AdmitApplicant, CreateStudent
  <2> QED BY <2>1, <2>2, <2>3, AdmissionsKept DEF CampusInv
<1>6. AdmittedAlone'
  <2> DEFINE x == clerk[c].application
  <2>1. /\ clerk[c].at = "admit" /\ Admitting(c, x) /\ x # NoApplication
        /\ clerk'[c] = [at |-> "guardian", application |-> x, student |-> s]
        /\ clerk'[c] # NoAdmission
        /\ \A d \in Clerks \ {c} : clerk'[d] = clerk[d]
        /\ UNCHANGED <<application, disturbed>>
    BY <1>1, <1>2, CampusAssumption
       DEF CampusInv, CampusTypeOK, AdmitApplicant, Admitting, NoAdmission
  <2>2. /\ s \notin Enrolled /\ Enrolled' = Enrolled \cup {s} /\ bornOf'[s] = x
        /\ \A t \in Students \ {s} : bornOf'[t] = bornOf[t]
    BY DEF CampusInv, CampusTypeOK, AdmitApplicant, CreateStudent, Enrolled
  <2> HIDE DEF x
  <2>3. \A d \in Clerks, b \in Applications : Admitting(d, b)' <=> Admitting(d, b)
    BY <2>1 DEF Admitting
  <2>4. x \notin disturbed => \A t \in Enrolled : bornOf[t] # x
    <3> SUFFICES ASSUME x \notin disturbed, NEW t \in Enrolled, bornOf[t] = x PROVE FALSE
      OBVIOUS
    <3>1. AloneAt(x)
      BY <1>2 DEF CampusInv, AdmittedAlone, Undisturbed, x
    <3>2. PICK d \in Clerks : Admitting(d, x) /\ clerk[d].at # "admit"
      BY <2>1, <3>1 DEF AloneAt
    <3> QED BY <2>1, <3>1, <3>2 DEF AloneAt
  <2>5. Enrolled \subseteq Students
    BY DEF Enrolled
  <2>6. BornOnce'
    <3> SUFFICES ASSUME NEW t \in Enrolled', NEW u \in Enrolled', bornOf'[t] = bornOf'[u],
                        bornOf'[t] \notin disturbed \cup {NoApplication}
                 PROVE  t = u
      BY <2>1 DEF BornOnce
    <3>1. CASE bornOf'[t] = x
      BY <2>2, <2>4, <2>5, <3>1
    <3>2. CASE bornOf'[t] # x
      BY <2>2, <2>5, <3>2 DEF CampusInv, AdmittedAlone, BornOnce
    <3> QED BY <3>1, <3>2
  <2>7. ASSUME NEW b \in Applications \ disturbed PROVE AloneAt(b)'
    <3>1. AloneAt(b)
      BY DEF CampusInv, AdmittedAlone, Undisturbed
    <3>2. \A d, e \in Clerks : Admitting(d, b)' /\ Admitting(e, b)' => d = e
      BY <2>3, <3>1 DEF AloneAt
    <3>3. ASSUME NEW t \in Enrolled', bornOf'[t] = b
          PROVE  \/ application'[b].status = "admitted" /\ \A d \in Clerks : ~Admitting(d, b)'
                 \/ \E d \in Clerks : /\ Admitting(d, b)' /\ clerk'[d].at # "admit"
                                     /\ clerk'[d].student = t
      <4>1. CASE t = s
        BY <2>1, <2>2, <2>3, <3>3, <4>1
      <4>2. CASE t # s
        <5>1. t \in Enrolled /\ bornOf[t] = b
          BY <2>2, <2>5, <3>3, <4>2
        <5>2. \A d \in Clerks : Admitting(d, b) /\ clerk[d].at # "admit" => clerk'[d] = clerk[d]
          BY <2>1
        <5> QED BY <2>1, <2>3, <3>1, <5>1, <5>2 DEF AloneAt
      <4> QED BY <4>1, <4>2
    <3> QED BY <3>2, <3>3 DEF AloneAt
  <2> QED BY <2>1, <2>6, <2>7 DEF AdmittedAlone, Undisturbed
<1> QED BY <1>3, <1>4, <1>5, <1>6, HostelStands, LibraryStands DEF CampusInv

LEMMA ClerkStep ==
    ASSUME CampusInv, NEW c \in Clerks, AddGuardian(c) \/ MarkAdmitted(c) \/ CutClerk(c)
    PROVE  CampusInv'
<1>1. clerk[c] # NoAdmission
  BY DEF AddGuardian, MarkAdmitted, CutClerk, NoAdmission
<1>2. clerk' = [clerk EXCEPT ![c] = clerk'[c]] /\ clerk'[c] \in ClerkStates
  BY <1>1, ClerkTyped DEF CampusInv, CampusTypeOK, AddGuardian, MarkAdmitted, CutClerk, ClerkStates
<1>3. clerk'[c] # NoAdmission => clerk'[c].application = clerk[c].application
  BY <1>1, ClerkTyped DEF CampusInv, CampusTypeOK, AddGuardian, MarkAdmitted, CutClerk, ClerkStates
<1>4. application' \in [Applications -> ApplicationRows]
  BY <1>1, ClerkTyped DEF CampusInv, CampusTypeOK, AddGuardian, MarkAdmitted, CutClerk, ApplicationRows
<1>5. UNCHANGED <<roll, bornOf>> /\ UNCHANGED hostelVars /\ UNCHANGED libraryVars
  BY DEF AddGuardian, MarkAdmitted, CutClerk
<1>6. CampusTypeOK'
  <2>1. disturbed' \subseteq Applications
    BY <1>1, ClerkTyped DEF CampusInv, CampusTypeOK, AddGuardian, MarkAdmitted, CutClerk
  <2> QED BY <1>2, <1>4, <1>5, <2>1 DEF CampusInv, CampusTypeOK, hostelVars, libraryVars, Enrolled
<1>7. AdmissionsAreDecided' /\ BornOfDecided'
  <2>1. \A b \in Applications : Decided(b) => Decided(b)'
    BY DEF CampusInv, CampusTypeOK, AddGuardian, MarkAdmitted, CutClerk, Decided
  <2>2. \A d \in Clerks : clerk'[d] # NoAdmission =>
          clerk[d] # NoAdmission /\ clerk'[d].application = clerk[d].application
    BY <1>1, <1>2, <1>3 DEF CampusInv, CampusTypeOK
  <2>3. \A t \in Students : bornOf'[t] = bornOf[t]
    BY <1>5
  <2> QED BY <2>1, <2>2, <2>3, AdmissionsKept DEF CampusInv
<1>8. AdmittedAlone'
  <2> DEFINE x == clerk[c].application
  <2>1. /\ Admitting(c, x) /\ x \in Applications /\ Decided(x)
        /\ \A d \in Clerks \ {c} : clerk'[d] = clerk[d]
    BY <1>1, <1>2, ClerkTyped DEF CampusInv, CampusTypeOK, Admitting, AdmissionsAreDecided
  <2>2. Enrolled' = Enrolled /\ bornOf' = bornOf
    BY <1>5 DEF Enrolled
  <2>3. disturbed \subseteq disturbed'
    BY DEF AddGuardian, MarkAdmitted, CutClerk
  <2>4. BornOnce'
    BY <2>2, <2>3 DEF CampusInv, AdmittedAlone, BornOnce
  <2>5. \A b \in Applications \ {x} : application'[b] = application[b]
    BY DEF CampusInv, CampusTypeOK, AddGuardian, MarkAdmitted, CutClerk
  <2>6. \A d \in Clerks, b \in Applications : Admitting(d, b)' => Admitting(d, b)
    BY <1>1, <1>3, <2>1 DEF Admitting
  <2>7. ASSUME x \notin disturbed', NEW t \in Enrolled, bornOf[t] = x
        PROVE  \/ application'[x].status = "admitted" /\ clerk'[c] = NoAdmission
               \/ /\ clerk'[c] # NoAdmission /\ clerk'[c].application = x
                  /\ clerk'[c].at # "admit" /\ clerk'[c].student = t
    <3>1. AloneAt(x)
      BY <2>1, <2>3, <2>7 DEF CampusInv, AdmittedAlone, Undisturbed
    <3>2. clerk[c].at # "admit" /\ clerk[c].student = t
      BY <2>1, <2>7, <3>1 DEF AloneAt
    <3>3. CASE AddGuardian(c)
      BY <1>1, <2>7, <3>2, <3>3, ClerkTyped
         DEF CampusInv, CampusTypeOK, AddGuardian, ClerkStates, NoAdmission
    <3>4. CASE MarkAdmitted(c)
      BY <2>1, <2>7, <3>2, <3>4 DEF CampusInv, CampusTypeOK, MarkAdmitted, Decided
    <3>5. CASE CutClerk(c)
      BY <2>7, <3>2, <3>5 DEF CutClerk
    <3> QED BY <3>3, <3>4, <3>5
  <2> HIDE DEF x
  <2>8. ASSUME NEW b \in Applications \ disturbed' PROVE AloneAt(b)'
    <3>1. AloneAt(b)
      BY <2>3 DEF CampusInv, AdmittedAlone, Undisturbed
    <3>2. \A d, e \in Clerks : Admitting(d, b)' /\ Admitting(e, b)' => d = e
      BY <2>6, <3>1 DEF AloneAt
    <3>3. ASSUME NEW t \in Enrolled, bornOf[t] = b
          PROVE  \/ application'[b].status = "admitted" /\ \A d \in Clerks : ~Admitting(d, b)'
                 \/ \E d \in Clerks : /\ Admitting(d, b)' /\ clerk'[d].at # "admit"
                                     /\ clerk'[d].student = t
      <4>1. CASE b = x
        <5>1. CASE application'[x].status = "admitted" /\ clerk'[c] = NoAdmission
          <6>1. \A d \in Clerks : Admitting(d, b)' => d = c
            BY <2>1, <2>6, <3>1, <4>1 DEF AloneAt
          <6> QED BY <4>1, <5>1, <6>1 DEF Admitting
        <5>2. CASE /\ clerk'[c] # NoAdmission /\ clerk'[c].application = x
                   /\ clerk'[c].at # "admit" /\ clerk'[c].student = t
          BY <4>1, <5>2 DEF Admitting
        <5> QED BY <2>7, <3>3, <4>1, <5>1, <5>2
      <4>2. CASE b # x
        <5>1. \A d \in Clerks : Admitting(d, b) => d # c /\ Admitting(d, b)'
          BY <2>1, <4>2 DEF Admitting
        <5> QED BY <2>1, <2>5, <2>6, <3>1, <3>3, <4>2, <5>1 DEF AloneAt
      <4> QED BY <4>1, <4>2
    <3> QED BY <2>2, <3>2, <3>3 DEF AloneAt
  <2> QED BY <2>4, <2>8 DEF AdmittedAlone, Undisturbed
<1> QED BY <1>5, <1>6, <1>7, <1>8, HostelStands, LibraryStands DEF CampusInv

-----------------------------------------------------------------------------
(* The hostel. *)

LEMMA BuildStep ==
    ASSUME CampusInv,
           \/ \E b \in Buildings : CreateBuilding(b)
           \/ \E r \in Rooms, n \in Sizes : AddRoom(r, n)
    PROVE  CampusInv'
<1>1. CampusTypeOK'
  BY CampusAssumption DEF CampusInv, CampusTypeOK, CreateBuilding, AddRoom, RoomRows, admissionVars,
     libraryVars, Enrolled
<1>2. UNCHANGED admissionVars /\ UNCHANGED libraryVars /\ UNCHANGED allocation
  BY DEF CreateBuilding, AddRoom
<1>3. \A r \in Rooms : Active(r)' = Active(r)
  BY <1>2 DEF Active
<1>4. \A r \in Rooms : room[r] = NoRecord => Active(r) = {}
  BY AllocationTyped DEF CampusInv, RoomsAreThere, Active, NoRecord
<1>5. \A r \in Rooms : \/ room'[r] = room[r]
                       \/ room[r] = NoRecord /\ room'[r].occupied = 0 /\ room'[r].capacity \in Nat
  BY CampusAssumption DEF CampusInv, CampusTypeOK, CreateBuilding, AddRoom
<1>6. RoomsAreThere'
  <2>1. \A r \in Rooms : room[r] # NoRecord => room'[r] # NoRecord
    BY <1>5
  <2> QED BY <1>2, <2>1, AllocationTyped DEF CampusInv, RoomsAreThere
<1>7. NeverOverbooked'
  <2> SUFFICES ASSUME NEW r \in Rooms, room'[r] # NoRecord
               PROVE  /\ Cardinality(Active(r)) <= room'[r].occupied
                      /\ room'[r].occupied <= room'[r].capacity
    BY <1>3 DEF NeverOverbooked
  <2>1. CASE room'[r] = room[r]
    BY <2>1 DEF CampusInv, NeverOverbooked
  <2>2. CASE room'[r] # room[r]
    BY <2>2, <1>4, <1>5, FS_EmptySet
  <2> QED BY <2>1, <2>2
<1> QED BY <1>1, <1>2, <1>6, <1>7, AdmissionsStand, LibraryStands DEF CampusInv

LEMMA AllocateStep ==
    ASSUME CampusInv, NEW a \in Allocations, NEW r \in Rooms, NEW s \in Students, Allocate(a, r, s)
    PROVE  CampusInv'
<1>1. room[r] # NoRecord /\ room[r].capacity \in Nat /\ room[r].occupied \in Nat
  BY RoomTyped DEF CampusInv, Allocate
<1>2. room' = [room EXCEPT ![r] = [room[r] EXCEPT !.occupied = room[r].occupied + 1]]
  BY DEF Allocate
<1>3. room'[r] # NoRecord /\ room'[r].capacity = room[r].capacity
      /\ room'[r].occupied = room[r].occupied + 1 /\ room'[r] \in RoomRows
  BY <1>1, <1>2 DEF CampusInv, CampusTypeOK, RoomRows, NoRecord
<1>4. CampusTypeOK'
  <2>1. room' \in [Rooms -> RoomRows]
    BY <1>2, <1>3 DEF CampusInv, CampusTypeOK
  <2> QED BY <2>1 DEF CampusInv, CampusTypeOK, Allocate, AllocationRows, admissionVars, libraryVars,
                      Enrolled
<1>5. UNCHANGED admissionVars /\ UNCHANGED libraryVars
  BY DEF Allocate
<1>6. RoomsAreThere'
  BY <1>2, <1>3, AllocationTyped DEF CampusInv, CampusTypeOK, RoomsAreThere, Allocate
<1>7. NeverOverbooked'
  <2> SUFFICES ASSUME NEW q \in Rooms, room'[q] # NoRecord
               PROVE  /\ Cardinality(Active(q)') <= room'[q].occupied
                      /\ room'[q].occupied <= room'[q].capacity
    BY DEF NeverOverbooked
  <2>1. CASE q = r
    <3>1. Active(r)' = Active(r) \cup {a} /\ a \notin Active(r)
      BY DEF CampusInv, CampusTypeOK, Allocate, Active, NoRecord
    <3>2. Cardinality(Active(r)') = Cardinality(Active(r)) + 1
      BY <3>1, ActiveFinite, FS_AddElement
    <3>3. Cardinality(Active(r)) <= room[r].occupied /\ room[r].occupied < room[r].capacity
      BY <1>1 DEF CampusInv, NeverOverbooked, Allocate
    <3> QED BY <2>1, <1>1, <1>3, <3>2, <3>3, ActiveFinite
  <2>2. CASE q # r
    <3>1. Active(q)' = Active(q)
      BY <2>2 DEF CampusInv, CampusTypeOK, Allocate, Active, NoRecord
    <3> QED BY <2>2, <3>1, <1>2 DEF CampusInv, CampusTypeOK, NeverOverbooked
  <2> QED BY <2>1, <2>2
<1> QED BY <1>4, <1>5, <1>6, <1>7, AdmissionsStand, LibraryStands DEF CampusInv

LEMMA VacateStep ==
    ASSUME CampusInv, NEW a \in Allocations, Vacate(a)
    PROVE  CampusInv'
<1>1. allocation[a] # NoRecord /\ allocation[a].student \in Enrolled
  BY AllocationTyped DEF CampusInv, Vacate, NoRecord
<1>r. PICK r \in Rooms : r = allocation[a].room
  BY <1>1, AllocationTyped DEF CampusInv
<1>2. room[r] # NoRecord /\ room[r].capacity \in Nat /\ room[r].occupied \in Nat
  BY <1>1, <1>r, RoomTyped DEF CampusInv, RoomsAreThere
<1>3. allocation' = [allocation EXCEPT ![a] = [allocation[a] EXCEPT !.status = "vacated"]]
  BY DEF Vacate
<1>4. allocation'[a] \in AllocationRows /\ allocation'[a] # NoRecord
      /\ allocation'[a].room = r /\ allocation'[a].student = allocation[a].student
      /\ allocation'[a].status = "vacated"
  BY <1>1, <1>r, <1>3 DEF CampusInv, CampusTypeOK, AllocationRows, NoRecord
<1>5. a \in Active(r) /\ Active(r)' = Active(r) \ {a}
  BY <1>1, <1>r, <1>3, <1>4 DEF CampusInv, CampusTypeOK, Active, Vacate
<1>6. Cardinality(Active(r)') = Cardinality(Active(r)) - 1 /\ Cardinality(Active(r)') \in Nat
  BY <1>5, ActiveFinite, FS_RemoveElement, FS_CardinalityType
<1>7. Cardinality(Active(r)) <= room[r].occupied /\ room[r].occupied <= room[r].capacity
      /\ Cardinality(Active(r)) \in Nat
  BY <1>1, <1>2, ActiveFinite DEF CampusInv, NeverOverbooked
<1>8. room' = [room EXCEPT ![r] = [room[r] EXCEPT !.occupied = room[r].occupied - 1]]
  <2>1. room[r].occupied # 0
    BY <1>2, <1>6, <1>7
  <2> QED BY <2>1, <1>r DEF Vacate
<1>9. room'[r] \in RoomRows /\ room'[r] # NoRecord /\ room'[r].capacity = room[r].capacity
      /\ room'[r].occupied = room[r].occupied - 1
  BY <1>1, <1>2, <1>6, <1>7, <1>8 DEF CampusInv, CampusTypeOK, RoomRows, NoRecord
<1>10. CampusTypeOK'
  <2>1. room' \in [Rooms -> RoomRows]
    BY <1>8, <1>9 DEF CampusInv, CampusTypeOK
  <2>2. allocation' \in [Allocations -> AllocationRows]
    BY <1>3, <1>4 DEF CampusInv, CampusTypeOK
  <2>3. \A b \in Allocations : allocation'[b] # NoRecord => allocation'[b].student \in Enrolled
    BY <1>1, <1>3, <1>4 DEF CampusInv, CampusTypeOK
  <2> QED BY <2>1, <2>2, <2>3 DEF CampusInv, CampusTypeOK, Vacate, admissionVars, libraryVars, Enrolled
<1>11. UNCHANGED admissionVars /\ UNCHANGED libraryVars
  BY DEF Vacate
<1>12. RoomsAreThere'
  BY <1>r, <1>3, <1>4, <1>8, <1>9, AllocationTyped DEF CampusInv, CampusTypeOK, RoomsAreThere
<1>13. NeverOverbooked'
  <2> SUFFICES ASSUME NEW q \in Rooms, room'[q] # NoRecord
               PROVE  /\ Cardinality(Active(q)') <= room'[q].occupied
                      /\ room'[q].occupied <= room'[q].capacity
    BY DEF NeverOverbooked
  <2>1. CASE q = r
    <3>1. /\ Cardinality(Active(r)') <= room'[r].occupied
          /\ room'[r].occupied <= room'[r].capacity
      BY <1>2, <1>6, <1>7, <1>9
    <3> QED BY <2>1, <3>1
  <2>2. CASE q # r
    <3>1. Active(q)' = Active(q)
      BY <2>2, <1>1, <1>r, <1>3, <1>4 DEF CampusInv, CampusTypeOK, Active
    <3> QED BY <2>2, <3>1, <1>8 DEF CampusInv, CampusTypeOK, NeverOverbooked
  <2> QED BY <2>1, <2>2
<1> QED BY <1>10, <1>11, <1>12, <1>13, AdmissionsStand, LibraryStands DEF CampusInv

-----------------------------------------------------------------------------
(* The library. *)

LEMMA AddBookStep ==
    ASSUME CampusInv, NEW b \in Books, NEW n \in Sizes, AddBook(b, n)
    PROVE  CampusInv'
<1>1. CampusTypeOK'
  BY CampusAssumption DEF CampusInv, CampusTypeOK, AddBook, BookRows, admissionVars, hostelVars, Enrolled
<1>2. UNCHANGED admissionVars /\ UNCHANGED hostelVars /\ UNCHANGED loan
  BY DEF AddBook
<1>3. Out(b) = {}
  BY LoanTyped DEF CampusInv, BooksAreThere, Out, NoRecord, AddBook
<1>4. \E copies \in Nat :
         book'[b] = [status |-> "held", total |-> copies, available |-> copies]
  BY CampusAssumption DEF CampusInv, CampusTypeOK, AddBook
<1>5. \A c \in Books : Out(c)' = Out(c) /\ (c # b => book'[c] = book[c])
  BY <1>2 DEF Out, CampusInv, CampusTypeOK, AddBook
<1>6. BooksAreThere'
  BY <1>2, <1>4, <1>5, LoanTyped DEF CampusInv, BooksAreThere, NoRecord
<1>7. NeverOverlent'
  <2> SUFFICES ASSUME NEW c \in Books, book'[c] # NoRecord
               PROVE  Cardinality(Out(c)) + book'[c].available <= book'[c].total
    BY <1>5 DEF NeverOverlent
  <2>1. CASE c = b
    BY <2>1, <1>3, <1>4, FS_EmptySet
  <2>2. CASE c # b
    BY <2>2, <1>5 DEF CampusInv, NeverOverlent
  <2> QED BY <2>1, <2>2
<1> QED BY <1>1, <1>2, <1>6, <1>7, AdmissionsStand, HostelStands DEF CampusInv

LEMMA IssueLoanStep ==
    ASSUME CampusInv, NEW l \in Loans, NEW b \in Books, NEW s \in Students, IssueLoan(l, b, s)
    PROVE  CampusInv'
<1>1. book[b] # NoRecord /\ book[b].total \in Nat /\ book[b].available \in Nat
  BY BookTyped DEF CampusInv, IssueLoan
<1>2. book' = [book EXCEPT ![b] = [book[b] EXCEPT !.available = book[b].available - 1]]
      /\ book[b].available > 0
  BY DEF IssueLoan
<1>3. book'[b] # NoRecord /\ book'[b].total = book[b].total
      /\ book'[b].available = book[b].available - 1 /\ book'[b] \in BookRows
  BY <1>1, <1>2 DEF CampusInv, CampusTypeOK, BookRows, NoRecord
<1>4. CampusTypeOK'
  <2>1. book' \in [Books -> BookRows]
    BY <1>2, <1>3 DEF CampusInv, CampusTypeOK
  <2> QED BY <2>1 DEF CampusInv, CampusTypeOK, IssueLoan, LoanRows, admissionVars, hostelVars, Enrolled
<1>5. UNCHANGED admissionVars /\ UNCHANGED hostelVars
  BY DEF IssueLoan
<1>6. BooksAreThere'
  BY <1>2, <1>3, LoanTyped DEF CampusInv, CampusTypeOK, BooksAreThere, IssueLoan
<1>7. NeverOverlent'
  <2> SUFFICES ASSUME NEW c \in Books, book'[c] # NoRecord
               PROVE  Cardinality(Out(c)') + book'[c].available <= book'[c].total
    BY DEF NeverOverlent
  <2>1. CASE c = b
    <3>1. Out(b)' = Out(b) \cup {l} /\ l \notin Out(b)
      BY DEF CampusInv, CampusTypeOK, IssueLoan, Out, NoRecord
    <3>2. Cardinality(Out(b)') = Cardinality(Out(b)) + 1
      BY <3>1, OutFinite, FS_AddElement
    <3>3. Cardinality(Out(b)) + book[b].available <= book[b].total
      BY <1>1 DEF CampusInv, NeverOverlent
    <3> QED BY <2>1, <1>1, <1>3, <3>2, <3>3, OutFinite
  <2>2. CASE c # b
    <3>1. Out(c)' = Out(c)
      BY <2>2 DEF CampusInv, CampusTypeOK, IssueLoan, Out, NoRecord
    <3> QED BY <2>2, <3>1, <1>2 DEF CampusInv, CampusTypeOK, NeverOverlent
  <2> QED BY <2>1, <2>2
<1> QED BY <1>4, <1>5, <1>6, <1>7, AdmissionsStand, HostelStands DEF CampusInv

LEMMA ReturnLoanStep ==
    ASSUME CampusInv, NEW l \in Loans, ReturnLoan(l)
    PROVE  CampusInv'
<1>1. loan[l] # NoRecord /\ loan[l].student \in Enrolled
  BY LoanTyped DEF CampusInv, ReturnLoan, NoRecord
<1>b. PICK b \in Books : b = loan[l].book
  BY <1>1, LoanTyped DEF CampusInv
<1>2. book[b] # NoRecord /\ book[b].total \in Nat /\ book[b].available \in Nat
  BY <1>1, <1>b, BookTyped DEF CampusInv, BooksAreThere
<1>3. loan' = [loan EXCEPT ![l] = [loan[l] EXCEPT !.status = "returned"]]
  BY DEF ReturnLoan
<1>4. loan'[l] \in LoanRows /\ loan'[l] # NoRecord
      /\ loan'[l].book = b /\ loan'[l].student = loan[l].student /\ loan'[l].status = "returned"
  BY <1>1, <1>b, <1>3 DEF CampusInv, CampusTypeOK, LoanRows, NoRecord
<1>5. l \in Out(b) /\ Out(b)' = Out(b) \ {l}
  BY <1>1, <1>b, <1>3, <1>4 DEF CampusInv, CampusTypeOK, Out, ReturnLoan
<1>6. Cardinality(Out(b)') = Cardinality(Out(b)) - 1 /\ Cardinality(Out(b)') \in Nat
  BY <1>5, OutFinite, FS_RemoveElement, FS_CardinalityType
<1>7. Cardinality(Out(b)) + book[b].available <= book[b].total /\ Cardinality(Out(b)) \in Nat
  BY <1>2, OutFinite DEF CampusInv, NeverOverlent
<1>8. book' = [book EXCEPT ![b] = [book[b] EXCEPT !.available = book[b].available + 1]]
  <2>1. book[b].available + 1 <= book[b].total
    BY <1>2, <1>6, <1>7
  <2>2. Shelve(book[b]) = [book[b] EXCEPT !.available = book[b].available + 1]
    BY <2>1 DEF Shelve
  <2> QED BY <2>2, <1>b DEF ReturnLoan
<1>9. book'[b] \in BookRows /\ book'[b] # NoRecord /\ book'[b].total = book[b].total
      /\ book'[b].available = book[b].available + 1
  BY <1>2, <1>8 DEF CampusInv, CampusTypeOK, BookRows, NoRecord
<1>10. CampusTypeOK'
  <2>1. book' \in [Books -> BookRows]
    BY <1>8, <1>9 DEF CampusInv, CampusTypeOK
  <2>2. loan' \in [Loans -> LoanRows]
    BY <1>3, <1>4 DEF CampusInv, CampusTypeOK
  <2>3. \A m \in Loans : loan'[m] # NoRecord => loan'[m].student \in Enrolled
    BY <1>1, <1>3, <1>4 DEF CampusInv, CampusTypeOK
  <2> QED BY <2>1, <2>2, <2>3 DEF CampusInv, CampusTypeOK, ReturnLoan, admissionVars, hostelVars, Enrolled
<1>11. UNCHANGED admissionVars /\ UNCHANGED hostelVars
  BY DEF ReturnLoan
<1>12. BooksAreThere'
  BY <1>b, <1>3, <1>4, <1>8, <1>9, LoanTyped DEF CampusInv, CampusTypeOK, BooksAreThere
<1>13. NeverOverlent'
  <2> SUFFICES ASSUME NEW c \in Books, book'[c] # NoRecord
               PROVE  Cardinality(Out(c)') + book'[c].available <= book'[c].total
    BY DEF NeverOverlent
  <2>1. CASE c = b
    BY <2>1, <1>2, <1>6, <1>7, <1>9
  <2>2. CASE c # b
    <3>1. Out(c)' = Out(c)
      BY <2>2, <1>1, <1>b, <1>3, <1>4 DEF CampusInv, CampusTypeOK, Out
    <3> QED BY <2>2, <3>1, <1>8 DEF CampusInv, CampusTypeOK, NeverOverlent
  <2> QED BY <2>1, <2>2
<1> QED BY <1>10, <1>11, <1>12, <1>13, AdmissionsStand, HostelStands DEF CampusInv

-----------------------------------------------------------------------------
LEMMA CampusStep == CampusInv /\ [CampusNext]_campusVars => CampusInv'
<1> SUFFICES ASSUME CampusInv, [CampusNext]_campusVars PROVE CampusInv'
  OBVIOUS
<1>1. ASSUME NEW a \in Applications,
             \/ SubmitApplication(a)
             \/ \E to \in {"accepted", "rejected"} : DecideApplication(a, to)
      PROVE  CampusInv'
  BY <1>1, ApplicationsStep
<1>2. ASSUME NEW s \in Students, AdmitStudent(s) \/ RemoveStudent(s) PROVE CampusInv'
  BY <1>2, AdmitStudentStep, RemoveStudentStep
<1>3. ASSUME NEW c \in Clerks, NEW a \in Applications, OpenAdmission(c, a) PROVE CampusInv'
  BY <1>3, OpenAdmissionStep
<1>4. ASSUME NEW c \in Clerks, NEW s \in Students, AdmitApplicant(c, s) PROVE CampusInv'
  BY <1>4, AdmitApplicantStep
<1>5. ASSUME NEW c \in Clerks, AddGuardian(c) \/ MarkAdmitted(c) \/ CutClerk(c) PROVE CampusInv'
  BY <1>5, ClerkStep
<1>6. CASE \/ \E b \in Buildings : CreateBuilding(b)
           \/ \E r \in Rooms, n \in Sizes : AddRoom(r, n)
  BY <1>6, BuildStep
<1>7. ASSUME NEW a \in Allocations, NEW r \in Rooms, NEW s \in Students, Allocate(a, r, s)
      PROVE  CampusInv'
  BY <1>7, AllocateStep
<1>8. ASSUME NEW a \in Allocations, Vacate(a) PROVE CampusInv'
  BY <1>8, VacateStep
<1>9. ASSUME NEW b \in Books, NEW n \in Sizes, AddBook(b, n) PROVE CampusInv'
  BY <1>9, AddBookStep
<1>10. ASSUME NEW l \in Loans, NEW b \in Books, NEW s \in Students, IssueLoan(l, b, s)
       PROVE  CampusInv'
  BY <1>10, IssueLoanStep
<1>11. ASSUME NEW l \in Loans, ReturnLoan(l) PROVE CampusInv'
  BY <1>11, ReturnLoanStep
<1>12. CASE UNCHANGED campusVars
  <2>1. UNCHANGED admissionVars /\ UNCHANGED hostelVars /\ UNCHANGED libraryVars
    BY <1>12 DEF campusVars
  <2>2. CampusTypeOK'
    BY <2>1 DEF CampusInv, CampusTypeOK, admissionVars, hostelVars, libraryVars, Enrolled
  <2> QED BY <2>1, <2>2, AdmissionsStand, HostelStands, LibraryStands DEF CampusInv
<1> QED BY <1>1, <1>2, <1>3, <1>4, <1>5, <1>6, <1>7, <1>8, <1>9, <1>10, <1>11, <1>12
        DEF CampusNext

(* The office's invariant: counters against the rows they count, and the
   admissions under way against the applications they opened.               *)
THEOREM CampusHolds == CampusSpec => []CampusInv
BY CampusInitInv, CampusStep, PTL DEF CampusSpec

(* A room never sleeps more than its capacity: hostel/postgres.go, Allocate,
   Vacate and the cascade of a removed student.                             *)
THEOREM BedsSuffice == CampusSpec => []NeverOverbooked
<1>1. CampusInv => NeverOverbooked
  BY DEF CampusInv
<1> QED BY <1>1, CampusHolds, PTL

(* What is lent and what is on the shelf are at most what is held:
   library/postgres.go, Issue and Return.                                   *)
THEOREM CopiesSuffice == CampusSpec => []NeverOverlent
<1>1. CampusInv => NeverOverlent
  BY DEF CampusInv
<1> QED BY <1>1, CampusHolds, PTL

(* No bed and no copy is promised twice, however allocations, loans and the
   removal of students interleave.                                          *)
THEOREM NothingOverdrawn == CampusSpec => []NeverOverdrawn
BY BedsSuffice, CopiesSuffice, PTL DEF NeverOverdrawn

(* No student comes of an application that was rejected, nor a second one of
   an application that no two requests admitted at once and whose admission was
   not cut short: httpapi/admissions_admit.go.                              *)
THEOREM RejectedStayOut == CampusSpec => []AdmittedOnce
<1>1. CampusInv => AdmittedOnce
  BY DEF CampusInv, AdmittedOnce, BornOfDecided, AdmittedAlone, BornOnce
<1> QED BY <1>1, CampusHolds, PTL

-----------------------------------------------------------------------------
(* The limiter. *)

(* What a bucket has left and what it has let through are at most what it
   held and has earned; it never owes more than the time since it was used. *)
Balanced(b, n) ==
    /\ b.last <= clock /\ b.born <= clock
    /\ b.tokens + n * Every <= Full + (b.last - b.born)
    /\ b.tokens + (clock - b.last) >= 0

LimiterInv ==
    /\ LimiterTypeOK
    /\ \A a \in Askers : asker[a] # NoAsk => asker[a].now <= clock
    /\ \A k \in Tracked(bucket) : Balanced(bucket[k], granted[k])
    /\ RetryIsHonoured
    /\ MapIsBounded

LEMMA FullIsNat == Full \in Nat /\ Every \in Nat /\ Every > 0 /\ Full >= Every
BY LimiterAssumption DEF Full

LEMMA BucketTyped ==
    ASSUME LimiterTypeOK, NEW k \in Addresses, bucket[k] # NoBucket
    PROVE  bucket[k].last \in Nat /\ bucket[k].born \in Nat /\ bucket[k].tokens \in Int
BY LimiterAssumption DEF LimiterTypeOK, Buckets, Instants

LEMMA TrackedFinite ==
    ASSUME NEW buckets
    PROVE  IsFiniteSet(Tracked(buckets)) /\ Cardinality(Tracked(buckets)) \in Nat
<1>1. Tracked(buckets) \subseteq Addresses
  BY DEF Tracked
<1> QED BY <1>1, LimiterAssumption, FS_Subset, FS_CardinalityType

(* A purge takes whole buckets, and leaves room for one more. *)
LEMMA PurgeMakesRoom ==
    ASSUME LimiterTypeOK, NEW now \in Int
    PROVE  /\ Purged(now) \in [Addresses -> Buckets]
           /\ \A k \in Addresses : Purged(now)[k] = NoBucket \/ Purged(now)[k] = bucket[k]
           /\ Cardinality(Tracked(Purged(now))) < MaxKeys
           /\ PurgedAt(now) \in Int
<1> DEFINE none == [k \in Addresses |-> NoBucket]
<1>1. /\ Spared(now) \in [Addresses -> Buckets]
      /\ \A k \in Addresses : Spared(now)[k] = NoBucket \/ Spared(now)[k] = bucket[k]
  BY DEF Spared, LimiterTypeOK, Buckets
<1>2. none \in [Addresses -> Buckets] /\ Cardinality(Tracked(none)) = 0
  BY FS_EmptySet DEF Tracked, Buckets
<1>3. MaxKeys \in Nat /\ 0 < MaxKeys
  BY LimiterAssumption
<1>4. PurgedAt(now) \in Int
  BY DEF PurgedAt, LimiterTypeOK
<1>5. CASE now - lastPurge < Sweep /\ Cardinality(Tracked(bucket)) < MaxKeys
  <2>1. Purged(now) = bucket
    BY <1>5 DEF Purged
  <2> QED BY <1>4, <1>5, <2>1 DEF LimiterTypeOK
<1>6. CASE ~(now - lastPurge < Sweep /\ Cardinality(Tracked(bucket)) < MaxKeys)
  <2>1. CASE Cardinality(Tracked(Spared(now))) >= MaxKeys
    <3>1. Purged(now) = none
      BY <1>6, <2>1 DEF Purged
    <3> QED BY <1>2, <1>3, <1>4, <3>1
  <2>2. CASE ~(Cardinality(Tracked(Spared(now))) >= MaxKeys)
    <3>1. Purged(now) = Spared(now)
      BY <1>6, <2>2 DEF Purged
    <3>2. Cardinality(Tracked(Spared(now))) < MaxKeys
      BY <1>3, <2>2, TrackedFinite
    <3> QED BY <1>1, <1>4, <3>1, <3>2
  <2> QED BY <2>1, <2>2
<1> QED BY <1>5, <1>6

LEMMA LimiterInitInv == LimiterInit => LimiterInv
<1> SUFFICES ASSUME LimiterInit PROVE LimiterInv
  OBVIOUS
<1>1. Sweep \in Int
  BY LimiterAssumption DEF Sweep
<1>2. LimiterTypeOK
  BY <1>1, LimiterAssumption
     DEF LimiterInit, LimiterTypeOK, Instants, Buckets, NoTime
<1>3. Tracked(bucket) = {}
  BY DEF LimiterInit, Tracked
<1>4. MapIsBounded
  BY <1>3, LimiterAssumption, FS_EmptySet DEF MapIsBounded
<1> QED BY <1>2, <1>3, <1>4 DEF LimiterInv, RetryIsHonoured, LimiterInit

LEMMA ArriveStep ==
    ASSUME LimiterInv, NEW a \in Askers, NEW k \in Addresses, Arrive(a, k)
    PROVE  LimiterInv'
<1>1. clock \in Nat
  BY LimiterAssumption DEF LimiterInv, LimiterTypeOK, Instants
<1>2. LimiterTypeOK'
  BY DEF LimiterInv, LimiterTypeOK, Arrive
<1>3. \A c \in Askers : asker'[c] # NoAsk => asker'[c].now <= clock'
  BY <1>1 DEF LimiterInv, LimiterTypeOK, Arrive
<1> QED BY <1>2, <1>3 DEF LimiterInv, Arrive, Balanced, RetryIsHonoured, MapIsBounded, Tracked

LEMMA TickStep ==
    ASSUME LimiterInv, TickLimiter
    PROVE  LimiterInv'
<1>1. clock \in Nat /\ clock' = clock + 1
  BY LimiterAssumption DEF LimiterInv, LimiterTypeOK, Instants, TickLimiter
<1>2. LimiterTypeOK'
  BY LimiterAssumption DEF LimiterInv, LimiterTypeOK, TickLimiter, Instants
<1>3. \A c \in Askers : asker'[c] # NoAsk => asker'[c].now <= clock'
  <2>1. \A c \in Askers : asker[c] # NoAsk => asker[c].now \in Nat
    BY LimiterAssumption DEF LimiterInv, LimiterTypeOK, Instants, NoAsk
  <2> QED BY <1>1, <2>1 DEF LimiterInv, TickLimiter
<1>4. \A k \in Tracked(bucket) : Balanced(bucket[k], granted[k])'
  <2> SUFFICES ASSUME NEW k \in Addresses, bucket[k] # NoBucket
               PROVE  Balanced(bucket[k], granted[k])'
    BY DEF Tracked
  <2>1. Balanced(bucket[k], granted[k])
    BY DEF LimiterInv, Tracked
  <2> QED BY <1>1, <2>1, BucketTyped DEF LimiterInv, Balanced, TickLimiter
<1> QED BY <1>2, <1>3, <1>4 DEF LimiterInv, TickLimiter, RetryIsHonoured, MapIsBounded, Tracked

(* Whatever a request finds after the purge, the bucket it leaves balances. *)
LEMMA AllowStep ==
    ASSUME LimiterInv, NEW a \in Askers, Allow(a)
    PROVE  LimiterInv'
<1>1. PICK k \in Addresses, now \in Nat :
        /\ k = asker[a].key /\ now = asker[a].now /\ now <= clock /\ now \in Instants
  BY LimiterAssumption DEF LimiterInv, LimiterTypeOK, Allow, Instants, NoAsk
<1>2. PICK P \in [Addresses -> Buckets] :
        /\ P = Purged(now) /\ Cardinality(Tracked(P)) < MaxKeys
        /\ \A j \in Addresses : P[j] = NoBucket \/ P[j] = bucket[j]
        /\ PurgedAt(now) \in Int
  BY <1>1, PurgeMakesRoom DEF LimiterInv
<1>3. AdmitNew(k, now, P) \/ Take(k, now, P) \/ Refuse(k, now, P)
  BY <1>1, <1>2 DEF Allow
<1>4. clock \in Nat /\ clock' = clock
  BY LimiterAssumption DEF LimiterInv, LimiterTypeOK, Instants, Allow
<1>5. P[k] # NoBucket => /\ P[k].last \in Nat /\ P[k].born \in Instants /\ P[k].tokens \in Int
                         /\ Refilled(P[k], now) \in Int
                         /\ Refilled(P[k], now) <= P[k].tokens + (now - P[k].last)
                         /\ Refilled(P[k], now) <= Full
                         /\ Refilled(P[k], now) = P[k].tokens + (now - P[k].last)
                              \/ Refilled(P[k], now) = Full
  BY <1>1, <1>2, BucketTyped, FullIsNat
     DEF LimiterInv, LimiterTypeOK, Buckets, Refilled, Earned
<1>6. granted[k] \in Nat /\ Forgotten(granted, P, 0) \in [Addresses -> Nat]
      /\ Forgotten(promised, P, NoTime) \in [Addresses -> Int]
  BY <1>1 DEF LimiterInv, LimiterTypeOK, Forgotten, NoTime
<1>7. PICK b \in Buckets : /\ b # NoBucket /\ bucket' = [P EXCEPT ![k] = b]
                           /\ b.last = now /\ b.born \in Instants /\ b.tokens \in Int
  <2> DEFINE Kept(born, tokens) == [last |-> now, born |-> born, tokens |-> tokens]
  <2>1. \A born \in Instants, n \in Int : Kept(born, n) \in Buckets /\ Kept(born, n) # NoBucket
    BY <1>1 DEF Buckets, NoBucket
  <2>2. SUFFICES \E born \in Instants, n \in Int : bucket' = [P EXCEPT ![k] = Kept(born, n)]
    BY <2>1
  <2>3. CASE AdmitNew(k, now, P)
    <3>1. bucket' = [P EXCEPT ![k] = Kept(now, Full - Every)]
      BY <2>3 DEF AdmitNew
    <3>2. Full - Every \in Int
      BY FullIsNat
    <3> QED BY <3>1, <3>2, <1>1
  <2>4. CASE Take(k, now, P) \/ Refuse(k, now, P)
    <3> DEFINE more == Refilled(P[k], now)
    <3>1. P[k] \in [last: Instants, born: Instants, tokens: Int] /\ P[k] # NoBucket
      BY <2>4, <1>1, <1>2 DEF Take, Refuse, Buckets
    <3>2. more \in Int /\ P[k].born \in Instants /\ more - Every \in Int
      BY <3>1, <1>5, FullIsNat
    <3> HIDE DEF more
    <3>3. CASE Take(k, now, P)
      <4>1. bucket' = [P EXCEPT ![k] = Kept(P[k].born, more - Every)]
        BY <3>1, <3>3, <1>1, <1>2 DEF Take, more
      <4> QED BY <3>2, <4>1
    <3>4. CASE Refuse(k, now, P)
      <4>1. bucket' = [P EXCEPT ![k] = Kept(P[k].born, more)]
        BY <3>1, <3>4, <1>1, <1>2 DEF Refuse, more
      <4> QED BY <3>2, <4>1
    <3> QED BY <2>4, <3>3, <3>4
  <2> QED BY <1>3, <2>3, <2>4
<1>8. LimiterTypeOK'
  <2>1. bucket' \in [Addresses -> Buckets]
    BY <1>1, <1>2, <1>7
  <2>2. granted' \in [Addresses -> Nat] /\ promised' \in [Addresses -> Int]
    BY <1>1, <1>3, <1>5, <1>6, FullIsNat DEF AdmitNew, Take, Refuse, NoTime
  <2> QED BY <1>1, <1>2, <2>1, <2>2 DEF LimiterInv, LimiterTypeOK, Allow
<1>9. \A c \in Askers : asker'[c] # NoAsk => asker'[c].now <= clock'
  BY <1>4 DEF LimiterInv, LimiterTypeOK, Allow
<1>10. \A j \in Addresses : j # k /\ bucket'[j] # NoBucket =>
         /\ bucket'[j] = bucket[j]
         /\ granted'[j] = granted[j] /\ (promised'[j] = promised[j])
  BY ZenonT(40), <1>1, <1>2, <1>3, <1>6, <1>7 DEF AdmitNew, Take, Refuse, Forgotten
<1>11. Balanced(bucket[k], granted[k])'
  <2>1. CASE AdmitNew(k, now, P)
    <3>1. bucket'[k] = [last |-> now, born |-> now, tokens |-> Full - Every] /\ granted'[k] = 1
      BY <2>1, <1>1, <1>2, <1>6 DEF AdmitNew
    <3> QED BY <3>1, <1>1, <1>4, FullIsNat DEF Balanced
  <2>2. CASE Take(k, now, P) \/ Refuse(k, now, P)
    <3>1. P[k] # NoBucket /\ P[k] = bucket[k]
      BY <2>2, <1>1, <1>2 DEF Take, Refuse
    <3>2. Balanced(P[k], granted[k])
      BY <1>1, <3>1 DEF LimiterInv, Tracked
    <3>3. /\ Forgotten(granted, P, 0)[k] = granted[k]
          /\ bucket'[k].last = now /\ bucket'[k].born = P[k].born
      <4>1. Forgotten(granted, P, 0)[k] = granted[k]
        BY <3>1, <1>1 DEF Forgotten
      <4>2. P[k] \in [last: Instants, born: Instants, tokens: Int]
        BY <3>1, <1>1, <1>2 DEF Buckets
      <4>3. CASE Take(k, now, P)
        BY <4>1, <4>2, <4>3, <1>1, <1>2 DEF Take
      <4>4. CASE Refuse(k, now, P)
        BY <4>1, <4>2, <4>4, <1>1, <1>2 DEF Refuse
      <4> QED BY <2>2, <4>3, <4>4
    <3>4. P[k].born \in Nat
      BY <1>5, <3>1, LimiterAssumption DEF Instants
    <3>5. CASE Take(k, now, P)
      <4>1. /\ bucket'[k].tokens = Refilled(P[k], now) - Every
            /\ granted'[k] = granted[k] + 1 /\ Refilled(P[k], now) >= Every
        BY SMTT(30), <3>5, <3>1, <3>3, <1>1, <1>2, <1>6 DEF Take, Buckets
      <4>2. (granted[k] + 1) * Every = granted[k] * Every + Every
        BY <1>6, FullIsNat
      <4>3. granted[k] * Every \in Nat
        BY <1>6, FullIsNat
      <4> QED BY <4>1, <4>2, <4>3, <3>1, <3>2, <3>3, <3>4, <1>1, <1>4, <1>5, FullIsNat DEF Balanced
    <3>6. CASE Refuse(k, now, P)
      <4>1. bucket'[k].tokens = Refilled(P[k], now) /\ granted'[k] = granted[k]
        BY <3>6, <3>1, <3>3, <1>1, <1>2, <1>6 DEF Refuse, Buckets
      <4>2. granted[k] * Every \in Nat
        BY <1>6, FullIsNat
      <4> QED BY <4>1, <4>2, <3>1, <3>2, <3>3, <3>4, <1>1, <1>4, <1>5, FullIsNat DEF Balanced
    <3> QED BY <2>2, <3>5, <3>6
  <2> QED BY <1>3, <2>1, <2>2
<1>12. RetryIsHonoured'
  <2> SUFFICES ASSUME NEW j \in Addresses, bucket'[j] # NoBucket, promised'[j] # NoTime
               PROVE  Earned(bucket'[j], promised'[j]) >= Every
    BY DEF RetryIsHonoured, Tracked
  <2>1. CASE j # k
    BY <2>1, <1>10 DEF LimiterInv, RetryIsHonoured, Tracked
  <2>2. CASE j = k
    <3>1. Refuse(k, now, P)
      BY <2>2, <1>1, <1>2, <1>3, <1>6 DEF AdmitNew, Take, Forgotten
    <3>2. /\ bucket'[k].tokens = Refilled(P[k], now) /\ bucket'[k].last = now
          /\ promised'[k] = now + (Every - Refilled(P[k], now))
      <4>1. P[k] # NoBucket
        BY <3>1 DEF Refuse
      <4>2. P[k] \in [last: Instants, born: Instants, tokens: Int]
        BY <4>1, <1>1, <1>2 DEF Buckets
      <4>3. bucket'[k].tokens = Refilled(P[k], now) /\ bucket'[k].last = now
        BY <3>1, <4>2, <1>1, <1>2 DEF Refuse
      <4>4. promised'[k] = now + (Every - Refilled(P[k], now))
        BY <3>1, <1>1, <1>6 DEF Refuse
      <4> QED BY <4>3, <4>4
    <3>3. Refilled(P[k], now) \in Int
      BY <3>1, <1>5 DEF Refuse
    <3> QED BY <2>2, <3>2, <3>3, <1>1, FullIsNat DEF Earned
  <2> QED BY <2>1, <2>2
<1>13. MapIsBounded'
  <2>1. Tracked(bucket)' = Tracked(P) \cup {k}
    BY <1>1, <1>2, <1>7 DEF Tracked
  <2>2. Cardinality(Tracked(bucket)') <= Cardinality(Tracked(P)) + 1
    <3>1. IsFiniteSet(Tracked(P)) /\ Cardinality(Tracked(P)) \in Nat
      BY TrackedFinite
    <3>2. Cardinality(Tracked(P) \cup {k}) =
            IF k \in Tracked(P) THEN Cardinality(Tracked(P)) ELSE Cardinality(Tracked(P)) + 1
      BY <3>1, FS_AddElement
    <3> QED BY <2>1, <3>1, <3>2
  <2>3. MaxKeys \in Nat
    BY LimiterAssumption
  <2>4. Cardinality(Tracked(bucket)') \in Nat
    BY TrackedFinite
  <2> QED BY <1>2, <2>2, <2>3, <2>4, TrackedFinite DEF MapIsBounded
<1>14. \A j \in Tracked(bucket)' : Balanced(bucket[j], granted[j])'
  <2> SUFFICES ASSUME NEW j \in Addresses, bucket'[j] # NoBucket
               PROVE  Balanced(bucket[j], granted[j])'
    BY DEF Tracked
  <2>1. CASE j = k
    BY <2>1, <1>11
  <2>2. CASE j # k
    BY <2>2, <1>4, <1>10 DEF LimiterInv, Tracked, Balanced
  <2> QED BY <2>1, <2>2
<1> QED BY <1>8, <1>9, <1>12, <1>13, <1>14 DEF LimiterInv

LEMMA LimiterStep == LimiterInv /\ [LimiterNext]_limiterVars => LimiterInv'
<1> SUFFICES ASSUME LimiterInv, [LimiterNext]_limiterVars PROVE LimiterInv'
  OBVIOUS
<1>1. CASE UNCHANGED limiterVars
  BY <1>1 DEF limiterVars, LimiterInv, LimiterTypeOK, Tracked, Balanced, RetryIsHonoured, MapIsBounded
<1> QED BY <1>1, ArriveStep, AllowStep, TickStep DEF LimiterNext

(* The limiter's invariant, for any number of addresses and requests, however
   late a request comes with the time it read.                              *)
THEOREM LimiterHolds == LimiterSpec => []LimiterInv
BY LimiterInitInv, LimiterStep, PTL DEF LimiterSpec

(* Nobody is let through more often than the burst and the time since his
   first request allow: platform/ratelimit/ratelimit.go, Allow.             *)
THEOREM BudgetHolds == LimiterSpec => []WithinBudget
<1>1. LimiterInv => WithinBudget
  <2> SUFFICES ASSUME LimiterInv, NEW k \in Addresses, bucket[k] # NoBucket
               PROVE  granted[k] * Every <= Full + (clock - bucket[k].born)
    BY DEF WithinBudget, Tracked
  <2>1. Balanced(bucket[k], granted[k])
    BY DEF LimiterInv, Tracked
  <2>2. granted[k] * Every \in Nat /\ clock \in Nat
    BY FullIsNat, LimiterAssumption DEF LimiterInv, LimiterTypeOK, Instants
  <2> QED BY <2>1, <2>2, BucketTyped, FullIsNat DEF LimiterInv, Balanced
<1> QED BY <1>1, LimiterHolds, PTL

(* The map never holds more than MaxKeys buckets:
   platform/ratelimit/ratelimit.go, purgeLocked.                            *)
THEOREM MapStaysSmall == LimiterSpec => []MapIsBounded
<1>1. LimiterInv => MapIsBounded
  BY DEF LimiterInv
<1> QED BY <1>1, LimiterHolds, PTL

(* Retry-After is long enough: platform/ratelimit/ratelimit.go, Allow. *)
THEOREM RetrySuffices == LimiterSpec => []RetryIsHonoured
<1>1. LimiterInv => RetryIsHonoured
  BY DEF LimiterInv
<1> QED BY <1>1, LimiterHolds, PTL

-----------------------------------------------------------------------------
(* What is handed in. *)

(* A request that attaches a file holds the draft, alone, with room for one
   more; its key was signed, and its limit is one the assignment has had.    *)
HandinsInv ==
    /\ HandinsTypeOK
    /\ WithinLimit
    /\ MarkAgrees
    /\ IsSet => assignment.maxFiles <= most
    /\ \A r \in Tabs :
          /\ tab[r].at \in {"attach", "head", "insert"} => tab[r].key \in signed
          /\ tab[r].at = "attach" => tab[r].maxFiles <= most
          /\ tab[r].at = "cascade" => tab[r].keys \subseteq signed
          /\ Drafting(r) => IsDraft /\ Cardinality(files) < most
    /\ \A r, q \in Tabs : Drafting(r) /\ Drafting(q) => r = q

LEMMA FilesFinite ==
    ASSUME HandinsTypeOK
    PROVE  IsFiniteSet(files) /\ Cardinality(files) \in Nat
<1>1. files \subseteq Uploads
  BY DEF HandinsTypeOK
<1> QED BY <1>1, HandinsAssumption, FS_Subset, FS_CardinalityType

LEMMA LimitsAreNat ==
    /\ \A n \in MaxFiles : n \in Nat
    /\ HandinsTypeOK => most \in Nat
<1>1. \A n \in MaxFiles : n \in Nat
  BY HandinsAssumption
<1>2. HandinsTypeOK => most \in MaxFiles \cup {0}
  BY DEF HandinsTypeOK
<1> QED BY <1>1, <1>2

LEMMA AssignmentTyped ==
    ASSUME HandinsTypeOK, IsSet
    PROVE  assignment \in [status: {"set"}, maxFiles: MaxFiles, points: Points,
                           passing: Points, shut: BOOLEAN]
BY DEF HandinsTypeOK, IsSet, AssignmentRows, Absent

LEMMA TabTyped ==
    ASSUME HandinsTypeOK, NEW r \in Tabs
    PROVE  /\ tab[r].at = "attach" => tab[r] \in [at: {"attach"}, key: Uploads, maxFiles: MaxFiles]
           /\ tab[r].at \in {"head", "insert", "detach"} =>
                tab[r] \in [at: {"head", "insert", "detach"}, key: Uploads]
           /\ tab[r].at = "mark" =>
                tab[r] \in [at: {"mark"}, points: Points, worth: Points, passing: Points]
           /\ tab[r].at = "cascade" => tab[r] \in [at: {"cascade"}, keys: SUBSET Uploads]
BY DEF HandinsTypeOK, TabStates, Resting

LEMMA HandinsInitInv == HandinsInit => HandinsInv
<1> SUFFICES ASSUME HandinsInit PROVE HandinsInv
  OBVIOUS
<1>1. HandinsTypeOK
  BY DEF HandinsInit, HandinsTypeOK, AssignmentRows, SubmissionRows, TabStates
<1>2. WithinLimit
  BY FS_EmptySet DEF HandinsInit, WithinLimit
<1> QED BY <1>1, <1>2
        DEF HandinsInv, HandinsInit, MarkAgrees, IsSet, Drafting, Resting, Absent

(* The author. *)
LEMMA AuthorStep ==
    ASSUME HandinsInv,
           \/ \E a \in Assignments : CreateAssignment(a) \/ EditAssignment(a)
           \/ PassDeadline
    PROVE  HandinsInv'
<1>1. /\ UNCHANGED <<submission, files, storeVars, gradeVars, tab>>
      /\ assignment' \in Assignments
      /\ most' \in MaxFiles \cup {0} /\ most <= most' /\ assignment'.maxFiles <= most'
  <2>1. CASE \E a \in Assignments : CreateAssignment(a) \/ EditAssignment(a)
    BY <2>1, LimitsAreNat DEF CreateAssignment, EditAssignment, WriteAssignment, HandinsInv,
       HandinsTypeOK, Assignments
  <2>2. CASE PassDeadline
    <3>1. assignment \in Assignments /\ assignment' = [assignment EXCEPT !.shut = TRUE]
      BY <2>2, AssignmentTyped DEF PassDeadline, HandinsInv, Assignments
    <3>2. assignment' \in Assignments /\ assignment'.maxFiles = assignment.maxFiles
      BY <3>1 DEF Assignments
    <3>3. most \in Nat /\ most \in MaxFiles \cup {0} /\ assignment.maxFiles <= most
      BY <2>2, LimitsAreNat DEF PassDeadline, HandinsInv, HandinsTypeOK
    <3> QED BY <2>2, <3>2, <3>3 DEF PassDeadline
  <2> QED BY <2>1, <2>2
<1>2. HandinsTypeOK'
  BY <1>1 DEF HandinsInv, HandinsTypeOK, storeVars, gradeVars, Assignments, AssignmentRows
<1>3. Cardinality(files) \in Nat /\ most \in Nat /\ most' \in Nat
  <2>1. HandinsTypeOK
    BY DEF HandinsInv
  <2>2. most' \in Nat
    BY <1>1, LimitsAreNat
  <2> QED BY <2>1, <2>2, FilesFinite, LimitsAreNat
<1>4. \A r \in Tabs : tab[r].at = "attach" => tab[r].maxFiles \in Nat
  BY TabTyped, LimitsAreNat DEF HandinsInv
<1> QED BY <1>1, <1>2, <1>3, <1>4
        DEF HandinsInv, WithinLimit, MarkAgrees, storeVars, gradeVars, Drafting, IsDraft

(* A request that only takes its next turn: it comes to hold the draft only
   when nobody else does.                                                    *)
LEMMA TurnStep ==
    ASSUME HandinsInv, NEW r \in Tabs, NEW what \in TabStates, Turn(r, what),
           UNCHANGED <<assignment, submission, files, storeVars, gradeVars, most>>,
           what.at \in {"attach", "head", "insert"} => what.key \in signed,
           what.at = "attach" => what.maxFiles <= most,
           what.at = "cascade" => what.keys \subseteq signed,
           what.at \in {"head", "insert"} =>
               /\ IsDraft /\ Cardinality(files) < most
               /\ Unlocked \/ Drafting(r)
    PROVE  HandinsInv'
<1>1. tab' = [tab EXCEPT ![r] = what] /\ tab' \in [Tabs -> TabStates]
  BY DEF Turn, HandinsInv, HandinsTypeOK
<1>2. HandinsTypeOK'
  BY <1>1 DEF HandinsInv, HandinsTypeOK, storeVars, gradeVars
<1>3. WithinLimit' /\ MarkAgrees' /\ (IsSet => assignment.maxFiles <= most)'
  BY DEF HandinsInv, WithinLimit, MarkAgrees, IsSet, gradeVars
<1>4. \A q \in Tabs : tab'[q] = IF q = r THEN what ELSE tab[q]
  BY <1>1 DEF HandinsInv, HandinsTypeOK
<1>5. ASSUME NEW q \in Tabs
      PROVE  /\ tab'[q].at \in {"attach", "head", "insert"} => tab'[q].key \in signed'
             /\ tab'[q].at = "attach" => tab'[q].maxFiles <= most'
             /\ tab'[q].at = "cascade" => tab'[q].keys \subseteq signed'
             /\ Drafting(q)' => IsDraft' /\ Cardinality(files') < most'
  BY <1>4 DEF HandinsInv, storeVars, Drafting, IsDraft
<1>6. \A p, q \in Tabs : Drafting(p)' /\ Drafting(q)' => p = q
  BY <1>4 DEF HandinsInv, Drafting, Unlocked
<1> QED BY <1>2, <1>3, <1>5, <1>6 DEF HandinsInv

LEMMA ReadingStep ==
    ASSUME HandinsInv, NEW r \in Tabs,
           \/ RemoveAssignment(r)
           \/ \E k \in Uploads : ConfirmUpload(r, k) \/ RemoveFile(r, k)
           \/ OpenDraft(r) \/ HeadObject(r) \/ Submit(r) \/ CloseTab(r)
           \/ \E n \in Points : OpenWork(r, n)
    PROVE  HandinsInv'
<1>1. CASE RemoveAssignment(r)
  <2>1. [at |-> "cascade", keys |-> files] \in TabStates /\ files \subseteq signed
    BY DEF HandinsInv, HandinsTypeOK, TabStates
  <2> QED BY <1>1, <2>1, TurnStep DEF RemoveAssignment
<1>2. ASSUME NEW k \in Uploads, ConfirmUpload(r, k) PROVE HandinsInv'
  <2> DEFINE what == [at |-> "attach", key |-> k, maxFiles |-> assignment.maxFiles]
  <2>1. what \in TabStates /\ assignment.maxFiles <= most /\ k \in signed
    BY <1>2, AssignmentTyped DEF HandinsInv, ConfirmUpload, StillOpen, TabStates
  <2>2. Turn(r, what) /\ UNCHANGED <<assignment, submission, files, storeVars, gradeVars, most>>
    BY <1>2 DEF ConfirmUpload
  <2> QED BY <2>1, <2>2, TurnStep
<1>3. ASSUME NEW k \in Uploads, RemoveFile(r, k) PROVE HandinsInv'
  <2>1. [at |-> "detach", key |-> k] \in TabStates
    BY DEF TabStates
  <2> QED BY <1>3, <2>1, TurnStep DEF RemoveFile
<1>4. CASE OpenDraft(r)
  <2> DEFINE what == [at |-> "head", key |-> tab[r].key]
  <2>1. what \in TabStates /\ tab[r].key \in signed
    BY <1>4, TabTyped DEF HandinsInv, OpenDraft, TabStates
  <2>2. Cardinality(files) < most
    BY <1>4, TabTyped, FilesFinite, LimitsAreNat DEF HandinsInv, OpenDraft
  <2>3. /\ Turn(r, what) /\ UNCHANGED <<assignment, submission, files, storeVars, gradeVars, most>>
        /\ IsDraft /\ Unlocked
    BY <1>4 DEF OpenDraft
  <2> QED BY <2>1, <2>2, <2>3, TurnStep
<1>5. CASE HeadObject(r)
  <2> DEFINE what == [tab[r] EXCEPT !.at = "insert"]
  <2>1. tab[r] \in [at: {"head", "insert", "detach"}, key: Uploads] /\ tab[r].at = "head"
    BY <1>5, TabTyped DEF HandinsInv, HeadObject
  <2>2. what \in TabStates /\ what.at = "insert" /\ what.key = tab[r].key /\ Drafting(r)
    BY <2>1 DEF TabStates, Drafting
  <2>3. Turn(r, what) /\ UNCHANGED <<assignment, submission, files, storeVars, gradeVars, most>>
    BY <1>5 DEF HeadObject
  <2>4. tab[r].key \in signed /\ IsDraft /\ Cardinality(files) < most
    BY <2>1, <2>2 DEF HandinsInv
  <2> HIDE DEF what
  <2> QED BY <2>2, <2>3, <2>4, TurnStep
<1>6. CASE Submit(r)
  <2>1. [at |-> "submit"] \in TabStates
    BY DEF TabStates
  <2> QED BY <1>6, <2>1, TurnStep DEF Submit
<1>7. CASE CloseTab(r)
  <2>1. Resting \in TabStates /\ Resting.at = "idle"
    BY DEF TabStates, Resting
  <2> QED BY <1>7, <2>1, TurnStep DEF CloseTab
<1>8. ASSUME NEW n \in Points, OpenWork(r, n) PROVE HandinsInv'
  <2> DEFINE what == [at |-> "mark", points |-> n,
                      worth |-> assignment.points, passing |-> assignment.passing]
  <2>1. IsSet
    BY <1>8 DEF HandinsInv, HandinsTypeOK, OpenWork, IsSet, Absent
  <2>2. what \in TabStates
    BY <2>1, AssignmentTyped DEF HandinsInv, TabStates
  <2>3. Turn(r, what) /\ UNCHANGED <<assignment, submission, files, storeVars, gradeVars, most>>
    BY <1>8 DEF OpenWork
  <2> QED BY <2>2, <2>3, TurnStep
<1> QED BY <1>1, <1>2, <1>3, <1>4, <1>5, <1>6, <1>7, <1>8

(* The store, and a draft opened for an upload. *)
LEMMA StoreStep ==
    ASSUME HandinsInv, NEW k \in Uploads, PresignUpload(k) \/ Upload(k) \/ DeleteObject(k)
    PROVE  HandinsInv'
<1>1. /\ UNCHANGED <<assignment, files, gradeVars, tab, most>>
      /\ signed \subseteq signed' /\ signed' \subseteq Uploads
      /\ objects' \subseteq signed' /\ deletions' \subseteq signed'
  BY DEF HandinsInv, HandinsTypeOK, PresignUpload, Upload, DeleteObject
<1>2. \/ UNCHANGED submission
      \/ /\ IsSet /\ Unlocked /\ submission' \in SubmissionRows
         /\ submission'.status = "draft" /\ submission' # Absent
  BY DEF HandinsInv, HandinsTypeOK, PresignUpload, Upload, DeleteObject, StillOpen, IsDraft,
         Drafted, Draft, SubmissionRows, Absent
<1>3. HandinsTypeOK'
  BY <1>1, <1>2 DEF HandinsInv, HandinsTypeOK, gradeVars, IsSet
<1>4. MarkAgrees'
  BY <1>1, <1>2 DEF HandinsInv, MarkAgrees, gradeVars
<1>5. \A r \in Tabs : Drafting(r)' => IsDraft'
  BY <1>1, <1>2 DEF HandinsInv, Drafting, Unlocked, IsDraft
<1> QED BY <1>1, <1>3, <1>4, <1>5 DEF HandinsInv, WithinLimit, Drafting, IsSet

(* A request that is done: what it held is free. *)
LEMMA LeaveStep ==
    ASSUME HandinsInv, NEW r \in Tabs, Turn(r, Resting), UNCHANGED <<signed, most>>, HandinsTypeOK',
           assignment'.status = "set" => assignment' = assignment,
           Cardinality(files') <= most, MarkAgrees',
           (\A q \in Tabs \ {r} : ~Drafting(q)) \/ (IsDraft /\ IsDraft'
                                                    /\ Cardinality(files') <= Cardinality(files))
    PROVE  HandinsInv'
<1>1. \A q \in Tabs : tab'[q] = IF q = r THEN Resting ELSE tab[q]
  BY DEF Turn, HandinsInv, HandinsTypeOK
<1>2. Resting.at = "idle"
  BY DEF Resting
<1>3. WithinLimit' /\ (IsSet => assignment.maxFiles <= most)'
  BY DEF HandinsInv, WithinLimit, IsSet
<1>4. Cardinality(files) \in Nat /\ Cardinality(files)' \in Nat /\ most \in Nat
  <2>1. files' \subseteq Uploads
    BY DEF HandinsTypeOK
  <2>2. Cardinality(files') \in Nat
    BY <2>1, HandinsAssumption, FS_Subset, FS_CardinalityType
  <2> QED BY <2>2, FilesFinite, LimitsAreNat DEF HandinsInv
<1>5. ASSUME NEW q \in Tabs
      PROVE  /\ tab'[q].at \in {"attach", "head", "insert"} => tab'[q].key \in signed'
             /\ tab'[q].at = "attach" => tab'[q].maxFiles <= most'
             /\ tab'[q].at = "cascade" => tab'[q].keys \subseteq signed'
             /\ Drafting(q)' => IsDraft' /\ Cardinality(files') < most'
  BY <1>1, <1>2, <1>4 DEF HandinsInv, Drafting
<1>6. \A p, q \in Tabs : Drafting(p)' /\ Drafting(q)' => p = q
  BY <1>1, <1>2 DEF HandinsInv, Drafting
<1> QED BY <1>3, <1>5, <1>6 DEF HandinsInv

LEMMA RestingTyped ==
    ASSUME HandinsTypeOK, NEW r \in Tabs, Turn(r, Resting)
    PROVE  tab' \in [Tabs -> TabStates]
BY DEF HandinsTypeOK, Turn, TabStates

LEMMA AttachStep ==
    ASSUME HandinsInv, NEW r \in Tabs, AttachFile(r)
    PROVE  HandinsInv'
<1>1. Drafting(r) /\ IsDraft /\ Cardinality(files) < most /\ tab[r].key \in signed
  BY DEF HandinsInv, AttachFile, Drafting
<1>2. submission' \in SubmissionRows /\ submission'.status = "draft" /\ submission' # Absent
  BY <1>1 DEF HandinsInv, HandinsTypeOK, AttachFile, IsDraft, Drafted, Draft, SubmissionRows, Absent
<1>3. /\ Turn(r, Resting) /\ files' = files \cup {tab[r].key} /\ tab[r].key \notin files /\ IsSet
      /\ UNCHANGED <<assignment, storeVars, gradeVars, most>>
  BY DEF AttachFile
<1>4. HandinsTypeOK'
  BY <1>1, <1>2, <1>3, RestingTyped DEF HandinsInv, HandinsTypeOK, storeVars, gradeVars, IsSet
<1>5. Cardinality(files') <= most
  <2>1. IsFiniteSet(files) /\ Cardinality(files) \in Nat /\ most \in Nat
    BY FilesFinite, LimitsAreNat DEF HandinsInv
  <2>2. Cardinality(files') = Cardinality(files) + 1
    BY <2>1, <1>3, FS_AddElement
  <2> QED BY <2>1, <2>2, <1>1
<1>6. MarkAgrees'
  BY <1>2 DEF MarkAgrees
<1>7. \A q \in Tabs \ {r} : ~Drafting(q)
  BY <1>1 DEF HandinsInv
<1> QED BY <1>3, <1>4, <1>5, <1>6, <1>7, LeaveStep DEF storeVars

LEMMA DeleteFileStep ==
    ASSUME HandinsInv, NEW r \in Tabs, DeleteFile(r)
    PROVE  HandinsInv'
<1>1. /\ Turn(r, Resting) /\ files' = files \ {tab[r].key} /\ tab[r].key \in files
      /\ UNCHANGED <<assignment, submission, signed, objects, gradeVars, most>>
      /\ deletions' = deletions \cup {tab[r].key}
  BY DEF DeleteFile
<1>2. HandinsTypeOK'
  BY <1>1, RestingTyped DEF HandinsInv, HandinsTypeOK, gradeVars
<1>3. Cardinality(files') <= Cardinality(files) /\ Cardinality(files') \in Nat
  <2>1. IsFiniteSet(files) /\ files' \subseteq files
    BY <1>1, FilesFinite DEF HandinsInv
  <2> QED BY <2>1, FS_Subset, FS_CardinalityType
<1>4. Cardinality(files') <= most
  BY <1>3, FilesFinite, LimitsAreNat DEF HandinsInv, WithinLimit
<1>5. MarkAgrees' /\ IsDraft' = IsDraft
  BY <1>1 DEF HandinsInv, MarkAgrees, gradeVars, IsDraft
<1>6. WithinLimit' /\ (IsSet => assignment.maxFiles <= most)'
  BY <1>1, <1>4 DEF HandinsInv, WithinLimit, IsSet
<1>7. \A q \in Tabs : tab'[q] = IF q = r THEN Resting ELSE tab[q]
  BY <1>1 DEF Turn, HandinsInv, HandinsTypeOK
<1>8. Resting.at = "idle"
  BY DEF Resting
<1>9. ASSUME NEW q \in Tabs
      PROVE  /\ tab'[q].at \in {"attach", "head", "insert"} => tab'[q].key \in signed'
             /\ tab'[q].at = "attach" => tab'[q].maxFiles <= most'
             /\ tab'[q].at = "cascade" => tab'[q].keys \subseteq signed'
             /\ Drafting(q)' => IsDraft' /\ Cardinality(files') < most'
  <2>1. Cardinality(files) \in Nat /\ most \in Nat
    BY FilesFinite, LimitsAreNat DEF HandinsInv
  <2> QED BY <1>1, <1>3, <1>5, <1>7, <1>8, <2>1 DEF HandinsInv, Drafting
<1>10. \A p, q \in Tabs : Drafting(p)' /\ Drafting(q)' => p = q
  BY <1>7, <1>8 DEF HandinsInv, Drafting
<1> QED BY <1>2, <1>5, <1>6, <1>9, <1>10 DEF HandinsInv

LEMMA DeleteAssignmentStep ==
    ASSUME HandinsInv, NEW r \in Tabs, DeleteAssignment(r)
    PROVE  HandinsInv'
<1>1. /\ Turn(r, Resting) /\ files' = {} /\ submission' = Absent
      /\ assignment' = [status |-> "removed"]
      /\ UNCHANGED <<signed, objects, gradeVars, most>>
      /\ deletions' = deletions \cup tab[r].keys /\ tab[r].keys \subseteq signed
  BY DEF HandinsInv, DeleteAssignment
<1>2. HandinsTypeOK'
  BY <1>1, RestingTyped DEF HandinsInv, HandinsTypeOK, gradeVars, AssignmentRows, SubmissionRows
<1>3. Cardinality(files') <= most
  BY <1>1, FS_EmptySet, LimitsAreNat DEF HandinsInv
<1>4. MarkAgrees'
  BY <1>1 DEF MarkAgrees, Absent
<1>5. \A q \in Tabs \ {r} : ~Drafting(q)
  BY DEF DeleteAssignment, Unlocked
<1>6. assignment'.status # "set"
  BY <1>1
<1> QED BY <1>1, <1>2, <1>3, <1>4, <1>5, <1>6, LeaveStep

LEMMA DecideStep ==
    ASSUME HandinsInv, NEW r \in Tabs, HandIn(r) \/ Mark(r)
    PROVE  HandinsInv'
<1>1. /\ Turn(r, Resting) /\ UNCHANGED <<assignment, files, storeVars, most>> /\ Unlocked
      /\ submission # Absent /\ submission' # Absent
  <2>1. submission # Absent
    <3>1. submission.status \in {"draft", "submitted", "graded"}
      BY DEF HandIn, Mark
    <3> QED BY <3>1 DEF Absent
  <2>2. submission \in [status: {"draft", "submitted", "graded"}, points: Points \cup {NoMark}]
    BY <2>1 DEF HandinsInv, HandinsTypeOK, SubmissionRows
  <2>3. submission' # Absent
    <3>1. CASE HandIn(r)
      <4>1. submission'.status = "submitted"
        BY <2>2, <3>1 DEF HandIn
      <4> QED BY <4>1 DEF Absent
    <3>2. CASE Mark(r)
      <4>1. submission'.status = "graded"
        BY <2>2, <3>2 DEF Mark
      <4> QED BY <4>1 DEF Absent
    <3> QED BY <3>1, <3>2
  <2> QED BY <2>1, <2>3 DEF HandIn, Mark
<1>2. submission' \in SubmissionRows /\ entry' \in Points \cup {NoMark} /\ completed' \in BOOLEAN
      /\ MarkAgrees'
  <2>1. CASE HandIn(r)
    <3>1. submission \in [status: {"draft", "submitted", "graded"}, points: Points \cup {NoMark}]
      BY <1>1 DEF HandinsInv, HandinsTypeOK, SubmissionRows
    <3> QED BY <2>1, <3>1 DEF HandIn, HandinsInv, HandinsTypeOK, SubmissionRows, MarkAgrees, gradeVars
  <2>2. CASE Mark(r)
    <3>1. tab[r].points \in Points
      BY <2>2, TabTyped DEF HandinsInv, Mark
    <3> QED BY <2>2, <3>1 DEF Mark, RecordMark, HandinsInv, HandinsTypeOK, SubmissionRows, MarkAgrees
  <2> QED BY <2>1, <2>2
<1>3. HandinsTypeOK'
  BY <1>1, <1>2, RestingTyped DEF HandinsInv, HandinsTypeOK, storeVars
<1>4. Cardinality(files') <= most
  BY <1>1 DEF HandinsInv, WithinLimit
<1>5. \A q \in Tabs \ {r} : ~Drafting(q)
  BY <1>1 DEF Unlocked
<1> QED BY <1>1, <1>2, <1>3, <1>4, <1>5, LeaveStep DEF storeVars

LEMMA HandinsStep == HandinsInv /\ [HandinsNext]_handinsVars => HandinsInv'
<1> SUFFICES ASSUME HandinsInv, [HandinsNext]_handinsVars PROVE HandinsInv'
  OBVIOUS
<1>1. CASE UNCHANGED handinsVars
  BY <1>1 DEF handinsVars, storeVars, gradeVars, HandinsInv, HandinsTypeOK, WithinLimit,
     MarkAgrees, IsSet, Drafting, IsDraft
<1>2. CASE HandinsNext
  BY <1>2, AuthorStep, StoreStep, ReadingStep, AttachStep, DeleteFileStep, DeleteAssignmentStep,
     DecideStep DEF HandinsNext
<1> QED BY <1>1, <1>2

(* The invariant of one learner's work, for any number of files, limits and
   requests in flight.                                                      *)
THEOREM HandinsHold == HandinsSpec => []HandinsInv
BY HandinsInitInv, HandinsStep, PTL DEF HandinsSpec

(* A learner never has more files than the largest limit there was, however
   many uploads are confirmed at once: assign/service.go, AttachFile.       *)
THEOREM FilesStayWithin == HandinsSpec => []WithinLimit
<1>1. HandinsInv => WithinLimit
  BY DEF HandinsInv
<1> QED BY <1>1, HandinsHold, PTL

(* The gradebook says what the marked work says: assign/service.go, Mark. *)
THEOREM GradebookAgrees == HandinsSpec => []MarkAgrees
<1>1. HandinsInv => MarkAgrees
  BY DEF HandinsInv
<1> QED BY <1>1, HandinsHold, PTL

(* No step adds a file to work that was handed in: the request that attaches
   holds the draft.  assign/service.go, AttachFile and Submit.              *)
THEOREM NothingComesLate == HandinsSpec => NothingAttachedLate
<1>1. HandinsInv /\ [HandinsNext]_handinsVars
        => [files' \subseteq files \/ submission'.status = "draft"]_handinsVars
  <2> SUFFICES ASSUME HandinsInv, HandinsNext
               PROVE  files' \subseteq files \/ submission'.status = "draft"
    OBVIOUS
  <2>1. ASSUME NEW r \in Tabs, AttachFile(r) PROVE submission'.status = "draft"
    BY <2>1 DEF HandinsInv, AttachFile, Drafting, IsDraft, Drafted, Draft
  <2> QED BY <2>1 DEF HandinsNext, CreateAssignment, EditAssignment, WriteAssignment, PassDeadline,
      RemoveAssignment, DeleteAssignment, PresignUpload, Upload, DeleteObject, ConfirmUpload,
      RemoveFile, OpenDraft, HeadObject, DeleteFile, Submit, HandIn, Mark, CloseTab, OpenWork
<1> QED BY <1>1, HandinsHold, PTL DEF HandinsSpec, NothingAttachedLate

-----------------------------------------------------------------------------
(* The desks. *)

(* Looking at one desk at a time loses nothing: whichever desk a behaviour of
   the workspace is about, each part of it is a behaviour of its own module. *)
THEOREM WorkspaceDesks ==
    WorkspaceSpec => LimiterSpec /\ CampusSpec /\ SessionsSpec /\ HandinsSpec
<1>1. WorkspaceInit => LimiterInit /\ CampusInit /\ SessionsInit /\ HandinsInit
  BY DEF WorkspaceInit
<1>2. [WorkspaceNext]_workspaceVars => [LimiterNext]_limiterVars
  BY DEF WorkspaceNext, workspaceVars, AtLimiter, AtCampus, AtSessions, AtHandins
<1>3. [WorkspaceNext]_workspaceVars => [CampusNext]_campusVars
  BY DEF WorkspaceNext, workspaceVars, AtLimiter, AtCampus, AtSessions, AtHandins
<1>4. [WorkspaceNext]_workspaceVars => [SessionsNext]_sessionsVars
  BY DEF WorkspaceNext, workspaceVars, AtLimiter, AtCampus, AtSessions, AtHandins
<1>5. [WorkspaceNext]_workspaceVars => [HandinsNext]_handinsVars
  BY DEF WorkspaceNext, workspaceVars, AtLimiter, AtCampus, AtSessions, AtHandins
<1> QED BY <1>1, <1>2, <1>3, <1>4, <1>5, PTL
        DEF WorkspaceSpec, LimiterSpec, CampusSpec, SessionsSpec, HandinsSpec

(* So all that the run of the workspace asks of its states holds of any
   workspace: of as many people, letters, addresses, rooms, books, files and
   requests.                                                                *)
THEOREM WorkspaceKept ==
    WorkspaceSpec => [](/\ WorkspaceTypeOK
                        /\ WithinBudget /\ MapIsBounded /\ RetryIsHonoured
                        /\ NeverOverdrawn /\ AdmittedOnce
                        /\ OwnerRemains /\ SpentOnce /\ RevocationIsChased
                        /\ WithinLimit /\ MarkAgrees)
<1>1. /\ LimiterInv => LimiterTypeOK
      /\ CampusInv => CampusTypeOK
      /\ SessionsInv => SessionsTypeOK
      /\ HandinsInv => HandinsTypeOK
  BY DEF LimiterInv, CampusInv, SessionsInv, HandinsInv
<1>2. LimiterTypeOK /\ CampusTypeOK /\ SessionsTypeOK /\ HandinsTypeOK
      => WorkspaceTypeOK
  BY DEF WorkspaceTypeOK
<1> QED BY <1>1, <1>2, WorkspaceDesks,
           LimiterHolds, BudgetHolds, MapStaysSmall, RetrySuffices,
           CampusHolds, NothingOverdrawn, RejectedStayOut,
           SessionsHold, AnOwnerRemains, LettersAreSpentOnce, NoRevocationIsLost,
           HandinsHold, FilesStayWithin, GradebookAgrees, PTL
=============================================================================
