--------------------------- MODULE EnrolmentRows ---------------------------
(***************************************************************************)
(* One row of the table `enrolments`, and the statements that change one.  *)
(*                                                                         *)
(* A row is keyed by (tenant, course, user).  The statements are pure:     *)
(* each takes the row as the statement finds it under its lock and gives   *)
(* the row it leaves behind, so that every module whose transactions reach *)
(* this table composes the same statements.                                *)
(*                                                                         *)
(* The status 'expired' and the column expires_at are left out: the        *)
(* statements treat 'expired' exactly as 'cancelled', and nothing in the   *)
(* program writes either of them.                                          *)
(***************************************************************************)

Statuses == {"none", "active", "completed", "cancelled"}
Sources  == {"none", "self", "granted", "purchase", "import"}

Rows == [status: Statuses, source: Sources]

(* The row is not there yet. *)
NoRow == [status |-> "none", source |-> "none"]

Exists(row) == row.status # "none"

(* A live enrolment, active or completed, is the entitlement to the course. *)
Live(row) == row.status \in {"active", "completed"}

(* Mutant: whoever enrols the learner last labels the row. *)
RelabelledSource(row, source) == source

(* A purchase keeps its label whoever enrols the learner afterwards. *)
KeptSource(row, source) ==
    IF row.source = "purchase" THEN "purchase" ELSE source

(* INSERT ... ON CONFLICT: a lapsed row is reactivated, a live one keeps its
   status.  `Exists` of the row before is `inserted` negated.               *)
Upserted(row, source) ==
    [status |-> IF row.status = "completed" THEN "completed" ELSE "active",
     source |-> KeptSource(row, source)]

(* UPDATE ... WHERE status <> 'cancelled'. *)
MayCancel(row) == Exists(row) /\ row.status # "cancelled"
Cancelled(row) == [row EXCEPT !.status = "cancelled"]

(* UPDATE ... WHERE status <> 'completed'. *)
MayComplete(row) == Exists(row) /\ row.status # "completed"
Completed(row) == [row EXCEPT !.status = "completed"]

(* UPDATE ... WHERE status = 'completed'. *)
MayReopen(row) == row.status = "completed"
Reopened(row) == [row EXCEPT !.status = "active"]
=============================================================================
