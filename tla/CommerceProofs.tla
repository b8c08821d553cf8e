--------------------------- MODULE CommerceProofs ---------------------------
(* What Commerce's runs show on small instances, proved for any number of
   orders, seats, courses and concurrent calls.                             *)
EXTENDS Commerce, TLAPS

(* The statements on an enrolment row keep it a row. *)
LEMMA RowsClosed ==
    ASSUME NEW row \in Rows, NEW source \in Sources
    PROVE  /\ Upserted(row, source) \in Rows
           /\ Cancelled(row) \in Rows
           /\ Completed(row) \in Rows
           /\ Reopened(row) \in Rows
BY DEF Rows, Upserted, KeptSource, Cancelled, Completed, Reopened,
       Statuses, Sources

(* Whatever step a call proceeds to, it is about an order, a seat or nothing. *)
LEMMA ProceedTyped ==
    ASSUME call \in [Calls -> CallStates], NEW k \in Calls,
           NEW phase \in Phases, NEW x \in Orders \cup Seats,
           NEW answer \in Answers, Proceed(k, phase, x, answer)
    PROVE  call' \in [Calls -> CallStates]
BY DEF Proceed, CallStates

LEMMA ReturnTyped ==
    ASSUME call \in [Calls -> CallStates], NEW k \in Calls, Return(k)
    PROVE  call' \in [Calls -> CallStates]
BY DEF Return, Idle, CallStates, Phases, Answers

-----------------------------------------------------------------------------
(* Type correctness: one step per group of actions. *)

THEOREM InitTyped == Init => TypeOK
BY DEF Init, TypeOK, NoOrder, OrderRows, OrderStatuses, NoRow, Rows, Statuses,
   Sources, AuditActions, Idle, CallStates, Phases, Answers, Charges, Refunds,
   Events

LEMMA PricingTyped == TypeOK /\ Pricing => TypeOK'
BY DEF TypeOK, Pricing, SetPrice, ClearPrice, table, jobs, money

LEMMA GatewayStepsTyped == TypeOK /\ GatewaySteps => TypeOK'
<1> SUFFICES ASSUME TypeOK, NEW o \in Orders, 
                    \/ LearnerPays(o) \/ LearnerGivesUp(o) \/ BkashExecutes(o)
                    \/ \E other \in Orders : EditMetadata(o, other)
                    \/ RefundByHand(o) \/ GatewaySettlesRefund(o)
             PROVE  TypeOK'
  BY DEF GatewaySteps
<1>1. /\ UNCHANGED <<orders, enrolments, trail, forSale, polls, overdue, failures, call, handed>>
  BY DEF LearnerPays, LearnerGivesUp, BkashExecutes, EditMetadata, RefundByHand,
     GatewaySettlesRefund, table, jobs, money
<1>2. charge' \in [Orders -> Charges]
  BY DEF TypeOK, LearnerPays, LearnerGivesUp, BkashExecutes, EditMetadata, RefundByHand,
     GatewaySettlesRefund, table, jobs, money, Charges
<1>3. refund' \in [Orders -> Refunds]
  BY DEF TypeOK, LearnerPays, LearnerGivesUp, BkashExecutes, EditMetadata, RefundByHand,
     GatewaySettlesRefund, table, jobs, money, Refunds
<1>4. inbox' \subseteq Events
  BY DEF TypeOK, LearnerPays, LearnerGivesUp, BkashExecutes, EditMetadata, RefundByHand,
     GatewaySettlesRefund, table, jobs, money, Announce, EventOf, Events
<1> QED BY <1>1, <1>2, <1>3, <1>4 DEF TypeOK

LEMMA OrderMarkTyped ==
    ASSUME TypeOK, NEW o \in Orders, NEW ref \in BOOLEAN,
           MarkPaid(o, ref) \/ MarkFailed(o) \/ MarkRefunded(o, ref)
    PROVE  /\ orders' \in [Orders -> OrderRows]
           /\ enrolments' \in [Seats -> Rows]
           /\ trail' \subseteq AuditActions \X Orders
<1> DEFINE s == SeatOf[o]
<1>1. s \in Seats /\ enrolments[s] \in Rows /\ orders[o] \in OrderRows
  BY SeatAssumption DEF TypeOK
<1>2. /\ Upserted(enrolments[s], "purchase") \in Rows
      /\ Cancelled(enrolments[s]) \in Rows
  BY <1>1, RowsClosed DEF Sources
<1>3. CASE MarkPaid(o, ref)
  <2>1. enrolments' \in [Seats -> Rows]
    BY <1>1, <1>2, <1>3 DEF MarkPaid, TypeOK
  <2>2. orders' \in [Orders -> OrderRows]
    BY <1>1, <1>3 DEF MarkPaid, TypeOK, OrderRows, OrderStatuses
  <2> QED BY <1>3, <2>1, <2>2 DEF MarkPaid, TypeOK, AuditActions
<1>4. CASE MarkFailed(o)
  BY <1>1, <1>4 DEF MarkFailed, TypeOK, OrderRows, OrderStatuses
<1>5. CASE MarkRefunded(o, ref)
  <2>1. enrolments' \in [Seats -> Rows]
    BY <1>1, <1>2, <1>5 DEF MarkRefunded, TypeOK
  <2>2. orders' \in [Orders -> OrderRows]
    BY <1>1, <1>5 DEF MarkRefunded, TypeOK, OrderRows, OrderStatuses
  <2> QED BY <1>5, <2>1, <2>2 DEF MarkRefunded, TypeOK, AuditActions
<1> QED BY <1>3, <1>4, <1>5

(* The payment's id came with the event, or did not. *)
LEMMA PaymentIdsAreBoolean == \A o \in Orders : PaymentIds(o) \subseteq BOOLEAN
BY DEF PaymentIds

LEMMA ApplyTyped ==
    ASSUME TypeOK, NEW o \in Orders, NEW kind, Apply(kind, o)
    PROVE  /\ orders' \in [Orders -> OrderRows]
           /\ enrolments' \in [Seats -> Rows]
           /\ trail' \subseteq AuditActions \X Orders
<1>1. ASSUME NEW id \in BOOLEAN, MarkPaid(o, id)
      PROVE  /\ orders' \in [Orders -> OrderRows]
             /\ enrolments' \in [Seats -> Rows]
             /\ trail' \subseteq AuditActions \X Orders
  BY <1>1, OrderMarkTyped
<1>2. CASE MarkFailed(o) \/ MarkRefunded(o, FALSE)
  BY <1>2, OrderMarkTyped
<1>3. CASE UNCHANGED table
  BY <1>3 DEF table, TypeOK
<1> QED BY <1>1, <1>2, <1>3, PaymentIdsAreBoolean DEF Apply

LEMMA DeliverTyped == ASSUME TypeOK, NEW e \in inbox, Deliver(e) PROVE TypeOK'
<1>1. e.order \in Orders
  BY DEF TypeOK, Events
<1> QED BY <1>1, ApplyTyped DEF Deliver, TypeOK, jobs, money

LEMMA BuyingTyped ==
    ASSUME TypeOK, NEW k \in Calls, NEW o \in Orders,
           Buy(k, o) \/ OpenCheckout(k, o) \/ AttachSession(k, o)
    PROVE  TypeOK'
<1>1. call' \in [Calls -> CallStates]
  BY ProceedTyped, ReturnTyped
     DEF TypeOK, Buy, OpenCheckout, AttachSession, Phases, Answers
<1>2. orders' \in [Orders -> OrderRows]
  <2>1. orders[o] \in OrderRows
    BY DEF TypeOK
  <2>2. CASE Buy(k, o)
    BY <2>1, <2>2 DEF TypeOK, Buy, OrderRows, OrderStatuses
  <2>3. CASE OpenCheckout(k, o)
    BY <2>3 DEF TypeOK, OpenCheckout, table
  <2>4. CASE AttachSession(k, o)
    BY <2>1, <2>4 DEF TypeOK, AttachSession, OrderRows
  <2> QED BY <2>2, <2>3, <2>4
<1>3. trail' \subseteq AuditActions \X Orders
  BY DEF TypeOK, Buy, OpenCheckout, AttachSession, table, AuditActions
<1>4. charge' \in [Orders -> Charges]
  BY DEF TypeOK, Buy, OpenCheckout, AttachSession, money, Charges
<1> QED BY <1>1, <1>2, <1>3, <1>4
     DEF TypeOK, Buy, OpenCheckout, AttachSession, table, jobs, money

LEMMA ConfirmingTyped ==
    ASSUME TypeOK, NEW k \in Calls, NEW o \in Orders,
           \/ Confirm(k, o) \/ AskOutcome(k, o) \/ BkashExecute(k, o)
           \/ BkashExecuted(k, o) \/ BkashNotCompleted(k, o)
    PROVE  TypeOK'
<1>1. call' \in [Calls -> CallStates]
  BY ProceedTyped DEF TypeOK, Confirm, AskOutcome, BkashExecute, BkashExecuted,
     BkashNotCompleted, Phases, Answers
<1>2. charge' \in [Orders -> Charges]
  BY DEF TypeOK, Confirm, AskOutcome, BkashExecute, BkashExecuted,
     BkashNotCompleted, money, Charges
<1> QED BY <1>1, <1>2 DEF TypeOK, Confirm, AskOutcome, BkashExecute, BkashExecuted,
     BkashNotCompleted, table, jobs, money

LEMMA ConfirmApplyTyped ==
    ASSUME TypeOK, NEW k \in Calls, NEW o \in Orders, ConfirmApply(k, o)
    PROVE  TypeOK'
BY ReturnTyped, ApplyTyped DEF ConfirmApply, TypeOK, jobs, money

LEMMA RefundingTyped ==
    ASSUME TypeOK, NEW k \in Calls, NEW o \in Orders,
           \/ Refund(k, o) \/ AskRefund(k, o) \/ RefundRefused(k, o)
           \/ WriteRefund(k, o) \/ RefundAlreadyWritten(k, o)
    PROVE  TypeOK'
<1>1. call' \in [Calls -> CallStates]
  BY ProceedTyped, ReturnTyped DEF TypeOK, Refund, AskRefund, WriteRefund,
     RefundRefused, RefundAlreadyWritten, RefundIds, Phases, Answers
<1>2. CASE WriteRefund(k, o)
  <2>1. \E ref \in BOOLEAN : MarkRefunded(o, ref)
    BY <1>2 DEF WriteRefund
  <2> QED BY <1>1, <1>2, <2>1, OrderMarkTyped DEF WriteRefund, TypeOK, money
<1>3. CASE Refund(k, o) \/ AskRefund(k, o) \/ RefundRefused(k, o)
          \/ RefundAlreadyWritten(k, o)
  <2>1. refund' \in [Orders -> Refunds]
    BY <1>3 DEF TypeOK, Refund, AskRefund, RefundRefused, RefundAlreadyWritten, money, Refunds
  <2> QED BY <1>1, <1>3, <2>1 DEF TypeOK, Refund, AskRefund, RefundRefused, RefundAlreadyWritten,
       table, jobs, money
<1> QED BY <1>2, <1>3

LEMMA ChasingTyped ==
    ASSUME TypeOK, NEW k \in Calls, NEW o \in Orders,
           \/ Chase(k, o) \/ AskRefundStatus(k, o) \/ RecordRefund(k, o)
           \/ CloseChase(k, o) \/ FailRun(k, o)
    PROVE  TypeOK'
<1>1. call' \in [Calls -> CallStates]
  BY ProceedTyped, ReturnTyped DEF TypeOK, Chase, AskRefundStatus, RecordRefund,
     CloseChase, FailRun, Phases, Answers
<1>2. trail' \subseteq AuditActions \X Orders
  BY DEF TypeOK, Chase, AskRefundStatus, RecordRefund, CloseChase, FailRun, table,
     AuditActions
<1>3. failures' \in [Orders -> Nat] /\ polls' \subseteq Orders
  BY DEF TypeOK, Chase, AskRefundStatus, RecordRefund, CloseChase, FailRun, jobs
<1> QED BY <1>1, <1>2, <1>3 DEF TypeOK, Chase, AskRefundStatus, RecordRefund,
     CloseChase, FailRun, table, jobs, money

LEMMA CutOffTyped == ASSUME TypeOK, NEW k \in Calls, CutOff(k) PROVE TypeOK'
BY ReturnTyped DEF TypeOK, CutOff, table, jobs, money

LEMMA JobStepsTyped == TypeOK /\ JobSteps => TypeOK'
BY DEF TypeOK, JobSteps, ReachCeiling, GiveUpChase, table, money

LEMMA RowTyped ==
    ASSUME TypeOK, NEW s \in Seats, NEW row \in Rows, SetRow(s, row),
           call' \in [Calls -> CallStates]
    PROVE  TypeOK'
BY DEF TypeOK, SetRow, jobs, money

LEMMA SeatStepsTyped ==
    ASSUME TypeOK, NEW s \in Seats,
           \/ Grant(s) \/ GrantCourses(s) \/ Import(s) \/ Reopen(s)
           \/ CancelSerially(s) \/ CompleteSerially(s)
    PROVE  TypeOK'
<1>1. enrolments[s] \in Rows /\ call \in [Calls -> CallStates]
  BY DEF TypeOK
<1>2. /\ \A source \in Sources : Upserted(enrolments[s], source) \in Rows
      /\ Cancelled(enrolments[s]) \in Rows
      /\ Completed(enrolments[s]) \in Rows
      /\ Reopened(enrolments[s]) \in Rows
  <2> "none" \in Sources
    BY DEF Sources
  <2> QED BY <1>1, RowsClosed
<1> QED BY <1>1, <1>2, RowTyped DEF Grant, GrantCourses, Import, Reopen,
     CancelSerially, CompleteSerially, Sources

LEMMA StatementsTyped ==
    ASSUME TypeOK, NEW k \in Calls, NEW s \in Seats,
           \/ Enrol(k, s) \/ UpsertEnrolment(k, s)
           \/ Cancel(k, s) \/ CancelEnrolment(k, s)
           \/ FinishLesson(k, s) \/ CompleteEnrolment(k, s)
    PROVE  TypeOK'
<1>1. call' \in [Calls -> CallStates]
  BY ProceedTyped, ReturnTyped DEF TypeOK, Enrol, UpsertEnrolment, Cancel,
     CancelEnrolment, FinishLesson, CompleteEnrolment, Phases, Answers
<1>2. /\ Upserted(enrolments[s], "self") \in Rows
      /\ Cancelled(enrolments[s]) \in Rows
      /\ Completed(enrolments[s]) \in Rows
  <2> enrolments[s] \in Rows /\ "none" \in Sources
    BY DEF TypeOK, Sources
  <2> "self" \in Sources
    BY DEF Sources
  <2> QED BY RowsClosed
<1>3. CASE \/ SetRow(s, Upserted(enrolments[s], "self"))
           \/ SetRow(s, Cancelled(enrolments[s])) \/ SetRow(s, Completed(enrolments[s]))
  BY <1>1, <1>2, <1>3, RowTyped
<1>4. CASE UNCHANGED <<table, forSale, jobs, money, handed, inbox>>
  BY <1>1, <1>4 DEF TypeOK, table, jobs, money
<1> QED BY <1>3, <1>4 DEF Enrol, UpsertEnrolment, Cancel, CancelEnrolment,
     FinishLesson, CompleteEnrolment

LEMMA SalesTyped == TypeOK /\ Sales => TypeOK'
<1> SUFFICES ASSUME TypeOK, Sales PROVE TypeOK'
  OBVIOUS
<1>1. CASE CallSteps
  BY <1>1, CutOffTyped, BuyingTyped, ConfirmingTyped, ConfirmApplyTyped,
     RefundingTyped, ChasingTyped DEF CallSteps
<1>2. CASE \E e \in inbox : Deliver(e)
  BY <1>2, DeliverTyped
<1> QED BY <1>1, <1>2, PricingTyped, GatewayStepsTyped, JobStepsTyped,
     SeatStepsTyped, StatementsTyped DEF Sales

LEMMA StepTyped == TypeOK /\ ([Next]_vars \/ [SerialNext]_vars) => TypeOK'
<1> SUFFICES ASSUME TypeOK, [Next]_vars \/ [SerialNext]_vars PROVE TypeOK'
  OBVIOUS
<1>1. CASE UNCHANGED vars
  BY <1>1 DEF TypeOK, vars
<1> QED BY <1>1, SalesTyped, StatementsTyped, SeatStepsTyped DEF Next, SerialNext

(* Every reachable state is typed, at READ COMMITTED and run serially. *)
THEOREM TypeCorrect == Spec => []TypeOK
BY InitTyped, StepTyped, PTL DEF Spec

THEOREM SerialTypeCorrect == SerialSpec => []TypeOK
BY InitTyped, StepTyped, PTL DEF SerialSpec

-----------------------------------------------------------------------------
(* Money is followed: the inductive invariant of the settlement. *)

(* A step after which no call is buying, applying an answer or writing a
   refund that was not doing so before it.                                  *)
Weighty == {"buy.open", "buy.attach", "confirm.apply", "refund.write"}
NothingNew ==
    \A k \in Calls : \A o \in Orders : \A p \in Weighty :
        At(k, p, o)' => At(k, p, o) /\ call'[k] = call[k]

LEMMA ReturnIsNothingNew ==
    ASSUME call \in [Calls -> CallStates], NEW k \in Calls, Return(k)
    PROVE  NothingNew
BY NoneAssumption DEF NothingNew, Weighty, Return, Idle, At

LEMMA ProceedIsNothingNew ==
    ASSUME call \in [Calls -> CallStates], NEW k \in Calls,
           NEW phase \in Phases \ Weighty, NEW x, NEW answer,
           Proceed(k, phase, x, answer)
    PROVE  NothingNew
BY DEF NothingNew, Weighty, Proceed, At

LEMMA UnchangedIsNothingNew == UNCHANGED call => NothingNew
BY DEF NothingNew, At

(* Such a step breaks nothing while orders and the gateways stay as they are. *)
LEMMA QuietStep ==
    ASSUME MoneyFollowed, TypeOK', NothingNew, inbox' \subseteq inbox,
           UNCHANGED <<orders, charge, refund, handed>>
    PROVE  MoneyFollowed'
<1>1. SettledMeansCharged' /\ RefundedMeansReturned' /\ ChargedMeansAttached'
  BY DEF MoneyFollowed, SettledMeansCharged, RefundedMeansReturned,
         ChargedMeansAttached
<1>2. OneBuyer'
  BY DEF MoneyFollowed, OneBuyer, Buying, NothingNew, Weighty
<1>3. BuyingIsWritten'
  BY DEF MoneyFollowed, BuyingIsWritten, Buying, NothingNew, Weighty
<1>4. HandedIsAttached'
  BY DEF MoneyFollowed, HandedIsAttached
<1>5. SaidIsTrue'
  BY DEF MoneyFollowed, SaidIsTrue, NothingNew, Weighty
<1> QED BY <1>1, <1>2, <1>3, <1>4, <1>5 DEF MoneyFollowed

(* Nor does a settlement whose cause is true. *)
LEMMA SettlingStep ==
    ASSUME MoneyFollowed, TypeOK', NothingNew, inbox' \subseteq inbox,
           NEW o \in Orders, NEW ref \in BOOLEAN,
           \/ MarkPaid(o, ref) /\ orders[o].status = "pending" /\ charge[o] = "taken"
           \/ MarkFailed(o) /\ orders[o].status = "pending"
           \/ MarkRefunded(o, ref) /\ orders[o].status = "paid" /\ refund[o] # "none",
           UNCHANGED <<charge, refund, handed>>
    PROVE  MoneyFollowed'
<1>1. orders \in [Orders -> OrderRows]
  BY DEF MoneyFollowed, TypeOK
<1>2. \A p \in Orders \ {o} : orders'[p] = orders[p]
  BY <1>1 DEF MarkPaid, MarkFailed, MarkRefunded
<1>3. /\ orders'[o].session = orders[o].session
      /\ orders'[o].status \in {"paid", "failed", "refunded"}
      /\ orders'[o].status = "paid" => charge[o] = "taken"
      /\ orders'[o].status = "refunded" =>
            orders[o].status = "paid" /\ refund[o] # "none"
  BY <1>1 DEF MarkPaid, MarkFailed, MarkRefunded, OrderRows
<1>4. SettledMeansCharged' /\ RefundedMeansReturned' /\ ChargedMeansAttached'
  BY <1>2, <1>3 DEF MoneyFollowed, SettledMeansCharged, RefundedMeansReturned,
                    ChargedMeansAttached
<1>5. OneBuyer'
  BY DEF MoneyFollowed, OneBuyer, Buying, NothingNew, Weighty
<1>6. BuyingIsWritten'
  BY <1>2, <1>3 DEF MoneyFollowed, BuyingIsWritten, Buying, NothingNew, Weighty
<1>7. HandedIsAttached'
  BY <1>2, <1>3 DEF MoneyFollowed, HandedIsAttached, TypeOK
<1>8. SaidIsTrue'
  BY DEF MoneyFollowed, SaidIsTrue, NothingNew, Weighty
<1> QED BY <1>4, <1>5, <1>6, <1>7, <1>8 DEF MoneyFollowed

LEMMA ApplyFollows ==
    ASSUME MoneyFollowed, TypeOK', NothingNew, inbox' \subseteq inbox,
           NEW o \in Orders, NEW kind, Apply(kind, o),
           kind = "paid" => charge[o] = "taken",
           kind = "refunded" => refund[o] # "none",
           UNCHANGED <<charge, refund, handed>>
    PROVE  MoneyFollowed'
<1>1. CASE UNCHANGED table
  BY <1>1, QuietStep DEF table
<1>2. ASSUME NEW id \in BOOLEAN, kind = "paid" /\ Moves(o, "paid") /\ MarkPaid(o, id)
      PROVE  MoneyFollowed'
  BY <1>2, SettlingStep DEF Moves
<1>3. CASE \/ kind = "failed" /\ Moves(o, "failed") /\ MarkFailed(o)
           \/ kind = "refunded" /\ Moves(o, "refunded") /\ MarkRefunded(o, FALSE)
  BY <1>3, SettlingStep DEF Moves
<1> QED BY <1>1, <1>2, <1>3, PaymentIdsAreBoolean DEF Apply

LEMMA DeliverFollows ==
    ASSUME MoneyFollowed, TypeOK', NEW e \in inbox, Deliver(e)
    PROVE  MoneyFollowed'
<1>1. e.order \in Orders /\ inbox' \subseteq inbox
  BY DEF MoneyFollowed, TypeOK, Events, Deliver
<1>2. /\ e.kind = "paid" => charge[e.order] = "taken"
      /\ e.kind = "refunded" => refund[e.order] # "none"
  BY DEF MoneyFollowed, SaidIsTrue, Deliver, Matches
<1>3. NothingNew
  BY UnchangedIsNothingNew DEF Deliver
<1> QED BY <1>1, <1>2, <1>3, ApplyFollows DEF Deliver, money

LEMMA ConfirmApplyFollows ==
    ASSUME MoneyFollowed, TypeOK', NEW k \in Calls, NEW o \in Orders,
           ConfirmApply(k, o)
    PROVE  MoneyFollowed'
<1>1. /\ call[k].answer = "paid" => charge[o] = "taken"
      /\ call[k].answer # "refunded"
  BY DEF MoneyFollowed, SaidIsTrue, ConfirmApply
<1>2. NothingNew
  BY ReturnIsNothingNew DEF ConfirmApply, MoneyFollowed, TypeOK
<1> QED BY <1>1, <1>2, ApplyFollows DEF ConfirmApply, money

LEMMA WriteRefundFollows ==
    ASSUME MoneyFollowed, TypeOK', NEW k \in Calls, NEW o \in Orders,
           WriteRefund(k, o)
    PROVE  MoneyFollowed'
<1>1. refund[o] # "none"
  BY DEF MoneyFollowed, SaidIsTrue, WriteRefund
<1>2. NothingNew
  BY ReturnIsNothingNew DEF WriteRefund, MoneyFollowed, TypeOK
<1>3. \E ref \in BOOLEAN : MarkRefunded(o, ref)
  BY DEF WriteRefund
<1> QED BY <1>1, <1>2, <1>3, SettlingStep DEF WriteRefund, Moves, money

(* Buying: the checkout is opened while nothing is charged, and the URL goes
   out with the session.                                                    *)
LEMMA BuyFollows ==
    ASSUME MoneyFollowed, TypeOK', NEW k \in Calls, NEW o \in Orders, Buy(k, o)
    PROVE  MoneyFollowed'
<1>1. orders \in [Orders -> OrderRows] /\ call \in [Calls -> CallStates]
  BY DEF MoneyFollowed, TypeOK
<1>2. \A p \in Orders \ {o} : orders'[p] = orders[p]
  BY <1>1 DEF Buy
<1>3. orders'[o].status = "pending" /\ orders'[o].session = orders[o].session
  BY <1>1 DEF Buy, OrderRows
<1>4. /\ At(k, "buy.open", o)'
      /\ \A p \in Orders : \A phase \in Weighty :
            At(k, phase, p)' => p = o /\ phase = "buy.open"
      /\ \A l \in Calls \ {k} : call'[l] = call[l]
  BY <1>1 DEF Buy, Proceed, At, Weighty
<1>5. (\A l \in Calls : ~Buying(l, o)) /\ charge[o] = "none"
  BY DEF MoneyFollowed, BuyingIsWritten, Buy
<1>6. UNCHANGED <<charge, refund, inbox, handed>>
  BY DEF Buy, money
<1>7. SettledMeansCharged' /\ RefundedMeansReturned' /\ ChargedMeansAttached'
  BY <1>2, <1>3, <1>6 DEF MoneyFollowed, SettledMeansCharged,
     RefundedMeansReturned, ChargedMeansAttached
<1>8. OneBuyer'
  BY <1>4, <1>5 DEF MoneyFollowed, OneBuyer, Buying, At, Weighty
<1>9. BuyingIsWritten'
  BY <1>2, <1>3, <1>4, <1>5, <1>6
     DEF MoneyFollowed, BuyingIsWritten, Buying, At, Weighty
<1>10. HandedIsAttached'
  BY <1>2, <1>3, <1>6 DEF MoneyFollowed, HandedIsAttached, TypeOK
<1>11. SaidIsTrue'
  BY <1>4, <1>6 DEF MoneyFollowed, SaidIsTrue, At, Weighty
<1> QED BY <1>7, <1>8, <1>9, <1>10, <1>11 DEF MoneyFollowed

LEMMA OpenCheckoutFollows ==
    ASSUME MoneyFollowed, TypeOK', NEW k \in Calls, NEW o \in Orders,
           OpenCheckout(k, o)
    PROVE  MoneyFollowed'
<1>1. charge \in [Orders -> Charges] /\ call \in [Calls -> CallStates]
  BY DEF MoneyFollowed, TypeOK
<1>2. /\ charge'[o] = "open" /\ charge[o] = "none"
      /\ \A p \in Orders \ {o} : charge'[p] = charge[p]
  BY <1>1 DEF OpenCheckout, MoneyFollowed, BuyingIsWritten
<1>3. /\ \A p \in Orders : \A phase \in Weighty :
            At(k, phase, p)' => p = o /\ phase = "buy.attach"
      /\ \A l \in Calls \ {k} : call'[l] = call[l]
      /\ At(k, "buy.open", o)
  BY <1>1 DEF OpenCheckout, Proceed, At, Weighty
<1>4. /\ \A l \in Calls \ {k} : ~Buying(l, o)
      /\ orders[o].status \notin {"absent", "paid", "refunded"}
  BY <1>2, <1>3 DEF MoneyFollowed, OneBuyer, Buying, BuyingIsWritten,
     SettledMeansCharged
<1>5. UNCHANGED <<orders, refund, inbox, handed>>
  BY DEF OpenCheckout, table
<1>6. SettledMeansCharged' /\ RefundedMeansReturned' /\ ChargedMeansAttached'
  BY <1>2, <1>4, <1>5 DEF MoneyFollowed, SettledMeansCharged,
     RefundedMeansReturned, ChargedMeansAttached
<1>7. OneBuyer'
  BY <1>3, <1>4 DEF MoneyFollowed, OneBuyer, Buying, At, Weighty
<1>8. BuyingIsWritten'
  BY <1>2, <1>3, <1>4, <1>5 DEF MoneyFollowed, BuyingIsWritten, Buying, At, Weighty
<1>9. HandedIsAttached'
  BY <1>5 DEF MoneyFollowed, HandedIsAttached
<1>10. SaidIsTrue'
  <2>1. \A e \in inbox : e.session \in Orders
    BY DEF MoneyFollowed, TypeOK, Events
  <2> QED BY <1>2, <1>3, <1>5, <2>1 DEF MoneyFollowed, SaidIsTrue, At, Weighty
<1> QED BY <1>6, <1>7, <1>8, <1>9, <1>10 DEF MoneyFollowed

LEMMA AttachSessionFollows ==
    ASSUME MoneyFollowed, TypeOK', NEW k \in Calls, NEW o \in Orders,
           AttachSession(k, o)
    PROVE  MoneyFollowed'
<1>1. orders \in [Orders -> OrderRows] /\ call \in [Calls -> CallStates]
  BY DEF MoneyFollowed, TypeOK
<1>2. /\ \A p \in Orders : orders'[p].status = orders[p].status
      /\ \A p \in Orders : orders[p].session => orders'[p].session
      /\ orders'[o].session
  BY <1>1 DEF AttachSession, OrderRows
<1>3. NothingNew /\ UNCHANGED <<charge, refund, inbox>>
  BY <1>1, ReturnIsNothingNew DEF AttachSession, money
<1>4. SettledMeansCharged' /\ RefundedMeansReturned' /\ ChargedMeansAttached'
  BY <1>2, <1>3 DEF MoneyFollowed, SettledMeansCharged, RefundedMeansReturned,
     ChargedMeansAttached
<1>5. OneBuyer' /\ BuyingIsWritten'
  BY <1>2, <1>3 DEF MoneyFollowed, OneBuyer, BuyingIsWritten, Buying, NothingNew,
     Weighty
<1>6. HandedIsAttached'
  BY <1>2 DEF MoneyFollowed, HandedIsAttached, AttachSession, TypeOK
<1>7. SaidIsTrue'
  BY <1>3 DEF MoneyFollowed, SaidIsTrue, NothingNew, Weighty
<1> QED BY <1>4, <1>5, <1>6, <1>7 DEF MoneyFollowed

(* What a gateway does by itself: a charge leaves "open" only by a learner who
   was handed the URL, and "taken" never; an event says what has happened.  *)
LEMMA ChargeMoves ==
    ASSUME MoneyFollowed, TypeOK', NothingNew, NEW o \in Orders,
           charge[o] \notin {"none", "taken"}, charge'[o] # "none",
           \A p \in Orders \ {o} : charge'[p] = charge[p],
           orders[o].session,
           \A e \in inbox' \ inbox :
              /\ e.kind = "paid" => e.session = o /\ charge'[o] = "taken"
              /\ e.kind # "refunded",
           UNCHANGED <<orders, refund, handed>>
    PROVE  MoneyFollowed'
<1>1. SettledMeansCharged' /\ RefundedMeansReturned' /\ ChargedMeansAttached'
  BY DEF MoneyFollowed, SettledMeansCharged, RefundedMeansReturned,
         ChargedMeansAttached
<1>2. OneBuyer' /\ HandedIsAttached'
  BY DEF MoneyFollowed, OneBuyer, HandedIsAttached, Buying, NothingNew, Weighty
<1>3. BuyingIsWritten'
  BY DEF MoneyFollowed, BuyingIsWritten, Buying, NothingNew, Weighty
<1>4. SaidIsTrue'
  <2>1. \A e \in inbox : e.session \in Orders
    BY DEF MoneyFollowed, TypeOK, Events
  <2> QED BY <2>1 DEF MoneyFollowed, SaidIsTrue, NothingNew, Weighty
<1> QED BY <1>1, <1>2, <1>3, <1>4 DEF MoneyFollowed

LEMMA RefundMoves ==
    ASSUME MoneyFollowed, TypeOK', NothingNew, 
           \A p \in Orders : refund[p] # "none" => refund'[p] # "none",
           \A e \in inbox' \ inbox :
              /\ e.kind = "refunded" => refund'[e.order] # "none"
              /\ e.kind = "paid" => charge[e.session] = "taken",
           UNCHANGED <<orders, charge, handed>>
    PROVE  MoneyFollowed'
<1>1. SettledMeansCharged' /\ RefundedMeansReturned' /\ ChargedMeansAttached'
  BY DEF MoneyFollowed, SettledMeansCharged, RefundedMeansReturned,
         ChargedMeansAttached
<1>2. OneBuyer' /\ HandedIsAttached' /\ BuyingIsWritten'
  BY DEF MoneyFollowed, OneBuyer, HandedIsAttached, BuyingIsWritten, Buying,
         NothingNew, Weighty
<1>3. SaidIsTrue'
  <2>1. \A e \in inbox : e.order \in Orders
    BY DEF MoneyFollowed, TypeOK, Events
  <2> QED BY <2>1 DEF MoneyFollowed, SaidIsTrue, NothingNew, Weighty
<1> QED BY <1>1, <1>2, <1>3 DEF MoneyFollowed

LEMMA GatewayStepsFollow ==
    ASSUME MoneyFollowed, TypeOK', GatewaySteps
    PROVE  MoneyFollowed'
<1>1. PICK o \in Orders :
          \/ LearnerPays(o) \/ LearnerGivesUp(o) \/ BkashExecutes(o)
          \/ \E other \in Orders : EditMetadata(o, other)
          \/ RefundByHand(o) \/ GatewaySettlesRefund(o)
  BY DEF GatewaySteps
<1>2. /\ charge \in [Orders -> Charges] /\ refund \in [Orders -> Refunds]
      /\ handed \subseteq Orders
  BY DEF MoneyFollowed, TypeOK
<1>3. NothingNew /\ UNCHANGED <<orders, handed>>
  BY <1>1, UnchangedIsNothingNew DEF LearnerPays, LearnerGivesUp, BkashExecutes,
     EditMetadata, RefundByHand, GatewaySettlesRefund, table
<1>4. CASE LearnerPays(o) \/ LearnerGivesUp(o)
  <2>1. charge[o] = "open" /\ orders[o].session
    BY <1>2, <1>4 DEF LearnerPays, LearnerGivesUp, MoneyFollowed, HandedIsAttached
  <2>2. /\ charge'[o] # "none"
        /\ \A p \in Orders \ {o} : charge'[p] = charge[p]
        /\ \A e \in inbox' \ inbox :
              /\ e.kind = "paid" => e.session = o /\ charge'[o] = "taken"
              /\ e.kind # "refunded"
    BY <1>2, <1>4 DEF LearnerPays, LearnerGivesUp, Announce, EventOf
  <2>3. refund' = refund
    BY <1>4 DEF LearnerPays, LearnerGivesUp
  <2> QED BY <1>3, <2>1, <2>2, <2>3, ChargeMoves
<1>5. CASE BkashExecutes(o)
  <2>1. charge[o] = "executing" /\ orders[o].session
    BY <1>5 DEF BkashExecutes, MoneyFollowed, ChargedMeansAttached
  <2> QED BY <1>2, <1>3, <1>5, <2>1, ChargeMoves DEF BkashExecutes
<1>6. CASE \E other \in Orders : EditMetadata(o, other)
  BY <1>3, <1>6, RefundMoves DEF EditMetadata, money
<1>7. CASE RefundByHand(o) \/ GatewaySettlesRefund(o)
  BY <1>2, <1>3, <1>7, RefundMoves
     DEF RefundByHand, GatewaySettlesRefund, Announce, EventOf
<1> QED BY <1>1, <1>4, <1>5, <1>6, <1>7

(* A gateway's answer is carried into the call only as the gateway gave it. *)
LEMMA AnswerFollows ==
    ASSUME MoneyFollowed, TypeOK', NEW k \in Calls, NEW o \in Orders,
           NEW answer \in {"paid", "failed"},
           answer = "paid" => charge[o] = "taken",
           Proceed(k, "confirm.apply", o, answer),
           UNCHANGED <<orders, charge, refund, handed, inbox>>
    PROVE  MoneyFollowed'
<1>1. call \in [Calls -> CallStates]
  BY DEF MoneyFollowed, TypeOK
<1>2. /\ \A p \in Orders : \A phase \in Weighty :
            At(k, phase, p)' => p = o /\ phase = "confirm.apply"
      /\ \A l \in Calls \ {k} : call'[l] = call[l]
      /\ call'[k].answer = answer
  BY <1>1 DEF Proceed, At, Weighty
<1>3. SettledMeansCharged' /\ RefundedMeansReturned' /\ ChargedMeansAttached'
  BY DEF MoneyFollowed, SettledMeansCharged, RefundedMeansReturned,
         ChargedMeansAttached
<1>4. OneBuyer' /\ BuyingIsWritten' /\ HandedIsAttached'
  BY <1>2 DEF MoneyFollowed, OneBuyer, BuyingIsWritten, HandedIsAttached, Buying,
     At, Weighty
<1>5. SaidIsTrue'
  BY <1>2 DEF MoneyFollowed, SaidIsTrue, At, Weighty
<1> QED BY <1>3, <1>4, <1>5 DEF MoneyFollowed

LEMMA ConfirmingFollows ==
    ASSUME MoneyFollowed, TypeOK', NEW k \in Calls, NEW o \in Orders,
           \/ Confirm(k, o) \/ AskOutcome(k, o) \/ BkashExecute(k, o)
           \/ BkashExecuted(k, o) \/ BkashNotCompleted(k, o)
    PROVE  MoneyFollowed'
<1>1. call \in [Calls -> CallStates] /\ charge \in [Orders -> Charges]
  BY DEF MoneyFollowed, TypeOK
<1>2. CASE Confirm(k, o)
  <2>1. NothingNew
    BY <1>1, <1>2, ProceedIsNothingNew DEF Confirm, Phases, Weighty
  <2> QED BY <1>2, <2>1, QuietStep DEF Confirm, table, money
<1>3. CASE BkashExecute(k, o)
  <2>1. NothingNew
    BY <1>1, <1>3, ProceedIsNothingNew DEF BkashExecute, Phases, Weighty
  <2>2. orders[o].session
    BY <1>3 DEF BkashExecute, MoneyFollowed, ChargedMeansAttached
  <2> QED BY <1>1, <1>3, <2>1, <2>2, ChargeMoves DEF BkashExecute, table
<1>4. CASE AskOutcome(k, o) \/ BkashExecuted(k, o) \/ BkashNotCompleted(k, o)
  BY <1>4, AnswerFollows
     DEF AskOutcome, BkashExecuted, BkashNotCompleted, table, money
<1> QED BY <1>2, <1>3, <1>4

LEMMA AskRefundFollows ==
    ASSUME MoneyFollowed, TypeOK', NEW k \in Calls, NEW o \in Orders,
           AskRefund(k, o)
    PROVE  MoneyFollowed'
<1>1. call \in [Calls -> CallStates] /\ refund \in [Orders -> Refunds]
  BY DEF MoneyFollowed, TypeOK
<1>2. /\ refund'[o] # "none"
      /\ \A p \in Orders : refund[p] # "none" => refund'[p] # "none"
      /\ UNCHANGED <<orders, charge, handed, inbox>>
  BY <1>1 DEF AskRefund, RefundedBefore, table
<1>3. /\ \A p \in Orders : \A phase \in Weighty :
            At(k, phase, p)' => p = o /\ phase = "refund.write"
      /\ \A l \in Calls \ {k} : call'[l] = call[l]
  BY <1>1 DEF AskRefund, Proceed, At, Weighty
<1>4. SettledMeansCharged' /\ RefundedMeansReturned' /\ ChargedMeansAttached'
  BY <1>2 DEF MoneyFollowed, SettledMeansCharged, RefundedMeansReturned,
     ChargedMeansAttached
<1>5. OneBuyer' /\ BuyingIsWritten' /\ HandedIsAttached'
  BY <1>2, <1>3 DEF MoneyFollowed, OneBuyer, BuyingIsWritten, HandedIsAttached,
     Buying, At, Weighty
<1>6. SaidIsTrue'
  <2>1. \A e \in inbox : e.order \in Orders
    BY DEF MoneyFollowed, TypeOK, Events
  <2> QED BY <1>2, <1>3, <2>1 DEF MoneyFollowed, SaidIsTrue, At, Weighty
<1> QED BY <1>4, <1>5, <1>6 DEF MoneyFollowed

(* Every other step is quiet. *)
LEMMA QuietCallSteps ==
    ASSUME MoneyFollowed, TypeOK', NEW k \in Calls, NEW o \in Orders,
           \/ CutOff(k) \/ Refund(k, o) \/ RefundRefused(k, o)
           \/ RefundAlreadyWritten(k, o)
           \/ Chase(k, o) \/ AskRefundStatus(k, o) \/ RecordRefund(k, o)
           \/ CloseChase(k, o) \/ FailRun(k, o)
    PROVE  MoneyFollowed'
<1>1. call \in [Calls -> CallStates]
  BY DEF MoneyFollowed, TypeOK
<1>2. NothingNew
  BY <1>1, ReturnIsNothingNew, ProceedIsNothingNew
     DEF CutOff, Refund, RefundRefused, RefundAlreadyWritten, Chase, AskRefundStatus,
         RecordRefund, CloseChase, FailRun, Phases, Weighty
<1>3. UNCHANGED <<orders, charge, refund, handed, inbox>>
  BY DEF CutOff, Refund, RefundRefused, RefundAlreadyWritten, Chase, AskRefundStatus,
         RecordRefund, CloseChase, FailRun, table, money
<1> QED BY <1>2, <1>3, QuietStep

LEMMA QuietSteps ==
    ASSUME MoneyFollowed, TypeOK',
           \/ Pricing \/ JobSteps
           \/ \E s \in Seats :
                 \/ Grant(s) \/ GrantCourses(s) \/ Import(s)
                 \/ Reopen(s) \/ CancelSerially(s) \/ CompleteSerially(s)
    PROVE  MoneyFollowed'
<1>1. NothingNew
  BY UnchangedIsNothingNew DEF Pricing, SetPrice, ClearPrice, JobSteps,
     ReachCeiling, GiveUpChase, Grant, GrantCourses, Import, Reopen,
     CancelSerially, CompleteSerially
<1>2. UNCHANGED <<orders, charge, refund, handed, inbox>>
  BY DEF Pricing, SetPrice, ClearPrice, JobSteps, ReachCeiling, GiveUpChase,
     Grant, GrantCourses, Import, Reopen, CancelSerially,
     CompleteSerially, SetRow, table, money
<1> QED BY <1>1, <1>2, QuietStep

LEMMA StatementsFollow ==
    ASSUME MoneyFollowed, TypeOK', NEW k \in Calls, NEW s \in Seats,
           \/ Enrol(k, s) \/ UpsertEnrolment(k, s)
           \/ Cancel(k, s) \/ CancelEnrolment(k, s)
           \/ FinishLesson(k, s) \/ CompleteEnrolment(k, s)
    PROVE  MoneyFollowed'
<1>1. call \in [Calls -> CallStates]
  BY DEF MoneyFollowed, TypeOK
<1>2. NothingNew
  BY <1>1, ReturnIsNothingNew, ProceedIsNothingNew
     DEF Enrol, UpsertEnrolment, Cancel, CancelEnrolment, FinishLesson,
         CompleteEnrolment, Phases, Weighty
<1>3. UNCHANGED <<orders, charge, refund, handed, inbox>>
  BY DEF Enrol, UpsertEnrolment, Cancel, CancelEnrolment, FinishLesson,
         CompleteEnrolment, SetRow, table, money
<1> QED BY <1>2, <1>3, QuietStep

LEMMA InitFollows == Init => MoneyFollowed
<1> SUFFICES ASSUME Init PROVE MoneyFollowed
  OBVIOUS
<1> QED BY InitTyped DEF Init, MoneyFollowed, SettledMeansCharged,
     RefundedMeansReturned, ChargedMeansAttached, OneBuyer, BuyingIsWritten,
     HandedIsAttached, SaidIsTrue, Buying, At, Idle, NoOrder

LEMMA StepFollows ==
    MoneyFollowed /\ ([Next]_vars \/ [SerialNext]_vars) => MoneyFollowed'
<1> SUFFICES ASSUME MoneyFollowed, [Next]_vars \/ [SerialNext]_vars
             PROVE  MoneyFollowed'
  OBVIOUS
<1>1. TypeOK'
  BY StepTyped DEF MoneyFollowed
<1>2. CASE UNCHANGED vars
  BY <1>1, <1>2, QuietStep, UnchangedIsNothingNew DEF vars
<1>3. CASE CallSteps
  <2>1. PICK k \in Calls :
            \/ CutOff(k)
            \/ \E o \in Orders :
                \/ Buy(k, o) \/ OpenCheckout(k, o) \/ AttachSession(k, o)
                \/ Confirm(k, o) \/ AskOutcome(k, o) \/ BkashExecute(k, o)
                \/ BkashExecuted(k, o) \/ BkashNotCompleted(k, o)
                \/ ConfirmApply(k, o)
                \/ Refund(k, o) \/ AskRefund(k, o) \/ RefundRefused(k, o)
                \/ WriteRefund(k, o) \/ RefundAlreadyWritten(k, o)
                \/ Chase(k, o) \/ AskRefundStatus(k, o) \/ RecordRefund(k, o)
                \/ CloseChase(k, o) \/ FailRun(k, o)
    BY <1>3 DEF CallSteps
  <2>2. CASE CutOff(k)
    <3>1. NothingNew
      BY <2>2, ReturnIsNothingNew DEF CutOff, MoneyFollowed, TypeOK
    <3> QED BY <1>1, <2>2, <3>1, QuietStep DEF CutOff, table, money
  <2> QED BY <1>1, <2>1, <2>2, BuyFollows, OpenCheckoutFollows,
       AttachSessionFollows, ConfirmingFollows, ConfirmApplyFollows,
       AskRefundFollows, WriteRefundFollows, QuietCallSteps
<1>4. CASE GatewaySteps
  BY <1>1, <1>4, GatewayStepsFollow
<1>5. CASE \E e \in inbox : Deliver(e)
  BY <1>1, <1>5, DeliverFollows
<1>6. CASE \E k \in Calls : \E s \in Seats :
              \/ Enrol(k, s) \/ UpsertEnrolment(k, s)
              \/ Cancel(k, s) \/ CancelEnrolment(k, s)
              \/ FinishLesson(k, s) \/ CompleteEnrolment(k, s)
  BY <1>1, <1>6, StatementsFollow
<1> QED BY <1>1, <1>2, <1>3, <1>4, <1>5, <1>6, QuietSteps
     DEF Next, SerialNext, Sales

(* However requests interleave, are cut off or repeated, and however events
   are delayed, repeated or pointed at other orders, the money is followed.  *)
THEOREM MoneyIsFollowed == Spec => []MoneyFollowed
BY InitFollows, StepFollows, PTL DEF Spec

THEOREM SerialMoneyIsFollowed == SerialSpec => []MoneyFollowed
BY InitFollows, StepFollows, PTL DEF SerialSpec

(* An order paid is one whose money the gateway took, an order refunded one whose
   refund it agreed to, and nobody pays on a checkout the order does not know. *)
THEOREM MoneyReal == Spec => []MoneyIsReal
BY MoneyIsFollowed, PTL DEF MoneyFollowed, MoneyIsReal

-----------------------------------------------------------------------------
(* An order's status only ever moves forward. *)

Forward ==
    \A o \in Orders :
        \/ orders'[o].status = orders[o].status
        \/ orders[o].status = "absent" /\ orders'[o].status = "pending"
        \/ orders[o].status = "pending" /\ orders'[o].status \in {"paid", "failed"}
        \/ orders[o].status = "paid" /\ orders'[o].status = "refunded"

LEMMA MarkIsForward ==
    ASSUME TypeOK, NEW o \in Orders, NEW ref \in BOOLEAN,
           \/ MarkPaid(o, ref) /\ Moves(o, "paid")
           \/ MarkFailed(o) /\ Moves(o, "failed")
           \/ MarkRefunded(o, ref) /\ Moves(o, "refunded")
    PROVE  Forward
<1>1. orders \in [Orders -> OrderRows]
  BY DEF TypeOK
<1>2. \A p \in Orders \ {o} : orders'[p] = orders[p]
  BY <1>1 DEF MarkPaid, MarkFailed, MarkRefunded
<1>3. \/ orders[o].status = "pending" /\ orders'[o].status \in {"paid", "failed"}
      \/ orders[o].status = "paid" /\ orders'[o].status = "refunded"
  BY <1>1 DEF MarkPaid, MarkFailed, MarkRefunded, Moves, OrderRows
<1> QED BY <1>2, <1>3 DEF Forward

LEMMA StepIsForward == TypeOK /\ ([Next]_vars \/ [SerialNext]_vars) => Forward
<1> SUFFICES ASSUME TypeOK, [Next]_vars \/ [SerialNext]_vars PROVE Forward
  OBVIOUS
<1>1. orders \in [Orders -> OrderRows]
  BY DEF TypeOK
<1>2. CASE UNCHANGED orders
  BY <1>2 DEF Forward
<1>3. ASSUME NEW k \in Calls, NEW o \in Orders, Buy(k, o) PROVE Forward
  BY <1>1, <1>3 DEF Buy, Forward, OrderRows
<1>4. ASSUME NEW k \in Calls, NEW o \in Orders, AttachSession(k, o) PROVE Forward
  BY <1>1, <1>4 DEF AttachSession, Forward, OrderRows
<1>5. ASSUME NEW o \in Orders, NEW kind, Apply(kind, o) PROVE Forward
  <2>1. CASE UNCHANGED table
    BY <1>2, <2>1 DEF table
  <2>2. ASSUME NEW id \in BOOLEAN, MarkPaid(o, id), Moves(o, "paid") PROVE Forward
    BY <2>2, MarkIsForward
  <2>3. CASE \/ MarkFailed(o) /\ Moves(o, "failed")
             \/ MarkRefunded(o, FALSE) /\ Moves(o, "refunded")
    BY <2>3, MarkIsForward
  <2> QED BY <1>5, <2>1, <2>2, <2>3, PaymentIdsAreBoolean DEF Apply
<1>6. ASSUME NEW k \in Calls, NEW o \in Orders, WriteRefund(k, o) PROVE Forward
  <2>1. \E ref \in BOOLEAN : MarkRefunded(o, ref)
    BY <1>6 DEF WriteRefund
  <2> QED BY <1>6, <2>1, MarkIsForward DEF WriteRefund
<1>7. CASE CallSteps
  <2>1. ASSUME NEW k \in Calls, NEW o \in Orders, ConfirmApply(k, o) PROVE Forward
    BY <1>5, <2>1 DEF ConfirmApply
  <2>2. ASSUME NEW k \in Calls, NEW o \in Orders,
               \/ CutOff(k) \/ OpenCheckout(k, o)
               \/ Confirm(k, o) \/ AskOutcome(k, o) \/ BkashExecute(k, o)
               \/ BkashExecuted(k, o) \/ BkashNotCompleted(k, o)
               \/ Refund(k, o) \/ AskRefund(k, o) \/ RefundRefused(k, o)
               \/ RefundAlreadyWritten(k, o)
               \/ Chase(k, o) \/ AskRefundStatus(k, o) \/ RecordRefund(k, o)
               \/ CloseChase(k, o) \/ FailRun(k, o)
        PROVE  UNCHANGED orders
    BY <2>2 DEF CutOff, OpenCheckout, Confirm, AskOutcome, BkashExecute,
       BkashExecuted, BkashNotCompleted, Refund, AskRefund,
       RefundRefused, RefundAlreadyWritten, Chase, AskRefundStatus, RecordRefund, CloseChase,
       FailRun, table
  <2>3. ASSUME NEW k \in Calls, CutOff(k) PROVE UNCHANGED orders
    BY <2>3 DEF CutOff, table
  <2> QED BY <1>2, <1>3, <1>4, <1>6, <1>7, <2>1, <2>2, <2>3 DEF CallSteps
<1>8. CASE GatewaySteps
  <2>1. UNCHANGED orders
    BY <1>8 DEF GatewaySteps, LearnerPays, LearnerGivesUp, BkashExecutes,
       EditMetadata, RefundByHand, GatewaySettlesRefund, table
  <2> QED BY <1>2, <2>1
<1>9. CASE \E e \in inbox : Deliver(e)
  <2>1. \A e \in inbox : e.order \in Orders
    BY DEF TypeOK, Events
  <2> QED BY <1>5, <1>9, <2>1 DEF Deliver
<1>10. CASE Pricing \/ JobSteps
  BY <1>2, <1>10 DEF Pricing, SetPrice, ClearPrice, JobSteps, ReachCeiling,
     GiveUpChase, table
<1>11. ASSUME NEW s \in Seats,
              \/ Grant(s) \/ GrantCourses(s) \/ Import(s) \/ Reopen(s)
              \/ CancelSerially(s) \/ CompleteSerially(s)
       PROVE  UNCHANGED orders
  BY <1>11 DEF Grant, GrantCourses, Import, Reopen, CancelSerially,
     CompleteSerially, SetRow
<1>12. ASSUME NEW k \in Calls, NEW s \in Seats,
              \/ Enrol(k, s) \/ UpsertEnrolment(k, s)
              \/ Cancel(k, s) \/ CancelEnrolment(k, s)
              \/ FinishLesson(k, s) \/ CompleteEnrolment(k, s)
       PROVE  UNCHANGED orders
  BY <1>12 DEF Enrol, UpsertEnrolment, Cancel, CancelEnrolment, FinishLesson,
     CompleteEnrolment, SetRow, table
<1>13. CASE UNCHANGED vars
  BY <1>2, <1>13 DEF vars
<1>14. CASE \E s \in Seats :
              \/ Grant(s) \/ GrantCourses(s) \/ Import(s) \/ Reopen(s)
              \/ CancelSerially(s) \/ CompleteSerially(s)
  BY <1>2, <1>11, <1>14
<1>15. CASE \E k \in Calls : \E s \in Seats :
              \/ Enrol(k, s) \/ UpsertEnrolment(k, s)
              \/ Cancel(k, s) \/ CancelEnrolment(k, s)
              \/ FinishLesson(k, s) \/ CompleteEnrolment(k, s)
  BY <1>2, <1>12, <1>15
<1> QED BY <1>7, <1>8, <1>9, <1>10, <1>13, <1>14, <1>15 DEF Next, SerialNext, Sales

(* No event, however late or often delivered, takes an order out of a terminal
   status, nor out of paid but by a refund.                                 *)
THEOREM TerminalIsKept == Spec => TerminalStays
<1> DEFINE Kept ==
        \A o \in Orders :
            LET before == orders[o].status
                after  == orders'[o].status
            IN  /\ before \in {"failed", "refunded"} => after = before
                /\ before = "paid" => after \in {"paid", "refunded"}
                /\ before = "pending" => after # "absent"
<1>1. TypeOK /\ [Next]_vars => [Kept]_orders
  BY StepIsForward DEF Forward
<1>2. Spec => [][Kept]_orders
  BY <1>1, TypeCorrect, PTL DEF Spec
<1> QED BY <1>2 DEF TerminalStays

-----------------------------------------------------------------------------
(* An accepted refund is chased until it is answered, the ceiling is reached or
   the job has failed as often as it may.                                   *)

(* No worker is about to close a job that was not so before. *)
NoneCloses ==
    \A k \in Calls : \A o \in Orders :
        At(k, "chase.close", o)' => At(k, "chase.close", o)

LEMMA ReturnClosesNone ==
    ASSUME call \in [Calls -> CallStates], NEW k \in Calls, Return(k)
    PROVE  NoneCloses
BY DEF NoneCloses, Return, Idle, At

LEMMA ProceedClosesNone ==
    ASSUME call \in [Calls -> CallStates], NEW k \in Calls,
           NEW phase \in Phases \ {"chase.close"}, NEW x, NEW answer,
           Proceed(k, phase, x, answer)
    PROVE  NoneCloses
BY DEF NoneCloses, Proceed, At

LEMMA UnchangedClosesNone == UNCHANGED call => NoneCloses
BY DEF NoneCloses, At

(* What is refunded stays so, with the id it has or has not, and nothing is
   refunded that would have to be chased.                                   *)
RefundsStand ==
    \A o \in Orders :
        /\ orders[o].status = "refunded" =>
              orders'[o].status = "refunded" /\ orders'[o].refund = orders[o].refund
        /\ GatewayOf[o] \in RefundConfirmers /\ orders'[o].status = "refunded"
              => orders[o].status = "refunded"

(* Such a step breaks nothing, if it queues no job and drops none. *)
LEMMA ChaseStays ==
    ASSUME ChaseKept, NoneCloses, RefundsStand, trail \subseteq trail',
           UNCHANGED jobs, polls \subseteq Orders,
           \A e \in inbox' :
              e.kind = "refunded" => e \in inbox \/ GatewayOf[e.order] \in Webhookers
    PROVE  ChaseKept'
<1>1. \A o \in Orders : Answered(o) => Answered(o)'
  BY DEF Answered
<1>2. UNCHANGED <<polls, overdue, failures>>
  BY DEF jobs
<1>3. RefundIsChased'
  BY <1>1, <1>2 DEF ChaseKept, RefundIsChased, RefundsStand
<1>4. \A k \in Calls : \A o \in Orders : At(k, "chase.close", o)' =>
          Answered(o)' \/ (orders'[o].status = "refunded" /\ ~orders'[o].refund)
  BY <1>1 DEF ChaseKept, NoneCloses, RefundsStand
<1>5. \A o \in polls' : orders'[o].status = "refunded"
  BY <1>2 DEF ChaseKept, RefundsStand
<1> QED BY <1>3, <1>4, <1>5 DEF ChaseKept

LEMMA UnchangedRefundsStand == UNCHANGED orders => RefundsStand
BY DEF RefundsStand

(* What a transaction that settles an order leaves of the others. *)
LEMMA MarkRefundsStand ==
    ASSUME TypeOK, NEW o \in Orders, NEW ref \in BOOLEAN,
           \/ MarkPaid(o, ref) /\ Moves(o, "paid")
           \/ MarkFailed(o) /\ Moves(o, "failed")
           \/ /\ MarkRefunded(o, ref) /\ Moves(o, "refunded")
              /\ GatewayOf[o] \notin RefundConfirmers
    PROVE  trail \subseteq trail' /\ RefundsStand
<1>1. orders \in [Orders -> OrderRows]
  BY DEF TypeOK
<1>2. \A p \in Orders \ {o} : orders'[p] = orders[p]
  BY <1>1 DEF MarkPaid, MarkFailed, MarkRefunded
<1>3. orders[o].status # "refunded"
  BY DEF Moves
<1>4. GatewayOf[o] \in RefundConfirmers => orders'[o].status # "refunded"
  BY <1>1 DEF MarkPaid, MarkFailed, OrderRows
<1>5. trail \subseteq trail'
  BY DEF MarkPaid, MarkFailed, MarkRefunded
<1> QED BY <1>2, <1>3, <1>4, <1>5 DEF RefundsStand

LEMMA ApplyRefundsStand ==
    ASSUME TypeOK, NEW o \in Orders, NEW kind, Apply(kind, o),
           kind = "refunded" => GatewayOf[o] \in Webhookers
    PROVE  trail \subseteq trail' /\ RefundsStand
<1>1. CASE UNCHANGED table
  BY <1>1, UnchangedRefundsStand DEF table
<1>2. ASSUME NEW id \in BOOLEAN, MarkPaid(o, id), Moves(o, "paid")
      PROVE  trail \subseteq trail' /\ RefundsStand
  BY <1>2, MarkRefundsStand
<1>3. CASE MarkFailed(o) /\ Moves(o, "failed")
  BY <1>3, MarkRefundsStand
<1>4. CASE kind = "refunded" /\ MarkRefunded(o, FALSE) /\ Moves(o, "refunded")
  <2>1. GatewayOf[o] \notin RefundConfirmers
    BY <1>4 DEF Webhookers, RefundConfirmers
  <2> QED BY <1>4, <2>1, MarkRefundsStand
<1> QED BY <1>1, <1>2, <1>3, <1>4, PaymentIdsAreBoolean DEF Apply

(* The calls that buy, ask the gateways or apply what they say. *)
LEMMA SellingChases ==
    ASSUME MoneyFollowed, ChaseKept, NEW k \in Calls, NEW o \in Orders,
           \/ Buy(k, o) \/ OpenCheckout(k, o) \/ AttachSession(k, o)
           \/ Confirm(k, o) \/ AskOutcome(k, o) \/ BkashExecute(k, o)
           \/ BkashExecuted(k, o) \/ BkashNotCompleted(k, o)
           \/ ConfirmApply(k, o)
           \/ Refund(k, o) \/ AskRefund(k, o) \/ RefundRefused(k, o)
           \/ RefundAlreadyWritten(k, o)
    PROVE  ChaseKept'
<1>1. /\ TypeOK /\ orders \in [Orders -> OrderRows] /\ polls \subseteq Orders
      /\ call \in [Calls -> CallStates]
  BY DEF MoneyFollowed, TypeOK
<1>2. NoneCloses
  BY <1>1, ReturnClosesNone, ProceedClosesNone
     DEF Buy, OpenCheckout, AttachSession, Confirm, AskOutcome, BkashExecute,
         BkashExecuted, BkashNotCompleted, ConfirmApply, Refund, AskRefund,
         RefundRefused, RefundAlreadyWritten, Phases
<1>3. UNCHANGED <<jobs, inbox>>
  BY DEF Buy, OpenCheckout, AttachSession, Confirm, AskOutcome, BkashExecute,
     BkashExecuted, BkashNotCompleted, ConfirmApply, Refund, AskRefund,
     RefundRefused, RefundAlreadyWritten
<1>4. trail \subseteq trail' /\ RefundsStand
  <2>1. CASE Buy(k, o)
    <3>1. /\ orders[o].status = "absent" /\ orders'[o].status = "pending"
          /\ \A p \in Orders \ {o} : orders'[p] = orders[p]
      BY <1>1, <2>1 DEF Buy, OrderRows
    <3> QED BY <2>1, <3>1 DEF Buy, RefundsStand
  <2>2. CASE AttachSession(k, o)
    <3>1. \A p \in Orders : /\ orders'[p].status = orders[p].status
                            /\ orders'[p].refund = orders[p].refund
      BY <1>1, <2>2 DEF AttachSession, OrderRows
    <3> QED BY <2>2, <3>1 DEF AttachSession, RefundsStand
  <2>3. CASE ConfirmApply(k, o)
    <3>1. call[k].answer # "refunded"
      BY <2>3 DEF ConfirmApply, MoneyFollowed, SaidIsTrue
    <3> QED BY <1>1, <2>3, <3>1, ApplyRefundsStand DEF ConfirmApply
  <2>4. CASE \/ OpenCheckout(k, o) \/ Confirm(k, o) \/ AskOutcome(k, o)
             \/ BkashExecute(k, o) \/ BkashExecuted(k, o) \/ BkashNotCompleted(k, o)
             \/ Refund(k, o) \/ AskRefund(k, o) \/ RefundRefused(k, o)
             \/ RefundAlreadyWritten(k, o)
    BY <2>4, UnchangedRefundsStand DEF OpenCheckout, Confirm, AskOutcome, BkashExecute,
       BkashExecuted, BkashNotCompleted, Refund, AskRefund, RefundRefused,
       RefundAlreadyWritten, table
  <2> QED BY <2>1, <2>2, <2>3, <2>4
<1> QED BY <1>1, <1>2, <1>3, <1>4, ChaseStays DEF ChaseKept

(* The refund that is written queues its job in the same transaction. *)
LEMMA WriteRefundChases ==
    ASSUME TypeOK, ChaseKept, NEW k \in Calls, NEW o \in Orders, WriteRefund(k, o)
    PROVE  ChaseKept'
<1>1. /\ orders \in [Orders -> OrderRows] /\ polls \subseteq Orders
      /\ call \in [Calls -> CallStates]
  BY DEF TypeOK
<1>2. /\ orders[o].status = "paid" /\ orders'[o].status = "refunded"
      /\ \A p \in Orders \ {o} : orders'[p] = orders[p]
  BY <1>1 DEF WriteRefund, MarkRefunded, Moves, OrderRows
<1>3. /\ polls \subseteq polls' /\ polls' \subseteq polls \cup {o}
      /\ GatewayOf[o] \in RefundConfirmers => o \in polls'
      /\ UNCHANGED <<inbox, overdue, failures>>
  BY DEF WriteRefund
<1>4. \A p \in Orders : Answered(p) => Answered(p)'
  BY DEF WriteRefund, MarkRefunded, Answered
<1>5. NoneCloses
  BY <1>1, ReturnClosesNone DEF WriteRefund
<1>6. RefundIsChased'
  BY <1>2, <1>3, <1>4 DEF ChaseKept, RefundIsChased
<1>7. \A p \in polls' : orders'[p].status = "refunded"
  BY <1>1, <1>2, <1>3 DEF ChaseKept
<1>8. \A l \in Calls : \A p \in Orders : At(l, "chase.close", p)' =>
          Answered(p)' \/ (orders'[p].status = "refunded" /\ ~orders'[p].refund)
  <2> SUFFICES ASSUME NEW l \in Calls, NEW p \in Orders, At(l, "chase.close", p)'
               PROVE  Answered(p)' \/ (orders'[p].status = "refunded" /\ ~orders'[p].refund)
    OBVIOUS
  <2>1. Answered(p) \/ (orders[p].status = "refunded" /\ ~orders[p].refund)
    BY <1>5 DEF ChaseKept, NoneCloses
  <2> QED BY <1>2, <1>4, <2>1
<1> QED BY <1>3, <1>6, <1>7, <1>8 DEF ChaseKept

(* The chase itself: a worker records what it was told before it closes, and a
   run that fails leaves the job waiting or counts the last failure it may.  *)
LEMMA ChasingChases ==
    ASSUME TypeOK, ChaseKept, NEW k \in Calls, NEW o \in Orders,
           \/ Chase(k, o) \/ AskRefundStatus(k, o) \/ RecordRefund(k, o)
           \/ CloseChase(k, o) \/ FailRun(k, o)
    PROVE  ChaseKept'
<1>1. /\ polls \subseteq Orders /\ call \in [Calls -> CallStates]
      /\ failures \in [Orders -> Nat]
  BY DEF TypeOK
<1>2. UNCHANGED <<orders, overdue, inbox>>
  BY DEF Chase, AskRefundStatus, RecordRefund, CloseChase, FailRun, jobs, table
<1>3. \A p \in Orders : Answered(p) => Answered(p)'
  BY DEF Chase, AskRefundStatus, RecordRefund, CloseChase, FailRun, Answered, table
<1>4. CASE Chase(k, o)
  <2>1. UNCHANGED <<trail, polls, failures>> /\ orders[o].status = "refunded"
    BY <1>4 DEF Chase, ChaseKept, table, jobs
  <2>2. \A l \in Calls : \A p \in Orders : At(l, "chase.close", p)' =>
            At(l, "chase.close", p) \/ (p = o /\ ~orders[o].refund)
    BY <1>1, <1>4, <2>1 DEF Chase, Proceed, At
  <2>3. RefundIsChased'
    BY <1>2, <1>3, <2>1 DEF ChaseKept, RefundIsChased
  <2>4. \A l \in Calls : \A p \in Orders : At(l, "chase.close", p)' =>
            Answered(p)' \/ (orders'[p].status = "refunded" /\ ~orders'[p].refund)
    BY <1>2, <1>3, <2>1, <2>2 DEF ChaseKept
  <2> QED BY <1>2, <2>1, <2>3, <2>4 DEF ChaseKept
<1>5. CASE AskRefundStatus(k, o)
  <2>1. NoneCloses
    BY <1>1, <1>5, ReturnClosesNone, ProceedClosesNone DEF AskRefundStatus, Phases
  <2> QED BY <1>1, <1>2, <1>5, <2>1, ChaseStays, UnchangedRefundsStand
       DEF AskRefundStatus, ChaseKept, table
<1>6. CASE RecordRefund(k, o)
  <2>1. Answered(o)'
    BY <1>6 DEF RecordRefund, Answered
  <2>2. \A l \in Calls : \A p \in Orders :
            At(l, "chase.close", p)' => At(l, "chase.close", p) \/ p = o
    BY <1>1, <1>6 DEF RecordRefund, Proceed, At
  <2>3. UNCHANGED <<polls, failures>>
    BY <1>6 DEF RecordRefund, jobs
  <2>4. RefundIsChased'
    BY <1>2, <1>3, <2>3 DEF ChaseKept, RefundIsChased
  <2>5. \A l \in Calls : \A p \in Orders : At(l, "chase.close", p)' =>
            Answered(p)' \/ (orders'[p].status = "refunded" /\ ~orders'[p].refund)
    BY <1>2, <1>3, <2>1, <2>2 DEF ChaseKept
  <2> QED BY <1>2, <2>3, <2>4, <2>5 DEF ChaseKept
<1>7. CASE CloseChase(k, o) \/ FailRun(k, o)
  <2>1. NoneCloses
    BY <1>1, <1>7, ReturnClosesNone DEF CloseChase, FailRun
  <2>2. /\ polls' \subseteq polls /\ polls \subseteq polls' \cup {o}
        /\ \A p \in Orders : failures[p] >= ChaseAttempts => failures'[p] >= ChaseAttempts
        /\ \/ o \in polls' \/ o \notin polls \/ failures'[o] >= ChaseAttempts
           \/ At(k, "chase.close", o)
    BY <1>1, <1>7, ChaseAssumption DEF CloseChase, FailRun
  <2>3. RefundIsChased'
    <3> SUFFICES ASSUME NEW p \in Orders, orders[p].status = "refunded",
                        orders[p].refund, GatewayOf[p] \in RefundConfirmers
                 PROVE  \/ p \in polls' \/ Answered(p)'
                        \/ p \in overdue \/ failures'[p] >= ChaseAttempts
      BY <1>2 DEF RefundIsChased
    <3>1. \/ p \in polls \/ Answered(p) \/ p \in overdue \/ failures[p] >= ChaseAttempts
      BY DEF ChaseKept, RefundIsChased
    <3>2. CASE p = o /\ At(k, "chase.close", o)
      BY <1>3, <3>2 DEF ChaseKept
    <3> QED BY <1>3, <2>2, <3>1, <3>2
  <2>4. \A l \in Calls : \A p \in Orders : At(l, "chase.close", p)' =>
            Answered(p)' \/ (orders'[p].status = "refunded" /\ ~orders'[p].refund)
    BY <1>2, <1>3, <2>1 DEF ChaseKept, NoneCloses
  <2> QED BY <1>2, <2>2, <2>3, <2>4 DEF ChaseKept
<1> QED BY <1>4, <1>5, <1>6, <1>7

LEMMA StepChases ==
    MoneyFollowed /\ ChaseKept /\ ([Next]_vars \/ [SerialNext]_vars) => ChaseKept'
<1> SUFFICES ASSUME MoneyFollowed, ChaseKept, [Next]_vars \/ [SerialNext]_vars
             PROVE  ChaseKept'
  OBVIOUS
<1>1. /\ TypeOK /\ polls \subseteq Orders /\ inbox \subseteq Events
      /\ call \in [Calls -> CallStates]
  BY DEF MoneyFollowed, TypeOK
<1>2. CASE CallSteps
  <2>1. ASSUME NEW k \in Calls, CutOff(k) PROVE ChaseKept'
    <3>1. NoneCloses
      BY <1>1, <2>1, ReturnClosesNone DEF CutOff
    <3> QED BY <1>1, <2>1, <3>1, ChaseStays, UnchangedRefundsStand
         DEF CutOff, ChaseKept, table
  <2> QED BY <1>1, <1>2, <2>1, SellingChases, WriteRefundChases, ChasingChases
       DEF CallSteps
<1>3. CASE GatewaySteps
  <2>1. /\ UNCHANGED <<orders, trail, jobs, call>>
        /\ \A e \in inbox' : e.kind = "refunded" =>
              e \in inbox \/ GatewayOf[e.order] \in Webhookers
    BY <1>3 DEF GatewaySteps, LearnerPays, LearnerGivesUp, BkashExecutes,
       EditMetadata, RefundByHand, GatewaySettlesRefund, Announce, EventOf,
       table, Webhookers
  <2> QED BY <1>1, <2>1, ChaseStays, UnchangedRefundsStand, UnchangedClosesNone
<1>4. CASE \E e \in inbox : Deliver(e)
  <2>1. PICK e \in inbox : Deliver(e)
    BY <1>4
  <2>2. e.order \in Orders /\ (e.kind = "refunded" => GatewayOf[e.order] \in Webhookers)
    BY <1>1 DEF ChaseKept, Events
  <2>3. trail \subseteq trail' /\ RefundsStand
    BY <1>1, <2>1, <2>2, ApplyRefundsStand DEF Deliver
  <2>4. UNCHANGED <<jobs, call>> /\ inbox' \subseteq inbox
    BY <2>1 DEF Deliver
  <2> QED BY <1>1, <2>3, <2>4, ChaseStays, UnchangedClosesNone
<1>5. ASSUME NEW o \in Orders, ReachCeiling(o) \/ GiveUpChase(o) PROVE ChaseKept'
  <2>1. UNCHANGED <<orders, trail, failures, call, inbox>>
    BY <1>5 DEF ReachCeiling, GiveUpChase, table
  <2>2. \A p \in Orders : p \in polls \/ p \in overdue => p \in polls' \/ p \in overdue'
    BY <1>5 DEF ReachCeiling, GiveUpChase
  <2>3. polls' \subseteq polls
    BY <1>5 DEF ReachCeiling, GiveUpChase
  <2>4. \A p \in Orders : Answered(p)' <=> Answered(p)
    BY <2>1 DEF Answered
  <2>5. RefundIsChased'
    BY <2>1, <2>2, <2>4 DEF ChaseKept, RefundIsChased
  <2>6. \A k \in Calls : \A p \in Orders : At(k, "chase.close", p)' =>
            Answered(p)' \/ (orders'[p].status = "refunded" /\ ~orders'[p].refund)
    BY <2>1, <2>4 DEF ChaseKept, At
  <2> QED BY <2>1, <2>3, <2>5, <2>6 DEF ChaseKept
<1>6. CASE Pricing
  BY <1>1, <1>6, ChaseStays, UnchangedRefundsStand, UnchangedClosesNone
     DEF Pricing, SetPrice, ClearPrice, table
<1>7. ASSUME NEW s \in Seats,
             \/ Grant(s) \/ GrantCourses(s) \/ Import(s) \/ Reopen(s)
             \/ CancelSerially(s) \/ CompleteSerially(s)
      PROVE  ChaseKept'
  <2>1. UNCHANGED <<orders, trail, jobs, call, inbox>>
    BY <1>7 DEF Grant, GrantCourses, Import, Reopen, CancelSerially,
       CompleteSerially, SetRow
  <2> QED BY <1>1, <2>1, ChaseStays, UnchangedRefundsStand, UnchangedClosesNone
<1>8. ASSUME NEW k \in Calls, NEW s \in Seats,
             \/ Enrol(k, s) \/ UpsertEnrolment(k, s)
             \/ Cancel(k, s) \/ CancelEnrolment(k, s)
             \/ FinishLesson(k, s) \/ CompleteEnrolment(k, s)
      PROVE  ChaseKept'
  <2>1. UNCHANGED <<orders, trail, jobs, inbox>>
    BY <1>8 DEF Enrol, UpsertEnrolment, Cancel, CancelEnrolment, FinishLesson,
       CompleteEnrolment, SetRow, table
  <2>2. NoneCloses
    BY <1>1, <1>8, ReturnClosesNone, ProceedClosesNone
       DEF Enrol, UpsertEnrolment, Cancel, CancelEnrolment, FinishLesson,
           CompleteEnrolment, Phases
  <2> QED BY <1>1, <2>1, <2>2, ChaseStays, UnchangedRefundsStand
<1>9. CASE UNCHANGED vars
  BY <1>1, <1>9, ChaseStays, UnchangedRefundsStand, UnchangedClosesNone DEF vars, jobs
<1>10. CASE JobSteps
  BY <1>5, <1>10 DEF JobSteps
<1>11. CASE \E s \in Seats :
              \/ Grant(s) \/ GrantCourses(s) \/ Import(s) \/ Reopen(s)
              \/ CancelSerially(s) \/ CompleteSerially(s)
  BY <1>7, <1>11
<1>12. CASE \E k \in Calls : \E s \in Seats :
              \/ Enrol(k, s) \/ UpsertEnrolment(k, s)
              \/ Cancel(k, s) \/ CancelEnrolment(k, s)
              \/ FinishLesson(k, s) \/ CompleteEnrolment(k, s)
  BY <1>8, <1>12
<1> QED BY <1>2, <1>3, <1>4, <1>6, <1>9, <1>10, <1>11, <1>12 DEF Next, SerialNext, Sales

(* A refund the gateway has only accepted, and gave an id for, keeps its job
   until the answer is in the trail, the job is past its ceiling, or as many of
   its runs have failed as the queue allows: no snooze, no repeated request and
   no request that is cut off lets go of it sooner.                         *)
THEOREM RefundsAreChased == Spec => []RefundIsChased
<1>1. Init => ChaseKept
  BY DEF Init, ChaseKept, RefundIsChased, NoOrder, Idle, At
<1>2. ChaseKept => RefundIsChased
  BY DEF ChaseKept
<1> QED BY <1>1, <1>2, StepChases, MoneyIsFollowed, PTL DEF Spec

-----------------------------------------------------------------------------
(* The sale, run serially, implements the abstract shop: every transaction is
   one of the shop's steps or invisible to it.                              *)

(* A row statement on one seat changes the access and the label of that seat
   alone.                                                                   *)
LEMMA RowView ==
    ASSUME TypeOK, NEW s \in Seats, NEW row \in Rows,
           enrolments' = [enrolments EXCEPT ![s] = row]
    PROVE  /\ Access' = IF Live(row) THEN Access \cup {s} ELSE Access \ {s}
           /\ Bought' = IF row.source = "purchase"
                        THEN Bought \cup {s} ELSE Bought \ {s}
<1>1. enrolments \in [Seats -> Rows]
  BY DEF TypeOK
<1>2. enrolments'[s] = row /\ \A t \in Seats \ {s} : enrolments'[t] = enrolments[t]
  BY <1>1
<1>3. Access' = IF Live(row) THEN Access \cup {s} ELSE Access \ {s}
  BY <1>2 DEF Access, Live
<1>4. Bought' = IF row.source = "purchase" THEN Bought \cup {s} ELSE Bought \ {s}
  BY <1>2 DEF Bought
<1> QED BY <1>3, <1>4

(* Nothing the shop can see has happened. *)
Hidden == UNCHANGED <<Sale, Access, Bought>>

LEMMA UnseenIsHidden ==
    ASSUME UNCHANGED enrolments,
           \A p \in Orders : orders'[p].status = orders[p].status
    PROVE  Hidden
<1>1. Access' = Access /\ Bought' = Bought
  BY DEF Access, Bought
<1> QED BY <1>1 DEF Hidden, Sale

(* The three settlements are the shop's three decisions. *)
LEMMA PaidSells ==
    ASSUME TypeOK, NEW o \in Orders, NEW id \in BOOLEAN,
           MarkPaid(o, id), Moves(o, "paid")
    PROVE  Abstract!Sell(o)
<1> DEFINE s == SeatOf[o]
           row == Upserted(enrolments[s], "purchase")
<1>1. s \in Seats /\ enrolments[s] \in Rows /\ orders \in [Orders -> OrderRows]
  BY SeatAssumption DEF TypeOK
<1>2. row \in Rows /\ Live(row) /\ row.source = "purchase"
  BY <1>1, RowsClosed DEF Sources, Upserted, KeptSource, Live
<1>3. Access' = Access \cup {s} /\ Bought' = Bought \cup {s}
  BY <1>1, <1>2, RowView DEF MarkPaid
<1>4. Sale[o] = "open" /\ Sale' = [Sale EXCEPT ![o] = "sold"]
  BY <1>1 DEF MarkPaid, Moves, Sale, OrderRows
<1> QED BY <1>3, <1>4 DEF Abstract!Sell

LEMMA FailedVoids ==
    ASSUME TypeOK, NEW o \in Orders, MarkFailed(o), Moves(o, "failed")
    PROVE  Abstract!Void(o)
<1>1. orders \in [Orders -> OrderRows]
  BY DEF TypeOK
<1>2. Access' = Access /\ Bought' = Bought
  BY DEF MarkFailed, Access, Bought
<1>3. Sale[o] = "open" /\ Sale' = [Sale EXCEPT ![o] = "void"]
  BY <1>1 DEF MarkFailed, Moves, Sale, OrderRows
<1> QED BY <1>2, <1>3 DEF Abstract!Void

LEMMA RefundedReturns ==
    ASSUME TypeOK, NEW o \in Orders, NEW ref \in BOOLEAN,
           MarkRefunded(o, ref), Moves(o, "refunded")
    PROVE  Abstract!Return(o)
<1> DEFINE s == SeatOf[o]
           row == Cancelled(enrolments[s])
<1>1. s \in Seats /\ enrolments[s] \in Rows /\ orders \in [Orders -> OrderRows]
  BY SeatAssumption DEF TypeOK
<1>2. /\ row \in Rows /\ ~Live(row) /\ row.source = enrolments[s].source
      /\ Live(enrolments[s])
  <2>1. row \in Rows
    BY <1>1, RowsClosed DEF Sources
  <2> QED BY <1>1, <2>1 DEF Cancelled, Live, MarkRefunded, MayCancel, Exists,
       Rows, Statuses
<1>3. Access' = Access \ {s} /\ s \in Access
  BY <1>1, <1>2, RowView DEF MarkRefunded, Access
<1>4. Bought' = Bought
  <2>1. Bought' = IF row.source = "purchase" THEN Bought \cup {s} ELSE Bought \ {s}
    BY <1>1, <1>2, RowView DEF MarkRefunded
  <2> QED BY <1>1, <1>2, <2>1 DEF Bought
<1>5. Sale[o] = "sold" /\ Sale' = [Sale EXCEPT ![o] = "returned"]
  BY <1>1 DEF MarkRefunded, Moves, Sale, OrderRows
<1> QED BY <1>3, <1>4, <1>5 DEF Abstract!Return, Abstract!Sold

LEMMA ApplyDecides ==
    ASSUME TypeOK, NEW o \in Orders, NEW kind, Apply(kind, o)
    PROVE  Hidden \/ Abstract!Next
<1>1. CASE UNCHANGED table
  BY <1>1, UnseenIsHidden DEF table
<1>2. CASE ~UNCHANGED table
  <2>1. Abstract!Sell(o) \/ Abstract!Void(o) \/ Abstract!Return(o)
    BY <1>2, PaymentIdsAreBoolean, PaidSells, FailedVoids, RefundedReturns DEF Apply
  <2> QED BY <2>1 DEF Abstract!Next
<1> QED BY <1>1, <1>2

(* Everything else that writes an enrolment admits a learner, or is a learner
   leaving a course they never bought.                                      *)
LEMMA SeatStepsAdmitOrLeave ==
    ASSUME TypeOK, NEW s \in Seats,
           \/ SetRow(s, Upserted(enrolments[s], "self"))
           \/ Grant(s) \/ GrantCourses(s) \/ Import(s) \/ Reopen(s)
           \/ CancelSerially(s) \/ CompleteSerially(s)
    PROVE  Abstract!Next
<1> DEFINE row == enrolments[s]
<1>1. row \in Rows
  BY DEF TypeOK
<1>2. Sale' = Sale
  <2>1. UNCHANGED orders
    BY DEF Grant, GrantCourses, Import, Reopen, CancelSerially,
       CompleteSerially, SetRow
  <2> QED BY <2>1 DEF Sale
<1>3. ASSUME NEW new \in Rows, SetRow(s, new), Live(new),
             new.source = "purchase" <=> row.source = "purchase"
      PROVE  Abstract!Admit(s)
  <2>1. Access' = Access \cup {s}
    BY <1>3, RowView DEF SetRow
  <2>2. Bought' = IF new.source = "purchase" THEN Bought \cup {s} ELSE Bought \ {s}
    BY <1>3, RowView DEF SetRow
  <2>3. Bought' = Bought
    BY <1>3, <2>2 DEF Bought
  <2> QED BY <1>2, <2>1, <2>3 DEF Abstract!Admit
<1>4. ASSUME NEW source \in Sources \ {"purchase"}, SetRow(s, Upserted(row, source))
      PROVE  Abstract!Admit(s)
  <2>1. /\ Upserted(row, source) \in Rows
        /\ Live(Upserted(row, source))
        /\ Upserted(row, source).source = "purchase" <=> row.source = "purchase"
    BY <1>1, RowsClosed DEF Upserted, KeptSource, Live, Sources
  <2> QED BY <1>3, <1>4, <2>1
<1>5. CASE \/ SetRow(s, Upserted(enrolments[s], "self"))
           \/ Grant(s) \/ GrantCourses(s) \/ Import(s)
  <2>1. \E source \in Sources \ {"purchase"} : SetRow(s, Upserted(row, source))
    BY <1>5 DEF Grant, GrantCourses, Import, Sources
  <2> QED BY <1>4, <2>1 DEF Abstract!Next
<1>6. CASE Reopen(s) \/ CompleteSerially(s)
  <2>1. ASSUME NEW new \in {Reopened(row), Completed(row)}, SetRow(s, new)
        PROVE  Abstract!Admit(s)
    <3>1. new \in Rows
      BY <1>1, <2>1, RowsClosed DEF Sources
    <3>2. Live(new) /\ new.source = row.source
      BY <1>1, <2>1 DEF Reopened, Completed, Live, Rows
    <3> QED BY <1>3, <2>1, <3>1, <3>2
  <2> QED BY <1>6, <2>1 DEF Reopen, CompleteSerially, Abstract!Next
<1>7. CASE CancelSerially(s)
  <2> DEFINE new == Cancelled(row)
  <2>1. /\ new \in Rows /\ ~Live(new) /\ new.source = row.source
        /\ Live(row) /\ row.source # "purchase"
    <3>1. new \in Rows
      BY <1>1, RowsClosed DEF Sources
    <3> QED BY <1>1, <1>7, <3>1 DEF CancelSerially, MayLeave, MayCancel, Exists,
         Cancelled, Live, Rows, Statuses
  <2>2. Access' = Access \ {s} /\ Bought' = Bought \ {s}
    BY <1>7, <2>1, RowView DEF CancelSerially, SetRow
  <2>3. s \in Access /\ s \notin Bought
    BY <2>1 DEF Access, Bought
  <2>4. Bought' = Bought
    BY <2>2, <2>3
  <2>5. Abstract!Leave(s)
    BY <1>2, <2>2, <2>3, <2>4 DEF Abstract!Leave
  <2> QED BY <2>5 DEF Abstract!Next
<1> QED BY <1>5, <1>6, <1>7

LEMMA CallStepsDecide ==
    ASSUME TypeOK, CallSteps
    PROVE  Hidden \/ Abstract!Next
<1>1. orders \in [Orders -> OrderRows]
  BY DEF TypeOK
<1>2. PICK k \in Calls :
          \/ CutOff(k)
          \/ \E o \in Orders :
              \/ Buy(k, o) \/ OpenCheckout(k, o) \/ AttachSession(k, o)
              \/ Confirm(k, o) \/ AskOutcome(k, o) \/ BkashExecute(k, o)
              \/ BkashExecuted(k, o) \/ BkashNotCompleted(k, o)
              \/ ConfirmApply(k, o)
              \/ Refund(k, o) \/ AskRefund(k, o) \/ RefundRefused(k, o)
              \/ WriteRefund(k, o) \/ RefundAlreadyWritten(k, o)
              \/ Chase(k, o) \/ AskRefundStatus(k, o) \/ RecordRefund(k, o)
              \/ CloseChase(k, o) \/ FailRun(k, o)
  BY DEF CallSteps
<1>3. CASE CutOff(k)
  BY <1>3, UnseenIsHidden DEF CutOff, table
<1>4. ASSUME NEW o \in Orders, Buy(k, o) PROVE Hidden
  <2>1. Sale' = Sale
    BY <1>1, <1>4 DEF Sale, Buy, OrderRows
  <2>2. Access' = Access /\ Bought' = Bought
    BY <1>4 DEF Buy, Access, Bought
  <2> QED BY <2>1, <2>2 DEF Hidden
<1>5. ASSUME NEW o \in Orders, AttachSession(k, o) PROVE Hidden
  BY <1>1, <1>5, UnseenIsHidden DEF AttachSession, OrderRows
<1>6. ASSUME NEW o \in Orders, ConfirmApply(k, o) PROVE Hidden \/ Abstract!Next
  BY <1>6, ApplyDecides DEF ConfirmApply
<1>7. ASSUME NEW o \in Orders, WriteRefund(k, o) PROVE Abstract!Next
  <2>1. \E ref \in BOOLEAN : MarkRefunded(o, ref)
    BY <1>7 DEF WriteRefund
  <2>2. Abstract!Return(o)
    BY <1>7, <2>1, RefundedReturns DEF WriteRefund
  <2> QED BY <2>2 DEF Abstract!Next
<1>8. ASSUME NEW o \in Orders,
             \/ OpenCheckout(k, o)
             \/ Confirm(k, o) \/ AskOutcome(k, o) \/ BkashExecute(k, o)
             \/ BkashExecuted(k, o) \/ BkashNotCompleted(k, o)
             \/ Refund(k, o) \/ AskRefund(k, o) \/ RefundRefused(k, o)
             \/ RefundAlreadyWritten(k, o)
             \/ Chase(k, o) \/ AskRefundStatus(k, o) \/ RecordRefund(k, o)
             \/ CloseChase(k, o) \/ FailRun(k, o)
      PROVE  Hidden
  <2>1. UNCHANGED <<orders, enrolments>>
    BY <1>8 DEF OpenCheckout, Confirm, AskOutcome, BkashExecute,
       BkashExecuted, BkashNotCompleted, Refund, AskRefund, RefundRefused,
       RefundAlreadyWritten, Chase, AskRefundStatus, RecordRefund, CloseChase,
       FailRun, table
  <2> QED BY <2>1, UnseenIsHidden
<1> QED BY <1>2, <1>3, <1>4, <1>5, <1>6, <1>7, <1>8

LEMMA SalesKeepShop ==
    ASSUME TypeOK, Sales PROVE Hidden \/ Abstract!Next
<1>1. CASE CallSteps
  BY <1>1, CallStepsDecide
<1>2. CASE GatewaySteps
  <2>1. UNCHANGED <<orders, enrolments>>
    BY <1>2 DEF GatewaySteps, LearnerPays, LearnerGivesUp, BkashExecutes,
       EditMetadata, RefundByHand, GatewaySettlesRefund, table
  <2> QED BY <2>1, UnseenIsHidden
<1>3. CASE Pricing \/ JobSteps
  <2>1. UNCHANGED <<orders, enrolments>>
    BY <1>3 DEF Pricing, SetPrice, ClearPrice, JobSteps, ReachCeiling,
       GiveUpChase, table
  <2> QED BY <2>1, UnseenIsHidden
<1>4. CASE \E e \in inbox : Deliver(e)
  <2>1. \A e \in inbox : e.order \in Orders
    BY DEF TypeOK, Events
  <2> QED BY <1>4, <2>1, ApplyDecides DEF Deliver
<1>5. CASE \E s \in Seats :
              Grant(s) \/ GrantCourses(s) \/ Import(s) \/ Reopen(s)
  BY <1>5, SeatStepsAdmitOrLeave
<1>6. ASSUME NEW k \in Calls, NEW s \in Seats, Enrol(k, s) PROVE Hidden
  BY <1>6, UnseenIsHidden DEF Enrol, table
<1>7. ASSUME NEW k \in Calls, NEW s \in Seats, UpsertEnrolment(k, s)
      PROVE  Abstract!Next
  BY <1>7, SeatStepsAdmitOrLeave DEF UpsertEnrolment
<1> QED BY <1>1, <1>2, <1>3, <1>4, <1>5, <1>6, <1>7 DEF Sales

LEMMA StepKeepsShop ==
    TypeOK /\ [SerialNext]_vars => [Abstract!Next]_(Abstract!shop)
<1> SUFFICES ASSUME TypeOK, [SerialNext]_vars PROVE Hidden \/ Abstract!Next
  BY DEF Hidden, Abstract!shop
<1>1. CASE UNCHANGED vars
  BY <1>1, UnseenIsHidden DEF vars
<1>2. CASE \E s \in Seats : CancelSerially(s) \/ CompleteSerially(s)
  BY <1>2, SeatStepsAdmitOrLeave
<1> QED BY <1>1, <1>2, SalesKeepShop DEF SerialNext

(* For every number of orders, seats and requests: what the transactions do to
   orders and enrolments is what the abstract shop allows.                  *)
THEOREM SaleKeepsShop == SerialSpec => KeepsShop
<1>1. Init => Abstract!Init
  BY DEF Init, Abstract!Init, Sale, Access, Bought, NoOrder, NoRow, Live
<1> QED BY <1>1, SerialTypeCorrect, StepKeepsShop, PTL
     DEF SerialSpec, KeepsShop, Abstract!Spec

(* At READ COMMITTED the one step that the shop does not allow is a cancel's
   write: completing an enrolment in a later statement only lets in.        *)
LEMMA RacingStepKeepsShop ==
    ASSUME TypeOK, [Next]_vars
    PROVE  \/ Hidden \/ Abstract!Next
           \/ \E k \in Calls, s \in Seats : CancelEnrolment(k, s)
<1>1. CASE UNCHANGED vars
  BY <1>1, UnseenIsHidden DEF vars
<1>2. CASE Sales
  BY <1>2, SalesKeepShop
<1>3. ASSUME NEW k \in Calls, NEW s \in Seats, Cancel(k, s) \/ FinishLesson(k, s)
      PROVE  Hidden
  <2>1. UNCHANGED <<orders, enrolments>>
    BY <1>3 DEF Cancel, FinishLesson, table
  <2> QED BY <2>1, UnseenIsHidden
<1>4. ASSUME NEW k \in Calls, NEW s \in Seats, CompleteEnrolment(k, s)
      PROVE  Hidden \/ Abstract!Next
  <2> DEFINE row == enrolments[s]
  <2>1. CASE SetRow(s, Completed(row))
    <3>1. row \in Rows /\ Completed(row) \in Rows
      BY RowsClosed DEF TypeOK, Sources
    <3>2. Live(Completed(row)) /\ Completed(row).source = row.source
      BY <3>1 DEF Completed, Live, Rows
    <3>3. Access' = Access \cup {s}
      BY <2>1, <3>1, <3>2, RowView DEF SetRow
    <3>4. Bought' = IF row.source = "purchase" THEN Bought \cup {s} ELSE Bought \ {s}
      BY <2>1, <3>1, <3>2, RowView DEF SetRow
    <3>5. Bought' = Bought
      BY <3>4 DEF Bought
    <3>6. Sale' = Sale
      BY <2>1 DEF SetRow, Sale
    <3> QED BY <3>3, <3>5, <3>6 DEF Abstract!Admit, Abstract!Next
  <2>2. CASE UNCHANGED <<orders, enrolments>>
    BY <2>2, UnseenIsHidden
  <2> QED BY <1>4, <2>1, <2>2 DEF CompleteEnrolment, table
<1> QED BY <1>1, <1>2, <1>3, <1>4 DEF Next

(* So the shop is what the program implements as it runs, but for that step. *)
THEOREM AllButCancelsKeepShop ==
    Spec => /\ Abstract!Init
            /\ [][\/ Abstract!Next
                  \/ \E k \in Calls, s \in Seats : CancelEnrolment(k, s)]_(Abstract!shop)
<1>1. Init => Abstract!Init
  BY DEF Init, Abstract!Init, Sale, Access, Bought, NoOrder, NoRow, Live
<1>2. TypeOK /\ [Next]_vars =>
        [\/ Abstract!Next
         \/ \E k \in Calls, s \in Seats : CancelEnrolment(k, s)]_(Abstract!shop)
  BY RacingStepKeepsShop DEF Hidden, Abstract!shop
<1> QED BY <1>1, <1>2, TypeCorrect, PTL DEF Spec

(* Hence whoever is the only one to have paid for a place is enrolled in it,
   for as long as the order stays paid.                                     *)
THEOREM PaidIsEnrolled == SerialSpec => []PaidMeansEnrolled
<1>1. Abstract!BuyerIsIn => PaidMeansEnrolled
  BY SeatAssumption DEF Abstract!BuyerIsIn, Abstract!Sold, Abstract!EverSold,
     PaidMeansEnrolled, Sale, Access
<1> QED BY <1>1, SaleKeepsShop, Abstract!BuyerStaysIn, PTL DEF KeepsShop

(* And nobody loses a place they bought but in the transaction that refunds an
   order for it.                                                            *)
THEOREM PurchaseIsKept == SerialSpec => PurchaseKept
<1>1. [Abstract!TakenBackByReturn]_(Abstract!shop)
        => [\A s \in Seats : LosesPurchase(s) => RefundedOn(s)]_vars
  <2> SUFFICES ASSUME [Abstract!TakenBackByReturn]_(Abstract!shop), NEW s \in Seats,
                      LosesPurchase(s)
               PROVE  RefundedOn(s)
    OBVIOUS
  <2>1. s \in (Access \cap Bought) \ Access'
    BY DEF Access, Bought, LosesPurchase
  <2>2. Abstract!TakenBackByReturn
    BY <2>1 DEF Abstract!shop
  <2>3. PICK o \in Orders : SeatOf[o] = s /\ Sale[o] = "sold" /\ Sale'[o] = "returned"
    BY <2>1, <2>2 DEF Abstract!TakenBackByReturn, Abstract!Sold
  <2> QED BY <2>3 DEF Sale, RefundedOn
<1> QED BY <1>1, SaleKeepsShop, Abstract!BoughtIsKept, PTL DEF KeepsShop, PurchaseKept

(* At READ COMMITTED nobody loses one but so, or to a cancel that had asked. *)
THEOREM LostToCancelAlone == Spec => LostOnlyToCancel
<1>1. TypeOK /\ [Next]_vars =>
        [\A s \in Seats : LosesPurchase(s) =>
            RefundedOn(s) \/ \E k \in Calls : CancelEnrolment(k, s)]_vars
  <2> SUFFICES ASSUME TypeOK, [Next]_vars, NEW s \in Seats, LosesPurchase(s)
               PROVE  RefundedOn(s) \/ \E k \in Calls : CancelEnrolment(k, s)
    OBVIOUS
  <2>1. s \in (Access \cap Bought) \ Access'
    BY DEF Access, Bought, LosesPurchase
  <2>2. CASE Abstract!Next
    <3>1. PICK o \in Orders : SeatOf[o] = s /\ Sale[o] = "sold" /\ Sale'[o] = "returned"
      BY <2>1, <2>2, SeatAssumption
         DEF Abstract!Next, Abstract!Sell, Abstract!Void, Abstract!Return,
             Abstract!Admit, Abstract!Leave, Abstract!Sold, Sale
    <3> QED BY <3>1 DEF Sale, RefundedOn
  <2>3. ASSUME NEW k \in Calls, NEW t \in Seats, CancelEnrolment(k, t)
        PROVE  CancelEnrolment(k, s)
    <3>1. t = s
      BY <2>3 DEF CancelEnrolment, SetRow, LosesPurchase, TypeOK, table
    <3> QED BY <2>3, <3>1
  <2> QED BY <2>1, <2>2, <2>3, RacingStepKeepsShop DEF Hidden
<1> QED BY <1>1, TypeCorrect, PTL DEF Spec, LostOnlyToCancel

-----------------------------------------------------------------------------
(* Whom a refund, or a cancel, withdrew is never completed by a step that did not
   begin before: each other statement on a row that was cancelled leaves it
   cancelled or makes it active.                                            *)
StaysOut ==
    \A s \in Seats :
        enrolments[s].status = "cancelled" => enrolments'[s].status # "completed"
Finishes == \E k \in Calls : \E s \in Seats : CompleteEnrolment(k, s)

LEMMA RowStaysOut ==
    ASSUME TypeOK, NEW s \in Seats, NEW row,
           enrolments' = [enrolments EXCEPT ![s] = row],
           enrolments[s].status = "cancelled" => row.status # "completed"
    PROVE  StaysOut
BY DEF TypeOK, StaysOut

LEMMA UpsertedStaysOut ==
    ASSUME TypeOK, NEW s \in Seats, NEW source,
           enrolments' = [enrolments EXCEPT ![s] = Upserted(@, source)]
    PROVE  StaysOut
<1>1. enrolments[s].status = "cancelled" =>
          Upserted(enrolments[s], source).status # "completed"
  BY DEF Upserted
<1> QED BY <1>1, RowStaysOut

LEMMA CancelledStaysOut ==
    ASSUME TypeOK, NEW s \in Seats,
           enrolments' = [enrolments EXCEPT ![s] = Cancelled(@)]
    PROVE  StaysOut
<1>1. Cancelled(enrolments[s]).status = "cancelled"
  BY DEF TypeOK, Rows, Cancelled
<1> QED BY <1>1, RowStaysOut

LEMMA ApplyStaysOut ==
    ASSUME TypeOK, NEW o \in Orders, NEW kind, Apply(kind, o)
    PROVE  StaysOut
<1>1. SeatOf[o] \in Seats
  BY SeatAssumption
<1>2. CASE UNCHANGED enrolments
  BY <1>2 DEF StaysOut
<1>3. ASSUME NEW id, MarkPaid(o, id) PROVE StaysOut
  BY <1>1, <1>3, UpsertedStaysOut DEF MarkPaid
<1>4. CASE MarkRefunded(o, FALSE)
  BY <1>1, <1>4, CancelledStaysOut DEF MarkRefunded
<1> QED BY <1>2, <1>3, <1>4 DEF Apply, MarkFailed, table

LEMMA StepStaysOut == TypeOK /\ [Next]_vars => StaysOut \/ Finishes
<1> SUFFICES ASSUME TypeOK, [Next]_vars, ~Finishes PROVE StaysOut
  OBVIOUS
<1>1. CASE UNCHANGED enrolments
  BY <1>1 DEF StaysOut
<1>2. CASE CallSteps
  <2>1. ASSUME NEW k \in Calls, NEW o \in Orders, ConfirmApply(k, o) PROVE StaysOut
    BY <2>1, ApplyStaysOut DEF ConfirmApply
  <2>2. ASSUME NEW k \in Calls, NEW o \in Orders, WriteRefund(k, o) PROVE StaysOut
    BY <2>2, SeatAssumption, CancelledStaysOut DEF WriteRefund, MarkRefunded
  <2>3. ASSUME NEW k \in Calls, NEW o \in Orders,
               \/ Buy(k, o) \/ OpenCheckout(k, o) \/ AttachSession(k, o)
               \/ Confirm(k, o) \/ AskOutcome(k, o) \/ BkashExecute(k, o)
               \/ BkashExecuted(k, o) \/ BkashNotCompleted(k, o)
               \/ Refund(k, o) \/ AskRefund(k, o) \/ RefundRefused(k, o)
               \/ RefundAlreadyWritten(k, o)
               \/ Chase(k, o) \/ AskRefundStatus(k, o) \/ RecordRefund(k, o)
               \/ CloseChase(k, o) \/ FailRun(k, o)
        PROVE  UNCHANGED enrolments
    BY <2>3 DEF Buy, OpenCheckout, AttachSession, Confirm, AskOutcome,
       BkashExecute, BkashExecuted, BkashNotCompleted, Refund, AskRefund,
       RefundRefused, RefundAlreadyWritten, Chase, AskRefundStatus, RecordRefund,
       CloseChase, FailRun, table
  <2>4. ASSUME NEW k \in Calls, CutOff(k) PROVE UNCHANGED enrolments
    BY <2>4 DEF CutOff, table
  <2> QED BY <1>1, <1>2, <2>1, <2>2, <2>3, <2>4 DEF CallSteps
<1>3. CASE \E e \in inbox : Deliver(e)
  <2>1. \A e \in inbox : e.order \in Orders
    BY DEF TypeOK, Events
  <2> QED BY <1>3, <2>1, ApplyStaysOut DEF Deliver
<1>4. CASE Pricing \/ GatewaySteps \/ JobSteps
  <2>1. UNCHANGED enrolments
    BY <1>4 DEF Pricing, SetPrice, ClearPrice, GatewaySteps, LearnerPays,
       LearnerGivesUp, BkashExecutes, EditMetadata, RefundByHand,
       GatewaySettlesRefund, JobSteps, ReachCeiling, GiveUpChase, table
  <2> QED BY <1>1, <2>1
<1>5. ASSUME NEW s \in Seats, Grant(s) \/ GrantCourses(s) \/ Import(s)
      PROVE  StaysOut
  BY <1>5, UpsertedStaysOut DEF Grant, GrantCourses, Import, SetRow
<1>6. ASSUME NEW s \in Seats, Reopen(s) PROVE StaysOut
  BY <1>6, RowStaysOut DEF Reopen, MayReopen, SetRow
<1>7. ASSUME NEW k \in Calls, NEW s \in Seats,
             \/ Enrol(k, s) \/ Cancel(k, s) \/ FinishLesson(k, s)
      PROVE  StaysOut
  BY <1>1, <1>7 DEF Enrol, Cancel, FinishLesson, table
<1>8. ASSUME NEW k \in Calls, NEW s \in Seats, UpsertEnrolment(k, s) PROVE StaysOut
  BY <1>8, UpsertedStaysOut DEF UpsertEnrolment, SetRow
<1>9. ASSUME NEW k \in Calls, NEW s \in Seats, CancelEnrolment(k, s) PROVE StaysOut
  BY <1>1, <1>9, CancelledStaysOut DEF CancelEnrolment, SetRow, table
<1> QED BY <1>1, <1>2, <1>3, <1>4, <1>5, <1>6, <1>7, <1>8, <1>9
     DEF Next, Sales, Finishes, vars

(* At READ COMMITTED there is one way back for somebody withdrawn that no one
   opened: the last lesson of a request that had found them on the course.
   CommerceFinishRace shows it; there is no other.                          *)
THEOREM BackByFinishingAlone == Spec => [][StaysOut \/ Finishes]_vars
BY StepStaysOut, TypeCorrect, PTL DEF Spec
=============================================================================
