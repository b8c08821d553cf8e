------------------------------ MODULE Commerce ------------------------------
(***************************************************************************)
(* The sale of a course: package commerce, the payment gateways it drives, *)
(* and the enrolment rows an order opens and closes (package enroll).      *)
(*                                                                         *)
(* An order is written before the gateway is asked for a checkout, settled *)
(* by a webhook or by a callback that goes and asks the gateway, refunded  *)
(* by a call to the gateway followed by a transaction, and, where a refund *)
(* is only accepted, chased by a job.  Every request is a call that may be *)
(* overtaken by others, or cut off, between its transactions and its       *)
(* network calls.                                                          *)
(*                                                                         *)
(* A seat is one learner's place on one course: the key of `enrolments`.   *)
(***************************************************************************)
EXTENDS EnrolmentRows, Naturals

CONSTANTS
    Orders,      \* the orders that may be written
    Seats,       \* a learner's place on a course
    Courses,
    Calls,       \* requests and jobs a deployment runs at one moment
    SeatOf,      \* the seat an order buys
    CourseOf,    \* the course a seat is on
    GatewayOf,   \* the gateway an order is paid through
    Batches,     \* the sets of orders that may be written together: a bound
    ChaseAttempts,  \* how often a refund job may fail: 20 in the program
    None         \* no order and no seat

Drivers == {"fake", "stripe", "bkash", "sslcommerz"}

ASSUME SeatAssumption == SeatOf \in [Orders -> Seats]
ASSUME CourseAssumption == CourseOf \in [Seats -> Courses]
ASSUME GatewayAssumption == GatewayOf \in [Orders -> Drivers]
ASSUME BatchesAssumption == Batches \subseteq SUBSET Orders
ASSUME NoneAssumption == None \notin Orders \cup Seats
ASSUME ChaseAssumption == ChaseAttempts \in Nat \ {0}

(* The capabilities a driver has: it sends webhooks, or is asked on a
   callback; its refund is final when it answers, or is only accepted.      *)
Webhookers       == {"fake", "stripe"}
Confirmers       == {"bkash", "sslcommerz"}
RefundConfirmers == {"sslcommerz"}

(* What a gateway says to a second refund of one payment: the key on the
   order gives the first answer again, or the gateway refuses.              *)
RefundsTwice == {"fake", "stripe"}

(* Drivers that may report a payment without its id: Stripe's event with no
   payment intent, SSLCommerz's validation with no bank transaction.        *)
MayOmitPayment == {"stripe", "sslcommerz"}

VARIABLES
    orders,      \* the table orders
    enrolments,  \* the table enrolments, by seat
    forSale,     \* the courses with a row in course_prices
    polls,       \* refund confirmation jobs in the queue
    overdue,     \* jobs older than the polling ceiling
    failures,    \* how many runs of its job have failed
    trail,       \* audit entries: <<action, order>>
    call,        \* what each request or job is in the middle of
    handed,      \* orders whose checkout URL reached the learner
    charge,      \* the gateway's own account of the money
    refund,      \* the gateway's own account of the refund
    inbox        \* events a gateway is still delivering

table == <<orders, enrolments, trail>>
jobs  == <<polls, overdue, failures>>
money == <<charge, refund>>
vars  == <<orders, enrolments, forSale, polls, overdue, failures, trail, call,
           handed, charge, refund, inbox>>

OrderStatuses == {"absent", "pending", "paid", "failed", "refunded"}

(* session, payment, refund: whether external_id, payment_external_id and
   refund_external_id hold the gateway's ids, or are still empty.           *)
OrderRows == [status: OrderStatuses, session: BOOLEAN,
              payment: BOOLEAN, refund: BOOLEAN]

NoOrder == [status |-> "absent", session |-> FALSE,
            payment |-> FALSE, refund |-> FALSE]

Phases == {"idle", "buy.open", "buy.attach",
           "confirm.ask", "confirm.execute", "confirm.apply",
           "refund.ask", "refund.write",
           "chase.ask", "chase.record", "chase.close",
           "enrol.write", "cancel.write", "finish.write"}
Answers == {"none", "paid", "failed", "done", "declined"}

(* phase: the step it takes next; about: its order or seat; answer: what the
   gateway told it, and of a refund just asked for, whether it came with the
   refund's id ("done") or without ("none").                                *)
CallStates == [phase: Phases, about: Orders \cup Seats \cup {None},
               answer: Answers]
Idle == [phase |-> "idle", about |-> None, answer |-> "none"]

(* order is the id in the event's metadata, session the checkout it is about. *)
Events == [kind: {"paid", "failed", "refunded"}, order: Orders, session: Orders]
EventOf(kind, o) == [kind |-> kind, order |-> o, session |-> o]

AuditActions == {"order.created", "order.paid", "order.refunded",
                 "order.refund_confirmed", "order.refund_failed"}

Charges == {"none", "open", "authorised", "executing", "taken", "declined"}
Refunds == {"none", "processing", "returned", "declined", "byhand"}

TypeOK ==
    /\ orders \in [Orders -> OrderRows]
    /\ enrolments \in [Seats -> Rows]
    /\ forSale \subseteq Courses
    /\ polls \subseteq Orders
    /\ overdue \subseteq Orders
    /\ failures \in [Orders -> Nat]
    /\ trail \subseteq AuditActions \X Orders
    /\ call \in [Calls -> CallStates]
    /\ handed \subseteq Orders
    /\ charge \in [Orders -> Charges]
    /\ refund \in [Orders -> Refunds]
    /\ inbox \subseteq Events

Init ==
    /\ orders = [o \in Orders |-> NoOrder]
    /\ enrolments = [s \in Seats |-> NoRow]
    /\ forSale = Courses
    /\ polls = {} /\ overdue = {} /\ trail = {}
    /\ failures = [o \in Orders |-> 0]
    /\ call = [k \in Calls |-> Idle]
    /\ handed = {}
    /\ charge = [o \in Orders |-> "none"]
    /\ refund = [o \in Orders |-> "none"]
    /\ inbox = {}

-----------------------------------------------------------------------------
(* Calls. *)

At(k, phase, o) == call[k].phase = phase /\ call[k].about = o
Free(k) == call[k] = Idle

Proceed(k, phase, o, answer) ==
    call' = [call EXCEPT ![k] =
                [phase |-> phase, about |-> o, answer |-> answer]]
Return(k) == call' = [call EXCEPT ![k] = Idle]

ChasePhases == {"chase.ask", "chase.record", "chase.close"}

(* A request is cut off where it stands: its process dies, its context is
   cancelled, or the gateway or the database gives it an error.  What it has
   committed or asked for stays; what it has not done is not done.  A job that
   is cut off is FailRun.                                                   *)
CutOff(k) ==
    /\ ~Free(k) /\ call[k].phase \notin ChasePhases
    /\ Return(k)
    /\ UNCHANGED <<table, forSale, jobs, money, handed, inbox>>

-----------------------------------------------------------------------------
(* Prices.  A workspace whose payment account is not ready can neither price a
   course nor sell one; whether it is ready is the gateway's to say, and here
   SetPrice and Buy may simply not happen.                                  *)

SetPrice(c) ==
    /\ forSale' = forSale \cup {c}
    /\ UNCHANGED <<table, jobs, money, call, handed, inbox>>

ClearPrice(c) ==
    /\ forSale' = forSale \ {c}
    /\ UNCHANGED <<table, jobs, money, call, handed, inbox>>

-----------------------------------------------------------------------------
(* Buying. *)

Owned(s) == \E o \in Orders : SeatOf[o] = s /\ orders[o].status = "paid"

Written == {o \in Orders : orders[o].status # "absent"}

(* The first transaction of Buy: the order is written before the gateway
   hears of it.                                                             *)
Buy(k, o) ==
    /\ Free(k)
    /\ orders[o].status = "absent"
    /\ \E b \in Batches : Written \cup {o} \subseteq b
    /\ CourseOf[SeatOf[o]] \in forSale
    /\ ~Owned(SeatOf[o])
    /\ orders' = [orders EXCEPT ![o].status = "pending"]
    /\ trail' = trail \cup {<<"order.created", o>>}
    /\ Proceed(k, "buy.open", o, "none")
    /\ UNCHANGED <<enrolments, forSale, jobs, money, handed, inbox>>

(* Mutant: the URL is given out as soon as the gateway answers. *)
OpenCheckoutHanding(k, o) ==
    /\ At(k, "buy.open", o)
    /\ charge' = [charge EXCEPT ![o] = "open"]
    /\ handed' = handed \cup {o}
    /\ Proceed(k, "buy.attach", o, "none")
    /\ UNCHANGED <<table, forSale, jobs, refund, inbox>>

(* The gateway opens a checkout, outside any transaction. *)
OpenCheckout(k, o) ==
    /\ At(k, "buy.open", o)
    /\ charge' = [charge EXCEPT ![o] = "open"]
    /\ Proceed(k, "buy.attach", o, "none")
    /\ UNCHANGED <<table, forSale, jobs, refund, handed, inbox>>

(* The second transaction: the checkout's id is attached, and the URL goes
   back to the learner.                                                     *)
AttachSession(k, o) ==
    /\ At(k, "buy.attach", o)
    /\ orders' = [orders EXCEPT ![o].session = TRUE]
    /\ handed' = handed \cup {o}
    /\ Return(k)
    /\ UNCHANGED <<enrolments, trail, forSale, jobs, money, inbox>>

-----------------------------------------------------------------------------
(* The learner on the gateway's page, and what the gateway does by itself. *)

Announce(kind, o) ==
    inbox' = IF GatewayOf[o] \in Webhookers
             THEN inbox \cup {EventOf(kind, o)} ELSE inbox

(* bKash takes nothing until it is told to execute. *)
LearnerPays(o) ==
    /\ o \in handed /\ charge[o] = "open"
    /\ IF GatewayOf[o] = "bkash"
       THEN charge' = [charge EXCEPT ![o] = "authorised"] /\ inbox' = inbox
       ELSE charge' = [charge EXCEPT ![o] = "taken"] /\ Announce("paid", o)
    /\ UNCHANGED <<table, forSale, jobs, refund, call, handed>>

LearnerGivesUp(o) ==
    /\ o \in handed /\ charge[o] = "open"
    /\ charge' = [charge EXCEPT ![o] = "declined"]
    /\ Announce("failed", o)
    /\ UNCHANGED <<table, forSale, jobs, refund, call, handed>>

BkashExecutes(o) ==
    /\ charge[o] = "executing"
    /\ charge' = [charge EXCEPT ![o] = "taken"]
    /\ UNCHANGED <<table, forSale, jobs, refund, call, handed, inbox>>

(* Metadata can be edited in a gateway's dashboard: an event about o's
   checkout that names another order.                                       *)
EditMetadata(o, other) ==
    /\ GatewayOf[o] \in Webhookers /\ charge[o] = "taken" /\ other # o
    /\ inbox' = inbox \cup
          {[kind |-> "paid", order |-> other, session |-> o]}
    /\ UNCHANGED <<table, forSale, jobs, money, call, handed>>

(* A refund made by hand in the gateway's dashboard.  The fake says so, and it
   alone: Stripe's event for it is ignored by the driver, and the other two
   send none, so that of their orders the service never learns.             *)
RefundByHand(o) ==
    /\ charge[o] = "taken" /\ refund[o] = "none"
    /\ refund' = [refund EXCEPT ![o] = "byhand"]
    /\ inbox' = IF GatewayOf[o] = "fake"
                THEN inbox \cup {EventOf("refunded", o)} ELSE inbox
    /\ UNCHANGED <<table, forSale, jobs, charge, call, handed>>

GatewaySettlesRefund(o) ==
    /\ refund[o] = "processing"
    /\ \E outcome \in {"returned", "declined"} :
          refund' = [refund EXCEPT ![o] = outcome]
    /\ UNCHANGED <<table, forSale, jobs, charge, call, handed, inbox>>

-----------------------------------------------------------------------------
(* Settling an order: the transaction every event ends in. *)

(* Mutant: Settle without its WHERE clause. *)
MovesAlways(o, to) == orders[o].status # "absent"

(* Repository.Settle's WHERE clause. *)
Moves(o, to) ==
    orders[o].status = IF to = "refunded" THEN "paid" ELSE "pending"

(* Mutants: the metadata is trusted; every event is matched on the payment;
   every event is matched on the session.                                   *)
MatchesMetadata(e) == orders[e.order].session
MatchesPayment(e)  == orders[e.order].payment
MatchesSession(e)  == e.session = e.order /\ orders[e.order].session

(* The event is about the order it names: a refund by its payment, any other
   by its checkout session.                                                 *)
Matches(e) ==
    IF e.kind = "refunded" THEN orders[e.order].payment
    ELSE e.session = e.order /\ orders[e.order].session

(* Mutant: the order is marked paid, and the enrolment is left for later. *)
MarkPaidOnly(o, id) ==
    /\ orders' = [orders EXCEPT ![o].status = "paid", ![o].payment = @ \/ id]
    /\ trail' = trail \cup {<<"order.paid", o>>}
    /\ UNCHANGED enrolments

(* The payment's id is attached if the event has one. *)
MarkPaid(o, id) ==
    /\ orders' = [orders EXCEPT ![o].status = "paid", ![o].payment = @ \/ id]
    /\ enrolments' = [enrolments EXCEPT
          ![SeatOf[o]] = Upserted(@, "purchase")]
    /\ trail' = trail \cup {<<"order.paid", o>>}

(* Mutant: a failed order is written with the status of an enrolment. *)
MarkCancelled(o) ==
    /\ orders' = [orders EXCEPT ![o].status = "cancelled"]
    /\ UNCHANGED <<enrolments, trail>>

MarkFailed(o) ==
    /\ orders' = [orders EXCEPT ![o].status = "failed"]
    /\ UNCHANGED <<enrolments, trail>>

(* Withdrawing an enrolment that is not there is an error, and rolls the
   whole transaction back.                                                  *)
MarkRefunded(o, ref) ==
    /\ MayCancel(enrolments[SeatOf[o]])
    /\ orders' = [orders EXCEPT ![o].status = "refunded",
                                ![o].refund = @ \/ ref]
    /\ enrolments' = [enrolments EXCEPT ![SeatOf[o]] = Cancelled(@)]
    /\ trail' = trail \cup {<<"order.refunded", o>>}

PaymentIds(o) == IF GatewayOf[o] \in MayOmitPayment THEN BOOLEAN ELSE {TRUE}

(* Service.apply: one transaction, and a second event finds nothing to move. *)
Apply(kind, o) ==
    \/ /\ kind = "paid" /\ Moves(o, "paid")
       /\ \E id \in PaymentIds(o) : MarkPaid(o, id)
    \/ /\ kind = "failed" /\ Moves(o, "failed") /\ MarkFailed(o)
    \/ /\ kind = "refunded" /\ Moves(o, "refunded") /\ MarkRefunded(o, FALSE)
    \/ /\ ~Moves(o, kind) /\ UNCHANGED table

(* A webhook.  A refused one is answered with an error and delivered again;
   an applied one may be delivered again too, when its answer is lost.      *)
Deliver(e) ==
    /\ e \in inbox
    /\ Matches(e)
    /\ Apply(e.kind, e.order)
    /\ inbox' \in {inbox, inbox \ {e}}
    /\ UNCHANGED <<forSale, jobs, money, call, handed>>

-----------------------------------------------------------------------------
(* Confirming, for a gateway that has to be asked. *)

(* The learner, or the gateway, comes back to the callback.  A settled order
   is answered without asking anybody.                                      *)
Confirm(k, o) ==
    /\ Free(k)
    /\ GatewayOf[o] \in Confirmers
    /\ charge[o] \notin {"none", "open"}
    /\ orders[o].status = "pending"
    /\ Proceed(k, "confirm.ask", o, "none")
    /\ UNCHANGED <<table, forSale, jobs, money, handed, inbox>>

(* A failed notification, or money that has already moved, is known without
   executing anything; and a bKash callback that says anything but "success"
   is a failure, whatever became of the charge.                             *)
AskOutcome(k, o) ==
    /\ At(k, "confirm.ask", o)
    /\ \/ /\ charge[o] = "declined" \/ GatewayOf[o] = "bkash"
          /\ Proceed(k, "confirm.apply", o, "failed")
       \/ charge[o] = "taken" /\ Proceed(k, "confirm.apply", o, "paid")
    /\ UNCHANGED <<table, forSale, jobs, money, handed, inbox>>

BkashExecute(k, o) ==
    /\ At(k, "confirm.ask", o)
    /\ charge[o] = "authorised"
    /\ charge' = [charge EXCEPT ![o] = "executing"]
    /\ Proceed(k, "confirm.execute", o, "none")
    /\ UNCHANGED <<table, forSale, jobs, refund, handed, inbox>>

BkashExecuted(k, o) ==
    /\ At(k, "confirm.execute", o)
    /\ charge[o] = "taken"
    /\ Proceed(k, "confirm.apply", o, "paid")
    /\ UNCHANGED <<table, forSale, jobs, money, handed, inbox>>

(* Execute timed out, was refused because another call is executing, or never
   arrived, and the status query answers that the payment is not completed. *)
BkashNotCompleted(k, o) ==
    /\ \/ At(k, "confirm.ask", o) /\ charge[o] \in {"authorised", "executing"}
       \/ At(k, "confirm.execute", o) /\ charge[o] = "executing"
    /\ Proceed(k, "confirm.apply", o, "failed")
    /\ UNCHANGED <<table, forSale, jobs, money, handed, inbox>>

ConfirmApply(k, o) ==
    /\ At(k, "confirm.apply", o)
    /\ Matches(EventOf(call[k].answer, o))
    /\ Apply(call[k].answer, o)
    /\ Return(k)
    /\ UNCHANGED <<forSale, jobs, money, handed, inbox>>

-----------------------------------------------------------------------------
(* Refunding: the gateway first, the database second. *)

(* Mutant: the database first, the gateway afterwards. *)
RefundUnasked(k, o) ==
    /\ Free(k)
    /\ orders[o].status = "paid"
    /\ Proceed(k, "refund.write", o, "none")
    /\ UNCHANGED <<table, forSale, jobs, money, handed, inbox>>

Refund(k, o) ==
    /\ Free(k)
    /\ orders[o].status = "paid"
    /\ Proceed(k, "refund.ask", o, "none")
    /\ UNCHANGED <<table, forSale, jobs, money, handed, inbox>>

(* Stripe knows its key, but not a refund made by hand; the fake refunds
   whatever it is asked to.                                                 *)
RefundedBefore(o) ==
    /\ refund[o] # "none"
    /\ GatewayOf[o] \in RefundsTwice
    /\ refund[o] = "byhand" => GatewayOf[o] = "fake"

(* SSLCommerz may accept a refund and give it no id. *)
RefundIds(o) ==
    IF GatewayOf[o] \in RefundConfirmers THEN {"done", "none"} ELSE {"done"}

(* Without the id of the payment no driver asks. *)
AskRefund(k, o) ==
    /\ At(k, "refund.ask", o)
    /\ orders[o].payment
    /\ \/ /\ refund[o] = "none"
          /\ refund' = [refund EXCEPT ![o] =
                IF GatewayOf[o] \in RefundConfirmers
                THEN "processing" ELSE "returned"]
       \/ RefundedBefore(o) /\ refund' = refund
    /\ \E id \in RefundIds(o) : Proceed(k, "refund.write", o, id)
    /\ UNCHANGED <<table, forSale, jobs, charge, handed, inbox>>

(* There is no payment to refund, or the gateway refuses to refund twice, and
   the request ends in the error.                                           *)
RefundRefused(k, o) ==
    /\ At(k, "refund.ask", o)
    /\ ~orders[o].payment \/ (refund[o] # "none" /\ ~RefundedBefore(o))
    /\ Return(k)
    /\ UNCHANGED <<table, forSale, jobs, money, handed, inbox>>

(* Mutant: whether the order is still to be refunded is not asked again. *)
WriteRefundAgain(k, o) ==
    /\ At(k, "refund.write", o)
    /\ MarkRefunded(o, call[k].answer = "done")
    /\ polls' = IF GatewayOf[o] \in RefundConfirmers
                THEN polls \cup {o} ELSE polls
    /\ Return(k)
    /\ UNCHANGED <<forSale, overdue, failures, money, handed, inbox>>

(* The transaction of a refund that moves the order: with it the enrolment is
   withdrawn and, where the gateway has only accepted, the chase begins.    *)
WriteRefund(k, o) ==
    /\ At(k, "refund.write", o)
    /\ Moves(o, "refunded")
    /\ MarkRefunded(o, call[k].answer = "done")
    /\ polls' = IF GatewayOf[o] \in RefundConfirmers
                THEN polls \cup {o} ELSE polls
    /\ Return(k)
    /\ UNCHANGED <<forSale, overdue, failures, money, handed, inbox>>

(* Somebody refunded it while we were talking to the gateway. *)
RefundAlreadyWritten(k, o) ==
    /\ At(k, "refund.write", o)
    /\ ~Moves(o, "refunded")
    /\ Return(k)
    /\ UNCHANGED <<table, forSale, jobs, money, handed, inbox>>

-----------------------------------------------------------------------------
(* The job that chases an accepted refund. *)

Chasing(o) == \E k \in Calls : \E p \in ChasePhases : At(k, p, o)

(* One worker holds a job at a time.  An order with no refund id has nothing to
   chase, and the job is closed.                                            *)
Chase(k, o) ==
    /\ Free(k)
    /\ o \in polls \ overdue
    /\ ~Chasing(o)
    /\ Proceed(k, IF orders[o].status = "refunded" /\ orders[o].refund
                  THEN "chase.ask" ELSE "chase.close", o, "none")
    /\ UNCHANGED <<table, forSale, jobs, money, handed, inbox>>

(* Mutant: an answer that is not a refusal closes the chase. *)
AskRefundStatusOnce(k, o) ==
    /\ At(k, "chase.ask", o)
    /\ \/ refund[o] = "processing" /\ Proceed(k, "chase.close", o, "none")
       \/ refund[o] = "returned" /\ Proceed(k, "chase.record", o, "done")
       \/ refund[o] = "declined" /\ Proceed(k, "chase.record", o, "declined")
    /\ UNCHANGED <<table, forSale, jobs, money, handed, inbox>>

(* Still processing: the job is snoozed. *)
AskRefundStatus(k, o) ==
    /\ At(k, "chase.ask", o)
    /\ \/ refund[o] = "processing" /\ Return(k)
       \/ refund[o] = "returned" /\ Proceed(k, "chase.record", o, "done")
       \/ refund[o] = "declined" /\ Proceed(k, "chase.record", o, "declined")
    /\ UNCHANGED <<table, forSale, jobs, money, handed, inbox>>

RecordRefund(k, o) ==
    /\ At(k, "chase.record", o)
    /\ trail' = trail \cup
          {<<IF call[k].answer = "declined" THEN "order.refund_failed"
             ELSE "order.refund_confirmed", o>>}
    /\ Proceed(k, "chase.close", o, "none")
    /\ UNCHANGED <<orders, enrolments, forSale, jobs, money, handed, inbox>>

CloseChase(k, o) ==
    /\ At(k, "chase.close", o)
    /\ polls' = polls \ {o}
    /\ Return(k)
    /\ UNCHANGED <<table, forSale, overdue, failures, money, handed, inbox>>

(* A run of the job fails where it stands, and the queue tries again until it
   has failed too often.  A snooze is no failure.                           *)
FailRun(k, o) ==
    /\ \E p \in ChasePhases : At(k, p, o)
    /\ failures' = [failures EXCEPT ![o] = @ + 1]
    /\ polls' = IF failures[o] + 1 < ChaseAttempts THEN polls ELSE polls \ {o}
    /\ Return(k)
    /\ UNCHANGED <<table, forSale, overdue, money, handed, inbox>>

(* Seven days pass. *)
ReachCeiling(o) ==
    /\ o \in polls
    /\ overdue' = overdue \cup {o}
    /\ UNCHANGED <<table, forSale, polls, failures, money, call, handed, inbox>>

GiveUpChase(o) ==
    /\ o \in polls \cap overdue
    /\ ~Chasing(o)
    /\ polls' = polls \ {o}
    /\ UNCHANGED <<table, forSale, overdue, failures, money, call, handed, inbox>>

-----------------------------------------------------------------------------
(* What else reaches the enrolment of a seat. *)

SetRow(s, row) ==
    /\ enrolments' = [enrolments EXCEPT ![s] = row]
    /\ UNCHANGED <<orders, trail, forSale, jobs, money, handed, inbox>>

(* Enrolling reads whether the course has a price and whether the learner is on
   it already, since one with a price is bought otherwise, and writes the row
   in a later statement.                                                    *)
Enrol(k, s) ==
    /\ Free(k)
    /\ CourseOf[s] \notin forSale \/ Live(enrolments[s])
    /\ Proceed(k, "enrol.write", s, "none")
    /\ UNCHANGED <<table, forSale, jobs, money, handed, inbox>>

UpsertEnrolment(k, s) ==
    /\ At(k, "enrol.write", s)
    /\ SetRow(s, Upserted(enrolments[s], "self"))
    /\ Return(k)

(* A grant that finds a row is refused, and rolled back. *)
Grant(s) ==
    /\ ~Exists(enrolments[s])
    /\ SetRow(s, Upserted(enrolments[s], "granted"))
    /\ UNCHANGED call

Import(s) ==
    /\ SetRow(s, Upserted(enrolments[s], "import"))
    /\ UNCHANGED call

(* A bundle's grant enrols whether or not there is a row already. *)
GrantCourses(s) ==
    /\ SetRow(s, Upserted(enrolments[s], "granted"))
    /\ UNCHANGED call

(* Cancel is two statements: it reads the row to see that it is no purchase,
   and then cancels it.                                                     *)
MayLeave(s) == Exists(enrolments[s]) /\ enrolments[s].source # "purchase"

Cancel(k, s) ==
    /\ Free(k)
    /\ MayLeave(s)
    /\ Proceed(k, "cancel.write", s, "none")
    /\ UNCHANGED <<table, forSale, jobs, money, handed, inbox>>

CancelEnrolment(k, s) ==
    /\ At(k, "cancel.write", s)
    /\ IF MayCancel(enrolments[s])
       THEN SetRow(s, Cancelled(enrolments[s]))
       ELSE UNCHANGED <<table, forSale, jobs, money, handed, inbox>>
    /\ Return(k)

(* Finishing the last lesson: one statement decides that the learner is on
   the course, a later one completes the enrolment.                         *)
FinishLesson(k, s) ==
    /\ Free(k)
    /\ Live(enrolments[s])
    /\ Proceed(k, "finish.write", s, "none")
    /\ UNCHANGED <<table, forSale, jobs, money, handed, inbox>>

CompleteEnrolment(k, s) ==
    /\ At(k, "finish.write", s)
    /\ IF MayComplete(enrolments[s])
       THEN SetRow(s, Completed(enrolments[s]))
       ELSE UNCHANGED <<table, forSale, jobs, money, handed, inbox>>
    /\ Return(k)

Reopen(s) ==
    /\ MayReopen(enrolments[s])
    /\ SetRow(s, Reopened(enrolments[s]))
    /\ UNCHANGED call

(* The same two transactions with nothing between their statements. *)
CancelSerially(s) ==
    /\ MayLeave(s) /\ MayCancel(enrolments[s])
    /\ SetRow(s, Cancelled(enrolments[s]))
    /\ UNCHANGED call

CompleteSerially(s) ==
    /\ Live(enrolments[s]) /\ MayComplete(enrolments[s])
    /\ SetRow(s, Completed(enrolments[s]))
    /\ UNCHANGED call

-----------------------------------------------------------------------------
Pricing == \E c \in Courses : SetPrice(c) \/ ClearPrice(c)

GatewaySteps ==
    \E o \in Orders :
        \/ LearnerPays(o) \/ LearnerGivesUp(o)
        \/ BkashExecutes(o)
        \/ \E other \in Orders : EditMetadata(o, other)
        \/ RefundByHand(o) \/ GatewaySettlesRefund(o)

CallSteps ==
    \E k \in Calls :
        \/ CutOff(k)
        \/ \E o \in Orders :
            \/ Buy(k, o) \/ OpenCheckout(k, o) \/ AttachSession(k, o)
            \/ Confirm(k, o) \/ AskOutcome(k, o) \/ BkashExecute(k, o)
            \/ BkashExecuted(k, o) \/ BkashNotCompleted(k, o)
            \/ ConfirmApply(k, o)
            \/ Refund(k, o) \/ AskRefund(k, o) \/ RefundRefused(k, o)
            \/ WriteRefund(k, o) \/ RefundAlreadyWritten(k, o)
            \/ Chase(k, o) \/ AskRefundStatus(k, o) \/ RecordRefund(k, o)
            \/ CloseChase(k, o) \/ FailRun(k, o)

JobSteps == \E o \in Orders : ReachCeiling(o) \/ GiveUpChase(o)

Sales ==
    \/ Pricing \/ GatewaySteps \/ CallSteps \/ JobSteps
    \/ \E e \in inbox : Deliver(e)
    \/ \E k \in Calls : \E s \in Seats : Enrol(k, s) \/ UpsertEnrolment(k, s)
    \/ \E s \in Seats :
          Grant(s) \/ GrantCourses(s) \/ Import(s) \/ Reopen(s)

(* Every statement of a transaction sees what others committed before it:
   the database runs at READ COMMITTED.                                     *)
Next ==
    \/ Sales
    \/ \E k \in Calls : \E s \in Seats :
          \/ Cancel(k, s) \/ CancelEnrolment(k, s)
          \/ FinishLesson(k, s) \/ CompleteEnrolment(k, s)

Spec == Init /\ [][Next]_vars

(* Cancelling and finishing, which read an enrolment and write it later, run
   with nothing between.                                                    *)
SerialNext ==
    \/ Sales
    \/ \E s \in Seats : CancelSerially(s) \/ CompleteSerially(s)

SerialSpec == Init /\ [][SerialNext]_vars

(* A gateway delivers a webhook again until it is acknowledged. *)
Acknowledged(e) == Deliver(e) /\ inbox' = inbox \ {e}
Delivery == \A e \in Events : WF_vars(Acknowledged(e))

FairSerialSpec == SerialSpec /\ Delivery

(* The best a school can do: it asks again for a refund it has not seen
   recorded, is not cut off every time, and no request lasts for ever.  Nothing
   in the program makes anybody do so; CommerceRefundStuck shows that it would
   not help.                                                                *)
Retries ==
    \A o \in Orders :
        /\ SF_vars(\E k \in Calls : refund[o] # "none" /\ Refund(k, o))
        /\ \A k \in Calls :
              /\ SF_vars(AskRefund(k, o)) /\ SF_vars(WriteRefund(k, o))

Deadlines == \A k \in Calls : WF_vars(CutOff(k))

RetryingSpec == FairSerialSpec /\ Retries /\ Deadlines

-----------------------------------------------------------------------------
(* Safety. *)

SettledMeansCharged ==
    \A o \in Orders :
        orders[o].status \in {"paid", "refunded"} => charge[o] = "taken"
RefundedMeansReturned ==
    \A o \in Orders : orders[o].status = "refunded" => refund[o] # "none"
ChargedMeansAttached ==
    \A o \in Orders :
        charge[o] \notin {"none", "open"} => orders[o].session

(* What the orders say of the money is so.  An order is settled only when the
   gateway has taken the money of that very order: an event whose metadata was
   pointed at somebody else's settles nothing.  It is refunded only after the
   gateway was asked and agreed, whichever of two racing refunds, or the
   webhook, writes it.  And nobody can pay on a checkout the order does not
   know, so that every event about money finds the session attached.        *)
MoneyIsReal ==
    SettledMeansCharged /\ RefundedMeansReturned /\ ChargedMeansAttached

(* What makes it inductive.  One call at a time is buying on an order,
   and before it has opened the checkout nothing is charged; a URL is handed
   out only with its session attached; every message in flight that says paid
   is about money taken, and every one that says refunded, and every refund
   about to be written, is about a refund that was asked for.               *)
Buying(k, o) == At(k, "buy.open", o) \/ At(k, "buy.attach", o)

OneBuyer ==
    \A k, l \in Calls : \A o \in Orders :
        Buying(k, o) /\ Buying(l, o) => k = l

BuyingIsWritten ==
    \A o \in Orders :
        /\ orders[o].status = "absent" => charge[o] = "none"
        /\ \A k \in Calls :
              /\ Buying(k, o) => orders[o].status # "absent"
              /\ At(k, "buy.open", o) => charge[o] = "none"

HandedIsAttached == \A o \in handed : orders[o].session

SaidIsTrue ==
    /\ \A e \in inbox :
          /\ e.kind = "paid" => charge[e.session] = "taken"
          /\ e.kind = "refunded" => refund[e.order] # "none"
    /\ \A k \in Calls : \A o \in Orders :
          /\ At(k, "confirm.apply", o) =>
                /\ call[k].answer \in {"paid", "failed"}
                /\ call[k].answer = "paid" => charge[o] = "taken"
          /\ At(k, "refund.write", o) => refund[o] # "none"

MoneyFollowed ==
    /\ TypeOK
    /\ SettledMeansCharged /\ RefundedMeansReturned /\ ChargedMeansAttached
    /\ OneBuyer /\ BuyingIsWritten /\ HandedIsAttached /\ SaidIsTrue

Answered(o) ==
    \/ <<"order.refund_confirmed", o>> \in trail
    \/ <<"order.refund_failed", o>> \in trail

(* A refund that is only accepted, and came with an id, is chased until the
   gateway's answer is in the audit trail, the ceiling of seven days is reached,
   or as many runs have failed as the queue allows a job: a snooze, a crash or a
   repeated request never lets go of it sooner.  One that came without an id is
   not chased at all.  commerce/jobs.go, Work and InsertOpts;
   commerce/service.go, ConfirmRefund.                                      *)
RefundIsChased ==
    \A o \in Orders :
        /\ orders[o].status = "refunded" /\ orders[o].refund
        /\ GatewayOf[o] \in RefundConfirmers
        => \/ o \in polls \/ Answered(o)
           \/ o \in overdue \/ failures[o] >= ChaseAttempts

(* What makes it inductive.  A job, queued or at work, is about a refunded
   order; a worker closes it only on an answer, or for want of an id; and no
   webhook refunds such an order behind the job's back.                     *)
ChaseKept ==
    /\ RefundIsChased
    /\ \A o \in polls : orders[o].status = "refunded"
    /\ \A k \in Calls : \A o \in Orders : At(k, "chase.close", o) =>
          Answered(o) \/ (orders[o].status = "refunded" /\ ~orders[o].refund)
    /\ \A e \in inbox :
          e.kind = "refunded" => GatewayOf[e.order] \in Webhookers

(* No event, in any order and however often delivered, takes an order out of
   a terminal status, or out of paid other than by a refund.                *)
TerminalStays ==
    [][\A o \in Orders :
        LET before == orders[o].status
            after  == orders'[o].status
        IN  /\ before \in {"failed", "refunded"} => after = before
            /\ before = "paid" => after \in {"paid", "refunded"}
            /\ before = "pending" => after # "absent"]_orders

(* The order that is the only one of its seat ever paid for has its learner
   enrolled, for as long as it stays paid.                                  *)
PaidMeansEnrolled ==
    \A o \in Orders :
        /\ orders[o].status = "paid"
        /\ \A p \in Orders \ {o} :
              SeatOf[p] = SeatOf[o] => orders[p].status \notin {"paid", "refunded"}
        => Live(enrolments[SeatOf[o]])

LosesPurchase(s) ==
    /\ Live(enrolments[s]) /\ enrolments[s].source = "purchase"
    /\ ~Live(enrolments'[s])
RefundedOn(s) ==
    \E o \in Orders :
        /\ SeatOf[o] = s
        /\ orders[o].status = "paid" /\ orders'[o].status = "refunded"

(* A learner who bought a place loses it only in the transaction that marks
   an order for it refunded.                                                *)
PurchaseKept == [][\A s \in Seats : LosesPurchase(s) => RefundedOn(s)]_vars

(* At READ COMMITTED there is one more way, and no other: a cancel that asked
   about the row before it was bought.                                      *)
LostOnlyToCancel ==
    [][\A s \in Seats : LosesPurchase(s) =>
            RefundedOn(s) \/ \E k \in Calls : CancelEnrolment(k, s)]_vars

(* The abstract sale: an order is decided by its status, access is a live row,
   and a seat was bought when its row says so.                              *)
Sale == [o \in Orders |->
    LET status == orders[o].status
    IN  IF status = "paid" THEN "sold"
        ELSE IF status = "refunded" THEN "returned"
        ELSE IF status = "failed" THEN "void" ELSE "open"]
Access == {s \in Seats : Live(enrolments[s])}
Bought == {s \in Seats : enrolments[s].source = "purchase"}

Abstract == INSTANCE Shop WITH sale <- Sale, access <- Access, bought <- Bought

(* The sale keeps its promise: settling an order and opening the course are one
   step, refunding and withdrawing are one step, and neither is undone by
   whatever else reaches the enrolment.                                     *)
KeepsShop == Abstract!Spec

(* "A refunded order whose learner still has the course is a school giving its
   work away by accident": whom a refund withdrew gets the course back by being
   let in anew, never by a lesson whose request was under way.
   commerce/service.go, Refund; enroll/service.go, completeLessonIn.        *)
RefundedStaysOut ==
    [][\A o \in Orders :
        orders[o].status = "refunded" /\ ~Live(enrolments[SeatOf[o]])
            => enrolments'[SeatOf[o]].status # "completed"]_vars

-----------------------------------------------------------------------------
(* Liveness. *)

(* Money taken by a gateway with webhooks settles its order, however the
   events are ordered or repeated.                                          *)
TakenIsSettled ==
    \A o \in Orders :
        (charge[o] = "taken" /\ GatewayOf[o] \in Webhookers)
            ~> orders[o].status \in {"paid", "refunded"}

(* A refund the gateway announces ends in an order marked refunded, though its
   event overtakes the payment's, is repeated or is refused at first - unless
   another order of the seat was refunded: the first refund withdraws the only
   enrolment there is.  commerce/service.go, apply.                         *)
RefundAnnounced(o) == \E e \in inbox : e.kind = "refunded" /\ e.order = o
RefundIsHeard ==
    \A o \in Orders :
        RefundAnnounced(o) ~> \E p \in Orders :
            SeatOf[p] = SeatOf[o] /\ orders[p].status = "refunded"

(* The comment of Refund: the gateway's own key and WHERE status = 'paid' "make
   the retry safe".  Money given back at the school's asking would then end in
   an order marked refunded, if the school asks again for as long as it is not.
   It does not when two orders of one seat are paid and both given back.     *)
ReturnedIsRefunded ==
    \A o \in Orders :
        (refund[o] = "returned" /\ GatewayOf[o] \in RefundsTwice)
            ~> orders[o].status = "refunded"
=============================================================================
