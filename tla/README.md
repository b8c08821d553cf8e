# muallim-api in TLA+

Specifications of the Go program in this repository, the configurations TLC
checks them with, and theorems TLAPS has checked about them. Every definition
is translated from the source; `PROJECT.json` names, for each, the file and the
lines (`map`), and lists the runs, the mutants that show a property can fail,
the findings, the hazards and the theorems.

## The system

muallim-api serves many schools ("workspaces", tenants) from one PostgreSQL
database. An API process (`cmd/api`) translates HTTP into calls of services;
each service does its work in one transaction bound to the tenant
(`internal/platform/database`), at READ COMMITTED, and queues River jobs in the
same transaction; a worker process (`cmd/worker`) runs the jobs, at least once.
Packages do not import each other: what one needs of another is an interface it
declares and `cmd/api` satisfies. So the interactions to model are calls inside
one transaction, calls to gateways and stores outside any, jobs, and rows of one
package written under another's nose.

| component | state | operations | hard part | what makes it correct | module |
|---|---|---|---|---|---|
| commerce | orders, prices, audit trail, refund jobs | buy, webhook, callback, refund, chase a refund | gateway calls between transactions; events lost, repeated, reordered; crashes | settlement follows the money; a payment and its enrolment go together; a refund is chased as long as its job may be | Commerce, Shop |
| enroll | enrolments, lesson_progress, course_progress | enrol, grant, import, cancel, reopen, complete a lesson | read-then-write transactions; roll-up counted in a snapshot | a bought place is kept; status, roll-up and certificate agree | EnrolmentRows, Commerce, Progress, Prerequisites |
| certify | certificates | issue on completion | must be issued with the status | one, never before completion | Progress |
| gamify | awards, points, badges | award a lesson, a course | badge counts at READ COMMITTED | standing is what the awards earn | Rewards, Progress |
| catalog | courses, topics, lessons, positions, prerequisites | author, reorder, require | edits under learners' progress; positions and loops decided on a snapshot | progress right after the next lesson; order kept; no loop | Progress, Syllabus, Prerequisites |
| assess | quizzes, questions, attempts, answers, grading jobs | start, save, submit, grade, mark, edit | late saves, rerun jobs, two markers, edits meanwhile | no verdict over unmarked work; marks are kept | Attempts |
| grade | grade_items, grade_entries | record a score, keep the highest | attempts graded out of order; two writers | the best attempt, or the last mark, is shown | Attempts, Handins |
| assign | assignments, submissions, files | upload, attach, hand in, mark, edit, remove | upload while handing in; marks under an edit | handed-in work does not change; gradebook agrees | Handins |
| auth | memberships, sessions, reset links, invitations | register, log in, refresh, log out, reset, change, invite, promote, remove | refresh races revocation; last owner; letters used twice | an owner remains; a letter works once; the sessions of a changed password are ended, here and by a job | Sessions |
| admissions, academics (roll) | applications, students, guardians | apply, decide, admit, remove | one click, four transactions | a student comes of an accepted application, one at most of one admitted alone | Campus |
| library, hostel | counters beside rows | lend/return, allocate/vacate | the last copy or bed; cascades | counters cover the rows | Campus |
| tenant, platform/cache | the map of resolved hosts | get or load, store, evict, invalidate | misses that join one load; clients that hang up | bounded size and staleness, no needless load | Cache |
| platform/ratelimit | buckets | allow, purge | clock read outside the lock; full map | budget per key, bounded map, honest Retry-After | Limiter |
| notify | bells, preferences, digests | announce, record, read, sweep | bells come and go under the sweep; retried jobs | one mail each | Inbox |
| worker, platform/database | the queue, transactions | run, retry, snooze | at least once | folded into the modules above | — |
| chat | conversations, members, messages; sockets in memory | open, join, send, register, subscribe, announce, dispatch | a listener per process, writes outside the hub's lock, presence announced outside it, missed NOTIFY | one order for everybody; presence is told as it is | Chat |
| fees, payroll, transport | invoices, payslips, seats on a route | issue, pay, assign | none: one guarded statement each | once each | not modelled |
| the rest | single rows | single statements | none a model would reach | — | not modelled |

`PROJECT.json` lists every package under `components`, each with a note that
says which of its operations the modules leave out, or why there is none.

## Modules

```
EnrolmentRows ─┬─ Commerce ──┬── MCCommerce ── CommerceSerial, CommerceRefundStuck,
               │     │       │                 CommerceCancelRace, CommerceFinishRace
               │   Shop (INSTANCE)             proofs: CommerceProofs, Shop
               └─ Progress ──┼── MCProgress ── ProgressRace
      Rewards ───────────────┤                 proofs: ProgressProofs (and Rewards)
      Chat ──────────────────┤
      Attempts ─┬────────────┼── MCAttempts ── AttemptsMarkRace;  proofs: AttemptsProofs
                │            └── MCLearner ─── Learner;           proofs: ChatProofs
      Cache ────┼─────────────── MCCache ───── CacheHangup
      Syllabus ─┤
      Prerequisites ─────────── MCPrerequisites ── WayForward
      Inbox ────┴─────────────── MCClassroom ─ Classroom;         proofs: ClassroomProofs
      Limiter ──┐
      Campus ───┤
      Handins ──┤
      Sessions ─┴─────────────── MCWorkspace ─ Workspace, KeepsItsBrowser
                                               proofs: SessionsProofs, WorkspaceProofs
```

Each module has its own `...Init`, `...Next`, `...Spec` and `...TypeOK`
(Commerce's are plain `Init`, `Next`, `Spec`, `TypeOK`).

**Desks.** Three runs check several modules in one go. Their MC module has a
variable `desk`, chosen at the start and never changed, and a step is a step of
the module at that desk while all other variables rest. This is sound because
the modules put together share no variable: their tables are written by
packages that do not write each other's, and a property of one says nothing of
another's. The states of the modules add up instead of multiplying, and every
module is checked as if it ran alone; `ClassroomDesks`, `WorkspaceDesks` and
`LearnerDesks` prove that a behaviour of the whole is one of each part. Where two
packages do write the same rows, they are in one module: commerce with enroll,
enroll with certify and gamify, assess and assign with grade, admissions with
academics, hostel and library.

### EnrolmentRows
The row of `enrolments` and, one operator each, the statements that write it:
`Upserted` (the upsert that lets somebody in, with the source it keeps or
replaces), `Cancelled`, `Completed` and `Reopened` with the guards of their
WHERE clauses. Commerce and Progress share it, so both speak of the same row.

### Commerce
An order's life across packages `commerce` and `enroll` and the four gateway
drivers. `orders`, `enrolments`, `forSale` (course_prices), `polls` (the River
jobs, with `failures`, how many of their runs failed, and `overdue`) and `trail`
(audit entries) are tables; `call` holds what each request or
job is in the middle of; `handed`, `charge`, `refund` and `inbox` are the outside
world: checkout pages with the learner, the gateway's own account of the
money, and the events it is still delivering.

* `Buy` / `OpenCheckout` / `AttachSession` are the three parts of
  `Service.Buy`: a transaction, the driver's `Checkout`, a second transaction.
  `Confirm` .. `ConfirmApply` are the callback (bKash executes, then asks);
  `Deliver` is a webhook through `apply`; `Refund` .. `WriteRefund` is
  `Service.Refund`; `Chase` .. `CloseChase` and `GiveUpChase` the worker that
  asks what became of a refund, until the ceiling of seven days (`ReachCeiling`)
  or until `FailRun` has failed it `ChaseAttempts` times (20 in the program,
  which at River's backoff is sooner than the ceiling; a snooze is no failure).
* `CutOff` ends a request anywhere between its parts: a crash, a deadline, a
  client gone. A message stays in `inbox` when its delivery is not
  acknowledged, so every event may be repeated and reordered; `EditMetadata`
  lets the owner of the gateway account repoint an event at another order.
* Drivers differ by capability, as in the source: webhooks (`fake`, `stripe`)
  or a callback that asks (`bkash`, `sslcommerz`), refunds that are final or
  only accepted (`sslcommerz`), and repeated refunds answered again or refused.
  A payment may come without its id (`MayOmitPayment`) and then cannot be
  refunded; SSLCommerz may accept a refund and name none, and then nothing
  chases it. `RefundByHand` is the owner's dashboard: the fake sends an event
  for it, Stripe one that its driver ignores, the other two none.
* `Enrol`/`UpsertEnrolment`, `Cancel`/`CancelEnrolment` and
  `FinishLesson`/`CompleteEnrolment` are transactions of `enroll` that read the
  row and write it in a later statement. `Spec` interleaves them (READ
  COMMITTED); `SerialSpec` runs each of the last two as one step.

### Shop
The abstract sale: `sale`, `access`, `bought`, with `Sell`, `Void`, `Return`,
`Admit` and `Leave`. `Commerce!KeepsShop` says that `SerialSpec` implements it:
an order's status is its sale, a live row is access, a row whose source is a
purchase is bought. The point of the abstraction is atomicity: selling and
letting in are one step, and nothing but a return takes a bought place away.

### Progress
One learner, one course, and any number of lesson requests in flight. A request
is the statements of one transaction (`Decide`, mark, award, count, write) with
the locks it takes on the way: its mark locks the lesson's row, and a lesson
finished for the first time locks the learner's row of points
(`enroll` → `gamify.AwardLesson`). The counting statement reads the snapshot of
its beginning. Around them `enroll` lets the learner in and out, and
the author adds and deletes lessons and sets the drip, without recounting
anybody. `met` is a history variable that says a transaction shared the course
with another.

### Rewards
What the same transactions do to a learner's points and badges: the insert of
an award that waits on the index for another's uncommitted one (`InsertAward`),
the upsert of the total (`AddPoints`), the counting of lessons and courses for
`first_lesson`, `graduate` and `honor_roll` (`GrantBadge`), commit and abort.
The point is the order of locks: badges are counted at READ COMMITTED, and come
out right only because the total was written, and its row locked, first.

### Attempts
One learner at one quiz: `start`, `save` and submit by the learner, the grading
job, two-step marking by people, the author adding and deleting questions and
moving the bar, and the gradebook of package `grade` with its keep-the-highest
upsert. A transaction is split where another may come between its statements.
Every question is worth one point, so sums are cardinalities. A quiz's
deadline appears as a save that need not happen. A run of the job that fails
(`GradeFails`) is tried again until `GradeAttempts` of them have (10 in the
program), and then the queue discards the job and the attempt stays in
`grading`. A run reads the attempt, its questions and its answers in three
statements; they are one action, `GradeReads`, because what may change between
them - a late save, the author - may change as well before the run began or
before it writes. Author steps are atomic.

### Handins
One assignment and one learner's work: presigning, uploading and confirming a
file (the object store is asked between two statements of the transaction that
holds the draft), removing one, handing in, marking with the gradebook's copy,
and the assignment created, edited, past its deadline and removed with its
cascade. `lock` is the row of the submission, which `OpenDraft` takes by an upsert
that changes nothing.

### Sessions
Package `auth`: who is a member of which workspace with which role, and which
sessions are live. `Register`/`Claim`, `Login`/`FinishLogin`, `Refresh` with
`CheckMember`, `Rotate` and `HandleReuse`, `Logout`, `Expire`; reset links
(`RequestPasswordReset` .. `ResetPassword`) and changed passwords, both with the
job that ends sessions in other workspaces (`WorkRevocation`,
`RevokeEverywhere`, and `FailRevocation`, which queues the job again until
`RevokeAttempts` of its runs have failed, 10 in the program); invitations; changes
of role and removals under the lock on a workspace's memberships. `doomed` is a
history variable: the sessions that were there when their user's password was
set, but for those whose job failed for the last time. Ending sessions is one
UPDATE that chooses its rows in a snapshot, so one inserted meanwhile escapes
it: a refresh that read its session before a logout, a detected reuse, a reset
or the job revoked the family puts a live successor beside it. The model has
those behaviours, and no property excludes them, since the code does not.

### Campus
The school's office: applications and their three outcomes, the admit handler
of `httpapi` as the four transactions it is (`OpenAdmission`, `AdmitApplicant`,
`AddGuardian`, `MarkAdmitted`, with `CutClerk` between any two), students and
their removal with its cascades, rooms and books with the counters kept in their
own rows. Lending, returning, allocating and vacating hold the counter's row to
the end, so each is one action. `disturbed` is a history variable: the
applications two clerks were admitting at once, or whose admission was cut short
when it had created the student.

### Cache
`platform/cache.GetOrLoad` under the host lookup of `tenant`: look, join or lead
a flight (singleflight is a library, modelled as it is used), look again, load,
store with eviction, deliver. Clients hang up at any time, queries fail, hosts
are registered and given up, and an invalidation may come anywhere. Time is a
clock of ticks; `Slowest` bounds the time between the database's read and the
delivery (the program's statement timeout is 5 s, the lifetime 5 min by default
and a quarter of it for errors). A lifetime of zero bypasses the cache and is
not modelled; `Clear` has no caller.

### Limiter
`platform/ratelimit`: a request reads the clock (`Arrive`) and later takes the
mutex (`Allow`), so buckets may see time go back; a full map purges what is
full again and, if everything is busy, is cleared. Tokens are counted in the
ticks it takes to earn them.

### Syllabus, Prerequisites, Inbox
`Syllabus` is the order of topics (or lessons: the same statements) under
concurrent appends, deletes and reorders, with the deferred unique constraint
asked at the commit. `Prerequisites` is the check for loops in one statement
and the insert in a later one, and the learner that `enroll` lets onto a course
by it. `Inbox` is the bells: the fan-out job that may run again, bells recorded
in an event's transaction, read and silenced, and the daily sweep that gathers in
one statement and stamps in later ones.

### Chat
One conversation of package `chat` and the hub of `httpapi` its messages are
heard through. `kind`, `members` and `text` are the tables (`EnsureCourseChannel`,
`EnsureDirect`, `CreateGroup`, `EnsureMember`, `AddMember`, `RemoveMember`,
`InsertMessage`); `queue` is what Postgres keeps of the NOTIFYs (`PublishMessage`,
`AnnouncePresence`, either of which may fail); each process has a listener
(`reached`, `DropListener`, `Listen`) and writes one notification at a time to the
sockets it collected under the lock (`Dispatch`, `Send`, `WriteFails`). `socket` is
what a handler is doing: `Register`, `IsMember`/`Subscribe`, `Unregister`. `Stop`
ends a process and says nothing to anybody. `joined` (who was ever a member) and
`crossed` (of whom two announcements may cross, or one was lost) are history
variables. Typing signals are kept nowhere and left out; a ticket is good in the
process that minted it, so a socket opens in that one.

## Runs

| run | instance | states | shows |
|---|---|---|---|
| CommerceSerial | 2 orders of one seat (fake, bkash), or 1 (sslcommerz); 2 calls, 2 tries of a refund job, `FairSerialSpec` | 328 408 | a paid order's learner is enrolled; Commerce implements Shop; an accepted refund is chased; money taken settles; a refund announced is recorded |
| Learner | sale: 2 orders of one seat (fake, sslcommerz), 2 calls, 1 try of a refund job; lessons: 2, one of them edited, 2 transactions; rewards: 2 lessons, 3 courses, honour roll at 2, 2 transactions; quiz: 2 attempts, a choice and an editable essay, bar 50, 1 request, 1 worker, 2 markers; messages: 2 people, 2 messages, 2 processes; presence: 2 people, 3 sockets, 2 processes | 1 467 784 | money, roll-up, standing, gradebook and conversation: the properties below |
| Workspace | limiter: 3 addresses, 2 requests, burst 1, a token every 2 ticks, room for 2, 5 ticks; campus: 2 students, 1 application, 2 clerks, a room and a book of 0 or 1; auth: 2 people, 2 workspaces, 1 reset link, 1 invitation, 2 requests, 1 worker, 2 sessions; hand-ins: 2 uploads, 2 requests, limit 1 | 1 266 656 | budgets, counters, admissions, owners, letters, revocations, files and marks |
| Classroom | quiz: 1 attempt, a choice and 2 essays, bars 50 and 100, 1 request, 1 worker, 2 markers; host: 2 hosts, 2 callers, room for 1, lifetimes 1 and 0, clock to 2; syllabus: 3 topics, 2 authors; prerequisites: 3 courses, 2 authors; inbox: 2 people, an announcement and an event | 2 133 842 | grading jobs, marks, the cache, the order of topics, loops, digests |
| CommerceRefundStuck | 2 orders of one seat (fake), 1 call, `FairSerialSpec` | violation | a seat sold twice: the second payment is returned and never recorded, though the school keeps asking |
| CommerceCancelRace | 1 order (stripe), 1 call, READ COMMITTED | violation | a cancel withdraws a purchase that landed in between |
| CommerceFinishRace | 1 order (stripe), 2 calls, READ COMMITTED | violation | a lesson under way brings back whom a refund withdrew |
| ProgressRace | 2 lessons, 2 transactions | violation | the roll-up loses one of two lessons touched at once |
| AttemptsMarkRace | 2 essays, 2 markers | violation | two last marks at once leave the attempt awaiting review |
| CacheHangup | 1 host, 2 callers, clock to 2 | violation | a waiter is answered with another client's cancellation |
| KeepsItsBrowser | the passwords part of Workspace | violation | a change of password ends the session it promises to keep |
| WayForward | 3 courses, 2 authors | violation | two authors close a loop nobody can enter |

What the passing runs check, by module:

* Commerce: `MoneyIsReal`, `RefundIsChased`, `TerminalStays`, `LostOnlyToCancel`
  (READ COMMITTED);
  `PaidMeansEnrolled`, `KeepsShop`, and `RefundIsChased` again (`SerialSpec`);
  `TakenIsSettled`, `RefundIsHeard` (liveness, `FairSerialSpec`).
* Progress: `StatusFollowsRollup`, `AloneAgrees`. Rewards: `StandingIsEarned`.
* Attempts: `BestIsKept`, `PassIsSettled` (two attempts, Learner);
  `GradingHasJob`, `GradedMeansMarked`, `HandMarksStay` (three questions,
  Classroom).
* Handins: `NothingAttachedLate`, `WithinLimit`, `MarkAgrees`.
* Sessions: `OwnerRemains`, `SpentOnce`, `RevocationIsChased`.
* Campus: `NeverOverdrawn`, `AdmittedOnce`.
* Limiter: `WithinBudget`, `MapIsBounded`, `RetryIsHonoured`.
* Cache: `LoadsAreNeeded`, `SizeIsBounded`, `AnswersAreRecent`,
  `WaitersHaveFlight`.
* Syllabus: `OrderIsKept`. Prerequisites: `AloneStaysAcyclic`. Inbox:
  `MailedOnce`.
* Chat: `HeardInOneOrder`, `PresenceIsTrue`.

Why these bounds. They are what the races met while reading need, each of them
between two requests: two calls, transactions, markers, clerks or authors show
it. That there is no race of three is not shown by the runs; what is claimed of
any number of requests is what the theorems prove. A job that may fail twice
fails once and is tried again, and fails for good: the refund job in
CommerceSerial, the revocation job in Workspace, the grading job in Classroom
(the refund and grading jobs of Learner, which is about other things, may fail
once). A second order of the same
seat is what a refund, a repeated purchase and a mistaken event need, and a
third would only repeat the second; `Batches`, a bound of the model and not of
the program, says which orders one behaviour may hold, so that one run sees every
driver but not all of them at once. A learner has one quiz in a tab, so one
request races the job and the markers; `start` and `save` of two tabs are in the
theorems. One of the two people forgets and changes a password (`MaxJobs`, how many
revocation jobs of a user may be queued at once, is 1 for that one and 0 for
the other), and the limit of an assignment's files is 1, which two uploads
contend for; that edits of it do no harm is `WithinLimit`'s theorem. A loop that two authors close needs a third
course to be more than a pair; three questions leave one outside two marks; three
topics leave one outside a swap. One entry and two hosts force eviction, two
buckets and three addresses force the purge. Two messages and two processes are
what an order can differ in; three sockets are the first, another and the last
of a person, or two people and one who watches. Two people and two workspaces are
what the last owner, and sessions elsewhere, need. The clocks (`MaxTime`,
`LastTick`) outlast the longest lifetime, so entries expire and buckets refill
more than once. With a lifetime of 1, a load of at most 1 and a clock to 2,
`AnswersAreRecent` can be broken in the run only by an unknown host remembered
too long; that a known one is not is `BoundedStaleness`, for every lifetime. What does not depend on the instance is proved below for every
value of the constants. Requests, markers, callers, hosts, processes, messages
and transactions are symmetric (nothing tells them apart), and symmetry is used
only in runs without liveness. Workspace compares states without `kept`
(`WithoutKept`), a history variable that only KeepsItsBrowser reads and no
action does.

Passing runs check for deadlock, except Workspace (and KeepsItsBrowser, which
shares its module): the limiter's clock and the office's ids run out within the
bounds, and there the model, not the program, stops.

### Fairness
CommerceSerial assumes one thing, and CommerceRefundStuck, whose property is
refuted all the same, three:

* `Delivery`: a gateway repeats a webhook until it is acknowledged — the drivers
  answer 200 only after the transaction of `apply` committed (Stripe's
  contract, which the webhook handler relies on).
* `Deadlines`: no request lasts for ever (server timeouts, context deadlines).
* `Retries`: a school that asked for a refund and does not see it recorded
  asks again, and is not cut off every time. This is about people, nothing in
  the program makes them, and no property that passes rests on it: it is there
  so that the counterexample is not that nobody asked again.

Money taken is only promised to be settled for gateways with webhooks. With
bKash and SSLCommerz the learner's browser coming back is the one delivery
there is, and nothing makes it come.

### Where the code and its comments part
Eight runs reach a state that a comment says cannot be; `findings` in
`PROJECT.json` quotes them. In short:

1. `Buy` refuses a seat already *paid*, not one with another checkout open, so a
   learner can pay twice; refunding the first withdraws the enrolment, and the
   refund of the second then finds none to withdraw and rolls back, every time
   (CommerceRefundStuck).
2. `Cancel` checks the source and cancels in two statements; a purchase between
   them is withdrawn (CommerceCancelRace). Nothing else takes a bought place
   (LostOnlyToCancel).
3. A lesson finds the learner on the course in one statement, and the last one
   completes the row `WHERE status <> 'completed'`, which a row cancelled in
   between satisfies: whom a refund withdrew is on the course again, as one who
   completed it (CommerceFinishRace). Nothing else completes a withdrawn row
   (BackByFinishingAlone).
4. `RecomputeProgress` counts in its own snapshot. Two lessons finished for the
   first time take turns on the row of points; one reopened, or finished again,
   takes no turn, and then the roll-up is one off until the next lesson
   (ProgressRace). The learner is never certified on a roll-up that is not
   complete (StatusFollowsRollup), and the next lesson that runs alone
   repairs roll-up and status (AloneAgrees).
5. `RecomputeAttempt` does the same for marks, and leaves an attempt awaiting
   review with every essay marked (AttemptsMarkRace). Nothing asks for a
   recount; a person who marks one of the essays again, which `MarkAnswer`
   allows, causes one and finishes the attempt.
6. The shared load of the cache runs with the leader's context, though the
   comment says it is detached (CacheHangup).
7. `ChangePassword` spares the browser that asks and queues a job that does not
   (KeepsItsBrowser).
8. `AddPrerequisite` asks for a loop and inserts in two statements, and two
   authors do not see each other (WayForward); it takes two (AloneStaysAcyclic).

The passing runs hold in the presence of these: Learner and the theorems of
Commerce are about READ COMMITTED with double charges in reach; CommerceSerial
says what remains true when 2 and 3 are repaired.

Two more part from a comment and have no run to themselves, the model having
both behaviours:

* `httpapi/admissions_admit.go:52` says that an application rejected or already
  admitted never mints an orphan student. Two clerks who both read it accepted,
  or one whose request ends after it created the student and another who begins
  again, leave two students of one application. `AdmittedOnce` and its theorem
  say that these are the ways, and that no rejected application has a student.
* `commerce/service.go:677` says of every gateway that a refund made by hand in
  its dashboard arrives as an event. Stripe's driver ignores that event
  (`stripe.go:262`), and bKash and SSLCommerz send none: the order stays paid
  and the learner enrolled, though the money went back (`RefundByHand`).

And jobs end. The queue discards a refund job after 20 failed runs, a job that
ends sessions after 10 and a grading job after 10; what they were to do is
then not done, and nothing looks for it. `RefundIsChased`, `RevocationIsChased`
and `GradingHasJob` say that this, beside the ceiling of a refund, is the only
way a job is lost; of the last, the comment of `TryCompleteLesson` says so itself.

Met while modelling, without a property of their own; those that bite hardest
are listed as hazards.

* Money: a bKash status asked while the execute it replaces is still at
  work; a bKash refund whose write was lost, refused on the second try; a
  learner who pays through bKash and never comes back, whose order stays pending;
  an SSLCommerz refund with an empty id, never chased, and a payment without an
  id, which cannot be refunded; an invoice batch issued
  again after its fee structure was deleted and made anew.
* Places: a learner who enrols again in a course that has lost its price, or on
  which the learner still was, upserts the row in a later statement, and so is
  back if a refund withdrew it in between; a granted place the learner can cancel, though
  `internal/httpapi/bundle_grant.go` says otherwise; a grant to a learner whose
  row is cancelled, refused as already enrolled and rolled back.
* Quizzes: an essay deleted while it is the last one awaited; a start that loses a race and reads in a
  transaction already aborted; `questionForLearner` (`assess/view.go`) reorders
  only `ordering` and `matching` questions, so a `puzzle` is shown in the order
  that answers it and an `image_matching` comes without its matches; `gradeGraph`
  (`assess/grade.go`) pairs points greedily, so overlapping tolerances can refuse
  a right set of points.
* Assignments: one worth nothing cannot be marked; two edits of one assignment
  overwrite each other; a mark is checked against the worth read before it.
* Accounts: two requests that claim an empty workspace both become owner; a
  refresh in flight leaves a live successor after a logout, a detected reuse or
  the snapshot of a revocation;
  an invitation cannot be sent again after it expired; two reset links may be
  live at once.
* Office: removing a student removes the allocation and the loans by cascade and
  leaves the counters of beds and copies as they were.
* Catalogue: a topic created while another is deleted leaves a gap, though
  `docs/architecture.md` and `migrations/00006` say positions stay dense;
  `taxonomy.SetCourseTags` at once twice stores the union.
* Cache: an invalidation undone by a load already under way.
* Notices: `notify`'s fan-out reads the enrolments when the job runs, though its
  comment says when the announcement was posted; two sweeps at once would mail
  twice (`cmd/worker` runs one).
* Forum: `DeletePost` leaves `reply_count` as it was, though `forum/service.go`
  says the tally never disagrees with its rows; a reply races a lock.
* Chat: tickets and presence live in one process, so behind a balancer a ticket
  may be unknown where it is shown; presence is announced outside the lock and to
  every user of the process; a removed member's socket stays subscribed;
  `MarkRead` may count as read a message that commits later; of two messages sent
  at once the later row may set `last_message_at` back, though `InsertMessage`'s
  comment says the list's order never disagrees.
* Exams: a scale need not begin at 0, and then a report card has no grade.

## Proofs

Sixty theorems are listed in `PROJECT.json`. All are about arbitrary constants:
any number of orders, seats, lessons, questions, attempts, hosts, people, rooms,
messages, processes and requests. Their only assumptions are the named `ASSUME`s
of the modules (each order has a seat and a gateway; finite sets of lessons,
questions, hosts and rows; percentages; positive bounds; "nothing" is no person
and no process; two people who talk are two), which TLC evaluates in the runs.
Every safety property of the passing runs is a theorem.

* **CommerceProofs.** `MoneyFollowed` is inductive: what `MoneyIsReal` says
  alone is not, because a call between its parts or a message in flight may
  carry a claim into a later transaction. So it adds that one call at a time
  buys an order (`OneBuyer`), that nothing is charged before its checkout was
  opened (`BuyingIsWritten`), that a page is handed out only with its session
  attached (`HandedIsAttached`), and that everything said — by an event in the
  inbox or an answer a call is holding — is true (`SaidIsTrue`). One lemma per
  action; the same invariant is proved under both `Spec` and `SerialSpec`, and
  `MoneyReal` reads `MoneyIsReal` off it. `ChaseKept` carries
  `RefundIsChased`: a job is about a refunded order, a worker closes it only on an
  answer or for want of an id to ask by, a failed run drops it only at the cap,
  and no webhook refunds such an order behind the job's back. `TerminalIsKept` is
  the action property of the statuses; `BackByFinishingAlone`, of `Spec`, that of
  withdrawn rows: with the counterexample of CommerceFinishRace it says exactly
  how one comes back completed.
* **Shop, and the refinement in CommerceProofs.** In the abstract shop, `Kept`
  (a seat ever sold is marked bought) carries `BuyerStaysIn`. `SaleKeepsShop` is
  the refinement: initial states map, and each step of `SerialNext` is a step of
  the shop or a stutter. `PaidIsEnrolled` and `PurchaseIsKept` are then theorems of
  the shop (`BuyerStaysIn`, `BoughtIsKept`) read back through the mapping. At READ
  COMMITTED the same lemmas give `AllButCancelsKeepShop`: every step of the program as it
  runs is one of the shop or invisible to it, but for the second statement of a
  cancel; hence `LostToCancelAlone`.
* **ProgressProofs.** The invariant says what each transaction in flight has
  read, and that one which met nobody read the truth; from it `StatusIsFollowed`
  and `AloneIsCorrect`. For Rewards, `RewardsInv` says what each transaction
  holds (`GiftOK`), that one holds the row of points (`OneHolder`), that an award
  being inserted is nobody else's (`OwnSources`), and that the standing is
  earned — the holder's own uncommitted part counted with what is committed.
* **AttemptsProofs.** The rows (jobs, best entry, marked, settled, attempts in
  order), the job (asks every question, is alone on its attempt, and is gone from
  an ungraded one only when it has failed `GradeAttempts` times), the saves
  (what a late save has seen) and the marks (come after the job; what was
  counted still stands) are four groups that support each other. The gradebook
  compares fractions by cross-multiplication, as its upsert does; that part
  is lemmas on integers.
* **WorkspaceProofs.** `CampusInv`: the counter is at least the rows it stands
  for, by cardinalities (equality is lost to the cascade), a clerk at work has
  an application that is accepted or was, and whoever admits an undisturbed
  application is alone at it, with a student in hand or none (`Undisturbed`). `LimiterInv`: what was granted and
  what the bucket holds together never exceed what was earned since it was
  born, whatever order clocks arrive in. `HandinsInv`: who holds the draft, what
  they read of it still stands.
* **SessionsProofs.** `SessionsInv` has the requests in flight (`RequestOK`, and
  `Compatible` for any two: the lock on memberships and the spent link exclude
  each other), `Owned` (every claimed workspace keeps an owner who is not about to
  go), `Honoured` (each letter at most once) and `JobsKept`: every `doomed` session in
  use has its user's job in the queue, with runs left, or is among the rows a
  worker has already chosen.
* **ClassroomProofs.** `SyllabusInv` keeps positions unique and appends fresh until
  their commit, which is all `OrderKept` needs. `LoopInv` says that two requests
  that overlap know they met (`Together`) and that the check of one which met
  nobody still stands; that one added edge then closes no loop is an argument
  about sets closed under `requires`, since paths are not needed. `InboxInv`:
  what a sweep gathered is still pending or was mailed. `CacheInv`:
  entries and loads in flight were the truth recently enough; with the leader's
  second look this gives `OneLoad`, and with eviction `BoundedSize`.
* **ChatProofs.** `MessagesKept` is about places in the queue: a message has one
  (`OnePlace`), what a socket heard was heard in their order (`HeardInPlace`) and
  lies within what its process has read (`HeardIsReached`), and what a process
  is writing is what it read last (`WritesTheLast`) - the one place where taking
  one notification at a time is needed. `PresenceKept` says that of anybody in
  sight all sockets are at one process and one at most is being announced
  (`Together`), that the last notice is so when nothing is being announced
  (`LastIsSo`), and that what a socket was told is the last notice its process
  read, but for one still being written (`SeenIsLatest`).
* **The desks.** `ClassroomKept` (ClassroomProofs), `WorkspaceKept`
  (WorkspaceProofs) and `LearnerKept` (ChatProofs) state the type correctness and
  every invariant of the three runs as one theorem of each composition. They
  rest on the `...Desks` theorems and, where the run begins a conversation in the
  middle, on `ConversationStarts`: those states keep the invariants, too.

Only model-checked: `TakenIsSettled` and `RefundIsHeard`, which are liveness
(the prover has no rule for fairness), and the eight violations, which are
counterexamples. No module uses a RECURSIVE operator or induction over data.

## Not modelled

Amounts, currencies, signatures and sealing of credentials; row-level security;
the HTTP layer beyond the host middleware, the limiter and the two handlers that
run several transactions (granting a bundle, admitting an applicant); reviews,
statistics and listings; quiz authoring beyond questions and the bar; what makes
an answer right; weights and letter scales; certificates after issue; the
packages marked *not_modelled*: they are single guarded statements, documents
saved whole, or I/O. A database at READ COMMITTED is modelled directly rather
than as a module: each statement that reads is a step, a row once written is
locked until its transaction's last step, and an error leaves no trace.

## Plan

In the order of what would hurt most:

1. **Marking** (assess): what makes an answer right and what a learner is shown
   of a question, against a reference definition.
2. **Dues** (fees, payroll): issued once, paid once; **Forum**: its tallies.
3. **Proofs**: that attempts and hand-ins implement one abstract gradebook.
