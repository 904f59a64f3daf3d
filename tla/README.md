# TLA+ specifications of cohortly-backend

cohortly-backend is a NestJS API over PostgreSQL for selling and running
cohort-based courses. This directory holds TLA+ models of the parts of it whose
correctness depends on the order in which things happen, and of the calculations
whose results other parts rely on; the TLC configurations that check them; and
proofs. Paths below are relative to the repository's `src/` unless they begin with
`docs/`.

The server runs as a PM2 cluster (`ecosystem.config.js`: `instances: max`,
`exec_mode: cluster`). Requests therefore interleave at every `await`, across
processes as well as within one. Only `CohortsService.join` and `leave` open a
transaction and lock a row; everything else loads rows, changes them in memory and
saves them later.

**`Repository.save`.** TypeORM reads the row again when it saves, compares it with
the entity in memory, and updates the columns that differ; if the row is gone it
inserts it, unless a foreign key refuses. A save is thus an *overwrite with what was
loaded*, including columns the handler never touched. Every model takes this as the
meaning of `save`, and `update(criteria, values)`, `increment` and
`delete(criteria)` as single atomic statements.

## 1. Inventory

| component | state it keeps | operations that change it | hard behaviour | what makes it correct |
| --- | --- | --- | --- | --- |
| payments | `purchases`, `stripe_events` | checkout, confirm, webhook, fulfill, refund | two fulfilment paths, Stripe retries and reorders, crashes, late payments | nothing unpaid is delivered, what is paid is delivered once, refunds take it back and stand (they do not always, see `RefundIsFinal`) |
| referrals | `referrals`, `commission_entries`, `payout_cycles`, `partner_profiles` | record, reverse, mark paid, upsert partner, attach, backfill | lost updates of totals, find-then-insert of cycles, failure between ledger and total | the ledger moves forward only, totals agree with it, one open cycle, one alert |
| cohorts: membership | `cohorts` with two counters, `cohort_members` | create, join, leave, update, cancel, remove | locked joins against unlocked staff saves | no oversubscription, counters and positions agree with members, fair waitlist |
| cohorts: attendance | `cohort_sessions`, `attendance` | schedule, move, remove, mark | one row per session and member | what is shown adds up to the sessions held |
| enrollments | `enrollments`, `courses.enrollment_count` | enroll, enrollFromPurchase, cancel, cancelByPurchase, markCompleted | who granted the access, partial failure with the cohort join | access follows the grant that still stands, the counter follows access |
| progress | `lesson_progress`, `learning_activity_days`, percent in `enrollments` | update, recordActivity, refreshEnrollment | enrollment loaded before the gates, saved after | completed means every lesson, and stays |
| organizations | `organizations`, `organization_memberships`, `organization_invitations`, `seat_packs`, `seat_assignments` | create, invite, accept, revoke, assign, remove member, grant and remove packs | count-then-insert of seats, packs refunded or expired while in use | seats in use never exceed seats owned, members were invited, learners who manage are promoted |
| courses, curriculum | `courses`, `course_modules`, `lessons`, `course_faqs`, `categories`, materials | create, update, publish, archive, remove, add, move, reorder | rows saved whole over each other, positions, derived columns | positions 0..n-1, the duration is the sum, learners keep their course |
| quizzes | `quizzes`, `quiz_attempts` | upsert, remove, submit | attempt limit, gate before progress | grading, limit, a lesson completes only when passed |
| assignments | `assignments`, `submissions` | upsert, remove, submit, grade | one of several steps fails, overlapping submissions | one submission at a time, a pass completes the lesson unless its gate refuses, the gradebook and the learner judge the same submission |
| certificates | `certificates` | issue, revoke, reissue | reissue saves a row loaded before an upload | one per enrollment, revocation stands |
| auth | `refresh_tokens`, `one_time_codes` | register, login, rotate, revoke, issue, verify, reset | concurrent rotation, attempt counter | one live token per family, ended sessions stay ended, a code is used once |
| users | `users` | create, update, changeRole, setStatus, ensure superadmin and referral code | whole rows saved over each other | a superadmin remains, referrers are kept |
| notifications | `notifications` | create, markRead, markAllRead, remove | saved whole | every grade is found there |
| analytics | `instructor_analytics_baselines` | reset; the rest are queries | none | sums agree with each other |
| common | none | pagination, slugs, undefined fields, role guard | none | pages are the list, slugs are unique |
| database | the schema | seed script | a run that stops half way | running it again does nothing twice, and should leave nothing out |
| mail, storage, health, configuration | none | - | pure I/O and wiring | - |

How they interact: modules call each other's services, and register hooks at start
(`onModuleInit`) where a call would make a cycle:

```
payments      --registerPaidHandler / registerRefundHandler-->  referrals
cohorts       --registerJoinPolicy-->                           enrollments
catalog       --registerContentAccessResolver-->                enrollments
progress      --registerLessonGate-->                           quizzes
enrollments   --registerCompletionHandler-->                    certificates
payments      --calls--> enrollments (enrollFromPurchase, cancelByPurchase)
payments      --calls--> organizations (grantSeatPack, removeSeatPacksByPurchase)
enrollments   --calls--> organizations (findActiveSeat), cohorts (join, leave)
quizzes, assignments --call--> progress --calls--> enrollments (markCompleted)
```

Hooks are awaited one after the other; payments and enrollments log an error of a
hook and go on, progress gates and join policies let it deny the request.

`PROJECT.json` lists every component with its status, and under `hazards` the places
in the code where something can go wrong that a test hardly reaches.

## 2. Modules

| module | what it is | run in |
| --- | --- | --- |
| `CohortWaitlist` | one cohort and its members: `cohorts/cohorts.service.ts` | `MCCohortWaitlist` |
| `SeatQueue` | abstract: some learners sit, the others wait in a sequence; `CohortWaitlist` ends with the mapping | `MCCohortWaitlist` |
| `Purchases` | the purchases of one customer: `payments/payments.service.ts` and what it calls | `MCPurchases` |
| `ReferralLedger` | one partner, one referred customer: `referrals/referrals.service.ts` | `MCReferralLedger` |
| `OrganizationSeats` | one organization: `organizations/organizations.service.ts` | `MCOrganizationSeats` |
| `Enrollments` | one learner in one course, with progress, quiz and certificate: `enrollments/`, `quizzes/`, `certificates/` | `MCEnrollments` |
| `Accounts` | the rows of users: `users/`, signups of `auth/`, `resolveReferrer` and `attach` of `referrals/` | `MCAccounts` |
| `Sessions` | refresh tokens and one-time codes: `auth/` | `MCSessions` |
| `Coursework` | one assignment, one learner, the inbox: `assignments/`, `notifications/` | `MCCoursework` |
| `Curriculum` | one course as its staff edits it: `courses/courses.service.ts`, `curriculum.service.ts` | `MCCurriculum` |
| `Grading`, `Reporting`, `Storefront`, `Identifiers`, `SeedScript` | calculations, without state of their own | `MCCalculations` |
| `Requests` | what the validation of DTOs lets through to them | `MCCalculations` |
| `Calculations` | a request is chosen, answered, and its answer judged | `MCCalculations` |
| `CohortWaitlistProofs`, `PurchasesProofs`, `AccountsProofs`, `SessionsProofs`, `OrganizationSeatsProofs`, `EnrollmentsProofs`, `CourseworkProofs` | theorems about the module each is named after | `tlapm` |
| `LedgerAndCourseProofs` | theorems about the two modules that keep totals: `ReferralLedger`, which it extends, and `Curriculum`, which it instantiates | `tlapm` |

All modules with requests are built alike. `req[r]` is what request `r` is in the
middle of: a place `at`, named for what it does next, and the rows it has loaded.
An operation's first action finds `r` idle and loads; each further action runs
from one `await` that other requests can observe to the next. `overlaps` counts how
often something happened while another request was under way, and `Fail(r)` ends a
request at an await, an exception or a process that stops, counted in `failures`. A
property that the code keeps only while nothing overlaps or fails says so by `Quiet`
or `overlaps = 0`; one that it keeps regardless says nothing. So each property
names exactly the disturbances under which the code breaks it, and one run covers
both.

### CohortWaitlist

State: the cohort row (`status`, `capacity`, `enrolledCount`, `waitlistCount`),
whether it is deleted, and for each learner the status, the waitlist position and the
rank by creation time of the member row. `JoinCheck` is the part of `join` before the
transaction and `JoinTransaction` or `JoinRefused` the transaction, one step because it
holds the row lock; `LeaveSeat` and `LeaveWaitlist` are `leave`, with the promotion and
the renumbering inside. The staff handlers are two steps: `Load`, then `UpdateSave`,
`DetailsSave` (an update that leaves the capacity out), `UpdateRefused`, `CancelSave` or
`Remove`. `StaffOverlap` says whether anything else commits between the two steps of a
staff handler; `MaxDrift` bounds how far stale saves may push a counter away from the
rows. Left out: dates, titles, the instructor, and the join policies (a learner they
refuse never gets to `JoinCheck`).

### Purchases

State: the row of each purchase (status, the courses bought, none for a seat pack, and
whether the session id and the payment intent are filled in), the seat packs granted for
it, the customer's enrollment in each course with its source and purchase id, what the
commission handler did, the stored events, and for each request the place it is at and
the rows it has loaded. Stripe is the environment: `session`, `refunded` and the
`events` that have happened, any of which `WebhookReceive` may deliver while it is not
stored, in any order and as often as it likes. The kind `"paid"` stands for
`checkout.session.completed` with payment status `paid` and for
`checkout.session.async_payment_succeeded`; `"unpaid"` for a completed session whose
payment is under way.

One action per await that changes or reads shared state, in the order of the code:
`CheckoutSave, CheckoutCreate | CheckoutFails, CheckoutSaveSession`;
`ConfirmRead, ConfirmRetrieve`; `WebhookReceive, WebhookFind, ..., StoreEvent`;
`FulfilSave, DeliverSeatPack | DeliverCourse*, NotifyPaid`;
`RefundRead, StripeRefund, MarkRefundedSave, RemoveSeatPacks | CancelFind, CancelSave*,
NotifyRefunded`. `Crash` ends any request between two of its steps.

Simplifications: the access check of the draft and the first save are one step; the load
and the save of `enrollFromPurchase`, `enroll` and `cancel` are one step each (their own
races are in `Enrollments`); the courses of a bundle may be delivered in any order; two
identical events are stored as one, which is what the primary key of `stripe_events`
does.

### ReferralLedger

State: the ledger entry of each purchase, the payout cycles, the terms of the partner,
`qualified_purchase_id` of the referral, how often each cycle was alerted, and the rows
each request has loaded. `paid` and `refunded` are what the payments service has
announced; it may call a handler at any time after, and again.
`RecordRead, CycleFind [, CycleCreate], EntrySave | EntryRefused [, Qualify]
[, AlertAdmins], CycleSave` is `recordCommission`; `ReverseRead, ReverseSave,
ReverseDebit [, CycleSave]` is `reverseCommission`; `PayRead, PaySave, PaySettle` is
`markPaid`; `UpsertPartner` changes the terms; `Stats` is what the partner is shown.

Simplifications: the reads of the referral, the entry and the profile at the start of
`recordCommission` are one step; one referred user; one currency.

### OrganizationSeats

State: members with their role in the organization, their platform role, packs, seats,
invitations. Users come with any of the platform roles in `StartRoles`, the owner
included; who is `ADMIN` or `SUPERADMIN` manages without being a member. `Create,
CreateMember, Promote` is `create`; `Invite, InviteSave` is `invite` (the earlier
invitations of the address are revoked by one statement, then the new row is saved);
`AcceptInvitation, AcceptJoin, AcceptSave [, Promote]` is `acceptInvitation`, which
saves the row it loaded first; `AssignSeat, AssignCount, AssignSave` is `assignSeat`;
`RemoveMember, RemoveSeats` is `removeMember`. Expiry of invitations and packs is an
action of the environment. `counted` remembers the largest pool a request has seen,
which bounds how far it can be oversold.

### Enrollments

State: the enrollment row, its share of `courses.enrollment_count`, the lessons and
their progress, today's activity row, the quiz attempts, the certificate, the cohort
membership and the purchases. `EnrollWithSeat` and `FulfillPurchase,
EnrollFromPurchase, SavePurchase` lead to `ActivateSave, Increment
[, JoinWithEnrollment, SaveCohort]`; `Cancel` and `RefundPurchase, CancelByPurchase` to
`CancelSave, Decrement [, LeaveWithEnrollment]`; `UpdateProgress` (the gates) and
`SubmitAttempt, SaveAttempt, UpdateAfterAttempt` to `SaveProgress, RecordActivity,
InsertActivityDay, RefreshEnrollment, RefreshSave [, MarkCompleted,
IssueForEnrollment]`. Lessons are added and removed while all that goes on; `Revoke`
and `Reissue, ReissueSave` are the certificate's.

### Accounts

State: the role, the status and the referrer of each user row, the referrals, the
suspended partner profiles. `Register` and `GoogleSignup` are followed by `Insert` and,
each in a statement of its own, `ResolveReferrer, Attach, SetReferredBy`;
`EnsureSuperadmin` is what the server does when it starts. `ChangeRole`,
`ChangeStatus`, `Update` and `UpsertPartner [, SavePartner]` are followed by
`LoadRow, SaveRow` with a patch (`Patched`), in which `SAME` is a field left undefined
that `stripUndefined` removes.

### Sessions

State: refresh tokens (live or revoked, owner, family) and one-time codes (outstanding
or consumed, attempts). `Login, Issue` starts a family, `Rotate, IssueNext, Retire`
continues it, and `Reuse, RevokeFamily` is what presenting a revoked token does.
`ForgotPassword, WithdrawCodes, IssueCode` sends a code; `ResetPassword`, with a code
that matches or not, leads to `CountAttempt` or `ConsumeCode, UpdatePassword,
RevokeAll`. A new password or a logout everywhere ends every session of the account
(`ended`), a reused token the ones of its family (`reused`).

### Coursework

State: the assignment and its settings, the submissions, the status of the lesson, the
notifications. `Submit, SubmissionSave, StartLesson` reads the earlier submissions and
saves a row with the next attempt number; `Grade, GradeSave [, CompleteLesson], Notify`
saves the grade, completes the lesson if it passes and writes a notice; `Upsert,
UpsertSave` and `RemoveAssignment, RemoveDelete` are the instructor's, meanwhile.
`CompleteLesson` throws without access (`ChangeAccess`) and while a gate of the lesson is
closed (`unlocked`, `ChangeGate`: the quiz of the lesson before it); it is then counted in
`refused`, the grade stays saved and no notice follows. `MarkRead, SaveRead` saves a
notification it has loaded.

### Curriculum

State: the course row with its derived columns (`duration`, `enrollment_count`), modules
and lessons with positions. An edit of the outline (`AddModule`, `UpdateModule`,
`RemoveModule`, `AddLesson`, `UpdateLesson`, `RemoveLesson`, `Reorder`) goes on with those
of `SaveModule | SaveLesson | DeleteModule | DeleteLesson`, `Find, ApplyOrder` (list what
is left, write the new positions) and `Sum, WriteDuration` that the code has.
`UpdateCourse`, `Publish`, `Unpublish` and `Archive` load the course and save it whole;
`RemoveCourse, DeleteCourse` removes it when its counter is zero.

### Calculations

`Calculations` chooses one request out of a finite set, answers it with an operator of
`Grading`, `Reporting`, `Storefront`, `Identifiers` or `SeedScript`, and each property
compares the answer with a definition of its own: another way to compute it, or a fact
that several answers must agree on. `Requests` restricts the inputs to what the DTO
validation lets through. Percentages are computed exactly; JavaScript's floating point
agrees for the sizes that are chosen.

## 3. Runs

"Passes" means TLC found no error in the complete state space of the instance. A
property that stands for several is a conjunction; its parts are named definitions of
the module, each with a comment that says what it is about.

| run | instance | properties |
| --- | --- | --- |
| `cohort_serial_edits` | 3 learners, 2 requests, capacities 1 and 2, no overlap with staff edits | `TypeOK`, `CountsMatchRoster`, `NoOversubscription`, `WaitlistIsDense`, and the refinement `ImplementsSeatQueue` |
| `purchases_serial` | one purchase of a seat pack, a course or a bundle of two; one request at a time, no crash, fairness | `TypeOK`, `SettledPurchasesMatch` after any order of confirmations, events, refunds and learner moves, `RefundsStand`: a refund is final once the payment event is stored, and the liveness property `PaidIsDelivered` |
| `purchases_concurrent` | one purchase of a seat pack or a course, two requests, one crash | `DeliveredOnlyIfPaid`, `PaidEventsAreApplied` |
| `purchase_never_delivered` | the same with one request, fairness | violates `PaidIsDelivered`: a crash after `PAID` is saved |
| `ledger` | 3 purchases, 2 cycles, 3 sets of terms, 2 requests, one overlap or failure | `BalancesAddUp` (`CyclesAddUp`, `StatsAgreeWithCycles`), `ReadyWhenDue`, `CyclesOpenAndAlertOnce` (`OneOpenCycle`, `AlertedOnce`), `LedgerMovesForward`, `ReversedIsNeverPaid` |
| `organization_seats` | the owner (an instructor), a learner and a platform admin, 2 courses, 1 pack, 2 invitations, 2 requests, any overlap, one failure | `SeatsAreBacked` (`OversoldByOverlapsOnly`, `SeatsHeldByMembers`), `MembersCameByInvitation` (`OneWayIn`, `MembersWereInvited`, `LearnersArePromoted`), `InvitationsMoveForward` |
| `enrollments` | 2 lessons of which one is added or removed, a quiz with one attempt, 2 purchases, 2 requests, one overlap or failure | `EnrollmentIsCounted` (`CountMatchesAccess`, `CancelLeavesCohort`), `AccessIsPaidFor`, `QuizzesGuardLessons` (`QuizGatesHold`, `AttemptsWithinBudget`), `CompletionIsCertified` (`CompletesWithLastLesson`, `CompletedEarnsCertificate`, `CertificateWasEarned`), `FinishedStaysFinished` |
| `accounts` | 2 users, 4 roles, 2 requests, one overlap or failure | `SuperadminRemains`, `ReferralsAreWhole` (`ReferralsMatchUsers`, `SignupsAreWhole`), `ReferredHasReferral` |
| `sessions` | 2 users, 3 tokens and codes together, of which 2 codes of 2 attempts, 2 requests, one overlap or failure | `FamiliesHaveOneOwner`, `SessionsEnd` (`OneLiveTokenPerFamily`, `EndedSessionsStayEnded`), `CodesAreLimited` (`OneOutstandingCode`, `AttemptsAreLimited`, `CodesAreUsedOnce`) |
| `coursework` | 2 assignments one after the other, 3 submissions, 2 grades, 2 requests, one overlap or failure | `GradesTakeEffect` (`PassesCompleteTheLesson`, `GradesAreAnnounced`), `SubmissionsStayInOrder` (`OneAwaitsItsGrade`, `AttemptsAreNumbered`, `SubmissionsAreLimited`) |
| `curriculum` | 2 modules, 2 lessons, 2 requests, one overlap or failure | `CourseIsInOrder` (`PositionsAreDense`, `DurationIsSum`, `PricedConsistently`, `CountMatchesLearners`), `LearnersKeepTheirCourse`, `EditsRepair` (`RenumberingRepairs`, `SummingRepairs`) |
| `calculations` | 446 000 requests over small inputs | `GradesAreFair`, `ProgressIsTold`, `FiguresAddUp`, `StorefrontIsConsistent`, `BatchesAreWhole`, 25 named parts |

`EditsRepair` and the refinement say that the code *recovers*: whatever stale saves
have left behind, the next edit of the outline that nothing overlaps puts positions
and duration right.

### What the code does not keep

`purchase_never_delivered` is listed under `findings`: `PAID` is saved before the
delivery, and a process that stops in between is never made up for, since every retry
returns at `PAID`.

The code does less than a document or a comment says in five more places. Each is a
property of the module it is about, with the quotation, and TLC finds it violated when
it is added to the configuration named here, with nothing overlapping or failing except
where that is said.

| property | add it to | what TLC shows |
| --- | --- | --- |
| `RefundIsFinal` ("Idempotent", `payments/payments.service.ts:204`; `docs/adr/0002-payments.md:20`) | `PurchasesSerial.cfg`, as a PROPERTY | `fulfill` stops at `PAID` only: a purchase is confirmed and refunded, and then the paid event is handled for the first time and delivers again. What holds is `RefundsStand`: once that event is stored, nothing leads back |
| `DeliveredOnce` (the same) | `PurchasesConcurrent.cfg` with `MaxCrashes = 0` | `fulfill` decides by the row its caller loaded: two confirmations, or one and the webhook, that both loaded `PENDING` grant two seat packs |
| `OwnerIsOrgAdmin` ("make its owner an org admin", `organizations/organizations.controller.ts:68`) | `OrganizationSeats.cfg` | only learners are promoted: an instructor or a partner who owns an organization manages it as a member, without the platform role |
| `PassingScoresCompleteTheLesson` ("Passing scores complete the lesson", `assignments/assignments.service.ts:245`) | `Coursework.cfg` | `grade` saves the score and then asks for the lesson to be completed, which the gate of the quiz before it refuses by throwing: passed, not complete, and the notice that follows is never written. `GradesTakeEffect` counts these and says that there is no other case |
| `SeedIsSafeToRepeat` ("Safe to run more than once", `seed.ts:26` of the repository's `scripts`) | `Calculations.cfg` | a course that is found by its title is taken as done: if an earlier run stopped within it, its lessons are never made and it is never published; later runs fail where learners are enrolled in it, and else succeed. `SeedKeepsWholeCourses` says that this is the only way |

The other places where the code does less than one may expect are behaviour of the
models, and the properties of the passing runs say where they stop holding. To see one,
change the configuration or the property as follows.

| change | what TLC shows |
| --- | --- |
| `StaffOverlap = TRUE` in `CohortSerialEdits.cfg` | a staff update saves the counter it loaded before a join; the next join takes a seat that is taken (`NoOversubscription`) |
| `SettledPurchasesMatch` added to `PurchasesConcurrent.cfg` | a crash after `PAID` is saved |
| `overlaps = 0` dropped from `OneOpenCycle` | two first commissions each find no cycle and create one |
| `overlaps = 0` dropped from `Quiet` of `ReferralLedger` | of two overlapping credits, or a credit and a debit, computed from the same row, the later save wins |
| `failures = 0` dropped from `CompletedEarnsCertificate` | a completion handler fails, nobody calls it again, the certificate is missing |
| `overlaps = 0` dropped from `FinishedStaysFinished` | a progress update that was loaded earlier undoes a completed lesson; likewise a stale enrollment a completion, and a reissue a revocation |
| `overlaps' = 0` dropped from `SuperadminRemains` | a profile update that was loaded earlier is saved over the promotion of the superadmin of the start; without profile updates, two superadmins demote each other |
| `overlaps = 0` dropped from `Quiet` of `Accounts` | a stale row drops the referrer |
| `"GOOGLE"` instead of `"PASSWORD"` in `SignupsAreWhole` | a Google signup looks at the code only when the account exists, and a code that nobody has leaves it without a referral |
| `overlaps = 0` dropped from `Quiet` of `Sessions` | two rotations of one token both succeed; a rotation in flight survives a logout everywhere |

Further behaviour is in the models and bounded by a property rather than excluded: seats
are oversold by less than the number of requests (`OversoldByOverlapsOnly`), quiz
attempts, submissions and guesses at a code exceed their limits by less than that
(`AttemptsWithinBudget`, `SubmissionsAreLimited`, `AttemptsAreLimited`). And some of it
no property covers: a cohort that is completed or cancelled between the check of `join`
and its transaction still takes the learner; a learner who joins between the count and
the deletion of `remove` is deleted with the cohort; a capacity that is raised promotes
nobody until somebody leaves; a refund event that is handled before the completed event
finds no payment intent and is stored as processed; a refunded learner stays in the
cohort; a revoked seat leaves the enrollment it paid for; `openCycle` ignores the
currency; a deleted lesson can leave an active enrollment with nothing to complete. The
gradebook and the next submission look at the latest submission only
(`ColumnAgreesWithBlocker`): an earlier one that is graded to a pass while the latest
waits or failed is shown as waiting or failed, though it has completed the lesson. Work
that was returned with a score which meets a passing score lowered since is shown as
returned, while the learner is told that they passed. A notification that is removed
while `markRead` holds it is saved back.

### Bounds

Bounds that are the checker's only: `MaxDrift`, `MaxCrashes`, `MaxFailures`,
`MaxDisturbances`, `MaxTries`, `MaxTokens`, `MaxCodes`, `MaxIssued`, `MaxAssignments`,
`MaxSubmissions`, `MaxGrades`, `MaxModules`, `MaxLessons`, and the size of the sets of
ids. `MaxDisturbances = 1` lets any one request overlap any other at any await, or
fail there, and then everything go on undisturbed for as long as it takes: enough for
each race of two handlers and for what it leaves behind. Without this bound the
instances are out of TLC's reach, and the properties that hold regardless of
overlaps could be violated only by races of three handlers; `organization_seats` and
`cohort_serial_edits` have no such bound on overlaps, and the proofs none at all.

Three learners are the fewest where a promotion leaves somebody to be renumbered;
capacities 1 and 2 make a cohort fill up, and change of capacity both ways. Purchases
share nothing but the course and Stripe, so one purchase of each kind reaches every
action; two courses make a bundle that is delivered and cancelled in parts. In the
ledger the prices, rates and thresholds make a commission stay below the threshold, meet
it exactly, pass it alone or with a second, and round; a threshold of zero, which the
validation admits, makes an empty cycle that is OPEN at first and READY after a refund;
a third purchase begins the cycle after one that was paid. Two courses, one of them not
published, and two seats' worth of users fill a pack of one seat and race for it. Two
purchases are enough for a course that is bought twice. Two users and three tokens make
two logins and a rotation, where a token of the wrong family would show, and a login, a
rotation and a reuse; two codes make one withdrawn by the other; `MaxIssued` bounds
tokens and codes together, which share nothing but the account and what ends its
sessions. Two grades return an attempt and judge another one, or the same again; three
submissions break a limit of two. An owner whom promotion leaves alone and a learner
whom it changes are the two cases of `promoteToOrgAdmin`; the proofs hold for users who
come with any roles. Histories of submissions are those of two attempts, each graded in any way,
before or after the other was sent and under either passing score.

For the calculations, constants that are large in the code are small, so that inputs
exceed them: the streak window is 5 days instead of 400 rows, a page has 3 rows and at
most 4, a slug 4 letters, a name is drawn again 3 times, a bundle holds 2 courses. The
inputs include empty lists, halves that round, ties and zero totals.

`CHECK_DEADLOCK FALSE` is set everywhere: when all purchases are settled, a cohort is
deleted or a bound is reached, nothing more need happen.

### Fairness

`FairSpec` of `Purchases`, in `purchases_serial` and `purchase_never_delivered`. Weak
fairness of `ServerStep` for each request: a handler that has begun is continued, since
Node resumes it when the awaited call returns and `MaxCrashes = 0` excludes that it dies.
Strong fairness of the delivery of each event: Stripe repeats an event until it is
acknowledged with 2xx, which the code does after `StoreEvent`; strong, because a server
may be busy with another request each time it tries. Nothing is assumed of the customer,
of `confirm` or of an admin: the browser may never come back. `PaidIsDelivered` fails
once a crash is allowed (`purchase_never_delivered`) although the same fairness holds.
The other modules state no fairness: nothing in the code retries what they model, so
all that could be said of them is that a handler which has begun ends.

## 4. Proofs

The inductive invariants were tried with TLC on instances of the runs before they were
proved, which is how most of their parts were found; `BooksInvariant` on that of `ledger`
(2.3 million states), `CourseInvariant` on that of `curriculum` (1.2 million). The proofs follow one plan: an
action changes a few rows and takes one request from one place to the next, so a lemma
says what that leaves of the other requests, and one step per action gives what it does
to the rows.

The modules with requests share the second part of their invariant. What the code
keeps only while nothing overlaps is proved from facts that hold until `overlaps`
counts: one request is under way at most, the row it holds is the row as it is, and
what it has left undone is exactly what its place says it is about to do. So the
property holds when every request is idle, and the invariant says how far it is off
at each `await` in between. What holds whatever overlaps is proved without them.

`CohortWaitlistProofs` proves, for every set of learners and requests, finite in the
case of learners, and every set of capacities:

* `TypeCorrect`: `Spec => []TypeOK`, with and without overlap.
* `SeatsNeverOversubscribed`, `CountersMatch`, `WaitlistAlwaysDense`:
  `NoOversubscription`, `CountsMatchRoster` and `WaitlistIsDense`, under
  `StaffOverlap = FALSE`.
* `LeavesRepairWaitlist`: with overlap, however far the counters have drifted, a leave
  that changes the waitlist numbers it 1..n again and sets its counter to n.
* `CohortIsASeatQueue`: the refinement `Spec => ImplementsSeatQueue`, under
  `StaffOverlap = FALSE`.

None of the three invariants is inductive alone. `SeatInvariant` adds that the counters
are those of the rows (a join decides by the counter, the property speaks of the rows)
and `StaffReadsAreFresh`: the row that a staff handler holds has the counters the cohort
has now, which is exactly what `StaffOverlap = FALSE` gives. A leave keeps it because
the promoted learner is taken from the waitlist, so that the number of enrolled learners
changes by what the counter says. `DenseInvariant` is about the positions alone: a join
adds position `n + 1`, and after a leave the new position of a learner is the number of
those waiting who come before, plus one; the lemmas on ranks show that these numbers are
`1..n`. Cardinalities are handled by the theorems of `FiniteSetTheorems`.

For the refinement the waiting learners must be one sequence. The mapping chooses, for
each position, a learner who has it; `QueueIsWaitlist` shows from `DenseInvariant` that
positions are a bijection to `1..n`, so that there is one to choose and no other, and
`QueueAfter` that a sequence which names the waiting learners by their positions is the
queue. Each step is then a step of `SeatQueue` or leaves it alone: joining appends or
seats, leaving a seat hands it to the head, leaving the waitlist takes one from the
middle and keeps the order of the rest. Staff handlers change the capacity, never below
the learners who sit, or nothing that the queue sees: a cohort that is removed is empty.

`PurchasesProofs` proves, for every set of purchases, courses, drafts and requests and
every bound on crashes, with any overlap:

* `TypeCorrect`: `Spec => []TypeOK`.
* `NothingIsDeliveredUnpaid`: `Spec => []DeliveredOnlyIfPaid`.
* `AcknowledgedPaymentsAreMarked`: `Spec => []PaidEventsAreApplied`.
* `SettledPurchasesAlwaysMatch`: `Spec => [](crashes = 0 => SettledPurchasesMatch)`, for
  one request at a time.
* `RefundsAlwaysStand`: `Spec => RefundsStand`, for one request at a time, crashes or not.

The first three are proved together, by `PaymentInvariant`, because each needs the others. A
save overwrites the status with what was loaded, so a mark can only be lost if somebody
who holds an older row saves after it. `RequestIsSound` excludes this by where a request
stands: the expired branch saves only when the session has expired and was thus never
paid, and a checkout saves only while its session is new. For the latter
`CheckoutIsAlone` is needed: until the session id is saved the customer has no address
to pay at and no other request holds a row that knows one. `EventsAreTrue` says that
events and marks imply the state of the session at Stripe. The steps are grouped by what
they change (`ReadStep`, `QuietStep`, `SaveStep`, `StripeStep`, `LearnerStep`), with one
lemma per action. `SettledPurchasesMatch` needs `MatchInvariant`: the row a request
has loaded is the row in the database (`KnowsItsRow`), what it still has to deliver or
take back is exactly what is missing (`ListIsRight`), a purchase delivers seats or
courses and never both, and every purchase that no handler is half way through is worth
what its status says. A crash breaks it, as `purchase_never_delivered` shows, and so
does a second request, which is why it says `crashes = 0` and one at a time. It says
that status and holdings agree, not that the status is true of the money;
`RefundsAlwaysStand` says when a refund is final. Its invariant adds `FulfilIsDue`: who
is about to fulfil has an event that is not stored, or confirms a purchase that was
not refunded.

`AccountsProofs` proves, for all users, roles and requests and any number of overlaps and
failures:

* `TypeCorrect`: `Spec => []TypeOK`.
* `ReferredAccountsHaveReferrals`: `Spec => []ReferredHasReferral`. The invariant adds
  `MarksAreBacked`: whoever is about to mark a user as referred, or holds a row that is
  marked, comes after the referral was recorded. So no stale save can mark a user
  without one, although it can drop a mark.
* `ASuperadminRemains`: `Spec => SuperadminRemains`, an action property: as long as nothing
  overlaps, whatever fails, no step takes the last active superadmin away. The check that
  protects the superadmin and the save are steps apart; `ChangeKeepsOne` says at each
  place in between that if there is one now there is one with the row that will be
  saved, because who asked for it is another.
* `ReferralsAlwaysWhole`: `Spec => []ReferralsAreWhole`. A row about to be saved has the
  referrer that the account has, and what a signup has not told the account and the
  ledger yet it is about to tell.

`LedgerAndCourseProofs` is about the two components that keep totals, and holds what both
need: lemmas on sums over finite sets. It proves of `ReferralLedger`, for all purchases,
prices, terms, cycles and requests and any number of overlaps and failures:

* `TypeCorrect`: `Spec => []TypeOK`. That a debit has a cycle to load needs
  `EntriesHaveCycles`.
* `StatusFitsTotal`: `Spec => []ReadyWhenDue`. A save may overwrite a cycle with any row a
  request has held on to, so the invariant says of every row that is held, not only of
  those saved, that its status fits its total (`Sound`).
* `CyclesAlwaysOpenAndAlertOnce`: `Spec => []CyclesOpenAndAlertOnce`. While handlers do not
  overlap, a cycle is created only when none is unpaid, a save never takes a paid cycle
  back to collecting, and who has sent the alert is about to save that it was
  (`AlertsAreRemembered`, while none fails).
* `TheLedgerMovesForward`: `Spec => LedgerMovesForward`, by the same invariant: an entry
  is inserted as `EARNED` where there was none, and who reverses one holds it as it is
  and found it `EARNED`.
* `ReversalsAreFinal`: `Spec => ReversedIsNeverPaid`. A late reversal saves the entry it
  loaded over the one that is there; `HoldsEntry` says that the two agree in all but the
  status.
* `TheBooksBalance`: `Spec => []BalancesAddUp`. Until a handler overlaps or fails,
  `BooksInvariant` holds: the total and the count of each cycle are the sum and the
  number of its entries, but for what the one request under way is about to add or take
  back (`RowsAddUp`); the row it holds is the row that is there (`HoldsRows`); an
  earned entry is in a cycle that collects or is being settled, a paid one in a cycle
  that is settled (`EntriesFit`); and the account is qualified when there is an entry
  (`QualifiedFits`). That the statistics agree with the cycles then follows from sums
  alone: the sum over all entries is the sum over the cycles of the sums of theirs
  (`SumOfEntries`, `SumOfCycles`).

The lemmas on sums (a sum is what its recursive function says, does not depend on the
order, gains what is added, splits over disjoint parts) are proved by induction on the
size of the set. `InductionOnSets` takes a set of numbers where the library takes a
predicate, and follows from the least element of its complement, as the naturals are
well-founded.

It proves of `Curriculum`, for all numbers of modules and lessons, minutes, prices and
requests and any number of overlaps and failures:

* `TheCourseStaysInOrder`: `Cur!Spec => []Cur!CourseIsInOrder`. A paid course has a price whatever
  overlaps, because every row of the course that a request holds has one
  (`HasFairPrice`). The counter of learners is right until something overlaps
  (`CourseIsCounted`). Until something overlaps or fails, `KeptBy` says of every list that
  it is numbered 0, 1, 2, ... unless the edit under way is about to number it, and of the
  duration that it is the sum of the lessons unless that edit is about to sum them.
* `LoneEditsRepair`: `Cur!Spec => Cur!EditsRepair`. What an edit that nothing has overlapped so far
  has loaded is still so (`Knows`, for each of its places), whatever earlier ones left
  behind. So the order it applies is one of the rows that are listed now, an injective
  map of them to `0..n-1`, which leaves no gap (`OrderIsDense`), and the duration it writes
  is the sum of the lessons that are there now (`TotalIsSum`).
* `LearnersAreKept`: `Cur!Spec => Cur!LearnersKeepTheirCourse`. A removal that nothing overlaps
  deletes a course whose counter it has read as zero, and the counter is that of the
  learners.

All three under `CourseConstants`, which repeats what `Curriculum` assumes of its
constants, since those of an instance must be given.

`SessionsProofs` proves, for all users and any numbers of tokens, codes, requests,
overlaps and failures:

* `TypeCorrect`: `Spec => []TypeOK`, with the fact that who revokes a family has presented a
  token that is revoked.
* `FamiliesBelongToOneAccount`: `Spec => []FamiliesHaveOneOwner`. A refresh issues the
  next token from a row it loaded, so the invariant adds that what a request presented
  was issued (`PresentedWereIssued`), and that tokens are issued in order
  (`IssuedInOrder`), which makes the next one new.
* `GuessesAreLimited`: `Spec => []AttemptsAreLimited`. It counts the
  tries that are recorded and those that are about to be: a guess begins only below the
  limit, and the requests that began there bound by how much it is exceeded.
* `SessionsAlwaysEnd`: `Spec => []SessionsEnd`. While nothing overlaps a family has one live
  token, but for the one that a rotation is about to retire (`TokensContinue`).
* `CodesAlwaysLimited`: `Spec => []CodesAreLimited`. When the next code is issued none is
  outstanding, and a code about to be used was not used before (`CodesServe`).

`OrganizationSeatsProofs` proves, for all users, courses, packs, invitations and requests
and any number of overlaps and failures:

* `SeatsAlwaysBacked`: `Spec => []SeatsAreBacked`. An assignment counts before it saves,
  so `OversoldByOverlapsOnly` is stated over the seats in use and the requests about to
  save one, and is inductive with the types. That seats are held by members while nothing
  has overlapped or failed needs `SerialInvariant`: one request is under way at most, a
  seat whose holder has left is about to be taken, and who is assigned one is a member.
* `InvitationsOnlyMoveForward`: `Spec => InvitationsMoveForward`, from the types alone.
* `MembersAlwaysCameByInvitation`: `Spec => []MembersCameByInvitation`. That members were
  invited holds under every overlap because the invitation that is being accepted and
  the row that was loaded are of the member who accepts (`Brings`). The rest needs
  `MemberFacts`: nobody is invited before the owner is a member, an open invitation is
  the only one of an address that has no member, and an admin who is still a learner has
  a request that is about to promote them. Nothing is assumed of the roles that users
  come with.

`EnrollmentsProofs` proves, for all lessons, purchases and requests and any number of
overlaps and failures:

* `QuizzesAlwaysGuard`: `Spec => []QuizzesGuardLessons`, whatever overlaps or fails. Who is
  about to save the progress of a gated lesson as completed has passed (`MaySave`), and
  since lessons are added in their order, none appears in front of or behind the quiz
  that was completed before. Attempts are counted with those about to be saved.
* `CompletionAlwaysCertified`: `Spec => []CompletionIsCertified`. Also under overlaps a
  request that holds a completed row comes after the certificate or the request that
  issues it, which is `CertificateFollows`. The other parts, between requests while nothing
  has overlapped or failed, follow from `Settles`.
* `EnrollmentsAlwaysCounted`, `AccessAlwaysPaidFor`: `EnrollmentIsCounted` and
  `AccessIsPaidFor`. `Knows` says which row the request under way holds, and `Settles` by
  how much the counter, the cohort, the purchase and the certificate are off at each of
  its places.
* `WhatFinishedStaysFinished`: `Spec => FinishedStaysFinished`, from `Knows`: while nothing
  overlaps, no save takes back what was completed or revoked since it was loaded, even
  if a handler failed.

`CourseworkProofs` proves, for all settings, bounds and requests and any number of
overlaps and failures:

* `SubmissionsAlwaysStayInOrder`: `Spec => []SubmissionsStayInOrder`. The bound on
  submissions counts the requests about to add a row. Not only learners do: a grade that
  was loaded before the assignment was removed saves its submission again, and the
  invariant counts it too (`Adders`).
* `GradesAlwaysTakeEffect`: `Spec => []GradesTakeEffect`. There are as many graded
  submissions as announcements and refusals, or one more that the request under way is
  about to announce; and no more that passed than were refused at the lesson, unless the
  lesson is complete or that request is about to complete it.

The assumptions are those of the modules: capacities, drafts, roles and sizes of packs are
drawn from the declared sets, the null values are outside them, learners, users, courses
and packs are finite, and there is a user.

Only model-checked:

* `Calculations`: averages, rankings, batches, streaks and buckets are functions defined by
  recursion over sequences, or folds of them, whose operator the provers cannot be given
  as a parameter of a general theorem. What each computes for every input would need an
  induction of its own in the form above; the inputs that TLC tries are the small ones
  at whose boundaries they could go wrong.
* `PaidIsDelivered`: liveness under fairness is out of the prover's reach. So is what any of
  the theorems would need of `ENABLED`.

## 5. Not modelled

* Mail and storage (SMTP, presigned addresses, uploads), the health probe, and
  configuration and wiring: input and output.
* Lists, search and cursors: queries. The status counts of users and the export of the
  analytics as text.
* Columns that no other operation reads: `markLogin`, `update` and `setStatus` of
  organizations, covers and materials of courses, categories other than their slugs,
  dates and titles.
* Editing or removing a quiz that has attempts: quizzes are constants of `Enrollments`.
* Migrations; their unique indexes and foreign keys are guards of the modules. Filters,
  decorators, interceptors and logging of `common`.
* Time: expiry of codes, tokens, invitations and packs is an action that may happen, or
  is left out where it only refuses more.
* The web client and the load balancer.

## 6. What is left

1. The composition of `Purchases` with `ReferralLedger` and `Enrollments` through the
   paid and refund handlers; until then each has the other as its environment.
2. An abstract pool of seats that `OrganizationSeats` refines while nothing overlaps,
   and a session that `Sessions` refines.
3. Quizzes that change under their attempts, and materials with their positions.
4. Proofs about the calculations, beginning with the weighted average of `Grading`.
