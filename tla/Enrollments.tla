---------------------------- MODULE Enrollments ----------------------------
(***************************************************************************)
(* One learner in one paid course: the enrollment row and the counter of   *)
(* the course (src/enrollments/enrollments.service.ts), the progress in    *)
(* its lessons (progress.service.ts), the quiz that gates them             *)
(* (src/quizzes), the certificate that a completion earns                  *)
(* (src/certificates), and what payments, cohorts and the curriculum do to *)
(* them.                                                                   *)
(*                                                                         *)
(* Handlers load the enrollment, await other things and save it: the save  *)
(* writes every column that differs from the row as it is by then.  There  *)
(* is no transaction, so a handler that fails leaves its earlier writes.   *)
(***************************************************************************)
EXTENDS Integers, FiniteSets

CONSTANTS
  LastLesson,   \* lessons are numbered by position
  FirstLessons, \* the lessons there are when the course is published
  QuizLesson,   \* the lesson of type QUIZ
  MaxAttempts,  \* quiz.maxAttempts; 0 is no limit
  PurchaseIds,
  Requests,     \* the requests the servers handle at the same time
  NoPurchase,
  MaxTries,     \* a bound for the checker: attempts submitted at the quiz
  MaxDisturbances \* a bound for the checker: how often requests overlap or fail

Lessons == 1..LastLesson

ASSUME LessonAssumption   == LastLesson \in Nat /\ FirstLessons \in Lessons
ASSUME QuizAssumption     == QuizLesson \in Lessons /\ MaxAttempts \in Nat
ASSUME RequestAssumption  == IsFiniteSet(Requests) /\ Requests # {}
ASSUME PurchaseAssumption == NoPurchase \notin PurchaseIds
ASSUME BoundsAssumption   == MaxTries \in Nat /\ MaxDisturbances \in Nat

VARIABLES
  enrollment,   \* the row of the learner and the course
  count,        \* courses.enrollment_count, of this learner
  lesson,       \* the rows of the lessons
  progress,     \* lesson_progress, by lesson
  activeToday,  \* today's row of learning_activity_days is there
  attempts,     \* how many quiz_attempts there are
  passed,       \* and whether one of them passed
  certificate,
  cohortMember, \* the learner holds a membership in a cohort of the course
  purchase,     \* the purchases of the course by the learner
  req,          \* what each request is in the middle of
  overlaps,     \* how often something happened during a request
  failures      \* how often a handler failed

study == <<lesson, progress, activeToday, attempts, passed>>
rows == <<enrollment, count, study, certificate, cohortMember, purchase>>
vars == <<rows, req, overlaps, failures>>

Enrollment == [status: {"NONE", "ACTIVE", "COMPLETED", "CANCELLED"},
               source: {"PAID", "SEAT"}, purchase: PurchaseIds \union {NoPurchase},
               cohort: BOOLEAN]
NoRow == [status |-> "NONE", source |-> "SEAT", purchase |-> NoPurchase, cohort |-> FALSE]

ProgressStatus == {"NOT_STARTED", "IN_PROGRESS", "COMPLETED"}

Certificate == {"NONE", "VALID", "REVOKED"}

Places == {"idle", "activate", "increment", "join", "saveCohort",
           "purchaseRead", "savePurchase", "cancelSave", "decrement", "leave", "refundRead",
           "update", "saveProgress", "activity", "insertDay", "refresh", "refreshSave",
           "complete", "issue", "saveAttempt", "reissueSave"}

(* row is the enrollment the request has loaded and changed, was the status *)
(* of the lesson it has loaded, to the status it was asked for.            *)
Request == [at: Places, row: Enrollment, fresh: BOOLEAN, cohort: BOOLEAN,
            purchase: PurchaseIds \union {NoPurchase},
            lesson: Lessons, was: ProgressStatus, to: ProgressStatus, finished: BOOLEAN]
Idle == [at |-> "idle", row |-> NoRow, fresh |-> FALSE, cohort |-> FALSE,
         purchase |-> NoPurchase, lesson |-> 1, was |-> "NOT_STARTED",
         to |-> "NOT_STARTED", finished |-> FALSE]

Init ==
  /\ enrollment = NoRow
  /\ count = 0
  /\ lesson = [l \in Lessons |-> IF l <= FirstLessons THEN "THERE" ELSE "PLANNED"]
  /\ progress = [l \in Lessons |-> "NOT_STARTED"]
  /\ activeToday = FALSE
  /\ attempts = 0
  /\ passed = FALSE
  /\ certificate = "NONE"
  /\ cohortMember = FALSE
  /\ purchase = [p \in PurchaseIds |-> "OPEN"]
  /\ req = [r \in Requests |-> Idle]
  /\ overlaps = 0
  /\ failures = 0

(* ACCESS_STATUSES, hasAccess, findAccessible.                             *)
Grants(status) == status \in {"ACTIVE", "COMPLETED"}
Accessible == Grants(enrollment.status)

Present == {l \in Lessons : lesson[l] = "THERE"}

(***************************************************************************)
(* Requests.                                                               *)
(***************************************************************************)
At(r, place) == req[r].at = place
Under(r) == req[r].at # "idle"
Finish(r) == req' = [req EXCEPT ![r] = Idle]
Continue(r, place) == req' = [req EXCEPT ![r].at = place]

Undisturbed == overlaps + failures < MaxDisturbances

(* Every first step counts whether a request was under way.                *)
Arrives ==
  \/ /\ \A q \in Requests : ~Under(q)
     /\ UNCHANGED overlaps
  \/ /\ \E q \in Requests : Under(q)
     /\ Undisturbed
     /\ overlaps' = overlaps + 1

Fail(r) ==
  /\ Under(r)
  /\ Undisturbed
  /\ failures' = failures + 1
  /\ Finish(r)
  /\ UNCHANGED <<rows, overlaps>>

(* A request that goes on changes the rows and itself, nothing else.       *)
Goes == UNCHANGED <<overlaps, failures>>

(***************************************************************************)
(* enroll and enrollFromPurchase, which both end in activate.  Whether the *)
(* learner holds a seat is decided by OrganizationSeats.                   *)
(***************************************************************************)
Activated(source, p) ==
  [enrollment EXCEPT !.status = "ACTIVE", !.source = source, !.purchase = p, !.cohort = FALSE]

EnrollWithSeat(r, wantsCohort) ==
  /\ ~Under(r)
  /\ ~Accessible
  /\ req' = [req EXCEPT ![r].at = "activate", ![r].row = Activated("SEAT", NoPurchase),
                        ![r].fresh = enrollment = NoRow, ![r].cohort = wantsCohort]
  /\ Arrives
  /\ UNCHANGED <<rows, failures>>

(* fulfill of the payments service has saved the purchase as PAID.         *)
FulfillPurchase(r, p) ==
  /\ ~Under(r)
  /\ purchase[p] = "OPEN"
  /\ purchase' = [purchase EXCEPT ![p] = "PAID"]
  /\ req' = [req EXCEPT ![r].at = "purchaseRead", ![r].purchase = p]
  /\ Arrives
  /\ UNCHANGED <<enrollment, count, study, certificate, cohortMember, failures>>

EnrollFromPurchase(r) ==
  LET p == req[r].purchase IN
  /\ At(r, "purchaseRead")
  /\ \/ /\ ~Accessible
        /\ req' = [req EXCEPT ![r].at = "activate", ![r].row = Activated("PAID", p),
                              ![r].fresh = enrollment = NoRow]
     \/ /\ Accessible /\ enrollment.purchase = NoPurchase
        /\ req' = [req EXCEPT ![r].at = "savePurchase",
                              ![r].row = [enrollment EXCEPT !.purchase = p]]
     \/ /\ Accessible /\ enrollment.purchase # NoPurchase
        /\ Finish(r)
  /\ Goes /\ UNCHANGED rows

SavePurchase(r) ==
  /\ At(r, "savePurchase")
  /\ enrollment' = req[r].row
  /\ Finish(r)
  /\ Goes /\ UNCHANGED <<count, study, certificate, cohortMember, purchase>>

(* The unique index refuses a second row, and the request fails.           *)
ActivateSave(r) ==
  /\ At(r, "activate")
  /\ \/ /\ req[r].fresh => enrollment = NoRow
        /\ enrollment' = req[r].row
        /\ Continue(r, "increment")
     \/ /\ req[r].fresh /\ enrollment # NoRow
        /\ Finish(r)
        /\ UNCHANGED enrollment
  /\ Goes /\ UNCHANGED <<count, study, certificate, cohortMember, purchase>>

(* Mutant: a learner is counted twice.                                     *)
CountedTwice == count + 2

Counted == count + 1

Increment(r) ==
  /\ At(r, "increment")
  /\ count' = Counted
  /\ \/ req[r].cohort /\ Continue(r, "join")
     \/ ~req[r].cohort /\ Finish(r)
  /\ Goes /\ UNCHANGED <<enrollment, study, certificate, cohortMember, purchase>>

(* The join may be refused, and then enroll fails with the learner enrolled.*)
JoinWithEnrollment(r) ==
  /\ At(r, "join")
  /\ \/ /\ Accessible /\ ~cohortMember
        /\ cohortMember' = TRUE
        /\ Continue(r, "saveCohort")
     \/ /\ Finish(r)
        /\ UNCHANGED cohortMember
  /\ Goes /\ UNCHANGED <<enrollment, count, study, certificate, purchase>>

SaveCohort(r) ==
  /\ At(r, "saveCohort")
  /\ enrollment' = [req[r].row EXCEPT !.cohort = TRUE]
  /\ Finish(r)
  /\ Goes /\ UNCHANGED <<count, study, certificate, cohortMember, purchase>>

(* join and leave of the cohorts service, called on their own.  The join    *)
(* policy of the enrollments module asks for access.                       *)
JoinCohort ==
  /\ Accessible /\ ~cohortMember
  /\ cohortMember' = TRUE
  /\ Arrives
  /\ UNCHANGED <<enrollment, count, study, certificate, purchase, req, failures>>

LeaveCohort ==
  /\ cohortMember
  /\ cohortMember' = FALSE
  /\ Arrives
  /\ UNCHANGED <<enrollment, count, study, certificate, purchase, req, failures>>

(***************************************************************************)
(* cancel, by the learner, and cancelByPurchase, after a refund.  Only the *)
(* learner's own cancellation leaves the cohort.                           *)
(***************************************************************************)
Cancelled(row) == [row EXCEPT !.status = "CANCELLED"]

MayCancel(status) == status = "ACTIVE"

Cancel(r) ==
  /\ ~Under(r)
  /\ MayCancel(enrollment.status)
  /\ req' = [req EXCEPT ![r].at = "cancelSave", ![r].row = Cancelled(enrollment),
                        ![r].cohort = enrollment.cohort]
  /\ Arrives
  /\ UNCHANGED <<rows, failures>>

(* markRefunded of the payments service has saved the purchase as REFUNDED. *)
RefundPurchase(r, p) ==
  /\ ~Under(r)
  /\ purchase[p] = "PAID"
  /\ purchase' = [purchase EXCEPT ![p] = "REFUNDED"]
  /\ req' = [req EXCEPT ![r].at = "refundRead", ![r].purchase = p]
  /\ Arrives
  /\ UNCHANGED <<enrollment, count, study, certificate, cohortMember, failures>>

(* Mutant: the enrollments of the purchase are looked for when cancelled.   *)
GrantedByCancelled(p) == enrollment.purchase = p /\ enrollment.status = "CANCELLED"

GrantedBy(p) == enrollment.purchase = p /\ enrollment.status = "ACTIVE"

CancelByPurchase(r) ==
  /\ At(r, "refundRead")
  /\ \/ /\ GrantedBy(req[r].purchase)
        /\ req' = [req EXCEPT ![r].at = "cancelSave", ![r].row = Cancelled(enrollment)]
     \/ /\ ~GrantedBy(req[r].purchase)
        /\ Finish(r)
  /\ Goes /\ UNCHANGED rows

CancelSave(r) ==
  /\ At(r, "cancelSave")
  /\ enrollment' = req[r].row
  /\ Continue(r, "decrement")
  /\ Goes /\ UNCHANGED <<count, study, certificate, cohortMember, purchase>>

Leaves(r) == req[r].cohort

Decrement(r) ==
  /\ At(r, "decrement")
  /\ count' = count - 1
  /\ \/ Leaves(r) /\ Continue(r, "leave")
     \/ ~Leaves(r) /\ Finish(r)
  /\ Goes /\ UNCHANGED <<enrollment, study, certificate, cohortMember, purchase>>

LeaveWithEnrollment(r) ==
  /\ At(r, "leave")
  /\ cohortMember' = FALSE
  /\ Finish(r)
  /\ Goes /\ UNCHANGED <<enrollment, count, study, certificate, purchase>>

(***************************************************************************)
(* The quiz gate: a quiz lesson completes only by passing its quiz, and    *)
(* the lesson after a quiz stays locked until that quiz is passed.         *)
(***************************************************************************)
IsBefore(k, l) == k \in Present /\ k < l /\ \A m \in Present : ~(k < m /\ m < l)

(* Mutant: only the lesson's own quiz is asked for.                        *)
QuizGateOwnOnly(l) == l = QuizLesson => passed

QuizGate(l) == (l = QuizLesson \/ IsBefore(QuizLesson, l)) => passed

(***************************************************************************)
(* update of the progress service.  The lesson, the enrollment, the gate   *)
(* and the row of the lesson are read in one step.                         *)
(***************************************************************************)
Load(r, l, to) ==
  IF l \in Present /\ Accessible /\ (to = "COMPLETED" => QuizGate(l))
  THEN req' = [req EXCEPT ![r] = [Idle EXCEPT !.at = "saveProgress", !.row = enrollment,
                 !.lesson = l, !.was = progress[l], !.to = to]]
  ELSE Finish(r)

UpdateProgress(r, l, to) ==
  /\ ~Under(r)
  /\ l \in Present /\ Accessible /\ (to = "COMPLETED" => QuizGate(l))
  /\ Load(r, l, to)
  /\ Arrives
  /\ UNCHANGED <<rows, failures>>

UpdateAfterAttempt(r) ==
  /\ At(r, "update")
  /\ Load(r, req[r].lesson, req[r].to)
  /\ Goes /\ UNCHANGED rows

(* Mutant: what was completed is in progress again.                        *)
StatusAfterReopens(was, to) == to

StatusAfter(was, to) == IF was = "COMPLETED" THEN was ELSE to

(* The foreign key refuses progress in a lesson that has been deleted.     *)
SaveProgress(r) ==
  LET l == req[r].lesson IN
  /\ At(r, "saveProgress")
  /\ \/ /\ l \in Present
        /\ progress' = [progress EXCEPT ![l] = StatusAfter(req[r].was, req[r].to)]
        /\ Continue(r, "activity")
     \/ /\ l \notin Present
        /\ Finish(r)
        /\ UNCHANGED progress
  /\ Goes
  /\ UNCHANGED <<enrollment, count, lesson, activeToday, attempts, passed, certificate,
                 cohortMember, purchase>>

(* recordActivity finds the row of the day or inserts it.  When another     *)
(* request has inserted it meanwhile the unique index refuses the second,   *)
(* and the update ends there: the enrollment is not refreshed.             *)
RecordActivity(r) ==
  /\ At(r, "activity")
  /\ \/ activeToday /\ Continue(r, "refresh")
     \/ ~activeToday /\ Continue(r, "insertDay")
  /\ Goes /\ UNCHANGED rows

InsertActivityDay(r) ==
  /\ At(r, "insertDay")
  /\ \/ ~activeToday /\ Continue(r, "refresh")
     \/ activeToday /\ Finish(r)
  /\ activeToday' = TRUE
  /\ Goes
  /\ UNCHANGED <<enrollment, count, lesson, progress, attempts, passed, certificate,
                 cohortMember, purchase>>

Midnight ==
  /\ activeToday
  /\ activeToday' = FALSE
  /\ UNCHANGED <<enrollment, count, lesson, progress, attempts, passed, certificate,
                 cohortMember, purchase, req, overlaps, failures>>

(* refreshEnrollment counts the lessons and the completed ones, and saves   *)
(* the enrollment that was loaded before the gates.                        *)
CompletedLessons == {l \in Lessons : progress[l] = "COMPLETED"}

AllCompleted == Cardinality(CompletedLessons) >= Cardinality(Present)

RefreshEnrollment(r) ==
  /\ At(r, "refresh")
  /\ req' = [req EXCEPT ![r].at = "refreshSave",
                        ![r].finished = Present # {} /\ AllCompleted]
  /\ Goes /\ UNCHANGED rows

RefreshSave(r) ==
  /\ At(r, "refreshSave")
  /\ enrollment' = req[r].row
  /\ \/ req[r].finished /\ req[r].row.status = "ACTIVE" /\ Continue(r, "complete")
     \/ ~(req[r].finished /\ req[r].row.status = "ACTIVE") /\ Finish(r)
  /\ Goes /\ UNCHANGED <<count, study, certificate, cohortMember, purchase>>

(* markCompleted, then the handler that issues the certificate, at most one *)
(* per enrollment.                                                         *)
(* Mutant: the handlers are not called.                                    *)
AfterCompletionNothing(r) == Finish(r)

AfterCompletion(r) == Continue(r, "issue")

CompletedRow(row) == [row EXCEPT !.status = "COMPLETED"]

MarkCompleted(r) ==
  /\ At(r, "complete")
  /\ enrollment' = CompletedRow(req[r].row)
  /\ AfterCompletion(r)
  /\ Goes /\ UNCHANGED <<count, study, certificate, cohortMember, purchase>>

IssueForEnrollment(r) ==
  /\ At(r, "issue")
  /\ certificate' = IF certificate = "NONE" THEN "VALID" ELSE certificate
  /\ Finish(r)
  /\ Goes /\ UNCHANGED <<enrollment, count, study, cohortMember, purchase>>

(***************************************************************************)
(* submit of the quizzes service: the attempts are counted, the answers    *)
(* graded, the attempt saved, and then the progress in the lesson updated.  *)
(***************************************************************************)
WithinBudget(used) == MaxAttempts = 0 \/ used < MaxAttempts

SubmitAttempt(r, passes) ==
  /\ ~Under(r)
  /\ attempts < MaxTries
  /\ QuizLesson \in Present /\ Accessible
  /\ WithinBudget(attempts)
  /\ req' = [req EXCEPT ![r].at = "saveAttempt", ![r].lesson = QuizLesson,
                        ![r].to = IF passes THEN "COMPLETED" ELSE "IN_PROGRESS"]
  /\ Arrives
  /\ UNCHANGED <<rows, failures>>

SaveAttempt(r) ==
  /\ At(r, "saveAttempt")
  /\ \/ /\ QuizLesson \in Present
        /\ attempts' = attempts + 1
        /\ passed' = (passed \/ req[r].to = "COMPLETED")
        /\ Continue(r, "update")
     \/ /\ QuizLesson \notin Present
        /\ Finish(r)
        /\ UNCHANGED <<attempts, passed>>
  /\ Goes
  /\ UNCHANGED <<enrollment, count, lesson, progress, activeToday, certificate,
                 cohortMember, purchase>>

(***************************************************************************)
(* Certificates are revoked and reissued by admins.  A reissue renders and *)
(* uploads between the load and the save.                                  *)
(***************************************************************************)
Revoke ==
  /\ certificate = "VALID"
  /\ certificate' = "REVOKED"
  /\ Arrives
  /\ UNCHANGED <<enrollment, count, study, cohortMember, purchase, req, failures>>

Reissue(r) ==
  /\ ~Under(r)
  /\ certificate # "NONE"
  /\ req' = [req EXCEPT ![r].at = "reissueSave", ![r].finished = certificate = "REVOKED"]
  /\ Arrives
  /\ UNCHANGED <<rows, failures>>

Reissued(r) == IF req[r].finished THEN "REVOKED" ELSE "VALID"

ReissueSave(r) ==
  /\ At(r, "reissueSave")
  /\ certificate' = Reissued(r)
  /\ Finish(r)
  /\ Goes /\ UNCHANGED <<enrollment, count, study, cohortMember, purchase>>

(***************************************************************************)
(* The curriculum changes under the learner: a lesson is appended, or one  *)
(* is deleted with its progress, its quiz and the attempts.                *)
(***************************************************************************)
AddLesson(l) ==
  /\ lesson[l] = "PLANNED"
  /\ \A k \in Lessons : k < l => lesson[k] # "PLANNED"
  /\ lesson' = [lesson EXCEPT ![l] = "THERE"]
  /\ Arrives
  /\ UNCHANGED <<enrollment, count, progress, activeToday, attempts, passed, certificate,
                 cohortMember, purchase, req, failures>>

RemoveLesson(l) ==
  /\ l \in Present
  /\ lesson' = [lesson EXCEPT ![l] = "REMOVED"]
  /\ progress' = [progress EXCEPT ![l] = "NOT_STARTED"]
  /\ attempts' = IF l = QuizLesson THEN 0 ELSE attempts
  /\ passed' = (passed /\ l # QuizLesson)
  /\ Arrives
  /\ UNCHANGED <<enrollment, count, activeToday, certificate, cohortMember, purchase, req,
                 failures>>

Step(r) ==
  \/ EnrollFromPurchase(r) \/ SavePurchase(r) \/ ActivateSave(r) \/ Increment(r)
  \/ JoinWithEnrollment(r) \/ SaveCohort(r)
  \/ CancelByPurchase(r) \/ CancelSave(r) \/ Decrement(r) \/ LeaveWithEnrollment(r)
  \/ UpdateAfterAttempt(r) \/ SaveProgress(r) \/ RecordActivity(r) \/ InsertActivityDay(r)
  \/ RefreshEnrollment(r) \/ RefreshSave(r) \/ MarkCompleted(r) \/ IssueForEnrollment(r)
  \/ SaveAttempt(r) \/ ReissueSave(r)

Next ==
  \/ \E r \in Requests :
       \/ Step(r) \/ Fail(r) \/ Cancel(r) \/ Reissue(r)
       \/ \E wants \in BOOLEAN : EnrollWithSeat(r, wants)
       \/ \E passes \in BOOLEAN : SubmitAttempt(r, passes)
       \/ \E p \in PurchaseIds : FulfillPurchase(r, p) \/ RefundPurchase(r, p)
       \/ \E l \in Lessons, to \in {"IN_PROGRESS", "COMPLETED"} : UpdateProgress(r, l, to)
  \/ JoinCohort \/ LeaveCohort \/ Midnight \/ Revoke
  \/ \E l \in Lessons : AddLesson(l) \/ RemoveLesson(l)

Spec == Init /\ [][Next]_vars

-----------------------------------------------------------------------------
(* Nothing is under way, and so far nothing has overlapped or failed.      *)
Quiet == overlaps = 0 /\ failures = 0 /\ \A r \in Requests : ~Under(r)
NoLessonRemoved == \A l \in Lessons : lesson[l] # "REMOVED"

(* Every row and every request has a value of its kind: the type invariant  *)
(* of the enrollment, its progress and its certificate.                    *)
TypeOK ==
  /\ enrollment \in Enrollment
  /\ count \in Int
  /\ lesson \in [Lessons -> {"PLANNED", "THERE", "REMOVED"}]
  /\ progress \in [Lessons -> ProgressStatus]
  /\ activeToday \in BOOLEAN
  /\ attempts \in Nat
  /\ passed \in BOOLEAN
  /\ certificate \in Certificate
  /\ cohortMember \in BOOLEAN
  /\ purchase \in [PurchaseIds -> {"OPEN", "PAID", "REFUNDED"}]
  /\ req \in [Requests -> Request]
  /\ overlaps \in Nat
  /\ failures \in Nat

(* The counter of the course counts exactly the learners who have access,  *)
(* unless requests overlapped or one failed: the counter is moved by a      *)
(* statement of its own, after the row is saved.                           *)
CountMatchesAccess == Quiet => count = (IF Accessible THEN 1 ELSE 0)

(* A completed enrollment has its certificate, or a request is about to     *)
(* issue it, whatever overlaps, as long as no handler fails: the            *)
(* completion handlers are called once and never again.                    *)
CompletedEarnsCertificate ==
  failures = 0 /\ enrollment.status = "COMPLETED" =>
    certificate # "NONE" \/ \E r \in Requests : At(r, "issue")

(* A certificate belongs to an enrollment that is complete.                *)
CertificateWasEarned == Quiet /\ certificate # "NONE" => enrollment.status = "COMPLETED"

(* A quiz lesson is completed, and so is the lesson right after it, only by *)
(* learners who have passed the quiz; whatever overlaps or fails.          *)
QuizGatesHold ==
  /\ QuizLesson \in CompletedLessons => passed
  /\ \A l \in CompletedLessons : l = QuizLesson + 1 /\ QuizLesson \in Present => passed

(* The attempts exceed the budget by less than the number of requests that  *)
(* run at the same time: each of them counts before it saves.              *)
SavingAttempt == {r \in Requests : At(r, "saveAttempt")}
AttemptsWithinBudget ==
  MaxAttempts > 0 =>
    attempts + Cardinality(SavingAttempt) < MaxAttempts + Cardinality(Requests)

(* A refunded purchase leaves nobody active under it, and nobody has paid   *)
(* access without a purchase that is paid for.                             *)
AccessIsPaidFor ==
  Quiet /\ enrollment.status = "ACTIVE" =>
    /\ enrollment.source = "PAID" => enrollment.purchase # NoPurchase
    /\ enrollment.purchase # NoPurchase => purchase[enrollment.purchase] = "PAID"

(* An active learner has something left to complete, unless a lesson was    *)
(* deleted: the enrollment completes with its last lesson.                 *)
CompletesWithLastLesson ==
  Quiet /\ NoLessonRemoved /\ enrollment.status = "ACTIVE" => CompletedLessons # Present

(* A learner who cancelled is out of the cohort joined on enrolling; who    *)
(* stays in a cohort without access was refunded, or had joined it later.   *)
CancelLeavesCohort ==
  Quiet /\ cohortMember /\ ~Accessible /\ enrollment.cohort =>
    /\ enrollment.purchase # NoPurchase
    /\ purchase[enrollment.purchase] = "REFUNDED"

(* Completed lessons and enrollments stay so, and a revoked certificate     *)
(* stays revoked, while requests do not overlap.                           *)
FinishedStaysFinished ==
  [][overlaps' = 0 =>
       /\ enrollment.status = "COMPLETED" => enrollment'.status = "COMPLETED"
       /\ certificate = "REVOKED" => certificate' = "REVOKED"
       /\ \A l \in CompletedLessons : lesson'[l] = "THERE" => progress'[l] = "COMPLETED"]_vars

(* The counter of the course and the cohort follow the enrollment.         *)
EnrollmentIsCounted == TypeOK /\ CountMatchesAccess /\ CancelLeavesCohort

(* A quiz stands between its lessons, and attempts at it are limited,       *)
(* however the attempts overlap.                                           *)
QuizzesGuardLessons == QuizGatesHold /\ AttemptsWithinBudget

(* The enrollment completes with its last lesson, and certificates with     *)
(* enrollments.                                                            *)
CompletionIsCertified ==
  CompletesWithLastLesson /\ CompletedEarnsCertificate /\ CertificateWasEarned
=============================================================================
