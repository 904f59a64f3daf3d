----------------------------- MODULE Coursework -----------------------------
(***************************************************************************)
(* The assignment of one lesson and the work of one learner on it:         *)
(* submissions and their grades (src/assignments/assignments.service.ts),  *)
(* what a grade does to the lesson of the learner (src/enrollments), and   *)
(* the inbox in which it is announced (src/notifications).                 *)
(*                                                                         *)
(* Handlers load rows, await other things and save them.  Removing an      *)
(* assignment cascades to its submissions; saving a row that is gone       *)
(* inserts it again, if the foreign key lets it.                           *)
(***************************************************************************)
EXTENDS Naturals, FiniteSets

CONSTANTS
  MaxPoints,
  Settings,       \* what an instructor may ask of the work
  MaxAssignments, \* a bound for the checker: how often the assignment is created
  MaxSubmissions, \* a bound for the checker: submissions sent
  MaxGrades,      \* a bound for the checker: grades given
  Requests,       \* the requests the servers handle at the same time
  MaxDisturbances \* a bound for the checker: how often requests overlap or fail

(* passing is passingPoints, again allowResubmission; limit is              *)
(* maxSubmissions, where 0 is no limit.                                    *)
Setting == [passing: 0..MaxPoints, again: BOOLEAN, limit: Nat]

ASSUME SettingsAssumption == MaxPoints \in Nat /\ Settings \subseteq Setting /\ Settings # {}
ASSUME BoundAssumption == {MaxAssignments, MaxSubmissions, MaxGrades, MaxDisturbances} \subseteq Nat
ASSUME RequestAssumption == IsFiniteSet(Requests) /\ Requests # {}

AssignmentIds == 1..MaxAssignments  \* 0 is no assignment
SubmissionIds == 1..MaxSubmissions  \* 0 is no submission
NoteIds == 1..MaxGrades

VARIABLES
  assignment,  \* the row of the lesson's assignment: its id and settings
  created,     \* how many assignments have been created
  submission,  \* the rows of submissions
  sent,        \* how many submissions have been saved
  progress,    \* the status of the lesson for the learner
  access,      \* the learner's enrollment grants access
  unlocked,    \* the lesson gate is open: the quiz before the lesson is passed
  note,        \* the notifications of the learner
  grades,      \* how often a grade was asked for
  largest,     \* the largest limit there was, 0 when there was none once
  refused,     \* how many passes were saved whose lesson was refused
  req, overlaps, failures

ghosts == <<grades, largest, refused>>
rows == <<assignment, created, submission, sent, progress, access, unlocked, note, ghosts>>
vars == <<rows, req, overlaps, failures>>

AnySetting == CHOOSE s \in Settings : TRUE
Assignment == [id: AssignmentIds \union {0}, set: Settings]
NoAssignment == [id |-> 0, set |-> AnySetting]

(* of is the assignment, 0 when there is no row; good is whether the grade  *)
(* passed when it was given.                                               *)
Submission == [of: AssignmentIds \union {0}, attempt: Nat,
               status: {"SUBMITTED", "RETURNED", "GRADED"}, score: 0..MaxPoints, good: BOOLEAN]
(* An announcement in the inbox: read_at is set once it is read.            *)
Notification == {"NONE", "UNREAD", "READ", "DELETED"}

NoSubmission == [of |-> 0, attempt |-> 0, status |-> "SUBMITTED", score |-> 0, good |-> FALSE]

Places == {"idle", "upsert", "remove", "saveSubmission", "startLesson",
           "saveGrade", "completeLesson", "notify", "saveRead"}

Request == [at: Places, found: Assignment, sub: SubmissionIds \union {0}, row: Submission,
            note: NoteIds \union {0}]
Idle == [at |-> "idle", found |-> NoAssignment, sub |-> 0, row |-> NoSubmission, note |-> 0]

Init ==
  /\ assignment = NoAssignment
  /\ created = 0
  /\ submission = [s \in SubmissionIds |-> NoSubmission]
  /\ sent = 0
  /\ progress = "NOT_STARTED"
  /\ access = TRUE
  /\ unlocked \in BOOLEAN
  /\ note = [n \in NoteIds |-> "NONE"]
  /\ grades = 0
  /\ largest = 1
  /\ refused = 0
  /\ req = [r \in Requests |-> Idle]
  /\ overlaps = 0
  /\ failures = 0

(***************************************************************************)
(* Requests.                                                               *)
(***************************************************************************)
At(r, place) == req[r].at = place
Under(r) == req[r].at # "idle"
Finish(r) == req' = [req EXCEPT ![r] = Idle]
Continue(r, place) == req' = [req EXCEPT ![r].at = place]
Undisturbed == overlaps + failures < MaxDisturbances

(* Every first step counts whether a request was under way.                *)
Arrives ==
  /\ \/ /\ \A q \in Requests : ~Under(q)
        /\ UNCHANGED overlaps
     \/ /\ \E q \in Requests : Under(q)
        /\ Undisturbed
        /\ overlaps' = overlaps + 1
  /\ UNCHANGED failures

Starts(r, request) == ~Under(r) /\ req' = [req EXCEPT ![r] = request] /\ Arrives

Goes == UNCHANGED <<overlaps, failures>>

Fail(r) ==
  /\ Under(r)
  /\ Undisturbed
  /\ failures' = failures + 1
  /\ Finish(r)
  /\ UNCHANGED <<rows, overlaps>>

(***************************************************************************)
(* The instructor writes or removes the assignment.                        *)
(***************************************************************************)
There == assignment.id # 0

(* upsert takes the row of the lesson or a new one.                        *)
Upsert(r, set) ==
  /\ There \/ created < MaxAssignments
  /\ Starts(r, [Idle EXCEPT !.at = "upsert", !.found = [assignment EXCEPT !.set = set]])
  /\ UNCHANGED rows

(* The unique index on lesson_id refuses a second assignment.              *)
UpsertSave(r) ==
  LET found == req[r].found
      id == IF found.id = 0 THEN created + 1 ELSE found.id
  IN
  /\ At(r, "upsert")
  /\ id \in AssignmentIds
  /\ ~There \/ assignment.id = id
  /\ assignment' = [found EXCEPT !.id = id]
  /\ created' = IF found.id = 0 THEN id ELSE created
  /\ largest' = IF largest = 0 \/ found.set.limit = 0 THEN 0
                ELSE IF found.set.limit > largest THEN found.set.limit ELSE largest
  /\ Finish(r)
  /\ Goes /\ UNCHANGED <<submission, sent, progress, access, unlocked, note, grades, refused>>

UpsertRefused(r) ==
  /\ At(r, "upsert")
  /\ There /\ assignment.id # req[r].found.id
  /\ Finish(r)
  /\ Goes /\ UNCHANGED rows

RemoveAssignment(r) ==
  /\ There
  /\ Starts(r, [Idle EXCEPT !.at = "remove", !.found = assignment])
  /\ UNCHANGED rows

Cascade(id) ==
  [s \in SubmissionIds |-> IF submission[s].of = id THEN NoSubmission ELSE submission[s]]

RemoveDelete(r) ==
  LET id == req[r].found.id IN
  /\ At(r, "remove")
  /\ assignment' = IF assignment.id = id THEN NoAssignment ELSE assignment
  /\ submission' = Cascade(id)
  /\ Finish(r)
  /\ Goes /\ UNCHANGED <<created, sent, progress, access, unlocked, note, ghosts>>

(***************************************************************************)
(* The learner submits.                                                    *)
(***************************************************************************)
Of(id) == {s \in SubmissionIds : id # 0 /\ submission[s].of = id}

(* The last of the submissions in the order of their attempt numbers.      *)
IsLatest(s, work) == s \in work /\ \A t \in work : submission[t].attempt <= submission[s].attempt

(* submissionPassed: there is a score, also when the work was returned.     *)
Passed(row, set) == row.status # "SUBMITTED" /\ row.score >= set.passing

(* submissionBlocker.  Mutant: work that waits for a grade does not block.  *)
MaySubmitUngraded(work, set) ==
  \E latest \in work :
    /\ IsLatest(latest, work)
    /\ ~Passed(submission[latest], set)
    /\ set.again
    /\ set.limit > 0 => Cardinality(work) < set.limit

MaySubmit(work, set) ==
  \E latest \in work :
    /\ IsLatest(latest, work)
    /\ submission[latest].status # "SUBMITTED"
    /\ ~Passed(submission[latest], set)
    /\ set.again
    /\ set.limit > 0 => Cardinality(work) < set.limit

AttemptNumber(work) == Cardinality(work) + 1

Submit(r) ==
  LET work == Of(assignment.id) IN
  /\ There /\ access /\ sent < MaxSubmissions
  /\ work = {} \/ MaySubmit(work, assignment.set)
  /\ Starts(r, [Idle EXCEPT !.at = "saveSubmission", !.found = assignment,
       !.row = [NoSubmission EXCEPT !.of = assignment.id, !.attempt = AttemptNumber(work)]])
  /\ UNCHANGED rows

(* The foreign key refuses a submission of an assignment that is gone.     *)
SubmissionSave(r) ==
  /\ At(r, "saveSubmission")
  /\ \/ /\ assignment.id = req[r].row.of
        /\ sent < MaxSubmissions
        /\ sent' = sent + 1
        /\ submission' = [submission EXCEPT ![sent + 1] = req[r].row]
        /\ Continue(r, "startLesson")
     \/ /\ assignment.id # req[r].row.of
        /\ Finish(r)
        /\ UNCHANGED <<sent, submission>>
  /\ Goes /\ UNCHANGED <<assignment, created, progress, access, unlocked, note, ghosts>>

(* update of the progress service refuses learners without access.         *)
StartLesson(r) ==
  /\ At(r, "startLesson")
  /\ progress' = IF access /\ progress = "NOT_STARTED" THEN "IN_PROGRESS" ELSE progress
  /\ Finish(r)
  /\ Goes /\ UNCHANGED <<assignment, created, submission, sent, access, unlocked, note, ghosts>>

(***************************************************************************)
(* An instructor grades a submission, graded before or not, the last one   *)
(* or not, on the settings as they are now.                                *)
(***************************************************************************)
Graded(row, score, set) ==
  [row EXCEPT !.score = score, !.good = score >= set.passing,
              !.status = IF score >= set.passing \/ ~set.again THEN "GRADED" ELSE "RETURNED"]

Grade(r, s, score) ==
  /\ There
  /\ s \in Of(assignment.id)
  /\ grades < MaxGrades
  /\ grades' = grades + 1
  /\ Starts(r, [Idle EXCEPT !.at = "saveGrade", !.found = assignment, !.sub = s,
                            !.row = Graded(submission[s], score, assignment.set)])
  /\ UNCHANGED <<assignment, created, submission, sent, progress, access, unlocked, note, largest, refused>>

(* Mutant: a pass only sends the message.                                  *)
AfterGradeMessage(row) == "notify"
AfterGrade(row) == IF row.good THEN "completeLesson" ELSE "notify"

GradeSave(r) ==
  LET row == req[r].row IN
  /\ At(r, "saveGrade")
  /\ \/ /\ assignment.id = row.of
        /\ submission' = [submission EXCEPT ![req[r].sub] = row]
        /\ \/ AfterGrade(row) = "idle" /\ Finish(r)
           \/ AfterGrade(row) # "idle" /\ Continue(r, AfterGrade(row))
     \/ /\ assignment.id # row.of
        /\ Finish(r)
        /\ UNCHANGED submission
  /\ Goes /\ UNCHANGED <<assignment, created, sent, progress, access, unlocked, note, ghosts>>

(* The update of the progress throws without access and behind a lesson     *)
(* gate that is not open.  The request ends here: the grade is saved, the   *)
(* lesson is not complete and nobody is told.                              *)
MayComplete == access /\ unlocked

CompleteLesson(r) ==
  /\ At(r, "completeLesson")
  /\ \/ /\ MayComplete
        /\ progress' = "COMPLETED"
        /\ Continue(r, "notify")
        /\ UNCHANGED refused
     \/ /\ ~MayComplete
        /\ refused' = refused + 1
        /\ Finish(r)
        /\ UNCHANGED progress
  /\ Goes
  /\ UNCHANGED <<assignment, created, submission, sent, access, unlocked, note, grades, largest>>

(* create of the notifications service; a failure is only logged.          *)
Notify(r) ==
  /\ At(r, "notify")
  /\ \E n \in NoteIds :
       /\ note[n] = "NONE" /\ \A m \in NoteIds : m < n => note[m] # "NONE"
       /\ note' = [note EXCEPT ![n] = "UNREAD"]
  /\ Finish(r)
  /\ Goes /\ UNCHANGED <<assignment, created, submission, sent, progress, access, unlocked, ghosts>>

(***************************************************************************)
(* The learner's enrollment (the module Enrollments), quizzes and inbox.    *)
(***************************************************************************)
ChangeAccess ==
  /\ access' = ~access
  /\ Arrives
  /\ UNCHANGED <<assignment, created, submission, sent, progress, unlocked, note, ghosts, req>>

(* The learner passes the quiz before the lesson; or lessons are reordered, *)
(* or written, and another quiz comes before it.                           *)
ChangeGate ==
  /\ unlocked' = ~unlocked
  /\ Arrives
  /\ UNCHANGED <<assignment, created, submission, sent, progress, access, note, ghosts, req>>

(* markRead loads the notification and saves it.                           *)
MarkRead(r, n) ==
  /\ note[n] = "UNREAD"
  /\ Starts(r, [Idle EXCEPT !.at = "saveRead", !.note = n])
  /\ UNCHANGED rows

SaveRead(r) ==
  /\ At(r, "saveRead")
  /\ note' = [note EXCEPT ![req[r].note] = "READ"]
  /\ Finish(r)
  /\ Goes /\ UNCHANGED <<assignment, created, submission, sent, progress, access, unlocked, ghosts>>

MarkAllRead ==
  /\ note' = [n \in NoteIds |-> IF note[n] = "UNREAD" THEN "READ" ELSE note[n]]
  /\ Arrives
  /\ UNCHANGED <<assignment, created, submission, sent, progress, access, unlocked, ghosts, req>>

RemoveNote(n) ==
  /\ note[n] \in {"UNREAD", "READ"}
  /\ note' = [note EXCEPT ![n] = "DELETED"]
  /\ Arrives
  /\ UNCHANGED <<assignment, created, submission, sent, progress, access, unlocked, ghosts, req>>

Step(r) ==
  \/ UpsertSave(r) \/ UpsertRefused(r) \/ RemoveDelete(r)
  \/ SubmissionSave(r) \/ StartLesson(r) \/ GradeSave(r) \/ CompleteLesson(r)
  \/ Notify(r) \/ SaveRead(r)

Next ==
  \/ \E r \in Requests :
       \/ Step(r) \/ Fail(r) \/ RemoveAssignment(r) \/ Submit(r)
       \/ \E set \in Settings : Upsert(r, set)
       \/ \E s \in SubmissionIds, score \in 0..MaxPoints : Grade(r, s, score)
       \/ \E n \in NoteIds : MarkRead(r, n)
  \/ ChangeAccess \/ ChangeGate \/ MarkAllRead
  \/ \E n \in NoteIds : RemoveNote(n)

Spec == Init /\ [][Next]_vars

-----------------------------------------------------------------------------
(* Nothing is under way, and so far nothing has overlapped or failed.      *)
Quiet == overlaps = 0 /\ failures = 0 /\ \A r \in Requests : ~Under(r)
Work == Of(assignment.id)

(* Every row and request has a value of its kind, and every submission an  *)
(* assignment, however removals overlap: the type invariant of             *)
(* src/assignments.                                                        *)
TypeOK ==
  /\ assignment \in Assignment
  /\ created \in 0..MaxAssignments
  /\ submission \in [SubmissionIds -> Submission]
  /\ sent \in 0..MaxSubmissions
  /\ progress \in {"NOT_STARTED", "IN_PROGRESS", "COMPLETED"}
  /\ access \in BOOLEAN
  /\ unlocked \in BOOLEAN
  /\ note \in [NoteIds -> Notification]
  /\ grades \in 0..MaxGrades
  /\ largest \in Nat
  /\ refused \in Nat
  /\ req \in [Requests -> Request]
  /\ overlaps \in Nat
  /\ failures \in Nat
  /\ \A s \in SubmissionIds : submission[s].of \in {0, assignment.id}

(* A passing score completes the lesson, whichever submission was graded or *)
(* graded again, but for those at which the lesson was refused: with more  *)
(* work passed than was refused the lesson is complete.                    *)
Good == {s \in SubmissionIds : submission[s].good}
PassesCompleteTheLesson == Quiet /\ Cardinality(Good) > refused => progress = "COMPLETED"

(* "Passing scores complete the lesson": between requests that did not      *)
(* overlap or fail, whoever has passed has completed it.  The lesson gate  *)
(* of a quiz that comes before it refuses that after the grade was saved.  *)
PassingScoresCompleteTheLesson == Quiet /\ Good # {} => progress = "COMPLETED"

(* Between requests one submission at most waits for its grade, and it is   *)
(* the latest: nobody is graded twice for the same state of the work.      *)
OneAwaitsItsGrade ==
  Quiet => \A s \in Work : submission[s].status = "SUBMITTED" => \A t \in Work \ {s} :
    submission[t].status # "SUBMITTED" /\ submission[t].attempt < submission[s].attempt

(* Attempts are numbered 1..n without gaps, also after the assignment was   *)
(* removed and written again.                                              *)
AttemptsAreNumbered ==
  Quiet => {submission[s].attempt : s \in Work} = 1..Cardinality(Work)

(* Whatever overlaps, the submissions exceed the largest limit there has    *)
(* been by less than the number of requests handled at the same time.      *)
Sending == {r \in Requests : At(r, "saveSubmission") /\ req[r].row.of = assignment.id}
SubmissionsAreLimited ==
  largest > 0 => Cardinality(Work) + Cardinality(Sending) < largest + Cardinality(Requests)

(* Every grade that was given is announced, and so is found in the inbox or *)
(* was read or deleted there, but for the passes refused at the lesson.     *)
GradesAreAnnounced ==
  Quiet =>
    Cardinality({s \in Work : submission[s].status # "SUBMITTED"})
      <= Cardinality({n \in NoteIds : note[n] # "NONE"}) + refused

(* A grade reaches the lesson and the learner.                             *)
GradesTakeEffect == PassesCompleteTheLesson /\ GradesAreAnnounced

(* Submissions come one after the other, numbered and limited.             *)
SubmissionsStayInOrder ==
  TypeOK /\ OneAwaitsItsGrade /\ AttemptsAreNumbered /\ SubmissionsAreLimited
=============================================================================
