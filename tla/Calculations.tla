---------------------------- MODULE Calculations ----------------------------
(***************************************************************************)
(* The pure computations of Grading, Reporting, Storefront, Identifiers    *)
(* and SeedScript, each answered once: a behaviour is one request, out of  *)
(* a set that the instance gives, and its response.  The properties        *)
(* compare the algorithm of the code with what its result means, or with   *)
(* what another part of the code computes of the same rows.                *)
(***************************************************************************)
EXTENDS Requests, Reporting, Storefront, Identifiers, SeedScript

CONSTANTS
  QuizWrites,        \* questions an instructor sends
  QuizSubmissions,   \* a quiz and the answers of a learner
  Grades,            \* an assignment and the grade of an instructor
  GradebookRequests, \* the work of one learner on an assignment and a quiz
  PageRequests,      \* a list and the page that is asked for
  Reissues,          \* certificates, the size of a batch and those that fail
  StreakRequests,    \* the days a learner was active on, and today
  OutlineRequests,   \* modules of lessons, and the progress of a learner
  ScheduleEdits,     \* sessions and attendance so far, and what is done to them
  RevenueRequests,   \* purchases, and a range that is cut in two
  DashboardRequests, \* purchases, enrollments, and what an instructor teaches
  ActivityRequests,  \* enrollments, a cohort, and a range that is cut in two
  Checkouts,         \* courses, the enrollments of a user, and what is bought
  CourseViews,       \* a course, who looks at it, and their enrollment
  FaqEdits,          \* a sequence of operations on the questions of a course
  SlugWrites,        \* titles, written one after the other
  Backfills,         \* the referral codes of the accounts
  SeedRuns           \* where earlier runs of the seed script stopped

ASSUME WindowAssumption == StreakWindow \in Nat /\ RecentDays \in Nat
ASSUME PageAssumption == DefaultPageSize \in 1..MaxPageSize

(* Only what passes the validation of its request reaches a service.       *)
ASSUME RequestsAssumption ==
  /\ \A r \in QuizWrites : IsQuizUpsert(r.questions, 100, 0)
  /\ \A r \in QuizSubmissions :
       IsQuizUpsert(r.quiz.questions, r.quiz.passing, 0) /\ IsQuizAnswers(r.answers)
  /\ \A r \in Grades : IsAssignmentUpsert(r.rubric, r.maxPoints) /\ IsGrade(r.dto)
  /\ \A r \in ScheduleEdits, i \in 1..2 :
       i \in DOMAIN r.ops /\ r.ops[i].do = "mark" => IsAttendance(r.ops[i].entries)
  /\ \A r \in Checkouts : IsCheckout(r.dto)

VARIABLES request, response
vars == <<request, response>>

Init == request = Null /\ response = Null

Asked(kind) == request # Null /\ request.kind = kind

Waiting == request = Null
Respond(r, answer) ==
  /\ request' = r
  /\ response' = answer

WriteQuiz == Waiting /\ \E r \in QuizWrites : Respond(r, QuestionsValid(r.questions))

AnswerQuiz == Waiting /\ \E r \in QuizSubmissions : Respond(r, SubmitQuiz(r.quiz, r.answers))

(* The assignment is written first, so a grade is only given of a valid one. *)
GradeWork ==
  Waiting /\ \E r \in Grades :
    Respond(r, IF RubricValid(r.rubric, r.maxPoints)
               THEN ComputeScore(r.rubric, r.maxPoints, r.dto) ELSE Refused)

ReadGradebook ==
  Waiting /\ \E r \in GradebookRequests :
    Respond(r, [row |-> GradebookRow(<<AssignmentCell(r.assignment, r.submissions),
                                       QuizCell(r.attempts)>>),
                view |-> LearnerView(r.attempts, r.maxAttempts),
                blocker |-> SubmissionBlocker(r.assignment, r.submissions)])

ReadPage == Waiting /\ \E r \in PageRequests : Respond(r, PaginateArray(r.items, r))

Reissue == Waiting /\ \E r \in Reissues : Respond(r, ReissueAll(r.certificates, r.batchSize, r.failing))

ReadStreak == Waiting /\ \E r \in StreakRequests : Respond(r, Streak(r.days, r.today))

ReadOutline ==
  Waiting /\ \E r \in OutlineRequests :
    Respond(r, [next |-> FirstIncomplete(r.modules, r.row), count |-> CourseCount(r.modules, r.row)])

(* Sessions are edited and marked, and then the summary is read.           *)
EditAndSummarise ==
  Waiting /\ \E r \in ScheduleEdits :
    LET schedule == FoldLeft(LAMBDA s, op : EditSchedule(s, op, r.enrolled), r.schedule, r.ops)
        held == {s \in DOMAIN schedule.sessions : schedule.sessions[s].to <= r.now}
    IN  Respond(r, [schedule |-> schedule, held |-> held,
                    members |-> [u \in r.enrolled |-> MemberAttendance(schedule.rows, held, u)]])

Between(r, from, to) == RevenueOverTime(r.purchases, [from |-> from, to |-> to], r.width)

ReadRevenue ==
  Waiting /\ \E r \in RevenueRequests :
    LET range == ResolveRange(r, r.now) IN
    Respond(r, IF range = Refused THEN Refused
               ELSE [from |-> range.from, to |-> range.to,
                     whole |-> Between(r, range.from, range.to)])

ReadDashboard ==
  Waiting /\ \E r \in DashboardRequests :
    Respond(r, [overview |-> Overview(r.purchases, r.enrollments),
                course |-> [c \in r.courses |-> CourseFigures(r.purchases, r.enrollments, c)],
                instructor |-> InstructorFigures(r.purchases, r.enrollments, r.taught, r.since)])

Activity(r, from, to) == EnrollmentsOverTime(r.enrollments, [from |-> from, to |-> to], r.width)

ReadActivity ==
  Waiting /\ \E r \in ActivityRequests :
    LET range == ResolveRange(r, r.now) IN
    Respond(r, IF range = Refused THEN Refused
               ELSE [from |-> range.from, to |-> range.to,
                     whole |-> Activity(r, range.from, range.to),
                     overview |-> Overview(<<>>, r.enrollments),
                     cohort |-> CohortCompletion(r.members, r.course, r.enrollments)])

StartCheckout ==
  Waiting /\ \E r \in Checkouts : Respond(r, BuildDraft(r.courses, r.enrollment, r.dto))

ViewCourse ==
  Waiting /\ \E r \in CourseViews : Respond(r, FindBySlug(r.course, r.viewer, r.enrolled))

WriteSlugs == Waiting /\ \E r \in SlugWrites : Respond(r, Slugs(r.titles, r.draws))

Backfill ==
  Waiting /\ \E r \in Backfills : Respond(r, BackfillCodes(r.codes, r.batchSize, r.draws))

NoFaqs == [f \in {} |-> 0]
ChangeFaqs == Waiting /\ \E r \in FaqEdits : Respond(r, FoldLeft(EditFaqs, NoFaqs, r.ops))

(* The script runs to its end twice, after the runs that did not.          *)
Seed ==
  Waiting /\ \E r \in SeedRuns :
    LET first == WholeRun(CrashedRuns(r.crashes)) IN
    Respond(r, [first |-> first, second |-> WholeRun(first.db)])

Next ==
  \/ WriteQuiz \/ AnswerQuiz \/ GradeWork \/ ReadGradebook
  \/ ReadPage \/ Reissue \/ ReadStreak \/ ReadOutline
  \/ EditAndSummarise \/ ReadRevenue \/ ReadDashboard \/ ReadActivity
  \/ StartCheckout \/ ViewCourse \/ ChangeFaqs \/ WriteSlugs \/ Backfill \/ Seed

Spec == Init /\ [][Next]_vars

-----------------------------------------------------------------------------
(* Quizzes and assignments.                                                *)

(* Questions that are accepted can all be answered right with the options  *)
(* they offer, so the full score is within reach whatever passingScore is. *)
QuizzesCanBePassed ==
  Asked("writeQuiz") /\ response =>
    LET qs == request.questions
        key == [i \in DOMAIN qs |-> [question |-> qs[i].id,
                                     selected |-> qs[i].correct \intersect Range(qs[i].options)]]
    IN  SubmitQuiz([questions |-> qs, passing |-> 100], key).passed

(* A score of 100 means that the last answer to every question was right.  *)
(* From 200 points on, rounding gives it away for less.                    *)
PerfectScoreIsEarned ==
  Asked("submitQuiz") /\ response # Refused /\ response.total < 200 =>
    LET right(q) == \E i \in DOMAIN request.answers :
          /\ request.answers[i] = [question |-> q.id, selected |-> q.correct]
          /\ \A j \in DOMAIN request.answers : j > i => request.answers[j].question # q.id
    IN  response.score = 100 <=> \A q \in Range(request.quiz.questions) : right(q)

(* A grade by rubric or by number is at most what the assignment is worth, *)
(* and full marks on every criterion are accepted and worth exactly that.  *)
ScoresFitTheAssignment ==
  Asked("grade") /\ RubricValid(request.rubric, request.maxPoints) =>
    /\ response # Refused => response.score \in 0..request.maxPoints
    /\ LET full == [score |-> request.maxPoints,
                    rubric |-> [i \in DOMAIN request.rubric |->
                                  [id |-> request.rubric[i].id, points |-> request.rubric[i].maxPoints]]]
       IN  ComputeScore(request.rubric, request.maxPoints, full) = [score |-> request.maxPoints]

QuizColumn == response.row.cells[2]
AssignmentColumn == response.row.cells[1]

(* The gradebook and the learner see the same quiz: the same best score,   *)
(* and passed in the one when passed in the other, which is what opens the *)
(* next lesson.  Attempts that were graded against different passing       *)
(* scores may disagree.                                                    *)
GradebookAgreesWithGate ==
  Asked("gradebook") =>
    /\ QuizColumn.score = response.view.best
    /\ (\A a, b \in Range(request.attempts) : a.passing = b.passing) =>
         (QuizColumn.status = "PASSED" <=> response.view.passed)

(* The gradebook and the learner's own view judge the same submission, the *)
(* latest, whatever earlier ones are graded to: the column says waiting    *)
(* when the learner is told to wait, passed only when they are told that   *)
(* they passed, and when it says failed they are blocked exactly when the  *)
(* assignment takes no more work.  Returned work whose score meets a       *)
(* passing score that was lowered since stays returned in the column,      *)
(* while the learner is told that they passed.                             *)
ColumnAgreesWithBlocker ==
  Asked("gradebook") =>
    LET status == AssignmentColumn.status
        tries == Cardinality(request.submissions)
        NoMore == \/ ~ request.assignment.resubmission
                  \/ request.assignment.maxSubmissions \in 1..tries
    IN  /\ status = "NOT_SUBMITTED" <=> request.submissions = {}
        /\ status = "SUBMITTED" <=> response.blocker = "WAITING"
        /\ status = "PASSED" => response.blocker = "PASSED"
        /\ response.blocker = "PASSED" => status \in {"PASSED", "RETURNED"}
        /\ status \in {"FAILED", "RETURNED"} /\ response.blocker # "PASSED" =>
             (response.blocker # Null <=> NoMore)

(* The average of a row lies between the percentages that the row shows.   *)
AverageIsOfWhatIsShown ==
  Asked("gradebook") =>
    LET shown == {c.percent : c \in Range(response.row.cells)} \ {Null} IN
    IF shown = {} THEN response.row.average = Null
    ELSE response.row.average \in Min(shown)..Max(shown)

-----------------------------------------------------------------------------
(* Lists, streaks and lessons.                                             *)

(* Read one after the other, the pages are the list: nothing is missing or *)
(* shown twice, and there is a next page when something is left.           *)
PagesAreTheList ==
  Asked("page") =>
    LET At(k) == PaginateArray(request.items, [page |-> k, limit |-> request.limit]) IN
    /\ FlattenSeq([k \in 1..response.pages |-> At(k).items]) = request.items
    /\ response.page <= response.pages => (response.next <=> At(response.page + 1).items # <<>>)

(* Reissuing in batches tries every certificate once, failing ones or not. *)
ReissueTriesAll ==
  Asked("reissue") =>
    /\ response.seen = request.certificates
    /\ response.failed = Cardinality(request.failing)
    /\ response.reissued + response.failed = Len(request.certificates)

Longest(days) == Max({0} \union {b - a + 1 : <<a, b>> \in {r \in days \X days : r[1]..r[2] \subseteq days
                                                                           /\ r[1] <= r[2]}})

(* The current streak is the run of active days that ends today or         *)
(* yesterday, the longest is the longest run there was; both as far back   *)
(* as the days that are read go.                                           *)
StreaksAreRuns ==
  Asked("streak") =>
    LET read == ToSet(LastDays(request.days))
        run == {n \in 1..request.today :
                  \E last \in {request.today, request.today - 1} : (last - n + 1)..last \subseteq request.days}
    IN  /\ response.current = Min({Max(run \union {0}), StreakWindow})
        /\ response.longest = Longest(read)
        /\ response.current <= response.longest

(* A course is done, by the counts of its enrollment, when the outline has *)
(* no next lesson; until then, every lesson before the next one is done.   *)
CourseEndsWithoutNext ==
  Asked("outline") =>
    LET lessons == FlattenSeq(request.modules) IN
    /\ response.count.done <=> lessons # <<>> /\ response.next = Null
    /\ response.next # Null =>
         \A i, j \in DOMAIN lessons : i < j /\ lessons[j] = response.next =>
           Status(request.row, lessons[i]) = "COMPLETED"

-----------------------------------------------------------------------------
(* Attendance and the dashboard.                                           *)

(* Every session held is counted once for every enrolled member, as one of *)
(* the four statuses or as unmarked.                                       *)
AttendanceAddsUp ==
  Asked("schedule") =>
    \A u \in request.enrolled : LET m == response.members[u] IN
      /\ m.present + m.late + m.absent + m.excused + m.unmarked = Cardinality(response.held)
      /\ m.rate \in 0..100

(* Whichever of its dates are changed, in whatever order, a session ends   *)
(* after it starts, so a held session has started; and attendance is of    *)
(* sessions that are there.                                                *)
SessionsEndAfterTheyStart ==
  Asked("schedule") =>
    /\ \A s \in DOMAIN response.schedule.sessions :
         response.schedule.sessions[s].from < response.schedule.sessions[s].to
    /\ \A k \in DOMAIN response.schedule.rows : k[1] \in DOMAIN response.schedule.sessions

SumOf(points) == SumFunction([b \in DOMAIN points |-> points[b].revenue])

(* Revenue over a range is that of its two halves, wherever it is cut, and *)
(* over all time it is the revenue of the overview.                        *)
RevenueAddsUp ==
  Asked("revenue") /\ response # Refused =>
    /\ \A cut \in (response.from + 1)..(response.to - 1) :
         SumOf(response.whole) = SumOf(Between(request, response.from, cut))
                                 + SumOf(Between(request, cut, response.to))
    /\ (\A p \in DOMAIN request.purchases :
          request.purchases[p].paidAt \in response.from..(response.to - 1)) =>
         SumOf(response.whole) = Overview(request.purchases, {}).revenue

SumIn(points, field) == SumFunction([b \in DOMAIN points |-> points[b][field]])

(* Enrollments and completions over a range are those of its two halves,   *)
(* and over all time those of the overview.  A cohort does not complete    *)
(* more than its course.                                                   *)
ActivityAddsUp ==
  Asked("activity") /\ response # Refused =>
    LET Count(field) == SumIn(response.whole, field)
        Moments == {e.at : e \in request.enrollments}
                   \union ({e.completed : e \in request.enrollments} \ {Null})
    IN  /\ \A cut \in (response.from + 1)..(response.to - 1), f \in {"enrollments", "completions"} :
             Count(f) = SumIn(Activity(request, response.from, cut), f)
                        + SumIn(Activity(request, cut, response.to), f)
        /\ Moments \subseteq response.from..(response.to - 1) =>
             /\ Count("enrollments") = response.overview.active + response.overview.completed
             /\ Count("completions") = response.overview.completed
        /\ response.cohort.completed <= Min({response.cohort.enrolled, response.overview.completed})

Figures(C, field) == SumFunctionOnSet([c \in request.courses |-> response.course[c][field]], C)

(* The courses are never credited with more than the platform took: every  *)
(* course of a purchase gets a share of it, and what is cut off is lost.   *)
CoursesEarnWithinRevenue ==
  Asked("dashboard") => Figures(request.courses, "revenue") <= response.overview.revenue

(* An instructor's figures are those of the courses taught, and after a    *)
(* reset no more than those.                                               *)
InstructorAgreesWithCourses ==
  Asked("dashboard") =>
    \A field \in {"enrollments", "completions", "revenue"} :
      IF request.since = 0
      THEN response.instructor[field] = Figures(request.taught, field)
      ELSE response.instructor[field] <= Figures(request.taught, field)

-----------------------------------------------------------------------------
(* The storefront and the seed script.                                     *)

(* What the checkout session charges is what the purchase records, and a   *)
(* purchase never has a course twice or one the buyer has access to.       *)
CheckoutChargesTheRecord ==
  Asked("checkout") /\ response # Refused =>
    LET lines == LineItems(response) IN
    /\ Total([i \in DOMAIN lines |-> lines[i].quantity * lines[i].unit]) = response.amount
    /\ Unique([i \in DOMAIN response.items |-> response.items[i].course])
    /\ \A item \in Range(response.items) : ~ HasAccess(request.enrollment, item.course)

(* A published course is open to whoever has no access to it in exactly    *)
(* one way: enrolling or buying, as its price says.                        *)
CoursesCanBeObtained ==
  Asked("checkout") /\ request.dto.kind = "COURSE" =>
    LET c == request.dto.course IN
    c \in DOMAIN request.courses
      /\ request.courses[c].status = "PUBLISHED" /\ ~ HasAccess(request.enrollment, c)
    => (response = Refused <=> MayEnroll(request.courses, request.enrollment, {}, c))

(* Of a published course, whoever may study it sees every lesson, and a    *)
(* visitor the previews; its instructor and staff see it all, published or *)
(* not, and nobody else sees any of a course that is not.                  *)
ContentFollowsAccess ==
  Asked("view") =>
    LET c == request.course
        runs == request.viewer # Null
                /\ (request.viewer.role \in {"ADMIN", "SUPERADMIN"} \/ request.viewer.id = c.instructor)
        studies == request.viewer # Null /\ request.enrolled \in Access
    IN  CASE runs -> response # Refused /\ response.revealed = c.lessons
          [] ~ runs /\ c.status # "PUBLISHED" -> response = Refused
          [] OTHER -> response.revealed =
                        IF studies THEN c.lessons ELSE {l \in c.lessons : l.preview}

(* However questions were added, removed and reordered, they are numbered  *)
(* from 0 without a gap.                                                   *)
FaqsStayDense ==
  Asked("faqs") => Range(response) = 0..(Cardinality(DOMAIN response) - 1)

(* However a title is written and wherever it is cut, its slug is letters   *)
(* with single dashes between them, and is its own slug.                   *)
SlugsAreClean ==
  Asked("slugs") =>
    /\ \A s \in Range(response) :
         /\ s # <<>> /\ s[1] \in Letters /\ Last(s) \in Letters
         /\ \A i \in 1..(Len(s) - 1) : s[i] = "-" => s[i + 1] # "-"
    /\ response # <<>> => Slugify(response[1]) = response[1]

(* Titles with the same slug get different ones or are refused, which only *)
(* happens when every draw is taken.                                       *)
SlugsAreDistinct ==
  Asked("slugs") =>
    /\ Unique(response)
    /\ Cardinality(Range(request.draws)) >= Len(request.titles) /\ Len(request.draws) <= DrawAttempts
       => Len(response) = Len(request.titles)

(* The backfill ends with a code for every account, unless the draws are   *)
(* all taken; no code is given twice, none is changed, and it reports how  *)
(* many it gave.                                                           *)
BackfillReachesEveryone ==
  Asked("backfill") =>
    LET old == Without(request.codes) IN
    /\ Unique(SelectSeq(response.codes, LAMBDA c : c # Null))
    /\ \A u \in DOMAIN request.codes : request.codes[u] # Null => response.codes[u] = request.codes[u]
    /\ response.assigned = Len(old) - Len(Without(response.codes))
    /\ response.failed <=> Without(response.codes) # <<>>

(* A first run of seed.ts makes everything.  However often earlier runs    *)
(* stopped half way, a run makes nothing twice, and one that succeeds      *)
(* leaves the next one nothing to do.  What it leaves out is the subject   *)
(* of SeedKeepsWholeCourses.                                               *)
SeedIsRepeatable ==
  Asked("seed") =>
    LET first == response.first IN
    /\ ~ first.failed => response.second = first
    /\ \A c \in DOMAIN first.db.lessons :
         first.db.lessons[c] <= SeedLessons /\ first.db.sessions[c] <= SeedSessions
    /\ first.db.packs <= 1
    /\ request.crashes = <<>> =>
         /\ ~ first.failed
         /\ first.db.published = ToSet(SeedCourses)
         /\ first.db.studied = ToSet(SeedLearners)
         /\ first.db.packs = 1 /\ first.db.partner

(* A course is published with all its lessons exactly if the first run     *)
(* that came to it did not stop before publishing it; no later run makes   *)
(* up for that, and one fails exactly if it is a course that learners are  *)
(* enrolled in.                                                            *)
SeedKeepsWholeCourses ==
  Asked("seed") =>
    LET db == response.first.db
        Place(what, c) == SelectInSeq(Program, LAMBDA task : task = Task(what, c))
        came(c) == SelectInSeq(request.crashes, LAMBDA stop : stop >= Place("course", c))
        Whole(c) == came(c) # 0 => request.crashes[came(c)] >= Place("publish", c)
    IN  /\ \A c \in ToSet(SeedCourses) :
             c \in db.published /\ db.lessons[c] = SeedLessons <=> Whole(c)
        /\ response.first.failed <=> \E i \in DOMAIN SeedLearners : ~ Whole(LearnersCourse(i))

(* seed.ts says "Safe to run more than once": wherever earlier runs        *)
(* stopped, a run to the end succeeds, and then every course is published  *)
(* with all its lessons.  It is not so: see SeedKeepsWholeCourses.         *)
SeedIsSafeToRepeat ==
  Asked("seed") =>
    /\ ~ response.first.failed
    /\ response.first.db.published = ToSet(SeedCourses)
    /\ \A c \in ToSet(SeedCourses) : response.first.db.lessons[c] = SeedLessons

-----------------------------------------------------------------------------
(* The properties by subject.                                              *)

(* Quizzes and assignments can be passed, points are worth what they say,   *)
(* and the gradebook tells what the learner was told.                      *)
GradesAreFair ==
  /\ QuizzesCanBePassed /\ PerfectScoreIsEarned /\ ScoresFitTheAssignment
  /\ GradebookAgreesWithGate /\ ColumnAgreesWithBlocker /\ AverageIsOfWhatIsShown

(* Streaks, the next lesson and attendance are what the learner did.       *)
ProgressIsTold ==
  /\ StreaksAreRuns /\ CourseEndsWithoutNext
  /\ AttendanceAddsUp /\ SessionsEndAfterTheyStart

(* The figures of the dashboards add up and agree with each other.         *)
FiguresAddUp ==
  /\ RevenueAddsUp /\ ActivityAddsUp
  /\ CoursesEarnWithinRevenue /\ InstructorAgreesWithCourses

(* Who may see, get and pay for a course is the same wherever it is asked.  *)
StorefrontIsConsistent ==
  /\ CheckoutChargesTheRecord /\ CoursesCanBeObtained
  /\ ContentFollowsAccess /\ FaqsStayDense

(* Pages, batches and draws leave nothing out and do nothing twice; runs   *)
(* of the seed script do nothing twice, and leave out only what an earlier *)
(* one had half made.                                                      *)
BatchesAreWhole ==
  /\ PagesAreTheList /\ ReissueTriesAll /\ BackfillReachesEveryone
  /\ SlugsAreClean /\ SlugsAreDistinct
  /\ SeedIsRepeatable /\ SeedKeepsWholeCourses
=============================================================================
