------------------------------ MODULE Grading ------------------------------
(***************************************************************************)
(* The arithmetic of grades, with no state of its own: quizzes             *)
(* (src/quizzes/quizzes.service.ts), rubrics and scores of assignments     *)
(* (src/assignments/assignments.service.ts) and the gradebook that shows   *)
(* both (src/assignments/gradebook.service.ts).  Identifiers, points and   *)
(* statuses are kept; titles, texts and explanations are not.              *)
(***************************************************************************)
EXTENDS Integers, SequencesExt

CONSTANTS Null,    \* no value
          Refused  \* the answer to a request that throws

(* Math.round(part / whole * 100), exactly: a half is rounded up.  Floating *)
(* point agrees for every whole below 40.                                  *)
Percent(part, whole) == IF whole = 0 THEN 0 ELSE (200 * part + whole) \div (2 * whole)

Total(f) == SumFunction(f)
Unique(s) == IsInjective(s)

-----------------------------------------------------------------------------
(* Quizzes.                                                                *)

CorrectOnesAreOffered(q) == q.correct \subseteq Range(q.options)

(* validateQuestions: what class-validator cannot express.                 *)
QuestionsValid(questions) ==
  /\ Unique([i \in DOMAIN questions |-> questions[i].id])
  /\ \A i \in DOMAIN questions : LET q == questions[i] IN
       /\ Unique(q.options)
       /\ CorrectOnesAreOffered(q)
       /\ q.type # "MULTIPLE" => Cardinality(q.correct) = 1
       /\ q.type = "TRUE_FALSE" => Len(q.options) = 2

(* The answers are collected in a Map: of two to one question the last one *)
(* counts, and a question without an answer counts as nothing selected.    *)
Selection(answers, id) ==
  LET at == SelectLastInSeq(answers, LAMBDA a : a.question = id) IN
  IF at = 0 THEN {} ELSE answers[at].selected

Earns(selected, correct) == selected = correct

GradeAnswers(questions, answers) ==
  [earned |-> Total([i \in DOMAIN questions |->
     IF Earns(Selection(answers, questions[i].id), questions[i].correct)
     THEN questions[i].points ELSE 0]),
   total |-> Total([i \in DOMAIN questions |-> questions[i].points])]

(* The attempt that submit saves.                                          *)
SubmitQuiz(quiz, answers) ==
  LET graded == GradeAnswers(quiz.questions, answers)
      score == Percent(graded.earned, graded.total)
  IN  IF \E i \in DOMAIN answers : \A j \in DOMAIN quiz.questions :
           answers[i].question # quiz.questions[j].id
      THEN Refused
      ELSE [earned |-> graded.earned, total |-> graded.total, score |-> score,
            passed |-> score >= quiz.passing]

(* Attempts come in the order the database returns them; the first of the  *)
(* best scores is kept.  Mutant: the latest one is.                        *)
LatestAttempt(attempts) == IF attempts = <<>> THEN Null ELSE Last(attempts)
BestAttempt(attempts) ==
  LET Better(best, a) == IF best = Null THEN a
                         ELSE IF a.score > best.score THEN a ELSE best
  IN  FoldLeft(Better, Null, attempts)

(* viewForLearner: what is left of a budget, where 0 is no limit.          *)
LearnerView(attempts, maxAttempts) ==
  LET best == BestAttempt(attempts) IN
  [best   |-> IF best = Null THEN Null ELSE best.score,
   left   |-> IF maxAttempts = 0 THEN Null ELSE Max({0, maxAttempts - Len(attempts)}),
   passed |-> \E i \in DOMAIN attempts : attempts[i].passed]

-----------------------------------------------------------------------------
(* Assignments.                                                            *)

(* normaliseRubric: the criteria share out the points of the assignment.   *)
RubricValid(rubric, maxPoints) ==
  \/ rubric = <<>>
  \/ /\ Unique([i \in DOMAIN rubric |-> rubric[i].id])
     /\ Total([i \in DOMAIN rubric |-> rubric[i].maxPoints]) = maxPoints

(* computeScore: a grade by rubric scores every criterion once and no      *)
(* other; a grade without one is a number.                                 *)
ComputeScore(rubric, maxPoints, dto) ==
  IF rubric = <<>>
  THEN IF dto.score = Null THEN Refused
       ELSE IF dto.score > maxPoints THEN Refused ELSE [score |-> dto.score]
  ELSE LET scores == dto.rubric
           Entry(id) == SelectInSeq(scores, LAMBDA s : s.id = id)
       IN  IF /\ Unique([i \in DOMAIN scores |-> scores[i].id])
              /\ \A c \in Range(rubric) : /\ Entry(c.id) # 0
                                          /\ scores[Entry(c.id)].points <= c.maxPoints
              /\ \A s \in Range(scores) : \E c \in Range(rubric) : c.id = s.id
           THEN [score |-> Total([i \in DOMAIN rubric |-> scores[Entry(rubric[i].id)].points])]
           ELSE Refused

SubmissionPassed(submission, passing) ==
  IF submission.score = Null THEN FALSE ELSE submission.score >= passing

(* latestSubmissionsForCourse, for one learner and one assignment: the     *)
(* rows are read by descending attempt number and the first is kept.       *)
LatestSubmission(submissions) ==
  IF submissions = {} THEN Null
  ELSE CHOOSE s \in submissions : \A t \in submissions : s.attempt >= t.attempt

(* submissionBlocker: why a learner may not submit again, Null when they   *)
(* may.  The rows are read by ascending attempt number and the last counts. *)
SubmissionBlocker(assignment, submissions) ==
  LET rows == SetToSortSeq(submissions, LAMBDA s, t : s.attempt < t.attempt) IN
  CASE rows = <<>> -> Null
    [] rows # <<>> /\ Last(rows).status = "SUBMITTED" -> "WAITING"
    [] rows # <<>> /\ Last(rows).status # "SUBMITTED" ->
         IF SubmissionPassed(Last(rows), assignment.passing) THEN "PASSED"
         ELSE IF ~ assignment.resubmission THEN "NO_RESUBMISSION"
         ELSE IF assignment.maxSubmissions \in 1..Len(rows) THEN "USED_UP" ELSE Null

-----------------------------------------------------------------------------
(* The gradebook.                                                          *)

Cell(column, score, maxPoints, status) ==
  [column  |-> column,
   score   |-> score,
   percent |-> IF score = Null \/ maxPoints = 0 THEN Null ELSE Percent(score, maxPoints),
   status  |-> status]

AssignmentCell(assignment, submissions) ==
  LET latest == LatestSubmission(submissions) IN
  IF latest = Null THEN Cell("assignment", Null, assignment.maxPoints, "NOT_SUBMITTED")
  ELSE Cell("assignment", latest.score, assignment.maxPoints,
            IF latest.status # "GRADED" THEN latest.status
            ELSE IF SubmissionPassed(latest, assignment.passing) THEN "PASSED" ELSE "FAILED")

QuizCell(attempts) ==
  LET best == BestAttempt(attempts) IN
  IF best = Null THEN Cell("quiz", Null, 100, "NOT_SUBMITTED")
  ELSE Cell("quiz", best.score, 100, IF best.passed THEN "PASSED" ELSE "FAILED")

Shown(cell) == cell.percent # Null
Mean(sum, n) == (2 * sum + n) \div (2 * n)

(* One row of forCohort: the average counts the cells that have a grade.   *)
GradebookRow(cells) ==
  LET graded == SelectSeq(cells, Shown)
      sum == Total([i \in DOMAIN graded |-> graded[i].percent])
  IN  [cells   |-> cells,
       average |-> IF graded = <<>> THEN Null ELSE Mean(sum, Len(graded))]
=============================================================================
