------------------------------ MODULE Requests ------------------------------
(***************************************************************************)
(* What the validation of a request lets through, before a service sees    *)
(* it: the dto classes of the requests that Calculations answers.  Texts   *)
(* and formats are left out; counts, bounds and uniqueness are kept.       *)
(***************************************************************************)
EXTENDS Grading

InBounds(n, low, high) == n \in Int /\ low <= n /\ n <= high
OptionallyIn(n, low, high) == n = Null \/ InBounds(n, low, high)

IsQuizQuestion(q) ==
  /\ q.type \in {"SINGLE", "MULTIPLE", "TRUE_FALSE"}
  /\ Len(q.options) \in 2..10
  /\ q.correct # {}
  /\ InBounds(q.points, 1, 100)
IsQuizUpsert(questions, passing, maxAttempts) ==
  /\ Len(questions) \in 1..100 /\ \A q \in Range(questions) : IsQuizQuestion(q)
  /\ InBounds(passing, 0, 100) /\ InBounds(maxAttempts, 0, 100)

IsQuizAnswers(answers) ==
  Len(answers) <= 100 /\ \A a \in Range(answers) : Cardinality(a.selected) <= 10

IsAssignmentUpsert(rubric, maxPoints) ==
  /\ InBounds(maxPoints, 1, 1000)
  /\ Len(rubric) <= 20 /\ \A c \in Range(rubric) : InBounds(c.maxPoints, 1, 1000)

(* No rubric scores, and an empty list of them, are the same to the code.  *)
IsGrade(dto) ==
  /\ Len(dto.rubric) <= 20 /\ \A s \in Range(dto.rubric) : InBounds(s.points, 0, 1000)
  /\ OptionallyIn(dto.score, 0, 1000)

IsAttendance(entries) ==
  /\ Len(entries) \in 1..500
  /\ \A e \in Range(entries) : e.status \in {"PRESENT", "LATE", "ABSENT", "EXCUSED"}

IsCheckout(dto) ==
  CASE dto.kind = "COURSE"    -> TRUE
    [] dto.kind = "BUNDLE"    -> Len(dto.courses) \in 2..20 /\ Unique(dto.courses)
    [] dto.kind = "SEAT_PACK" -> InBounds(dto.seats, 1, 1000)
=============================================================================
