--------------------------- MODULE MCCalculations ---------------------------
(***************************************************************************)
(* The requests that TLC answers: every request of each kind over a few    *)
(* questions, criteria, days, sessions and purchases.                      *)
(***************************************************************************)
EXTENDS Calculations, TLC

Optional(S) == S \union {Null}
Functions(D, S) == UNION {[d -> S] : d \in SUBSET D}

Questions ==
  [id: {"q1", "q2"}, type: {"SINGLE", "MULTIPLE", "TRUE_FALSE"},
   options: {<<"a", "b">>, <<"a", "a">>, <<"a", "b", "c">>},
   correct: (SUBSET {"a", "b", "x"}) \ {{}}, points: {1}]
MCQuizWrites == [kind: {"writeQuiz"}, questions: UNION {[1..n -> Questions] : n \in 1..2}]

Key(id, correct, points) ==
  [id |-> id, options |-> <<"a", "b">>, type |-> "MULTIPLE", correct |-> correct, points |-> points]
Quizzes ==
  [questions: {<<Key("q1", c, p), Key("q2", d, q)>> :
                 c \in {{"a"}, {"a", "b"}}, d \in {{"b"}}, p \in {1, 2}, q \in {1, 3}}
              \union {<<Key("q1", {"a"}, 1)>>},
   passing: {0, 60}]
MCQuizSubmissions ==
  [kind: {"submitQuiz"}, quiz: Quizzes,
   answers: BoundedSeq([question: {"q1", "q2"}, selected: SUBSET {"a", "b"}], 3)]

Criteria == [id: {"c1", "c2"}, maxPoints: 1..3]
MCGrades ==
  [kind: {"grade"}, rubric: BoundedSeq(Criteria, 2), maxPoints: 1..4,
   dto: [score: Optional({0, 3, 5}), rubric: BoundedSeq([id: {"c1", "c2", "c9"}, points: {0, 2, 3}], 2)]]

(* Any submission may have been graded, or graded again, whatever was sent *)
(* after it, and under a passing score that was changed since; only the    *)
(* last one may wait.                                                      *)
Work(status, score, n) == [attempt |-> n, status |-> status, score |-> score]
Histories ==
  LET Judged(n) == {Work("GRADED", s, n) : s \in 0..2} \union {Work("RETURNED", s, n) : s \in 0..1}
      Final(n) == Judged(n) \union {Work("SUBMITTED", Null, n)}
  IN  {{}} \union {{f} : f \in Final(1)} \union {{e, f} : e \in Judged(1), f \in Final(2)}
Assignments ==
  [maxPoints: {2, 3}, passing: {1, 2}, resubmission: BOOLEAN, maxSubmissions: {0, 2}]
Attempt(score, passing) == [score |-> score, passing |-> passing, passed |-> score >= passing]
Attempts == {Attempt(s, p) : s \in {0, 67, 100}, p \in {50, 80}}
FewAttempts == {<<>>, <<Attempt(67, 50)>>, <<Attempt(67, 80)>>}
MCGradebookRequests ==
  [kind: {"gradebook"}, assignment: Assignments, submissions: Histories,
   attempts: FewAttempts, maxAttempts: {0}]
  \union [kind: {"gradebook"}, maxAttempts: {0, 2, 3}, attempts: BoundedSeq(Attempts, 3),
          assignment: [maxPoints: {2, 3}, passing: {1}, resubmission: {TRUE}, maxSubmissions: {0}],
          submissions: {{}, {Work("GRADED", 0, 1)}, {Work("RETURNED", 0, 1), Work("GRADED", 2, 2)}}]

MCPageRequests ==
  [kind: {"page"}, items: {[i \in 1..n |-> i] : n \in 0..7}, page: Optional(-1..5), limit: Optional(-1..6)]
MCReissues ==
  UNION {[kind: {"reissue"}, certificates: {[i \in 1..n |-> i]}, batchSize: 1..3, failing: SUBSET (1..n)] :
           n \in 0..6}
MCStreakRequests == [kind: {"streak"}, days: SUBSET (1..9), today: {9, 10}]

MCOutlineRequests ==
  [kind: {"outline"}, modules: {<<>>, <<<<"l1">>>>, <<<<"l1", "l2">>, <<>>, <<"l3">>>>, <<<<"l2">>, <<"l1", "l3">>>>},
   row: Functions({"l1", "l2", "l3"}, {"IN_PROGRESS", "COMPLETED"})]
(* Removing a lesson removes its progress.                                  *)
MCOutlines == {r \in MCOutlineRequests : DOMAIN r.row \subseteq Range(FlattenSeq(r.modules))}

Span(from, to) == [from |-> from, to |-> to]
Schedules ==
  {[sessions |-> <<>>, rows |-> <<>>]}
  \union [sessions: {<<Span(1, 2), Span(2, 3)>>},
          rows: Functions({1, 2} \X {"u1", "u2"}, {"PRESENT", "ABSENT"})]
Mark(u, status) == [user |-> u, status |-> status]
ScheduleOps ==
  [do: {"add"}, session: {3}, from: {1, 3}, to: {2, 3}]
  \union [do: {"move"}, session: {1, 3}, from: Optional({1, 3}), to: Optional({2, 4})]
  \union [do: {"remove"}, session: {1, 3}]
  \union [do: {"mark"}, session: {1, 3},
          entries: {<<Mark("u1", "LATE")>>, <<Mark("u1", "LATE"), Mark("u2", "EXCUSED")>>,
                    <<Mark("u1", "LATE"), Mark("u1", "EXCUSED")>>, <<Mark("u9", "LATE")>>}]
MCScheduleEdits ==
  [kind: {"schedule"}, schedule: Schedules, ops: BoundedSeq(ScheduleOps, 2),
   enrolled: {{"u1"}, {"u1", "u2"}}, now: {2}]

Bought(status, amount, at) == [status |-> status, amount |-> amount, paidAt |-> at]
MCRevenueRequests ==
  [kind: {"revenue"}, from: Optional({0, 2}), to: Optional({1, 4}), now: {3}, width: {1, 2},
   purchases: [{"p1", "p2"} -> {Bought(s, m, t) : s \in {"PAID", "REFUNDED", "CANCELLED"}, m \in {1, 5}, t \in 0..3}]]

Owned == [status: {"PAID", "REFUNDED"}, amount: {1, 3}, items: {{"x"}, {"x", "y"}}]
Learning(u, p, purchase) ==
  {E \in SUBSET [user: {u}, course: {"x", "y"}, at: {1}, status: {"COMPLETED", "CANCELLED"},
                 purchase: {Null, p}] :
     /\ \A e, f \in E : e.course = f.course => e = f
     /\ \A e \in E : e.purchase # Null => e.course \in purchase.items}
MCDashboardRequests ==
  UNION {UNION {[kind: {"dashboard"}, purchases: {[p1 |-> a, p2 |-> b]}, courses: {{"x", "y"}},
                 taught: {{"x"}, {"x", "y"}}, since: {0, 2},
                 enrollments: {E \union {[e EXCEPT !.at = 2] : e \in F} :
                                 E \in Learning("u1", "p1", a), F \in Learning("u2", "p2", b)}] :
                   a \in Owned} : b \in {o \in Owned : o.amount = 3}}

Learnt(u) ==
  {[user |-> u, course |-> "x", at |-> t, status |-> s, completed |-> Null] :
     t \in 0..2, s \in {"ACTIVE", "CANCELLED"}}
  \union {[user |-> u, course |-> "x", at |-> t, status |-> "COMPLETED", completed |-> t + d] :
            t \in 0..2, d \in 0..2}
MCActivityRequests ==
  [kind: {"activity"}, enrollments: {{e, f} : e \in Learnt("u1"), f \in Learnt("u2")},
   course: {"x"}, members: {{}, {"u1"}, {"u1", "u2"}}, from: Optional({0}), to: Optional({2, 5}), now: {3},
   width: {1, 2}]

Priced == {<<"FREE", 0>>, <<"PAID", 5>>, <<"PAID", 7>>}
Courses ==
  {[status |-> s, pricing |-> p[1], price |-> p[2], currency |-> m] :
     s \in {"PUBLISHED", "ARCHIVED"}, p \in Priced, m \in {"USD", "EUR"}}
Orders ==
  {[kind |-> "COURSE", course |-> c] : c \in {"x", "y", "gone"}}
  \union {[kind |-> "BUNDLE", courses |-> ids] : ids \in {<<"x", "y">>, <<"y", "z">>, <<"x", "y", "z">>}}
  \union {[kind |-> "SEAT_PACK", seats |-> n, manages |-> m] : n \in {1, 3}, m \in BOOLEAN}
MCCheckouts ==
  [kind: {"checkout"}, dto: Orders,
   courses: {("x" :> a) @@ ("y" :> b) @@ ("z" :> c) : a \in Courses, b \in Courses,
               c \in {o \in Courses : o.status = "PUBLISHED" /\ o.price = 7}},
   enrollment: {("x" :> e) @@ ("y" :> f) @@ ("z" :> Null) :
                  e \in {Null, "ACTIVE", "COMPLETED", "CANCELLED"}, f \in {Null, "ACTIVE"}}]

MCCourseViews ==
  [kind: {"view"},
   course: [status: {"DRAFT", "PUBLISHED", "ARCHIVED"}, instructor: {"i", "u"},
            lessons: SUBSET [id: {"l1", "l2"}, preview: BOOLEAN]],
   viewer: Optional([id: {"i", "u"}, role: {"LEARNER", "INSTRUCTOR", "ADMIN", "SUPERADMIN"}]),
   enrolled: {Null, "ACTIVE", "COMPLETED", "CANCELLED"}]

FaqOps ==
  {[do |-> "add", faq |-> f] : f \in 1..3} \union {[do |-> "remove", faq |-> f] : f \in 1..3}
  \union {[do |-> "reorder", faqs |-> ids] :
             ids \in {<<2, 1>>, <<1, 1>>, <<3, 1, 2>>, <<2, 3, 1>>, <<3, 2>>, <<1, 2>>}}
MCFaqEdits ==
  [kind: {"faqs"},
   ops: {s \in BoundedSeq(FaqOps, 4) : \A i, j \in DOMAIN s :
           i < j /\ s[i].do = "add" /\ s[j].do = "add" => s[i].faq # s[j].faq}]

Titles == {<<"x">>, <<"x", "!">>, <<"x", "-", "y">>, <<"!">>, <<"x", " ", "-", "y", "-">>}
Randoms == {<<"x">>, <<"y">>, <<"y", "x">>}
MCSlugWrites ==
  [kind: {"slugs"}, titles: {<<t>> : t \in BoundedSeq({"x", "-", " ", "!"}, 6)}, draws: {<<<<"x">>>>}]
  \union [kind: {"slugs"}, titles: BoundedSeq(Titles, 4), draws: BoundedSeq(Randoms, 3) \ {<<>>}]
MCBackfills ==
  [kind: {"backfill"},
   codes: {s \in BoundedSeq({Null, "A", "B"}, 4) : \A i, j \in DOMAIN s : s[i] = s[j] /\ s[i] # Null => i = j},
   batchSize: 1..3, draws: BoundedSeq({"A", "B", "C", "D", "E"}, 3) \ {<<>>}]

Stops == 0..Len(Program)
MCSeedRuns == [kind: {"seed"}, crashes: BoundedSeq(Stops, 2)]

MCSeedUsers == <<"admin", "ada", "l1", "l2", "l3">>
MCSeedCategories == <<"web">>
MCSeedCourses == <<"typescript", "git", "docker">>
MCFreeSeedCourses == <<"git", "docker">>
MCSeedLearners == <<"l1", "l2", "l3">>
=============================================================================
