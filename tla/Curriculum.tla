----------------------------- MODULE Curriculum -----------------------------
(***************************************************************************)
(* One course as its staff edits it: the row of the course                 *)
(* (src/courses/courses.service.ts), its modules and lessons with their    *)
(* positions, and the duration that is kept on the course                  *)
(* (curriculum.service.ts), while a learner enrolls and leaves.            *)
(*                                                                         *)
(* Handlers load rows, await other things and save them; a save writes the *)
(* whole row, the counter of learners and the duration included, and       *)
(* inserts a row that is gone if its foreign key lets it.  There is no     *)
(* transaction.  The updates of one new order are sent together            *)
(* (Promise.all) and are one step here.                                    *)
(***************************************************************************)
EXTENDS Integers, FiniteSets, FiniteSetsExt, Functions

CONSTANTS
  MaxModules,     \* a bound for the checker: modules added
  MaxLessons,     \* a bound for the checker: lessons added
  Minutes,        \* what a lesson may take
  Prices,         \* price_cents of a paid course
  Requests,       \* the requests the servers handle at the same time
  MaxDisturbances \* a bound for the checker: how often requests overlap or fail

ASSUME MinutesAssumption == Minutes \subseteq Nat
ASSUME PriceAssumption   == Prices \subseteq Nat \ {0}
ASSUME BoundAssumption   == {MaxModules, MaxLessons, MaxDisturbances} \subseteq Nat
ASSUME RequestAssumption == IsFiniteSet(Requests)

ModuleIds == 1..MaxModules  \* in the order in which they are added; 0 is none
LessonIds == 1..MaxLessons

VARIABLES
  course,     \* the row of courses
  enrolled,   \* whether the learner is enrolled
  module,     \* the rows of course_modules
  lesson,     \* the rows of lessons
  added,      \* how many modules and lessons have been added
  req, overlaps, failures

rows == <<course, enrolled, module, lesson, added>>
vars == <<rows, req, overlaps, failures>>

CourseStatus == {"DRAFT", "PUBLISHED", "ARCHIVED"}

Course == [status: CourseStatus \union {"NONE", "REMOVED"}, pricing: {"FREE", "PAID"},
           price: Nat, duration: Nat, enrollmentCount: Int]
NoCourse == [status |-> "NONE", pricing |-> "FREE", price |-> 0, duration |-> 0,
             enrollmentCount |-> 0]

Module == [there: BOOLEAN, position: Nat]
NoModule == [there |-> FALSE, position |-> 0]

Lesson == [module: ModuleIds \union {0}, position: Nat, minutes: Nat]
NoLesson == [module |-> 0, position |-> 0, minutes |-> 0]

(* What a request has loaded or computed: of is the module whose lessons it *)
(* lists or 0 when it lists the modules, id the row it saves or 0 for a new *)
(* one, order the new positions.  alone is whether nothing overlapped it.   *)
Places == {"idle", "saveModule", "deleteModule", "saveLesson", "deleteLesson", "find", "order",
           "sum", "writeDuration", "countLessons", "saveCourse", "deleteCourse"}
Nothing == [i \in {} |-> 0]
Idle == [at |-> "idle", course |-> NoCourse, of |-> 0, id |-> 0, position |-> 0, minutes |-> 0,
         order |-> Nothing, total |-> 0, resum |-> FALSE, alone |-> FALSE]

Init ==
  /\ course = NoCourse
  /\ enrolled = FALSE
  /\ module = [m \in ModuleIds |-> NoModule]
  /\ lesson = [l \in LessonIds |-> NoLesson]
  /\ added = [modules |-> 0, lessons |-> 0]
  /\ req = [r \in Requests |-> Idle]
  /\ overlaps = 0
  /\ failures = 0

Exists == course.status \in CourseStatus

(* The rows a list shows: the modules (of = 0) or the lessons of a module.  *)
Listed(of) == IF of = 0 THEN {m \in ModuleIds : module[m].there}
                        ELSE {l \in LessonIds : lesson[l].module = of}
Position(of, i) == IF of = 0 THEN module[i].position ELSE lesson[i].position
LessonsThere == UNION {Listed(m) : m \in ModuleIds}

(***************************************************************************)
(* Requests.                                                               *)
(***************************************************************************)
At(r, place) == req[r].at = place
Under(r) == req[r].at # "idle"
Busy == \E r \in Requests : Under(r)
Finish(r) == req' = [req EXCEPT ![r] = Idle]
Continue(r, place) == req' = [req EXCEPT ![r].at = place]
Undisturbed == overlaps + failures < MaxDisturbances
Disturbed(q) == [req[q] EXCEPT !.alone = FALSE]

(* Every first step counts whether a request was under way.                *)
Arrives == /\ Busy => Undisturbed
           /\ overlaps' = IF Busy THEN overlaps + 1 ELSE overlaps
           /\ UNCHANGED failures

Starts(r, request) ==
  /\ ~Under(r)
  /\ Arrives
  /\ req' = [q \in Requests |-> IF q = r THEN [request EXCEPT !.alone = ~Busy] ELSE Disturbed(q)]
  /\ UNCHANGED rows

Goes == UNCHANGED <<overlaps, failures>>

(* Goes on with what the request loaded for its first save forgotten.      *)
Sums(r) == req' = [req EXCEPT ![r] = [Idle EXCEPT !.at = "sum", !.alone = req[r].alone]]
Lists(r) == req' = [req EXCEPT ![r] =
              [Idle EXCEPT !.at = "find", !.of = req[r].of, !.resum = TRUE, !.alone = req[r].alone]]

Fail(r) ==
  /\ Under(r)
  /\ Undisturbed
  /\ failures' = failures + 1
  /\ Finish(r)
  /\ UNCHANGED <<rows, overlaps>>

(***************************************************************************)
(* The row of the course.                                                  *)
(***************************************************************************)
NormalisedPrice(pricing, price) == IF pricing = "FREE" THEN 0 ELSE price

Refused(pricing, price) == pricing = "PAID" /\ price = 0

Priced(row, pricing, price) ==
  [row EXCEPT !.pricing = pricing, !.price = NormalisedPrice(pricing, price)]

Create(r, pricing, price) ==
  /\ course.status = "NONE"
  /\ ~Refused(pricing, price)
  /\ Starts(r, [Idle EXCEPT !.at = "saveCourse",
       !.course = Priced([NoCourse EXCEPT !.status = "DRAFT"], pricing, price)])

LoadCourse(r, place, row) ==
  /\ Exists
  /\ Starts(r, [Idle EXCEPT !.at = place, !.course = row])

UpdateCourse(r, pricing, price) ==
  /\ ~Refused(pricing, price)
  /\ LoadCourse(r, "saveCourse", Priced(course, pricing, price))

Archive(r) == LoadCourse(r, "saveCourse", [course EXCEPT !.status = "ARCHIVED"])

(* A price above zero is asked for again, which normalisePrice has seen to. *)
Publish(r) ==
  /\ course.status # "PUBLISHED"
  /\ ~Refused(course.pricing, course.price)
  /\ LoadCourse(r, "countLessons", [course EXCEPT !.status = "PUBLISHED"])

CountLessons(r) ==
  /\ At(r, "countLessons")
  /\ \/ LessonsThere # {} /\ Continue(r, "saveCourse")
     \/ LessonsThere = {} /\ Finish(r)
  /\ Goes /\ UNCHANGED rows

Unpublish(r) ==
  /\ course.status = "PUBLISHED"
  /\ LoadCourse(r, "saveCourse", [course EXCEPT !.status = "DRAFT"])

SaveCourse(r) ==
  /\ At(r, "saveCourse")
  /\ course' = req[r].course
  /\ Finish(r)
  /\ Goes /\ UNCHANGED <<enrolled, module, lesson, added>>

(* Mutant: drafts are removed with their learners.                         *)
MayRemoveAny(row) == row.status = "DRAFT"

MayRemove(row) == row.status = "DRAFT" /\ row.enrollmentCount <= 0

RemoveCourse(r) == MayRemove(course) /\ LoadCourse(r, "deleteCourse", course)

(* The foreign keys of modules, lessons and enrollments cascade.           *)
DeleteCourse(r) ==
  /\ At(r, "deleteCourse")
  /\ course' = [NoCourse EXCEPT !.status = "REMOVED"]
  /\ enrolled' = FALSE
  /\ module' = [m \in ModuleIds |-> NoModule]
  /\ lesson' = [l \in LessonIds |-> NoLesson]
  /\ Finish(r)
  /\ Goes /\ UNCHANGED added

(***************************************************************************)
(* A learner (the module Enrollments); the counter moves by a statement.   *)
(***************************************************************************)
(* Mutant: the counter is only counted up.                                 *)
CountedUp(row, joins) == [row EXCEPT !.enrollmentCount = IF joins THEN @ + 1 ELSE @]

Counted(row, joins) ==
  [row EXCEPT !.enrollmentCount = IF joins THEN @ + 1 ELSE @ - 1]

Enroll ==
  /\ course.status = "PUBLISHED" /\ ~enrolled
  /\ enrolled' = TRUE
  /\ course' = Counted(course, TRUE)
  /\ req' = [q \in Requests |-> Disturbed(q)]
  /\ Arrives
  /\ UNCHANGED <<module, lesson, added>>

Leave ==
  /\ enrolled
  /\ enrolled' = FALSE
  /\ course' = Counted(course, FALSE)
  /\ req' = [q \in Requests |-> Disturbed(q)]
  /\ Arrives
  /\ UNCHANGED <<module, lesson, added>>

(***************************************************************************)
(* Orders.  A reorder lists every row exactly once; a renumbering lists     *)
(* them by position, and rows of the same position in any order.           *)
(***************************************************************************)
Orders(of) ==
  {order \in [Listed(of) -> 0..Cardinality(Listed(of)) - 1] : IsInjective(order)}

Renumberings(of) ==
  {order \in Orders(of) : \A i, j \in Listed(of) :
     Position(of, i) < Position(of, j) => order[i] < order[j]}

(* Mutant: a row that would move up by one stays.                          *)
PlaceOfShort(order, i, old) == IF i \in DOMAIN order /\ order[i] + 1 # old THEN order[i] ELSE old

PlaceOf(order, i, old) == IF i \in DOMAIN order THEN order[i] ELSE old

Find(r) ==
  /\ At(r, "find")
  /\ \E order \in Renumberings(req[r].of) :
       req' = [req EXCEPT ![r].at = "order", ![r].order = order]
  /\ Goes /\ UNCHANGED rows

(* update({ id }, { position }) of every row that is listed and still there. *)
ApplyOrder(r) ==
  LET order == req[r].order
      modules == req[r].of = 0
  IN
  /\ At(r, "order")
  /\ module' = [m \in ModuleIds |-> IF modules /\ module[m].there
       THEN [module[m] EXCEPT !.position = PlaceOf(order, m, @)] ELSE module[m]]
  /\ lesson' = [l \in LessonIds |-> IF ~modules /\ lesson[l].module # 0
       THEN [lesson[l] EXCEPT !.position = PlaceOf(order, l, @)] ELSE lesson[l]]
  /\ \/ req[r].resum /\ Sums(r)
     \/ ~req[r].resum /\ Finish(r)
  /\ Goes /\ UNCHANGED <<course, enrolled, added>>

(* reorderModules and reorderLessons.                                      *)
Reorder(r, of) ==
  /\ Listed(of) # {}
  /\ \E order \in Orders(of) : Starts(r, [Idle EXCEPT !.at = "order", !.of = of, !.order = order])

(***************************************************************************)
(* recomputeDuration.                                                      *)
(***************************************************************************)
MinutesOf(l) == lesson[l].minutes

TotalMinutes == MapThenSumSet(MinutesOf, LessonsThere)

Sum(r) ==
  /\ At(r, "sum")
  /\ req' = [req EXCEPT ![r].at = "writeDuration", ![r].total = TotalMinutes]
  /\ Goes /\ UNCHANGED rows

Lasting(row, total) == [row EXCEPT !.duration = total]

WriteDuration(r) ==
  /\ At(r, "writeDuration")
  /\ course' = IF Exists THEN Lasting(course, req[r].total) ELSE course
  /\ Finish(r)
  /\ Goes /\ UNCHANGED <<enrolled, module, lesson, added>>

(***************************************************************************)
(* Modules.                                                                *)
(***************************************************************************)
AddModule(r) ==
  /\ Exists /\ added.modules < MaxModules
  /\ Starts(r, [Idle EXCEPT !.at = "saveModule", !.position = Cardinality(Listed(0))])

UpdateModule(r, m) ==
  /\ module[m].there
  /\ Starts(r, [Idle EXCEPT !.at = "saveModule", !.id = m, !.position = module[m].position])

SaveModule(r) ==
  LET new == req[r].id = 0
      id == IF new THEN added.modules + 1 ELSE req[r].id
  IN
  /\ At(r, "saveModule")
  /\ id \in ModuleIds
  /\ \/ /\ Exists
        /\ module' = [module EXCEPT ![id] = [there |-> TRUE, position |-> req[r].position]]
        /\ added' = IF new THEN [added EXCEPT !.modules = id] ELSE added
     \/ ~Exists /\ UNCHANGED <<module, added>>
  /\ Finish(r)
  /\ Goes /\ UNCHANGED <<course, enrolled, lesson>>

RemoveModule(r, m) ==
  /\ module[m].there
  /\ Starts(r, [Idle EXCEPT !.at = "deleteModule", !.id = m, !.resum = TRUE])

LessonsWithout(m) == [l \in LessonIds |-> IF lesson[l].module = m THEN NoLesson ELSE lesson[l]]

DeleteModule(r) ==
  /\ At(r, "deleteModule")
  /\ module' = [module EXCEPT ![req[r].id] = NoModule]
  /\ lesson' = LessonsWithout(req[r].id)
  /\ Lists(r)
  /\ Goes /\ UNCHANGED <<course, enrolled, added>>

(***************************************************************************)
(* Lessons.                                                                *)
(***************************************************************************)
AddLesson(r, m, minutes) ==
  /\ module[m].there /\ added.lessons < MaxLessons
  /\ Starts(r, [Idle EXCEPT !.at = "saveLesson", !.of = m, !.minutes = minutes,
                            !.position = Cardinality(Listed(m)), !.resum = TRUE])

(* With or without minutes: only with them the duration is summed again.   *)
Resums(given) == given

UpdateLesson(r, l, given, minutes) ==
  /\ lesson[l].module # 0
  /\ given \/ minutes = lesson[l].minutes
  /\ Starts(r, [Idle EXCEPT !.at = "saveLesson", !.of = lesson[l].module, !.id = l,
                            !.position = lesson[l].position, !.minutes = minutes,
                            !.resum = Resums(given)])

SaveLesson(r) ==
  LET q == req[r]
      new == q.id = 0
      id == IF new THEN added.lessons + 1 ELSE q.id
  IN
  /\ At(r, "saveLesson")
  /\ id \in LessonIds
  /\ \/ /\ module[q.of].there
        /\ lesson' = [lesson EXCEPT ![id] =
             [module |-> q.of, position |-> q.position, minutes |-> q.minutes]]
        /\ added' = IF new THEN [added EXCEPT !.lessons = id] ELSE added
        /\ \/ q.resum /\ Sums(r)
           \/ ~q.resum /\ Finish(r)
     \/ /\ ~module[q.of].there
        /\ Finish(r)
        /\ UNCHANGED <<lesson, added>>
  /\ Goes /\ UNCHANGED <<course, enrolled, module>>

RemoveLesson(r, l) ==
  /\ lesson[l].module # 0
  /\ Starts(r, [Idle EXCEPT !.at = "deleteLesson", !.id = l, !.of = lesson[l].module,
                            !.resum = TRUE])

DeleteLesson(r) ==
  /\ At(r, "deleteLesson")
  /\ lesson' = [lesson EXCEPT ![req[r].id] = NoLesson]
  /\ Lists(r)
  /\ Goes /\ UNCHANGED <<course, enrolled, module, added>>

Step(r) ==
  \/ CountLessons(r) \/ SaveCourse(r) \/ DeleteCourse(r)
  \/ Find(r) \/ ApplyOrder(r) \/ Sum(r) \/ WriteDuration(r)
  \/ SaveModule(r) \/ DeleteModule(r) \/ SaveLesson(r) \/ DeleteLesson(r)

Next ==
  \/ \E r \in Requests :
       \/ Step(r) \/ Fail(r)
       \/ Archive(r) \/ Publish(r) \/ Unpublish(r) \/ RemoveCourse(r) \/ AddModule(r)
       \/ \E pricing \in {"FREE", "PAID"}, price \in Prices \union {0} :
            Create(r, pricing, price) \/ UpdateCourse(r, pricing, price)
       \/ \E of \in ModuleIds \union {0} : Reorder(r, of)
       \/ \E m \in ModuleIds :
            \/ UpdateModule(r, m) \/ RemoveModule(r, m)
            \/ \E minutes \in Minutes : AddLesson(r, m, minutes)
       \/ \E l \in LessonIds :
            \/ RemoveLesson(r, l)
            \/ \E given \in BOOLEAN, minutes \in Minutes : UpdateLesson(r, l, given, minutes)
  \/ Enroll \/ Leave

Spec == Init /\ [][Next]_vars

-----------------------------------------------------------------------------
(* Nothing is under way, and so far nothing has overlapped or failed.      *)
Quiet == overlaps = 0 /\ failures = 0 /\ ~Busy

Dense(of) == {Position(of, i) : i \in Listed(of)} = 0..Cardinality(Listed(of)) - 1

(* Every row has a value of its kind and every lesson a module that exists, *)
(* however removals and stale saves overlap: the type invariant of courses. *)
TypeOK ==
  /\ course \in Course
  /\ enrolled \in BOOLEAN
  /\ module \in [ModuleIds -> Module]
  /\ lesson \in [LessonIds -> Lesson]
  /\ added \in [modules: 0..MaxModules, lessons: 0..MaxLessons]
  /\ \A r \in Requests : /\ req[r].at \in Places /\ req[r].course \in Course
                         /\ req[r].id \in Nat /\ req[r].of \in ModuleIds \union {0}
  /\ overlaps \in Nat
  /\ failures \in Nat
  /\ \A l \in LessonIds : lesson[l].module \in Listed(0) \union {0}

(* "Positions are dense, zero based integers": between requests, of the     *)
(* modules and of the lessons of every module, whatever was added, removed *)
(* and reordered.                                                          *)
PositionsAreDense == Quiet => \A of \in ModuleIds \union {0} : Dense(of)

(* "and the course duration is kept in sync": between requests it is the    *)
(* sum over the lessons that are left, also after saves of the course row. *)
DurationIsSum == Quiet /\ Exists => course.duration = TotalMinutes

(* Whatever stale rows are saved over each other, a course that is free has *)
(* no price and a paid one has one.                                        *)
PricedConsistently == Exists => (course.pricing = "PAID" <=> course.price > 0)

(* Between requests the counter is the number of learners: saves of the     *)
(* course row carry it along unchanged.                                    *)
CountMatchesLearners == Quiet => course.enrollmentCount = IF enrolled THEN 1 ELSE 0

(* A course is not removed under its learner, unless requests overlapped    *)
(* and the counter that guards the removal has drifted.                    *)
LearnersKeepTheirCourse ==
  [][overlaps' = 0 /\ enrolled /\ Exists => course'.status \in CourseStatus]_vars

(* "renumbered after every removal or reorder": whatever earlier requests   *)
(* have left behind, a removal or reorder that nothing overlaps leaves the *)
(* rows it lists dense.                                                    *)
RenumberingRepairs ==
  \A r \in Requests, of \in ModuleIds \union {0} :
    At(r, "order") /\ req[r].of = of /\ req[r].alone /\ req'[r].at # "order"
      => failures' # failures \/ Dense(of)'

(* Whatever earlier requests have left behind, an edit that nothing         *)
(* overlaps and that sums the lessons leaves the duration right.           *)
SummingRepairs ==
  \A r \in Requests : At(r, "writeDuration") /\ req[r].alone /\ req'[r] = Idle /\ Exists
    => failures' # failures \/ course'.duration = TotalMinutes

(* The derived columns of a course and its outline are right, so far as the *)
(* requests that wrote them did not overlap.                               *)
CourseIsInOrder ==
  TypeOK /\ PositionsAreDense /\ DurationIsSum /\ PricedConsistently /\ CountMatchesLearners

(* An edit puts right what earlier overlaps left behind.                   *)
EditsRepair == [][RenumberingRepairs /\ SummingRepairs]_vars
=============================================================================
