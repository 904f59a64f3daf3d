----------------------------- MODULE SeedScript -----------------------------
(***************************************************************************)
(* scripts/seed.ts, which fills a database and says of itself that it is   *)
(* safe to run more than once: the tasks of a run, in order, as functions  *)
(* of the rows there are and of what this run has begun itself.  A run may *)
(* stop between two tasks.                                                 *)
(***************************************************************************)
EXTENDS Integers, SequencesExt

CONSTANTS SeedUsers, SeedCategories, SeedCourses, FreeSeedCourses, SeedLearners,
          SeedLessons, SeedSessions

ASSUME SeedAssumption ==
  /\ SeedLearners \in Seq(ToSet(SeedUsers))
  /\ FreeSeedCourses \in Seq(ToSet(SeedCourses)) /\ FreeSeedCourses # <<>>
  /\ SeedLessons \in Nat /\ SeedSessions \in Nat

Absent == -1

(* lessons and sessions count what a course and its cohort have, Absent    *)
(* where there is none; packs is how often a seat pack was granted.        *)
EmptyDatabase ==
  [users |-> {}, categories |-> {}, published |-> {}, enrolled |-> {}, studied |-> {},
   lessons |-> [c \in ToSet(SeedCourses) |-> Absent],
   sessions |-> [c \in ToSet(SeedCourses) |-> Absent],
   org |-> FALSE, packs |-> 0, partner |-> FALSE]

Task(what, of) == [what |-> what, of |-> of]
Times(what, of, n) == [i \in 1..n |-> Task(what, of)]

Program ==
  LET Each(s, what) == [i \in DOMAIN s |-> Task(what, s[i])]
      CourseTasks == [i \in DOMAIN SeedCourses |-> LET c == SeedCourses[i] IN
        <<Task("course", c)>> \o Times("lesson", c, SeedLessons) \o <<Task("publish", c)>>]
      CohortTasks == [i \in DOMAIN SeedCourses |-> LET c == SeedCourses[i] IN
        <<Task("cohort", c)>> \o Times("session", c, SeedSessions)]
      LearnerTasks == [i \in DOMAIN SeedLearners |->
        <<Task("enroll", i), Task("study", i)>>]
  IN  Each(SeedUsers, "user") \o Each(SeedCategories, "category") \o FlattenSeq(CourseTasks)
      \o FlattenSeq(CohortTasks) \o <<Task("org", 0), Task("pack", 0)>>
      \o FlattenSeq(LearnerTasks) \o <<Task("partner", 0)>>

LearnersCourse(i) == FreeSeedCourses[((i - 1) % Len(FreeSeedCourses)) + 1]

(* Mutant: the lessons are built whatever is there.                        *)
BuildsAlways(acc, c) == TRUE
(* A course whose title is found is taken as it is, however far it got.    *)
Builds(acc, c) == acc.db.lessons[c] = Absent

(* begun is what this run has created itself, and so goes on with.         *)
Begin(acc, task, db) == [acc EXCEPT !.db = db, !.begun = @ \union {task}]
Begun(acc, what, of) == Task(what, of) \in acc.begun

Perform(acc, task) ==
  LET db == acc.db
      of == task.of
  IN
  CASE task.what = "user"     -> [acc EXCEPT !.db.users = @ \union {of}]
    [] task.what = "category" -> [acc EXCEPT !.db.categories = @ \union {of}]
    [] task.what = "course"   ->
         IF Builds(acc, of)
         THEN Begin(acc, task, [db EXCEPT !.lessons[of] = IF @ = Absent THEN 0 ELSE @]) ELSE acc
    [] task.what = "lesson"   ->
         IF Begun(acc, "course", of) THEN [acc EXCEPT !.db.lessons[of] = @ + 1] ELSE acc
    [] task.what = "publish"  ->
         IF Begun(acc, "course", of) THEN [acc EXCEPT !.db.published = @ \union {of}] ELSE acc
    [] task.what = "cohort"   ->
         IF db.sessions[of] = Absent THEN Begin(acc, task, [db EXCEPT !.sessions[of] = 0]) ELSE acc
    [] task.what = "session"  ->
         IF Begun(acc, "cohort", of) THEN [acc EXCEPT !.db.sessions[of] = @ + 1] ELSE acc
    [] task.what = "org"      ->
         IF db.org THEN acc ELSE Begin(acc, task, [db EXCEPT !.org = TRUE])
    [] task.what = "pack"     ->
         IF Begun(acc, "org", 0) THEN [acc EXCEPT !.db.packs = @ + 1] ELSE acc
    [] task.what = "enroll"   ->
         IF SeedLearners[of] \in db.enrolled THEN acc
         ELSE IF LearnersCourse(of) \notin db.published THEN [acc EXCEPT !.failed = TRUE]
         ELSE Begin(acc, task, [db EXCEPT !.enrolled = @ \union {SeedLearners[of]}])
    [] task.what = "study"    ->
         IF Begun(acc, "enroll", of) THEN [acc EXCEPT !.db.studied = @ \union {SeedLearners[of]}] ELSE acc
    [] task.what = "partner"  -> [acc EXCEPT !.db.partner = TRUE]

(* One run over the first steps tasks of the program; an error ends it.    *)
Run(db, steps) ==
  LET Step(acc, task) == IF acc.failed THEN acc ELSE Perform(acc, task)
      end == FoldLeft(Step, [db |-> db, begun |-> {}, failed |-> FALSE], SubSeq(Program, 1, steps))
  IN  [db |-> end.db, failed |-> end.failed]

WholeRun(db) == Run(db, Len(Program))

(* Runs that stopped after crashes[1], crashes[2], ... tasks.              *)
CrashedRuns(crashes) == FoldLeft(LAMBDA db, steps : Run(db, steps).db, EmptyDatabase, crashes)
=============================================================================
