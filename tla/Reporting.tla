----------------------------- MODULE Reporting -----------------------------
(***************************************************************************)
(* What the platform computes from its rows and shows: pages of a list     *)
(* (src/common/pagination/pagination.ts), streaks and the next lesson      *)
(* (src/enrollments/progress.service.ts), attendance                       *)
(* (src/cohorts/attendance.service.ts) and the sessions it is of            *)
(* (src/cohorts/cohorts.service.ts), the batches in which certificates  *)
(* are issued again (src/certificates/certificates.service.ts) and the     *)
(* sums of the dashboard (src/analytics).  Like Grading, it has no state.  *)
(***************************************************************************)
EXTENDS Grading

-----------------------------------------------------------------------------
(* Pages.                                                                  *)

Slice(s, skip, take) == SubSeq(s, skip + 1, Min({skip + take, Len(s)}))

CONSTANTS DefaultPageSize, MaxPageSize

NormalizePageRequest(r) ==
  [page  |-> Max({1, IF r.page = Null THEN 1 ELSE r.page}),
   limit |-> Min({MaxPageSize, Max({1, IF r.limit = Null THEN DefaultPageSize ELSE r.limit})})]

TotalPages(total, limit) == (total + limit - 1) \div limit

PaginateArray(items, r) ==
  LET p == NormalizePageRequest(r)
      pages == TotalPages(Len(items), p.limit)
  IN  [items |-> Slice(items, (p.page - 1) * p.limit, p.limit), limit |-> p.limit,
       page |-> p.page, pages |-> pages,
       next |-> p.page < pages, previous |-> p.page > 1 /\ Len(items) > 0]

(* reissueAll reads batch after batch until one is empty: certificates is  *)
(* their order of issue, failing the ones that cannot be rendered.         *)
NextBatch(page, batchSize) == page * batchSize

ReissueAll(certificates, batchSize, failing) ==
  LET From[page \in 0..Len(certificates)] ==
        LET batch == Slice(certificates, NextBatch(page, batchSize), batchSize)
            failed == Len(SelectSeq(batch, LAMBDA c : c \in failing))
            rest == From[page + 1]
        IN  IF batch = <<>> THEN [reissued |-> 0, failed |-> 0, seen |-> <<>>]
            ELSE [reissued |-> Len(batch) - failed + rest.reissued,
                  failed |-> failed + rest.failed, seen |-> batch \o rest.seen]
  IN  From[0]

-----------------------------------------------------------------------------
(* Streaks.  A day is a number; days is the set a learner was active on.   *)

CONSTANTS StreakWindow,  \* how many active days are read: take
          RecentDays     \* what counts as recent: 30 days

LastDays(days) ==
  [i \in 1..Min({StreakWindow, Cardinality(days)}) |->
     CHOOSE d \in days : Cardinality({e \in days : e > d}) = i - 1]

(* The current run ends today or yesterday.  Mutant: only today.           *)
FirstDayFromToday(set, today) == today
FirstDay(set, today) == IF today \in set THEN today ELSE today - 1

StreakRun(run, previous, day) == IF previous # Null /\ previous + 1 = day THEN run + 1 ELSE 1

Streak(days, today) ==
  LET read == LastDays(days)
      set == ToSet(read)
      Walk[cursor \in -1..today] == IF cursor \in set THEN 1 + Walk[cursor - 1] ELSE 0
      Visit(acc, day) == LET run == StreakRun(acc.run, acc.previous, day)
                         IN  [run |-> run, longest |-> Max({acc.longest, run}), previous |-> day]
      visited == FoldLeft(Visit, [run |-> 0, longest |-> 0, previous |-> Null], Reverse(read))
  IN  [current |-> Walk[FirstDay(set, today)],
       longest |-> visited.longest,
       recent  |-> Cardinality({d \in set : d >= today - RecentDays}),
       last    |-> IF read = <<>> THEN Null ELSE read[1]]

-----------------------------------------------------------------------------
(* The next lesson.  modules is a sequence of sequences of lessons, as     *)
(* listModules orders them; row is the status of a lesson, where it has a  *)
(* row at all.                                                             *)

Status(row, lesson) == IF lesson \in DOMAIN row THEN row[lesson] ELSE "NOT_STARTED"

FirstIncomplete(modules, row) ==
  LET todo == SelectSeq(FlattenSeq(modules), LAMBDA l : Status(row, l) # "COMPLETED")
  IN  IF todo = <<>> THEN Null ELSE todo[1]

(* What refreshEnrollment counts.                                          *)
CourseCount(modules, row) ==
  LET completed == Cardinality({l \in DOMAIN row : row[l] = "COMPLETED"})
      total == Len(FlattenSeq(modules))
  IN  [completed |-> completed, total |-> total,
       percent |-> Min({100, Percent(completed, total)}),
       done |-> total > 0 /\ completed >= total]

-----------------------------------------------------------------------------
(* The sessions of a cohort, their dates and their attendance.  A schedule  *)
(* has sessions, a function from their ids to ranges, and rows, a function *)
(* from pairs <<session, user>> to a status.                               *)

Given(value, otherwise) == IF value = Null THEN otherwise ELSE value

(* parseRange *)
ParseRange(from, to) == IF to <= from THEN Refused ELSE [from |-> from, to |-> to]

(* updateSession checks the range that the session will have.              *)
Moved(range, op) == ParseRange(Given(op.from, range.from), Given(op.to, range.to))

WithSession(schedule, s, range) ==
  IF range = Refused THEN schedule
  ELSE [schedule EXCEPT !.sessions = [t \in DOMAIN @ \union {s} |-> IF t = s THEN range ELSE @[t]]]

(* Its attendance goes with it.                                            *)
RemoveSession(schedule, s) ==
  [sessions |-> [t \in DOMAIN schedule.sessions \ {s} |-> schedule.sessions[t]],
   rows |-> [k \in {k \in DOMAIN schedule.rows : k[1] # s} |-> schedule.rows[k]]]

LastEntry(entries, u) ==
  entries[SelectLastInSeq(entries, LAMBDA e : e.user = u)].status

(* A user named twice whose row exists is the same row twice, and the last *)
(* entry stays; named twice without a row, two rows are inserted and the   *)
(* unique index refuses all of them.                                       *)
MarkTwice(rows, session, entries) ==
  \E i, j \in DOMAIN entries :
    i # j /\ entries[i].user = entries[j].user /\ <<session, entries[i].user>> \notin DOMAIN rows

MarkAttendance(rows, session, entries, enrolled) ==
  LET users == {entries[i].user : i \in DOMAIN entries} IN
  IF ~ users \subseteq enrolled \/ MarkTwice(rows, session, entries) THEN rows
  ELSE [k \in DOMAIN rows \union ({session} \X users) |->
          IF k[1] = session /\ k[2] \in users THEN LastEntry(entries, k[2]) ELSE rows[k]]

(* One request for the sessions of a cohort; one that fails changes        *)
(* nothing.                                                                *)
EditSchedule(schedule, op, enrolled) ==
  CASE op.do = "add" -> WithSession(schedule, op.session, ParseRange(op.from, op.to))
    [] op.do # "add" /\ op.session \notin DOMAIN schedule.sessions -> schedule
    [] op.do = "move" -> WithSession(schedule, op.session, Moved(schedule.sessions[op.session], op))
    [] op.do = "remove" -> RemoveSession(schedule, op.session)
    [] OTHER -> [schedule EXCEPT !.rows = MarkAttendance(@, op.session, op.entries, enrolled)]

Own(rows, held, u) == {k \in DOMAIN rows : k[2] = u /\ k[1] \in held}

(* summary, for one enrolled member; held is the sessions that have ended. *)
MemberAttendance(rows, held, u) ==
  LET own == Own(rows, held, u)
      Count(statuses) == Cardinality({k \in own : rows[k] \in statuses})
  IN  [present |-> Count({"PRESENT"}), late |-> Count({"LATE"}),
       absent |-> Count({"ABSENT"}), excused |-> Count({"EXCUSED"}),
       unmarked |-> Max({0, Cardinality(held) - Cardinality(own)}),
       rate |-> Percent(Count({"PRESENT", "LATE"}), Cardinality(held))]

-----------------------------------------------------------------------------
(* The dashboard.  A purchase has an owner, items (the courses it pays     *)
(* for), an amount and a status; an enrollment is of a learner in a        *)
(* course, with the purchase that pays for it, or Null.                    *)

CONSTANTS DefaultDays

ResolveRange(q, now) ==
  LET to == IF q.to = Null THEN now ELSE q.to
      from == IF q.from = Null THEN to - DefaultDays ELSE q.from
  IN  IF from >= to THEN Refused ELSE [from |-> from, to |-> to]

Paid(purchases) == {p \in DOMAIN purchases : purchases[p].status = "PAID"}
Revenue(purchases, P) == SumFunctionOnSet([p \in DOMAIN purchases |-> purchases[p].amount], P)

(* overview *)
Overview(purchases, enrollments) ==
  LET Count(status) == Cardinality({e \in enrollments : e.status = status}) IN
  [revenue   |-> Revenue(purchases, Paid(purchases)),
   refunded  |-> Revenue(purchases, {p \in DOMAIN purchases : purchases[p].status = "REFUNDED"}),
   active    |-> Count("ACTIVE"),
   completed |-> Count("COMPLETED")]

Within(at, range) == at >= range.from /\ at < range.to

(* revenueOverTime: one point for every bucket that has a purchase.        *)
RevenueOverTime(purchases, range, width) ==
  LET chosen == {p \in DOMAIN purchases : /\ purchases[p].status \in {"PAID", "REFUNDED"}
                                          /\ Within(purchases[p].paidAt, range)}
      Bucket(p) == purchases[p].paidAt \div width
  IN  [b \in {Bucket(p) : p \in chosen} |->
         LET P == {p \in chosen : Bucket(p) = b} IN
         [revenue |-> Revenue(purchases, P \intersect Paid(purchases)), purchases |-> Cardinality(P)]]

(* An enrollment is credited with its share of its purchase, cut to cents. *)
(* Mutant: every one of them with all of it.                               *)
ShareOfAll(purchases, e) ==
  IF e.purchase = Null THEN 0
  ELSE IF purchases[e.purchase].status = "PAID" THEN purchases[e.purchase].amount ELSE 0
Share(purchases, e) ==
  IF e.purchase = Null THEN 0
  ELSE LET p == purchases[e.purchase] IN
       IF p.status = "PAID" THEN p.amount \div Max({Cardinality(p.items), 1}) ELSE 0

Listed(e) == e.status # "CANCELLED"

(* topCourses, for one course and a range that nothing began outside of.   *)
CourseFigures(purchases, enrollments, course) ==
  LET E == {e \in enrollments : e.course = course /\ Listed(e)} IN
  [enrollments |-> Cardinality(E),
   completions |-> Cardinality({e \in E : e.status = "COMPLETED"}),
   revenue |-> MapThenSumSet(LAMBDA e : Share(purchases, e), E)]

Begins(e, range) == Listed(e) /\ Within(e.at, range)
Ends(e, range) == IF e.completed = Null THEN FALSE ELSE Within(e.completed, range)

(* enrollmentsOverTime: enrollments in the bucket they begin in,           *)
(* completions in the bucket they end in.                                  *)
EnrollmentsOverTime(enrollments, range, width) ==
  LET began == {e \in enrollments : Begins(e, range)}
      ended == {e \in enrollments : Ends(e, range)}
      Bucket(at) == at \div width
  IN  [b \in {Bucket(e.at) : e \in began} \union {Bucket(e.completed) : e \in ended} |->
         [enrollments |-> Cardinality({e \in began : Bucket(e.at) = b}),
          completions |-> Cardinality({e \in ended : Bucket(e.completed) = b})]]

(* cohortCompletionRates, for a cohort that the range does not leave out;  *)
(* members hold a seat in it.                                              *)
CohortCompletion(members, course, enrollments) ==
  LET completed == {e \in enrollments : /\ e.user \in members /\ e.course = course
                                        /\ e.status = "COMPLETED"}
  IN  [enrolled |-> Cardinality(members), completed |-> Cardinality(completed),
       rate |-> Percent(Cardinality(completed), Cardinality(members))]

CountsSince(e, since) == e.at >= since

(* The summary of an instructor who teaches taught, since a baseline that  *)
(* reset moves; nothing is deleted.                                        *)
InstructorFigures(purchases, enrollments, taught, since) ==
  LET E == {e \in enrollments : /\ e.course \in taught
                                /\ CountsSince(e, since)
                                /\ e.status # "CANCELLED"}
      completions == Cardinality({e \in E : e.status = "COMPLETED"})
  IN  [enrollments |-> Cardinality(E),
       completions |-> completions,
       learners |-> Cardinality({e.user : e \in E}),
       rate |-> Percent(completions, Cardinality(E)),
       revenue |-> MapThenSumSet(LAMBDA e : Share(purchases, e), E)]
=============================================================================
