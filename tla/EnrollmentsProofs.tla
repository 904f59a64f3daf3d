-------------------------- MODULE EnrollmentsProofs --------------------------
(***************************************************************************)
(* Theorems about Enrollments, for all lessons, purchases and requests and *)
(* any number of overlaps and failures: what the counter, the access, the  *)
(* gates of the quiz, the attempts and the certificate say of the          *)
(* enrollment, and what finished stays finished.                           *)
(***************************************************************************)
EXTENDS Enrollments, FiniteSetTheorems, TLAPS

(* What a row and a request say by themselves.                             *)
WellPaid(row) == row.source = "PAID" => row.purchase # NoPurchase
Sound(q) ==
  /\ q \in Request /\ WellPaid(q.row)
  /\ q.at = "idle" => q = Idle
  /\ q.at \in {"purchaseRead", "savePurchase", "refundRead"} => q.purchase \in PurchaseIds
Typed == TypeOK /\ WellPaid(enrollment) /\ \A r \in Requests : Sound(req[r])

(* Lessons are added in their order, and a lesson behind the quiz, or the   *)
(* quiz, is completed or about to be by who has passed.                    *)
Gated(l) == l = QuizLesson \/ l = QuizLesson + 1
LessonsInOrder ==
  /\ lesson[1] # "PLANNED"
  /\ \A k, l \in Lessons : k < l /\ lesson[k] = "PLANNED" => lesson[l] = "PLANNED"
  /\ \A l \in Lessons : progress[l] # "NOT_STARTED" => lesson[l] = "THERE"
GatedWerePassed ==
  lesson[QuizLesson] = "THERE" =>
    \A l \in Lessons : Gated(l) /\ progress[l] = "COMPLETED" => passed
MaySave(q) ==
  q.at = "saveProgress" =>
    /\ lesson[q.lesson] # "PLANNED"
    /\ lesson[QuizLesson] = "THERE" /\ Gated(q.lesson) /\ "COMPLETED" \in {q.was, q.to} => passed
GatesInvariant ==
  LessonsInOrder /\ GatedWerePassed /\ \A r \in Requests : MaySave(req[r])

(* As long as no handler fails, whoever has read a completed enrollment     *)
(* has one whose certificate is there or about to be.                      *)
Certified == certificate # "NONE" \/ \E r \in Requests : At(r, "issue")
SomeoneCompleted ==
  enrollment.status = "COMPLETED" \/ \E r \in Requests : req[r].row.status = "COMPLETED"
CertificateFollows == failures = 0 /\ SomeoneCompleted => Certified

(* What the only request under way knows: the row it is about to write is   *)
(* the row as it is, but for its own change.                               *)
Refunded(row) == row.purchase # NoPurchase /\ purchase[row.purchase] = "REFUNDED"
Studying == {"saveProgress", "activity", "insertDay", "refresh", "refreshSave", "complete"}
Knows(q) ==
  /\ q.at = "activate" => /\ ~Accessible /\ q.row.status = "ACTIVE" /\ ~q.row.cohort
                          /\ q.row.purchase # NoPurchase => purchase[q.row.purchase] = "PAID"
  /\ q.at \in {"increment", "join", "saveCohort"} => q.row = enrollment /\ enrollment.status = "ACTIVE"
  /\ q.at \in Studying => q.row = enrollment /\ Accessible
  /\ q.at = "complete" => enrollment.status = "ACTIVE"
  /\ q.at = "saveProgress" => q.was = progress[q.lesson]
  /\ q.at = "insertDay" => ~activeToday
  /\ q.at = "purchaseRead" => purchase[q.purchase] = "PAID"
  /\ q.at = "savePurchase" => /\ Accessible /\ purchase[q.purchase] = "PAID"
                              /\ q.row = [enrollment EXCEPT !.purchase = q.purchase]
  /\ q.at = "refundRead" => purchase[q.purchase] = "REFUNDED" /\ ~q.cohort
  /\ q.at = "cancelSave" => /\ enrollment.status = "ACTIVE" /\ q.row = Cancelled(enrollment)
                            /\ enrollment.cohort => q.cohort \/ Refunded(enrollment)
  /\ q.at = "decrement" => enrollment.status = "CANCELLED"
  /\ q.at = "issue" => enrollment.status = "COMPLETED"
  /\ q.at = "reissueSave" => certificate # "NONE" /\ (q.finished <=> certificate = "REVOKED")

(* And while nothing has failed: the counter, the cohort, the purchase, the *)
(* certificate and the last lesson, but for what it is about to do.        *)
CountFollows(q) ==
  count = (IF Accessible THEN 1 ELSE 0) + (IF q.at = "decrement" THEN 1 ELSE 0)
                                        - (IF q.at = "increment" THEN 1 ELSE 0)
CohortFollows(q) ==
  cohortMember /\ ~Accessible /\ enrollment.cohort =>
    Refunded(enrollment) \/ q.at = "leave" \/ (q.at = "decrement" /\ q.cohort)
PurchaseIsPaid(q) ==
  enrollment.status = "ACTIVE" /\ enrollment.purchase # NoPurchase =>
    \/ purchase[enrollment.purchase] = "PAID" \/ q.at = "cancelSave"
    \/ q.at = "refundRead" /\ q.purchase = enrollment.purchase
WasEarned == certificate # "NONE" => enrollment.status = "COMPLETED"
LastLessonCompletes(q) ==
  NoLessonRemoved /\ enrollment.status # "COMPLETED" /\ CompletedLessons = Present =>
    q.at \in {"activity", "insertDay", "refresh", "complete"} \/ (q.at = "refreshSave" /\ q.finished)
Settles(q) ==
  /\ CountFollows(q) /\ CohortFollows(q) /\ PurchaseIsPaid(q) /\ WasEarned
  /\ LastLessonCompletes(q)

Follows(q) == Knows(q) /\ (failures = 0 => Settles(q))
OthersIdle(r) == \A q \in Requests \ {r} : ~Under(q)
OneFollows ==
  overlaps = 0 => \A r \in Requests : /\ Under(r) => OthersIdle(r)
                                      /\ OthersIdle(r) => Follows(req[r])

EnrollmentInvariant ==
  Typed /\ GatesInvariant /\ AttemptsWithinBudget /\ CertificateFollows /\ OneFollows
-----------------------------------------------------------------------------
(* The types of the rows, and how a request goes on.                       *)
RowsTyped ==
  /\ enrollment \in Enrollment /\ WellPaid(enrollment)
  /\ count \in Int
  /\ lesson \in [Lessons -> {"PLANNED", "THERE", "REMOVED"}]
  /\ progress \in [Lessons -> ProgressStatus]
  /\ activeToday \in BOOLEAN
  /\ attempts \in Nat
  /\ passed \in BOOLEAN
  /\ certificate \in Certificate
  /\ cohortMember \in BOOLEAN
  /\ purchase \in [PurchaseIds -> {"OPEN", "PAID", "REFUNDED"}]
  /\ overlaps \in Nat
  /\ failures \in Nat

Becomes(r, next) == req' = [req EXCEPT ![r] = next] /\ Sound(next)

LEMMA TypesOf ==
  Typed <=> RowsTyped /\ req \in [Requests -> Request] /\ \A r \in Requests : Sound(req[r])
BY DEF Typed, TypeOK, RowsTyped

LEMMA NullsHaveTypes == NoRow \in Enrollment /\ WellPaid(NoRow) /\ Sound(Idle) /\ Idle.at = "idle"
                        /\ Idle.row = NoRow /\ NoRow.status = "NONE"
<1>1. 1 \in Lessons BY LessonAssumption DEF Lessons
<1> QED BY <1>1 DEF NoRow, Enrollment, WellPaid, Sound, Idle, Request, Places, ProgressStatus

LEMMA TypedKept ==
  ASSUME Typed, NEW r \in Requests, NEW next, Becomes(r, next), RowsTyped'
  PROVE  /\ Typed' /\ req'[r] = next
         /\ \A q \in Requests \ {r} : req'[q] = req[q]
<1>1. req \in [Requests -> Request] /\ \A q \in Requests : Sound(req[q]) BY TypesOf
<1>2. next \in Request BY DEF Becomes, Sound
<1>3. /\ req' \in [Requests -> Request] /\ req'[r] = next
      /\ \A q \in Requests \ {r} : req'[q] = req[q]
  BY <1>1, <1>2 DEF Becomes
<1>4. \A q \in Requests : Sound(req'[q]) BY <1>1, <1>3 DEF Becomes
<1>5. Typed <=> RowsTyped /\ req \in [Requests -> Request] /\ \A q \in Requests : Sound(req[q])
  BY TypesOf
<1>6. Typed'
  BY <1>3, <1>4 DEF Typed, TypeOK, RowsTyped
<1> QED BY <1>3, <1>6

(* A request that only goes to its next place.                             *)
GoesOn(next, q, place) ==
  /\ next.at = place /\ next.row = q.row /\ next.fresh = q.fresh /\ next.cohort = q.cohort
  /\ next.purchase = q.purchase /\ next.lesson = q.lesson /\ next.was = q.was
  /\ next.to = q.to /\ next.finished = q.finished

LEMMA GoingOn ==
  ASSUME Typed, NEW r \in Requests,
         NEW place \in Places \ {"idle", "purchaseRead", "savePurchase", "refundRead"},
         Continue(r, place)
  PROVE  \E next : Becomes(r, next) /\ GoesOn(next, req[r], place)
<1>1. PICK next : next = [req[r] EXCEPT !.at = place] OBVIOUS
<1>2. req[r] \in Request /\ WellPaid(req[r].row) BY DEF Typed, Sound
<1>3. GoesOn(next, req[r], place) BY <1>1, <1>2 DEF GoesOn, Request
<1>4. next \in Request BY <1>1, <1>2 DEF Request
<1>5. Sound(next) BY <1>2, <1>3, <1>4 DEF Sound, GoesOn
<1> QED BY <1>1, <1>3, <1>5 DEF Becomes, Continue

LEMMA Finishing ==
  ASSUME NEW r \in Requests, Finish(r)
  PROVE  Becomes(r, Idle)
BY NullsHaveTypes DEF Finish, Becomes

LEMMA ArrivesType ==
  ASSUME Typed, Arrives
  PROVE  overlaps' \in Nat /\ (overlaps' = 0 => overlaps = 0 /\ \A q \in Requests : ~Under(q))
<1>1. overlaps \in Nat BY DEF Typed, TypeOK
<1> QED BY <1>1 DEF Arrives

-----------------------------------------------------------------------------
(* A step that stays away from the lessons, and one that stays away from    *)
(* the certificate.                                                        *)
LEMMA AttemptsAside ==
  ASSUME Typed, AttemptsWithinBudget, NEW r \in Requests, NEW next, Becomes(r, next),
         next.at # "saveAttempt", UNCHANGED attempts
  PROVE  AttemptsWithinBudget'
<1>1. req'[r] = next /\ \A q \in Requests \ {r} : req'[q] = req[q]
  BY TypesOf DEF Becomes, Sound
<1>2. SavingAttempt' \subseteq SavingAttempt BY <1>1 DEF SavingAttempt, At
<1>3. IsFiniteSet(SavingAttempt) /\ IsFiniteSet(Requests)
  BY RequestAssumption, FS_Subset DEF SavingAttempt
<1>4. Cardinality(SavingAttempt') <= Cardinality(SavingAttempt)
      /\ Cardinality(SavingAttempt') \in Nat /\ Cardinality(SavingAttempt) \in Nat
      /\ Cardinality(Requests) \in Nat
  BY <1>2, <1>3, FS_Subset, FS_CardinalityType
<1>5. attempts \in Nat /\ attempts' = attempts /\ MaxAttempts \in Nat
  BY QuizAssumption DEF Typed, TypeOK
<1> HIDE DEF SavingAttempt
<1> QED BY <1>4, <1>5 DEF AttemptsWithinBudget

LEMMA GatesAside ==
  ASSUME Typed, GatesInvariant, NEW r \in Requests, NEW next, Becomes(r, next),
         next.at = "saveProgress" => MaySave(next)', UNCHANGED <<lesson, progress>>, passed => passed'
  PROVE  GatesInvariant'
<1>1. req'[r] = next /\ \A q \in Requests \ {r} : req'[q] = req[q]
  BY TypesOf DEF Becomes, Sound
<1>2. \A q \in Requests : MaySave(req[q])' BY <1>1 DEF GatesInvariant, MaySave
<1>3. LessonsInOrder' /\ GatedWerePassed' BY DEF GatesInvariant, LessonsInOrder, GatedWerePassed
<1> QED BY <1>2, <1>3 DEF GatesInvariant

LEMMA CertificateAside ==
  ASSUME Typed, CertificateFollows, NEW r \in Requests, NEW next, Becomes(r, next),
         enrollment'.status = "COMPLETED" \/ next.row.status = "COMPLETED" => SomeoneCompleted,
         certificate # "NONE" => certificate' # "NONE",
         req[r].at # "issue", UNCHANGED failures
  PROVE  CertificateFollows'
<1>1. req'[r] = next /\ \A q \in Requests \ {r} : req'[q] = req[q]
  BY TypesOf DEF Becomes, Sound
<1>2. SomeoneCompleted' => SomeoneCompleted BY <1>1 DEF SomeoneCompleted
<1>3. Certified => Certified' BY <1>1 DEF Certified, At
<1> QED BY <1>2, <1>3 DEF CertificateFollows

(* While nothing overlaps one request takes a step, alone.                  *)
LEMMA OneRequest ==
  ASSUME Typed, OneFollows, NEW r \in Requests,
         Arrives \/ (UNCHANGED overlaps /\ Under(r)), overlaps' = 0
  PROVE  overlaps = 0 /\ OthersIdle(r) /\ Follows(req[r])
<1>1. overlaps = 0 /\ OthersIdle(r)
  <2>1. CASE Arrives BY <2>1, ArrivesType DEF OthersIdle
  <2>2. CASE UNCHANGED overlaps /\ Under(r) BY <2>2 DEF OneFollows
  <2> QED BY <2>1, <2>2
<1> QED BY <1>1 DEF OneFollows

LEMMA OneGoesOn ==
  ASSUME Typed, Typed', OneFollows, NEW r \in Requests, NEW next, Becomes(r, next),
         Arrives \/ (UNCHANGED overlaps /\ Under(r)),
         overlaps' = 0 => Follows(next)'
  PROVE  OneFollows'
<1> SUFFICES ASSUME overlaps' = 0, NEW q \in Requests
             PROVE  /\ Under(q)' => OthersIdle(q)'
                    /\ OthersIdle(q)' => Follows(req[q])'
  BY DEF OneFollows
<1>1. req'[r] = next /\ \A p \in Requests \ {r} : req'[p] = req[p]
  BY TypesOf DEF Becomes, Sound
<1>2. OthersIdle(r)' BY <1>1, OneRequest DEF OthersIdle, Under
<1>3. Follows(next)' OBVIOUS
<1>4. CASE q = r BY <1>1, <1>2, <1>3, <1>4
<1>5. CASE q # r
  <2>1. ~Under(q)' BY <1>2, <1>5 DEF OthersIdle
  <2>2. ASSUME OthersIdle(q)' PROVE Follows(req[q])'
    <3>1. req'[q].at = "idle" /\ req'[r].at = "idle" BY <1>5, <2>1, <2>2 DEF OthersIdle, Under
    <3>2. req'[q] = Idle /\ req'[r] = Idle BY <3>1 DEF Typed, Sound
    <3> QED BY <1>1, <1>3, <3>2
  <2> QED BY <2>1, <2>2
<1> QED BY <1>4, <1>5
LEMMA IdleKnows == Knows(Idle) /\ Knows(Idle)'
BY NullsHaveTypes DEF Knows, Studying

LEMMA SoleStepKeeps ==
  ASSUME EnrollmentInvariant, NEW r \in Requests, NEW next, Becomes(r, next), RowsTyped',
         GatesInvariant', AttemptsWithinBudget', CertificateFollows', UNCHANGED failures,
         Arrives \/ (UNCHANGED overlaps /\ Under(r)),
         Knows(req[r]) => Knows(next)',
         failures = 0 /\ Knows(req[r]) /\ Settles(req[r]) => Settles(next)'
  PROVE  EnrollmentInvariant'
<1> USE DEF EnrollmentInvariant
<1>1. Typed' BY TypedKept
<1>2. ASSUME overlaps' = 0 PROVE Follows(next)'
  <2>1. Follows(req[r]) BY <1>2, OneRequest
  <2> QED BY <2>1 DEF Follows
<1>3. OneFollows' BY <1>1, <1>2, OneGoesOn
<1> QED BY <1>1, <1>3

LEMMA StepKeeps ==
  ASSUME EnrollmentInvariant, NEW r \in Requests, NEW next, Becomes(r, next), RowsTyped',
         next.at # "saveAttempt", next.at = "saveProgress" => MaySave(next)',
         UNCHANGED <<lesson, progress, attempts, passed, failures>>,
         Arrives \/ (UNCHANGED overlaps /\ Under(r)),
         enrollment'.status = "COMPLETED" \/ next.row.status = "COMPLETED" =>
           enrollment.status = "COMPLETED" \/ req[r].row.status = "COMPLETED",
         certificate # "NONE" => certificate' # "NONE",
         req[r].at # "issue",
         Knows(req[r]) => Knows(next)',
         failures = 0 /\ Knows(req[r]) /\ Settles(req[r]) => Settles(next)'
  PROVE  EnrollmentInvariant'
<1> USE DEF EnrollmentInvariant
<1>1. GatesInvariant' BY GatesAside
<1>2. AttemptsWithinBudget' BY AttemptsAside
<1>3. CertificateFollows' BY CertificateAside DEF SomeoneCompleted
<1> QED BY <1>1, <1>2, <1>3, SoleStepKeeps

-----------------------------------------------------------------------------
(* Enrolling.                                                              *)
LEMMA ActivatedRow ==
  ASSUME enrollment \in Enrollment, NEW source \in {"PAID", "SEAT"}, NEW p \in PurchaseIds \union {NoPurchase}
  PROVE  /\ Activated(source, p) \in Enrollment /\ Activated(source, p).status = "ACTIVE"
         /\ Activated(source, p).source = source /\ Activated(source, p).purchase = p
         /\ ~Activated(source, p).cohort
BY DEF Activated, Enrollment

LEMMA EnrollWithSeatKeeps ==
  ASSUME EnrollmentInvariant, NEW r \in Requests, NEW wants \in BOOLEAN, EnrollWithSeat(r, wants)
  PROVE  EnrollmentInvariant'
<1> USE TypesOf DEF EnrollmentInvariant
<1>1. req[r] = Idle BY DEF EnrollWithSeat, Under, Sound
<1>2. PICK row, fresh : row = Activated("SEAT", NoPurchase) /\ fresh = (enrollment = NoRow) OBVIOUS
<1>3. /\ row \in Enrollment /\ row.status = "ACTIVE" /\ row.source = "SEAT"
      /\ row.purchase = NoPurchase /\ ~row.cohort /\ fresh \in BOOLEAN
  BY <1>2, ActivatedRow DEF RowsTyped
<1>4. PICK next : next = [Idle EXCEPT !.at = "activate", !.row = row, !.fresh = fresh, !.cohort = wants]
  OBVIOUS
<1>5. next.at = "activate" /\ next.row = row BY <1>4 DEF Idle
<1>6. next \in Request
  BY <1>3, <1>4, NullsHaveTypes DEF Sound, Request, Places
<1>7. Becomes(r, next)
  BY <1>1, <1>2, <1>3, <1>4, <1>5, <1>6 DEF EnrollWithSeat, Becomes, Sound, WellPaid
<1>8. UNCHANGED <<rows, failures>> /\ Arrives /\ ~Accessible BY DEF EnrollWithSeat
<1>9. RowsTyped' BY <1>8, ArrivesType DEF RowsTyped, rows, study
<1>10. Knows(next)' BY <1>3, <1>5, <1>8 DEF Knows, Studying, rows, Accessible
<1>11. ASSUME Settles(req[r]) PROVE Settles(next)'
  BY <1>1, <1>5, <1>8, <1>11, NullsHaveTypes
     DEF Settles, CountFollows, CohortFollows, PurchaseIsPaid, WasEarned, LastLessonCompletes, rows,
         study, Accessible, Refunded, NoLessonRemoved, CompletedLessons, Present
<1> QED
  BY <1>1, <1>3, <1>5, <1>7, <1>8, <1>9, <1>10, <1>11, NullsHaveTypes, StepKeeps
     DEF rows, study

LEMMA SavePurchaseKeeps ==
  ASSUME EnrollmentInvariant, NEW r \in Requests, SavePurchase(r)
  PROVE  EnrollmentInvariant'
<1> USE TypesOf DEF EnrollmentInvariant
<1>1. Becomes(r, Idle) BY Finishing DEF SavePurchase
<1>2. /\ req[r].at = "savePurchase" /\ enrollment' = req[r].row
      /\ UNCHANGED <<count, lesson, progress, activeToday, attempts, passed, certificate, cohortMember,
                     purchase, overlaps, failures>>
  BY DEF SavePurchase, At, Goes, study
<1>3. req[r].row \in Enrollment /\ WellPaid(req[r].row) BY DEF Sound, Request
<1>4. RowsTyped' BY <1>2, <1>3 DEF RowsTyped
<1>5. ASSUME Knows(req[r]), Settles(req[r]) PROVE Settles(Idle)'
  <2>1. /\ enrollment'.status = enrollment.status /\ Accessible
        /\ enrollment'.cohort = enrollment.cohort /\ purchase[enrollment'.purchase] = "PAID"
    BY <1>2, <1>5 DEF Knows, RowsTyped, Enrollment
  <2> QED
    BY <1>2, <1>5, <2>1, NullsHaveTypes
     DEF Settles, CountFollows, CohortFollows, PurchaseIsPaid, WasEarned, LastLessonCompletes,
         Accessible, Refunded, NoLessonRemoved, CompletedLessons, Present
<1> QED BY <1>1, <1>2, <1>3, <1>4, <1>5, NullsHaveTypes, IdleKnows, StepKeeps DEF Under
LEMMA FulfillPurchaseKeeps ==
  ASSUME EnrollmentInvariant, NEW r \in Requests, NEW p \in PurchaseIds, FulfillPurchase(r, p)
  PROVE  EnrollmentInvariant'
<1> USE TypesOf DEF EnrollmentInvariant
<1>1. req[r] = Idle BY DEF FulfillPurchase, Under, Sound
<1>2. PICK next : next = [Idle EXCEPT !.at = "purchaseRead", !.purchase = p] OBVIOUS
<1>3. next.at = "purchaseRead" /\ next.row = NoRow /\ next.purchase = p BY <1>2 DEF Idle
<1>4. next \in Request BY <1>2, NullsHaveTypes DEF Sound, Request, Places
<1>5. Becomes(r, next)
  BY <1>1, <1>2, <1>3, <1>4, NullsHaveTypes DEF FulfillPurchase, Becomes, Sound
<1>6. /\ UNCHANGED <<enrollment, count, lesson, progress, activeToday, attempts, passed, certificate,
                     cohortMember, failures>>
      /\ Arrives /\ purchase[p] = "OPEN" /\ purchase' = [purchase EXCEPT ![p] = "PAID"]
  BY DEF FulfillPurchase, study
<1>7. /\ RowsTyped' /\ purchase'[p] = "PAID"
      /\ \A k \in PurchaseIds : purchase[k] # "OPEN" => purchase'[k] = purchase[k]
  BY <1>6, ArrivesType DEF RowsTyped
<1>8. Knows(next)' BY <1>3, <1>7 DEF Knows, Studying
<1>9. enrollment.purchase \in PurchaseIds \union {NoPurchase} BY DEF RowsTyped, Enrollment
<1>10. ASSUME Settles(req[r]) PROVE Settles(next)'
  BY <1>1, <1>3, <1>6, <1>7, <1>9, <1>10, NullsHaveTypes
     DEF Settles, CountFollows, CohortFollows, PurchaseIsPaid, WasEarned, LastLessonCompletes,
         Accessible, Refunded, NoLessonRemoved, CompletedLessons, Present
<1> QED BY <1>1, <1>3, <1>5, <1>6, <1>7, <1>8, <1>10, NullsHaveTypes, StepKeeps

(* What a request that only reads leaves of the facts.                     *)
LEMMA ReadingSettles ==
  ASSUME NEW q, NEW next, Settles(q), UNCHANGED rows,
         q.at \notin {"leave", "decrement", "increment", "cancelSave", "refundRead",
                      "activity", "insertDay", "refresh", "refreshSave", "complete"},
         next.at \notin {"increment", "decrement"}
  PROVE  Settles(next)'
BY DEF Settles, CountFollows, CohortFollows, PurchaseIsPaid, WasEarned, LastLessonCompletes, rows,
       study, Accessible, Refunded, NoLessonRemoved, CompletedLessons, Present

LEMMA EnrollFromPurchaseKeeps ==
  ASSUME EnrollmentInvariant, NEW r \in Requests, EnrollFromPurchase(r)
  PROVE  EnrollmentInvariant'
<1> USE TypesOf DEF EnrollmentInvariant
<1>0. PICK p : p = req[r].purchase OBVIOUS
<1>1. /\ req[r].at = "purchaseRead" /\ p \in PurchaseIds /\ UNCHANGED rows
      /\ UNCHANGED <<overlaps, failures>> /\ enrollment \in Enrollment /\ req[r] \in Request
  BY <1>0 DEF EnrollFromPurchase, At, Goes, Sound, RowsTyped
<1>2. RowsTyped' BY <1>1 DEF RowsTyped, rows, study
<1>3. ASSUME NEW next, Becomes(r, next), next.at \in {"activate", "savePurchase", "idle"},
             next.row.status = "COMPLETED" => enrollment.status = "COMPLETED",
             Knows(req[r]) => Knows(next)'
      PROVE  EnrollmentInvariant'
  <2>1. Settles(req[r]) => Settles(next)' BY <1>1, <1>3, ReadingSettles
  <2> QED BY <1>1, <1>2, <1>3, <2>1, StepKeeps DEF rows, study, Under
<1>4. CASE Finish(r) BY <1>3, <1>4, NullsHaveTypes, IdleKnows, Finishing
<1>5. ASSUME ~Accessible, req' = [req EXCEPT ![r].at = "activate", ![r].row = Activated("PAID", p),
                                             ![r].fresh = enrollment = NoRow]
      PROVE  EnrollmentInvariant'
  <2>1. PICK row, fresh : row = Activated("PAID", p) /\ fresh = (enrollment = NoRow) OBVIOUS
  <2>2. /\ row \in Enrollment /\ row.status = "ACTIVE" /\ row.purchase = p /\ ~row.cohort
        /\ fresh \in BOOLEAN
    BY <1>1, <2>1, ActivatedRow
  <2>3. PICK next : next = [req[r] EXCEPT !.at = "activate", !.row = row, !.fresh = fresh] OBVIOUS
  <2>4. next.at = "activate" /\ next.row = row BY <1>1, <2>3 DEF Request
  <2>5. next \in Request BY <1>1, <2>2, <2>3 DEF Request, Places
  <2>6. Becomes(r, next)
    BY <1>1, <1>5, <2>1, <2>2, <2>3, <2>4, <2>5, PurchaseAssumption DEF Becomes, Sound, WellPaid
  <2>7. ASSUME Knows(req[r]) PROVE Knows(next)'
    <3>1. purchase[p] = "PAID" BY <1>0, <1>1, <2>7 DEF Knows
    <3> QED BY <1>1, <1>5, <2>2, <2>4, <3>1 DEF Knows, Studying, Accessible, rows
  <2> QED BY <1>3, <2>2, <2>4, <2>6, <2>7
<1>6. ASSUME Accessible, enrollment.purchase = NoPurchase,
             req' = [req EXCEPT ![r].at = "savePurchase", ![r].row = [enrollment EXCEPT !.purchase = p]]
      PROVE  EnrollmentInvariant'
  <2>1. PICK row : row = [enrollment EXCEPT !.purchase = p] OBVIOUS
  <2>2. row \in Enrollment /\ row.status = enrollment.status /\ row.purchase = p
    BY <1>1, <2>1 DEF Enrollment
  <2>3. PICK next : next = [req[r] EXCEPT !.at = "savePurchase", !.row = row] OBVIOUS
  <2>4. next.at = "savePurchase" /\ next.row = row /\ next.purchase = p
    BY <1>0, <1>1, <2>3 DEF Request
  <2>5. next \in Request BY <1>1, <2>2, <2>3 DEF Request, Places
  <2>6. Becomes(r, next)
    BY <1>1, <1>6, <2>1, <2>2, <2>3, <2>4, <2>5, PurchaseAssumption DEF Becomes, Sound, WellPaid
  <2>7. ASSUME Knows(req[r]) PROVE Knows(next)'
    <3>1. purchase[p] = "PAID" BY <1>0, <1>1, <2>7 DEF Knows
    <3> QED BY <1>1, <1>6, <2>1, <2>4, <3>1 DEF Knows, Studying, Accessible, rows
  <2> QED BY <1>3, <2>2, <2>4, <2>6, <2>7
<1> QED BY <1>0, <1>4, <1>5, <1>6 DEF EnrollFromPurchase

LEMMA ActivateSaveKeeps ==
  ASSUME EnrollmentInvariant, NEW r \in Requests, ActivateSave(r)
  PROVE  EnrollmentInvariant'
<1> USE TypesOf DEF EnrollmentInvariant
<1>1. /\ req[r].at = "activate" /\ req[r].row \in Enrollment /\ WellPaid(req[r].row)
      /\ UNCHANGED <<count, lesson, progress, activeToday, attempts, passed, certificate, cohortMember,
                     purchase, overlaps, failures>>
  BY DEF ActivateSave, At, Goes, study, Sound, Request
<1>2. CASE Finish(r) /\ UNCHANGED enrollment
  <2>1. Becomes(r, Idle) BY <1>2, Finishing
  <2>2. RowsTyped' BY <1>1, <1>2 DEF RowsTyped
  <2>3. Settles(req[r]) => Settles(Idle)'
    BY <1>1, <1>2, NullsHaveTypes, ReadingSettles DEF rows, study
  <2> QED BY <1>1, <1>2, <2>1, <2>2, <2>3, NullsHaveTypes, IdleKnows, StepKeeps DEF Under
<1>3. CASE Continue(r, "increment") /\ enrollment' = req[r].row
  <2>1. PICK next : Becomes(r, next) /\ GoesOn(next, req[r], "increment")
    BY <1>3, GoingOn DEF Places
  <2>2. RowsTyped' BY <1>1, <1>3 DEF RowsTyped
  <2>3. next.at = "increment" /\ next.row = req[r].row BY <2>1 DEF GoesOn
  <2>4. ASSUME Knows(req[r]) PROVE Knows(next)'
    BY <1>1, <1>3, <2>3, <2>4 DEF Knows, Studying
  <2>5. ASSUME Knows(req[r]), Settles(req[r]) PROVE Settles(next)'
    <3>1. /\ ~Accessible /\ enrollment'.status = "ACTIVE"
          /\ enrollment'.purchase # NoPurchase => purchase[enrollment'.purchase] = "PAID"
      BY <1>1, <1>3, <2>5 DEF Knows
    <3> QED
      BY <1>1, <2>3, <2>5, <3>1
         DEF Settles, CountFollows, CohortFollows, PurchaseIsPaid, WasEarned, LastLessonCompletes,
             Accessible, Grants, NoLessonRemoved, CompletedLessons, Present
  <2> QED BY <1>1, <1>3, <2>1, <2>2, <2>3, <2>4, <2>5, StepKeeps DEF Under
<1> QED BY <1>2, <1>3 DEF ActivateSave
LEMMA IncrementKeeps ==
  ASSUME EnrollmentInvariant, NEW r \in Requests, Increment(r)
  PROVE  EnrollmentInvariant'
<1> USE TypesOf DEF EnrollmentInvariant
<1>1. /\ req[r].at = "increment" /\ count' = count + 1
      /\ UNCHANGED <<enrollment, lesson, progress, activeToday, attempts, passed, certificate,
                     cohortMember, purchase, overlaps, failures>>
  BY DEF Increment, Counted, At, Goes, study
<1>2. RowsTyped' BY <1>1 DEF RowsTyped
<1>3. ASSUME NEW next, Becomes(r, next), next.at \in {"join", "idle"},
             next.row \in {NoRow, req[r].row}, Knows(req[r]) => Knows(next)'
      PROVE  EnrollmentInvariant'
  <2>1. count \in Int BY DEF RowsTyped
  <2>2. ASSUME Settles(req[r]) PROVE Settles(next)'
    BY <1>1, <1>3, <2>1, <2>2
       DEF Settles, CountFollows, CohortFollows, PurchaseIsPaid, WasEarned, LastLessonCompletes,
           Accessible, Refunded, NoLessonRemoved, CompletedLessons, Present
  <2> QED BY <1>1, <1>2, <1>3, <2>2, NullsHaveTypes, StepKeeps DEF Under
<1>4. CASE Finish(r) BY <1>3, <1>4, NullsHaveTypes, IdleKnows, Finishing
<1>5. CASE Continue(r, "join")
  <2>1. PICK next : Becomes(r, next) /\ GoesOn(next, req[r], "join")
    BY <1>5, GoingOn DEF Places
  <2>2. Knows(req[r]) => Knows(next)' BY <1>1, <2>1 DEF Knows, Studying, GoesOn
  <2> QED BY <1>3, <2>1, <2>2 DEF GoesOn
<1> QED BY <1>4, <1>5 DEF Increment

LEMMA JoinWithEnrollmentKeeps ==
  ASSUME EnrollmentInvariant, NEW r \in Requests, JoinWithEnrollment(r)
  PROVE  EnrollmentInvariant'
<1> USE TypesOf DEF EnrollmentInvariant
<1>1. /\ req[r].at = "join"
      /\ UNCHANGED <<enrollment, count, lesson, progress, activeToday, attempts, passed, certificate,
                     purchase, overlaps, failures>>
      /\ cohortMember' = cohortMember \/ (Accessible /\ cohortMember' = TRUE)
  BY DEF JoinWithEnrollment, At, Goes, study
<1>2. RowsTyped' BY <1>1 DEF RowsTyped
<1>3. ASSUME NEW next, Becomes(r, next), next.at \in {"saveCohort", "idle"},
             next.row \in {NoRow, req[r].row}, Knows(req[r]) => Knows(next)'
      PROVE  EnrollmentInvariant'
  <2>2. ASSUME Settles(req[r]) PROVE Settles(next)'
    BY <1>1, <1>3, <2>2
       DEF Settles, CountFollows, CohortFollows, PurchaseIsPaid, WasEarned, LastLessonCompletes,
           Accessible, Refunded, NoLessonRemoved, CompletedLessons, Present
  <2> QED BY <1>1, <1>2, <1>3, <2>2, NullsHaveTypes, StepKeeps DEF Under
<1>4. CASE Finish(r) BY <1>3, <1>4, NullsHaveTypes, IdleKnows, Finishing
<1>5. CASE Continue(r, "saveCohort")
  <2>1. PICK next : Becomes(r, next) /\ GoesOn(next, req[r], "saveCohort")
    BY <1>5, GoingOn DEF Places
  <2>2. Knows(req[r]) => Knows(next)' BY <1>1, <2>1 DEF Knows, Studying, GoesOn
  <2> QED BY <1>3, <2>1, <2>2 DEF GoesOn
<1> QED BY <1>4, <1>5 DEF JoinWithEnrollment

LEMMA SaveCohortKeeps ==
  ASSUME EnrollmentInvariant, NEW r \in Requests, SaveCohort(r)
  PROVE  EnrollmentInvariant'
<1> USE TypesOf DEF EnrollmentInvariant
<1>1. Becomes(r, Idle) BY Finishing DEF SaveCohort
<1>2. /\ req[r].at = "saveCohort" /\ enrollment' = [req[r].row EXCEPT !.cohort = TRUE]
      /\ UNCHANGED <<count, lesson, progress, activeToday, attempts, passed, certificate, cohortMember,
                     purchase, overlaps, failures>>
  BY DEF SaveCohort, At, Goes, study
<1>3. req[r].row \in Enrollment /\ WellPaid(req[r].row) BY DEF Sound, Request
<1>4. /\ enrollment'.status = req[r].row.status /\ enrollment'.purchase = req[r].row.purchase
      /\ RowsTyped'
  BY <1>2, <1>3 DEF RowsTyped, Enrollment, WellPaid
<1>5. ASSUME Knows(req[r]), Settles(req[r]) PROVE Settles(Idle)'
  <2>1. enrollment'.status = "ACTIVE" /\ enrollment.status = "ACTIVE"
        /\ enrollment'.purchase = enrollment.purchase
    BY <1>2, <1>4, <1>5 DEF Knows
  <2> QED
    BY <1>2, <1>5, <2>1, NullsHaveTypes
     DEF Settles, CountFollows, CohortFollows, PurchaseIsPaid, WasEarned, LastLessonCompletes,
         Accessible, Grants, NoLessonRemoved, CompletedLessons, Present
<1> QED BY <1>1, <1>2, <1>4, <1>5, NullsHaveTypes, IdleKnows, StepKeeps DEF Under

-----------------------------------------------------------------------------
(* Cancelling.                                                             *)
LEMMA CancelledRow ==
  ASSUME NEW row \in Enrollment
  PROVE  /\ Cancelled(row) \in Enrollment /\ Cancelled(row).status = "CANCELLED"
         /\ Cancelled(row).source = row.source /\ Cancelled(row).purchase = row.purchase
         /\ Cancelled(row).cohort = row.cohort
BY DEF Cancelled, Enrollment

LEMMA CancelKeeps ==
  ASSUME EnrollmentInvariant, NEW r \in Requests, Cancel(r)
  PROVE  EnrollmentInvariant'
<1> USE TypesOf DEF EnrollmentInvariant
<1>1. /\ req[r] = Idle /\ enrollment.status = "ACTIVE" /\ enrollment \in Enrollment /\ Arrives
      /\ WellPaid(enrollment) /\ UNCHANGED <<rows, failures>>
  BY DEF Cancel, MayCancel, Under, Sound, RowsTyped
<1>2. PICK row : row = Cancelled(enrollment) OBVIOUS
<1>3. row \in Enrollment /\ row.status = "CANCELLED" /\ WellPaid(row)
  BY <1>1, <1>2, CancelledRow DEF WellPaid
<1>4. PICK next : next = [Idle EXCEPT !.at = "cancelSave", !.row = row, !.cohort = enrollment.cohort]
  OBVIOUS
<1>5. next.at = "cancelSave" /\ next.row = row /\ next.cohort = enrollment.cohort BY <1>4 DEF Idle
<1>6. next \in Request
  BY <1>1, <1>3, <1>4, NullsHaveTypes DEF Sound, Request, Places, Enrollment
<1>7. Becomes(r, next)
  BY <1>1, <1>2, <1>3, <1>4, <1>5, <1>6 DEF Cancel, Becomes, Sound
<1>8. RowsTyped' BY <1>1, ArrivesType DEF RowsTyped, rows, study
<1>9. Knows(next)' BY <1>1, <1>2, <1>5 DEF Knows, Studying, rows
<1>10. Settles(req[r]) => Settles(next)' BY <1>1, <1>5, NullsHaveTypes, ReadingSettles
<1> QED
  BY <1>1, <1>3, <1>5, <1>7, <1>8, <1>9, <1>10, NullsHaveTypes, StepKeeps DEF rows, study

LEMMA RefundPurchaseKeeps ==
  ASSUME EnrollmentInvariant, NEW r \in Requests, NEW p \in PurchaseIds, RefundPurchase(r, p)
  PROVE  EnrollmentInvariant'
<1> USE TypesOf DEF EnrollmentInvariant
<1>1. req[r] = Idle BY DEF RefundPurchase, Under, Sound
<1>2. PICK next : next = [Idle EXCEPT !.at = "refundRead", !.purchase = p] OBVIOUS
<1>3. next.at = "refundRead" /\ next.row = NoRow /\ next.purchase = p /\ ~next.cohort
  BY <1>2 DEF Idle
<1>4. next \in Request BY <1>2, NullsHaveTypes DEF Sound, Request, Places
<1>5. Becomes(r, next)
  BY <1>1, <1>2, <1>3, <1>4, NullsHaveTypes DEF RefundPurchase, Becomes, Sound
<1>6. /\ UNCHANGED <<enrollment, count, lesson, progress, activeToday, attempts, passed, certificate,
                     cohortMember, failures>>
      /\ Arrives /\ purchase[p] = "PAID" /\ purchase' = [purchase EXCEPT ![p] = "REFUNDED"]
  BY DEF RefundPurchase, study
<1>7. /\ RowsTyped' /\ purchase'[p] = "REFUNDED"
      /\ \A k \in PurchaseIds \ {p} : purchase'[k] = purchase[k]
  BY <1>6, ArrivesType DEF RowsTyped
<1>8. Knows(next)' BY <1>3, <1>7 DEF Knows, Studying
<1>9. enrollment.purchase \in PurchaseIds \union {NoPurchase} BY DEF RowsTyped, Enrollment
<1>10. ASSUME Settles(req[r]) PROVE Settles(next)'
  BY <1>1, <1>3, <1>6, <1>7, <1>9, <1>10, NullsHaveTypes
     DEF Settles, CountFollows, CohortFollows, PurchaseIsPaid, WasEarned, LastLessonCompletes,
         Accessible, Refunded, NoLessonRemoved, CompletedLessons, Present
<1> QED BY <1>1, <1>3, <1>5, <1>6, <1>7, <1>8, <1>10, NullsHaveTypes, StepKeeps

LEMMA CancelByPurchaseKeeps ==
  ASSUME EnrollmentInvariant, NEW r \in Requests, CancelByPurchase(r)
  PROVE  EnrollmentInvariant'
<1> USE TypesOf DEF EnrollmentInvariant
<1>1. /\ req[r].at = "refundRead" /\ req[r].purchase \in PurchaseIds /\ UNCHANGED rows
      /\ UNCHANGED <<overlaps, failures>> /\ enrollment \in Enrollment /\ WellPaid(enrollment)
      /\ req[r] \in Request
  BY DEF CancelByPurchase, At, Goes, Sound, RowsTyped
<1>2. RowsTyped' BY <1>1 DEF RowsTyped, rows, study
<1>3. ASSUME NEW next, Becomes(r, next), next.row.status # "COMPLETED", Knows(req[r]) => Knows(next)',
             next.at = "cancelSave" \/ (next.at = "idle" /\ ~GrantedBy(req[r].purchase))
      PROVE  EnrollmentInvariant'
  <2>1. ASSUME Settles(req[r]) PROVE Settles(next)'
    BY <1>1, <1>3, <2>1
       DEF Settles, CountFollows, CohortFollows, PurchaseIsPaid, WasEarned, LastLessonCompletes,
           Accessible, Refunded, NoLessonRemoved, CompletedLessons, Present, rows, study, GrantedBy
  <2> QED BY <1>1, <1>2, <1>3, <2>1, StepKeeps DEF rows, study, Under
<1>4. CASE Finish(r) /\ ~GrantedBy(req[r].purchase)
  BY <1>3, <1>4, NullsHaveTypes, IdleKnows, Finishing
<1>5. ASSUME GrantedBy(req[r].purchase),
             req' = [req EXCEPT ![r].at = "cancelSave", ![r].row = Cancelled(enrollment)]
      PROVE  EnrollmentInvariant'
  <2>1. PICK row : row = Cancelled(enrollment) OBVIOUS
  <2>2. row \in Enrollment /\ row.status = "CANCELLED" /\ WellPaid(row)
    BY <1>1, <2>1, CancelledRow DEF WellPaid
  <2>3. PICK next : next = [req[r] EXCEPT !.at = "cancelSave", !.row = row] OBVIOUS
  <2>4. next.at = "cancelSave" /\ next.row = row BY <1>1, <2>3 DEF Request
  <2>5. next \in Request BY <1>1, <2>2, <2>3 DEF Request, Places
  <2>6. Becomes(r, next) BY <1>1, <1>5, <2>1, <2>2, <2>3, <2>4, <2>5 DEF Becomes, Sound
  <2>7. ASSUME Knows(req[r]) PROVE Knows(next)'
    <3>1. Refunded(enrollment)'
      BY <1>1, <1>5, <2>7, PurchaseAssumption DEF Knows, GrantedBy, Refunded, rows
    <3> QED BY <1>1, <1>5, <2>1, <2>4, <3>1 DEF Knows, Studying, GrantedBy, rows
  <2> QED BY <1>3, <2>2, <2>4, <2>6, <2>7
<1> QED BY <1>4, <1>5 DEF CancelByPurchase

LEMMA CancelSaveKeeps ==
  ASSUME EnrollmentInvariant, NEW r \in Requests, CancelSave(r)
  PROVE  EnrollmentInvariant'
<1> USE TypesOf DEF EnrollmentInvariant
<1>1. /\ req[r].at = "cancelSave" /\ enrollment' = req[r].row
      /\ req[r].row \in Enrollment /\ WellPaid(req[r].row) /\ enrollment \in Enrollment
      /\ UNCHANGED <<count, lesson, progress, activeToday, attempts, passed, certificate, cohortMember,
                     purchase, overlaps, failures>>
  BY DEF CancelSave, At, Goes, study, Sound, Request, RowsTyped
<1>2. PICK next : Becomes(r, next) /\ GoesOn(next, req[r], "decrement")
  BY GoingOn DEF CancelSave, Places
<1>3. next.at = "decrement" /\ next.row = req[r].row /\ next.cohort = req[r].cohort
  BY <1>2 DEF GoesOn
<1>4. RowsTyped' BY <1>1 DEF RowsTyped
<1>5. ASSUME Knows(req[r]) PROVE Knows(next)' /\ enrollment.status = "ACTIVE" /\ enrollment'.status = "CANCELLED"
                                 /\ enrollment'.cohort = enrollment.cohort
                                 /\ enrollment'.purchase = enrollment.purchase
                                 /\ (enrollment.cohort => req[r].cohort \/ Refunded(enrollment))
  BY <1>1, <1>3, <1>5, CancelledRow DEF Knows, Studying
<1>6. ASSUME Knows(req[r]), Settles(req[r]) PROVE Settles(next)'
  BY <1>1, <1>3, <1>5, <1>6
     DEF Settles, CountFollows, CohortFollows, PurchaseIsPaid, WasEarned, LastLessonCompletes,
         Accessible, Grants, Refunded, NoLessonRemoved, CompletedLessons, Present
<1> QED BY <1>1, <1>2, <1>3, <1>4, <1>5, <1>6, StepKeeps DEF Under

LEMMA DecrementKeeps ==
  ASSUME EnrollmentInvariant, NEW r \in Requests, Decrement(r)
  PROVE  EnrollmentInvariant'
<1> USE TypesOf DEF EnrollmentInvariant
<1>1. /\ req[r].at = "decrement" /\ count' = count - 1 /\ count \in Int
      /\ UNCHANGED <<enrollment, lesson, progress, activeToday, attempts, passed, certificate,
                     cohortMember, purchase, overlaps, failures>>
  BY DEF Decrement, At, Goes, study, RowsTyped
<1>2. RowsTyped' BY <1>1 DEF RowsTyped
<1>3. ASSUME NEW next, Becomes(r, next), next.at = "leave" \/ (next.at = "idle" /\ ~req[r].cohort),
             next.row \in {NoRow, req[r].row}
      PROVE  EnrollmentInvariant'
  <2>1. Knows(next)' BY <1>3 DEF Knows, Studying
  <2>2. ASSUME Settles(req[r]) PROVE Settles(next)'
    BY <1>1, <1>3, <2>2
       DEF Settles, CountFollows, CohortFollows, PurchaseIsPaid, WasEarned, LastLessonCompletes,
           Accessible, Refunded, NoLessonRemoved, CompletedLessons, Present
  <2> QED BY <1>1, <1>2, <1>3, <2>1, <2>2, NullsHaveTypes, StepKeeps DEF Under
<1>4. CASE Finish(r) /\ ~req[r].cohort BY <1>3, <1>4, NullsHaveTypes, Finishing
<1>5. CASE Continue(r, "leave")
  <2>1. PICK next : Becomes(r, next) /\ GoesOn(next, req[r], "leave")
    BY <1>5, GoingOn DEF Places
  <2> QED BY <1>3, <2>1 DEF GoesOn
<1> QED BY <1>4, <1>5 DEF Decrement, Leaves

LEMMA LeaveWithEnrollmentKeeps ==
  ASSUME EnrollmentInvariant, NEW r \in Requests, LeaveWithEnrollment(r)
  PROVE  EnrollmentInvariant'
<1> USE TypesOf DEF EnrollmentInvariant
<1>1. Becomes(r, Idle) BY Finishing DEF LeaveWithEnrollment
<1>2. /\ req[r].at = "leave" /\ cohortMember' = FALSE
      /\ UNCHANGED <<enrollment, count, lesson, progress, activeToday, attempts, passed, certificate,
                     purchase, overlaps, failures>>
  BY DEF LeaveWithEnrollment, At, Goes, study
<1>3. RowsTyped' BY <1>2 DEF RowsTyped
<1>4. ASSUME Settles(req[r]) PROVE Settles(Idle)'
  BY <1>2, <1>4, NullsHaveTypes
     DEF Settles, CountFollows, CohortFollows, PurchaseIsPaid, WasEarned, LastLessonCompletes,
         Accessible, NoLessonRemoved, CompletedLessons, Present
<1> QED BY <1>1, <1>2, <1>3, <1>4, NullsHaveTypes, IdleKnows, StepKeeps DEF Under
-----------------------------------------------------------------------------
(* Progress.                                                               *)
LEMMA SettingsKept ==
  ASSUME NEW q, NEW next, Settles(q), UNCHANGED <<enrollment, count, lesson, progress, certificate,
                                                  cohortMember, purchase>>,
         q.at \notin {"leave", "decrement", "increment", "cancelSave", "refundRead"},
         next.at \notin {"increment", "decrement"},
         \/ q.at \notin {"activity", "insertDay", "refresh", "refreshSave", "complete"}
         \/ q.at = "activity" /\ next.at \in {"insertDay", "refresh"}
         \/ q.at = "insertDay" /\ next.at = "refresh"
  PROVE  Settles(next)'
BY DEF Settles, CountFollows, CohortFollows, PurchaseIsPaid, WasEarned, LastLessonCompletes,
       Accessible, Refunded, NoLessonRemoved, CompletedLessons, Present

LEMMA LoadDoes ==
  ASSUME EnrollmentInvariant, NEW r \in Requests, NEW l \in Lessons, NEW to \in ProgressStatus,
         Load(r, l, to), UNCHANGED rows
  PROVE  \E next :
           /\ Becomes(r, next)
           /\ \/ next = Idle
              \/ /\ next.at = "saveProgress" /\ next.row = enrollment /\ MaySave(next)' /\ Knows(next)'
<1> USE TypesOf DEF EnrollmentInvariant
<1>1. CASE Finish(r) BY <1>1, Finishing
<1>2. ASSUME l \in Present, Accessible, to = "COMPLETED" => QuizGate(l),
             req' = [req EXCEPT ![r] = [Idle EXCEPT !.at = "saveProgress", !.row = enrollment,
                                          !.lesson = l, !.was = progress[l], !.to = to]]
      PROVE  \E next : /\ Becomes(r, next) /\ next.at = "saveProgress" /\ next.row = enrollment
                       /\ MaySave(next)' /\ Knows(next)'
  <2>1. PICK next : next = [Idle EXCEPT !.at = "saveProgress", !.row = enrollment,
                                        !.lesson = l, !.was = progress[l], !.to = to]
    OBVIOUS
  <2>2. /\ next.at = "saveProgress" /\ next.row = enrollment /\ next.lesson = l
        /\ next.was = progress[l] /\ next.to = to
    BY <2>1 DEF Idle
  <2>3. enrollment \in Enrollment /\ WellPaid(enrollment) /\ progress[l] \in ProgressStatus
    BY DEF RowsTyped
  <2>4. next \in Request BY <2>1, <2>3, NullsHaveTypes DEF Sound, Request, Places
  <2>5. Becomes(r, next) BY <1>2, <2>1, <2>2, <2>3, <2>4 DEF Becomes, Sound
  <2>6. MaySave(next)
    <3>1. lesson[l] = "THERE" BY <1>2 DEF Present
    <3>2. ASSUME lesson[QuizLesson] = "THERE", Gated(l), "COMPLETED" \in {progress[l], to}
          PROVE  passed
      <4>1. CASE progress[l] = "COMPLETED" BY <3>2, <4>1 DEF GatesInvariant, GatedWerePassed
      <4>2. CASE to = "COMPLETED"
        <5>1. QuizLesson \in Present /\ QuizLesson \in Nat /\ \A m \in Present : m \in Nat
          BY <3>2, QuizAssumption, LessonAssumption DEF Present, Lessons
        <5>2. l = QuizLesson \/ IsBefore(QuizLesson, l) BY <3>2, <5>1 DEF Gated, IsBefore
        <5> QED BY <1>2, <4>2, <5>2 DEF QuizGate
      <4> QED BY <3>2, <4>1, <4>2
    <3> QED BY <2>2, <3>1, <3>2 DEF MaySave
  <2>7. MaySave(next)' BY <2>6 DEF MaySave, rows, study
  <2>8. Knows(next)' BY <1>2, <2>2 DEF Knows, Studying, rows, study, Accessible
  <2> QED BY <2>2, <2>5, <2>7, <2>8
<1> QED BY <1>1, <1>2 DEF Load

LEMMA UpdateProgressKeeps ==
  ASSUME EnrollmentInvariant, NEW r \in Requests, NEW l \in Lessons,
         NEW to \in {"IN_PROGRESS", "COMPLETED"}, UpdateProgress(r, l, to)
  PROVE  EnrollmentInvariant'
<1> USE TypesOf DEF EnrollmentInvariant
<1>1. req[r] = Idle /\ Arrives /\ UNCHANGED <<rows, failures>> /\ Load(r, l, to)
  BY DEF UpdateProgress, Under, Sound
<1>2. PICK next :
        /\ Becomes(r, next)
        /\ \/ next = Idle
           \/ next.at = "saveProgress" /\ next.row = enrollment /\ MaySave(next)' /\ Knows(next)'
  BY <1>1, LoadDoes DEF ProgressStatus
<1>3. RowsTyped' BY <1>1, ArrivesType DEF RowsTyped, rows, study
<1>4. Knows(next)' BY <1>2, IdleKnows
<1>5. Settles(req[r]) => Settles(next)' BY <1>1, <1>2, NullsHaveTypes, SettingsKept DEF rows, study
<1> QED BY <1>1, <1>2, <1>3, <1>4, <1>5, NullsHaveTypes, StepKeeps DEF rows, study

LEMMA UpdateAfterAttemptKeeps ==
  ASSUME EnrollmentInvariant, NEW r \in Requests, UpdateAfterAttempt(r)
  PROVE  EnrollmentInvariant'
<1> USE TypesOf DEF EnrollmentInvariant
<1>1. /\ req[r].at = "update" /\ UNCHANGED <<rows, overlaps, failures>>
      /\ Load(r, req[r].lesson, req[r].to) /\ req[r].lesson \in Lessons /\ req[r].to \in ProgressStatus
  BY DEF UpdateAfterAttempt, At, Goes, Sound, Request
<1>2. PICK next :
        /\ Becomes(r, next)
        /\ \/ next = Idle
           \/ next.at = "saveProgress" /\ next.row = enrollment /\ MaySave(next)' /\ Knows(next)'
  BY <1>1, LoadDoes
<1>3. RowsTyped' BY <1>1 DEF RowsTyped, rows, study
<1>4. Knows(next)' BY <1>2, IdleKnows
<1>5. Settles(req[r]) => Settles(next)' BY <1>1, <1>2, NullsHaveTypes, SettingsKept DEF rows, study
<1> QED BY <1>1, <1>2, <1>3, <1>4, <1>5, NullsHaveTypes, StepKeeps DEF rows, study, Under
LEMMA SaveProgressKeeps ==
  ASSUME EnrollmentInvariant, NEW r \in Requests, SaveProgress(r)
  PROVE  EnrollmentInvariant'
<1> USE TypesOf DEF EnrollmentInvariant
<1>0. PICK l, status : l = req[r].lesson /\ status = StatusAfter(req[r].was, req[r].to) OBVIOUS
<1>1. /\ req[r].at = "saveProgress" /\ l \in Lessons /\ status \in ProgressStatus
      /\ UNCHANGED <<enrollment, count, lesson, activeToday, attempts, passed, certificate, cohortMember,
                     purchase, overlaps, failures>>
  BY <1>0 DEF SaveProgress, StatusAfter, At, Goes, Sound, Request
<1>2. CASE Finish(r) /\ UNCHANGED progress
  <2>1. Becomes(r, Idle) BY <1>2, Finishing
  <2>2. RowsTyped' BY <1>1, <1>2 DEF RowsTyped
  <2>3. Settles(req[r]) => Settles(Idle)' BY <1>1, <1>2, NullsHaveTypes, SettingsKept
  <2> QED BY <1>1, <1>2, <2>1, <2>2, <2>3, NullsHaveTypes, IdleKnows, StepKeeps DEF Under
<1>3. CASE /\ l \in Present /\ progress' = [progress EXCEPT ![l] = status] /\ Continue(r, "activity")
  <2>1. PICK next : Becomes(r, next) /\ GoesOn(next, req[r], "activity")
    BY <1>3, GoingOn DEF Places
  <2>2. next.at = "activity" /\ next.row = req[r].row BY <2>1 DEF GoesOn
  <2>3. progress'[l] = status /\ \A k \in Lessons \ {l} : progress'[k] = progress[k]
    BY <1>1, <1>3 DEF RowsTyped
  <2>4. RowsTyped' BY <1>1, <1>3 DEF RowsTyped
  <2>5. LessonsInOrder' BY <1>1, <1>3, <2>3 DEF GatesInvariant, LessonsInOrder, Present
  <2>6. GatedWerePassed'
    <3>1. MaySave(req[r]) BY DEF GatesInvariant
    <3>2. status = "COMPLETED" => "COMPLETED" \in {req[r].was, req[r].to} BY <1>0 DEF StatusAfter
    <3>3. lesson[QuizLesson] = "THERE" /\ Gated(l) /\ status = "COMPLETED" => passed
      BY <1>0, <1>1, <3>1, <3>2 DEF MaySave
    <3> QED BY <1>1, <2>3, <3>3 DEF GatesInvariant, GatedWerePassed
  <2>7. \A q \in Requests : MaySave(req[q])'
    <3>1. req'[r] = next /\ \A q \in Requests \ {r} : req'[q] = req[q] BY <2>1, <2>4, TypedKept
    <3> QED BY <1>1, <2>2, <3>1 DEF GatesInvariant, MaySave
  <2>8. GatesInvariant' BY <2>5, <2>6, <2>7 DEF GatesInvariant
  <2>9. AttemptsWithinBudget' BY <1>1, <2>1, <2>2, AttemptsAside
  <2>10. CertificateFollows' BY <1>1, <2>1, <2>2, CertificateAside DEF SomeoneCompleted
  <2>11. Knows(req[r]) => Knows(next)' BY <1>1, <2>2 DEF Knows, Studying, Accessible
  <2>12. Settles(req[r]) => Settles(next)'
    BY <1>1, <2>2 DEF Settles, CountFollows, CohortFollows, PurchaseIsPaid, WasEarned,
                      LastLessonCompletes, Accessible, Refunded
  <2> QED BY <1>1, <2>1, <2>4, <2>8, <2>9, <2>10, <2>11, <2>12, SoleStepKeeps DEF Under
<1> QED BY <1>0, <1>2, <1>3 DEF SaveProgress

LEMMA RecordActivityKeeps ==
  ASSUME EnrollmentInvariant, NEW r \in Requests, RecordActivity(r)
  PROVE  EnrollmentInvariant'
<1> USE TypesOf DEF EnrollmentInvariant
<1>1. req[r].at = "activity" /\ UNCHANGED <<rows, overlaps, failures>>
  BY DEF RecordActivity, At, Goes
<1>2. PICK next : /\ Becomes(r, next) /\ next.row = req[r].row
                  /\ next.at = "refresh" \/ (next.at = "insertDay" /\ ~activeToday)
  <2>1. CASE activeToday /\ Continue(r, "refresh") BY <2>1, GoingOn DEF Places, GoesOn
  <2>2. CASE ~activeToday /\ Continue(r, "insertDay") BY <2>2, GoingOn DEF Places, GoesOn
  <2> QED BY <2>1, <2>2 DEF RecordActivity
<1>3. RowsTyped' BY <1>1 DEF RowsTyped, rows, study
<1>4. Knows(req[r]) => Knows(next)' BY <1>1, <1>2 DEF Knows, Studying, Accessible, rows, study
<1>5. Settles(req[r]) => Settles(next)' BY <1>1, <1>2, SettingsKept DEF rows, study
<1> QED BY <1>1, <1>2, <1>3, <1>4, <1>5, StepKeeps DEF rows, study, Under

LEMMA InsertActivityDayKeeps ==
  ASSUME EnrollmentInvariant, NEW r \in Requests, InsertActivityDay(r)
  PROVE  EnrollmentInvariant'
<1> USE TypesOf DEF EnrollmentInvariant
<1>1. /\ req[r].at = "insertDay" /\ activeToday' = TRUE
      /\ UNCHANGED <<enrollment, count, lesson, progress, attempts, passed, certificate, cohortMember,
                     purchase, overlaps, failures>>
  BY DEF InsertActivityDay, At, Goes
<1>2. RowsTyped' BY <1>1 DEF RowsTyped
<1>3. CASE activeToday /\ Finish(r)
  <2>1. Becomes(r, Idle) BY <1>3, Finishing
  <2>2. ~Knows(req[r]) BY <1>1, <1>3 DEF Knows
  <2> QED BY <1>1, <1>2, <2>1, <2>2, NullsHaveTypes, StepKeeps DEF Under
<1>4. CASE Continue(r, "refresh")
  <2>1. PICK next : Becomes(r, next) /\ next.at = "refresh" /\ next.row = req[r].row
    BY <1>4, GoingOn DEF Places, GoesOn
  <2>2. Knows(req[r]) => Knows(next)' BY <1>1, <2>1 DEF Knows, Studying, Accessible
  <2>3. Settles(req[r]) => Settles(next)' BY <1>1, <2>1, SettingsKept
  <2> QED BY <1>1, <1>2, <2>1, <2>2, <2>3, StepKeeps DEF Under
<1> QED BY <1>3, <1>4 DEF InsertActivityDay

(* A course of which no lesson was deleted has lessons that can be counted. *)
LEMMA LessonsAreCounted ==
  ASSUME Typed, GatesInvariant, NoLessonRemoved, CompletedLessons = Present
  PROVE  Present # {} /\ AllCompleted
<1>1. 1 \in Present
  BY TypesOf, LessonAssumption DEF GatesInvariant, LessonsInOrder, NoLessonRemoved, Present, Lessons,
                                   RowsTyped
<1>2. IsFiniteSet(Lessons) BY LessonAssumption, FS_Interval DEF Lessons
<1>3. Cardinality(Present) \in Nat BY <1>2, FS_Subset, FS_CardinalityType DEF Present
<1> QED BY <1>1, <1>3 DEF AllCompleted

LEMMA RefreshEnrollmentKeeps ==
  ASSUME EnrollmentInvariant, NEW r \in Requests, RefreshEnrollment(r)
  PROVE  EnrollmentInvariant'
<1> USE TypesOf DEF EnrollmentInvariant
<1>1. /\ req[r].at = "refresh" /\ UNCHANGED <<rows, overlaps, failures>> /\ req[r] \in Request
      /\ WellPaid(req[r].row)
  BY DEF RefreshEnrollment, At, Goes, Sound
<1>2. PICK finished \in BOOLEAN : finished = (Present # {} /\ AllCompleted) OBVIOUS
<1>3. PICK next : next = [req[r] EXCEPT !.at = "refreshSave", !.finished = finished] OBVIOUS
<1>4. next.at = "refreshSave" /\ next.finished = finished /\ next.row = req[r].row
  BY <1>1, <1>3 DEF Request
<1>5. next \in Request BY <1>1, <1>2, <1>3 DEF Request, Places
<1>6. Becomes(r, next)
  BY <1>1, <1>2, <1>3, <1>4, <1>5 DEF RefreshEnrollment, Becomes, Sound
<1>7. RowsTyped' BY <1>1 DEF RowsTyped, rows, study
<1>8. Knows(req[r]) => Knows(next)' BY <1>1, <1>4 DEF Knows, Studying, Accessible, rows, study
<1>9. ASSUME Settles(req[r]) PROVE Settles(next)'
  <2>1. LastLessonCompletes(next)'
    <3>1. NoLessonRemoved /\ CompletedLessons = Present => next.finished
      BY <1>2, <1>4, LessonsAreCounted
    <3> QED
      BY <1>1, <1>4, <3>1 DEF LastLessonCompletes, NoLessonRemoved, CompletedLessons, Present, rows, study
  <2> QED
    BY <1>1, <1>4, <1>9, <2>1
       DEF Settles, CountFollows, CohortFollows, PurchaseIsPaid, WasEarned, Accessible, Refunded,
           rows, study
<1> QED BY <1>1, <1>4, <1>6, <1>7, <1>8, <1>9, StepKeeps DEF rows, study, Under

LEMMA RefreshSaveKeeps ==
  ASSUME EnrollmentInvariant, NEW r \in Requests, RefreshSave(r)
  PROVE  EnrollmentInvariant'
<1> USE TypesOf DEF EnrollmentInvariant
<1>1. /\ req[r].at = "refreshSave" /\ enrollment' = req[r].row
      /\ req[r].row \in Enrollment /\ WellPaid(req[r].row)
      /\ UNCHANGED <<count, lesson, progress, activeToday, attempts, passed, certificate, cohortMember,
                     purchase, overlaps, failures>>
  BY DEF RefreshSave, At, Goes, study, Sound, Request
<1>2. RowsTyped' BY <1>1 DEF RowsTyped
<1>3. PICK next :
        /\ Becomes(r, next)
        /\ \/ /\ next.at = "complete" /\ next.row = req[r].row /\ req[r].row.status = "ACTIVE"
           \/ next = Idle /\ ~(req[r].finished /\ req[r].row.status = "ACTIVE")
  <2>1. CASE Continue(r, "complete") /\ req[r].row.status = "ACTIVE"
    BY <2>1, GoingOn DEF Places, GoesOn
  <2>2. CASE Finish(r) /\ ~(req[r].finished /\ req[r].row.status = "ACTIVE")
    BY <2>2, Finishing
  <2> QED BY <2>1, <2>2 DEF RefreshSave
<1>4. ASSUME Knows(req[r]) PROVE Knows(next)' /\ enrollment' = enrollment /\ Accessible
  BY <1>1, <1>3, <1>4, NullsHaveTypes DEF Knows, Studying, Accessible
<1>5. ASSUME Knows(req[r]), Settles(req[r]) PROVE Settles(next)'
  <2>1. LastLessonCompletes(next)'
    <3>1. enrollment.status # "COMPLETED" => enrollment.status = "ACTIVE"
      BY <1>4, <1>5 DEF Accessible, Grants
    <3> QED
      BY <1>1, <1>3, <1>4, <1>5, <3>1
         DEF Settles, LastLessonCompletes, NoLessonRemoved, CompletedLessons, Present
  <2> QED
    BY <1>1, <1>3, <1>4, <1>5, <2>1, NullsHaveTypes
       DEF Settles, CountFollows, CohortFollows, PurchaseIsPaid, WasEarned, Accessible, Refunded
<1> QED BY <1>1, <1>2, <1>3, <1>4, <1>5, NullsHaveTypes, StepKeeps DEF Under

LEMMA MarkCompletedKeeps ==
  ASSUME EnrollmentInvariant, NEW r \in Requests, MarkCompleted(r)
  PROVE  EnrollmentInvariant'
<1> USE TypesOf DEF EnrollmentInvariant
<1>1. /\ req[r].at = "complete" /\ enrollment' = CompletedRow(req[r].row)
      /\ UNCHANGED <<count, lesson, progress, activeToday, attempts, passed, certificate, cohortMember,
                     purchase, overlaps, failures>>
  BY DEF MarkCompleted, At, Goes, study
<1>2. PICK next : Becomes(r, next) /\ next.at = "issue"
  BY GoingOn DEF MarkCompleted, AfterCompletion, Places, GoesOn
<1>3. req[r].row \in Enrollment /\ WellPaid(req[r].row) BY DEF Sound, Request
<1>4. enrollment'.status = "COMPLETED" /\ RowsTyped'
  BY <1>1, <1>3 DEF CompletedRow, RowsTyped, Enrollment, WellPaid
<1>5. GatesInvariant' BY <1>1, <1>2, GatesAside
<1>6. AttemptsWithinBudget' BY <1>1, <1>2, AttemptsAside
<1>7. CertificateFollows'
  <2>1. req'[r] = next BY <1>2, <1>4, TypedKept
  <2> QED BY <1>2, <2>1 DEF CertificateFollows, Certified, At
<1>8. Knows(next)' BY <1>2, <1>4 DEF Knows, Studying
<1>9. ASSUME Knows(req[r]), Settles(req[r]) PROVE Settles(next)'
  <2>1. Accessible BY <1>1, <1>9 DEF Knows, Studying
  <2> QED
    BY <1>1, <1>2, <1>4, <1>9, <2>1
       DEF Settles, CountFollows, CohortFollows, PurchaseIsPaid, WasEarned, LastLessonCompletes,
           Accessible, Grants
<1> QED BY <1>1, <1>2, <1>4, <1>5, <1>6, <1>7, <1>8, <1>9, SoleStepKeeps DEF Under

LEMMA IssueForEnrollmentKeeps ==
  ASSUME EnrollmentInvariant, NEW r \in Requests, IssueForEnrollment(r)
  PROVE  EnrollmentInvariant'
<1> USE TypesOf DEF EnrollmentInvariant
<1>1. /\ req[r].at = "issue" /\ certificate' = IF certificate = "NONE" THEN "VALID" ELSE certificate
      /\ UNCHANGED <<enrollment, count, lesson, progress, activeToday, attempts, passed, cohortMember,
                     purchase, overlaps, failures>>
  BY DEF IssueForEnrollment, At, Goes, study
<1>2. Becomes(r, Idle) BY Finishing DEF IssueForEnrollment
<1>3. RowsTyped' /\ certificate' # "NONE" BY <1>1 DEF RowsTyped, Certificate
<1>4. GatesInvariant' BY <1>1, <1>2, NullsHaveTypes, GatesAside
<1>5. AttemptsWithinBudget' BY <1>1, <1>2, NullsHaveTypes, AttemptsAside
<1>6. CertificateFollows' BY <1>3 DEF CertificateFollows, Certified
<1>7. ASSUME Knows(req[r]), Settles(req[r]) PROVE Settles(Idle)'
  <2>1. enrollment.status = "COMPLETED" BY <1>1, <1>7 DEF Knows
  <2> QED
    BY <1>1, <1>7, <2>1, NullsHaveTypes
       DEF Settles, CountFollows, CohortFollows, PurchaseIsPaid, WasEarned, LastLessonCompletes,
           Accessible, Grants
<1> QED BY <1>1, <1>2, <1>3, <1>4, <1>5, <1>6, <1>7, IdleKnows, SoleStepKeeps DEF Under
-----------------------------------------------------------------------------
(* Attempts and certificates.                                              *)
LEMMA RequestsAreCounted ==
  ASSUME Typed
  PROVE  /\ IsFiniteSet(Requests) /\ Cardinality(Requests) \in Nat /\ Cardinality(Requests) > 0
         /\ \A saving \in SUBSET Requests :
              /\ IsFiniteSet(saving) /\ Cardinality(saving) \in Nat
              /\ Cardinality(saving) <= Cardinality(Requests)
         /\ attempts \in Nat /\ MaxAttempts \in Nat
<1>1. Cardinality(Requests) # 0 BY RequestAssumption, FS_EmptySet
<1> QED BY <1>1, RequestAssumption, QuizAssumption, FS_Subset, FS_CardinalityType DEF Typed, TypeOK

LEMMA SubmitAttemptKeeps ==
  ASSUME EnrollmentInvariant, NEW r \in Requests, NEW passes \in BOOLEAN, SubmitAttempt(r, passes)
  PROVE  EnrollmentInvariant'
<1> USE TypesOf DEF EnrollmentInvariant
<1>1. /\ req[r] = Idle /\ Arrives /\ UNCHANGED <<rows, failures>>
      /\ MaxAttempts = 0 \/ attempts < MaxAttempts
  BY DEF SubmitAttempt, Under, Sound, WithinBudget
<1>2. PICK to \in ProgressStatus : to = IF passes THEN "COMPLETED" ELSE "IN_PROGRESS"
  BY DEF ProgressStatus
<1>3. PICK next : next = [Idle EXCEPT !.at = "saveAttempt", !.lesson = QuizLesson, !.to = to] OBVIOUS
<1>4. next.at = "saveAttempt" /\ next.row = NoRow BY <1>3 DEF Idle
<1>5. next \in Request BY <1>2, <1>3, NullsHaveTypes, QuizAssumption DEF Sound, Request, Places
<1>6. Becomes(r, next)
  BY <1>1, <1>2, <1>3, <1>4, <1>5, NullsHaveTypes DEF SubmitAttempt, Becomes, Sound
<1>7. RowsTyped' BY <1>1, ArrivesType DEF RowsTyped, rows, study
<1>8. GatesInvariant' BY <1>1, <1>4, <1>6, GatesAside DEF rows, study
<1>9. AttemptsWithinBudget'
  <2>1. SavingAttempt' \in SUBSET Requests BY DEF SavingAttempt
  <2>2. attempts' = attempts BY <1>1 DEF rows, study
  <2> HIDE DEF SavingAttempt
  <2> QED BY <1>1, <2>1, <2>2, RequestsAreCounted DEF AttemptsWithinBudget
<1>10. CertificateFollows'
  BY <1>1, <1>4, <1>6, NullsHaveTypes, CertificateAside DEF rows, SomeoneCompleted
<1>11. Knows(next)' BY <1>4 DEF Knows, Studying
<1>12. Settles(req[r]) => Settles(next)' BY <1>1, <1>4, NullsHaveTypes, SettingsKept DEF rows, study
<1> QED BY <1>1, <1>6, <1>7, <1>8, <1>9, <1>10, <1>11, <1>12, SoleStepKeeps

LEMMA SaveAttemptKeeps ==
  ASSUME EnrollmentInvariant, NEW r \in Requests, SaveAttempt(r)
  PROVE  EnrollmentInvariant'
<1> USE TypesOf DEF EnrollmentInvariant
<1>1. /\ req[r].at = "saveAttempt"
      /\ UNCHANGED <<enrollment, count, lesson, progress, activeToday, certificate, cohortMember, purchase,
                     overlaps, failures>>
  BY DEF SaveAttempt, At, Goes
<1>2. CASE Finish(r) /\ UNCHANGED <<attempts, passed>>
  <2>1. Becomes(r, Idle) BY <1>2, Finishing
  <2>2. RowsTyped' BY <1>1, <1>2 DEF RowsTyped
  <2>3. Settles(req[r]) => Settles(Idle)' BY <1>1, NullsHaveTypes, SettingsKept
  <2> QED BY <1>1, <1>2, <2>1, <2>2, <2>3, NullsHaveTypes, IdleKnows, StepKeeps DEF Under
<1>3. CASE /\ attempts' = attempts + 1 /\ passed' = (passed \/ req[r].to = "COMPLETED")
           /\ Continue(r, "update")
  <2>1. PICK next : Becomes(r, next) /\ next.at = "update" /\ next.row = req[r].row
    BY <1>3, GoingOn DEF Places, GoesOn
  <2>2. RowsTyped' BY <1>1, <1>3 DEF RowsTyped
  <2>3. GatesInvariant' BY <1>1, <1>3, <2>1, GatesAside
  <2>4. AttemptsWithinBudget'
    <3>1. SavingAttempt \in SUBSET Requests /\ r \in SavingAttempt /\ SavingAttempt' = SavingAttempt \ {r}
      BY <1>1, <2>1, <2>2, TypedKept DEF SavingAttempt, At
    <3> HIDE DEF SavingAttempt
    <3>2. Cardinality(SavingAttempt') = Cardinality(SavingAttempt) - 1
      BY <3>1, RequestsAreCounted, FS_RemoveElement
    <3> QED BY <1>3, <3>1, <3>2, RequestsAreCounted DEF AttemptsWithinBudget
  <2>5. CertificateFollows' BY <1>1, <2>1, CertificateAside DEF SomeoneCompleted
  <2>6. Knows(next)' BY <2>1 DEF Knows, Studying
  <2>7. Settles(req[r]) => Settles(next)' BY <1>1, <2>1, SettingsKept
  <2> QED BY <1>1, <2>1, <2>2, <2>3, <2>4, <2>5, <2>6, <2>7, SoleStepKeeps DEF Under
<1> QED BY <1>2, <1>3 DEF SaveAttempt

LEMMA ReissueKeeps ==
  ASSUME EnrollmentInvariant, NEW r \in Requests, Reissue(r)
  PROVE  EnrollmentInvariant'
<1> USE TypesOf DEF EnrollmentInvariant
<1>1. req[r] = Idle /\ Arrives /\ UNCHANGED <<rows, failures>> /\ certificate # "NONE"
  BY DEF Reissue, Under, Sound
<1>2. PICK finished \in BOOLEAN : finished = (certificate = "REVOKED") OBVIOUS
<1>3. PICK next : next = [Idle EXCEPT !.at = "reissueSave", !.finished = finished] OBVIOUS
<1>4. next.at = "reissueSave" /\ next.row = NoRow /\ next.finished = finished BY <1>3 DEF Idle
<1>5. next \in Request BY <1>3, NullsHaveTypes DEF Sound, Request, Places
<1>6. Becomes(r, next)
  BY <1>1, <1>2, <1>3, <1>4, <1>5, NullsHaveTypes DEF Reissue, Becomes, Sound
<1>7. RowsTyped' BY <1>1, ArrivesType DEF RowsTyped, rows, study
<1>8. Knows(next)' BY <1>1, <1>2, <1>4 DEF Knows, Studying, rows
<1>9. Settles(req[r]) => Settles(next)' BY <1>1, <1>4, NullsHaveTypes, SettingsKept DEF rows, study
<1> QED BY <1>1, <1>4, <1>6, <1>7, <1>8, <1>9, NullsHaveTypes, StepKeeps DEF rows, study

LEMMA ReissueSaveKeeps ==
  ASSUME EnrollmentInvariant, NEW r \in Requests, ReissueSave(r)
  PROVE  EnrollmentInvariant'
<1> USE TypesOf DEF EnrollmentInvariant
<1>1. /\ req[r].at = "reissueSave" /\ certificate' \in {"VALID", "REVOKED"}
      /\ UNCHANGED <<enrollment, count, lesson, progress, activeToday, attempts, passed, cohortMember,
                     purchase, overlaps, failures>>
  BY DEF ReissueSave, Reissued, At, Goes, study
<1>2. Becomes(r, Idle) BY Finishing DEF ReissueSave
<1>3. RowsTyped' BY <1>1 DEF RowsTyped, Certificate
<1>4. ASSUME Knows(req[r]), Settles(req[r]) PROVE Settles(Idle)'
  <2>1. certificate # "NONE" BY <1>1, <1>4 DEF Knows
  <2> QED
    BY <1>1, <1>4, <2>1, NullsHaveTypes
       DEF Settles, CountFollows, CohortFollows, PurchaseIsPaid, WasEarned, LastLessonCompletes,
           Accessible, Refunded, NoLessonRemoved, CompletedLessons, Present
<1> QED BY <1>1, <1>2, <1>3, <1>4, NullsHaveTypes, IdleKnows, StepKeeps DEF Under

(* A handler that fails leaves its writes, and later promises less.        *)
LEMMA FailKeeps ==
  ASSUME EnrollmentInvariant, NEW r \in Requests, Fail(r)
  PROVE  EnrollmentInvariant'
<1> USE TypesOf DEF EnrollmentInvariant
<1>1. UNCHANGED <<rows, overlaps>> /\ Under(r) /\ failures' = failures + 1 /\ failures \in Nat
  BY DEF Fail, RowsTyped
<1>2. Becomes(r, Idle) BY Finishing DEF Fail
<1>3. RowsTyped' /\ failures' # 0 BY <1>1 DEF RowsTyped, rows, study
<1>4. Typed' BY <1>2, <1>3, TypedKept
<1>5. GatesInvariant' BY <1>1, <1>2, NullsHaveTypes, GatesAside DEF rows, study
<1>6. AttemptsWithinBudget' BY <1>1, <1>2, NullsHaveTypes, AttemptsAside DEF rows, study
<1>7. CertificateFollows' BY <1>3 DEF CertificateFollows
<1>8. Follows(Idle)' BY <1>3, IdleKnows DEF Follows
<1>9. OneFollows' BY <1>1, <1>2, <1>4, <1>8, OneGoesOn
<1> QED BY <1>4, <1>5, <1>6, <1>7, <1>9

-----------------------------------------------------------------------------
(* What happens beside the requests.                                       *)
LEMMA BesideKeeps ==
  ASSUME EnrollmentInvariant, UNCHANGED <<req, enrollment, failures>>, Arrives, RowsTyped',
         GatesInvariant', AttemptsWithinBudget', certificate # "NONE" => certificate' # "NONE",
         Settles(Idle) => Settles(Idle)'
  PROVE  EnrollmentInvariant'
<1> USE DEF EnrollmentInvariant
<1>1. Typed' BY TypesOf DEF RowsTyped, Typed, TypeOK
<1>2. CertificateFollows' BY DEF CertificateFollows, Certified, SomeoneCompleted, At
<1>3. OneFollows'
  <2> SUFFICES ASSUME overlaps' = 0 PROVE \A q \in Requests : req'[q] = Idle /\ Follows(Idle)'
    BY NullsHaveTypes DEF OneFollows, Under
  <2>1. overlaps = 0 /\ \A q \in Requests : ~Under(q) BY ArrivesType
  <2>2. \A q \in Requests : req[q] = Idle BY <2>1, TypesOf DEF Sound, Under
  <2>3. \A q \in Requests : Follows(Idle) BY <2>1, <2>2 DEF OneFollows, OthersIdle
  <2> QED BY <2>2, <2>3, IdleKnows DEF Follows
<1> QED BY <1>1, <1>2, <1>3

LEMMA CohortsAndRevocationsKeep ==
  ASSUME EnrollmentInvariant, JoinCohort \/ LeaveCohort \/ Revoke
  PROVE  EnrollmentInvariant'
<1> USE TypesOf DEF EnrollmentInvariant
<1>1. /\ UNCHANGED <<req, enrollment, count, lesson, progress, activeToday, attempts, passed, purchase,
                     failures>>
      /\ Arrives
      /\ cohortMember' = cohortMember \/ (cohortMember' \in BOOLEAN /\ (cohortMember' => Accessible))
      /\ certificate' = certificate \/ (certificate = "VALID" /\ certificate' = "REVOKED")
  BY DEF JoinCohort, LeaveCohort, Revoke, study
<1>2. RowsTyped' BY <1>1, ArrivesType DEF RowsTyped, Certificate
<1>3. GatesInvariant'
  BY <1>1 DEF GatesInvariant, LessonsInOrder, GatedWerePassed, MaySave
<1>4. AttemptsWithinBudget' BY <1>1 DEF AttemptsWithinBudget, SavingAttempt, At
<1>5. Settles(Idle) => Settles(Idle)'
  BY <1>1 DEF Settles, CountFollows, CohortFollows, PurchaseIsPaid, WasEarned, LastLessonCompletes,
              Accessible, Refunded, NoLessonRemoved, CompletedLessons, Present
<1> QED BY <1>1, <1>2, <1>3, <1>4, <1>5, BesideKeeps

LEMMA AddLessonKeeps ==
  ASSUME EnrollmentInvariant, NEW l \in Lessons, AddLesson(l)
  PROVE  EnrollmentInvariant'
<1> USE TypesOf DEF EnrollmentInvariant
<1>1. /\ UNCHANGED <<req, enrollment, count, progress, activeToday, attempts, passed, certificate,
                     cohortMember, purchase, failures>>
      /\ Arrives /\ lesson[l] = "PLANNED" /\ lesson' = [lesson EXCEPT ![l] = "THERE"]
      /\ \A k \in Lessons : k < l => lesson[k] # "PLANNED"
  BY DEF AddLesson
<1>2. /\ RowsTyped' /\ lesson'[l] = "THERE"
      /\ \A k \in Lessons \ {l} : lesson'[k] = lesson[k]
  BY <1>1, ArrivesType DEF RowsTyped
<1>3. /\ QuizLesson \in Lessons /\ 1 \in Lessons /\ \A k \in Lessons : k \in Nat
      /\ progress[l] = "NOT_STARTED"
  BY <1>1, QuizAssumption, LessonAssumption DEF Lessons, GatesInvariant, LessonsInOrder
<1>4. LessonsInOrder' BY <1>1, <1>2, <1>3 DEF GatesInvariant, LessonsInOrder
<1>5. l = QuizLesson => \A k \in Lessons : Gated(k) => lesson[k] = "PLANNED" /\ progress[k] = "NOT_STARTED"
  BY <1>1, <1>3 DEF GatesInvariant, LessonsInOrder, Gated
<1>6. GatedWerePassed'
  BY <1>1, <1>2, <1>3, <1>5 DEF GatesInvariant, GatedWerePassed
<1>7. ASSUME NEW q \in Requests PROVE MaySave(req[q])'
  <2>1. MaySave(req[q]) /\ req[q].lesson \in Lessons BY DEF GatesInvariant, Sound, Request
  <2> QED BY <1>1, <1>2, <1>3, <1>5, <2>1 DEF MaySave
<1>8. GatesInvariant' BY <1>4, <1>6, <1>7 DEF GatesInvariant
<1>9. AttemptsWithinBudget' BY <1>1 DEF AttemptsWithinBudget, SavingAttempt, At
<1>10. Settles(Idle) => Settles(Idle)'
  <2>1. l \in Present' /\ l \notin CompletedLessons' BY <1>1, <1>2, <1>3 DEF Present, CompletedLessons
  <2>2. LastLessonCompletes(Idle)' BY <2>1 DEF LastLessonCompletes
  <2> QED
    BY <1>1, <2>2 DEF Settles, CountFollows, CohortFollows, PurchaseIsPaid, WasEarned, Accessible,
                      Refunded
<1> QED BY <1>1, <1>2, <1>8, <1>9, <1>10, BesideKeeps

LEMMA RemoveLessonKeeps ==
  ASSUME EnrollmentInvariant, NEW l \in Lessons, RemoveLesson(l)
  PROVE  EnrollmentInvariant'
<1> USE TypesOf DEF EnrollmentInvariant
<1>1. /\ UNCHANGED <<req, enrollment, count, activeToday, certificate, cohortMember, purchase, failures>>
      /\ Arrives /\ lesson[l] = "THERE" /\ lesson' = [lesson EXCEPT ![l] = "REMOVED"]
      /\ progress' = [progress EXCEPT ![l] = "NOT_STARTED"]
      /\ attempts' = IF l = QuizLesson THEN 0 ELSE attempts
      /\ passed' = (passed /\ l # QuizLesson)
  BY DEF RemoveLesson, Present
<1>2. /\ RowsTyped' /\ lesson'[l] = "REMOVED" /\ progress'[l] = "NOT_STARTED"
      /\ \A k \in Lessons \ {l} : lesson'[k] = lesson[k] /\ progress'[k] = progress[k]
  BY <1>1, ArrivesType DEF RowsTyped, ProgressStatus
<1>3. QuizLesson \in Lessons /\ 1 \in Lessons
  BY QuizAssumption, LessonAssumption DEF Lessons
<1>4. LessonsInOrder' BY <1>1, <1>2, <1>3 DEF GatesInvariant, LessonsInOrder
<1>5. lesson'[QuizLesson] = "THERE" => lesson[QuizLesson] = "THERE" /\ (passed => passed')
  BY <1>1, <1>2, <1>3
<1>6. GatedWerePassed' BY <1>2, <1>5 DEF GatesInvariant, GatedWerePassed
<1>7. ASSUME NEW q \in Requests PROVE MaySave(req[q])'
  <2>1. MaySave(req[q]) /\ req[q].lesson \in Lessons BY DEF GatesInvariant, Sound, Request
  <2> QED BY <1>1, <1>2, <1>5, <2>1 DEF MaySave
<1>8. GatesInvariant' BY <1>4, <1>6, <1>7 DEF GatesInvariant
<1>9. AttemptsWithinBudget'
  <2>1. SavingAttempt' = SavingAttempt /\ SavingAttempt \in SUBSET Requests
    BY <1>1 DEF SavingAttempt, At
  <2> HIDE DEF SavingAttempt
  <2> QED BY <1>1, <2>1, RequestsAreCounted DEF AttemptsWithinBudget
<1>10. Settles(Idle) => Settles(Idle)'
  <2>1. LastLessonCompletes(Idle)' BY <1>2 DEF LastLessonCompletes, NoLessonRemoved
  <2> QED
    BY <1>1, <2>1 DEF Settles, CountFollows, CohortFollows, PurchaseIsPaid, WasEarned, Accessible,
                      Refunded
<1> QED BY <1>1, <1>2, <1>8, <1>9, <1>10, BesideKeeps

(* Midnight waits for nobody.                                              *)
LEMMA MidnightKeeps ==
  ASSUME EnrollmentInvariant, Midnight \/ UNCHANGED vars
  PROVE  EnrollmentInvariant'
<1> USE TypesOf DEF EnrollmentInvariant
<1>1. /\ UNCHANGED <<enrollment, count, lesson, progress, attempts, passed, certificate, cohortMember,
                     purchase, req, overlaps, failures>>
      /\ activeToday' = activeToday \/ activeToday' = FALSE
  BY DEF Midnight, vars, rows, study
<1>2. Typed' BY <1>1 DEF Typed, TypeOK, RowsTyped
<1>3. GatesInvariant' BY <1>1 DEF GatesInvariant, LessonsInOrder, GatedWerePassed, MaySave
<1>4. AttemptsWithinBudget' BY <1>1 DEF AttemptsWithinBudget, SavingAttempt, At
<1>5. CertificateFollows' BY <1>1 DEF CertificateFollows, Certified, SomeoneCompleted, At
<1>6. ASSUME NEW q \in Requests, Follows(req[q]) PROVE Follows(req[q])'
  <2>1. Knows(req[q])' BY <1>1, <1>6 DEF Follows, Knows, Accessible, Refunded
  <2>2. Settles(req[q]) => Settles(req[q])'
    BY <1>1 DEF Settles, CountFollows, CohortFollows, PurchaseIsPaid, WasEarned, LastLessonCompletes,
                Accessible, Refunded, NoLessonRemoved, CompletedLessons, Present
  <2> QED BY <1>1, <1>6, <2>1, <2>2 DEF Follows
<1>7. OneFollows' BY <1>1, <1>6 DEF OneFollows, OthersIdle, Under
<1> QED BY <1>2, <1>3, <1>4, <1>5, <1>7
-----------------------------------------------------------------------------
LEMMA InitialEnrollment == Init => EnrollmentInvariant
<1> SUFFICES ASSUME Init PROVE EnrollmentInvariant OBVIOUS
<1>1. /\ enrollment = NoRow /\ count = 0 /\ attempts = 0 /\ certificate = "NONE" /\ failures = 0
      /\ \A r \in Requests : req[r] = Idle
      /\ \A l \in Lessons : progress[l] = "NOT_STARTED"
      /\ \A l \in Lessons : lesson[l] = IF l <= FirstLessons THEN "THERE" ELSE "PLANNED"
      /\ ~passed /\ ~cohortMember
  BY DEF Init
<1>2. /\ FirstLessons \in Lessons /\ 1 \in Lessons /\ 1 <= FirstLessons /\ FirstLessons \in Nat
      /\ QuizLesson \in Lessons /\ \A l \in Lessons : l \in Nat
  BY LessonAssumption, QuizAssumption DEF Lessons
<1>3. Typed
  <2>1. Idle \in Request BY NullsHaveTypes DEF Sound
  <2>2. TypeOK
    <3>1. lesson \in [Lessons -> {"PLANNED", "THERE", "REMOVED"}] BY DEF Init
    <3>2. progress \in [Lessons -> ProgressStatus] BY DEF Init, ProgressStatus
    <3>3. purchase \in [PurchaseIds -> {"OPEN", "PAID", "REFUNDED"}] BY DEF Init
    <3>4. req \in [Requests -> Request] BY <2>1 DEF Init
    <3>5. enrollment \in Enrollment /\ certificate \in Certificate BY NullsHaveTypes DEF Init, Certificate
    <3>6. count \in Int /\ attempts \in Nat /\ overlaps \in Nat /\ failures \in Nat BY DEF Init
    <3>7. activeToday \in BOOLEAN /\ passed \in BOOLEAN /\ cohortMember \in BOOLEAN BY DEF Init
    <3> QED BY <3>1, <3>2, <3>3, <3>4, <3>5, <3>6, <3>7 DEF TypeOK
  <2>3. \A r \in Requests : Sound(req[r]) BY <1>1, NullsHaveTypes
  <2> QED BY <1>1, <2>2, <2>3, NullsHaveTypes DEF Typed
<1>4. LessonsInOrder BY <1>1, <1>2 DEF LessonsInOrder
<1>5. GatesInvariant BY <1>1, <1>4, NullsHaveTypes DEF GatesInvariant, GatedWerePassed, MaySave
<1>6. AttemptsWithinBudget
  <2>1. SavingAttempt = {} BY <1>1, NullsHaveTypes DEF SavingAttempt, At
  <2>2. Cardinality(SavingAttempt) = 0 BY <2>1, FS_EmptySet
  <2> HIDE DEF SavingAttempt
  <2> QED BY <1>1, <1>3, <2>2, RequestsAreCounted DEF AttemptsWithinBudget
<1>7. CertificateFollows
  BY <1>1, NullsHaveTypes DEF CertificateFollows, SomeoneCompleted
<1>8. Settles(Idle)
  <2>1. 1 \in Present /\ 1 \notin CompletedLessons BY <1>1, <1>2 DEF Present, CompletedLessons
  <2>2. ~Accessible BY <1>1, NullsHaveTypes DEF Accessible, Grants
  <2> QED
    BY <1>1, <2>1, <2>2, NullsHaveTypes
       DEF Settles, CountFollows, CohortFollows, PurchaseIsPaid, WasEarned, LastLessonCompletes
<1>9. OneFollows BY <1>1, <1>8, IdleKnows, NullsHaveTypes DEF OneFollows, Follows, Under
<1> QED BY <1>3, <1>5, <1>6, <1>7, <1>9 DEF EnrollmentInvariant

LEMMA StepsKeepEnrollment == EnrollmentInvariant /\ [Next]_vars => EnrollmentInvariant'
<1> SUFFICES ASSUME EnrollmentInvariant, [Next]_vars PROVE EnrollmentInvariant' OBVIOUS
<1>1. ASSUME NEW r \in Requests, Step(r) PROVE EnrollmentInvariant'
  BY <1>1, EnrollFromPurchaseKeeps, SavePurchaseKeeps, ActivateSaveKeeps, IncrementKeeps,
     JoinWithEnrollmentKeeps, SaveCohortKeeps, CancelByPurchaseKeeps, CancelSaveKeeps, DecrementKeeps,
     LeaveWithEnrollmentKeeps, UpdateAfterAttemptKeeps, SaveProgressKeeps, RecordActivityKeeps,
     InsertActivityDayKeeps, RefreshEnrollmentKeeps, RefreshSaveKeeps, MarkCompletedKeeps,
     IssueForEnrollmentKeeps, SaveAttemptKeeps, ReissueSaveKeeps DEF Step
<1>2. CASE JoinCohort \/ LeaveCohort \/ Revoke BY <1>2, CohortsAndRevocationsKeep
<1>3. CASE Midnight \/ UNCHANGED vars BY <1>3, MidnightKeeps
<1> QED
  BY <1>1, <1>2, <1>3, FailKeeps, CancelKeeps, ReissueKeeps, EnrollWithSeatKeeps, SubmitAttemptKeeps,
     FulfillPurchaseKeeps, RefundPurchaseKeeps, UpdateProgressKeeps, AddLessonKeeps, RemoveLessonKeeps
  DEF Next

LEMMA EnrollmentAlways == Spec => []EnrollmentInvariant
<1> QED BY InitialEnrollment, StepsKeepEnrollment, PTL DEF Spec

(* Without overlaps or failures, and with nothing under way, every fact     *)
(* about the enrollment is settled.                                        *)
LEMMA QuietIsSettled ==
  ASSUME EnrollmentInvariant, Quiet
  PROVE  Settles(Idle)
<1>1. \A r \in Requests : req[r] = Idle
  BY TypesOf DEF EnrollmentInvariant, Quiet, Under, Sound
<1>2. \A r \in Requests : Follows(req[r])
  BY DEF EnrollmentInvariant, OneFollows, OthersIdle, Quiet
<1> QED BY <1>1, <1>2, RequestAssumption DEF Follows, Quiet

-----------------------------------------------------------------------------
(* The counter of the course counts the learner exactly while they have     *)
(* access, and a learner who cancelled has left the cohort: whenever the    *)
(* requests so far came one after another and none has failed.             *)
THEOREM EnrollmentsAlwaysCounted == Spec => []EnrollmentIsCounted
<1>1. EnrollmentInvariant => EnrollmentIsCounted
  <2> SUFFICES ASSUME EnrollmentInvariant PROVE EnrollmentIsCounted OBVIOUS
  <2>1. TypeOK BY DEF EnrollmentInvariant, Typed
  <2>2. CountMatchesAccess
    BY <2>1, QuietIsSettled, NullsHaveTypes DEF CountMatchesAccess, Settles, CountFollows, TypeOK
  <2>3. CancelLeavesCohort
    BY QuietIsSettled, NullsHaveTypes DEF CancelLeavesCohort, Settles, CohortFollows, Refunded
  <2> QED BY <2>1, <2>2, <2>3 DEF EnrollmentIsCounted
<1> QED BY <1>1, EnrollmentAlways, PTL

(* Whoever is active after paying holds a purchase that is paid, and was    *)
(* not refunded, under the same condition.                                 *)
THEOREM AccessAlwaysPaidFor == Spec => []AccessIsPaidFor
<1>1. EnrollmentInvariant => AccessIsPaidFor
  <2> SUFFICES ASSUME EnrollmentInvariant PROVE AccessIsPaidFor OBVIOUS
  <2>1. WellPaid(enrollment) BY DEF EnrollmentInvariant, Typed
  <2> QED
    BY <2>1, QuietIsSettled, NullsHaveTypes DEF AccessIsPaidFor, Settles, PurchaseIsPaid, WellPaid
<1> QED BY <1>1, EnrollmentAlways, PTL

(* The quiz lesson and the lesson behind it are completed only by who has   *)
(* passed, and the attempts exceed their budget by less than the number of  *)
(* requests at a time: whatever overlaps or fails.                         *)
THEOREM QuizzesAlwaysGuard == Spec => []QuizzesGuardLessons
<1>1. EnrollmentInvariant => QuizzesGuardLessons
  <2> SUFFICES ASSUME EnrollmentInvariant PROVE QuizzesGuardLessons OBVIOUS
  <2>1. QuizLesson \in CompletedLessons => passed
    BY QuizAssumption
       DEF EnrollmentInvariant, GatesInvariant, GatedWerePassed, LessonsInOrder, Gated, CompletedLessons
  <2>2. \A l \in CompletedLessons : l = QuizLesson + 1 /\ QuizLesson \in Present => passed
    BY DEF EnrollmentInvariant, GatesInvariant, GatedWerePassed, Gated, CompletedLessons, Present
  <2> QED BY <2>1, <2>2 DEF QuizzesGuardLessons, QuizGatesHold, EnrollmentInvariant
<1> QED BY <1>1, EnrollmentAlways, PTL

(* The enrollment completes with its last lesson, a completed enrollment    *)
(* has its certificate or a request about to issue it, also under           *)
(* overlaps, and a certificate belongs to an enrollment that is complete.   *)
THEOREM CompletionAlwaysCertified == Spec => []CompletionIsCertified
<1>1. EnrollmentInvariant => CompletionIsCertified
  <2> SUFFICES ASSUME EnrollmentInvariant PROVE CompletionIsCertified OBVIOUS
  <2>1. CompletesWithLastLesson
    BY QuietIsSettled, NullsHaveTypes DEF CompletesWithLastLesson, Settles, LastLessonCompletes
  <2>2. CompletedEarnsCertificate
    BY DEF EnrollmentInvariant, CertificateFollows, SomeoneCompleted, Certified, CompletedEarnsCertificate
  <2>3. CertificateWasEarned BY QuietIsSettled DEF CertificateWasEarned, Settles, WasEarned
  <2> QED BY <2>1, <2>2, <2>3 DEF CompletionIsCertified
<1> QED BY <1>1, EnrollmentAlways, PTL

(* While requests do not overlap, and whatever fails, a completed lesson    *)
(* and a completed enrollment stay so, and a revoked certificate stays      *)
(* revoked.                                                                *)
THEOREM WhatFinishedStaysFinished == Spec => FinishedStaysFinished
<1> DEFINE Stays ==
      overlaps' = 0 =>
        /\ enrollment.status = "COMPLETED" => enrollment'.status = "COMPLETED"
        /\ certificate = "REVOKED" => certificate' = "REVOKED"
        /\ \A l \in CompletedLessons : lesson'[l] = "THERE" => progress'[l] = "COMPLETED"
<1>1. ASSUME EnrollmentInvariant, Next PROVE Stays
  <2> SUFFICES ASSUME overlaps' = 0
               PROVE  /\ enrollment.status = "COMPLETED" => enrollment'.status = "COMPLETED"
                      /\ certificate = "REVOKED" => certificate' = "REVOKED"
                      /\ \A l \in CompletedLessons : lesson'[l] = "THERE" => progress'[l] = "COMPLETED"
    OBVIOUS
  <2> HIDE DEF Stays
  <2>1. ASSUME NEW r \in Requests, Goes, Under(r) PROVE Knows(req[r])
    BY <1>1, <2>1, OneRequest DEF Goes, EnrollmentInvariant, Follows
  <2>2. ASSUME NEW r \in Requests,
               SavePurchase(r) \/ ActivateSave(r) \/ SaveCohort(r) \/ CancelSave(r) \/ RefreshSave(r)
               \/ MarkCompleted(r)
        PROVE  /\ enrollment.status = "COMPLETED" => enrollment'.status = "COMPLETED"
               /\ UNCHANGED <<certificate, progress>>
    <3>1. Knows(req[r]) /\ UNCHANGED <<certificate, progress>>
      BY <2>1, <2>2
         DEF SavePurchase, ActivateSave, SaveCohort, CancelSave, RefreshSave, MarkCompleted, At, Under, study
    <3>2. enrollment \in Enrollment /\ req[r].row \in Enrollment
      BY <1>1, TypesOf DEF EnrollmentInvariant, RowsTyped, Sound, Request
    <3>3. CASE SavePurchase(r) \/ RefreshSave(r)
      BY <3>1, <3>2, <3>3 DEF SavePurchase, RefreshSave, Knows, Studying, At, Enrollment
    <3>4. CASE ActivateSave(r) \/ CancelSave(r)
      BY <3>1, <3>4 DEF ActivateSave, CancelSave, Knows, At, Accessible, Grants
    <3>5. CASE SaveCohort(r) \/ MarkCompleted(r)
      BY <3>1, <3>2, <3>5 DEF SaveCohort, MarkCompleted, Knows, At, CompletedRow, Enrollment
    <3> QED BY <2>2, <3>1, <3>3, <3>4, <3>5
  <2>3. ASSUME NEW r \in Requests, IssueForEnrollment(r) \/ ReissueSave(r)
        PROVE  (certificate = "REVOKED" => certificate' = "REVOKED") /\ UNCHANGED <<enrollment, progress>>
    <3>1. CASE IssueForEnrollment(r) BY <3>1 DEF IssueForEnrollment, study
    <3>2. CASE ReissueSave(r)
      <4>1. Knows(req[r]) BY <2>1, <3>2 DEF ReissueSave, At, Under
      <4> QED BY <3>2, <4>1 DEF ReissueSave, Reissued, Knows, At, study
    <3> QED BY <2>3, <3>1, <3>2
  <2>4. ASSUME NEW r \in Requests, SaveProgress(r)
        PROVE  /\ \A l \in CompletedLessons : progress'[l] = "COMPLETED"
               /\ UNCHANGED <<enrollment, certificate>>
    <3>1. Knows(req[r]) BY <2>1, <2>4 DEF SaveProgress, At, Under
    <3>2. progress \in [Lessons -> ProgressStatus] BY <1>1, TypesOf DEF EnrollmentInvariant, RowsTyped
    <3> QED
      BY <2>4, <3>1, <3>2 DEF SaveProgress, StatusAfter, CompletedLessons, Knows, At
  <2>5. ASSUME NEW l \in Lessons, RemoveLesson(l)
        PROVE  /\ \A k \in CompletedLessons : lesson'[k] = "THERE" => progress'[k] = "COMPLETED"
               /\ UNCHANGED <<enrollment, certificate>>
    <3>1. progress \in [Lessons -> ProgressStatus] /\ lesson \in [Lessons -> {"PLANNED", "THERE", "REMOVED"}]
      BY <1>1, TypesOf DEF EnrollmentInvariant, RowsTyped
    <3> QED BY <2>5, <3>1 DEF RemoveLesson, CompletedLessons
  <2>6. CASE Revoke BY <2>6 DEF Revoke, study, CompletedLessons
  <2>7. ASSUME NEW r \in Requests,
               \/ EnrollFromPurchase(r) \/ Increment(r) \/ JoinWithEnrollment(r) \/ CancelByPurchase(r)
               \/ Decrement(r) \/ LeaveWithEnrollment(r) \/ UpdateAfterAttempt(r) \/ RecordActivity(r)
               \/ InsertActivityDay(r) \/ RefreshEnrollment(r) \/ SaveAttempt(r)
               \/ Fail(r) \/ Cancel(r) \/ Reissue(r)
        PROVE  UNCHANGED <<enrollment, certificate, progress>>
    BY <2>7 DEF EnrollFromPurchase, Increment, JoinWithEnrollment, CancelByPurchase, Decrement,
                LeaveWithEnrollment, UpdateAfterAttempt, RecordActivity, InsertActivityDay,
                RefreshEnrollment, SaveAttempt, Fail, Cancel, Reissue, rows, study
  <2>8. ASSUME NEW r \in Requests,
               \/ \E wants \in BOOLEAN : EnrollWithSeat(r, wants)
               \/ \E passes \in BOOLEAN : SubmitAttempt(r, passes)
               \/ \E p \in PurchaseIds : FulfillPurchase(r, p) \/ RefundPurchase(r, p)
               \/ \E l \in Lessons, to \in {"IN_PROGRESS", "COMPLETED"} : UpdateProgress(r, l, to)
        PROVE  UNCHANGED <<enrollment, certificate, progress>>
    BY <2>8 DEF EnrollWithSeat, SubmitAttempt, FulfillPurchase, RefundPurchase, UpdateProgress, rows, study
  <2>9. CASE JoinCohort \/ LeaveCohort \/ Midnight \/ \E l \in Lessons : AddLesson(l)
    BY <2>9 DEF JoinCohort, LeaveCohort, Midnight, AddLesson, study, CompletedLessons
  <2>10. UNCHANGED progress => \A l \in CompletedLessons : progress'[l] = "COMPLETED"
    BY DEF CompletedLessons
  <2> QED
    BY <1>1, <2>2, <2>3, <2>4, <2>5, <2>6, <2>7, <2>8, <2>9, <2>10 DEF Next, Step
<1>2. EnrollmentInvariant /\ [Next]_vars => [Stays]_vars BY <1>1
<1>3. [][Stays]_vars => FinishedStaysFinished BY PTL DEF FinishedStaysFinished
<1>4. Spec => [][Stays]_vars
  <2> HIDE DEF Stays
  <2> QED BY <1>2, EnrollmentAlways, PTL DEF Spec
<1> QED BY <1>3, <1>4
=============================================================================
