-------------------------- MODULE CourseworkProofs ---------------------------
(***************************************************************************)
(* Theorems about Coursework, for all settings, bounds and requests and    *)
(* any number of overlaps and failures: submissions stay in order, and      *)
(* grades reach the lesson and the inbox unless the lesson is refused.     *)
(***************************************************************************)
EXTENDS Coursework, FiniteSetTheorems, TLAPS

(* What a request says by itself, whatever happened since it loaded.        *)
Sound(q) ==
  /\ q \in Request
  /\ q.at = "idle" => q = Idle
  /\ q.at \in {"saveSubmission", "saveGrade"} => q.row.of # 0
  /\ q.at = "saveSubmission" => ~q.row.good /\ q.row.status = "SUBMITTED"
  /\ q.at = "saveGrade" => q.sub # 0
  /\ q.at = "saveRead" => q.note # 0
Typed == TypeOK /\ \A r \in Requests : Sound(req[r])

(* Rows that were not sent are empty, and only rows that were are graded.   *)
WasSent(q) == q.at = "saveGrade" => q.sub <= sent
SentKnown ==
  /\ \A s \in SubmissionIds : s > sent => submission[s].of = 0
  /\ \A r \in Requests : WasSent(req[r])

(* The limit in force is among the limits there were.                      *)
LimitIsKnown == There /\ largest > 0 => assignment.set.limit \in 1..largest

(* The requests that are going to add a row to the work: a new one, or one  *)
(* that was removed with its assignment while it was graded.               *)
Adding(q) ==
  /\ q.at \in {"saveSubmission", "saveGrade"}
  /\ q.row.of = assignment.id
  /\ q.at = "saveGrade" => q.sub \notin Work
Adders == {r \in Requests : Adding(req[r])}
WorkIsLimited ==
  largest > 0 => Cardinality(Work) + Cardinality(Adders) < largest + Cardinality(Requests)

(* As long as no request has overlapped another: the work is in order, ...  *)
Waits(s) == submission[s].status = "SUBMITTED"
LatestWaits == \A s \in Work : Waits(s) => \A t \in Work \ {s} :
  ~Waits(t) /\ submission[t].attempt < submission[s].attempt
Attempts(work) == {submission[s].attempt : s \in work}
Numbered == Attempts(Work) = 1..Cardinality(Work)
InOrder == LatestWaits /\ Numbered

(* ... what the only request under way has loaded is still there, ...       *)
Knows(q) ==
  /\ q.at = "saveSubmission" => /\ q.row.of = assignment.id
                                /\ q.row.attempt = Cardinality(Work) + 1
                                /\ \A s \in Work : ~Waits(s)
  /\ q.at = "saveGrade" => /\ q.sub \in Work
                           /\ q.row.of = assignment.id
                           /\ q.row.attempt = submission[q.sub].attempt
                           /\ q.row.status # "SUBMITTED"
  /\ q.at = "saveRead" => note[q.note] = "UNREAD"

(* ... and while nothing has failed, each grade has reached the lesson and  *)
(* the inbox, was refused, or this request is about to take it there.       *)
GradedWork == {s \in Work : ~Waits(s)}
Announced == {n \in NoteIds : note[n] # "NONE"}
LessonFollows(q) ==
  \/ progress = "COMPLETED"
  \/ Cardinality(Good) <= refused + (IF q.at = "completeLesson" THEN 1 ELSE 0)
InboxFollows(q) ==
  Cardinality(GradedWork)
    <= Cardinality(Announced) + refused + (IF q.at \in {"completeLesson", "notify"} THEN 1 ELSE 0)
Takes(q) == failures = 0 => LessonFollows(q) /\ InboxFollows(q)

OthersIdle(r) == \A q \in Requests \ {r} : ~Under(q)
OneFollows ==
  \A r \in Requests : /\ Under(r) => OthersIdle(r)
                      /\ OthersIdle(r) => Knows(req[r]) /\ Takes(req[r])

CourseworkInvariant ==
  /\ Typed /\ SentKnown /\ LimitIsKnown /\ WorkIsLimited
  /\ overlaps = 0 => InOrder /\ OneFollows
-----------------------------------------------------------------------------
(* The types of the rows, and how a request goes on.                       *)
RowsTyped ==
  /\ assignment \in Assignment
  /\ created \in 0..MaxAssignments
  /\ submission \in [SubmissionIds -> Submission]
  /\ sent \in 0..MaxSubmissions
  /\ progress \in {"NOT_STARTED", "IN_PROGRESS", "COMPLETED"}
  /\ access \in BOOLEAN
  /\ unlocked \in BOOLEAN
  /\ note \in [NoteIds -> Notification]
  /\ grades \in 0..MaxGrades
  /\ largest \in Nat
  /\ refused \in Nat
  /\ overlaps \in Nat
  /\ failures \in Nat
  /\ \A s \in SubmissionIds : submission[s].of \in {0, assignment.id}

Becomes(r, next) == req' = [req EXCEPT ![r] = next] /\ Sound(next)

LEMMA TypesOf ==
  Typed <=> RowsTyped /\ req \in [Requests -> Request] /\ \A r \in Requests : Sound(req[r])
BY DEF Typed, TypeOK, RowsTyped

LEMMA NullsHaveTypes ==
  /\ NoAssignment \in Assignment /\ NoAssignment.id = 0
  /\ NoSubmission \in Submission /\ NoSubmission.of = 0 /\ ~NoSubmission.good
  /\ Sound(Idle) /\ Idle.at = "idle" /\ Idle.row = NoSubmission
<1>1. AnySetting \in Settings BY SettingsAssumption DEF AnySetting
<1>2. NoAssignment \in Assignment /\ NoAssignment.id = 0 BY <1>1 DEF NoAssignment, Assignment
<1>3. NoSubmission \in Submission /\ NoSubmission.of = 0 /\ ~NoSubmission.good
  BY SettingsAssumption DEF NoSubmission, Submission
<1>4. Idle \in Request /\ Idle.at = "idle" /\ Idle.row = NoSubmission
  BY <1>2, <1>3 DEF Idle, Request, Places
<1> QED BY <1>2, <1>3, <1>4 DEF Sound

LEMMA BoundsAreNumbers ==
  /\ MaxAssignments \in Nat /\ MaxSubmissions \in Nat /\ MaxGrades \in Nat /\ MaxPoints \in Nat
  /\ Cardinality(Requests) \in Nat /\ Cardinality(Requests) > 0
  /\ \A set \in Settings : set.limit \in Nat /\ set.passing \in 0..MaxPoints /\ set.again \in BOOLEAN
<1>1. Cardinality(Requests) \in Nat /\ Cardinality(Requests) # 0
  BY RequestAssumption, FS_CardinalityType, FS_EmptySet
<1> QED BY <1>1, BoundAssumption, SettingsAssumption DEF Setting

LEMMA TypedKept ==
  ASSUME Typed, NEW r \in Requests, NEW next, Becomes(r, next), RowsTyped'
  PROVE  /\ Typed' /\ req'[r] = next
         /\ \A q \in Requests \ {r} : req'[q] = req[q]
<1>1. req \in [Requests -> Request] /\ \A q \in Requests : Sound(req[q]) BY TypesOf
<1>2. next \in Request BY DEF Becomes, Sound
<1>3. /\ req' \in [Requests -> Request] /\ req'[r] = next
      /\ \A q \in Requests \ {r} : req'[q] = req[q]
  BY <1>1, <1>2 DEF Becomes
<1>4. \A q \in Requests : Sound(req'[q]) BY <1>1, <1>3 DEF Becomes
<1>5. Typed'
  BY <1>3, <1>4 DEF Typed, TypeOK, RowsTyped
<1> QED BY <1>3, <1>5

(* A request that only goes to its next place.                             *)
LEMMA GoingOn ==
  ASSUME Typed, NEW r \in Requests, NEW place \in {"startLesson", "completeLesson", "notify"},
         Continue(r, place)
  PROVE  \E next : Becomes(r, next) /\ next.at = place
<1>1. PICK next : next = [req[r] EXCEPT !.at = place] OBVIOUS
<1>2. req[r] \in Request BY DEF Typed, Sound
<1>3. next \in Request /\ next.at = place BY <1>1, <1>2 DEF Request, Places
<1>4. Sound(next) BY <1>3 DEF Sound
<1> QED BY <1>1, <1>3, <1>4 DEF Becomes, Continue

LEMMA Finishing ==
  ASSUME NEW r \in Requests, Finish(r)
  PROVE  Becomes(r, Idle)
BY NullsHaveTypes DEF Finish, Becomes

LEMMA ArrivesType ==
  ASSUME Typed, Arrives
  PROVE  overlaps' \in Nat /\ (overlaps' = 0 => overlaps = 0 /\ \A q \in Requests : ~Under(q))
<1>1. overlaps \in Nat BY DEF Typed, TypeOK
<1> QED BY <1>1 DEF Arrives

Counted ==
  /\ Work \subseteq SubmissionIds /\ SubmissionIds \subseteq Nat \ {0} /\ NoteIds \subseteq Nat \ {0}
  /\ IsFiniteSet(Work) /\ Cardinality(Work) \in Nat
  /\ IsFiniteSet(Adders) /\ Cardinality(Adders) \in Nat
  /\ Cardinality(Adders) <= Cardinality(Requests)
  /\ IsFiniteSet(GradedWork) /\ Cardinality(GradedWork) \in Nat
  /\ IsFiniteSet(Announced) /\ Cardinality(Announced) \in Nat
  /\ IsFiniteSet(Good) /\ Cardinality(Good) \in Nat

LEMMA SetsAreFinite == Counted
<1>1. IsFiniteSet(SubmissionIds) /\ IsFiniteSet(NoteIds) /\ IsFiniteSet(Requests)
  BY FS_Interval, BoundsAreNumbers, RequestAssumption DEF SubmissionIds, NoteIds
<1>2. /\ Work \subseteq SubmissionIds /\ GradedWork \subseteq SubmissionIds
      /\ Announced \subseteq NoteIds /\ Adders \subseteq Requests /\ Good \subseteq SubmissionIds
  BY DEF Work, Of, GradedWork, Announced, Adders, Good
<1>3. /\ IsFiniteSet(Work) /\ IsFiniteSet(GradedWork) /\ IsFiniteSet(Announced)
      /\ IsFiniteSet(Good)
  BY <1>1, <1>2, FS_Subset
<1>4. IsFiniteSet(Adders) /\ Cardinality(Adders) <= Cardinality(Requests)
  BY <1>1, <1>2, FS_Subset
<1>5. SubmissionIds \subseteq Nat \ {0} /\ NoteIds \subseteq Nat \ {0} BY DEF SubmissionIds, NoteIds
<1> QED BY <1>2, <1>3, <1>4, <1>5, FS_CardinalityType DEF Counted

LEMMA SetsStayFinite == Counted'
BY SetsAreFinite, PTL
-----------------------------------------------------------------------------
(* The limit: work that is empty or was just found below it, a step that    *)
(* adds nothing, and one that turns an adder into a row.                    *)
LEMMA LimitFound ==
  ASSUME Typed', largest' > 0 => Cardinality(Work') < largest'
  PROVE  WorkIsLimited'
<1>1. /\ Cardinality(Adders') <= Cardinality(Requests) /\ Cardinality(Adders') \in Nat
      /\ Cardinality(Work') \in Nat
  BY SetsStayFinite DEF Counted
<1>2. largest' \in Nat BY TypesOf DEF Typed, TypeOK
<1> HIDE DEF Adders, Work
<1> QED BY <1>1, <1>2, BoundsAreNumbers DEF WorkIsLimited

LEMMA AddersAfter ==
  ASSUME Typed, NEW r \in Requests, NEW next, Becomes(r, next),
         assignment'.id = assignment.id, Work \subseteq Work',
         Adding(next)' => Adding(req[r])
  PROVE  Adders' \subseteq Adders /\ (~Adding(next)' => Adders' \subseteq Adders \ {r})
<1>1. req'[r] = next /\ \A q \in Requests \ {r} : req'[q] = req[q]
  BY TypesOf DEF Becomes, Sound
<1>2. ASSUME NEW q \in Requests, Adding(req[q])' PROVE Adding(req[q]) /\ (~Adding(next)' => q # r)
  <2>1. CASE q = r BY <1>1, <1>2, <2>1
  <2>2. CASE q # r
    <3>1. req'[q] = req[q] BY <1>1, <2>2
    <3> QED BY <1>2, <2>2, <3>1 DEF Adding
  <2> QED BY <2>1, <2>2
<1> QED BY <1>2 DEF Adders

LEMMA LimitAside ==
  ASSUME Typed, Typed', WorkIsLimited, NEW r \in Requests, NEW next, Becomes(r, next),
         assignment'.id = assignment.id, Work' = Work,
         largest' > 0 => largest > 0 /\ largest' >= largest,
         Adding(next)' => Adding(req[r])
  PROVE  WorkIsLimited'
<1>2. Adders' \subseteq Adders BY AddersAfter
<1>3. /\ IsFiniteSet(Adders) /\ Cardinality(Adders') \in Nat
      /\ Cardinality(Adders) \in Nat /\ Cardinality(Work) \in Nat
  BY SetsAreFinite, SetsStayFinite DEF Counted
<1>5. Cardinality(Adders') <= Cardinality(Adders) BY <1>2, <1>3, FS_Subset
<1>4. largest \in Nat /\ largest' \in Nat BY DEF Typed, TypeOK
<1> HIDE DEF Adders, Work
<1> QED BY <1>3, <1>4, <1>5, BoundsAreNumbers DEF WorkIsLimited

LEMMA LimitUsed ==
  ASSUME Typed, Typed', WorkIsLimited, NEW r \in Requests, NEW next, Becomes(r, next),
         assignment'.id = assignment.id, UNCHANGED largest, NEW s, Work' = Work \union {s},
         Adding(req[r]) \/ s \in Work, next.at \notin {"saveSubmission", "saveGrade"}
  PROVE  WorkIsLimited'
<1>1. ~Adding(next)' BY DEF Adding
<1>2. Adders' \subseteq Adders /\ Adders' \subseteq Adders \ {r} BY <1>1, AddersAfter
<1>3. /\ IsFiniteSet(Adders) /\ IsFiniteSet(Work)
      /\ Cardinality(Adders') \in Nat /\ Cardinality(Adders) \in Nat
      /\ Cardinality(Work) \in Nat /\ Cardinality(Work') \in Nat
  BY SetsAreFinite, SetsStayFinite DEF Counted
<1>4. Cardinality(Adders') <= Cardinality(Adders) BY <1>2, <1>3, FS_Subset
<1>5. ASSUME Adding(req[r]) PROVE Cardinality(Adders') + 1 <= Cardinality(Adders)
  <2>1. r \in Adders BY <1>5 DEF Adders
  <2>2. IsFiniteSet(Adders \ {r}) /\ Cardinality(Adders \ {r}) = Cardinality(Adders) - 1
    BY <1>3, <2>1, FS_RemoveElement
  <2>3. Cardinality(Adders') <= Cardinality(Adders \ {r}) BY <1>2, <2>2, FS_Subset
  <2> HIDE DEF Adders
  <2> QED BY <1>3, <2>2, <2>3
<1>6. Cardinality(Work') = IF s \in Work THEN Cardinality(Work) ELSE Cardinality(Work) + 1
  BY <1>3, FS_AddElement
<1>7. largest \in Nat BY DEF Typed, TypeOK
<1> HIDE DEF Adders, Work
<1> QED BY <1>3, <1>4, <1>5, <1>6, <1>7, BoundsAreNumbers DEF WorkIsLimited

-----------------------------------------------------------------------------
(* While nothing overlaps one request takes a step, alone.                  *)
LEMMA OneRequest ==
  ASSUME CourseworkInvariant, NEW r \in Requests,
         Arrives \/ (UNCHANGED overlaps /\ Under(r)), overlaps' = 0
  PROVE  overlaps = 0 /\ OthersIdle(r) /\ InOrder /\ Knows(req[r]) /\ Takes(req[r])
<1>1. overlaps = 0 /\ OthersIdle(r)
  <2>1. CASE Arrives BY <2>1, ArrivesType DEF OthersIdle, CourseworkInvariant
  <2>2. CASE UNCHANGED overlaps /\ Under(r) BY <2>2 DEF OneFollows, CourseworkInvariant
  <2> QED BY <2>1, <2>2
<1> QED BY <1>1 DEF OneFollows, CourseworkInvariant

LEMMA OneGoesOn ==
  ASSUME CourseworkInvariant, Typed', NEW r \in Requests, NEW next, Becomes(r, next),
         Arrives \/ (UNCHANGED overlaps /\ Under(r)),
         overlaps' = 0 => Knows(next)' /\ Takes(next)'
  PROVE  overlaps' = 0 => OneFollows'
<1> SUFFICES ASSUME overlaps' = 0, NEW q \in Requests
             PROVE  /\ Under(q)' => OthersIdle(q)'
                    /\ OthersIdle(q)' => Knows(req[q])' /\ Takes(req[q])'
  BY DEF OneFollows
<1>1. req'[r] = next /\ \A p \in Requests \ {r} : req'[p] = req[p]
  BY TypesOf DEF Becomes, Sound, CourseworkInvariant
<1>2. OthersIdle(r)' BY <1>1, OneRequest DEF OthersIdle, Under
<1>3. Knows(next)' /\ Takes(next)' OBVIOUS
<1>4. CASE q = r BY <1>1, <1>2, <1>3, <1>4
<1>5. CASE q # r
  <2>1. ~Under(q)' BY <1>2, <1>5 DEF OthersIdle
  <2>2. ASSUME OthersIdle(q)' PROVE Knows(req[q])' /\ Takes(req[q])'
    <3>1. req'[q].at = "idle" /\ req'[r].at = "idle" BY <1>5, <2>1, <2>2 DEF OthersIdle, Under
    <3>2. req'[q] = Idle /\ req'[r] = Idle BY <3>1 DEF Typed, Sound
    <3> QED BY <1>1, <1>3, <3>2
  <2> QED BY <2>1, <2>2
<1> QED BY <1>4, <1>5

(* What every step of a request has to show.                               *)
LEMMA StepKeeps ==
  ASSUME CourseworkInvariant, NEW r \in Requests, NEW next, Becomes(r, next), RowsTyped',
         SentKnown', LimitIsKnown', WorkIsLimited',
         Arrives \/ (UNCHANGED overlaps /\ Under(r)),
         InOrder /\ Knows(req[r]) => InOrder' /\ Knows(next)',
         InOrder /\ Knows(req[r]) /\ Takes(req[r]) => Takes(next)'
  PROVE  CourseworkInvariant'
<1>1. Typed' BY TypedKept DEF CourseworkInvariant
<1>2. overlaps' = 0 => InOrder' /\ Knows(next)' /\ Takes(next)' BY OneRequest
<1>3. overlaps' = 0 => OneFollows' BY <1>1, <1>2, OneGoesOn
<1> QED BY <1>1, <1>2, <1>3 DEF CourseworkInvariant

LEMMA SentAside ==
  ASSUME CourseworkInvariant, NEW r \in Requests, NEW next, Becomes(r, next),
         WasSent(next), sent' = sent,
         \A s \in SubmissionIds : s > sent => submission'[s].of = 0
  PROVE  SentKnown'
<1>1. req'[r] = next /\ \A p \in Requests \ {r} : req'[p] = req[p]
  BY TypesOf DEF Becomes, Sound, CourseworkInvariant
<1>2. \A q \in Requests : WasSent(req[q])'
  BY <1>1 DEF CourseworkInvariant, SentKnown, WasSent
<1> QED BY <1>2 DEF SentKnown

(* A step that only reads the work.                                        *)
LEMMA ReadingKeeps ==
  ASSUME CourseworkInvariant, NEW r \in Requests, NEW next, Becomes(r, next), RowsTyped',
         UNCHANGED <<assignment, submission, sent, largest>>, WasSent(next),
         Adding(next)' => Adding(req[r]),
         Arrives \/ (UNCHANGED overlaps /\ Under(r)),
         InOrder /\ Knows(req[r]) => Knows(next)',
         InOrder /\ Knows(req[r]) /\ Takes(req[r]) => Takes(next)'
  PROVE  CourseworkInvariant'
<1> USE DEF CourseworkInvariant
<1>1. Typed' BY TypedKept
<1>2. SentKnown' BY SentAside DEF SentKnown
<1>3. LimitIsKnown' BY DEF LimitIsKnown, There
<1>4. largest \in Nat BY DEF Typed, TypeOK
<1>5. WorkIsLimited'
  <2>1. Work' = Work BY DEF Work, Of
  <2> QED BY <1>1, <1>4, <2>1, LimitAside
<1>6. InOrder => InOrder' BY DEF InOrder, LatestWaits, Numbered, Attempts, Work, Of, Waits
<1> QED BY <1>2, <1>3, <1>5, <1>6, StepKeeps
(* No more work has passed, and the lesson is not taken back.              *)
LEMMA LessonAside ==
  ASSUME Typed, NEW q, NEW next, LessonFollows(q), q.at # "completeLesson",
         Good' \subseteq Good, UNCHANGED refused, progress = "COMPLETED" => progress' = "COMPLETED"
  PROVE  LessonFollows(next)'
<1>1. refused \in Nat BY DEF Typed, TypeOK
<1>2. IsFiniteSet(Good) /\ Cardinality(Good) \in Nat /\ Cardinality(Good') \in Nat
  BY SetsAreFinite, SetsStayFinite DEF Counted
<1>3. Cardinality(Good') <= Cardinality(Good) BY <1>2, FS_Subset
<1> HIDE DEF Good
<1> QED BY <1>1, <1>2, <1>3 DEF LessonFollows

LEMMA TakesAside ==
  ASSUME Typed, NEW q, NEW next, Takes(q), q.at \notin {"completeLesson", "notify"},
         UNCHANGED <<assignment, submission, refused, failures>>,
         progress = "COMPLETED" => progress' = "COMPLETED", Announced' = Announced
  PROVE  Takes(next)'
<1> SUFFICES ASSUME failures' = 0 PROVE LessonFollows(next)' /\ InboxFollows(next)'
  BY DEF Takes
<1>1. LessonFollows(q) /\ InboxFollows(q) BY DEF Takes
<1>2. LessonFollows(next)'
  <2>1. Good' = Good BY DEF Good
  <2> HIDE DEF Good
  <2> QED BY <1>1, <2>1, LessonAside
<1>3. GradedWork' = GradedWork BY DEF GradedWork, Work, Of, Waits
<1>4. /\ Cardinality(GradedWork) \in Nat /\ Cardinality(Announced) \in Nat /\ refused \in Nat
  BY SetsAreFinite DEF Counted, Typed, TypeOK
<1> HIDE DEF GradedWork, Announced
<1>5. InboxFollows(next)' BY <1>1, <1>3, <1>4 DEF InboxFollows
<1> QED BY <1>2, <1>5

(* A first step, and a step that ends a request, which changes no row but   *)
(* the lesson's.                                                           *)
LEMMA StartKeeps ==
  ASSUME CourseworkInvariant, NEW r \in Requests, NEW next \in Request, Starts(r, next),
         UNCHANGED <<assignment, created, submission, sent, progress, access, unlocked, note, largest, refused>>,
         grades' \in 0..MaxGrades,
         Sound(next), WasSent(next), ~Adding(next)', InOrder => Knows(next)'
  PROVE  CourseworkInvariant'
<1> USE TypesOf DEF CourseworkInvariant
<1>1. Becomes(r, next) /\ Arrives /\ failures' = failures BY DEF Starts, Becomes, Arrives
<1>2. req[r] = Idle BY DEF Starts, Under, Sound
<1>3. RowsTyped' BY <1>1, ArrivesType DEF RowsTyped
<1>4. Announced' = Announced BY DEF Announced
<1>5. Takes(req[r]) => Takes(next)' BY <1>1, <1>2, <1>4, NullsHaveTypes, TakesAside
<1> QED BY <1>1, <1>3, <1>5, ReadingKeeps

LEMMA IdleAdds == WasSent(Idle) /\ ~Adding(Idle)' /\ Knows(Idle)'
BY NullsHaveTypes DEF WasSent, Adding, Knows

LEMMA UpsertKeeps ==
  ASSUME CourseworkInvariant, NEW r \in Requests, NEW set \in Settings, Upsert(r, set)
  PROVE  CourseworkInvariant'
<1>1. PICK found : found = [assignment EXCEPT !.set = set] OBVIOUS
<1>2. PICK next : next = [Idle EXCEPT !.at = "upsert", !.found = found] OBVIOUS
<1>3. assignment \in Assignment /\ grades \in 0..MaxGrades
  BY TypesOf DEF CourseworkInvariant, RowsTyped
<1>4. found \in Assignment BY <1>1, <1>3 DEF Assignment
<1>5. next \in Request /\ next.at = "upsert"
  BY <1>2, <1>4, NullsHaveTypes DEF Sound, Request, Places
<1>6. Starts(r, next) /\ UNCHANGED rows BY <1>1, <1>2 DEF Upsert
<1> QED BY <1>3, <1>5, <1>6, StartKeeps DEF rows, ghosts, Sound, WasSent, Adding, Knows

LEMMA RemoveAssignmentKeeps ==
  ASSUME CourseworkInvariant, NEW r \in Requests, RemoveAssignment(r)
  PROVE  CourseworkInvariant'
<1>1. PICK next : next = [Idle EXCEPT !.at = "remove", !.found = assignment] OBVIOUS
<1>2. assignment \in Assignment /\ grades \in 0..MaxGrades
  BY TypesOf DEF CourseworkInvariant, RowsTyped
<1>3. next \in Request /\ next.at = "remove"
  BY <1>1, <1>2, NullsHaveTypes DEF Sound, Request, Places
<1>4. Starts(r, next) /\ UNCHANGED rows BY <1>1 DEF RemoveAssignment
<1> QED BY <1>2, <1>3, <1>4, StartKeeps DEF rows, ghosts, Sound, WasSent, Adding, Knows

LEMMA MarkReadKeeps ==
  ASSUME CourseworkInvariant, NEW r \in Requests, NEW n \in NoteIds, MarkRead(r, n)
  PROVE  CourseworkInvariant'
<1>1. PICK next : next = [Idle EXCEPT !.at = "saveRead", !.note = n] OBVIOUS
<1>2. grades \in 0..MaxGrades BY TypesOf DEF CourseworkInvariant, RowsTyped
<1>3. next \in Request /\ next.at = "saveRead" /\ next.note = n /\ n # 0
  BY <1>1, NullsHaveTypes, SetsAreFinite DEF Sound, Request, Places, Counted, Idle
<1>4. Starts(r, next) /\ UNCHANGED rows /\ note[n] = "UNREAD" BY <1>1 DEF MarkRead
<1> QED BY <1>2, <1>3, <1>4, StartKeeps DEF rows, ghosts, Sound, WasSent, Adding, Knows

LEMMA GradedRow ==
  ASSUME NEW old \in Submission, NEW score \in 0..MaxPoints, NEW set \in Settings, NEW row,
         row = Graded(old, score, set)
  PROVE  row \in Submission /\ row.of = old.of /\ row.attempt = old.attempt /\ row.status # "SUBMITTED"
<1>1. PICK status : status = IF score >= set.passing \/ ~set.again THEN "GRADED" ELSE "RETURNED" OBVIOUS
<1>2. status \in {"GRADED", "RETURNED"} BY <1>1
<1>3. PICK good : good = (score >= set.passing) OBVIOUS
<1>4. good \in BOOLEAN BY <1>3
<1>5. row = [old EXCEPT !.score = score, !.good = good, !.status = status] BY <1>1, <1>3, Zenon DEF Graded
<1> QED BY <1>2, <1>4, <1>5 DEF Submission

LEMMA GradeKeeps ==
  ASSUME CourseworkInvariant, NEW r \in Requests, NEW s \in SubmissionIds, NEW score \in 0..MaxPoints,
         Grade(r, s, score)
  PROVE  CourseworkInvariant'
<1> USE TypesOf DEF CourseworkInvariant
<1>1. PICK row : row = Graded(submission[s], score, assignment.set) OBVIOUS
<1>2. PICK next : next = [Idle EXCEPT !.at = "saveGrade", !.found = assignment, !.sub = s, !.row = row]
  OBVIOUS
<1>3. /\ assignment \in Assignment /\ grades \in Nat /\ submission[s] \in Submission
      /\ assignment.set \in Settings /\ sent \in Nat /\ s \in Nat \ {0}
  BY BoundsAreNumbers, SetsAreFinite DEF RowsTyped, Assignment, Counted
<1>4. /\ row \in Submission /\ row.of = submission[s].of /\ row.attempt = submission[s].attempt
      /\ row.status # "SUBMITTED"
  BY <1>1, <1>3, GradedRow
<1>5. /\ next \in Request /\ next.at = "saveGrade" /\ next.sub = s /\ next.row = row
  BY <1>2, <1>3, <1>4, NullsHaveTypes DEF Sound, Request, Places, Idle
<1>6. /\ Starts(r, next) /\ s \in Work /\ grades < MaxGrades /\ grades' = grades + 1
      /\ UNCHANGED <<assignment, created, submission, sent, progress, access, unlocked, note, largest, refused>>
  BY <1>1, <1>2 DEF Grade, Work
<1>7. grades' \in 0..MaxGrades BY <1>3, <1>6, BoundsAreNumbers
<1>8. submission[s].of = assignment.id /\ submission[s].of # 0 BY <1>6 DEF Work, Of
<1>9. s <= sent BY <1>3, <1>8 DEF SentKnown
<1>10. Work' = Work BY <1>6 DEF Work, Of
<1>11. Sound(next) BY <1>3, <1>4, <1>5, <1>8 DEF Sound
<1>12. WasSent(next) /\ ~Adding(next)' BY <1>5, <1>6, <1>9, <1>10 DEF WasSent, Adding
<1>13. Knows(next)' BY <1>4, <1>5, <1>6, <1>8, <1>10 DEF Knows
<1> QED BY <1>5, <1>6, <1>7, <1>11, <1>12, <1>13, StartKeeps
(* Who may submit has no work that waits for its grade.                    *)
LEMMA NothingWaits ==
  ASSUME Typed, LatestWaits, Work = {} \/ MaySubmit(Work, assignment.set)
  PROVE  \A s \in Work : ~Waits(s)
<1>1. SUFFICES ASSUME NEW s \in Work, Waits(s) PROVE FALSE OBVIOUS
<1>2. PICK latest \in Work : IsLatest(latest, Work) /\ submission[latest].status # "SUBMITTED"
  BY <1>1 DEF MaySubmit
<1>3. latest # s BY <1>1, <1>2 DEF Waits
<1>4. submission[latest].attempt < submission[s].attempt BY <1>1, <1>2, <1>3 DEF LatestWaits
<1>5. submission[s].attempt <= submission[latest].attempt BY <1>1, <1>2 DEF IsLatest
<1>6. s \in SubmissionIds /\ latest \in SubmissionIds BY SetsAreFinite DEF Counted
<1>7. submission[s].attempt \in Nat /\ submission[latest].attempt \in Nat
  BY <1>6, TypesOf DEF RowsTyped, Submission
<1> QED BY <1>4, <1>5, <1>7

LEMMA SubmitKeeps ==
  ASSUME CourseworkInvariant, NEW r \in Requests, Submit(r)
  PROVE  CourseworkInvariant'
<1> USE TypesOf DEF CourseworkInvariant
<1>1. PICK row : row = [NoSubmission EXCEPT !.of = assignment.id, !.attempt = AttemptNumber(Work)]
  OBVIOUS
<1>2. PICK next : next = [Idle EXCEPT !.at = "saveSubmission", !.found = assignment, !.row = row]
  OBVIOUS
<1>3. /\ There
      /\ Work = {} \/ MaySubmit(Work, assignment.set)
      /\ Starts(r, next) /\ UNCHANGED rows
  BY <1>1, <1>2 DEF Submit, Work
<1>4. assignment \in Assignment /\ assignment.id # 0 /\ assignment.set \in Settings /\ largest \in Nat
  BY <1>3 DEF RowsTyped, There, Assignment
<1>5. /\ row \in Submission /\ row.of = assignment.id /\ row.attempt = Cardinality(Work) + 1
      /\ row.status = "SUBMITTED" /\ ~row.good
  <2>1. PICK number : number = Cardinality(Work) + 1 OBVIOUS
  <2>2. number \in Nat BY <2>1, SetsAreFinite DEF Counted
  <2>3. row = [NoSubmission EXCEPT !.of = assignment.id, !.attempt = number]
    BY <1>1, <2>1 DEF AttemptNumber
  <2>4. assignment.id \in AssignmentIds BY <1>4 DEF Assignment
  <2>5. row.status = "SUBMITTED" /\ ~row.good BY <2>3 DEF NoSubmission
  <2>6. row \in Submission BY <2>2, <2>3, <2>4, NullsHaveTypes DEF Submission
  <2>7. row.of = assignment.id /\ row.attempt = number BY <2>3 DEF NoSubmission
  <2> QED BY <2>1, <2>5, <2>6, <2>7
<1>6. next \in Request /\ next.at = "saveSubmission" /\ next.row = row
  BY <1>2, <1>4, <1>5, NullsHaveTypes DEF Sound, Request, Places, Idle
<1>7. Becomes(r, next) /\ Arrives /\ req[r] = Idle
  BY <1>3, <1>4, <1>5, <1>6 DEF Starts, Becomes, Sound, Under
<1>8. RowsTyped' BY <1>3, <1>7, ArrivesType DEF RowsTyped, rows, ghosts, Arrives
<1>9. Typed' BY <1>7, <1>8, TypedKept
<1>10. Work' = Work BY <1>3 DEF Work, Of, rows
<1>11. SentKnown'
  BY <1>3, <1>6, <1>7, SentAside DEF WasSent, SentKnown, rows
<1>12. LimitIsKnown' BY <1>3 DEF LimitIsKnown, There, rows, ghosts
<1>13. largest > 0 => Cardinality(Work) < largest
  <2>1. SUFFICES ASSUME largest > 0 PROVE Cardinality(Work) < largest OBVIOUS
  <2>2. assignment.set.limit \in 1..largest BY <1>3, <2>1 DEF LimitIsKnown
  <2>3. CASE Work = {} BY <1>4, <2>1, <2>3, FS_EmptySet
  <2>4. CASE MaySubmit(Work, assignment.set)
    <3>1. Cardinality(Work) < assignment.set.limit BY <2>2, <2>4 DEF MaySubmit
    <3>2. Cardinality(Work) \in Nat BY SetsAreFinite DEF Counted
    <3> QED BY <1>4, <2>2, <3>1, <3>2
  <2> QED BY <1>3, <2>3, <2>4
<1>14. WorkIsLimited' BY <1>3, <1>9, <1>10, <1>13, LimitFound DEF rows, ghosts
<1>15. InOrder => InOrder'
  BY <1>3, <1>10 DEF InOrder, LatestWaits, Numbered, Attempts, Waits, rows
<1>16. InOrder => Knows(next)'
  BY <1>3, <1>5, <1>6, <1>10, NothingWaits DEF InOrder, Knows, Waits, rows
<1>17. Takes(req[r]) => Takes(next)'
  <2>1. Announced' = Announced BY <1>3 DEF Announced, rows
  <2> QED BY <1>3, <1>7, <2>1, NullsHaveTypes, TakesAside DEF rows, ghosts, Arrives
<1> QED BY <1>7, <1>8, <1>11, <1>12, <1>14, <1>15, <1>16, <1>17, StepKeeps

-----------------------------------------------------------------------------
(* Steps that only read the work.                                          *)
LEMMA FailKeeps ==
  ASSUME CourseworkInvariant, NEW r \in Requests, Fail(r)
  PROVE  CourseworkInvariant'
<1> USE TypesOf DEF CourseworkInvariant
<1>1. UNCHANGED <<rows, overlaps>> /\ Under(r) /\ failures' = failures + 1 /\ failures \in Nat
  BY DEF Fail, RowsTyped
<1>2. Becomes(r, Idle) BY Finishing DEF Fail
<1>3. RowsTyped' /\ failures' # 0 BY <1>1 DEF RowsTyped, rows, ghosts
<1>4. Takes(Idle)' BY <1>3 DEF Takes
<1> QED BY <1>1, <1>2, <1>3, <1>4, IdleAdds, ReadingKeeps DEF rows, ghosts

LEMMA UpsertRefusedKeeps ==
  ASSUME CourseworkInvariant, NEW r \in Requests, UpsertRefused(r)
  PROVE  CourseworkInvariant'
<1> USE TypesOf DEF CourseworkInvariant
<1>1. UNCHANGED <<rows, overlaps, failures>> /\ req[r].at = "upsert" BY DEF UpsertRefused, Goes, At
<1>2. Becomes(r, Idle) BY Finishing DEF UpsertRefused
<1>3. RowsTyped' BY <1>1 DEF RowsTyped, rows, ghosts
<1>4. Announced' = Announced BY <1>1 DEF Announced, rows
<1>5. Takes(req[r]) => Takes(Idle)' BY <1>1, <1>4, TakesAside DEF rows, ghosts
<1> QED BY <1>1, <1>2, <1>3, <1>5, IdleAdds, ReadingKeeps DEF rows, ghosts, Under

LEMMA StartLessonKeeps ==
  ASSUME CourseworkInvariant, NEW r \in Requests, StartLesson(r)
  PROVE  CourseworkInvariant'
<1> USE TypesOf DEF CourseworkInvariant
<1>1. /\ UNCHANGED <<assignment, created, submission, sent, access, unlocked, note, ghosts, overlaps, failures>>
      /\ req[r].at = "startLesson"
      /\ progress' \in {progress, "IN_PROGRESS"} /\ (progress = "COMPLETED" => progress' = "COMPLETED")
  BY DEF StartLesson, Goes, At
<1>2. Becomes(r, Idle) BY Finishing DEF StartLesson
<1>3. RowsTyped' BY <1>1 DEF RowsTyped, ghosts
<1>4. Announced' = Announced BY <1>1 DEF Announced
<1>5. Takes(req[r]) => Takes(Idle)' BY <1>1, <1>4, TakesAside DEF ghosts
<1> QED BY <1>1, <1>2, <1>3, <1>5, IdleAdds, ReadingKeeps DEF ghosts, Under

LEMMA SaveReadKeeps ==
  ASSUME CourseworkInvariant, NEW r \in Requests, SaveRead(r)
  PROVE  CourseworkInvariant'
<1> USE TypesOf DEF CourseworkInvariant
<1>1. /\ UNCHANGED <<assignment, created, submission, sent, progress, access, unlocked, ghosts, overlaps, failures>>
      /\ req[r].at = "saveRead" /\ note' = [note EXCEPT ![req[r].note] = "READ"]
  BY DEF SaveRead, Goes, At
<1>2. Becomes(r, Idle) BY Finishing DEF SaveRead
<1>3. note \in [NoteIds -> Notification] /\ req[r].note \in NoteIds
  BY <1>1 DEF RowsTyped, Sound, Request
<1>4. RowsTyped' BY <1>1, <1>3 DEF RowsTyped, ghosts, Notification
<1>5. ASSUME Knows(req[r]), Takes(req[r]) PROVE Takes(Idle)'
  <2>1. note[req[r].note] = "UNREAD" BY <1>1, <1>5 DEF Knows
  <2>2. Announced' = Announced BY <1>1, <1>3, <2>1 DEF Announced
  <2> QED BY <1>1, <1>5, <2>2, TakesAside DEF ghosts
<1> QED BY <1>1, <1>2, <1>4, <1>5, IdleAdds, ReadingKeeps DEF ghosts, Under
LEMMA CompleteLessonKeeps ==
  ASSUME CourseworkInvariant, NEW r \in Requests, CompleteLesson(r)
  PROVE  CourseworkInvariant'
<1> USE TypesOf DEF CourseworkInvariant
<1>1. /\ UNCHANGED <<assignment, created, submission, sent, access, unlocked, note, grades, largest, overlaps, failures>>
      /\ req[r].at = "completeLesson" /\ Under(r)
  BY DEF CompleteLesson, Goes, At, Under
<1>2. CASE progress' = "COMPLETED" /\ Continue(r, "notify") /\ UNCHANGED refused
  <2>1. PICK next : Becomes(r, next) /\ next.at = "notify" BY <1>2, GoingOn
  <2>2. RowsTyped' BY <1>1, <1>2 DEF RowsTyped
  <2>3. ASSUME Takes(req[r]) PROVE Takes(next)'
    <3>1. GradedWork' = GradedWork /\ Announced' = Announced
      BY <1>1 DEF GradedWork, Work, Of, Waits, Announced
    <3>2. InboxFollows(req[r]) => InboxFollows(next)'
      <4> HIDE DEF GradedWork, Announced
      <4> QED BY <1>1, <1>2, <2>1, <3>1 DEF InboxFollows
    <3>3. LessonFollows(next)' BY <1>2 DEF LessonFollows
    <3> QED BY <1>1, <1>2, <2>3, <3>2, <3>3 DEF Takes
  <2>4. WasSent(next) /\ ~Adding(next)' /\ Knows(next)' BY <2>1 DEF WasSent, Adding, Knows
  <2> QED BY <1>1, <2>1, <2>2, <2>3, <2>4, ReadingKeeps
<1>3. CASE refused' = refused + 1 /\ Finish(r) /\ UNCHANGED progress
  <2>1. Becomes(r, Idle) BY <1>3, Finishing
  <2>2. RowsTyped' BY <1>1, <1>3 DEF RowsTyped
  <2>3. ASSUME Takes(req[r]) PROVE Takes(Idle)'
    <3>1. GradedWork' = GradedWork /\ Announced' = Announced /\ Good' = Good
      BY <1>1 DEF GradedWork, Work, Of, Waits, Announced, Good
    <3>2. /\ Cardinality(GradedWork) \in Nat /\ Cardinality(Announced) \in Nat
          /\ Cardinality(Good) \in Nat /\ refused \in Nat
      BY SetsAreFinite DEF Counted, RowsTyped
    <3>3. InboxFollows(req[r]) => InboxFollows(Idle)'
      <4> HIDE DEF GradedWork, Announced
      <4> QED BY <1>1, <1>3, <3>1, <3>2, NullsHaveTypes DEF InboxFollows
    <3>4. LessonFollows(req[r]) => LessonFollows(Idle)'
      <4> HIDE DEF Good
      <4> QED BY <1>1, <1>3, <3>1, <3>2, NullsHaveTypes DEF LessonFollows
    <3> QED BY <1>1, <2>3, <3>3, <3>4 DEF Takes
  <2> QED BY <1>1, <2>1, <2>2, <2>3, IdleAdds, ReadingKeeps
<1> QED BY <1>2, <1>3 DEF CompleteLesson

LEMMA NotifyKeeps ==
  ASSUME CourseworkInvariant, NEW r \in Requests, Notify(r)
  PROVE  CourseworkInvariant'
<1> USE TypesOf DEF CourseworkInvariant
<1>1. /\ UNCHANGED <<assignment, created, submission, sent, progress, access, unlocked, ghosts, overlaps, failures>>
      /\ req[r].at = "notify" /\ Under(r)
  BY DEF Notify, Goes, At, Under
<1>2. PICK n \in NoteIds : note[n] = "NONE" /\ note' = [note EXCEPT ![n] = "UNREAD"] BY DEF Notify
<1>3. Becomes(r, Idle) BY Finishing DEF Notify
<1>4. note \in [NoteIds -> Notification] BY DEF RowsTyped
<1>5. RowsTyped' BY <1>1, <1>2, <1>4 DEF RowsTyped, ghosts, Notification
<1>6. ASSUME Takes(req[r]) PROVE Takes(Idle)'
  <2>1. GradedWork' = GradedWork BY <1>1 DEF GradedWork, Work, Of, Waits
  <2>2. Announced' = Announced \union {n} /\ n \notin Announced BY <1>2, <1>4 DEF Announced
  <2>3. /\ IsFiniteSet(Announced) /\ Cardinality(Announced) \in Nat /\ Cardinality(GradedWork) \in Nat
        /\ refused \in Nat /\ UNCHANGED refused
    BY <1>1, SetsAreFinite DEF Counted, RowsTyped, ghosts
  <2>4. Cardinality(Announced') = Cardinality(Announced) + 1 BY <2>2, <2>3, FS_AddElement
  <2>5. InboxFollows(req[r]) => InboxFollows(Idle)'
    <3> HIDE DEF GradedWork, Announced
    <3> QED BY <1>1, <2>1, <2>3, <2>4, NullsHaveTypes DEF InboxFollows
  <2>6. LessonFollows(req[r]) => LessonFollows(Idle)'
    <3>1. Good' = Good BY <1>1 DEF Good
    <3> HIDE DEF Good
    <3> QED BY <1>1, <3>1, LessonAside DEF ghosts
  <2> QED BY <1>1, <1>6, <2>5, <2>6 DEF Takes, ghosts
<1> QED BY <1>1, <1>3, <1>5, <1>6, IdleAdds, ReadingKeeps DEF ghosts

-----------------------------------------------------------------------------
(* Steps that write the work.                                              *)
LEMMA EmptyWork ==
  ASSUME Work' = {}
  PROVE  InOrder' /\ GradedWork' = {} /\ Cardinality(Work') = 0 /\ Cardinality(GradedWork') = 0
<1>1. GradedWork' = {} BY DEF GradedWork
<1>2. Cardinality({}) = 0 BY FS_EmptySet
<1>3. Attempts(Work)' = {} /\ 1..0 = {} BY DEF Attempts
<1>4. Numbered'
  <2> HIDE DEF Work, Attempts
  <2> QED BY <1>2, <1>3 DEF Numbered
<1>5. LatestWaits' BY DEF LatestWaits
<1> QED BY <1>1, <1>2, <1>4, <1>5 DEF InOrder

LEMMA UpsertSaveKeeps ==
  ASSUME CourseworkInvariant, NEW r \in Requests, UpsertSave(r)
  PROVE  CourseworkInvariant'
<1> USE TypesOf DEF CourseworkInvariant
<1>1. PICK found : found = req[r].found OBVIOUS
<1>2. PICK id : id = IF found.id = 0 THEN created + 1 ELSE found.id OBVIOUS
<1>3. /\ UNCHANGED <<submission, sent, progress, access, unlocked, note, grades, refused, overlaps, failures>>
      /\ req[r].at = "upsert" /\ Under(r) /\ id \in AssignmentIds
      /\ assignment.id = 0 \/ assignment.id = id
      /\ assignment' = [found EXCEPT !.id = id]
      /\ created' = IF found.id = 0 THEN id ELSE created
      /\ largest' = IF largest = 0 \/ found.set.limit = 0 THEN 0
                    ELSE IF found.set.limit > largest THEN found.set.limit ELSE largest
  BY <1>1, <1>2 DEF UpsertSave, Goes, At, Under, There
<1>4. Becomes(r, Idle) BY Finishing DEF UpsertSave
<1>5. /\ found \in Assignment /\ created \in 0..MaxAssignments /\ largest \in Nat
      /\ assignment \in Assignment /\ \A s \in SubmissionIds : submission[s].of \in {0, assignment.id}
  BY <1>1 DEF RowsTyped, Sound, Request
<1>6. found.set \in Settings /\ found.set.limit \in Nat BY <1>5, BoundsAreNumbers DEF Assignment
<1>7. /\ assignment' \in Assignment /\ assignment'.id = id /\ assignment'.set = found.set /\ id # 0
  BY <1>3, <1>5 DEF Assignment, AssignmentIds
<1>8. created' \in 0..MaxAssignments BY <1>3, <1>5, BoundsAreNumbers DEF AssignmentIds
<1>9. /\ largest' \in Nat
      /\ largest' > 0 => largest > 0 /\ largest' >= largest /\ found.set.limit \in 1..largest'
  BY <1>3, <1>5, <1>6
<1>10. \A s \in SubmissionIds : submission'[s].of \in {0, assignment'.id} BY <1>3, <1>5, <1>7
<1>11. RowsTyped' BY <1>3, <1>7, <1>8, <1>9, <1>10 DEF RowsTyped
<1>12. Typed' BY <1>4, <1>11, TypedKept
<1>13. SentKnown' BY <1>3, <1>4, IdleAdds, SentAside DEF SentKnown
<1>14. LimitIsKnown' BY <1>7, <1>9 DEF LimitIsKnown
<1>15. Work' = Work /\ (assignment.id = 0 => Work = {})
  BY <1>3, <1>5, <1>7 DEF Work, Of
<1>16. WorkIsLimited'
  <2>1. CASE assignment.id = 0
    <3>1. Cardinality(Work') = 0 BY <1>15, <2>1, EmptyWork
    <3> HIDE DEF Work
    <3> QED BY <1>12, <3>1, LimitFound
  <2>2. CASE assignment.id = id BY <1>4, <1>7, <1>9, <1>12, <1>15, <2>2, IdleAdds, LimitAside
  <2> QED BY <1>3, <2>1, <2>2
<1>17. InOrder => InOrder'
  BY <1>3, <1>15 DEF InOrder, LatestWaits, Numbered, Attempts, Waits
<1>18. ASSUME Takes(req[r]) PROVE Takes(Idle)'
  <2>1. GradedWork' = GradedWork /\ Announced' = Announced
    BY <1>3, <1>15 DEF GradedWork, Announced, Waits
  <2>2. InboxFollows(req[r]) => InboxFollows(Idle)'
    <3> HIDE DEF GradedWork, Announced
    <3> QED BY <1>3, <2>1, NullsHaveTypes DEF InboxFollows
  <2>3. LessonFollows(req[r]) => LessonFollows(Idle)'
    <3>1. Good' = Good BY <1>3 DEF Good
    <3> HIDE DEF Good
    <3> QED BY <1>3, <3>1, LessonAside
  <2> QED BY <1>3, <1>18, <2>2, <2>3 DEF Takes
<1> QED BY <1>3, <1>4, <1>11, <1>13, <1>14, <1>16, <1>17, <1>18, IdleAdds, StepKeeps
LEMMA RemoveDeleteKeeps ==
  ASSUME CourseworkInvariant, NEW r \in Requests, RemoveDelete(r)
  PROVE  CourseworkInvariant'
<1> USE TypesOf DEF CourseworkInvariant
<1>1. PICK id : id = req[r].found.id OBVIOUS
<1>2. /\ UNCHANGED <<created, sent, progress, access, unlocked, note, ghosts, overlaps, failures>>
      /\ req[r].at = "remove" /\ Under(r)
      /\ assignment' = IF assignment.id = id THEN NoAssignment ELSE assignment
      /\ submission' = Cascade(id)
  BY <1>1 DEF RemoveDelete, Goes, At, Under
<1>3. Becomes(r, Idle) BY Finishing DEF RemoveDelete
<1>4. /\ submission \in [SubmissionIds -> Submission] /\ assignment \in Assignment
      /\ \A s \in SubmissionIds : submission[s].of \in {0, assignment.id}
  BY DEF RowsTyped
<1>5. /\ submission' \in [SubmissionIds -> Submission]
      /\ \A s \in SubmissionIds : submission'[s] = IF submission[s].of = id THEN NoSubmission ELSE submission[s]
  BY <1>2, <1>4, NullsHaveTypes DEF Cascade
<1>6. assignment' \in Assignment BY <1>2, <1>4, NullsHaveTypes
<1>7. \A s \in SubmissionIds : submission'[s].of \in {0, assignment'.id}
  BY <1>2, <1>4, <1>5, NullsHaveTypes
<1>8. RowsTyped' BY <1>2, <1>5, <1>6, <1>7 DEF RowsTyped, ghosts
<1>9. Typed' BY <1>3, <1>8, TypedKept
<1>10. SentKnown' BY <1>2, <1>3, <1>5, NullsHaveTypes, IdleAdds, SentAside DEF SentKnown
<1>11. LimitIsKnown' BY <1>2, NullsHaveTypes DEF LimitIsKnown, There, ghosts
<1>12. Announced' = Announced BY <1>2 DEF Announced
<1>13. \A s \in SubmissionIds : submission'[s].good => submission[s].good BY <1>5, NullsHaveTypes
<1>14. LessonFollows(req[r]) => LessonFollows(Idle)'
  <2>1. Good' \subseteq Good BY <1>13 DEF Good
  <2> HIDE DEF Good
  <2> QED BY <1>2, <2>1, LessonAside DEF ghosts
<1>15. CASE assignment.id = id
  <2>1. Work' = {} BY <1>2, <1>15, NullsHaveTypes DEF Work, Of
  <2>2. Cardinality(Work') = 0 /\ Cardinality(GradedWork') = 0 /\ InOrder' BY <2>1, EmptyWork
  <2>3. WorkIsLimited'
    <3> HIDE DEF Work
    <3> QED BY <1>9, <2>2, LimitFound
  <2>4. InboxFollows(Idle)'
    <3>1. Cardinality(Announced') \in Nat /\ refused' \in Nat
      BY <1>8, SetsStayFinite DEF Counted, RowsTyped
    <3> HIDE DEF GradedWork, Announced
    <3> QED BY <2>2, <3>1, NullsHaveTypes DEF InboxFollows
  <2>5. Takes(req[r]) => Takes(Idle)' BY <1>2, <1>14, <2>4 DEF Takes, ghosts
  <2> QED BY <1>2, <1>3, <1>8, <1>10, <1>11, <2>2, <2>3, <2>5, IdleAdds, StepKeeps
<1>16. CASE assignment.id # id
  <2>1. assignment' = assignment BY <1>2, <1>16
  <2>2. \A s \in SubmissionIds : s \in Work => submission'[s] = submission[s]
    BY <1>5, <1>16 DEF Work, Of
  <2>3. Work' = Work BY <1>5, <1>16, <2>1, NullsHaveTypes DEF Work, Of
  <2>4. Work \subseteq SubmissionIds BY SetsAreFinite DEF Counted
  <2>5. WorkIsLimited' BY <1>2, <1>3, <1>4, <1>9, <2>1, <2>3, IdleAdds, LimitAside DEF ghosts, RowsTyped
  <2>6. InOrder => InOrder'
    <3>1. LatestWaits => LatestWaits' BY <2>2, <2>3, <2>4 DEF LatestWaits, Waits
    <3>2. Attempts(Work)' = Attempts(Work) BY <2>2, <2>3, <2>4 DEF Attempts
    <3>3. Numbered => Numbered'
      <4> HIDE DEF Attempts, Work
      <4> QED BY <2>3, <3>2 DEF Numbered
    <3> QED BY <3>1, <3>3 DEF InOrder
  <2>7. GradedWork' = GradedWork BY <2>2, <2>3, <2>4 DEF GradedWork, Waits
  <2>8. InboxFollows(req[r]) => InboxFollows(Idle)'
    <3> HIDE DEF GradedWork, Announced
    <3> QED BY <1>2, <1>12, <2>7, NullsHaveTypes DEF InboxFollows, ghosts
  <2>9. Takes(req[r]) => Takes(Idle)' BY <1>2, <1>14, <2>8 DEF Takes, ghosts
  <2> QED BY <1>2, <1>3, <1>8, <1>10, <1>11, <2>5, <2>6, <2>9, IdleAdds, StepKeeps
<1> QED BY <1>15, <1>16

(* A save that is refused because its assignment is gone.                   *)
LEMMA RefusedKeeps ==
  ASSUME CourseworkInvariant, NEW r \in Requests, Under(r), Finish(r),
         req[r].at \in {"saveSubmission", "saveGrade"}, assignment.id # req[r].row.of,
         UNCHANGED <<rows, overlaps, failures>>
  PROVE  CourseworkInvariant'
<1> USE TypesOf DEF CourseworkInvariant
<1>1. Becomes(r, Idle) BY Finishing
<1>2. RowsTyped' BY DEF RowsTyped, rows, ghosts
<1>3. Announced' = Announced BY DEF Announced, rows
<1>4. Takes(req[r]) => Takes(Idle)' BY <1>3, TakesAside DEF rows, ghosts
<1> QED BY <1>1, <1>2, <1>4, IdleAdds, ReadingKeeps DEF rows, ghosts

LEMMA SubmissionSaveKeeps ==
  ASSUME CourseworkInvariant, NEW r \in Requests, SubmissionSave(r)
  PROVE  CourseworkInvariant'
<1> USE TypesOf DEF CourseworkInvariant
<1>1. /\ UNCHANGED <<assignment, created, progress, access, unlocked, note, ghosts, overlaps, failures>>
      /\ req[r].at = "saveSubmission" /\ Under(r)
  BY DEF SubmissionSave, Goes, At, Under
<1>2. CASE assignment.id # req[r].row.of /\ Finish(r) /\ UNCHANGED <<sent, submission>>
  BY <1>1, <1>2, RefusedKeeps DEF rows
<1>3. CASE /\ assignment.id = req[r].row.of /\ sent < MaxSubmissions /\ sent' = sent + 1
           /\ submission' = [submission EXCEPT ![sent + 1] = req[r].row]
           /\ Continue(r, "startLesson")
  <2>1. PICK next : Becomes(r, next) /\ next.at = "startLesson" BY <1>3, GoingOn
  <2>2. PICK s, row : s = sent + 1 /\ row = req[r].row OBVIOUS
  <2>3. /\ submission \in [SubmissionIds -> Submission] /\ row \in Submission /\ sent \in Nat
        /\ row.of = assignment.id /\ row.of # 0 /\ ~row.good /\ row.status = "SUBMITTED"
        /\ \A t \in SubmissionIds : submission[t].of \in {0, assignment.id}
    BY <1>1, <1>3, <2>2, BoundsAreNumbers DEF RowsTyped, Sound, Request
  <2>4. s \in SubmissionIds /\ sent' \in 0..MaxSubmissions /\ \A t \in SubmissionIds : t \in Nat
    BY <1>3, <2>2, <2>3, BoundsAreNumbers DEF SubmissionIds
  <2>5. /\ submission' \in [SubmissionIds -> Submission] /\ submission'[s] = row
        /\ \A t \in SubmissionIds \ {s} : submission'[t] = submission[t]
    BY <1>3, <2>2, <2>3, <2>4
  <2>6. RowsTyped' BY <1>1, <2>3, <2>4, <2>5 DEF RowsTyped, ghosts
  <2>7. /\ Typed' /\ req'[r] = next /\ \A q \in Requests \ {r} : req'[q] = req[q]
    BY <2>1, <2>6, TypedKept
  <2>8. SentKnown'
    <3>1. \A t \in SubmissionIds : t > sent' => submission'[t].of = 0
      BY <1>3, <2>2, <2>3, <2>4, <2>5 DEF SentKnown
    <3>2. \A q \in Requests : WasSent(req[q])'
      <4>1. ASSUME NEW q \in Requests \ {r} PROVE WasSent(req[q])'
        <5>1. req[q].at = "saveGrade" => req[q].sub <= sent BY DEF SentKnown, WasSent
        <5>2. req[q].sub \in Nat
          <6>1. req[q].sub \in SubmissionIds \union {0} BY DEF Sound, Request
          <6> QED BY <2>4, <6>1
        <5> QED BY <1>3, <2>3, <2>7, <5>1, <5>2 DEF WasSent
      <4>2. WasSent(req[r])' BY <2>1, <2>7 DEF WasSent
      <4> QED BY <4>1, <4>2
    <3> QED BY <3>1, <3>2 DEF SentKnown
  <2>9. LimitIsKnown' BY <1>1 DEF LimitIsKnown, There, ghosts
  <2>10. s \notin Work /\ Work' = Work \union {s} /\ Work \subseteq SubmissionIds
    <3>1. submission[s].of = 0 BY <2>2, <2>3, <2>4 DEF SentKnown
    <3>2. s \notin Work /\ Work \subseteq SubmissionIds BY <3>1 DEF Work, Of
    <3>3. Work' = Work \union {s} BY <1>1, <2>3, <2>4, <2>5 DEF Work, Of
    <3> QED BY <3>2, <3>3
  <2>11. WorkIsLimited'
    <3>1. Adding(req[r]) BY <1>1, <1>3 DEF Adding
    <3> QED BY <1>1, <2>1, <2>7, <2>10, <3>1, LimitUsed DEF ghosts
  <2>12. PICK n : n = Cardinality(Work) OBVIOUS
  <2>13. n \in Nat /\ Cardinality(Work') = n + 1
    BY <2>10, <2>12, SetsAreFinite, FS_AddElement DEF Counted
  <2>14. ASSUME InOrder, Knows(req[r]) PROVE InOrder'
    <3>1. row.attempt = n + 1 /\ \A t \in Work : ~Waits(t) BY <1>1, <2>2, <2>12, <2>14 DEF Knows
    <3>2. Attempts(Work) = 1..n BY <2>12, <2>14 DEF InOrder, Numbered
    <3>3. \A t \in Work : submission[t].attempt \in 1..n BY <3>2 DEF Attempts
    <3>4. \A t \in Work : t # s /\ t \in SubmissionIds BY <2>10
    <3>5. LatestWaits'
      <4>1. \A t \in Work : ~Waits(t)' /\ submission'[t].attempt < submission'[s].attempt
        BY <2>5, <2>13, <3>1, <3>3, <3>4 DEF Waits
      <4> QED BY <2>10, <4>1 DEF LatestWaits
    <3>6. Attempts(Work)' = Attempts(Work) \union {n + 1}
      BY <2>5, <2>10, <3>1, <3>4 DEF Attempts
    <3>7. Attempts(Work)' = 1..(n + 1)
      <4> HIDE DEF Attempts
      <4> QED BY <2>13, <3>2, <3>6
    <3>8. Numbered' BY <2>13, <3>7 DEF Numbered
    <3> QED BY <3>5, <3>8 DEF InOrder
  <2>15. ASSUME Takes(req[r]) PROVE Takes(next)'
    <3>1. Announced' = Announced BY <1>1 DEF Announced
    <3>2. GradedWork' = GradedWork BY <2>3, <2>5, <2>10 DEF GradedWork, Waits
    <3>3. InboxFollows(req[r]) => InboxFollows(next)'
      <4> HIDE DEF GradedWork, Announced
      <4> QED BY <1>1, <2>1, <3>1, <3>2 DEF InboxFollows, ghosts
    <3>4. LessonFollows(req[r]) => LessonFollows(next)'
      <4>1. Good' \subseteq Good BY <2>3, <2>4, <2>5 DEF Good
      <4> HIDE DEF Good
      <4> QED BY <1>1, <4>1, LessonAside DEF ghosts
    <3> QED BY <1>1, <2>15, <3>3, <3>4 DEF Takes, ghosts
  <2>16. Knows(next)' BY <2>1 DEF Knows
  <2> QED BY <1>1, <2>1, <2>6, <2>8, <2>9, <2>11, <2>14, <2>15, <2>16, StepKeeps
<1> QED BY <1>2, <1>3 DEF SubmissionSave
LEMMA GradeSaveKeeps ==
  ASSUME CourseworkInvariant, NEW r \in Requests, GradeSave(r)
  PROVE  CourseworkInvariant'
<1> USE TypesOf DEF CourseworkInvariant
<1>1. PICK row, s : row = req[r].row /\ s = req[r].sub OBVIOUS
<1>2. /\ UNCHANGED <<assignment, created, sent, progress, access, unlocked, note, ghosts, overlaps, failures>>
      /\ req[r].at = "saveGrade" /\ Under(r)
  BY DEF GradeSave, Goes, At, Under
<1>3. CASE assignment.id # row.of /\ Finish(r) /\ UNCHANGED submission
  BY <1>1, <1>2, <1>3, RefusedKeeps DEF rows
<1>4. CASE /\ assignment.id = row.of /\ submission' = [submission EXCEPT ![s] = row]
           /\ Continue(r, AfterGrade(row))
  <2>1. AfterGrade(row) \in {"completeLesson", "notify"} /\ (row.good => AfterGrade(row) = "completeLesson")
    BY DEF AfterGrade
  <2>2. PICK next : Becomes(r, next) /\ next.at = AfterGrade(row) BY <1>4, <2>1, GoingOn
  <2>3. /\ submission \in [SubmissionIds -> Submission] /\ row \in Submission
        /\ row.of = assignment.id /\ row.of # 0 /\ s \in SubmissionIds /\ s <= sent /\ sent \in Nat
        /\ \A t \in SubmissionIds : submission[t].of \in {0, assignment.id}
    BY <1>1, <1>2, <1>4 DEF RowsTyped, Sound, Request, SentKnown, WasSent
  <2>4. /\ submission' \in [SubmissionIds -> Submission] /\ submission'[s] = row
        /\ \A t \in SubmissionIds \ {s} : submission'[t] = submission[t]
    BY <1>4, <2>3
  <2>5. RowsTyped' BY <1>2, <2>3, <2>4 DEF RowsTyped, ghosts
  <2>6. Typed' BY <2>2, <2>5, TypedKept
  <2>7. SentKnown'
    <3>1. \A t \in SubmissionIds : t > sent => submission'[t].of = 0
      BY <2>3, <2>4, SetsAreFinite DEF SentKnown, Counted
    <3> QED BY <1>2, <2>1, <2>2, <3>1, SentAside DEF WasSent
  <2>8. LimitIsKnown' BY <1>2 DEF LimitIsKnown, There, ghosts
  <2>9. Work' = Work \union {s} /\ Work \subseteq SubmissionIds
    BY <1>2, <2>3, <2>4 DEF Work, Of
  <2>10. Adding(req[r]) \/ s \in Work BY <1>1, <1>2, <1>4 DEF Adding
  <2>11. WorkIsLimited' BY <1>2, <2>1, <2>2, <2>6, <2>9, <2>10, LimitUsed DEF ghosts
  <2>12. ASSUME Knows(req[r])
         PROVE  Work' = Work /\ s \in Work /\ row.attempt = submission[s].attempt /\ ~Waits(s)'
    BY <1>1, <1>2, <2>4, <2>9, <2>12 DEF Knows, Waits
  <2>13. ASSUME InOrder, Knows(req[r]) PROVE InOrder'
    <3>1. \A t \in Work : submission'[t].attempt = submission[t].attempt /\ (Waits(t)' => Waits(t))
      BY <2>4, <2>9, <2>12, <2>13 DEF Waits
    <3>2. LatestWaits' BY <2>12, <2>13, <3>1 DEF InOrder, LatestWaits
    <3>3. Attempts(Work)' = Attempts(Work) BY <2>12, <2>13, <3>1 DEF Attempts
    <3>4. Numbered'
      <4> HIDE DEF Attempts, Work
      <4> QED BY <2>12, <2>13, <3>3 DEF InOrder, Numbered
    <3> QED BY <3>2, <3>4 DEF InOrder
  <2>14. ASSUME Knows(req[r]), Takes(req[r]) PROVE Takes(next)'
    <3>1. Announced' = Announced BY <1>2 DEF Announced
    <3>2. GradedWork' \subseteq GradedWork \union {s}
      BY <2>4, <2>9 DEF GradedWork, Waits
    <3>3. /\ IsFiniteSet(GradedWork) /\ Cardinality(GradedWork) \in Nat
          /\ Cardinality(GradedWork') \in Nat /\ Cardinality(Announced) \in Nat
      BY SetsAreFinite, SetsStayFinite DEF Counted
    <3>4. /\ IsFiniteSet(GradedWork \union {s})
          /\ Cardinality(GradedWork \union {s}) \in {Cardinality(GradedWork), Cardinality(GradedWork) + 1}
      BY <3>3, FS_AddElement
    <3>5. Cardinality(GradedWork') <= Cardinality(GradedWork \union {s}) BY <3>2, <3>4, FS_Subset
    <3>6. refused \in Nat /\ UNCHANGED refused BY <1>2 DEF RowsTyped, ghosts
    <3>7. InboxFollows(req[r]) => InboxFollows(next)'
      <4> HIDE DEF GradedWork, Announced
      <4> QED BY <1>2, <2>1, <2>2, <3>1, <3>3, <3>4, <3>5, <3>6 DEF InboxFollows
    <3>8. LessonFollows(req[r]) => LessonFollows(next)'
      <4>1. CASE ~row.good
        <5>1. Good' \subseteq Good BY <2>3, <2>4, <4>1 DEF Good
        <5> HIDE DEF Good
        <5> QED BY <1>2, <3>6, <5>1, LessonAside
      <4>2. CASE row.good
        <5>1. Good' \subseteq Good \union {s} BY <2>4 DEF Good
        <5>2. /\ IsFiniteSet(Good) /\ Cardinality(Good) \in Nat /\ Cardinality(Good') \in Nat
          BY SetsAreFinite, SetsStayFinite DEF Counted
        <5>3. /\ IsFiniteSet(Good \union {s})
              /\ Cardinality(Good \union {s}) \in {Cardinality(Good), Cardinality(Good) + 1}
          BY <5>2, FS_AddElement
        <5>4. Cardinality(Good') <= Cardinality(Good \union {s}) BY <5>1, <5>3, FS_Subset
        <5>5. next.at = "completeLesson" BY <2>1, <2>2, <4>2
        <5> HIDE DEF Good
        <5> QED BY <1>2, <3>6, <5>2, <5>3, <5>4, <5>5 DEF LessonFollows
      <4>3. row.good \in BOOLEAN BY <2>3 DEF Submission
      <4> QED BY <4>1, <4>2, <4>3
    <3> QED BY <1>2, <2>14, <3>7, <3>8 DEF Takes, ghosts
  <2>15. Knows(next)' BY <2>1, <2>2 DEF Knows
  <2> QED BY <1>2, <2>2, <2>5, <2>7, <2>8, <2>11, <2>13, <2>14, <2>15, StepKeeps
<1>5. AfterGrade(row) # "idle" BY DEF AfterGrade
<1> QED BY <1>1, <1>3, <1>4, <1>5 DEF GradeSave

-----------------------------------------------------------------------------
(* What happens beside the requests.                                       *)
LEMMA BesideKeeps ==
  ASSUME CourseworkInvariant, RowsTyped', Arrives, Announced' = Announced,
         UNCHANGED <<assignment, created, submission, sent, progress, ghosts, req>>
  PROVE  CourseworkInvariant'
<1> USE TypesOf DEF CourseworkInvariant
<1>1. Typed' BY DEF RowsTyped, Typed, TypeOK
<1>2. Work' = Work /\ GradedWork' = GradedWork BY DEF Work, Of, GradedWork, Waits
<1>3. SentKnown' BY DEF SentKnown, WasSent
<1>4. LimitIsKnown' BY DEF LimitIsKnown, There, ghosts
<1>5. Adders' = Adders BY <1>2 DEF Adders, Adding
<1>6. WorkIsLimited'
  <2> HIDE DEF Work, Adders
  <2> QED BY <1>2, <1>5 DEF WorkIsLimited, ghosts
<1>7. InOrder => InOrder' BY <1>2 DEF InOrder, LatestWaits, Numbered, Attempts, Waits
<1>8. ASSUME overlaps' = 0 PROVE InOrder' /\ OneFollows'
  <2>1. overlaps = 0 /\ \A q \in Requests : ~Under(q) BY <1>8, ArrivesType
  <2>2. \A q \in Requests : req[q] = Idle /\ req'[q] = Idle BY <2>1 DEF Sound, Under
  <2>3. \A q \in Requests : Takes(Idle) BY <2>1, <2>2 DEF OneFollows, OthersIdle
  <2>4. Takes(Idle) => Takes(Idle)'
    <3>1. failures' = failures BY DEF Arrives
    <3> QED BY <3>1, TakesAside, NullsHaveTypes DEF ghosts
  <2>5. OneFollows' BY <2>2, <2>3, <2>4, IdleAdds, NullsHaveTypes DEF OneFollows, Under
  <2> QED BY <1>7, <2>1, <2>5
<1> QED BY <1>1, <1>3, <1>4, <1>6, <1>8

LEMMA LearnerKeeps ==
  ASSUME CourseworkInvariant, ChangeAccess \/ ChangeGate \/ MarkAllRead \/ \E n \in NoteIds : RemoveNote(n)
  PROVE  CourseworkInvariant'
<1> USE TypesOf DEF CourseworkInvariant
<1>1. /\ UNCHANGED <<assignment, created, submission, sent, progress, ghosts, req>> /\ Arrives
      /\ access' \in BOOLEAN /\ unlocked' \in BOOLEAN
  BY DEF ChangeAccess, ChangeGate, MarkAllRead, RemoveNote, RowsTyped
<1>2. note \in [NoteIds -> Notification] BY DEF RowsTyped
<1>3. /\ note' \in [NoteIds -> Notification]
      /\ \A n \in NoteIds : note'[n] = "NONE" <=> note[n] = "NONE"
  <2>1. CASE ChangeAccess \/ ChangeGate BY <1>2, <2>1 DEF ChangeAccess, ChangeGate
  <2>2. CASE MarkAllRead BY <1>2, <2>2 DEF MarkAllRead, Notification
  <2>3. ASSUME NEW n \in NoteIds, RemoveNote(n)
        PROVE  /\ note' \in [NoteIds -> Notification]
               /\ \A m \in NoteIds : note'[m] = "NONE" <=> note[m] = "NONE"
    BY <1>2, <2>3 DEF RemoveNote, Notification
  <2> QED BY <2>1, <2>2, <2>3
<1>4. Announced' = Announced BY <1>3 DEF Announced
<1>5. RowsTyped' BY <1>1, <1>3, ArrivesType DEF RowsTyped, ghosts, Arrives
<1> QED BY <1>1, <1>4, <1>5, BesideKeeps
-----------------------------------------------------------------------------
(* The invariant.                                                          *)
LEMMA InitialWork == Init => CourseworkInvariant
<1> SUFFICES ASSUME Init PROVE CourseworkInvariant OBVIOUS
<1>1. RowsTyped
  <2>1. /\ submission \in [SubmissionIds -> Submission] /\ note \in [NoteIds -> Notification]
        /\ assignment \in Assignment /\ \A s \in SubmissionIds : submission[s].of = 0
    BY NullsHaveTypes DEF Init, Notification
  <2>2. /\ 0 \in 0..MaxAssignments /\ 0 \in 0..MaxSubmissions /\ 0 \in 0..MaxGrades
        /\ 0 \in Nat /\ 1 \in Nat
    BY BoundsAreNumbers
  <2>3. /\ created = 0 /\ sent = 0 /\ progress = "NOT_STARTED" /\ access = TRUE /\ grades = 0
        /\ unlocked \in BOOLEAN /\ largest = 1 /\ refused = 0 /\ overlaps = 0 /\ failures = 0
    BY DEF Init
  <2> QED BY <2>1, <2>2, <2>3 DEF RowsTyped
<1>2. \A r \in Requests : req[r] = Idle BY DEF Init
<1>3. Typed BY <1>1, <1>2, TypesOf, NullsHaveTypes DEF Init, Sound
<1>4. SentKnown BY <1>2, IdleAdds, NullsHaveTypes DEF Init, SentKnown, WasSent
<1>5. LimitIsKnown BY NullsHaveTypes DEF Init, LimitIsKnown, There
<1>6. Work = {} /\ assignment.id = 0 BY NullsHaveTypes DEF Init, Work, Of
<1>7. Cardinality({}) = 0 /\ GradedWork = {} /\ Attempts(Work) = {} /\ 1..0 = {}
  BY <1>6, FS_EmptySet DEF GradedWork, Attempts
<1>8. InOrder
  <2>1. LatestWaits BY <1>6 DEF LatestWaits
  <2>2. Numbered
    <3> HIDE DEF Work, Attempts
    <3> QED BY <1>6, <1>7 DEF Numbered
  <2> QED BY <2>1, <2>2 DEF InOrder
<1>9. WorkIsLimited
  <2>1. Cardinality(Work) = 0 /\ Cardinality(Adders) = 0
    <3>1. Adders = {} BY <1>2, NullsHaveTypes DEF Adders, Adding
    <3> HIDE DEF Work, Adders
    <3> QED BY <1>6, <1>7, <3>1
  <2>2. largest = 1 BY DEF Init
  <2> HIDE DEF Work, Adders
  <2> QED BY <2>1, <2>2, BoundsAreNumbers DEF WorkIsLimited
<1>10. Knows(Idle) BY NullsHaveTypes DEF Knows
<1>11. Takes(Idle)
  <2>1. LessonFollows(Idle)
    <3>1. Good = {} BY NullsHaveTypes DEF Init, Good
    <3>2. refused = 0 BY DEF Init
    <3> HIDE DEF Good
    <3> QED BY <1>7, <3>1, <3>2, NullsHaveTypes DEF LessonFollows
  <2>2. Cardinality(Announced) \in Nat /\ refused = 0 BY SetsAreFinite DEF Counted, Init
  <2>3. InboxFollows(Idle)
    <3> HIDE DEF GradedWork, Announced
    <3> QED BY <1>7, <2>2, NullsHaveTypes DEF InboxFollows
  <2> QED BY <2>1, <2>3 DEF Takes
<1>12. OneFollows BY <1>2, <1>10, <1>11, NullsHaveTypes DEF OneFollows, Under
<1> QED BY <1>3, <1>4, <1>5, <1>8, <1>9, <1>12 DEF CourseworkInvariant

LEMMA StutterKeeps == CourseworkInvariant /\ UNCHANGED vars => CourseworkInvariant'
<1> SUFFICES ASSUME CourseworkInvariant, UNCHANGED vars PROVE CourseworkInvariant' OBVIOUS
<1>1. UNCHANGED <<assignment, created, submission, sent, progress, access, unlocked, note, grades, largest, refused,
                  req, overlaps, failures>>
  BY DEF vars, rows, ghosts
<1>2. Typed' BY <1>1 DEF CourseworkInvariant, Typed, TypeOK
<1>3. Work' = Work /\ Adders' = Adders BY <1>1 DEF Work, Of, Adders, Adding
<1>4. WorkIsLimited'
  <2> HIDE DEF Work, Adders
  <2> QED BY <1>1, <1>3 DEF WorkIsLimited, CourseworkInvariant
<1>5. SentKnown' /\ LimitIsKnown'
  BY <1>1 DEF CourseworkInvariant, SentKnown, WasSent, LimitIsKnown, There
<1>6. InOrder => InOrder' BY <1>1, <1>3 DEF InOrder, LatestWaits, Numbered, Attempts, Waits
<1>7. ASSUME OneFollows PROVE OneFollows'
  <2>1. GradedWork' = GradedWork /\ Announced' = Announced /\ Good' = Good
    BY <1>1, <1>3 DEF GradedWork, Announced, Waits, Good
  <2>2. ASSUME NEW q, Takes(q) PROVE Takes(q)'
    <3>1. InboxFollows(q) => InboxFollows(q)'
      <4> HIDE DEF GradedWork, Announced
      <4> QED BY <1>1, <2>1 DEF InboxFollows
    <3>2. LessonFollows(q) => LessonFollows(q)'
      <4> HIDE DEF Good
      <4> QED BY <1>1, <2>1 DEF LessonFollows
    <3> QED BY <1>1, <2>2, <3>1, <3>2 DEF Takes
  <2>3. ASSUME NEW q, Knows(q) PROVE Knows(q)' BY <1>1, <1>3, <2>3 DEF Knows, Waits
  <2> QED BY <1>1, <1>7, <2>2, <2>3 DEF OneFollows, OthersIdle, Under
<1> QED BY <1>1, <1>2, <1>4, <1>5, <1>6, <1>7 DEF CourseworkInvariant

LEMMA StepsKeep == CourseworkInvariant /\ [Next]_vars => CourseworkInvariant'
<1> SUFFICES ASSUME CourseworkInvariant, [Next]_vars PROVE CourseworkInvariant' OBVIOUS
<1>1. ASSUME NEW r \in Requests, Step(r) PROVE CourseworkInvariant'
  BY <1>1, UpsertSaveKeeps, UpsertRefusedKeeps, RemoveDeleteKeeps, SubmissionSaveKeeps, StartLessonKeeps,
     GradeSaveKeeps, CompleteLessonKeeps, NotifyKeeps, SaveReadKeeps DEF Step
<1>2. ASSUME NEW r \in Requests, Fail(r) \/ RemoveAssignment(r) \/ Submit(r) PROVE CourseworkInvariant'
  BY <1>2, FailKeeps, RemoveAssignmentKeeps, SubmitKeeps
<1>3. ASSUME NEW r \in Requests, NEW set \in Settings, Upsert(r, set) PROVE CourseworkInvariant'
  BY <1>3, UpsertKeeps
<1>4. ASSUME NEW r \in Requests, NEW s \in SubmissionIds, NEW score \in 0..MaxPoints, Grade(r, s, score)
      PROVE  CourseworkInvariant'
  BY <1>4, GradeKeeps
<1>5. ASSUME NEW r \in Requests, NEW n \in NoteIds, MarkRead(r, n) PROVE CourseworkInvariant'
  BY <1>5, MarkReadKeeps
<1>6. CASE ChangeAccess \/ ChangeGate \/ MarkAllRead \/ \E n \in NoteIds : RemoveNote(n) BY <1>6, LearnerKeeps
<1>7. CASE UNCHANGED vars BY <1>7, StutterKeeps
<1> QED BY <1>1, <1>2, <1>3, <1>4, <1>5, <1>6, <1>7 DEF Next

LEMMA CourseworkAlways == Spec => []CourseworkInvariant
BY InitialWork, StepsKeep, PTL DEF Spec

-----------------------------------------------------------------------------
(* Whatever requests overlap and fail, every state is well typed, every     *)
(* submission belongs to the assignment there is, and submissions exceed    *)
(* the largest limit by less than the number of requests; and once no       *)
(* request has overlapped another, one submission at most waits for its     *)
(* grade, the latest, and attempts are numbered without gaps.               *)
THEOREM SubmissionsAlwaysStayInOrder == Spec => []SubmissionsStayInOrder
<1>1. CourseworkInvariant => SubmissionsStayInOrder
  <2> SUFFICES ASSUME CourseworkInvariant PROVE SubmissionsStayInOrder OBVIOUS
  <2>1. Quiet => InOrder BY DEF CourseworkInvariant, Quiet
  <2>2. OneAwaitsItsGrade BY <2>1 DEF OneAwaitsItsGrade, InOrder, LatestWaits, Waits
  <2>3. AttemptsAreNumbered BY <2>1 DEF AttemptsAreNumbered, InOrder, Numbered, Attempts
  <2>4. SubmissionsAreLimited
    <3>1. Sending \subseteq Adders BY DEF Sending, Adders, Adding, At
    <3>2. /\ IsFiniteSet(Adders) /\ Cardinality(Adders) \in Nat /\ Cardinality(Work) \in Nat
      BY SetsAreFinite DEF Counted
    <3>3. Cardinality(Sending) <= Cardinality(Adders) /\ Cardinality(Sending) \in Nat
      BY <3>1, <3>2, FS_Subset, FS_CardinalityType
    <3>4. largest \in Nat BY DEF CourseworkInvariant, Typed, TypeOK
    <3> HIDE DEF Sending, Adders, Work
    <3> QED BY <3>2, <3>3, <3>4, BoundsAreNumbers DEF SubmissionsAreLimited, WorkIsLimited, CourseworkInvariant
  <2> QED BY <2>2, <2>3, <2>4 DEF SubmissionsStayInOrder, CourseworkInvariant, Typed
<1> QED BY <1>1, CourseworkAlways, PTL

(* While nothing has overlapped or failed, passing scores complete the      *)
(* lesson and grades are announced, whichever submission was graded or     *)
(* graded again, but for the passes at which the lesson was refused: the    *)
(* enrollment had no access, or its gate was not open.                     *)
THEOREM GradesAlwaysTakeEffect == Spec => []GradesTakeEffect
<1>1. CourseworkInvariant => GradesTakeEffect
  <2> SUFFICES ASSUME CourseworkInvariant PROVE GradesTakeEffect OBVIOUS
  <2>1. PICK r \in Requests : TRUE BY RequestAssumption
  <2>2. ASSUME Quiet PROVE LessonFollows(Idle) /\ InboxFollows(Idle)
    <3>1. req[r] = Idle BY <2>1, <2>2 DEF Quiet, Under, CourseworkInvariant, Typed, Sound
    <3>2. Takes(Idle) BY <2>1, <2>2, <3>1 DEF Quiet, CourseworkInvariant, OneFollows, OthersIdle
    <3> QED BY <2>2, <3>2 DEF Takes, Quiet
  <2>3. /\ Cardinality(GradedWork) \in Nat /\ Cardinality(Announced) \in Nat
        /\ Cardinality(Good) \in Nat /\ refused \in Nat
    BY SetsAreFinite DEF Counted, CourseworkInvariant, Typed, TypeOK
  <2>4. PassesCompleteTheLesson
    <3> HIDE DEF Good
    <3> QED BY <2>2, <2>3, NullsHaveTypes DEF PassesCompleteTheLesson, LessonFollows
  <2>5. ASSUME Quiet PROVE Cardinality(GradedWork) <= Cardinality(Announced) + refused
    <3> HIDE DEF GradedWork, Announced
    <3> QED BY <2>2, <2>3, <2>5, NullsHaveTypes DEF InboxFollows
  <2>6. GradesAreAnnounced BY <2>5 DEF GradesAreAnnounced, GradedWork, Waits, Announced
  <2> QED BY <2>4, <2>6 DEF GradesTakeEffect
<1> QED BY <1>1, CourseworkAlways, PTL
=============================================================================
