------------------------ MODULE CohortWaitlistProofs ------------------------
(***************************************************************************)
(* Theorems about CohortWaitlist, for any number of learners, requests and *)
(* capacities: types; and, as long as nothing overlaps the edits of staff, *)
(* that seats are not oversold, that counters and positions are those of   *)
(* the rows, and that the cohort implements SeatQueue.                     *)
(***************************************************************************)
EXTENDS CohortWaitlist, FiniteSetTheorems, SequenceTheorems, TLAPS

(***************************************************************************)
(* Type correctness, with or without overlapping staff handlers.           *)
(***************************************************************************)

(* A cardinality of learners is a natural number.                          *)
LEMMA CountIsNat ==
  ASSUME NEW S \in SUBSET Users
  PROVE  IsFiniteSet(S) /\ Cardinality(S) \in Nat
  BY UsersAssumption, FS_Subset, FS_CardinalityType

LEMMA NewRowType == ASSUME NEW c \in Capacities PROVE NewRow(c) \in Row
  BY DEF NewRow, Row, CohortStatus

LEMMA IdleType ==
  /\ Idle \in [op: {"idle", "join"} \union StaffOps,
               user: Users \union {NoUser}, row: Row]
  /\ Idle.op # "join"
  <1>1. (CHOOSE c \in Capacities : TRUE) \in Capacities
    BY CapacityAssumption
  <1>2. Idle.row \in Row
    BY <1>1, NewRowType DEF Idle
  <1>. QED
    BY <1>2 DEF Idle

LEMMA InitTypeOK == Init => TypeOK
  <1> SUFFICES ASSUME Init PROVE TypeOK
    OBVIOUS
  <1>1. cohort \in Row
    BY NewRowType DEF Init
  <1>2. memberStatus \in [Users -> MemberStatus]
    BY DEF Init, MemberStatus
  <1>3. req \in [Requests -> [op: {"idle", "join"} \union StaffOps,
                             user: Users \union {NoUser}, row: Row]]
    BY IdleType DEF Init
  <1>4. deleted \in BOOLEAN
    BY DEF Init
  <1>5. waitlistPosition \in [Users -> Int] /\ createdAt \in [Users -> Nat]
    BY DEF Init
  <1>6. \A r \in Requests : req[r].op # "join"
    BY DEF Init, Idle
  <1>. QED
    BY <1>1, <1>2, <1>3, <1>4, <1>5, <1>6 DEF TypeOK

(* Every conjunct of a learner's departure keeps the types.                *)
LEMMA DropTypeOK ==
  ASSUME TypeOK, NEW u \in Users, NEW promoted \in SUBSET Users, Drop(u, promoted)
  PROVE  TypeOK'
  <1> DEFINE queue == Waiting \ ({u} \union promoted)
  <1>1. /\ Cardinality(promoted) \in Nat
        /\ Cardinality(queue) \in Nat
        /\ \A v \in Users : RenumberedPosition(v, queue) \in Int
    <2>1. queue \in SUBSET Users
      BY DEF Waiting
    <2>2. \A v \in Users : {w \in queue : Before(w, v)} \in SUBSET Users
      BY <2>1
    <2>. QED
      BY <2>1, <2>2, CountIsNat DEF RenumberedPosition
  <1>2. cohort' \in Row
    <2>1. /\ EnrolledCountAfter(u, promoted) \in Int
          /\ WaitlistCountAfter(queue) \in Int
      BY <1>1 DEF TypeOK, Row, EnrolledCountAfter, WaitlistCountAfter
    <2>2. cohort' = [cohort EXCEPT !.enrolledCount = EnrolledCountAfter(u, promoted),
                                   !.waitlistCount = WaitlistCountAfter(queue)]
      BY DEF Drop
    <2>. QED
      BY <2>1, <2>2 DEF TypeOK, Row
  <1>3. memberStatus' \in [Users -> MemberStatus]
    BY DEF Drop, TypeOK, MemberStatus
  <1>4. waitlistPosition' \in [Users -> Int]
    <2>1. waitlistPosition' = [v \in Users |->
            IF v \in queue THEN RenumberedPosition(v, queue)
            ELSE IF v \in promoted \union {u} THEN 0 ELSE waitlistPosition[v]]
      BY DEF Drop
    <2>2. waitlistPosition \in [Users -> Int]
      BY DEF TypeOK
    <2> HIDE DEF queue
    <2>. QED
      BY <1>1, <2>1, <2>2
  <1>. QED
    BY <1>2, <1>3, <1>4 DEF Drop, TypeOK

LEMMA NextTypeOK == TypeOK /\ [Next]_vars => TypeOK'
  <1> SUFFICES ASSUME TypeOK, [Next]_vars PROVE TypeOK'
    OBVIOUS
  <1> USE DEF TypeOK
  <1>1. ASSUME NEW r \in Requests, NEW u \in Users, JoinCheck(r, u) PROVE TypeOK'
    BY <1>1, IdleType DEF JoinCheck, Begin, rosterVars
  <1>2. ASSUME NEW r \in Requests, JoinRefused(r) PROVE TypeOK'
    BY <1>2, IdleType DEF JoinRefused, Finish, rosterVars
  <1>3. ASSUME NEW r \in Requests, JoinTransaction(r) PROVE TypeOK'
    <2> DEFINE u == req[r].user
    <2>1. cohort' \in Row
      BY <1>3 DEF JoinTransaction, Row
    <2>2. memberStatus' \in [Users -> MemberStatus]
      BY <1>3 DEF JoinTransaction, MemberStatus
    <2>3. waitlistPosition' \in [Users -> Int]
      BY <1>3 DEF JoinTransaction, Row
    <2>4. createdAt' \in [Users -> Nat]
      <3>1. Cardinality(Members) \in Nat
        BY CountIsNat DEF Members
      <3>2. createdAt' = [createdAt EXCEPT ![u] = RowCreated(u)]
        BY <1>3 DEF JoinTransaction
      <3>3. u \in Users => RowCreated(u) \in Nat
        BY <3>1 DEF RowCreated
      <3>. QED
        BY <3>2, <3>3
    <2>. QED
      BY <1>3, <2>1, <2>2, <2>3, <2>4, IdleType DEF JoinTransaction, Finish
  <1>4. ASSUME NEW u \in Users, LeaveSeat(u) PROVE TypeOK'
    BY <1>4, DropTypeOK DEF LeaveSeat, NextInLine, Waiting
  <1>5. ASSUME NEW u \in Users, LeaveWaitlist(u) PROVE TypeOK'
    BY <1>5, DropTypeOK DEF LeaveWaitlist
  <1>6. ASSUME NEW r \in Requests, NEW op \in StaffOps, Load(r, op) PROVE TypeOK'
    BY <1>6 DEF Load, Begin, rosterVars, StaffOps
  <1>7. ASSUME NEW r \in Requests, NEW row \in Row, Save(r, row) PROVE TypeOK'
    BY <1>7, IdleType DEF Save, Finish, rosterVars
  <1>8. ASSUME NEW r \in Requests, NEW c \in Capacities, NEW s \in CohortStatus,
               UpdateSave(r, c, s)
        PROVE  TypeOK'
    <2>1. [req[r].row EXCEPT !.capacity = c, !.status = s] \in Row
      BY DEF Row
    <2>. QED
      BY <1>7, <1>8, <2>1 DEF UpdateSave
  <1>9. ASSUME NEW r \in Requests, NEW s \in CohortStatus, DetailsSave(r, s)
        PROVE  TypeOK'
    <2>1. [req[r].row EXCEPT !.status = s] \in Row
      BY DEF Row
    <2>. QED
      BY <1>7, <1>9, <2>1 DEF DetailsSave
  <1>10. ASSUME NEW r \in Requests, UpdateRefused(r) PROVE TypeOK'
    BY <1>10, IdleType DEF UpdateRefused, Finish, rosterVars
  <1>11. ASSUME NEW r \in Requests, CancelSave(r) PROVE TypeOK'
    <2>1. [req[r].row EXCEPT !.status = "CANCELLED"] \in Row
      BY DEF Row, CohortStatus
    <2>. QED
      BY <1>7, <1>11, <2>1 DEF CancelSave
  <1>12. ASSUME NEW r \in Requests, Remove(r) PROVE TypeOK'
    BY <1>12, IdleType DEF Remove, Finish, MemberStatus
  <1>13. CASE UNCHANGED vars
    BY <1>13 DEF vars
  <1>. QED
    BY <1>1, <1>2, <1>3, <1>4, <1>5, <1>6, <1>8, <1>9, <1>10, <1>11, <1>12, <1>13
    DEF Next

(* Every column keeps its type in every history, overlapping staff         *)
(* handlers included: an overwritten counter is wrong but never missing.   *)
THEOREM TypeCorrect == Spec => []TypeOK
  BY InitTypeOK, NextTypeOK, PTL DEF Spec
-----------------------------------------------------------------------------
(***************************************************************************)
(* Counters and seats, when staff handlers do not overlap other requests.  *)
(* The invariant needs to know why their saves are harmless: what they     *)
(* loaded is still what is stored.                                         *)
(***************************************************************************)
StaffReadsAreFresh ==
  \A r \in Requests : req[r].op \in StaffOps =>
    /\ req[r].row = cohort
    /\ ~deleted
    /\ req[r].op = "remove" => Members = {}
    /\ \A q \in Requests \ {r} : req[q].op \notin StaffOps

SeatInvariant ==
  /\ TypeOK
  /\ CountsMatchRoster
  /\ NoOversubscription
  /\ StaffReadsAreFresh

(* Nobody is in the middle of a staff handler when a learner commits.      *)
NoStaff == \A r \in Requests : req[r].op \notin StaffOps

LEMMA IdleIsNotStaff == Idle.op \notin StaffOps
  BY DEF Idle, StaffOps

LEMMA InitSeatInvariant == Init => SeatInvariant
  <1> SUFFICES ASSUME Init PROVE SeatInvariant
    OBVIOUS
  <1>1. Enrolled = {} /\ Waiting = {}
    BY DEF Init, Enrolled, Waiting
  <1>2. /\ cohort.enrolledCount = 0
        /\ cohort.waitlistCount = 0
        /\ cohort.capacity \in Nat
    BY CapacityAssumption DEF Init, NewRow
  <1>3. CountsMatchRoster /\ NoOversubscription
    BY <1>1, <1>2, FS_EmptySet DEF CountsMatchRoster, NoOversubscription
  <1>4. StaffReadsAreFresh
    BY IdleIsNotStaff DEF Init, StaffReadsAreFresh
  <1>. QED
    BY <1>3, <1>4, InitTypeOK DEF SeatInvariant

(* When u leaves and promoted are enrolled, the counters follow the rows.  *)
LEMMA DropCounts ==
  ASSUME SeatInvariant, NoStaff,
         NEW u \in Enrolled \union Waiting, NEW promoted \in SUBSET Waiting,
         u \notin promoted,
         \/ promoted = {}
         \/ memberStatus[u] = "ENROLLED" /\ \E w : promoted = {w},
         Drop(u, promoted)
  PROVE  CountsMatchRoster' /\ NoOversubscription' /\ StaffReadsAreFresh'
  <1> USE DEF SeatInvariant
  <1>1. /\ Enrolled' = (Enrolled \ {u}) \union promoted
        /\ Waiting' = Waiting \ ({u} \union promoted)
    BY DEF Drop, Enrolled, Waiting
  <1>2. /\ IsFiniteSet(Enrolled) /\ Cardinality(Enrolled) \in Nat
        /\ IsFiniteSet(Waiting) /\ Cardinality(Waiting) \in Nat
        /\ IsFiniteSet(Enrolled \ {u})
    BY CountIsNat, FS_RemoveElement DEF Enrolled, Waiting
  <1>3. Cardinality(Enrolled \ {u}) =
          Cardinality(Enrolled) - (IF memberStatus[u] = "ENROLLED" THEN 1 ELSE 0)
    <2>1. u \in Enrolled <=> memberStatus[u] = "ENROLLED"
      BY DEF Enrolled, Waiting
    <2>2. Cardinality(Enrolled \ {u}) =
            IF u \in Enrolled THEN Cardinality(Enrolled) - 1 ELSE Cardinality(Enrolled)
      BY <1>2, FS_RemoveElement
    <2>. QED
      BY <1>2, <2>1, <2>2
  <1>4. Cardinality(Enrolled') = EnrolledCountAfter(u, promoted)
    <2>1. CASE promoted = {}
      <3>1. Enrolled' = Enrolled \ {u}
        BY <1>1, <2>1
      <3>. QED
        BY <3>1, <1>2, <1>3, <2>1, FS_EmptySet DEF EnrolledCountAfter, CountsMatchRoster
    <2>2. CASE promoted # {}
      <3>1. PICK w : promoted = {w} /\ memberStatus[u] = "ENROLLED"
        BY <2>2
      <3>2. w \notin Enrolled \ {u}
        BY <3>1 DEF Enrolled, Waiting
      <3>3. Cardinality(Enrolled') = Cardinality(Enrolled \ {u}) + 1
        BY <1>1, <1>2, <3>1, <3>2, FS_AddElement
      <3>4. Cardinality(promoted) = 1
        BY <3>1, FS_Singleton
      <3>. QED
        BY <1>2, <1>3, <3>1, <3>3, <3>4 DEF EnrolledCountAfter, CountsMatchRoster
    <2>. QED
      BY <2>1, <2>2
  <1>5. /\ cohort'.enrolledCount = EnrolledCountAfter(u, promoted)
        /\ cohort'.waitlistCount = Cardinality(Waiting')
        /\ cohort'.capacity = cohort.capacity
    <2>1. cohort' = [cohort EXCEPT
            !.enrolledCount = EnrolledCountAfter(u, promoted),
            !.waitlistCount = Cardinality(Waiting')]
      BY <1>1 DEF Drop, WaitlistCountAfter
    <2>. QED
      BY <2>1 DEF TypeOK, Row
  <1>6. EnrolledCountAfter(u, promoted) <= Cardinality(Enrolled)
    <2>1. CASE promoted = {}
      BY <2>1, <1>2, FS_EmptySet DEF EnrolledCountAfter, CountsMatchRoster
    <2>2. CASE promoted # {}
      <3>1. Cardinality(promoted) = 1 /\ memberStatus[u] = "ENROLLED"
        BY <2>2, FS_Singleton
      <3>. QED
        BY <3>1, <1>2 DEF EnrolledCountAfter, CountsMatchRoster
    <2>. QED
      BY <2>1, <2>2
  <1>7. NoOversubscription'
    <2>1. cohort.capacity \in Nat /\ Cardinality(Enrolled) <= cohort.capacity
      BY CapacityAssumption DEF NoOversubscription, TypeOK, Row
    <2>2. Enrolled' \in SUBSET Users
      BY <1>1 DEF Enrolled, Waiting
    <2>3. Cardinality(Enrolled') \in Nat
      BY <2>2, CountIsNat
    <2>. QED
      BY <1>2, <1>4, <1>5, <1>6, <2>1, <2>3 DEF NoOversubscription
  <1>8. StaffReadsAreFresh'
    BY DEF Drop, StaffReadsAreFresh, NoStaff
  <1>. QED
    BY <1>4, <1>5, <1>7, <1>8 DEF CountsMatchRoster

(* A new member of the cohort: the seat is free or the waitlist grows.     *)
LEMMA JoinKeepsSeatInvariant ==
  ASSUME StaffOverlap = FALSE, SeatInvariant, NEW r \in Requests, JoinTransaction(r)
  PROVE  CountsMatchRoster' /\ NoOversubscription' /\ StaffReadsAreFresh'
  <1> DEFINE u == req[r].user
  <1> USE DEF SeatInvariant
  <1>1. NoStaff
    BY DEF JoinTransaction, Undisturbed, NoStaff, StaffOps
  <1>2. StaffReadsAreFresh'
    BY <1>1, IdleIsNotStaff
    DEF JoinTransaction, Finish, StaffReadsAreFresh, NoStaff, TypeOK
  <1>3. /\ IsFiniteSet(Enrolled) /\ Cardinality(Enrolled) \in Nat
        /\ IsFiniteSet(Waiting) /\ Cardinality(Waiting) \in Nat
        /\ cohort.capacity \in Nat
    BY CountIsNat, CapacityAssumption DEF Enrolled, Waiting, TypeOK, Row
  <1>4. u \notin Enrolled /\ u \notin Waiting
    BY DEF JoinTransaction, Enrolled, Waiting
  <1>5. u \in Users
    BY DEF JoinTransaction, TypeOK
  <1>6. CASE HasSeat
    <2>1. /\ memberStatus' = [memberStatus EXCEPT ![u] = "ENROLLED"]
          /\ cohort' = [cohort EXCEPT !.enrolledCount = @ + 1]
      BY <1>6 DEF JoinTransaction
    <2>2. Enrolled' = Enrolled \union {u} /\ Waiting' = Waiting
      BY <1>4, <1>5, <2>1 DEF Enrolled, Waiting, TypeOK
    <2>3. Cardinality(Enrolled') = Cardinality(Enrolled) + 1
      BY <1>3, <1>4, <2>2, FS_AddElement
    <2>4. /\ cohort'.enrolledCount = cohort.enrolledCount + 1
          /\ cohort'.waitlistCount = cohort.waitlistCount
          /\ cohort'.capacity = cohort.capacity
      BY <2>1 DEF TypeOK, Row
    <2>. QED
      BY <1>2, <1>3, <1>6, <2>2, <2>3, <2>4
      DEF CountsMatchRoster, NoOversubscription, HasSeat
  <1>7. CASE ~HasSeat
    <2>1. /\ memberStatus' = [memberStatus EXCEPT ![u] = "WAITLISTED"]
          /\ cohort' = [cohort EXCEPT !.waitlistCount = @ + 1]
      BY <1>7 DEF JoinTransaction
    <2>2. Enrolled' = Enrolled /\ Waiting' = Waiting \union {u}
      BY <1>4, <1>5, <2>1 DEF Enrolled, Waiting, TypeOK
    <2>3. Cardinality(Waiting') = Cardinality(Waiting) + 1
      BY <1>3, <1>4, <2>2, FS_AddElement
    <2>4. /\ cohort'.enrolledCount = cohort.enrolledCount
          /\ cohort'.waitlistCount = cohort.waitlistCount + 1
          /\ cohort'.capacity = cohort.capacity
      BY <2>1 DEF TypeOK, Row
    <2>. QED
      BY <1>2, <1>3, <2>2, <2>3, <2>4 DEF CountsMatchRoster, NoOversubscription
  <1>. QED
    BY <1>6, <1>7

(* What a staff handler writes has the counters that are stored.           *)
LEMMA SaveKeepsSeatInvariant ==
  ASSUME SeatInvariant, NEW r \in Requests, NEW row, req[r].op \in StaffOps,
         Save(r, row),
         row.enrolledCount = cohort.enrolledCount,
         row.waitlistCount = cohort.waitlistCount,
         \/ row.capacity = cohort.capacity
         \/ row.capacity \in Nat /\ row.capacity >= cohort.enrolledCount
  PROVE  CountsMatchRoster' /\ NoOversubscription' /\ StaffReadsAreFresh'
  <1> USE DEF SeatInvariant
  <1>1. Enrolled' = Enrolled /\ Waiting' = Waiting /\ cohort' = row
    BY DEF Save, rosterVars, Enrolled, Waiting
  <1>2. CountsMatchRoster' /\ NoOversubscription'
    BY <1>1 DEF CountsMatchRoster, NoOversubscription
  <1>3. \A q \in Requests : req'[q].op \notin StaffOps
    BY IdleIsNotStaff DEF Save, Finish, StaffReadsAreFresh, TypeOK
  <1>. QED
    BY <1>2, <1>3 DEF StaffReadsAreFresh

LEMMA NextSeatInvariant ==
  ASSUME StaffOverlap = FALSE
  PROVE  SeatInvariant /\ [Next]_vars => SeatInvariant'
  <1> SUFFICES ASSUME SeatInvariant, [Next]_vars
               PROVE  CountsMatchRoster' /\ NoOversubscription' /\ StaffReadsAreFresh'
    BY NextTypeOK DEF SeatInvariant
  <1> DEFINE Goal == CountsMatchRoster' /\ NoOversubscription' /\ StaffReadsAreFresh'
  <1> USE DEF SeatInvariant
  <1>1. ASSUME UNCHANGED <<cohort, deleted, rosterVars>>,
               NEW r \in Requests, NEW s, s.op \notin StaffOps,
               req' = [req EXCEPT ![r] = s]
        PROVE  Goal
    <2>1. CountsMatchRoster' /\ NoOversubscription'
      BY <1>1 DEF rosterVars, CountsMatchRoster, NoOversubscription, Enrolled, Waiting
    <2>2. \A q \in Requests : req'[q] = req[q] \/ req'[q].op \notin StaffOps
      BY <1>1 DEF TypeOK
    <2>3. Members' = Members
      BY <1>1 DEF rosterVars, Members
    <2>. QED
      BY <1>1, <2>1, <2>2, <2>3 DEF StaffReadsAreFresh
  <1>2. ASSUME NEW r \in Requests, NEW u \in Users, JoinCheck(r, u) PROVE Goal
    BY <1>1, <1>2 DEF JoinCheck, Begin, StaffOps
  <1>3. ASSUME NEW r \in Requests, JoinRefused(r) PROVE Goal
    BY <1>1, <1>3, IdleIsNotStaff DEF JoinRefused, Finish
  <1>4. ASSUME NEW r \in Requests, JoinTransaction(r) PROVE Goal
    BY <1>4, JoinKeepsSeatInvariant
  <1>5. ASSUME NEW u \in Users, LeaveSeat(u) PROVE Goal
    <2>1. NoStaff /\ u \in Enrolled /\ u \notin Waiting
      BY <1>5 DEF LeaveSeat, Undisturbed, NoStaff, Enrolled, Waiting
    <2>2. PICK promoted \in SUBSET Waiting :
            /\ promoted = {} \/ \E w : promoted = {w}
            /\ Drop(u, promoted)
      BY <1>5 DEF LeaveSeat, NextInLine
    <2>. QED
      BY <1>5, <2>1, <2>2, DropCounts DEF LeaveSeat
  <1>6. ASSUME NEW u \in Users, LeaveWaitlist(u) PROVE Goal
    <2>1. NoStaff /\ u \in Waiting
      BY <1>6 DEF LeaveWaitlist, Undisturbed, NoStaff, Waiting
    <2>. QED
      BY <1>6, <2>1, DropCounts DEF LeaveWaitlist
  <1>7. ASSUME NEW r \in Requests, NEW op \in StaffOps, Load(r, op) PROVE Goal
    <2>1. NoStaff /\ ~deleted /\ (op = "remove" => Members = {})
      BY <1>7 DEF Load, Begin, Undisturbed, NoStaff
    <2>2. /\ UNCHANGED <<cohort, deleted, rosterVars>>
          /\ req' = [req EXCEPT ![r] = [op |-> op, user |-> NoUser, row |-> cohort]]
      BY <1>7 DEF Load, Begin
    <2>3. CountsMatchRoster' /\ NoOversubscription' /\ Members' = Members
      BY <2>2
      DEF rosterVars, CountsMatchRoster, NoOversubscription, Enrolled, Waiting, Members
    <2>4. StaffReadsAreFresh'
      BY <2>1, <2>2, <2>3 DEF StaffReadsAreFresh, NoStaff, TypeOK
    <2>. QED
      BY <2>3, <2>4
  <1>8. ASSUME NEW r \in Requests, NEW c \in Capacities, NEW s \in CohortStatus,
               UpdateSave(r, c, s)
        PROVE  Goal
    <2> DEFINE row == [req[r].row EXCEPT !.capacity = c, !.status = s]
    <2>1. req[r].row = cohort /\ req[r].op \in StaffOps
      BY <1>8 DEF UpdateSave, StaffOps, StaffReadsAreFresh
    <2>2. /\ row.enrolledCount = cohort.enrolledCount
          /\ row.waitlistCount = cohort.waitlistCount
          /\ row.capacity = c /\ c \in Nat
      BY <2>1, CapacityAssumption DEF TypeOK, Row
    <2>3. Save(r, row) /\ c >= cohort.enrolledCount
      BY <1>8, <2>1 DEF UpdateSave
    <2> HIDE DEF row
    <2>. QED
      BY <2>1, <2>2, <2>3, SaveKeepsSeatInvariant
  <1>9. ASSUME NEW r \in Requests, NEW s \in CohortStatus,
               DetailsSave(r, s) \/ CancelSave(r)
        PROVE  Goal
    <2>1. req[r].row = cohort /\ req[r].op \in StaffOps
      BY <1>9 DEF DetailsSave, CancelSave, StaffOps, StaffReadsAreFresh
    <2>2. PICK t : Save(r, [cohort EXCEPT !.status = t])
      BY <1>9, <2>1 DEF DetailsSave, CancelSave
    <2> DEFINE row == [cohort EXCEPT !.status = t]
    <2>3. /\ row.enrolledCount = cohort.enrolledCount
          /\ row.waitlistCount = cohort.waitlistCount
          /\ row.capacity = cohort.capacity
      BY DEF TypeOK, Row
    <2> HIDE DEF row
    <2>4. Save(r, row)
      BY <2>2 DEF row
    <2>. QED
      BY <2>1, <2>3, <2>4, SaveKeepsSeatInvariant
  <1>10. ASSUME NEW r \in Requests, UpdateRefused(r) PROVE Goal
    BY <1>1, <1>10, IdleIsNotStaff DEF UpdateRefused, Finish
  <1>11. ASSUME NEW r \in Requests, Remove(r) PROVE Goal
    <2>1. Members = {} /\ cohort' = cohort
      BY <1>11 DEF Remove, StaffReadsAreFresh, StaffOps
    <2>2. /\ Enrolled = {} /\ Enrolled' = {}
          /\ Waiting = {} /\ Waiting' = {}
      BY <1>11, <2>1 DEF Remove, Enrolled, Waiting, Members
    <2>3. \A q \in Requests : req'[q].op \notin StaffOps
      BY <1>11, IdleIsNotStaff DEF Remove, Finish, StaffReadsAreFresh, StaffOps, TypeOK
    <2>. QED
      BY <2>1, <2>2, <2>3 DEF CountsMatchRoster, NoOversubscription, StaffReadsAreFresh
  <1>12. CASE UNCHANGED vars
    BY <1>12 DEF vars, CountsMatchRoster, NoOversubscription, StaffReadsAreFresh,
                 Enrolled, Waiting, Members
  <1>. QED
    BY <1>2, <1>3, <1>4, <1>5, <1>6, <1>7, <1>8, <1>9, <1>10, <1>11, <1>12
    DEF Next, CohortStatus

(* If no request commits between the read and the write of a staff         *)
(* handler, the enrolled learners never outnumber the seats, however many  *)
(* learners join and leave at once.                                        *)
THEOREM SeatsNeverOversubscribed ==
  ASSUME StaffOverlap = FALSE
  PROVE  Spec => []NoOversubscription
  <1>1. SeatInvariant => NoOversubscription
    BY DEF SeatInvariant
  <1>. QED
    BY <1>1, InitSeatInvariant, NextSeatInvariant, PTL DEF Spec

(* Under the same assumption the counters of the cohort row are those of   *)
(* its member rows.                                                        *)
THEOREM CountersMatch ==
  ASSUME StaffOverlap = FALSE
  PROVE  Spec => []CountsMatchRoster
  <1>1. SeatInvariant => CountsMatchRoster
    BY DEF SeatInvariant
  <1>. QED
    BY <1>1, InitSeatInvariant, NextSeatInvariant, PTL DEF Spec
-----------------------------------------------------------------------------
(***************************************************************************)
(* The waitlist is dense.                                                  *)
(***************************************************************************)
DenseInvariant == SeatInvariant /\ WaitlistIsDense

(* Two waiting learners never hold the same position: n positions for n    *)
(* learners leave none to share.                                           *)
LEMMA PositionsDiffer ==
  ASSUME TypeOK, WaitlistIsDense
  PROVE  \A u, v \in Waiting : waitlistPosition[u] = waitlistPosition[v] => u = v
  <1> DEFINE n == Cardinality(Waiting)
             f == [u \in Waiting |-> waitlistPosition[u]]
  <1>1. IsFiniteSet(Waiting) /\ n \in Nat
    BY CountIsNat DEF Waiting
  <1>2. IsFiniteSet(1..n) /\ Cardinality(1..n) = n
    BY <1>1, FS_Interval
  <1>3. f \in Surjection(Waiting, 1..n)
    BY DEF WaitlistIsDense, Surjection
  <1>4. f \in Injection(Waiting, 1..n)
    BY <1>1, <1>2, <1>3, FS_SurjSameCardinalityImpliesInj
  <1>. QED
    BY <1>4 DEF Injection, IsInjective

(* In a dense waitlist as many learners are ahead as the position says.    *)
LEMMA LearnersAhead ==
  ASSUME TypeOK, WaitlistIsDense, NEW v \in Waiting
  PROVE  Cardinality({w \in Waiting : waitlistPosition[w] < waitlistPosition[v]})
           = waitlistPosition[v] - 1
  <1> DEFINE n == Cardinality(Waiting)
             ahead == {w \in Waiting : waitlistPosition[w] < waitlistPosition[v]}
             below == 1..(waitlistPosition[v] - 1)
             f == [w \in ahead |-> waitlistPosition[w]]
  <1>1. IsFiniteSet(Waiting) /\ n \in Nat
    BY CountIsNat DEF Waiting
  <1>2. waitlistPosition[v] \in 1..n
    BY DEF WaitlistIsDense
  <1>3. \A w \in ahead : waitlistPosition[w] \in below
    BY <1>1, <1>2 DEF WaitlistIsDense
  <1>4. \A p \in below : \E w \in ahead : waitlistPosition[w] = p
    <2> SUFFICES ASSUME NEW p \in below PROVE \E w \in ahead : waitlistPosition[w] = p
      OBVIOUS
    <2>1. p \in 1..n
      BY <1>1, <1>2
    <2>2. PICK w \in Waiting : waitlistPosition[w] = p
      BY <2>1 DEF WaitlistIsDense
    <2>. QED
      BY <1>1, <1>2, <2>2
  <1>5. f \in Bijection(ahead, below)
    BY <1>3, <1>4, PositionsDiffer DEF Bijection, Injection, Surjection, IsInjective
  <1>6. /\ IsFiniteSet(ahead)
        /\ Cardinality(below) = waitlistPosition[v] - 1
    <2>1. IsFiniteSet(ahead)
      BY <1>1, FS_Subset
    <2>2. waitlistPosition[v] - 1 \in Nat
      BY <1>1, <1>2
    <2>3. Cardinality(below) =
            IF 1 > waitlistPosition[v] - 1 THEN 0 ELSE (waitlistPosition[v] - 1) - 1 + 1
      BY <2>2, FS_Interval
    <2>. QED
      BY <2>1, <2>2, <2>3
  <1>7. Cardinality(below) = Cardinality(ahead)
    BY <1>5, <1>6, FS_Bijection DEF ExistsBijection
  <1>. QED
    BY <1>6, <1>7

(* When x goes, those behind x move up by one and nobody else moves.       *)
LEMMA OneMovesUp ==
  ASSUME TypeOK, WaitlistIsDense, NEW x \in Waiting, NEW v \in Waiting \ {x}
  PROVE  RenumberedPosition(v, Waiting \ {x}) =
           IF waitlistPosition[x] < waitlistPosition[v]
           THEN waitlistPosition[v] - 1 ELSE waitlistPosition[v]
  <1> DEFINE ahead == {w \in Waiting : waitlistPosition[w] < waitlistPosition[v]}
             n == Cardinality(Waiting)
  <1>1. IsFiniteSet(Waiting) /\ n \in Nat /\ IsFiniteSet(ahead)
    BY CountIsNat, FS_Subset DEF Waiting
  <1>2. waitlistPosition[v] \in 1..n
    BY DEF WaitlistIsDense
  <1>3. {w \in Waiting \ {x} : Before(w, v)} = ahead \ {x}
    BY PositionsDiffer, <1>1 DEF Before, WaitlistIsDense, TypeOK, Waiting
  <1>4. Cardinality(ahead) = waitlistPosition[v] - 1
    BY LearnersAhead
  <1>5. Cardinality(ahead \ {x}) =
          IF x \in ahead THEN Cardinality(ahead) - 1 ELSE Cardinality(ahead)
    BY <1>1, FS_RemoveElement
  <1>. QED
    BY <1>1, <1>2, <1>3, <1>4, <1>5 DEF RenumberedPosition

(* A departure leaves the others at 1..n-1, or at 1..n when nobody waiting *)
(* has gone.                                                               *)
LEMMA DropKeepsDense ==
  ASSUME DenseInvariant, NEW u \in Enrolled \union Waiting,
         NEW promoted \in SUBSET Waiting,
         \/ Waiting = {} /\ promoted = {}
         \/ \E x \in Waiting : Waiting \ ({u} \union promoted) = Waiting \ {x},
         Drop(u, promoted)
  PROVE  WaitlistIsDense'
  <1> DEFINE queue == Waiting \ ({u} \union promoted)
             n == Cardinality(Waiting)
  <1> USE DEF DenseInvariant, SeatInvariant
  <1>1. IsFiniteSet(Waiting) /\ n \in Nat
    BY CountIsNat DEF Waiting
  <1>2. Waiting' = queue
    BY DEF Drop, Waiting
  <1>3. \A v \in Users : waitlistPosition'[v] =
          IF v \in queue THEN RenumberedPosition(v, queue)
          ELSE IF v \in promoted \union {u} THEN 0 ELSE waitlistPosition[v]
    BY DEF Drop
  <1>4. \A v \in Users \ Waiting' : waitlistPosition'[v] = 0
    <2> SUFFICES ASSUME NEW v \in Users \ queue PROVE waitlistPosition'[v] = 0
      BY <1>2
    <2>1. CASE v \in promoted \union {u}
      BY <1>3, <2>1
    <2>2. CASE v \notin promoted \union {u}
      BY <1>3, <2>2 DEF WaitlistIsDense
    <2>. QED
      BY <2>1, <2>2
  <1>5. {waitlistPosition'[v] : v \in Waiting'} = 1..Cardinality(Waiting')
    <2>1. CASE Waiting = {}
      BY <1>2, <2>1, FS_EmptySet
    <2>2. CASE Waiting # {}
      <3>1. PICK x \in Waiting : queue = Waiting \ {x}
        BY <2>2
      <3>2. Cardinality(queue) = n - 1
        BY <1>1, <3>1, FS_RemoveElement
      <3>3. waitlistPosition[x] \in 1..n
        BY DEF WaitlistIsDense
      <3>4. \A v \in queue :
              /\ waitlistPosition[v] \in 1..n
              /\ waitlistPosition[v] # waitlistPosition[x]
              /\ waitlistPosition'[v] =
                   IF waitlistPosition[x] < waitlistPosition[v]
                   THEN waitlistPosition[v] - 1 ELSE waitlistPosition[v]
        <4> SUFFICES ASSUME NEW v \in queue
                     PROVE  /\ waitlistPosition[v] \in 1..n
                            /\ waitlistPosition[v] # waitlistPosition[x]
                            /\ waitlistPosition'[v] =
                                 IF waitlistPosition[x] < waitlistPosition[v]
                                 THEN waitlistPosition[v] - 1 ELSE waitlistPosition[v]
          OBVIOUS
        <4>1. v \in Waiting \ {x} /\ v \in Users
          BY <3>1 DEF Waiting
        <4>2. waitlistPosition[v] \in 1..n /\ waitlistPosition[v] # waitlistPosition[x]
          BY <4>1, PositionsDiffer DEF WaitlistIsDense
        <4>3. waitlistPosition'[v] = RenumberedPosition(v, Waiting \ {x})
          BY <1>3, <3>1, <4>1
        <4>. QED
          BY <4>1, <4>2, <4>3, OneMovesUp
      <3>5. \A v \in queue : waitlistPosition'[v] \in 1..(n - 1)
        BY <1>1, <3>3, <3>4
      <3>6. \A p \in 1..(n - 1) : \E v \in queue : waitlistPosition'[v] = p
        <4> SUFFICES ASSUME NEW p \in 1..(n - 1)
                     PROVE  \E v \in queue : waitlistPosition'[v] = p
          OBVIOUS
        <4> DEFINE old == IF p < waitlistPosition[x] THEN p ELSE p + 1
        <4>1. old \in 1..n /\ old # waitlistPosition[x]
          BY <1>1, <3>3
        <4>2. PICK v \in Waiting : waitlistPosition[v] = old
          BY <4>1 DEF WaitlistIsDense
        <4>3. v \in queue
          BY <3>1, <4>1, <4>2
        <4>. QED
          BY <1>1, <3>3, <3>4, <4>2, <4>3
      <3>. QED
        BY <1>2, <3>2, <3>5, <3>6
    <2>. QED
      BY <2>1, <2>2
  <1>. QED
    BY <1>4, <1>5 DEF WaitlistIsDense

(* Only joins, leaves and a removal write member rows.                     *)
LEMMA WhoWritesRows ==
  ASSUME [Next]_vars
  PROVE  \/ UNCHANGED rosterVars
         \/ \E r \in Requests : JoinTransaction(r) \/ Remove(r)
         \/ \E u \in Users : LeaveSeat(u) \/ LeaveWaitlist(u)
  <1>1. ASSUME NEW r \in Requests, NEW c \in Capacities, NEW s \in CohortStatus,
               UpdateSave(r, c, s) \/ DetailsSave(r, s)
        PROVE  UNCHANGED rosterVars
    BY <1>1 DEF UpdateSave, DetailsSave, Save, rosterVars
  <1>2. ASSUME NEW r \in Requests, NEW s \in CohortStatus, DetailsSave(r, s)
        PROVE  UNCHANGED rosterVars
    BY <1>2 DEF DetailsSave, Save, rosterVars
  <1>3. ASSUME NEW r \in Requests, UpdateRefused(r) \/ CancelSave(r) \/ JoinRefused(r)
        PROVE  UNCHANGED rosterVars
    BY <1>3 DEF UpdateRefused, CancelSave, JoinRefused, Save, rosterVars
  <1>4. ASSUME NEW r \in Requests, NEW u \in Users, JoinCheck(r, u)
        PROVE  UNCHANGED rosterVars
    BY <1>4 DEF JoinCheck, rosterVars
  <1>5. ASSUME NEW r \in Requests, NEW op \in StaffOps, Load(r, op)
        PROVE  UNCHANGED rosterVars
    BY <1>5 DEF Load, rosterVars
  <1>6. CASE UNCHANGED vars
    BY <1>6 DEF vars, rosterVars
  <1>. QED
    BY <1>1, <1>2, <1>3, <1>4, <1>5, <1>6 DEF Next

LEMMA NextDenseInvariant ==
  ASSUME StaffOverlap = FALSE
  PROVE  DenseInvariant /\ [Next]_vars => DenseInvariant'
  <1> SUFFICES ASSUME DenseInvariant, [Next]_vars PROVE WaitlistIsDense'
    BY NextSeatInvariant DEF DenseInvariant
  <1> USE DEF DenseInvariant, SeatInvariant
  <1>1. ASSUME UNCHANGED rosterVars PROVE WaitlistIsDense'
    BY <1>1 DEF rosterVars, WaitlistIsDense, Waiting
  <1>2. ASSUME NEW r \in Requests, JoinTransaction(r) PROVE WaitlistIsDense'
    <2> DEFINE u == req[r].user
               n == Cardinality(Waiting)
    <2>1. u \in Users /\ u \notin Waiting
      BY <1>2 DEF JoinTransaction, TypeOK, Waiting
    <2>2. IsFiniteSet(Waiting) /\ n \in Nat
      BY CountIsNat DEF Waiting
    <2>3. CASE HasSeat
      <3>1. /\ memberStatus' = [memberStatus EXCEPT ![u] = "ENROLLED"]
            /\ waitlistPosition' = [waitlistPosition EXCEPT ![u] = 0]
        BY <1>2, <2>3 DEF JoinTransaction
      <3>2. Waiting' = Waiting
        BY <2>1, <3>1 DEF Waiting, TypeOK
      <3>3. \A v \in Users \ {u} : waitlistPosition'[v] = waitlistPosition[v]
        BY <3>1 DEF TypeOK
      <3>4. waitlistPosition'[u] = 0
        BY <2>1, <3>1 DEF TypeOK
      <3>5. \A v \in Waiting : waitlistPosition'[v] = waitlistPosition[v]
        BY <2>1, <3>3 DEF Waiting
      <3>. QED
        BY <3>2, <3>3, <3>4, <3>5 DEF WaitlistIsDense
    <2>4. CASE ~HasSeat
      <3>1. /\ memberStatus' = [memberStatus EXCEPT ![u] = "WAITLISTED"]
            /\ waitlistPosition' = [waitlistPosition EXCEPT ![u] = n + 1]
        BY <1>2, <2>4 DEF JoinTransaction, CountsMatchRoster
      <3>2. Waiting' = Waiting \union {u}
        BY <2>1, <3>1 DEF Waiting, TypeOK
      <3>3. Cardinality(Waiting') = n + 1
        BY <2>1, <2>2, <3>2, FS_AddElement
      <3>4. \A v \in Users \ {u} : waitlistPosition'[v] = waitlistPosition[v]
        BY <3>1 DEF TypeOK
      <3>5. waitlistPosition'[u] = n + 1
        BY <2>1, <3>1 DEF TypeOK
      <3>6. \A v \in Waiting : waitlistPosition'[v] = waitlistPosition[v]
        BY <2>1, <3>4 DEF Waiting
      <3>7. {waitlistPosition'[v] : v \in Waiting'} = 1..(n + 1)
        <4>1. {waitlistPosition'[v] : v \in Waiting'} =
                {waitlistPosition[v] : v \in Waiting} \union {n + 1}
          BY <3>2, <3>5, <3>6
        <4>2. (1..n) \union {n + 1} = 1..(n + 1)
          BY <2>2
        <4>. QED
          BY <4>1, <4>2 DEF WaitlistIsDense
      <3>. QED
        BY <3>2, <3>3, <3>4, <3>7 DEF WaitlistIsDense
    <2>. QED
      BY <2>3, <2>4
  <1>3. ASSUME NEW u \in Users, LeaveSeat(u) PROVE WaitlistIsDense'
    <2>1. u \in Enrolled /\ u \notin Waiting
      BY <1>3 DEF LeaveSeat, Enrolled, Waiting
    <2>2. CASE Waiting = {} /\ Drop(u, {})
      BY <2>1, <2>2, DropKeepsDense
    <2>3. ASSUME NEW w \in NextInLine(Waiting), Drop(u, {w}) PROVE WaitlistIsDense'
      <3>1. /\ w \in Waiting
            /\ Waiting \ ({u} \union {w}) = Waiting \ {w}
        BY <2>1 DEF NextInLine
      <3>. QED
        BY <2>1, <2>3, <3>1, DropKeepsDense
    <2>. QED
      BY <1>3, <2>2, <2>3 DEF LeaveSeat
  <1>4. ASSUME NEW u \in Users, LeaveWaitlist(u) PROVE WaitlistIsDense'
    <2>1. u \in Waiting /\ Waiting \ ({u} \union {}) = Waiting \ {u}
      BY <1>4 DEF LeaveWaitlist, Waiting
    <2>. QED
      BY <1>4, <2>1, DropKeepsDense DEF LeaveWaitlist
  <1>5. ASSUME NEW r \in Requests, Remove(r) PROVE WaitlistIsDense'
    <2>1. Waiting' = {} /\ \A v \in Users : waitlistPosition'[v] = 0
      BY <1>5 DEF Remove, Waiting
    <2>. QED
      BY <2>1, FS_EmptySet DEF WaitlistIsDense
  <1>. QED
    BY <1>1, <1>2, <1>3, <1>4, <1>5, WhoWritesRows

(* Without overlapping staff handlers the waitlist is numbered 1..n after   *)
(* every join, leave and promotion.                                        *)
THEOREM WaitlistAlwaysDense ==
  ASSUME StaffOverlap = FALSE
  PROVE  Spec => []WaitlistIsDense
  <1>1. Init => WaitlistIsDense
    BY FS_EmptySet DEF Init, WaitlistIsDense, Waiting
  <1>2. Init => DenseInvariant
    BY <1>1, InitSeatInvariant DEF DenseInvariant
  <1>3. DenseInvariant => WaitlistIsDense
    BY DEF DenseInvariant
  <1>. QED
    BY <1>2, <1>3, NextDenseInvariant, PTL DEF Spec
-----------------------------------------------------------------------------
(***************************************************************************)
(* A leave repairs the waitlist, however staff handlers overlapped before. *)
(* Counters and positions may be anything by then, but the member rows     *)
(* still have creation times that differ, so they can be put in order.     *)
(***************************************************************************)
RowsAreOrdered ==
  /\ TypeOK
  /\ \A u \in Members : createdAt[u] \in 1..Cardinality(Members)
  /\ \A u, v \in Members : createdAt[u] = createdAt[v] => u = v
  /\ \A u \in Users \ Waiting : waitlistPosition[u] = 0

LEMMA InitRowsAreOrdered == Init => RowsAreOrdered
  BY InitTypeOK DEF Init, RowsAreOrdered, Members, Waiting

(* Saves and refusals leave the member rows alone.                         *)
LEMMA SameRowsStayOrdered ==
  ASSUME RowsAreOrdered, TypeOK', UNCHANGED rosterVars
  PROVE  RowsAreOrdered'
  BY DEF RowsAreOrdered, rosterVars, Members, Waiting

LEMMA JoinKeepsRowsOrdered ==
  ASSUME RowsAreOrdered, TypeOK', NEW r \in Requests, JoinTransaction(r)
  PROVE  RowsAreOrdered'
  <1> DEFINE u == req[r].user
             n == Cardinality(Members)
  <1> USE DEF RowsAreOrdered
  <1>1. u \in Users /\ u \notin Waiting
    BY DEF JoinTransaction, TypeOK, Waiting
  <1>2. IsFiniteSet(Members) /\ n \in Nat
    BY CountIsNat DEF Members
  <1>3. /\ memberStatus'[u] \in {"ENROLLED", "WAITLISTED"}
        /\ \A v \in Users \ {u} : /\ memberStatus'[v] = memberStatus[v]
                                  /\ waitlistPosition'[v] = waitlistPosition[v]
                                  /\ createdAt'[v] = createdAt[v]
        /\ createdAt'[u] = RowCreated(u)
        /\ memberStatus'[u] = "ENROLLED" => waitlistPosition'[u] = 0
    BY <1>1 DEF JoinTransaction, TypeOK
  <1>4. Members' = Members \union {u}
    BY <1>1, <1>3 DEF Members
  <1>5. \A v \in Users \ Waiting' : waitlistPosition'[v] = 0
    BY <1>1, <1>3 DEF Waiting
  <1>6. CASE memberStatus[u] = "NONE"
    <2>1. u \notin Members /\ createdAt'[u] = n + 1
      BY <1>3, <1>6 DEF Members, RowCreated
    <2>2. Cardinality(Members') = n + 1
      BY <1>2, <1>4, <2>1, FS_AddElement
    <2>3. \A v \in Members : createdAt'[v] = createdAt[v] /\ createdAt[v] \in 1..n
      BY <1>3, <2>1 DEF Members
    <2>. QED
      BY <1>2, <1>4, <1>5, <2>1, <2>2, <2>3
  <1>7. CASE memberStatus[u] # "NONE"
    <2>1. u \in Members /\ createdAt'[u] = createdAt[u]
      BY <1>1, <1>3, <1>7 DEF Members, RowCreated
    <2>2. Members' = Members /\ \A v \in Members : createdAt'[v] = createdAt[v]
      BY <1>3, <1>4, <2>1 DEF Members
    <2>. QED
      BY <1>5, <2>2
  <1>. QED
    BY <1>6, <1>7

LEMMA DropKeepsRowsOrdered ==
  ASSUME RowsAreOrdered, TypeOK', NEW u \in Members, NEW promoted \in SUBSET Waiting,
         Drop(u, promoted)
  PROVE  RowsAreOrdered'
  <1> USE DEF RowsAreOrdered
  <1>1. Members' = Members /\ UNCHANGED createdAt
    BY DEF Drop, Members, Waiting
  <1>2. \A v \in Users \ Waiting' : waitlistPosition'[v] = 0
    BY DEF Drop, Waiting
  <1>. QED
    BY <1>1, <1>2

LEMMA NextRowsAreOrdered == RowsAreOrdered /\ [Next]_vars => RowsAreOrdered'
  <1> SUFFICES ASSUME RowsAreOrdered, [Next]_vars PROVE RowsAreOrdered'
    OBVIOUS
  <1>1. TypeOK'
    BY NextTypeOK DEF RowsAreOrdered
  <1>2. CASE UNCHANGED rosterVars
    BY <1>1, <1>2, SameRowsStayOrdered
  <1>3. ASSUME NEW r \in Requests, JoinTransaction(r) PROVE RowsAreOrdered'
    BY <1>1, <1>3, JoinKeepsRowsOrdered
  <1>4. ASSUME NEW u \in Users, LeaveSeat(u) PROVE RowsAreOrdered'
    BY <1>1, <1>4, DropKeepsRowsOrdered DEF LeaveSeat, NextInLine, Members
  <1>5. ASSUME NEW u \in Users, LeaveWaitlist(u) PROVE RowsAreOrdered'
    BY <1>1, <1>5, DropKeepsRowsOrdered DEF LeaveWaitlist, Members
  <1>6. ASSUME NEW r \in Requests, Remove(r) PROVE RowsAreOrdered'
    BY <1>1, <1>6 DEF Remove, RowsAreOrdered, Members, Waiting
  <1>. QED
    BY <1>2, <1>3, <1>4, <1>5, <1>6, WhoWritesRows

(* Who is before another is renumbered before the other.                   *)
LEMMA RenumberingKeepsOrder ==
  ASSUME RowsAreOrdered, NEW queue \in SUBSET Waiting, NEW u \in queue, NEW v \in queue,
         Before(u, v)
  PROVE  RenumberedPosition(u, queue) < RenumberedPosition(v, queue)
  <1> DEFINE ahead(w) == {x \in queue : Before(x, w)}
  <1>1. /\ \A x \in queue : waitlistPosition[x] \in Int /\ createdAt[x] \in Nat
        /\ queue \in SUBSET Users
    BY DEF RowsAreOrdered, TypeOK, Waiting
  <1>2. ahead(u) \subseteq ahead(v) /\ u \in ahead(v) /\ u \notin ahead(u)
    BY <1>1 DEF Before
  <1>3. IsFiniteSet(ahead(v)) /\ Cardinality(ahead(v)) \in Nat
    <2>1. ahead(v) \in SUBSET Users
      BY <1>1
    <2>. QED
      BY <2>1, CountIsNat
  <1>4. Cardinality(ahead(v) \ {u}) = Cardinality(ahead(v)) - 1 /\ IsFiniteSet(ahead(v) \ {u})
    BY <1>2, <1>3, FS_RemoveElement
  <1>5. ahead(u) \subseteq ahead(v) \ {u}
    BY <1>2
  <1>6. Cardinality(ahead(u)) \in Nat /\ Cardinality(ahead(u)) <= Cardinality(ahead(v) \ {u})
    <2>1. ahead(u) \in SUBSET Users
      BY <1>1
    <2>. QED
      BY <1>4, <1>5, <2>1, CountIsNat, FS_Subset
  <1>. QED
    BY <1>3, <1>4, <1>6 DEF RenumberedPosition

(* Renumbering gives the positions 1..n, each once.                        *)
LEMMA RenumberingIsDense ==
  ASSUME RowsAreOrdered, NEW queue \in SUBSET Waiting
  PROVE  {RenumberedPosition(v, queue) : v \in queue} = 1..Cardinality(queue)
  <1> DEFINE n == Cardinality(queue)
             f == [v \in queue |-> RenumberedPosition(v, queue)]
  <1>1. IsFiniteSet(queue) /\ n \in Nat
    BY CountIsNat DEF Waiting
  <1>2. \A v \in queue : RenumberedPosition(v, queue) \in 1..n
    <2> SUFFICES ASSUME NEW v \in queue PROVE RenumberedPosition(v, queue) \in 1..n
      OBVIOUS
    <2> DEFINE ahead == {x \in queue : Before(x, v)}
    <2>1. ahead \subseteq queue \ {v}
      BY DEF Before, RowsAreOrdered, TypeOK, Waiting
    <2>2. IsFiniteSet(queue \ {v}) /\ Cardinality(queue \ {v}) = n - 1
      BY <1>1, FS_RemoveElement
    <2>3. Cardinality(ahead) \in Nat /\ Cardinality(ahead) <= n - 1
      BY <2>1, <2>2, FS_Subset, FS_CardinalityType
    <2>. QED
      BY <1>1, <2>3 DEF RenumberedPosition
  <1>3. \A u, v \in queue : u # v => RenumberedPosition(u, queue) # RenumberedPosition(v, queue)
    <2> SUFFICES ASSUME NEW u \in queue, NEW v \in queue, u # v
                 PROVE  RenumberedPosition(u, queue) # RenumberedPosition(v, queue)
      OBVIOUS
    <2>1. /\ RenumberedPosition(u, queue) \in Int
          /\ RenumberedPosition(v, queue) \in Int
      BY <1>2
    <2>2. /\ waitlistPosition[u] \in Int /\ waitlistPosition[v] \in Int
          /\ createdAt[u] \in Nat /\ createdAt[v] \in Nat
      BY DEF RowsAreOrdered, TypeOK, Waiting
    <2>3. createdAt[u] # createdAt[v]
      BY DEF RowsAreOrdered, Waiting, Members
    <2>4. Before(u, v) \/ Before(v, u)
      BY <2>2, <2>3 DEF Before
    <2>. QED
      BY <2>1, <2>4, RenumberingKeepsOrder
  <1>4. f \in Injection(queue, 1..n)
    BY <1>2, <1>3 DEF Injection, IsInjective
  <1>5. IsFiniteSet(1..n) /\ Cardinality(1..n) = n
    BY <1>1, FS_Interval
  <1>6. f \in Surjection(queue, 1..n)
    BY <1>1, <1>4, <1>5, FS_Injection
  <1>. QED
    BY <1>2, <1>6 DEF Surjection

LEMMA DropRepairs ==
  ASSUME RowsAreOrdered, NEW u \in Members, NEW promoted \in SUBSET Waiting, Drop(u, promoted)
  PROVE  /\ WaitlistIsDense'
         /\ cohort'.waitlistCount = Cardinality(Waiting')
         /\ \A v, w \in Waiting \intersect Waiting' :
              waitlistPosition[v] < waitlistPosition[w]
                => waitlistPosition'[v] < waitlistPosition'[w]
  <1> DEFINE queue == Waiting \ ({u} \union promoted)
  <1>1. Waiting' = queue /\ queue \in SUBSET Waiting
    BY DEF Drop, Waiting
  <1>2. \A v \in queue : waitlistPosition'[v] = RenumberedPosition(v, queue)
    BY DEF Drop, Waiting
  <1>3. {waitlistPosition'[v] : v \in Waiting'} = 1..Cardinality(Waiting')
    <2>1. {waitlistPosition'[v] : v \in queue} = {RenumberedPosition(v, queue) : v \in queue}
      BY <1>2
    <2>2. {RenumberedPosition(v, queue) : v \in queue} = 1..Cardinality(queue)
      BY <1>1, RenumberingIsDense
    <2> HIDE DEF queue
    <2>. QED
      BY <1>1, <2>1, <2>2
  <1>4. \A v \in Users \ Waiting' : waitlistPosition'[v] = 0
    BY DEF Drop, Waiting, RowsAreOrdered
  <1>5. cohort'.waitlistCount = Cardinality(Waiting')
    <2>1. cohort' = [cohort EXCEPT !.enrolledCount = EnrolledCountAfter(u, promoted),
                                   !.waitlistCount = Cardinality(queue)]
      BY DEF Drop, WaitlistCountAfter
    <2> HIDE DEF queue
    <2>. QED
      BY <1>1, <2>1 DEF RowsAreOrdered, TypeOK, Row
  <1>6. \A v, w \in queue : waitlistPosition[v] < waitlistPosition[w]
          => waitlistPosition'[v] < waitlistPosition'[w]
    BY <1>1, <1>2, RenumberingKeepsOrder DEF Before
  <1>. QED
    BY <1>1, <1>3, <1>4, <1>5, <1>6 DEF WaitlistIsDense

(* A member who becomes DROPPED has left by one of the two departures, and  *)
(* these repair the waitlist.                                              *)
LEMMA LeavingRepairs ==
  ASSUME RowsAreOrdered, Next, NEW u \in Users,
         memberStatus'[u] = "DROPPED", memberStatus[u] # "DROPPED"
  PROVE  /\ WaitlistIsDense'
         /\ cohort'.waitlistCount = Cardinality(Waiting')
         /\ \A v, w \in Waiting \intersect Waiting' :
              waitlistPosition[v] < waitlistPosition[w]
                => waitlistPosition'[v] < waitlistPosition'[w]
  <1>1. CASE UNCHANGED rosterVars
    BY <1>1 DEF rosterVars
  <1>2. ASSUME NEW r \in Requests, JoinTransaction(r) PROVE FALSE
    BY <1>2 DEF JoinTransaction, RowsAreOrdered, TypeOK
  <1>3. ASSUME NEW r \in Requests, Remove(r) PROVE FALSE
    BY <1>3 DEF Remove
  <1>4. CASE \E v \in Users : LeaveSeat(v)
    <2>1. PICK v \in Users : LeaveSeat(v)
      BY <1>4
    <2>2. v \in Members
      BY <2>1 DEF LeaveSeat, Members
    <2>3. PICK promoted \in SUBSET Waiting : Drop(v, promoted)
      BY <2>1 DEF LeaveSeat, NextInLine
    <2>. QED
      BY <2>2, <2>3, DropRepairs
  <1>5. CASE \E v \in Users : LeaveWaitlist(v)
    <2>1. PICK v \in Users : LeaveWaitlist(v)
      BY <1>5
    <2>2. v \in Members /\ Drop(v, {})
      BY <2>1 DEF LeaveWaitlist, Members
    <2>. QED
      BY <2>2, DropRepairs
  <1>. QED
    BY <1>1, <1>2, <1>3, <1>4, <1>5, WhoWritesRows

(* Whether staff handlers overlap or not, and whatever they have made of    *)
(* the counters, a leave puts the waitlist back to 1..n in its old order.  *)
THEOREM LeavesRepairWaitlist == Spec => LeaveRepairsWaitlist
  <1>1. RowsAreOrdered /\ [Next]_vars =>
          [(\E u \in Users : memberStatus'[u] = "DROPPED" /\ memberStatus[u] # "DROPPED")
           => /\ WaitlistIsDense'
              /\ cohort'.waitlistCount = Cardinality(Waiting')
              /\ \A u, v \in Waiting \intersect Waiting' :
                   waitlistPosition[u] < waitlistPosition[v]
                     => waitlistPosition'[u] < waitlistPosition'[v]]_vars
    BY LeavingRepairs
  <1>. QED
    BY <1>1, InitRowsAreOrdered, NextRowsAreOrdered, PTL DEF Spec, LeaveRepairsWaitlist
-----------------------------------------------------------------------------
(***************************************************************************)
(* The cohort implements SeatQueue.  The positions of a dense waitlist are *)
(* a bijection to 1..n, so that its learners are one sequence.             *)
(***************************************************************************)
QueueIsWaitlist ==
  /\ Queue \in Seq(Users) /\ Len(Queue) = Cardinality(Waiting) /\ Cardinality(Waiting) \in Nat
  /\ DOMAIN Queue = 1..Cardinality(Waiting)
  /\ \A i \in 1..Cardinality(Waiting) : Queue[i] \in Waiting /\ waitlistPosition[Queue[i]] = i
  /\ \A u \in Waiting : /\ waitlistPosition[u] \in 1..Cardinality(Waiting)
                        /\ Queue[waitlistPosition[u]] = u

LEMMA QueueHoldsWaitlist == TypeOK /\ WaitlistIsDense => QueueIsWaitlist
  <1> SUFFICES ASSUME TypeOK, WaitlistIsDense PROVE QueueIsWaitlist
    OBVIOUS
  <1>1. PICK n : n = Cardinality(Waiting)
    OBVIOUS
  <1>2. n \in Nat
    BY <1>1, CountIsNat DEF Waiting
  <1>3. \A i \in 1..n : \E u \in Waiting : waitlistPosition[u] = i
    BY <1>1 DEF WaitlistIsDense
  <1>4. Queue = [i \in 1..n |-> CHOOSE u \in Waiting : waitlistPosition[u] = i]
    BY <1>1 DEF Queue
  <1>5. \A i \in 1..n : Queue[i] \in Waiting /\ waitlistPosition[Queue[i]] = i
    BY <1>3, <1>4
  <1>6. \A u \in Waiting : waitlistPosition[u] \in 1..n
    BY <1>1 DEF WaitlistIsDense
  <1>7. \A u \in Waiting : Queue[waitlistPosition[u]] = u
    BY <1>5, <1>6, PositionsDiffer
  <1>8. Waiting \subseteq Users
    BY DEF Waiting
  <1>9. Queue \in [1..n -> Users]
    BY <1>4, <1>5, <1>8
  <1>10. Queue \in Seq(Users) /\ Len(Queue) = n /\ DOMAIN Queue = 1..n
    BY <1>2, <1>9
  <1>. QED
    BY <1>1, <1>2, <1>5, <1>6, <1>7, <1>10 DEF QueueIsWaitlist

LEMMA QueueStaysWaitlist == TypeOK' /\ WaitlistIsDense' => QueueIsWaitlist'
  BY QueueHoldsWaitlist, PTL

LEMMA SameCardinality == \A S : SeatQueues!Cardinality(S) = Cardinality(S)
  BY DEF SeatQueues!Cardinality, Cardinality

(* A sequence of the waiting learners that names them by their positions    *)
(* is the queue.                                                           *)
LEMMA QueueAfter ==
  ASSUME QueueIsWaitlist', NEW q \in Seq(Users), Len(q) = Cardinality(Waiting'),
         \A i \in 1..Len(q) : q[i] \in Waiting' /\ waitlistPosition'[q[i]] = i
  PROVE  Queue' = q
  <1>1. Queue' \in Seq(Users) /\ Len(Queue') = Len(q)
    BY DEF QueueIsWaitlist
  <1>2. \A i \in 1..Len(q) : Queue'[i] = q[i]
    BY DEF QueueIsWaitlist
  <1> HIDE DEF Queue
  <1>. QED
    BY <1>1, <1>2, SeqEqual

LEMMA QueueStays ==
  ASSUME QueueIsWaitlist, QueueIsWaitlist', Waiting' = Waiting,
         \A u \in Waiting : waitlistPosition'[u] = waitlistPosition[u]
  PROVE  Queue' = Queue
  <1>1. Queue \in Seq(Users) /\ Len(Queue) = Cardinality(Waiting')
    BY DEF QueueIsWaitlist
  <1>2. \A i \in 1..Len(Queue) : Queue[i] \in Waiting' /\ waitlistPosition'[Queue[i]] = i
    BY DEF QueueIsWaitlist
  <1>. QED
    BY <1>1, <1>2, QueueAfter

(* Joining takes a seat or the end of the queue.                           *)
LEMMA JoinRefines ==
  ASSUME DenseInvariant, TypeOK', QueueIsWaitlist, QueueIsWaitlist',
         NEW r \in Requests, JoinTransaction(r)
  PROVE  SeatQueues!TakeSeat(req[r].user) \/ SeatQueues!JoinQueue(req[r].user)
  <1> USE DEF DenseInvariant, SeatInvariant
  <1>1. PICK u : u = req[r].user
    OBVIOUS
  <1>2. u \in Users /\ u \notin Waiting /\ u \notin Enrolled
    BY <1>1 DEF JoinTransaction, TypeOK, Waiting, Enrolled
  <1>3. SeatQueues!Outside(u)
    BY <1>2 DEF SeatQueues!Outside, SeatQueues!Contains, QueueIsWaitlist
  <1>4. cohort \in Row /\ cohort'.capacity = cohort.capacity
    BY DEF JoinTransaction, TypeOK, Row
  <1>5. CASE HasSeat
    <2>1. /\ memberStatus' = [memberStatus EXCEPT ![u] = "ENROLLED"]
          /\ waitlistPosition' = [waitlistPosition EXCEPT ![u] = 0]
      BY <1>1, <1>5 DEF JoinTransaction
    <2>2. Waiting' = Waiting /\ Enrolled' = Enrolled \union {u}
      BY <1>2, <2>1 DEF Waiting, Enrolled, TypeOK
    <2>3. \A v \in Waiting : waitlistPosition'[v] = waitlistPosition[v]
      BY <1>2, <2>1 DEF TypeOK, Waiting
    <2>4. Queue' = Queue
      BY <2>2, <2>3, QueueStays
    <2>5. Cardinality(Enrolled) < cohort.capacity
      BY <1>5 DEF HasSeat, CountsMatchRoster
    <2>. QED
      BY <1>1, <1>3, <1>4, <2>2, <2>4, <2>5, SameCardinality DEF SeatQueues!TakeSeat
  <1>6. CASE ~HasSeat
    <2>1. /\ memberStatus' = [memberStatus EXCEPT ![u] = "WAITLISTED"]
          /\ waitlistPosition' = [waitlistPosition EXCEPT ![u] = Cardinality(Waiting) + 1]
      BY <1>1, <1>6 DEF JoinTransaction, CountsMatchRoster
    <2>2. Waiting' = Waiting \union {u} /\ Enrolled' = Enrolled
      BY <1>2, <2>1 DEF Waiting, Enrolled, TypeOK
    <2>3. /\ \A v \in Waiting : waitlistPosition'[v] = waitlistPosition[v]
          /\ waitlistPosition'[u] = Cardinality(Waiting) + 1
      BY <1>2, <2>1 DEF TypeOK, Waiting
    <2>4. IsFiniteSet(Waiting) /\ Cardinality(Waiting) \in Nat
      BY CountIsNat DEF Waiting
    <2>5. Cardinality(Waiting') = Cardinality(Waiting) + 1
      BY <1>2, <2>2, <2>4, FS_AddElement
    <2>6. PICK q : q = Append(Queue, u)
      OBVIOUS
    <2>7. /\ q \in Seq(Users) /\ Len(q) = Cardinality(Waiting) + 1
          /\ \A i \in 1..Cardinality(Waiting) : q[i] = Queue[i]
          /\ q[Cardinality(Waiting) + 1] = u
      BY <1>2, <2>6, AppendProperties DEF QueueIsWaitlist
    <2>8. \A i \in 1..Len(q) : q[i] \in Waiting' /\ waitlistPosition'[q[i]] = i
      BY <2>2, <2>3, <2>4, <2>7 DEF QueueIsWaitlist
    <2>9. Queue' = Append(Queue, u)
      BY <2>5, <2>6, <2>7, <2>8, QueueAfter
    <2>10. Cardinality(Enrolled) = cohort.capacity
      <3>1. cohort.capacity \in Nat /\ cohort.enrolledCount \in Int
        BY <1>4, CapacityAssumption DEF Row
      <3>. QED
        BY <1>6, <3>1 DEF HasSeat, CountsMatchRoster, NoOversubscription
    <2>. QED
      BY <1>1, <1>3, <1>4, <2>2, <2>9, <2>10, SameCardinality DEF SeatQueues!JoinQueue
  <1>. QED
    BY <1>5, <1>6
(* When x has gone from the waitlist, whoever was behind x moves up.        *)
LEMMA DropPositions ==
  ASSUME TypeOK, WaitlistIsDense, NEW u \in Users, NEW promoted \in SUBSET Waiting,
         NEW x \in Waiting, Waiting \ ({u} \union promoted) = Waiting \ {x}, Drop(u, promoted)
  PROVE  /\ Waiting' = Waiting \ {x} /\ Cardinality(Waiting') = Cardinality(Waiting) - 1
         /\ \A v \in Waiting \ {x} : waitlistPosition'[v] =
              IF waitlistPosition[x] < waitlistPosition[v]
              THEN waitlistPosition[v] - 1 ELSE waitlistPosition[v]
         /\ cohort'.capacity = cohort.capacity
  <1>1. Waiting' = Waiting \ ({u} \union promoted)
    BY DEF Drop, Waiting
  <1>2. IsFiniteSet(Waiting)
    BY CountIsNat DEF Waiting
  <1>3. Cardinality(Waiting \ {x}) = Cardinality(Waiting) - 1
    BY <1>2, FS_RemoveElement
  <1>4. \A v \in Waiting \ {x} : waitlistPosition'[v] = RenumberedPosition(v, Waiting \ {x})
    <2>1. \A v \in Waiting \ ({u} \union promoted) :
            waitlistPosition'[v] = RenumberedPosition(v, Waiting \ ({u} \union promoted))
      BY DEF Drop, Waiting
    <2>. QED
      BY <2>1
  <1>5. cohort'.capacity = cohort.capacity
    BY DEF Drop, TypeOK, Row
  <1>. QED
    BY <1>1, <1>3, <1>4, <1>5, OneMovesUp

(* A seat that is given up goes to the head of the queue.                   *)
LEMMA LeaveSeatRefines ==
  ASSUME DenseInvariant, TypeOK', QueueIsWaitlist, QueueIsWaitlist',
         NEW u \in Users, LeaveSeat(u)
  PROVE  SeatQueues!GiveUpSeat(u)
  <1> USE DEF DenseInvariant, SeatInvariant
  <1>1. u \in Enrolled /\ u \notin Waiting /\ Enrolled \subseteq Users /\ Waiting \subseteq Users
    BY DEF LeaveSeat, Enrolled, Waiting
  <1>2. CASE Waiting = {} /\ Drop(u, {})
    <2>1. Enrolled' = Enrolled \ {u} /\ Waiting' = {}
      BY <1>1, <1>2 DEF Drop, Enrolled, Waiting
    <2>2. Cardinality(Waiting) = 0 /\ Cardinality(Waiting') = 0
      BY <1>2, <2>1, FS_EmptySet
    <2>3. Queue = <<>> /\ Queue' = <<>>
      <3> HIDE DEF Queue, Waiting
      <3>. QED
        BY <2>2, EmptySeq DEF QueueIsWaitlist
    <2>4. cohort'.capacity = cohort.capacity
      BY <1>2 DEF Drop, TypeOK, Row
    <2>. QED
      BY <1>1, <2>1, <2>3, <2>4 DEF SeatQueues!GiveUpSeat
  <1>3. ASSUME NEW w \in NextInLine(Waiting), Drop(u, {w})
        PROVE  SeatQueues!GiveUpSeat(u)
    <2>1. w \in Waiting /\ \A v \in Waiting : waitlistPosition[w] <= waitlistPosition[v]
      BY <1>3 DEF NextInLine
    <2>2. Enrolled' = (Enrolled \ {u}) \union {w}
      BY <1>1, <1>3, <2>1 DEF Drop, Enrolled, Waiting
    <2>3. /\ Waiting' = Waiting \ {w} /\ Cardinality(Waiting') = Cardinality(Waiting) - 1
          /\ \A v \in Waiting \ {w} : waitlistPosition'[v] =
               IF waitlistPosition[w] < waitlistPosition[v]
               THEN waitlistPosition[v] - 1 ELSE waitlistPosition[v]
          /\ cohort'.capacity = cohort.capacity
      <3>1. Waiting \ ({u} \union {w}) = Waiting \ {w} /\ {w} \in SUBSET Waiting
        BY <1>1, <2>1
      <3>. QED
        BY <1>3, <2>1, <3>1, DropPositions
    <2>4. PICK n : n = Cardinality(Waiting) /\ n \in Nat
      BY DEF QueueIsWaitlist
    <2>5. /\ Queue \in Seq(Users) /\ Len(Queue) = n
          /\ \A i \in 1..n : Queue[i] \in Waiting /\ waitlistPosition[Queue[i]] = i
          /\ \A v \in Waiting : waitlistPosition[v] \in 1..n /\ Queue[waitlistPosition[v]] = v
      BY <2>4 DEF QueueIsWaitlist
    <2>6. waitlistPosition[w] = 1 /\ n >= 1 /\ Queue[1] = w
      <3>1. waitlistPosition[w] \in 1..n
        BY <2>1, <2>5
      <3>2. 1 \in 1..n
        BY <2>4, <3>1
      <3>3. waitlistPosition[w] <= 1
        BY <2>1, <2>5, <3>2
      <3>. QED
        BY <2>1, <2>4, <2>5, <3>1, <3>3
    <2> HIDE DEF Queue
    <2>7. Queue # <<>> /\ Head(Queue) = w
      BY <2>5, <2>6
    <2>8. PICK q : q = Tail(Queue)
      OBVIOUS
    <2>9. /\ q \in Seq(Users) /\ Len(q) = n - 1
          /\ \A i \in 1..Len(q) : q[i] = Queue[i + 1]
      BY <2>5, <2>7, <2>8, HeadTailProperties
    <2>10. \A i \in 1..Len(q) : q[i] \in Waiting' /\ waitlistPosition'[q[i]] = i
      <3> SUFFICES ASSUME NEW i \in 1..(n - 1)
                   PROVE  q[i] \in Waiting' /\ waitlistPosition'[q[i]] = i
        BY <2>9
      <3>1. i + 1 \in 1..n /\ i \in Nat /\ q[i] = Queue[i + 1]
        BY <2>4, <2>9
      <3>2. q[i] \in Waiting /\ waitlistPosition[q[i]] = i + 1
        BY <2>5, <3>1
      <3>3. q[i] # w
        BY <2>6, <3>1, <3>2
      <3>. QED
        BY <2>3, <2>6, <3>1, <3>2, <3>3
    <2>11. Queue' = Tail(Queue)
      BY <2>3, <2>4, <2>8, <2>9, <2>10, QueueAfter
    <2>. QED
      BY <1>1, <2>2, <2>3, <2>7, <2>11 DEF SeatQueues!GiveUpSeat
  <1>. QED
    BY <1>2, <1>3 DEF LeaveSeat

(* Leaving the waitlist leaves the queue, whatever the place in it.         *)
LEMMA LeaveWaitlistRefines ==
  ASSUME DenseInvariant, TypeOK', QueueIsWaitlist, QueueIsWaitlist',
         NEW u \in Users, LeaveWaitlist(u)
  PROVE  SeatQueues!LeaveQueue(u)
  <1> USE DEF DenseInvariant, SeatInvariant
  <1>1. u \in Waiting /\ Drop(u, {})
    BY DEF LeaveWaitlist, Waiting
  <1>2. Enrolled' = Enrolled
    BY <1>1 DEF Drop, Enrolled, Waiting
  <1>3. /\ Waiting' = Waiting \ {u} /\ Cardinality(Waiting') = Cardinality(Waiting) - 1
        /\ \A v \in Waiting \ {u} : waitlistPosition'[v] =
             IF waitlistPosition[u] < waitlistPosition[v]
             THEN waitlistPosition[v] - 1 ELSE waitlistPosition[v]
        /\ cohort'.capacity = cohort.capacity
    <2>1. Waiting \ ({u} \union {}) = Waiting \ {u} /\ {} \in SUBSET Waiting
      OBVIOUS
    <2>. QED
      BY <1>1, <2>1, DropPositions
  <1>4. PICK n : n = Cardinality(Waiting) /\ n \in Nat
    BY DEF QueueIsWaitlist
  <1>5. /\ Queue \in Seq(Users) /\ Len(Queue) = n /\ DOMAIN Queue = 1..n
        /\ \A i \in 1..n : Queue[i] \in Waiting /\ waitlistPosition[Queue[i]] = i /\ Queue[i] \in Users
        /\ \A v \in Waiting : waitlistPosition[v] \in 1..n /\ Queue[waitlistPosition[v]] = v
    BY <1>4 DEF QueueIsWaitlist, Waiting
  <1>6. PICK k \in 1..n : k = waitlistPosition[u] /\ Queue[k] = u
    BY <1>1, <1>5
  <1> HIDE DEF Queue
  <1>7. PICK front, back, q :
          front = SubSeq(Queue, 1, k - 1) /\ back = SubSeq(Queue, k + 1, n) /\ q = front \o back
    OBVIOUS
  <1>8. /\ front \in Seq(Users) /\ Len(front) = k - 1
        /\ \A i \in 1..(k - 1) : front[i] = Queue[i]
    <2>1. 1 \in Int /\ k - 1 \in Int /\ \A i \in 1..(k - 1) : Queue[i] \in Users
      BY <1>4, <1>5
    <2>. QED
      BY <1>4, <1>7, <2>1, SubSeqProperties
  <1>9. /\ back \in Seq(Users) /\ Len(back) = n - k
        /\ \A i \in 1..(n - k) : back[i] = Queue[k + i]
    <2>1. k + 1 \in Int /\ n \in Int /\ \A i \in (k + 1)..n : Queue[i] \in Users
      BY <1>4, <1>5
    <2>. QED
      BY <1>4, <1>7, <2>1, SubSeqProperties
  <1>10. /\ q \in Seq(Users) /\ Len(q) = n - 1
         /\ \A i \in 1..(n - 1) : q[i] = IF i < k THEN Queue[i] ELSE Queue[i + 1]
    <2>1. /\ q \in Seq(Users) /\ Len(q) = Len(front) + Len(back)
          /\ \A i \in 1..(Len(front) + Len(back)) :
               q[i] = IF i <= Len(front) THEN front[i] ELSE back[i - Len(front)]
      BY <1>7, <1>8, <1>9, ConcatProperties
    <2>2. Len(front) = k - 1 /\ Len(back) = n - k /\ k \in Nat
      BY <1>4, <1>8, <1>9
    <2>3. Len(q) = n - 1
      BY <1>4, <2>1, <2>2
    <2>4. ASSUME NEW i \in 1..(n - 1), i < k PROVE q[i] = Queue[i]
      <3>1. i \in 1..(Len(front) + Len(back)) /\ i <= Len(front) /\ i \in 1..(k - 1)
        BY <1>4, <2>2, <2>4
      <3>. QED
        BY <1>8, <2>1, <3>1
    <2>5. ASSUME NEW i \in 1..(n - 1), ~(i < k) PROVE q[i] = Queue[i + 1]
      <3>1. /\ i \in 1..(Len(front) + Len(back)) /\ ~(i <= Len(front))
            /\ i - Len(front) \in 1..(n - k) /\ k + (i - Len(front)) = i + 1
        BY <1>4, <2>2, <2>5
      <3>2. q[i] = back[i - Len(front)]
        BY <2>1, <3>1
      <3>. QED
        BY <1>9, <3>1, <3>2
    <2>. QED
      BY <2>1, <2>3, <2>4, <2>5
  <1>11. \A i \in 1..Len(q) : q[i] \in Waiting' /\ waitlistPosition'[q[i]] = i
    <2> SUFFICES ASSUME NEW i \in 1..(n - 1)
                 PROVE  q[i] \in Waiting' /\ waitlistPosition'[q[i]] = i
      BY <1>10
    <2>1. CASE i < k
      <3>1. i \in 1..n /\ q[i] = Queue[i]
        BY <1>4, <1>10, <2>1
      <3>2. q[i] \in Waiting /\ waitlistPosition[q[i]] = i
        BY <1>5, <3>1
      <3>. QED
        BY <1>3, <1>6, <2>1, <3>2
    <2>2. CASE ~(i < k)
      <3>1. i + 1 \in 1..n /\ q[i] = Queue[i + 1] /\ i + 1 > k
        BY <1>4, <1>10, <2>2
      <3>2. q[i] \in Waiting /\ waitlistPosition[q[i]] = i + 1
        BY <1>5, <3>1
      <3>. QED
        BY <1>3, <1>6, <3>1, <3>2
    <2>. QED
      BY <2>1, <2>2
  <1>12. Queue' = SeatQueues!RemoveAt(Queue, k)
    <2>1. Queue' = q
      BY <1>3, <1>4, <1>10, <1>11, QueueAfter
    <2>. QED
      BY <1>5, <1>7, <2>1 DEF SeatQueues!RemoveAt
  <1>. QED
    BY <1>2, <1>3, <1>5, <1>6, <1>12 DEF SeatQueues!LeaveQueue
(* What staff save leaves the seats and the queue alone or changes the     *)
(* capacity.                                                               *)
LEMMA StaffRefines ==
  ASSUME DenseInvariant, TypeOK', QueueIsWaitlist, QueueIsWaitlist',
         NEW r \in Requests, NEW row, req[r].op \in StaffOps, Save(r, row),
         row.capacity = cohort.capacity
           \/ (row.capacity \in Capacities /\ row.capacity >= cohort.enrolledCount)
  PROVE  UNCHANGED <<Enrolled, Queue, cohort.capacity>> \/ SeatQueues!ChangeCapacity
  <1> USE DEF DenseInvariant, SeatInvariant
  <1>1. Enrolled' = Enrolled /\ Waiting' = Waiting /\ UNCHANGED waitlistPosition /\ cohort' = row
    BY DEF Save, rosterVars, Enrolled, Waiting
  <1>2. Queue' = Queue
    BY <1>1, QueueStays
  <1>3. CASE row.capacity = cohort.capacity
    BY <1>1, <1>2, <1>3
  <1>4. CASE row.capacity \in Capacities /\ row.capacity >= cohort.enrolledCount
    BY <1>1, <1>2, <1>4, SameCardinality DEF SeatQueues!ChangeCapacity, CountsMatchRoster
  <1>. QED
    BY <1>3, <1>4

LEMMA RemoveRefines ==
  ASSUME DenseInvariant, TypeOK', QueueIsWaitlist, QueueIsWaitlist',
         NEW r \in Requests, Remove(r)
  PROVE  UNCHANGED <<Enrolled, Queue, cohort.capacity>>
  <1> USE DEF DenseInvariant, SeatInvariant
  <1>1. Members = {} /\ cohort' = cohort
    BY DEF Remove, StaffReadsAreFresh, StaffOps
  <1>2. Enrolled = {} /\ Enrolled' = {} /\ Waiting = {} /\ Waiting' = {}
    BY <1>1 DEF Remove, Enrolled, Waiting, Members
  <1>3. Queue' = Queue
    BY <1>2, QueueStays
  <1>. QED
    BY <1>1, <1>2, <1>3

LEMMA StepsRefine ==
  ASSUME StaffOverlap = FALSE, DenseInvariant, [Next]_vars
  PROVE  [SeatQueues!Next]_(SeatQueues!svars)
  <1> DEFINE Quiet == UNCHANGED <<Enrolled, Queue, cohort.capacity>>
  <1> SUFFICES SeatQueues!Next \/ Quiet
    BY DEF SeatQueues!svars
  <1>1. DenseInvariant'
    BY NextDenseInvariant
  <1>2. TypeOK' /\ QueueIsWaitlist /\ QueueIsWaitlist'
    BY <1>1, QueueHoldsWaitlist, QueueStaysWaitlist DEF DenseInvariant, SeatInvariant
  <1>3. ASSUME UNCHANGED <<cohort, memberStatus, waitlistPosition>> PROVE Quiet
    <2>1. Enrolled' = Enrolled /\ Waiting' = Waiting
      BY <1>3 DEF Enrolled, Waiting
    <2>2. Queue' = Queue
      BY <1>2, <1>3, <2>1, QueueStays
    <2>. QED
      BY <1>3, <2>1, <2>2
  <1>4. ASSUME NEW r \in Requests, JoinTransaction(r) PROVE SeatQueues!Next
    <2>1. req[r].user \in Users
      BY <1>4 DEF JoinTransaction, DenseInvariant, SeatInvariant, TypeOK
    <2>2. SeatQueues!TakeSeat(req[r].user) \/ SeatQueues!JoinQueue(req[r].user)
      BY <1>2, <1>4, JoinRefines
    <2>. QED
      BY <2>1, <2>2 DEF SeatQueues!Next
  <1>5. ASSUME NEW u \in Users, LeaveSeat(u) PROVE SeatQueues!Next
    BY <1>2, <1>5, LeaveSeatRefines DEF SeatQueues!Next
  <1>6. ASSUME NEW u \in Users, LeaveWaitlist(u) PROVE SeatQueues!Next
    BY <1>2, <1>6, LeaveWaitlistRefines DEF SeatQueues!Next
  <1>7. ASSUME NEW r \in Requests, NEW c \in Capacities, NEW s \in CohortStatus, UpdateSave(r, c, s)
        PROVE  SeatQueues!Next \/ Quiet
    <2>1. req[r].row = cohort /\ req[r].op \in StaffOps /\ cohort \in Row
      BY <1>7 DEF UpdateSave, StaffOps, StaffReadsAreFresh, DenseInvariant, SeatInvariant, TypeOK
    <2>2. PICK row : row = [cohort EXCEPT !.capacity = c, !.status = s]
      OBVIOUS
    <2>3. row.capacity = c
      BY <2>1, <2>2 DEF Row
    <2>4. Save(r, row) /\ c >= cohort.enrolledCount
      BY <1>7, <2>1, <2>2 DEF UpdateSave
    <2>. QED
      BY <1>2, <2>1, <2>3, <2>4, StaffRefines DEF SeatQueues!Next
  <1>8. ASSUME NEW r \in Requests, NEW s \in CohortStatus, DetailsSave(r, s) \/ CancelSave(r)
        PROVE  SeatQueues!Next \/ Quiet
    <2>1. req[r].row = cohort /\ req[r].op \in StaffOps /\ cohort \in Row
      BY <1>8
      DEF DetailsSave, CancelSave, StaffOps, StaffReadsAreFresh, DenseInvariant, SeatInvariant, TypeOK
    <2>2. PICK t : Save(r, [cohort EXCEPT !.status = t])
      BY <1>8, <2>1 DEF DetailsSave, CancelSave
    <2>3. PICK row : row = [cohort EXCEPT !.status = t]
      OBVIOUS
    <2>4. Save(r, row) /\ row.capacity = cohort.capacity
      BY <2>1, <2>2, <2>3 DEF Row
    <2>. QED
      BY <1>2, <2>1, <2>4, StaffRefines DEF SeatQueues!Next
  <1>9. ASSUME NEW r \in Requests, Remove(r) PROVE Quiet
    BY <1>2, <1>9, RemoveRefines
  <1>10. ASSUME NEW r \in Requests,
                \/ JoinRefused(r) \/ UpdateRefused(r)
                \/ \E u \in Users : JoinCheck(r, u)
                \/ \E op \in StaffOps : Load(r, op)
         PROVE  Quiet
    <2>1. UNCHANGED <<cohort, memberStatus, waitlistPosition>>
      BY <1>10 DEF JoinRefused, UpdateRefused, JoinCheck, Load, rosterVars
    <2>. QED
      BY <1>3, <2>1
  <1>11. CASE UNCHANGED vars
    BY <1>3, <1>11 DEF vars
  <1> HIDE DEF Quiet
  <1>. QED
    BY <1>4, <1>5, <1>6, <1>7, <1>8, <1>9, <1>10, <1>11 DEF Next, CohortStatus

LEMMA InitRefines == Init => SeatQueues!Init
  <1> SUFFICES ASSUME Init PROVE SeatQueues!Init
    OBVIOUS
  <1>1. Enrolled = {} /\ Waiting = {}
    BY DEF Init, Enrolled, Waiting
  <1>2. cohort.capacity \in Capacities
    BY DEF Init, NewRow
  <1>3. Cardinality(Waiting) = 0
    BY <1>1, FS_EmptySet
  <1>4. Queue = <<>>
    <2> HIDE DEF Waiting
    <2>. QED
      BY <1>3 DEF Queue
  <1>. QED
    BY <1>1, <1>2, <1>4 DEF SeatQueues!Init

(* While no request commits inside a staff handler, the rows and counters   *)
(* of the cohort are one queue for its seats: every join takes a free seat  *)
(* or the end of the queue, every seat that is given up goes to its head at *)
(* once, and no capacity falls below the seats taken.                      *)
THEOREM CohortIsASeatQueue ==
  ASSUME StaffOverlap = FALSE
  PROVE  Spec => ImplementsSeatQueue
  <1>1. Init => DenseInvariant
    <2>1. Init => WaitlistIsDense
      BY FS_EmptySet DEF Init, WaitlistIsDense, Waiting
    <2>. QED
      BY <2>1, InitSeatInvariant DEF DenseInvariant
  <1>2. DenseInvariant /\ [Next]_vars => [SeatQueues!Next]_(SeatQueues!svars)
    BY StepsRefine
  <1>. QED
    BY <1>1, <1>2, InitRefines, NextDenseInvariant, PTL DEF Spec, ImplementsSeatQueue, SeatQueues!Spec
=============================================================================
