--------------------------- MODULE CohortWaitlist ---------------------------
(***************************************************************************)
(* One cohort, its member rows and the HTTP requests that work on them     *)
(* (src/cohorts/cohorts.service.ts).  join and leave run in a transaction  *)
(* that holds the row lock of the cohort, so each is one step; what they   *)
(* and the staff handlers read before that is a snapshot that may be stale *)
(* by the time it is used.  No handler touches two cohorts, so one is      *)
(* enough.                                                                 *)
(*                                                                         *)
(* Repository.save(row) of the staff handlers writes every column that     *)
(* differs from the database, the two counters included, and inserts the   *)
(* row again when it is gone: it is modelled as the overwrite it is.       *)
(***************************************************************************)
EXTENDS Integers, FiniteSets

CONSTANTS
  Users,         \* the learners
  NoUser,        \* not a learner: the user of a request that has none
  Requests,      \* the requests the server handles at the same time
  Capacities,    \* capacities staff may enter
  DtoStatuses,   \* statuses an update may carry
  StaffOverlap,  \* whether other requests commit between the read and the
                 \* write of a staff handler
  MaxDrift       \* a bound for the checker: how far an overwritten counter may
                 \* be from the member rows

CohortStatus == {"SCHEDULED", "ACTIVE", "COMPLETED", "CANCELLED"}

ASSUME UsersAssumption    == IsFiniteSet(Users) /\ NoUser \notin Users
ASSUME CapacityAssumption == Capacities \subseteq Nat \ {0} /\ Capacities # {}
ASSUME StatusAssumption   == DtoStatuses \subseteq CohortStatus
ASSUME OverlapAssumption  == StaffOverlap \in BOOLEAN
ASSUME DriftAssumption    == MaxDrift \in Nat

VARIABLES
  cohort,            \* the row of the cohort
  deleted,           \* whether that row is gone
  memberStatus,      \* status column of each learner's member row, or "NONE"
  waitlistPosition,  \* position column, 0 for null
  createdAt,         \* rank of the member row by creation time, 0 for no row
  req                \* what each request is in the middle of

rosterVars == <<memberStatus, waitlistPosition, createdAt>>
vars == <<cohort, deleted, memberStatus, waitlistPosition, createdAt, req>>

MemberStatus == {"NONE", "ENROLLED", "WAITLISTED", "DROPPED"}
StaffOps == {"update", "cancel", "remove"}

Row == [status: CohortStatus, capacity: Capacities,
        enrolledCount: Int, waitlistCount: Int]

OpenStatuses == {"SCHEDULED", "ACTIVE"}

Enrolled == {u \in Users : memberStatus[u] = "ENROLLED"}
Waiting  == {u \in Users : memberStatus[u] = "WAITLISTED"}
Members  == {u \in Users : memberStatus[u] # "NONE"}

(* create: a scheduled cohort with no members and both counters at zero.   *)
NewRow(c) == [status |-> "SCHEDULED", capacity |-> c,
              enrolledCount |-> 0, waitlistCount |-> 0]

Idle == [op |-> "idle", user |-> NoUser,
         row |-> NewRow(CHOOSE c \in Capacities : TRUE)]

Init ==
  /\ cohort \in {NewRow(c) : c \in Capacities}
  /\ deleted = FALSE
  /\ memberStatus = [u \in Users |-> "NONE"]
  /\ waitlistPosition = [u \in Users |-> 0]
  /\ createdAt = [u \in Users |-> 0]
  /\ req = [r \in Requests |-> Idle]

(***************************************************************************)
(* Requests.                                                               *)
(***************************************************************************)
Begin(r, op, user, row) ==
  /\ req[r] = Idle
  /\ ~deleted
  /\ req' = [req EXCEPT ![r] = [op |-> op, user |-> user, row |-> row]]

Finish(r) == req' = [req EXCEPT ![r] = Idle]

(* With StaffOverlap FALSE nothing commits inside a staff handler.         *)
Undisturbed(self) ==
  StaffOverlap \/ \A r \in Requests \ self : req[r].op \notin StaffOps

(***************************************************************************)
(* Learners.  The checks of join run before the transaction; the course    *)
(* and the registered join policies are the environment's: a learner they  *)
(* refuse never gets here.                                                 *)
(***************************************************************************)
JoinCheck(r, u) ==
  /\ cohort.status \in OpenStatuses
  /\ Begin(r, "join", u, Idle.row)
  /\ UNCHANGED <<cohort, deleted, rosterVars>>

(* Where the row lock is taken: nothing found, or a member already.        *)
JoinRefused(r) ==
  /\ req[r].op = "join"
  /\ deleted \/ memberStatus[req[r].user] \in {"ENROLLED", "WAITLISTED"}
  /\ Finish(r)
  /\ UNCHANGED <<cohort, deleted, rosterVars>>

(* Mutant: a seat more than there are.                                     *)
HasSeatOffByOne == cohort.enrolledCount <= cohort.capacity

HasSeat == cohort.enrolledCount < cohort.capacity

(* The rank of a new member row; a learner who dropped keeps the old row.  *)
RowCreated(u) ==
  IF memberStatus[u] = "NONE" THEN Cardinality(Members) + 1 ELSE createdAt[u]

JoinTransaction(r) ==
  LET u == req[r].user IN
  /\ req[r].op = "join"
  /\ ~deleted
  /\ memberStatus[u] \in {"NONE", "DROPPED"}
  /\ Undisturbed({r})
  /\ \/ /\ HasSeat
        /\ memberStatus' = [memberStatus EXCEPT ![u] = "ENROLLED"]
        /\ waitlistPosition' = [waitlistPosition EXCEPT ![u] = 0]
        /\ cohort' = [cohort EXCEPT !.enrolledCount = @ + 1]
     \/ /\ ~HasSeat
        /\ memberStatus' = [memberStatus EXCEPT ![u] = "WAITLISTED"]
        /\ waitlistPosition' =
             [waitlistPosition EXCEPT ![u] = cohort.waitlistCount + 1]
        /\ cohort' = [cohort EXCEPT !.waitlistCount = @ + 1]
  /\ createdAt' = [createdAt EXCEPT ![u] = RowCreated(u)]
  /\ Finish(r)
  /\ UNCHANGED deleted

(* renumberWaitlist orders by position, then by creation time.             *)
Before(v, w) ==
  \/ waitlistPosition[v] < waitlistPosition[w]
  \/ /\ waitlistPosition[v] = waitlistPosition[w]
     /\ createdAt[v] < createdAt[w]

(* Mutant: the learners who stay keep their old positions.                 *)
PositionKept(u, queue) == waitlistPosition[u]

RenumberedPosition(u, queue) == Cardinality({v \in queue : Before(v, u)}) + 1

(* Mutant: promotes from the end of the waitlist.                          *)
LastInLine(queue) ==
  {u \in queue : \A v \in queue : waitlistPosition[v] <= waitlistPosition[u]}

(* promoteNext takes a waiting learner of lowest position, if there is one. *)
NextInLine(queue) ==
  {u \in queue : \A v \in queue : waitlistPosition[u] <= waitlistPosition[v]}

(* The counters after u has left and promoted have been enrolled.          *)
(* Mutant: the promoted learner is not counted.                            *)
EnrolledForgetsPromoted(u, promoted) ==
  cohort.enrolledCount - (IF memberStatus[u] = "ENROLLED" THEN 1 ELSE 0)

EnrolledCountAfter(u, promoted) ==
  cohort.enrolledCount - (IF memberStatus[u] = "ENROLLED" THEN 1 ELSE 0)
    + Cardinality(promoted)

WaitlistCountAfter(queue) == Cardinality(queue)

(* The row of u is dropped, those of promoted are enrolled, and the others *)
(* still waiting are renumbered; the counters follow.                      *)
Drop(u, promoted) ==
  LET queue == Waiting \ ({u} \union promoted) IN
  /\ memberStatus' = [v \in Users |->
       IF v = u THEN "DROPPED"
       ELSE IF v \in promoted THEN "ENROLLED" ELSE memberStatus[v]]
  /\ waitlistPosition' = [v \in Users |->
       IF v \in queue THEN RenumberedPosition(v, queue)
       ELSE IF v \in promoted \union {u} THEN 0 ELSE waitlistPosition[v]]
  /\ cohort' = [cohort EXCEPT
       !.enrolledCount = EnrolledCountAfter(u, promoted),
       !.waitlistCount = WaitlistCountAfter(queue)]
  /\ UNCHANGED <<deleted, createdAt, req>>

LeaveSeat(u) ==
  /\ ~deleted
  /\ Undisturbed({})
  /\ memberStatus[u] = "ENROLLED"
  /\ \/ Waiting = {} /\ Drop(u, {})
     \/ \E w \in NextInLine(Waiting) : Drop(u, {w})

LeaveWaitlist(u) ==
  /\ ~deleted
  /\ Undisturbed({})
  /\ memberStatus[u] = "WAITLISTED"
  /\ Drop(u, {})

(***************************************************************************)
(* Staff.  update and cancel load the row, change it in memory and save    *)
(* it; remove loads it, counts the member rows and deletes it, and the     *)
(* database cascades the deletion to the member rows.                      *)
(***************************************************************************)
Load(r, op) ==
  /\ Undisturbed({})
  /\ op = "remove" => Members = {}
  /\ Begin(r, op, NoUser, cohort)
  /\ UNCHANGED <<cohort, deleted, rosterVars>>

Near(count, rows) == count - rows \in -MaxDrift..MaxDrift

Save(r, row) ==
  /\ Near(row.enrolledCount, Cardinality(Enrolled))
  /\ Near(row.waitlistCount, Cardinality(Waiting))
  /\ cohort' = row
  /\ deleted' = FALSE
  /\ Finish(r)
  /\ UNCHANGED rosterVars

(* A field the update leaves out keeps the value that was loaded.          *)
DtoStatus(r) == DtoStatuses \union {req[r].row.status}

UpdateSave(r, capacity, status) ==
  /\ req[r].op = "update"
  /\ capacity >= req[r].row.enrolledCount
  /\ status \in DtoStatus(r)
  /\ Save(r, [req[r].row EXCEPT !.capacity = capacity, !.status = status])

(* An update without a capacity skips the check against the counter.       *)
(* Mutant: without stripUndefined the missing capacity overwrites.         *)
DetailsSaveUnstripped(r, status) ==
  /\ req[r].op = "update"
  /\ status \in DtoStatus(r)
  /\ Save(r, [req[r].row EXCEPT !.capacity = 0, !.status = status])

DetailsSave(r, status) ==
  /\ req[r].op = "update"
  /\ status \in DtoStatus(r)
  /\ Save(r, [req[r].row EXCEPT !.status = status])

UpdateRefused(r) ==
  /\ req[r].op = "update"
  /\ \E c \in Capacities : c < req[r].row.enrolledCount
  /\ Finish(r)
  /\ UNCHANGED <<cohort, deleted, rosterVars>>

CancelSave(r) ==
  /\ req[r].op = "cancel"
  /\ Save(r, [req[r].row EXCEPT !.status = "CANCELLED"])

Remove(r) ==
  /\ req[r].op = "remove"
  /\ deleted' = TRUE
  /\ memberStatus' = [u \in Users |-> "NONE"]
  /\ waitlistPosition' = [u \in Users |-> 0]
  /\ createdAt' = [u \in Users |-> 0]
  /\ Finish(r)
  /\ UNCHANGED cohort

Next ==
  \/ \E r \in Requests, u \in Users : JoinCheck(r, u)
  \/ \E r \in Requests : JoinRefused(r)
  \/ \E r \in Requests : JoinTransaction(r)
  \/ \E u \in Users : LeaveSeat(u)
  \/ \E u \in Users : LeaveWaitlist(u)
  \/ \E r \in Requests, op \in StaffOps : Load(r, op)
  \/ \E r \in Requests, c \in Capacities, s \in CohortStatus : UpdateSave(r, c, s)
  \/ \E r \in Requests, s \in CohortStatus : DetailsSave(r, s)
  \/ \E r \in Requests : UpdateRefused(r)
  \/ \E r \in Requests : CancelSave(r)
  \/ \E r \in Requests : Remove(r)

Spec == Init /\ [][Next]_vars
-----------------------------------------------------------------------------
(* Every variable has its type.                                            *)
TypeOK ==
  /\ cohort \in Row
  /\ deleted \in BOOLEAN
  /\ memberStatus \in [Users -> MemberStatus]
  /\ waitlistPosition \in [Users -> Int]
  /\ createdAt \in [Users -> Nat]
  /\ req \in [Requests -> [op: {"idle", "join"} \union StaffOps,
                           user: Users \union {NoUser}, row: Row]]
  /\ \A r \in Requests : req[r].op = "join" => req[r].user \in Users

(* The denormalised counters of the cohort row agree with the member rows: *)
(* join decides on a seat by the counter alone.                            *)
CountsMatchRoster ==
  /\ cohort.enrolledCount = Cardinality(Enrolled)
  /\ cohort.waitlistCount = Cardinality(Waiting)

(* Never more enrolled learners than the capacity of the cohort, whatever  *)
(* joins, leaves and capacity changes came before ("The cohort row is      *)
(* locked so concurrent joins cannot oversubscribe").                      *)
NoOversubscription == Cardinality(Enrolled) <= cohort.capacity

(* The positions of the waiting learners are exactly 1..n, each once, and  *)
(* nobody else holds one.                                                  *)
WaitlistIsDense ==
  /\ {waitlistPosition[u] : u \in Waiting} = 1..Cardinality(Waiting)
  /\ \A u \in Users \ Waiting : waitlistPosition[u] = 0

(* Whatever the counters had become, a leave recounts the waitlist and     *)
(* puts its positions back to 1..n, keeping the order of those who wait.   *)
LeaveRepairsWaitlist ==
  [][(\E u \in Users : memberStatus'[u] = "DROPPED" /\ memberStatus[u] # "DROPPED")
     => /\ WaitlistIsDense'
        /\ cohort'.waitlistCount = Cardinality(Waiting')
        /\ \A u, v \in Waiting \intersect Waiting' :
             waitlistPosition[u] < waitlistPosition[v]
               => waitlistPosition'[u] < waitlistPosition'[v]]_vars

(* The waiting learners in the order of their positions.                   *)
Queue ==
  [i \in 1..Cardinality(Waiting) |-> CHOOSE u \in Waiting : waitlistPosition[u] = i]

SeatQueues == INSTANCE SeatQueue WITH
  seated <- Enrolled, queue <- Queue, capacity <- cohort.capacity

(* The rows and counters of a cohort behave as one queue for its seats.    *)
ImplementsSeatQueue == SeatQueues!Spec
=============================================================================
