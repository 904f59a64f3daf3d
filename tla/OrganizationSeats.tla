------------------------- MODULE OrganizationSeats -------------------------
(***************************************************************************)
(* One organization (src/organizations/organizations.service.ts): its      *)
(* members, its invitations, the seat packs it was granted or bought, and  *)
(* the seats its managers assign for courses.                              *)
(*                                                                         *)
(* No operation takes a lock or opens a transaction.  A handler awaits one *)
(* statement after another, other requests run in between, and a statement *)
(* that fails leaves the earlier ones committed.  Each step below is what  *)
(* one request does without letting a statement that matters run between.  *)
(***************************************************************************)
EXTENDS Naturals, FiniteSets

CONSTANTS
  Users,         \* the accounts; an email address stands for its account
  Owner,         \* organization.ownerId
  Staff,         \* a platform admin who is not one of them
  StartRoles,    \* the platform roles the accounts may come with
  Courses,
  Published,     \* the courses whose status is PUBLISHED; it changes elsewhere
  PackIds,       \* ids for seat packs: a bound for the checker
  PackSizes,     \* the seats a pack may have
  InvitationIds, \* ids for invitations: a bound for the checker
  Requests,      \* the requests the servers handle at the same time
  NoUser, NoCourse, NoInvitation,
  MaxFailures    \* a bound for the checker: how often a handler fails

ASSUME OwnerAssumption   == Owner \in Users /\ Staff \notin Users
(* The platform role of an account.                                        *)
UserRoles == {"SUPERADMIN", "ADMIN", "INSTRUCTOR", "LEARNER", "ORG_ADMIN", "PARTNER"}

ASSUME RolesAssumption   == StartRoles \subseteq [Users -> UserRoles]
ASSUME CourseAssumption  == Published \subseteq Courses
ASSUME SizesAssumption   == PackSizes \subseteq 1..10000
ASSUME FiniteAssumption  == IsFiniteSet(Users) /\ IsFiniteSet(Courses)
                            /\ IsFiniteSet(PackIds) /\ IsFiniteSet(Requests)
ASSUME RequestsAssumption == Requests # {}
ASSUME NullsAssumption   == /\ NoUser \notin Users /\ NoCourse \notin Courses
                            /\ NoInvitation \notin InvitationIds
ASSUME FailureAssumption == MaxFailures \in Nat

VARIABLES
  exists,      \* the row of the organization is there
  member,      \* organization_memberships, by user
  role,        \* the platform role of each user; promoteToOrgAdmin is all
               \* that changes it here
  pack,        \* seat_packs
  seats,       \* seat_assignments that are not revoked: pairs of user and course
  invitation,  \* organization_invitations
  req,         \* what each request is in the middle of
  counted,     \* the most seats a seat summary has counted
  overlapped,  \* something happened while a request was under way
  failures

rows == <<exists, member, role, pack, seats, invitation>>
vars == <<rows, req, counted, overlapped, failures>>

MemberRoles == {"ADMIN", "MEMBER"}

(* What a user is in the organization, and a seat that is not revoked.      *)
Membership == MemberRoles \union {"NONE"}
SeatAssignment == Users \X Courses

Pack == [status: {"NONE", "ACTIVE", "EXPIRED", "REMOVED"}, seats: PackSizes \union {0},
         source: {"MANUAL", "PURCHASE"}]
NoPack == [status |-> "NONE", seats |-> 0, source |-> "MANUAL"]

Invitation == [status: {"NONE", "PENDING", "ACCEPTED", "REVOKED"},
               email: Users \union {NoUser}, role: MemberRoles, expired: BOOLEAN]
NoRow == [status |-> "NONE", email |-> NoUser, role |-> "MEMBER", expired |-> FALSE]

Places == {"idle", "createMember", "createPromote", "assignCount", "assignSave",
           "removeSeats", "inviteSave", "acceptJoin", "acceptSave", "acceptPromote"}

(* user, course and role are what the request is about; invitation is the   *)
(* row it has loaded, joined whether it found a membership.                *)
Request == [at: Places, user: Users \union {NoUser}, course: Courses \union {NoCourse},
            id: InvitationIds \union {NoInvitation}, row: Invitation, joined: BOOLEAN]
Idle == [at |-> "idle", user |-> NoUser, course |-> NoCourse, id |-> NoInvitation,
         row |-> NoRow, joined |-> FALSE]

Init ==
  /\ exists = FALSE
  /\ member = [u \in Users |-> "NONE"]
  /\ role \in StartRoles
  /\ pack = [k \in PackIds |-> NoPack]
  /\ seats = {}
  /\ invitation = [i \in InvitationIds |-> NoRow]
  /\ req = [r \in Requests |-> Idle]
  /\ counted = 0
  /\ overlapped = FALSE
  /\ failures = 0

(***************************************************************************)
(* Who may do what, and what a seat summary counts.                        *)
(***************************************************************************)
IsPlatformStaff(actor) ==
  \/ actor = Staff
  \/ actor \in Users /\ role[actor] \in {"ADMIN", "SUPERADMIN"}

(* contextFor, requireManage.                                              *)
CanManage(actor) ==
  /\ exists
  /\ \/ IsPlatformStaff(actor)
     \/ actor = Owner
     \/ actor \in Users /\ member[actor] = "ADMIN"

Managers == {actor \in Users \union {Staff} : CanManage(actor)}

IsPending(i) == invitation[i].status = "PENDING" /\ ~invitation[i].expired

(* seatSummary.  The sum over the packs that have not expired is the number *)
(* of their seats.                                                         *)
ActivePacks == {k \in PackIds : pack[k].status = "ACTIVE"}
SeatUnits == UNION {{k} \X (1..pack[k].seats) : k \in ActivePacks}

TotalSeats == Cardinality(SeatUnits)
UsedSeats == Cardinality(seats)

(* Mutant: the guard lets one request through when nothing is left.         *)
SeatsAvailableOffByOne == UsedSeats <= TotalSeats

(* Math.max(0, total - used) > 0                                            *)
SeatsAvailable == UsedSeats < TotalSeats

(***************************************************************************)
(* Requests.                                                               *)
(***************************************************************************)
At(r, place) == req[r].at = place
Under(r) == r \in {q \in Requests : req[q] # Idle}
Finish(r) == req' = [req EXCEPT ![r] = Idle]
Continue(r, place) == req' = [req EXCEPT ![r].at = place]

(* Every first step records whether another request was under way.         *)
Arrives == overlapped' = (overlapped \/ \E q \in Requests : Under(q))

Fail(r) ==
  /\ Under(r)
  /\ failures < MaxFailures
  /\ failures' = failures + 1
  /\ Finish(r)
  /\ UNCHANGED <<rows, counted, overlapped>>

(***************************************************************************)
(* create: the organization, then the membership of its owner, then the    *)
(* platform role.                                                          *)
(***************************************************************************)
Create(r) ==
  /\ ~exists /\ req[r] = Idle
  /\ exists' = TRUE
  /\ req' = [req EXCEPT ![r].at = "createMember", ![r].user = Owner]
  /\ Arrives
  /\ UNCHANGED <<member, role, pack, seats, invitation, counted, failures>>

CreateMember(r) ==
  /\ At(r, "createMember")
  /\ member' = [member EXCEPT ![Owner] = "ADMIN"]
  /\ Continue(r, "createPromote")
  /\ UNCHANGED <<exists, role, pack, seats, invitation, counted, overlapped, failures>>

(* promoteToOrgAdmin(user): only a learner is promoted.                     *)
Promoted(u) == [role EXCEPT ![u] = IF @ = "LEARNER" THEN "ORG_ADMIN" ELSE @]

Promote(r) ==
  /\ At(r, "createPromote") \/ At(r, "acceptPromote")
  /\ role' = Promoted(req[r].user)
  /\ Finish(r)
  /\ UNCHANGED <<exists, member, pack, seats, invitation, counted, overlapped, failures>>

(***************************************************************************)
(* removeMember: the membership, then the seats.                           *)
(***************************************************************************)
RemoveMember(r, actor, u) ==
  /\ req[r] = Idle
  /\ CanManage(actor)
  /\ u # Owner
  /\ member[u] # "NONE"
  /\ member' = [member EXCEPT ![u] = "NONE"]
  /\ req' = [req EXCEPT ![r].at = "removeSeats", ![r].user = u]
  /\ Arrives
  /\ UNCHANGED <<exists, role, pack, seats, invitation, counted, failures>>

SeatsWithout(u) == {h \in seats : h[1] # u}

RemoveSeats(r) ==
  /\ At(r, "removeSeats")
  /\ seats' = SeatsWithout(req[r].user)
  /\ Finish(r)
  /\ UNCHANGED <<exists, member, role, pack, invitation, counted, overlapped, failures>>

(***************************************************************************)
(* Seat packs: granted by an admin or by a paid purchase, removed when the *)
(* purchase is refunded, and no longer counted once they have expired.     *)
(***************************************************************************)
GrantSeatPack(k, size, source) ==
  /\ exists
  /\ pack[k].status = "NONE"
  /\ pack' = [pack EXCEPT ![k] = [status |-> "ACTIVE", seats |-> size, source |-> source]]
  /\ Arrives
  /\ UNCHANGED <<exists, member, role, seats, invitation, req, counted, failures>>

RemoveSeatPacksByPurchase(k) ==
  /\ pack[k].source = "PURCHASE" /\ pack[k].status \in {"ACTIVE", "EXPIRED"}
  /\ pack' = [pack EXCEPT ![k].status = "REMOVED"]
  /\ Arrives
  /\ UNCHANGED <<exists, member, role, seats, invitation, req, counted, failures>>

SeatPackExpires(k) ==
  /\ pack[k].status = "ACTIVE"
  /\ pack' = [pack EXCEPT ![k].status = "EXPIRED"]
  /\ Arrives
  /\ UNCHANGED <<exists, member, role, seats, invitation, req, counted, failures>>

(***************************************************************************)
(* invite: one pending invitation for an address, so the earlier one is    *)
(* revoked, then the new one is saved and mailed.                          *)
(***************************************************************************)
(* Whether a row has expired is read only while it is pending, and kept     *)
(* only as long.                                                           *)
Revoked(row) == [row EXCEPT !.status = "REVOKED", !.expired = FALSE]

(* Mutants: the earlier invitations of the address stay pending, or the     *)
(* update does not ask for their status.                                   *)
WithoutPendingForgets(u) == invitation
WithoutPendingRevokesAll(u) == [i \in InvitationIds |->
  IF invitation[i].email = u THEN Revoked(invitation[i]) ELSE invitation[i]]

WithoutPending(u) == [i \in InvitationIds |->
  IF invitation[i].email = u /\ invitation[i].status = "PENDING"
  THEN Revoked(invitation[i]) ELSE invitation[i]]

Invite(r, actor, u, as) ==
  /\ req[r] = Idle
  /\ CanManage(actor)
  /\ member[u] = "NONE"
  /\ invitation' = WithoutPending(u)
  /\ req' = [req EXCEPT ![r].at = "inviteSave",
                        ![r].row = [NoRow EXCEPT !.status = "PENDING", !.email = u, !.role = as]]
  /\ Arrives
  /\ UNCHANGED <<exists, member, role, pack, seats, counted, failures>>

InviteSave(r, i) ==
  /\ At(r, "inviteSave")
  /\ invitation[i] = NoRow
  /\ invitation' = [invitation EXCEPT ![i] = req[r].row]
  /\ Finish(r)
  /\ UNCHANGED <<exists, member, role, pack, seats, counted, overlapped, failures>>

RevokeInvitation(actor, i) ==
  /\ CanManage(actor)
  /\ invitation[i].status = "PENDING"
  /\ invitation' = [invitation EXCEPT ![i] = Revoked(@)]
  /\ Arrives
  /\ UNCHANGED <<exists, member, role, pack, seats, req, counted, failures>>

InvitationExpires(i) ==
  /\ IsPending(i)
  /\ invitation' = [invitation EXCEPT ![i].expired = TRUE]
  /\ Arrives
  /\ UNCHANGED <<exists, member, role, pack, seats, req, counted, failures>>

(***************************************************************************)
(* acceptInvitation: the invitation and the membership are loaded, the     *)
(* membership is saved, then the loaded invitation, then the role.         *)
(***************************************************************************)
AcceptInvitation(r, actor, i) ==
  /\ req[r] = Idle
  /\ IsPending(i)
  /\ invitation[i].email = actor
  /\ req' = [req EXCEPT ![r].at = "acceptJoin", ![r].user = actor, ![r].id = i,
                        ![r].row = invitation[i], ![r].joined = member[actor] # "NONE"]
  /\ Arrives
  /\ UNCHANGED <<rows, counted, failures>>

(* The unique index refuses a second membership, and the request fails.    *)
AcceptJoin(r) ==
  LET u == req[r].user IN
  /\ At(r, "acceptJoin")
  /\ \/ /\ req[r].joined
        /\ Continue(r, "acceptSave")
        /\ UNCHANGED member
     \/ /\ ~req[r].joined /\ member[u] = "NONE"
        /\ member' = [member EXCEPT ![u] = req[r].row.role]
        /\ Continue(r, "acceptSave")
     \/ /\ ~req[r].joined /\ member[u] # "NONE"
        /\ Finish(r)
        /\ UNCHANGED member
  /\ UNCHANGED <<exists, role, pack, seats, invitation, counted, overlapped, failures>>

Accepted(row) == [row EXCEPT !.status = "ACCEPTED"]

AcceptSave(r) ==
  /\ At(r, "acceptSave")
  /\ invitation' = [invitation EXCEPT ![req[r].id] = Accepted(req[r].row)]
  /\ \/ req[r].row.role = "ADMIN" /\ Continue(r, "acceptPromote")
     \/ req[r].row.role # "ADMIN" /\ Finish(r)
  /\ UNCHANGED <<exists, member, role, pack, seats, counted, overlapped, failures>>

(***************************************************************************)
(* assignSeat: the checks, the count of the seats, and the row, in three   *)
(* steps.  revokeSeat is one conditional update.                           *)
(***************************************************************************)
AssignSeat(r, actor, u, c) ==
  /\ req[r] = Idle
  /\ CanManage(actor)
  /\ member[u] # "NONE"
  /\ c \in Published
  /\ <<u, c>> \notin seats
  /\ req' = [req EXCEPT ![r].at = "assignCount", ![r].user = u, ![r].course = c]
  /\ Arrives
  /\ UNCHANGED <<rows, counted, failures>>

AssignCount(r) ==
  /\ At(r, "assignCount")
  /\ counted' = IF TotalSeats > counted THEN TotalSeats ELSE counted
  /\ \/ SeatsAvailable /\ Continue(r, "assignSave")
     \/ ~SeatsAvailable /\ Finish(r)
  /\ UNCHANGED <<rows, overlapped, failures>>

(* The row of the pair is deleted, whatever it says, and a new one saved.   *)
AssignSave(r) ==
  /\ At(r, "assignSave")
  /\ seats' = seats \union {<<req[r].user, req[r].course>>}
  /\ Finish(r)
  /\ UNCHANGED <<exists, member, role, pack, invitation, counted, overlapped, failures>>

RevokeSeat(actor, u, c) ==
  /\ CanManage(actor)
  /\ <<u, c>> \in seats
  /\ seats' = seats \ {<<u, c>>}
  /\ Arrives
  /\ UNCHANGED <<exists, member, role, pack, invitation, req, counted, failures>>

Next ==
  \/ \E r \in Requests :
       \/ Create(r) \/ CreateMember(r) \/ Promote(r) \/ RemoveSeats(r)
       \/ AcceptJoin(r) \/ AcceptSave(r) \/ AssignCount(r) \/ AssignSave(r) \/ Fail(r)
       \/ \E u \in Users, i \in InvitationIds : AcceptInvitation(r, u, i)
       \/ \E i \in InvitationIds : InviteSave(r, i)
       \/ \E actor \in Users \union {Staff}, u \in Users :
            \/ RemoveMember(r, actor, u)
            \/ \E as \in MemberRoles : Invite(r, actor, u, as)
            \/ \E c \in Courses : AssignSeat(r, actor, u, c)
  \/ \E actor \in Users \union {Staff} :
       \/ \E i \in InvitationIds : RevokeInvitation(actor, i)
       \/ \E u \in Users, c \in Courses : RevokeSeat(actor, u, c)
  \/ \E i \in InvitationIds : InvitationExpires(i)
  \/ \E k \in PackIds : \/ RemoveSeatPacksByPurchase(k) \/ SeatPackExpires(k)
                        \/ \E n \in PackSizes, source \in {"MANUAL", "PURCHASE"} :
                             GrantSeatPack(k, n, source)

Spec == Init /\ [][Next]_vars

-----------------------------------------------------------------------------
(* Nothing is under way, and so far nothing has overlapped or failed.      *)
Quiet == ~overlapped /\ failures = 0 /\ \A r \in Requests : ~Under(r)

(* Every row and every request has a value of its kind: the type invariant  *)
(* of the tables and handlers of the organizations service.                *)
TypeOK ==
  /\ exists \in BOOLEAN
  /\ member \in [Users -> Membership]
  /\ role \in [Users -> UserRoles]
  /\ pack \in [PackIds -> Pack]
  /\ seats \subseteq SeatAssignment
  /\ invitation \in [InvitationIds -> Invitation]
  /\ req \in [Requests -> Request]
  /\ counted \in Nat
  /\ overlapped \in BOOLEAN
  /\ failures \in 0..MaxFailures

(* However the requests interleave, the seats in use exceed the largest     *)
(* pool that a request has counted by less than the number of requests     *)
(* that run at the same time: assignSeat counts before it saves, so each   *)
(* of them may give away the same last seat, once.  With one request at a  *)
(* time the pool is never oversold.                                        *)
Saving == {r \in Requests : req[r].at = "assignSave"}
OversoldByOverlapsOnly ==
  UsedSeats + Cardinality(Saving) < counted + Cardinality(Requests)

(* A seat in use is held by a member, unless requests overlapped or one     *)
(* failed between its statements: removeMember takes the seats after the    *)
(* membership, assignSeat checks the membership long before it saves.       *)
SeatsHeldByMembers == Quiet => \A h \in seats : member[h[1]] # "NONE"

(* An address has at most one invitation that can be accepted, and a        *)
(* member has none: who is removed comes back only if invited again.        *)
OneWayIn ==
  Quiet => \A i \in InvitationIds : invitation[i].status = "PENDING" =>
             /\ member[invitation[i].email] = "NONE"
             /\ \A j \in InvitationIds \ {i} :
                  ~ /\ invitation[j].status = "PENDING"
                    /\ invitation[j].email = invitation[i].email

(* Nobody but the owner is a member without an invitation that was          *)
(* accepted, or is being accepted, in their name; and this under every     *)
(* overlap, also with a revocation that comes too late.                    *)
MembersWereInvited ==
  failures = 0 => \A u \in Users \ {Owner} : member[u] # "NONE" =>
    \E i \in InvitationIds :
      /\ invitation[i].email = u
      /\ \/ invitation[i].status = "ACCEPTED"
         \/ \E r \in Requests : req[r].id = i /\ req[r].at = "acceptSave"

(* The owner stays an admin of the organization, and no admin of it is left *)
(* a learner: whoever was one is promoted, as owner or with the invitation *)
(* that made them an admin.  Other roles are left alone.                   *)
LearnersArePromoted ==
  Quiet /\ exists =>
    /\ member[Owner] = "ADMIN"
    /\ \A u \in Users : member[u] = "ADMIN" => role[u] # "LEARNER"

(* "Create an organization and make its owner an org admin": the platform   *)
(* role of the owner is ORG_ADMIN, or they are platform staff, which is     *)
(* more.                                                                   *)
OwnerIsOrgAdmin ==
  Quiet /\ exists => role[Owner] \in {"ORG_ADMIN", "ADMIN", "SUPERADMIN"}

(* An invitation that was accepted stays accepted, and one that is no longer *)
(* pending never becomes pending again, whatever overlaps.                 *)
InvitationsMoveForward ==
  [][\A i \in InvitationIds :
       /\ invitation[i].status = "ACCEPTED" => invitation'[i].status = "ACCEPTED"
       /\ invitation[i].status = "REVOKED" => invitation'[i].status # "PENDING"]_vars

(* Every seat in use is backed by a pack and a membership, as far as the    *)
(* reads that assignSeat decides by allow.                                 *)
SeatsAreBacked == TypeOK /\ OversoldByOverlapsOnly /\ SeatsHeldByMembers

(* Invitations are the only way in, each way is open once, and who becomes  *)
(* an admin that way is promoted.                                          *)
MembersCameByInvitation == OneWayIn /\ MembersWereInvited /\ LearnersArePromoted
=============================================================================
