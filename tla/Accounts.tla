------------------------------ MODULE Accounts ------------------------------
(***************************************************************************)
(* The rows of users (src/users): signups with a password or with Google   *)
(* and the referral they record, changes of role and status, the terms of  *)
(* a partner, and the superadmin that a start of the server guarantees.    *)
(*                                                                         *)
(* update, changeRole and setStatus load the row, change it in memory and  *)
(* save it; the save writes every column that differs.  Which column a     *)
(* profile, a password or an identity goes to does not matter here.        *)
(***************************************************************************)
EXTENDS Naturals, FiniteSets

CONSTANTS
  Users,          \* by email
  BootUser,       \* config.superadmin.email
  Roles,
  Requests,       \* the requests the servers handle at the same time
  MaxDisturbances \* a bound for the checker: how often requests overlap or fail

ASSUME BootAssumption    == BootUser \in Users
ASSUME RolesAssumption   == {"LEARNER", "PARTNER", "ADMIN", "SUPERADMIN"} \subseteq Roles
ASSUME RequestAssumption == IsFiniteSet(Requests) /\ Requests # {} /\ MaxDisturbances \in Nat

VARIABLES
  user,      \* the rows of users
  referral,  \* referrals, by referred user: there is one
  suspended, \* the users whose partner profile is SUSPENDED
  signup,    \* how each account with a referral code came to be
  req, overlaps, failures

rows == <<user, referral, suspended, signup>>
vars == <<rows, req, overlaps, failures>>

Row == [role: Roles \union {"NONE"}, status: {"ACTIVE", "SUSPENDED"}, referred: BOOLEAN]
NoRow == [role |-> "NONE", status |-> "ACTIVE", referred |-> FALSE]

(* The row of a referred user, there or not: its referrer does not matter.  *)
Referral == BOOLEAN

Ways == {"BOOT", "PASSWORD", "GOOGLE"}
Places == {"idle", "insert", "resolve", "attach", "setReferred", "partner", "load", "save"}

(* What an update changes; SAME is a field it leaves undefined.            *)
Patch == [role: Roles \union {"SAME"}, status: {"ACTIVE", "SUSPENDED", "SAME"}]
Same == [role |-> "SAME", status |-> "SAME"]

(* terms is the status that upsertPartner gives the partner profile.       *)
Request == [at: Places, user: Users, row: Row, patch: Patch, way: Ways, coded: BOOLEAN,
            terms: {"ACTIVE", "SUSPENDED"}]
Idle == [at |-> "idle", user |-> BootUser, row |-> NoRow, patch |-> Same, way |-> "BOOT",
         coded |-> FALSE, terms |-> "ACTIVE"]

Init ==
  /\ user = [u \in Users |-> NoRow]
  /\ referral = [u \in Users |-> FALSE]
  /\ suspended = {}
  /\ signup = [u \in Users |-> "NONE"]
  /\ req = [r \in Requests |-> Idle]
  /\ overlaps = 0
  /\ failures = 0

Exists(u) == user[u] # NoRow
IsActive(u) == Exists(u) /\ user[u].status = "ACTIVE"
IsSuperadmin(u) == user[u].role = "SUPERADMIN"
IsAdmin(u) == IsActive(u) /\ user[u].role \in {"ADMIN", "SUPERADMIN"}

(***************************************************************************)
(* Requests.                                                               *)
(***************************************************************************)
At(r, place) == req[r].at = place
Under(r) == req[r].at # "idle"
Finish(r) == req' = [req EXCEPT ![r] = Idle]
Continue(r, place) == req' = [req EXCEPT ![r].at = place]
Undisturbed == overlaps + failures < MaxDisturbances

(* Every first step counts whether a request was under way.                *)
Starts(r, request) ==
  /\ ~Under(r)
  /\ req' = [req EXCEPT ![r] = request]
  /\ \/ /\ \A q \in Requests : ~Under(q)
        /\ UNCHANGED overlaps
     \/ /\ \E q \in Requests : Under(q)
        /\ Undisturbed
        /\ overlaps' = overlaps + 1
  /\ UNCHANGED <<rows, failures>>

Goes == UNCHANGED <<overlaps, failures>>

(* A query fails or the process stops: what is saved by then stays.        *)
Fail(r) ==
  /\ Under(r)
  /\ Undisturbed
  /\ failures' = failures + 1
  /\ Finish(r)
  /\ UNCHANGED <<rows, overlaps>>

(***************************************************************************)
(* register and googleLogin.  register resolves the referral code first,   *)
(* googleLogin after it has created the account.                           *)
(***************************************************************************)
(* resolveReferrer: the code of an active user who is no suspended partner. *)
Referrers(u) == {w \in Users \ {u} : IsActive(w) /\ w \notin suspended}

Signup(u, way, coded) ==
  [Idle EXCEPT !.at = "insert", !.user = u, !.way = way, !.coded = coded,
               !.patch.role = "LEARNER"]

Register(r, u, coded) ==
  /\ ~Exists(u)
  /\ coded => Referrers(u) # {}
  /\ Starts(r, Signup(u, "PASSWORD", coded))

GoogleSignup(r, u, coded) == ~Exists(u) /\ Starts(r, Signup(u, "GOOGLE", coded))

(* Mutant: the referrer is written with the account, the referral later.   *)
NewAccountReferred(r) == [NoRow EXCEPT !.role = req[r].patch.role, !.referred = req[r].coded]

NewAccount(r) == [NoRow EXCEPT !.role = req[r].patch.role]

AfterInsert(r) ==
  IF ~req[r].coded THEN "idle" ELSE IF req[r].way = "GOOGLE" THEN "resolve" ELSE "attach"

(* create: the unique index on the email refuses a second account.         *)
Insert(r) ==
  LET u == req[r].user IN
  /\ At(r, "insert")
  /\ ~Exists(u)
  /\ user' = [user EXCEPT ![u] = NewAccount(r)]
  /\ signup' = [signup EXCEPT ![u] = IF req[r].coded THEN req[r].way ELSE "NONE"]
  /\ \/ AfterInsert(r) = "idle" /\ Finish(r)
     \/ AfterInsert(r) # "idle" /\ Continue(r, AfterInsert(r))
  /\ Goes /\ UNCHANGED <<referral, suspended>>

InsertRefused(r) ==
  /\ At(r, "insert")
  /\ Exists(req[r].user)
  /\ Finish(r)
  /\ Goes /\ UNCHANGED rows

(* A code that nobody has fails the request, as one that may not be used.   *)
ResolveReferrer(r) ==
  /\ At(r, "resolve")
  /\ \/ Referrers(req[r].user) # {} /\ Continue(r, "attach")
     \/ Finish(r)
  /\ Goes /\ UNCHANGED rows

Attach(r) ==
  /\ At(r, "attach")
  /\ referral' = [referral EXCEPT ![req[r].user] = TRUE]
  /\ Continue(r, "setReferred")
  /\ Goes /\ UNCHANGED <<user, suspended, signup>>

(* Mutant: the referred user is not updated.                               *)
SetReferredByNothing(r) ==
  /\ At(r, "setReferred")
  /\ Finish(r)
  /\ Goes /\ UNCHANGED rows

SetReferredBy(r) ==
  /\ At(r, "setReferred")
  /\ user' = [user EXCEPT ![req[r].user].referred = TRUE]
  /\ Finish(r)
  /\ Goes /\ UNCHANGED <<referral, suspended, signup>>

(***************************************************************************)
(* Changes of a row.                                                       *)
(***************************************************************************)
Updating(u, patch) == [Idle EXCEPT !.at = "load", !.user = u, !.patch = patch]

Patched(row, patch) ==
  [row EXCEPT !.role = IF patch.role = "SAME" THEN @ ELSE patch.role,
              !.status = IF patch.status = "SAME" THEN @ ELSE patch.status]

LoadRow(r) ==
  /\ At(r, "load")
  /\ req' = [req EXCEPT ![r].at = "save", ![r].row = Patched(user[req[r].user], req[r].patch)]
  /\ Goes /\ UNCHANGED rows

SaveRow(r) ==
  /\ At(r, "save")
  /\ user' = [user EXCEPT ![req[r].user] = req[r].row]
  /\ Finish(r)
  /\ Goes /\ UNCHANGED <<referral, suspended, signup>>

(* A profile, a password or an identity.                                   *)
Update(r, u) == IsActive(u) /\ Starts(r, Updating(u, Same))

(* Mutant: the caller may be the target.                                   *)
MayChangeRoleOwn(actor, target, role) ==
  IsSuperadmin(target) \/ role = "SUPERADMIN" => IsSuperadmin(actor)

MayChangeRole(actor, target, role) ==
  /\ IsSuperadmin(target) \/ role = "SUPERADMIN" => IsSuperadmin(actor)
  /\ actor # target

ChangeRole(r, actor, target, role) ==
  /\ IsAdmin(actor) /\ Exists(target)
  /\ MayChangeRole(actor, target, role)
  /\ Starts(r, Updating(target, [Same EXCEPT !.role = role]))

ChangeStatus(r, actor, target, status) ==
  /\ IsAdmin(actor) /\ Exists(target)
  /\ actor # target
  /\ IsSuperadmin(target) => IsSuperadmin(actor)
  /\ Starts(r, Updating(target, [Same EXCEPT !.status = status]))

(* upsertPartner decides on the role it loaded whether the user becomes a  *)
(* partner.                                                                *)
UpsertPartner(r, actor, u, status) ==
  /\ IsAdmin(actor) /\ Exists(u)
  /\ Starts(r, [Idle EXCEPT !.at = "partner", !.user = u, !.terms = status,
       !.patch.role = IF user[u].role = "LEARNER" THEN "PARTNER" ELSE "SAME"])

SavePartner(r) ==
  LET u == req[r].user IN
  /\ At(r, "partner")
  /\ suspended' = IF req[r].terms = "SUSPENDED" THEN suspended \union {u} ELSE suspended \ {u}
  /\ \/ req[r].patch = Same /\ Finish(r)
     \/ req[r].patch # Same /\ req' = [req EXCEPT ![r] = Updating(u, req[r].patch)]
  /\ Goes /\ UNCHANGED <<user, referral, signup>>

(* A start of a server.                                                    *)
EnsureSuperadmin(r) ==
  /\ ~IsSuperadmin(BootUser)
  /\ Starts(r, IF Exists(BootUser)
               THEN Updating(BootUser, [Same EXCEPT !.role = "SUPERADMIN"])
               ELSE [Signup(BootUser, "BOOT", FALSE) EXCEPT !.patch.role = "SUPERADMIN"])

Step(r) ==
  \/ Insert(r) \/ InsertRefused(r) \/ ResolveReferrer(r) \/ Attach(r) \/ SetReferredBy(r)
  \/ LoadRow(r) \/ SaveRow(r) \/ SavePartner(r)

Arrives(r) ==
  \/ EnsureSuperadmin(r)
  \/ \E u \in Users, coded \in BOOLEAN : Register(r, u, coded) \/ GoogleSignup(r, u, coded)
  \/ \E u \in Users : Update(r, u)
  \/ \E actor, u \in Users :
       \/ \E role \in Roles : ChangeRole(r, actor, u, role)
       \/ \E status \in {"ACTIVE", "SUSPENDED"} :
            ChangeStatus(r, actor, u, status) \/ UpsertPartner(r, actor, u, status)

Next == \E r \in Requests : Arrives(r) \/ Step(r) \/ Fail(r)

Spec == Init /\ [][Next]_vars

-----------------------------------------------------------------------------
(* Nothing is under way, and so far nothing has overlapped or failed.      *)
Quiet == overlaps = 0 /\ failures = 0 /\ \A r \in Requests : ~Under(r)

(* Every row and request has a value of its kind: the type invariant of     *)
(* src/users.                                                              *)
TypeOK ==
  /\ user \in [Users -> Row]
  /\ referral \in [Users -> Referral]
  /\ suspended \subseteq Users
  /\ signup \in [Users -> Ways \union {"NONE"}]
  /\ req \in [Requests -> Request]
  /\ overlaps \in Nat
  /\ failures \in Nat

(* No step takes away the last active superadmin: nobody changes their own  *)
(* role or status, only a superadmin changes another, and no stale row is  *)
(* saved, as long as requests do not overlap, whatever fails.              *)
HasSuperadmin == \E u \in Users : IsSuperadmin(u) /\ IsActive(u)

SuperadminRemains == [][overlaps' = 0 /\ HasSuperadmin => HasSuperadmin']_vars

(* The referral of an account and its referred_by column agree: no update   *)
(* of the row drops the referrer, unless it overlaps the signup.           *)
ReferralsMatchUsers == Quiet => \A u \in Users : referral[u] <=> user[u].referred

(* Whatever overlaps or fails, nobody is marked as referred without the    *)
(* referral that a commission is computed from.                            *)
ReferredHasReferral == \A u \in Users : user[u].referred => referral[u]

(* "Validates a code before an account is created so signups never half     *)
(* succeed": whoever registered with a password and a code is referred.    *)
SignupsAreWhole == Quiet => \A u \in Users : signup[u] = "PASSWORD" => referral[u]

(* Who referred whom is told the same by the account, the referral and the  *)
(* signup.                                                                 *)
ReferralsAreWhole == TypeOK /\ ReferralsMatchUsers /\ SignupsAreWhole
=============================================================================
