--------------------------- MODULE AccountsProofs ---------------------------
(***************************************************************************)
(* Theorems about Accounts, for all accounts, roles and requests and any   *)
(* number of overlaps and failures: types, and that whoever is marked as   *)
(* referred has a referral; as long as nothing overlaps or fails, that the  *)
(* rows tell the same of a referral; and, as long as nothing overlaps, that *)
(* no step takes away the last active superadmin.                          *)
(***************************************************************************)
EXTENDS Accounts, TLAPS

(* A request that is about to mark its user, or to save a row that is      *)
(* marked, comes after the referral was recorded; and a signup brings the  *)
(* role of the account it creates.                                         *)
MarksAreBacked ==
  \A r \in Requests :
    /\ req[r].at = "setReferred" => referral[req[r].user]
    /\ req[r].row.referred => referral[req[r].user]
    /\ req[r].at = "insert" => req[r].patch.role \in Roles

ReferralInvariant == TypeOK /\ ReferredHasReferral /\ MarksAreBacked

-----------------------------------------------------------------------------
LEMMA IdleIsRequest == Idle \in Request /\ Idle.row.referred = FALSE /\ Idle.at = "idle"
BY BootAssumption, RolesAssumption
   DEF Idle, Request, Places, Row, NoRow, Patch, Same, Ways

LEMMA SignupIsRequest ==
  ASSUME NEW u \in Users, NEW way \in Ways, NEW coded \in BOOLEAN
  PROVE  /\ Signup(u, way, coded) \in Request
         /\ Signup(u, way, coded).row.referred = FALSE
         /\ Signup(u, way, coded).at = "insert"
         /\ Signup(u, way, coded).patch.role = "LEARNER"
BY BootAssumption, RolesAssumption
   DEF Signup, Idle, Request, Places, Row, NoRow, Patch, Same, Ways

LEMMA UpdatingIsRequest ==
  ASSUME NEW u \in Users, NEW patch \in Patch
  PROVE  /\ Updating(u, patch) \in Request
         /\ Updating(u, patch).row.referred = FALSE
         /\ Updating(u, patch).at = "load"
BY BootAssumption, RolesAssumption
   DEF Updating, Idle, Request, Places, Row, NoRow, Patch, Same, Ways

LEMMA PatchedIsRow ==
  ASSUME NEW row \in Row, NEW patch \in Patch
  PROVE  Patched(row, patch) \in Row /\ Patched(row, patch).referred = row.referred
<1> DEFINE role == IF patch.role = "SAME" THEN row.role ELSE patch.role
           status == IF patch.status = "SAME" THEN row.status ELSE patch.status
<1>1. role \in Roles \union {"NONE"} /\ status \in {"ACTIVE", "SUSPENDED"}
  BY DEF Row, Patch
<1>2. Patched(row, patch) = [row EXCEPT !.role = role, !.status = status]
  BY DEF Patched
<1> HIDE DEF role, status
<1> QED BY <1>1, <1>2 DEF Row

(* What a new request must bring along for the invariant.                  *)
Sound(request) ==
  /\ request \in Request
  /\ request.row.referred = FALSE /\ request.at # "setReferred"
  /\ request.at = "insert" => request.patch.role \in Roles

LEMMA StartsKeep ==
  ASSUME ReferralInvariant, NEW r \in Requests, NEW request, Sound(request), Starts(r, request)
  PROVE  ReferralInvariant'
<1>1. /\ UNCHANGED <<user, referral, suspended, signup, failures>>
      /\ req' = [req EXCEPT ![r] = request]
      /\ overlaps' \in {overlaps, overlaps + 1}
  BY DEF Starts, rows
<1>2. TypeOK' BY <1>1 DEF ReferralInvariant, TypeOK, Sound
<1>3. ReferredHasReferral' BY <1>1 DEF ReferralInvariant, ReferredHasReferral
<1>4. MarksAreBacked'
  BY <1>1 DEF ReferralInvariant, TypeOK, MarksAreBacked, Sound
<1> QED BY <1>2, <1>3, <1>4 DEF ReferralInvariant

LEMMA FinishKeeps ==
  ASSUME ReferralInvariant, NEW r \in Requests, Finish(r),
         UNCHANGED rows, overlaps' \in Nat, failures' \in Nat
  PROVE  ReferralInvariant'
<1>1. UNCHANGED <<user, referral, suspended, signup>> BY DEF rows
<1>2. req' = [req EXCEPT ![r] = Idle] BY DEF Finish
<1>3. TypeOK' BY <1>1, <1>2, IdleIsRequest DEF ReferralInvariant, TypeOK
<1>4. ReferredHasReferral' BY <1>1 DEF ReferralInvariant, ReferredHasReferral
<1>5. MarksAreBacked'
  BY <1>1, <1>2, IdleIsRequest DEF ReferralInvariant, TypeOK, MarksAreBacked
<1> QED BY <1>3, <1>4, <1>5 DEF ReferralInvariant

LEMMA ArrivesKeeps ==
  ASSUME ReferralInvariant, NEW r \in Requests, Arrives(r)
  PROVE  ReferralInvariant'
<1> USE DEF Sound
<1>1. CASE EnsureSuperadmin(r)
  <2> DEFINE again == Updating(BootUser, [Same EXCEPT !.role = "SUPERADMIN"])
             first == [Signup(BootUser, "BOOT", FALSE) EXCEPT !.patch.role = "SUPERADMIN"]
  <2>1. Sound(again)
    <3>1. [Same EXCEPT !.role = "SUPERADMIN"] \in Patch
      BY RolesAssumption DEF Same, Patch
    <3> QED BY <3>1, BootAssumption, UpdatingIsRequest
  <2>2. Sound(first)
    BY BootAssumption, RolesAssumption
       DEF Signup, Idle, Request, Places, Row, NoRow, Patch, Same, Ways
  <2> HIDE DEF again, first
  <2>3. Starts(r, IF Exists(BootUser) THEN again ELSE first)
    BY <1>1 DEF EnsureSuperadmin, again, first
  <2>4. Sound(IF Exists(BootUser) THEN again ELSE first) BY <2>1, <2>2
  <2> HIDE DEF Sound
  <2> QED BY <2>3, <2>4, StartsKeep
<1>2. ASSUME NEW u \in Users, NEW coded \in BOOLEAN, Register(r, u, coded)
      PROVE  ReferralInvariant'
  <2>1. Sound(Signup(u, "PASSWORD", coded)) BY SignupIsRequest, RolesAssumption DEF Ways
  <2> QED BY <1>2, <2>1, StartsKeep DEF Register
<1>3. ASSUME NEW u \in Users, NEW coded \in BOOLEAN, GoogleSignup(r, u, coded)
      PROVE  ReferralInvariant'
  <2>1. Sound(Signup(u, "GOOGLE", coded)) BY SignupIsRequest, RolesAssumption DEF Ways
  <2> QED BY <1>3, <2>1, StartsKeep DEF GoogleSignup
<1>4. ASSUME NEW u \in Users, Update(r, u) PROVE ReferralInvariant'
  <2>1. Same \in Patch BY DEF Same, Patch
  <2>2. Sound(Updating(u, Same)) BY <2>1, UpdatingIsRequest
  <2> QED BY <1>4, <2>2, StartsKeep DEF Update
<1>5. ASSUME NEW actor \in Users, NEW u \in Users, NEW role \in Roles, ChangeRole(r, actor, u, role)
      PROVE  ReferralInvariant'
  <2>1. [Same EXCEPT !.role = role] \in Patch BY DEF Same, Patch
  <2>2. Sound(Updating(u, [Same EXCEPT !.role = role])) BY <2>1, UpdatingIsRequest
  <2> QED BY <1>5, <2>2, StartsKeep DEF ChangeRole
<1>6. ASSUME NEW actor \in Users, NEW u \in Users, NEW status \in {"ACTIVE", "SUSPENDED"},
             ChangeStatus(r, actor, u, status)
      PROVE  ReferralInvariant'
  <2>1. [Same EXCEPT !.status = status] \in Patch BY DEF Same, Patch
  <2>2. Sound(Updating(u, [Same EXCEPT !.status = status])) BY <2>1, UpdatingIsRequest
  <2> QED BY <1>6, <2>2, StartsKeep DEF ChangeStatus
<1>7. ASSUME NEW actor \in Users, NEW u \in Users, NEW status \in {"ACTIVE", "SUSPENDED"},
             UpsertPartner(r, actor, u, status)
      PROVE  ReferralInvariant'
  <2> DEFINE terms == [Idle EXCEPT !.at = "partner", !.user = u, !.terms = status,
                         !.patch.role = IF user[u].role = "LEARNER" THEN "PARTNER" ELSE "SAME"]
  <2>1. Sound(terms)
    BY BootAssumption, RolesAssumption
       DEF Idle, Request, Places, Row, NoRow, Patch, Same, Ways
  <2> HIDE DEF terms, Sound
  <2> QED BY <1>7, <2>1, StartsKeep DEF UpsertPartner, terms
<1> QED BY <1>1, <1>2, <1>3, <1>4, <1>5, <1>6, <1>7 DEF Arrives

-----------------------------------------------------------------------------
LEMMA StepKeeps ==
  ASSUME ReferralInvariant, NEW r \in Requests, Step(r)
  PROVE  ReferralInvariant'
<1> DEFINE u == req[r].user
<1>0. /\ req[r] \in Request /\ u \in Users
      /\ req[r].row \in Row /\ req[r].patch \in Patch /\ req[r].way \in Ways
  BY DEF ReferralInvariant, TypeOK, Request
<1> HIDE DEF u
<1>1. CASE Insert(r)
  <2>1. /\ user' = [user EXCEPT ![u] = NewAccount(r)]
        /\ signup' = [signup EXCEPT ![u] = IF req[r].coded THEN req[r].way ELSE "NONE"]
        /\ UNCHANGED <<referral, suspended, overlaps, failures>>
        /\ At(r, "insert")
    BY <1>1 DEF Insert, Goes, u
  <2>2. NewAccount(r) \in Row /\ NewAccount(r).referred = FALSE
    BY <2>1 DEF ReferralInvariant, MarksAreBacked, NewAccount, NoRow, Row, At
  <2>3. PICK next \in Request :
          /\ req' = [req EXCEPT ![r] = next]
          /\ next.row.referred => referral[next.user]
          /\ next.at \notin {"setReferred", "insert"}
    <3>1. CASE Finish(r)
      BY <3>1, IdleIsRequest DEF Finish
    <3>2. CASE AfterInsert(r) # "idle" /\ Continue(r, AfterInsert(r))
      <4> DEFINE next == [req[r] EXCEPT !.at = AfterInsert(r)]
      <4>1. AfterInsert(r) \in {"resolve", "attach"} BY <3>2 DEF AfterInsert
      <4>2. next \in Request /\ next.row = req[r].row /\ next.user = req[r].user
            /\ next.at = AfterInsert(r)
        BY <4>1, <1>0 DEF Request, Places
      <4>3. req' = [req EXCEPT ![r] = next] BY <3>2 DEF Continue, ReferralInvariant, TypeOK
      <4> QED BY <4>1, <4>2, <4>3 DEF ReferralInvariant, MarksAreBacked
    <3> QED BY <1>1, <3>1, <3>2 DEF Insert
  <2>4. TypeOK' BY <1>0, <2>1, <2>2, <2>3 DEF ReferralInvariant, TypeOK
  <2>5. ReferredHasReferral'
    BY <2>1, <2>2 DEF ReferralInvariant, TypeOK, ReferredHasReferral
  <2>6. MarksAreBacked' BY <2>1, <2>3 DEF ReferralInvariant, TypeOK, MarksAreBacked
  <2> QED BY <2>4, <2>5, <2>6 DEF ReferralInvariant
<1>2. CASE InsertRefused(r)
  BY <1>2, FinishKeeps DEF InsertRefused, Goes, ReferralInvariant, TypeOK
<1>3. CASE ResolveReferrer(r)
  <2>1. CASE Finish(r)
    BY <1>3, <2>1, FinishKeeps DEF ResolveReferrer, Goes, ReferralInvariant, TypeOK
  <2>2. CASE Continue(r, "attach")
    <3>1. /\ UNCHANGED <<user, referral, suspended, signup, overlaps, failures>>
          /\ req' = [req EXCEPT ![r].at = "attach"]
      BY <1>3, <2>2 DEF ResolveReferrer, Continue, Goes, rows
    <3>2. TypeOK' BY <1>0, <3>1 DEF ReferralInvariant, TypeOK, Request, Places
    <3>3. ReferredHasReferral' BY <3>1 DEF ReferralInvariant, ReferredHasReferral
    <3>4. MarksAreBacked' BY <1>0, <3>1 DEF ReferralInvariant, TypeOK, MarksAreBacked, Request
    <3> QED BY <3>2, <3>3, <3>4 DEF ReferralInvariant
  <2> QED BY <1>3, <2>1, <2>2 DEF ResolveReferrer
<1>4. CASE Attach(r)
  <2>1. /\ UNCHANGED <<user, suspended, signup, overlaps, failures>>
        /\ referral' = [referral EXCEPT ![u] = TRUE]
        /\ req' = [req EXCEPT ![r].at = "setReferred"]
    BY <1>4 DEF Attach, Continue, Goes, u
  <2>2. TypeOK' BY <1>0, <2>1 DEF ReferralInvariant, TypeOK, Request, Places, Referral
  <2>3. ReferredHasReferral'
    BY <1>0, <2>1 DEF ReferralInvariant, TypeOK, ReferredHasReferral, Referral
  <2>4. \A q \in Requests : req'[q].user = req[q].user /\ req'[q].row = req[q].row
                            /\ req[q].user \in Users /\ req'[q].patch = req[q].patch
                            /\ (q # r => req'[q].at = req[q].at) /\ req'[r].at = "setReferred"
    BY <1>0, <2>1 DEF ReferralInvariant, TypeOK, Request
  <2>5. referral'[u] /\ \A w \in Users : referral[w] => referral'[w]
    BY <1>0, <2>1 DEF ReferralInvariant, TypeOK, Referral
  <2>6. MarksAreBacked'
    BY <2>4, <2>5 DEF ReferralInvariant, MarksAreBacked, u
  <2> QED BY <2>2, <2>3, <2>6 DEF ReferralInvariant
<1>5. CASE SetReferredBy(r)
  <2>1. /\ UNCHANGED <<referral, suspended, signup, overlaps, failures>>
        /\ user' = [user EXCEPT ![u].referred = TRUE]
        /\ req' = [req EXCEPT ![r] = Idle]
        /\ referral[u]
    BY <1>5 DEF SetReferredBy, Finish, At, Goes, u, ReferralInvariant, MarksAreBacked
  <2>2. TypeOK' BY <1>0, <2>1, IdleIsRequest DEF ReferralInvariant, TypeOK, Row
  <2>3. ReferredHasReferral'
    BY <1>0, <2>1 DEF ReferralInvariant, TypeOK, ReferredHasReferral, Row
  <2>4. MarksAreBacked'
    BY <2>1, IdleIsRequest DEF ReferralInvariant, TypeOK, MarksAreBacked
  <2> QED BY <2>2, <2>3, <2>4 DEF ReferralInvariant
<1>6. CASE LoadRow(r)
  <2> DEFINE row == Patched(user[u], req[r].patch)
  <2>0. user[u] \in Row BY <1>0 DEF ReferralInvariant, TypeOK
  <2>1. row \in Row /\ row.referred = user[u].referred BY <1>0, <2>0, PatchedIsRow
  <2> HIDE DEF row
  <2>2. /\ UNCHANGED <<user, referral, suspended, signup, overlaps, failures>>
        /\ req' = [req EXCEPT ![r].at = "save", ![r].row = row]
    BY <1>6 DEF LoadRow, Goes, rows, row, u
  <2>3. TypeOK' BY <1>0, <2>1, <2>2 DEF ReferralInvariant, TypeOK, Request, Places
  <2>4. ReferredHasReferral' BY <2>2 DEF ReferralInvariant, ReferredHasReferral
  <2>5. user[u].referred => referral[u]
    BY <1>0 DEF ReferralInvariant, ReferredHasReferral
  <2>6. MarksAreBacked'
    BY <1>0, <2>1, <2>2, <2>5 DEF ReferralInvariant, TypeOK, MarksAreBacked, Request, u
  <2> QED BY <2>3, <2>4, <2>6 DEF ReferralInvariant
<1>7. CASE SaveRow(r)
  <2>1. /\ UNCHANGED <<referral, suspended, signup, overlaps, failures>>
        /\ user' = [user EXCEPT ![u] = req[r].row]
        /\ req' = [req EXCEPT ![r] = Idle]
        /\ req[r].row.referred => referral[u]
    BY <1>7 DEF SaveRow, Finish, Goes, u, ReferralInvariant, MarksAreBacked
  <2>2. TypeOK' BY <1>0, <2>1, IdleIsRequest DEF ReferralInvariant, TypeOK
  <2>3. ReferredHasReferral'
    BY <1>0, <2>1 DEF ReferralInvariant, TypeOK, ReferredHasReferral
  <2>4. MarksAreBacked'
    BY <2>1, IdleIsRequest DEF ReferralInvariant, TypeOK, MarksAreBacked
  <2> QED BY <2>2, <2>3, <2>4 DEF ReferralInvariant
<1>8. CASE SavePartner(r)
  <2>1. /\ UNCHANGED <<user, referral, signup, overlaps, failures>>
        /\ suspended' \subseteq Users
    BY <1>0, <1>8 DEF SavePartner, Goes, ReferralInvariant, TypeOK, u
  <2>2. PICK next : Sound(next) /\ req' = [req EXCEPT ![r] = next]
    <3>1. CASE Finish(r) BY <3>1, IdleIsRequest DEF Finish, Sound
    <3>2. CASE req' = [req EXCEPT ![r] = Updating(u, req[r].patch)]
      BY <1>0, <3>2, UpdatingIsRequest DEF Sound
    <3> QED BY <1>8, <3>1, <3>2 DEF SavePartner, u
  <2>3. TypeOK' BY <2>1, <2>2 DEF ReferralInvariant, TypeOK, Sound
  <2>4. ReferredHasReferral' BY <2>1 DEF ReferralInvariant, ReferredHasReferral
  <2>5. MarksAreBacked'
    BY <2>1, <2>2 DEF ReferralInvariant, TypeOK, MarksAreBacked, Sound
  <2> QED BY <2>3, <2>4, <2>5 DEF ReferralInvariant
<1> QED BY <1>1, <1>2, <1>3, <1>4, <1>5, <1>6, <1>7, <1>8 DEF Step

-----------------------------------------------------------------------------
LEMMA InitialReferrals == Init => ReferralInvariant
<1> SUFFICES ASSUME Init PROVE ReferralInvariant OBVIOUS
<1>1. NoRow \in Row /\ NoRow.referred = FALSE BY DEF NoRow, Row
<1>2. TypeOK BY <1>1, IdleIsRequest DEF Init, TypeOK, Referral
<1>3. ReferredHasReferral BY <1>1 DEF Init, ReferredHasReferral
<1>4. MarksAreBacked BY IdleIsRequest DEF Init, MarksAreBacked
<1> QED BY <1>2, <1>3, <1>4 DEF ReferralInvariant

LEMMA NextKeepsReferrals == ReferralInvariant /\ [Next]_vars => ReferralInvariant'
<1> SUFFICES ASSUME ReferralInvariant, [Next]_vars PROVE ReferralInvariant' OBVIOUS
<1>1. ASSUME NEW r \in Requests, Arrives(r) PROVE ReferralInvariant' BY <1>1, ArrivesKeeps
<1>2. ASSUME NEW r \in Requests, Step(r) PROVE ReferralInvariant' BY <1>2, StepKeeps
<1>3. ASSUME NEW r \in Requests, Fail(r) PROVE ReferralInvariant'
  <2>1. /\ Finish(r) /\ UNCHANGED rows
        /\ overlaps' \in Nat /\ failures' \in Nat
    BY <1>3 DEF Fail, rows, ReferralInvariant, TypeOK
  <2> QED BY <2>1, FinishKeeps
<1>4. CASE UNCHANGED vars
  BY <1>4 DEF vars, rows, ReferralInvariant, TypeOK, ReferredHasReferral, MarksAreBacked
<1> QED BY <1>1, <1>2, <1>3, <1>4 DEF Next

LEMMA ReferralsAlways == Spec => []ReferralInvariant
BY InitialReferrals, NextKeepsReferrals, PTL DEF Spec

-----------------------------------------------------------------------------
(***************************************************************************)
(* While nothing has overlapped or failed, one request is under way at     *)
(* most, and what it has loaded is still so when it saves.                 *)
(***************************************************************************)
Serial == overlaps = 0 /\ failures = 0
Alone == \A q, r \in Requests : Under(q) /\ Under(r) => q = r

(* The row that a request is about to save has the referrer of the account. *)
ChangeIsSafe(r) == At(r, "save") => req[r].row.referred = user[req[r].user].referred

(* A referral that is recorded and a signup that came with a code are told  *)
(* to the account and to the ledger by the request that is under way.      *)
ReferralsAreTold ==
  \A u \in Users : referral[u] =>
    user[u].referred \/ \E r \in Requests : At(r, "setReferred") /\ req[r].user = u
SignupsAreAttached ==
  \A u \in Users : signup[u] = "PASSWORD" =>
    referral[u] \/ \E r \in Requests : At(r, "attach") /\ req[r].user = u

SerialFacts ==
  Alone /\ (\A r \in Requests : ChangeIsSafe(r)) /\ ReferralsAreTold /\ SignupsAreAttached

AccountInvariant == ReferralInvariant /\ (Serial => SerialFacts)

-----------------------------------------------------------------------------
LEMMA StartsAlone ==
  ASSUME AccountInvariant, NEW r \in Requests, NEW request, Starts(r, request), Serial'
  PROVE  /\ Serial /\ SerialFacts
         /\ \A q \in Requests : ~Under(q)
         /\ UNCHANGED <<user, referral, signup>>
         /\ req' = [req EXCEPT ![r] = request]
<1>1. overlaps \in Nat /\ overlaps' = 0 /\ failures' = 0
  BY DEF AccountInvariant, ReferralInvariant, TypeOK, Serial
<1>2. UNCHANGED <<overlaps, failures>> /\ \A q \in Requests : ~Under(q)
  BY <1>1 DEF Starts
<1>3. Serial BY <1>1, <1>2 DEF Serial
<1> QED BY <1>2, <1>3 DEF Starts, rows, AccountInvariant

LEMMA StartedIsSafe ==
  ASSUME AccountInvariant, NEW r \in Requests, NEW request, Starts(r, request), Serial',
         request.at # "save"
  PROVE  SerialFacts'
<1>1. /\ SerialFacts /\ \A q \in Requests : ~Under(q)
      /\ UNCHANGED <<user, referral, signup>>
      /\ \A q \in Requests : req'[q] = IF q = r THEN request ELSE req[q]
  BY StartsAlone DEF AccountInvariant, ReferralInvariant, TypeOK
<1>2. \A q \in Requests \ {r} : req'[q].at = "idle" /\ req[q].at = "idle"
  BY <1>1 DEF Under
<1>3. Alone' BY <1>2 DEF Alone, Under
<1>4. \A q \in Requests : ChangeIsSafe(q)' BY <1>1, <1>2 DEF ChangeIsSafe, At
<1>5. ReferralsAreTold' /\ SignupsAreAttached'
  BY <1>1 DEF SerialFacts, ReferralsAreTold, SignupsAreAttached, At, Under
<1> QED BY <1>3, <1>4, <1>5 DEF SerialFacts

(* No request begins with a row to save.                                   *)
LEMMA ArrivesAtABeginning ==
  ASSUME NEW r \in Requests, Arrives(r)
  PROVE  \E request : Starts(r, request) /\ request.at \in {"insert", "load", "partner"}
<1>1. ASSUME NEW u \in Users, NEW way, NEW coded
      PROVE  /\ Signup(u, way, coded).at = "insert"
             /\ [Signup(u, way, coded) EXCEPT !.patch.role = "SUPERADMIN"].at = "insert"
  BY DEF Signup, Idle
<1>2. ASSUME NEW u, NEW patch PROVE Updating(u, patch).at = "load"
  BY DEF Updating, Idle
<1>3. CASE EnsureSuperadmin(r)
  BY <1>1, <1>2, <1>3, BootAssumption DEF EnsureSuperadmin
<1>4. ASSUME NEW u \in Users, NEW coded \in BOOLEAN, Register(r, u, coded) \/ GoogleSignup(r, u, coded)
      PROVE  \E request : Starts(r, request) /\ request.at = "insert"
  BY <1>1, <1>4 DEF Register, GoogleSignup
<1>5. ASSUME NEW u \in Users, Update(r, u)
      PROVE  \E request : Starts(r, request) /\ request.at = "load"
  BY <1>2, <1>5 DEF Update
<1>6. ASSUME NEW actor \in Users, NEW u \in Users, NEW role \in Roles, ChangeRole(r, actor, u, role)
      PROVE  \E request : Starts(r, request) /\ request.at = "load"
  BY <1>2, <1>6 DEF ChangeRole
<1>7. ASSUME NEW actor \in Users, NEW u \in Users, NEW status \in {"ACTIVE", "SUSPENDED"},
             ChangeStatus(r, actor, u, status)
      PROVE  \E request : Starts(r, request) /\ request.at = "load"
  BY <1>2, <1>7 DEF ChangeStatus
<1>8. ASSUME NEW actor \in Users, NEW u \in Users, NEW status \in {"ACTIVE", "SUSPENDED"},
             UpsertPartner(r, actor, u, status)
      PROVE  \E request : Starts(r, request) /\ request.at = "partner"
  <2> DEFINE role == IF user[u].role = "LEARNER" THEN "PARTNER" ELSE "SAME"
             terms == [Idle EXCEPT !.at = "partner", !.user = u, !.terms = status,
                         !.patch.role = role]
  <2>1. terms.at = "partner" BY DEF Idle
  <2> QED BY <1>8, <2>1 DEF UpsertPartner
<1> QED BY <1>3, <1>4, <1>5, <1>6, <1>7, <1>8 DEF Arrives

LEMMA ArrivesSafely ==
  ASSUME AccountInvariant, NEW r \in Requests, Arrives(r), Serial'
  PROVE  SerialFacts'
<1>1. PICK request : Starts(r, request) /\ request.at # "save" BY ArrivesAtABeginning
<1> QED BY <1>1, StartedIsSafe

-----------------------------------------------------------------------------
(* While nothing else is under way a request goes on alone.                 *)
LEMMA GoesOnAlone ==
  ASSUME AccountInvariant, NEW r \in Requests, Under(r), NEW next, Goes, Serial',
         req' = [req EXCEPT ![r] = next]
  PROVE  /\ SerialFacts /\ Alone'
         /\ \A q \in Requests \ {r} : ~Under(q) /\ req'[q] = req[q]
         /\ req'[r] = next
<1>1. SerialFacts BY DEF AccountInvariant, Serial, Goes
<1>2. \A q \in Requests \ {r} : ~Under(q) BY <1>1 DEF SerialFacts, Alone
<1>3. \A q \in Requests : req'[q] = IF q = r THEN next ELSE req[q]
  BY DEF AccountInvariant, ReferralInvariant, TypeOK
<1>4. Alone' BY <1>2, <1>3 DEF Alone, Under
<1> QED BY <1>1, <1>2, <1>3, <1>4

LEMMA EndsSafely ==
  ASSUME AccountInvariant, NEW r \in Requests, Under(r), Finish(r), Goes, Serial',
         ~At(r, "setReferred"), ~At(r, "attach"),
         UNCHANGED <<user, referral, signup>>
  PROVE  SerialFacts'
<1>1. req' = [req EXCEPT ![r] = Idle] BY DEF Finish
<1>2. /\ SerialFacts /\ Alone'
      /\ \A q \in Requests \ {r} : ~Under(q) /\ req'[q] = req[q]
      /\ req'[r] = Idle
  BY <1>1, GoesOnAlone
<1>3. \A q \in Requests : ChangeIsSafe(q)'
  BY <1>2, IdleIsRequest DEF ChangeIsSafe, At, Under
<1>4. ReferralsAreTold' BY <1>2 DEF SerialFacts, ReferralsAreTold, At, Under
<1>5. SignupsAreAttached' BY <1>2 DEF SerialFacts, SignupsAreAttached, At, Under
<1> QED BY <1>2, <1>3, <1>4, <1>5 DEF SerialFacts

LEMMA StepIsSafe ==
  ASSUME AccountInvariant, NEW r \in Requests, Step(r), Serial'
  PROVE  SerialFacts'
<1> DEFINE u == req[r].user
<1>0. /\ ReferralInvariant /\ TypeOK /\ user \in [Users -> Row] /\ u \in Users
      /\ referral \in [Users -> BOOLEAN] /\ signup \in [Users -> Ways \union {"NONE"}]
      /\ req \in [Requests -> Request]
      /\ req[r].row \in Row /\ req[r].patch \in Patch /\ user[u] \in Row
  BY DEF AccountInvariant, ReferralInvariant, TypeOK, Request, Referral
<1> HIDE DEF u
<1>1. CASE Insert(r)
  <2>1. /\ ~Exists(u) /\ At(r, "insert") /\ Goes /\ Under(r)
        /\ user' = [user EXCEPT ![u] = NewAccount(r)]
        /\ signup' = [signup EXCEPT ![u] = IF req[r].coded THEN req[r].way ELSE "NONE"]
        /\ UNCHANGED referral
    BY <1>1 DEF Insert, At, Under, u
  <2>2. PICK next :
          /\ req' = [req EXCEPT ![r] = next]
          /\ next.at \in {"idle", "resolve", "attach"}
          /\ req[r].coded /\ req[r].way = "PASSWORD" => next.at = "attach" /\ next.user = u
    <3>1. CASE Finish(r)
      <4>1. ~req[r].coded
        <5>1. req'[r] = Idle BY <1>0, <3>1 DEF Finish
        <5>2. ASSUME AfterInsert(r) # "idle" PROVE ~Continue(r, AfterInsert(r))
          BY <1>0, <5>1, <5>2, IdleIsRequest DEF Continue, Request
        <5>3. AfterInsert(r) = "idle" BY <1>1, <5>2 DEF Insert
        <5> QED BY <5>3 DEF AfterInsert
      <4> QED BY <3>1, <4>1, IdleIsRequest DEF Finish
    <3>2. CASE AfterInsert(r) # "idle" /\ Continue(r, AfterInsert(r))
      <4> DEFINE next == [req[r] EXCEPT !.at = AfterInsert(r)]
      <4>1. next.at = AfterInsert(r) /\ next.user = u
        BY <1>0 DEF Request, u
      <4>2. req' = [req EXCEPT ![r] = next] BY <1>0, <3>2 DEF Continue
      <4> HIDE DEF next
      <4> QED BY <3>2, <4>1, <4>2 DEF AfterInsert
    <3> QED BY <1>1, <3>1, <3>2 DEF Insert
  <2>3. /\ SerialFacts /\ Alone'
        /\ \A q \in Requests \ {r} : ~Under(q) /\ req'[q] = req[q]
        /\ req'[r] = next
    BY <2>1, <2>2, GoesOnAlone
  <2>4. \A q \in Requests : ChangeIsSafe(q)'
    BY <2>2, <2>3 DEF ChangeIsSafe, At, Under
  <2>5. user[u].referred = FALSE
    BY <2>1 DEF Exists, NoRow
  <2>6. \A w \in Users : referral[w] => user[w].referred
    BY <2>1, <2>3 DEF SerialFacts, ReferralsAreTold, At, Under
  <2>7. ReferralsAreTold'
    BY <1>0, <2>1, <2>5, <2>6 DEF ReferralsAreTold
  <2>8. SignupsAreAttached'
    <3>1. \A w \in Users : signup[w] = "PASSWORD" => referral[w]
      BY <2>1, <2>3 DEF SerialFacts, SignupsAreAttached, At, Under
    <3>2. ASSUME NEW w \in Users, signup'[w] = "PASSWORD", w = u
          PROVE  At(r, "attach")' /\ req'[r].user = w
      BY <1>0, <2>1, <2>2, <2>3, <3>2 DEF At
    <3> QED BY <1>0, <2>1, <3>1, <3>2 DEF SignupsAreAttached
  <2> QED BY <2>3, <2>4, <2>7, <2>8 DEF SerialFacts
<1>2. CASE InsertRefused(r)
  BY <1>2, EndsSafely DEF InsertRefused, At, Under, rows
<1>3. CASE ResolveReferrer(r)
  <2>1. At(r, "resolve") /\ Under(r) /\ Goes /\ UNCHANGED <<user, referral, signup>>
    BY <1>3 DEF ResolveReferrer, At, Under, rows
  <2>2. CASE Finish(r) BY <2>1, <2>2, EndsSafely DEF At
  <2>3. CASE Continue(r, "attach")
    <3> DEFINE next == [req[r] EXCEPT !.at = "attach"]
    <3>1. req' = [req EXCEPT ![r] = next] /\ next.at = "attach"
      BY <1>0, <2>3 DEF Continue, Request
    <3> HIDE DEF next
    <3>2. /\ SerialFacts /\ Alone'
          /\ \A q \in Requests \ {r} : ~Under(q) /\ req'[q] = req[q]
          /\ req'[r] = next
      BY <2>1, <3>1, GoesOnAlone
    <3>3. \A q \in Requests : ChangeIsSafe(q)'
      BY <3>1, <3>2 DEF ChangeIsSafe, At, Under
    <3>4. ReferralsAreTold'
      BY <2>1, <3>2 DEF SerialFacts, ReferralsAreTold, At, Under
    <3>5. SignupsAreAttached'
      BY <2>1, <3>2 DEF SerialFacts, SignupsAreAttached, At, Under
    <3> QED BY <2>1, <3>2, <3>3, <3>4, <3>5 DEF SerialFacts
  <2> QED BY <1>3, <2>2, <2>3 DEF ResolveReferrer
<1>4. CASE Attach(r)
  <2> DEFINE next == [req[r] EXCEPT !.at = "setReferred"]
  <2>1. /\ req' = [req EXCEPT ![r] = next] /\ next.at = "setReferred" /\ next.user = u
        /\ referral' = [referral EXCEPT ![u] = TRUE]
        /\ UNCHANGED <<user, signup>> /\ Goes /\ At(r, "attach") /\ Under(r)
    BY <1>0, <1>4 DEF Attach, Continue, Request, At, Under, u
  <2> HIDE DEF next
  <2>2. /\ SerialFacts /\ Alone'
        /\ \A q \in Requests \ {r} : ~Under(q) /\ req'[q] = req[q]
        /\ req'[r] = next
    BY <2>1, GoesOnAlone
  <2>3. \A q \in Requests : ChangeIsSafe(q)'
    BY <2>1, <2>2 DEF ChangeIsSafe, At, Under
  <2>4. \A w \in Users : referral[w] => user[w].referred
    BY <2>1, <2>2 DEF SerialFacts, ReferralsAreTold, At, Under
  <2>5. ReferralsAreTold'
    BY <1>0, <2>1, <2>2, <2>4 DEF ReferralsAreTold, At
  <2>6. \A w \in Users \ {u} : signup[w] = "PASSWORD" => referral[w]
    BY <2>2 DEF SerialFacts, SignupsAreAttached, At, Under, u
  <2>7. SignupsAreAttached'
    BY <1>0, <2>1, <2>6 DEF SignupsAreAttached
  <2> QED BY <2>1, <2>2, <2>3, <2>5, <2>7 DEF SerialFacts
<1>5. CASE SetReferredBy(r)
  <2>1. /\ req' = [req EXCEPT ![r] = Idle]
        /\ user' = [user EXCEPT ![u].referred = TRUE]
        /\ UNCHANGED <<referral, signup>> /\ Goes /\ At(r, "setReferred") /\ Under(r)
    BY <1>5 DEF SetReferredBy, Finish, At, Under, u
  <2>2. /\ SerialFacts /\ Alone'
        /\ \A q \in Requests \ {r} : ~Under(q) /\ req'[q] = req[q]
        /\ req'[r] = Idle
    BY <2>1, GoesOnAlone
  <2>3. \A q \in Requests : ChangeIsSafe(q)'
    BY <2>2, IdleIsRequest DEF ChangeIsSafe, At, Under
  <2>4. \A w \in Users : w = u \/ user[w].referred => user'[w].referred
    BY <1>0, <2>1 DEF Row
  <2>5. ReferralsAreTold'
    BY <2>1, <2>2, <2>4 DEF SerialFacts, ReferralsAreTold, At, Under, u
  <2>6. SignupsAreAttached'
    BY <2>1, <2>2 DEF SerialFacts, SignupsAreAttached, At, Under
  <2> QED BY <2>2, <2>3, <2>5, <2>6 DEF SerialFacts
<1>6. CASE LoadRow(r)
  <2> DEFINE row == Patched(user[u], req[r].patch)
             next == [req[r] EXCEPT !.at = "save", !.row = row]
  <2>1. row.referred = user[u].referred BY <1>0, PatchedIsRow
  <2> HIDE DEF row
  <2>2. /\ req' = [req EXCEPT ![r] = next]
        /\ next.at = "save" /\ next.user = u /\ next.row = row
        /\ UNCHANGED <<user, referral, signup>> /\ Goes /\ At(r, "load") /\ Under(r)
    BY <1>0, <1>6 DEF LoadRow, Request, At, Under, rows, u, row
  <2> HIDE DEF next
  <2>3. /\ SerialFacts /\ Alone'
        /\ \A q \in Requests \ {r} : ~Under(q) /\ req'[q] = req[q]
        /\ req'[r] = next
    BY <2>2, GoesOnAlone
  <2>4. ASSUME NEW q \in Requests PROVE ChangeIsSafe(q)'
    <3>1. CASE q = r BY <2>1, <2>2, <2>3, <3>1 DEF ChangeIsSafe, At
    <3>2. CASE q # r BY <2>3, <3>2 DEF ChangeIsSafe, At, Under
    <3> QED BY <3>1, <3>2
  <2>5. ReferralsAreTold'
    BY <2>2, <2>3 DEF SerialFacts, ReferralsAreTold, At, Under
  <2>6. SignupsAreAttached'
    BY <2>2, <2>3 DEF SerialFacts, SignupsAreAttached, At, Under
  <2> QED BY <2>2, <2>3, <2>4, <2>5, <2>6 DEF SerialFacts
<1>7. CASE SaveRow(r)
  <2>1. /\ req' = [req EXCEPT ![r] = Idle]
        /\ user' = [user EXCEPT ![u] = req[r].row]
        /\ UNCHANGED <<referral, signup>> /\ Goes /\ At(r, "save") /\ Under(r)
    BY <1>7 DEF SaveRow, Finish, At, Under, u
  <2>2. /\ SerialFacts /\ Alone'
        /\ \A q \in Requests \ {r} : ~Under(q) /\ req'[q] = req[q]
        /\ req'[r] = Idle
    BY <2>1, GoesOnAlone
  <2>3. \A q \in Requests : ChangeIsSafe(q)'
    BY <2>2, IdleIsRequest DEF ChangeIsSafe, At, Under
  <2>4. req[r].row.referred = user[u].referred
    BY <2>1, <2>2 DEF SerialFacts, ChangeIsSafe, u
  <2>5. \A w \in Users : user'[w].referred = user[w].referred
    BY <1>0, <2>1, <2>4
  <2>6. ReferralsAreTold'
    BY <2>1, <2>2, <2>5 DEF SerialFacts, ReferralsAreTold, At, Under
  <2>7. SignupsAreAttached'
    BY <2>1, <2>2 DEF SerialFacts, SignupsAreAttached, At, Under
  <2> QED BY <2>2, <2>3, <2>6, <2>7 DEF SerialFacts
<1>8. CASE SavePartner(r)
  <2>1. At(r, "partner") /\ Under(r) /\ Goes /\ UNCHANGED <<user, referral, signup>>
    BY <1>8 DEF SavePartner, At, Under
  <2>2. CASE Finish(r) BY <2>1, <2>2, EndsSafely DEF At
  <2>3. CASE req' = [req EXCEPT ![r] = Updating(u, req[r].patch)]
    <3> DEFINE next == Updating(u, req[r].patch)
    <3>1. next.at = "load" /\ next.user = u /\ next.patch = req[r].patch
      BY DEF Updating, Idle
    <3> HIDE DEF next
    <3>2. /\ SerialFacts /\ Alone'
          /\ \A q \in Requests \ {r} : ~Under(q) /\ req'[q] = req[q]
          /\ req'[r] = next
      BY <2>1, <2>3, GoesOnAlone DEF next
    <3>3. \A q \in Requests : ChangeIsSafe(q)'
      BY <3>1, <3>2 DEF ChangeIsSafe, At, Under
    <3>4. ReferralsAreTold'
      BY <2>1, <3>2 DEF SerialFacts, ReferralsAreTold, At, Under
    <3>5. SignupsAreAttached'
      BY <2>1, <3>2 DEF SerialFacts, SignupsAreAttached, At, Under
    <3> QED BY <2>1, <3>2, <3>3, <3>4, <3>5 DEF SerialFacts
  <2> QED BY <1>8, <2>2, <2>3 DEF SavePartner, u
<1> QED BY <1>1, <1>2, <1>3, <1>4, <1>5, <1>6, <1>7, <1>8 DEF Step

LEMMA InitialAccounts == Init => AccountInvariant
<1> SUFFICES ASSUME Init PROVE AccountInvariant OBVIOUS
<1>1. ReferralInvariant BY InitialReferrals
<1>2. /\ Alone /\ ReferralsAreTold /\ SignupsAreAttached
      /\ \A r \in Requests : ChangeIsSafe(r)
  BY IdleIsRequest DEF Init, Alone, Under, ReferralsAreTold, SignupsAreAttached, ChangeIsSafe, At
<1> QED BY <1>1, <1>2 DEF AccountInvariant, SerialFacts

LEMMA StepsKeepAccounts == AccountInvariant /\ [Next]_vars => AccountInvariant'
<1> SUFFICES ASSUME AccountInvariant, [Next]_vars PROVE AccountInvariant' OBVIOUS
<1>1. ReferralInvariant' BY NextKeepsReferrals DEF AccountInvariant
<1>2. ASSUME Serial' PROVE SerialFacts'
  <2>1. ASSUME NEW r \in Requests, Arrives(r) PROVE SerialFacts'
    BY <1>2, <2>1, ArrivesSafely
  <2>2. ASSUME NEW r \in Requests, Step(r) PROVE SerialFacts'
    BY <1>2, <2>2, StepIsSafe
  <2>3. ASSUME NEW r \in Requests, Fail(r) PROVE FALSE
    BY <1>2, <2>3 DEF Fail, Serial, AccountInvariant, ReferralInvariant, TypeOK
  <2>4. CASE UNCHANGED vars
    BY <1>2, <2>4 DEF vars, rows, AccountInvariant, Serial, SerialFacts, Alone, Under, At,
       ChangeIsSafe, ReferralsAreTold, SignupsAreAttached
  <2> QED BY <2>1, <2>2, <2>3, <2>4 DEF Next
<1> QED BY <1>1, <1>2 DEF AccountInvariant

LEMMA AccountsAlways == Spec => []AccountInvariant
BY InitialAccounts, StepsKeepAccounts, PTL DEF Spec

(* Every state of the accounts is well typed.                              *)
THEOREM TypeCorrect == Spec => []TypeOK
<1>1. ReferralInvariant => TypeOK BY DEF ReferralInvariant
<1> QED BY <1>1, ReferralsAlways, PTL

(* Nobody is marked as referred without the referral that a commission is   *)
(* computed from, whatever overlaps or fails.                              *)
THEOREM ReferredAccountsHaveReferrals == Spec => []ReferredHasReferral
<1>1. ReferralInvariant => ReferredHasReferral BY DEF ReferralInvariant
<1> QED BY <1>1, ReferralsAlways, PTL

(* Who referred whom is told the same by the account, the referral and the  *)
(* signup, between requests that did not overlap and did not fail.         *)
THEOREM ReferralsAlwaysWhole == Spec => []ReferralsAreWhole
<1>1. ASSUME AccountInvariant PROVE ReferralsAreWhole
  <2>1. TypeOK /\ ReferredHasReferral BY <1>1 DEF AccountInvariant, ReferralInvariant
  <2>2. ASSUME Quiet PROVE SerialFacts BY <1>1, <2>2 DEF Quiet, AccountInvariant, Serial
  <2>3. ReferralsMatchUsers
    <3> SUFFICES ASSUME Quiet, NEW u \in Users PROVE referral[u] <=> user[u].referred
      BY DEF ReferralsMatchUsers
    <3>1. referral[u] => user[u].referred
      BY <2>2 DEF SerialFacts, ReferralsAreTold, Quiet, At, Under
    <3>2. user[u].referred => referral[u] BY <2>1 DEF ReferredHasReferral
    <3>3. referral[u] \in BOOLEAN /\ user[u].referred \in BOOLEAN
      BY <2>1 DEF TypeOK, Referral, Row
    <3> QED BY <3>1, <3>2, <3>3
  <2>4. SignupsAreWhole
    BY <2>2 DEF SignupsAreWhole, SerialFacts, SignupsAreAttached, Quiet, At, Under
  <2> QED BY <2>1, <2>3, <2>4 DEF ReferralsAreWhole
<1> QED BY <1>1, AccountsAlways, PTL

-----------------------------------------------------------------------------
(***************************************************************************)
(* While nothing has overlapped, no request is about to take away the last *)
(* active superadmin, whatever has failed.                                 *)
(***************************************************************************)
Guards(accounts) ==
  \E w \in Users : accounts[w].role = "SUPERADMIN" /\ accounts[w].status = "ACTIVE"

(* The accounts as they will be when the request has saved the row.        *)
With(r, row) == [user EXCEPT ![req[r].user] = row]

(* Where there is a superadmin, the change of a request leaves one.         *)
ChangeKeepsOne(r) ==
  /\ At(r, "partner") \/ At(r, "load") =>
       (Guards(user) => Guards(With(r, Patched(user[req[r].user], req[r].patch))))
  /\ At(r, "save") => (Guards(user) => Guards(With(r, req[r].row)))

SuperadminInvariant ==
  /\ ReferralInvariant
  /\ overlaps = 0 => Alone /\ \A r \in Requests : ChangeKeepsOne(r)

-----------------------------------------------------------------------------
(* An active superadmin who is not touched remains.                        *)
LEMMA AnotherGuards ==
  ASSUME TypeOK, NEW u \in Users, NEW w \in Users \ {u}, NEW row,
         user[w].role = "SUPERADMIN", user[w].status = "ACTIVE"
  PROVE  Guards([user EXCEPT ![u] = row])
BY DEF TypeOK, Guards

(* So does one whose row keeps its role and status.                        *)
LEMMA SameRowGuards ==
  ASSUME TypeOK, NEW u \in Users, NEW row, row.role = user[u].role, row.status = user[u].status,
         Guards(user)
  PROVE  Guards([user EXCEPT ![u] = row])
BY DEF TypeOK, Guards

(* What a request changes of a row.                                        *)
LEMMA PatchedFields ==
  ASSUME NEW row \in Row, NEW patch \in Patch
  PROVE  /\ Patched(row, patch).role = IF patch.role = "SAME" THEN row.role ELSE patch.role
         /\ Patched(row, patch).status = IF patch.status = "SAME" THEN row.status ELSE patch.status
<1> DEFINE role == IF patch.role = "SAME" THEN row.role ELSE patch.role
           status == IF patch.status = "SAME" THEN row.status ELSE patch.status
<1>1. Patched(row, patch) = [row EXCEPT !.role = role, !.status = status]
  BY DEF Patched
<1>2. row = [role |-> row.role, status |-> row.status, referred |-> row.referred]
  BY DEF Row
<1> HIDE DEF role, status
<1>3. Patched(row, patch).role = role /\ Patched(row, patch).status = status
  BY <1>1, <1>2
<1> QED BY <1>3 DEF role, status

(* What a new request must bring along.                                    *)
KeepsOne(request) ==
  /\ request.at # "save"
  /\ request.at \in {"partner", "load"} /\ Guards(user) =>
       Guards([user EXCEPT ![request.user] = Patched(user[request.user], request.patch)])

LEMMA StartsKeepsOne ==
  ASSUME SuperadminInvariant, NEW r \in Requests, NEW request, Starts(r, request),
         overlaps' = 0, KeepsOne(request)
  PROVE  (Alone /\ \A q \in Requests : ChangeKeepsOne(q))'
<1>1. overlaps \in Nat BY DEF SuperadminInvariant, ReferralInvariant, TypeOK
<1>2. /\ UNCHANGED user /\ \A q \in Requests : ~Under(q)
      /\ \A q \in Requests : req'[q] = IF q = r THEN request ELSE req[q]
  BY <1>1 DEF Starts, rows, SuperadminInvariant, ReferralInvariant, TypeOK
<1>3. Alone' BY <1>2 DEF Alone, Under
<1>4. ASSUME NEW q \in Requests PROVE ChangeKeepsOne(q)'
  <2>1. CASE q = r BY <1>2, <2>1 DEF KeepsOne, ChangeKeepsOne, At, With
  <2>2. CASE q # r BY <1>2, <2>2 DEF ChangeKeepsOne, At, Under
  <2> QED BY <2>1, <2>2
<1> QED BY <1>3, <1>4

LEMMA UpdatingKeepsOne ==
  ASSUME SuperadminInvariant, NEW r \in Requests, NEW u \in Users, NEW patch,
         Starts(r, Updating(u, patch)), overlaps' = 0,
         Guards(user) => Guards([user EXCEPT ![u] = Patched(user[u], patch)])
  PROVE  (Alone /\ \A q \in Requests : ChangeKeepsOne(q))'
<1>1. /\ Updating(u, patch).at = "load" /\ Updating(u, patch).user = u
      /\ Updating(u, patch).patch = patch
  BY DEF Updating, Idle
<1>2. KeepsOne(Updating(u, patch)) BY <1>1 DEF KeepsOne
<1> QED BY <1>2, StartsKeepsOne

(* Nobody changes themselves, and only a superadmin changes a superadmin.   *)
LEMMA ActorGuards ==
  ASSUME SuperadminInvariant, NEW actor \in Users, NEW u \in Users, NEW row,
         IsAdmin(actor), actor # u, IsSuperadmin(u) => IsSuperadmin(actor), Guards(user)
  PROVE  Guards([user EXCEPT ![u] = row])
<1>1. PICK w \in Users \ {u} : user[w].role = "SUPERADMIN" /\ user[w].status = "ACTIVE"
  BY DEF Guards, IsAdmin, IsActive, IsSuperadmin
<1> QED BY <1>1, AnotherGuards DEF SuperadminInvariant, ReferralInvariant

LEMMA ArrivesKeepsOne ==
  ASSUME SuperadminInvariant, NEW r \in Requests, Arrives(r), overlaps' = 0
  PROVE  (Alone /\ \A q \in Requests : ChangeKeepsOne(q))'
<1> DEFINE Kept == (Alone /\ \A q \in Requests : ChangeKeepsOne(q))'
<1>0. TypeOK /\ user \in [Users -> Row]
  BY DEF SuperadminInvariant, ReferralInvariant, TypeOK
<1>1. ASSUME NEW u \in Users, NEW way, NEW coded, Starts(r, Signup(u, way, coded))
      PROVE  Kept
  <2>1. Signup(u, way, coded).at = "insert" BY DEF Signup, Idle
  <2> QED BY <1>1, <2>1, StartsKeepsOne DEF KeepsOne
<1>2. CASE EnsureSuperadmin(r)
  <2> DEFINE patch == [Same EXCEPT !.role = "SUPERADMIN"]
             first == [Signup(BootUser, "BOOT", FALSE) EXCEPT !.patch.role = "SUPERADMIN"]
  <2>1. CASE Starts(r, Updating(BootUser, patch))
    <3>1. ~IsSuperadmin(BootUser) BY <1>2 DEF EnsureSuperadmin
    <3>2. Guards(user) => Guards([user EXCEPT ![BootUser] = Patched(user[BootUser], patch)])
      BY <1>0, <3>1, BootAssumption, AnotherGuards DEF Guards, IsSuperadmin
    <3> HIDE DEF patch
    <3> QED BY <2>1, <3>2, BootAssumption, UpdatingKeepsOne
  <2>2. CASE Starts(r, first)
    <3>1. first.at = "insert" BY DEF Signup, Idle
    <3> HIDE DEF first
    <3> QED BY <2>2, <3>1, StartsKeepsOne DEF KeepsOne
  <2> QED BY <1>2, <2>1, <2>2 DEF EnsureSuperadmin
<1>3. ASSUME NEW u \in Users, Update(r, u) PROVE Kept
  <2>1. Same \in Patch /\ Same.role = "SAME" /\ Same.status = "SAME" BY DEF Same, Patch
  <2>2. /\ Patched(user[u], Same).role = user[u].role
        /\ Patched(user[u], Same).status = user[u].status
    BY <1>0, <2>1, PatchedFields
  <2>3. Guards(user) => Guards([user EXCEPT ![u] = Patched(user[u], Same)])
    BY <1>0, <2>2, SameRowGuards
  <2> QED BY <1>3, <2>3, UpdatingKeepsOne DEF Update
<1>4. ASSUME NEW actor \in Users, NEW u \in Users, NEW role \in Roles, ChangeRole(r, actor, u, role)
      PROVE  Kept
  BY <1>4, ActorGuards, UpdatingKeepsOne DEF ChangeRole, MayChangeRole
<1>5. ASSUME NEW actor \in Users, NEW u \in Users, NEW status \in {"ACTIVE", "SUSPENDED"},
             ChangeStatus(r, actor, u, status)
      PROVE  Kept
  BY <1>5, ActorGuards, UpdatingKeepsOne DEF ChangeStatus
<1>6. ASSUME NEW actor \in Users, NEW u \in Users, NEW status \in {"ACTIVE", "SUSPENDED"},
             UpsertPartner(r, actor, u, status)
      PROVE  Kept
  <2> DEFINE role == IF user[u].role = "LEARNER" THEN "PARTNER" ELSE "SAME"
             terms == [Idle EXCEPT !.at = "partner", !.user = u, !.terms = status,
                         !.patch.role = role]
  <2>1. /\ terms.at = "partner" /\ terms.user = u
        /\ terms.patch \in Patch /\ terms.patch.role = role /\ terms.patch.status = "SAME"
    BY RolesAssumption DEF Idle, Patch, Same
  <2> HIDE DEF terms
  <2>2. /\ Patched(user[u], terms.patch).role = IF role = "SAME" THEN user[u].role ELSE role
        /\ Patched(user[u], terms.patch).status = user[u].status
    BY <1>0, <2>1, PatchedFields
  <2>3. ASSUME Guards(user) PROVE Guards([user EXCEPT ![u] = Patched(user[u], terms.patch)])
    <3>1. CASE user[u].role = "LEARNER"
      BY <1>0, <2>3, <3>1, AnotherGuards DEF Guards
    <3>2. CASE user[u].role # "LEARNER"
      BY <1>0, <2>2, <2>3, <3>2, SameRowGuards
    <3> QED BY <3>1, <3>2
  <2>4. KeepsOne(terms) BY <2>1, <2>3 DEF KeepsOne
  <2>5. Starts(r, terms) BY <1>6 DEF UpsertPartner, terms
  <2> QED BY <2>4, <2>5, StartsKeepsOne
<1>7. ASSUME NEW u \in Users, NEW coded \in BOOLEAN, Register(r, u, coded) \/ GoogleSignup(r, u, coded)
      PROVE  Kept
  BY <1>1, <1>7 DEF Register, GoogleSignup
<1> QED BY <1>2, <1>3, <1>4, <1>5, <1>6, <1>7 DEF Arrives

-----------------------------------------------------------------------------
(* A request that goes on alone, or ends.                                  *)
LEMMA GoesOnKeepsOne ==
  ASSUME SuperadminInvariant, NEW r \in Requests, Under(r), NEW next, overlaps = 0,
         req' = [req EXCEPT ![r] = next],
         next.at \in {"partner", "load"} /\ Guards(user') =>
           Guards([user' EXCEPT ![next.user] = Patched(user'[next.user], next.patch)]),
         next.at = "save" /\ Guards(user') => Guards([user' EXCEPT ![next.user] = next.row])
  PROVE  (Alone /\ \A q \in Requests : ChangeKeepsOne(q))'
<1>1. /\ \A q \in Requests \ {r} : ~Under(q)
      /\ \A q \in Requests : req'[q] = IF q = r THEN next ELSE req[q]
  BY DEF SuperadminInvariant, Alone, ReferralInvariant, TypeOK
<1>2. Alone' BY <1>1 DEF Alone, Under
<1>3. ASSUME NEW q \in Requests PROVE ChangeKeepsOne(q)'
  <2>1. CASE q = r BY <1>1, <2>1 DEF ChangeKeepsOne, At, With
  <2>2. CASE q # r BY <1>1, <2>2 DEF ChangeKeepsOne, At, Under
  <2> QED BY <2>1, <2>2
<1> QED BY <1>2, <1>3

LEMMA FinishKeepsOne ==
  ASSUME SuperadminInvariant, NEW r \in Requests, Under(r), overlaps = 0, Finish(r)
  PROVE  (Alone /\ \A q \in Requests : ChangeKeepsOne(q))'
BY GoesOnKeepsOne, IdleIsRequest DEF Finish

LEMMA StepKeepsOne ==
  ASSUME SuperadminInvariant, NEW r \in Requests, Step(r), overlaps' = 0
  PROVE  (Alone /\ \A q \in Requests : ChangeKeepsOne(q))'
<1> DEFINE Kept == (Alone /\ \A q \in Requests : ChangeKeepsOne(q))'
           u == req[r].user
<1>0. /\ req \in [Requests -> Request] /\ req[r] \in Request /\ u \in Users
      /\ overlaps = 0 /\ Under(r)
  <2>1. Goes /\ Under(r)
    BY DEF Step, Insert, InsertRefused, ResolveReferrer, Attach, SetReferredBy, LoadRow, SaveRow,
       SavePartner, At, Under
  <2> QED BY <2>1 DEF Goes, SuperadminInvariant, ReferralInvariant, TypeOK, Request
<1>1. CASE Finish(r) BY <1>0, <1>1, FinishKeepsOne
<1>2. ASSUME NEW place \in {"resolve", "attach", "setReferred"}, Continue(r, place)
      PROVE  Kept
  <2> DEFINE next == [req[r] EXCEPT !.at = place]
  <2>1. req' = [req EXCEPT ![r] = next] /\ next.at = place
    BY <1>0, <1>2 DEF Continue, Request
  <2> HIDE DEF next
  <2> QED BY <1>0, <2>1, GoesOnKeepsOne
<1>3. CASE LoadRow(r)
  <2> DEFINE row == Patched(user[u], req[r].patch)
             next == [req[r] EXCEPT !.at = "save", !.row = row]
  <2>1. /\ req' = [req EXCEPT ![r] = next] /\ At(r, "load") /\ UNCHANGED user
        /\ next.at = "save" /\ next.user = u /\ next.row = row
    BY <1>0, <1>3 DEF LoadRow, Request, rows
  <2>2. Guards(user) => Guards([user EXCEPT ![u] = row])
    BY <1>0, <2>1 DEF SuperadminInvariant, ChangeKeepsOne, With
  <2> HIDE DEF row, next, u
  <2> QED BY <1>0, <2>1, <2>2, GoesOnKeepsOne
<1>4. CASE At(r, "partner") /\ UNCHANGED user /\ req' = [req EXCEPT ![r] = Updating(u, req[r].patch)]
  <2> DEFINE next == Updating(u, req[r].patch)
  <2>1. next.at = "load" /\ next.user = u /\ next.patch = req[r].patch
    BY DEF Updating, Idle
  <2>2. Guards(user) => Guards([user EXCEPT ![u] = Patched(user[u], req[r].patch)])
    BY <1>0, <1>4 DEF SuperadminInvariant, ChangeKeepsOne, With
  <2>3. req' = [req EXCEPT ![r] = next] BY <1>4
  <2> HIDE DEF next, u
  <2> QED BY <1>0, <1>4, <2>1, <2>2, <2>3, GoesOnKeepsOne
<1>5. AfterInsert(r) # "idle" => AfterInsert(r) \in {"resolve", "attach"} BY DEF AfterInsert
<1>6. CASE Insert(r) BY <1>1, <1>2, <1>5, <1>6 DEF Insert
<1>7. CASE InsertRefused(r) \/ SetReferredBy(r) \/ SaveRow(r)
  BY <1>1, <1>7 DEF InsertRefused, SetReferredBy, SaveRow
<1>8. CASE ResolveReferrer(r) \/ Attach(r)
  BY <1>1, <1>2, <1>8 DEF ResolveReferrer, Attach
<1>9. CASE SavePartner(r) BY <1>1, <1>4, <1>9 DEF SavePartner
<1> QED BY <1>3, <1>6, <1>7, <1>8, <1>9 DEF Step

LEMMA InitialSuperadmins == Init => SuperadminInvariant
<1> SUFFICES ASSUME Init PROVE SuperadminInvariant OBVIOUS
<1>1. Alone /\ \A r \in Requests : ChangeKeepsOne(r)
  BY IdleIsRequest DEF Init, Alone, Under, At, ChangeKeepsOne
<1> QED BY <1>1, InitialReferrals DEF SuperadminInvariant

LEMMA NextKeepsSuperadmins == SuperadminInvariant /\ [Next]_vars => SuperadminInvariant'
<1> SUFFICES ASSUME SuperadminInvariant, [Next]_vars PROVE SuperadminInvariant' OBVIOUS
<1> DEFINE Kept == (Alone /\ \A q \in Requests : ChangeKeepsOne(q))'
<1>1. ReferralInvariant' BY NextKeepsReferrals DEF SuperadminInvariant
<1>2. ASSUME overlaps' = 0 PROVE Kept
  <2>1. ASSUME NEW r \in Requests, Arrives(r) PROVE Kept BY <1>2, <2>1, ArrivesKeepsOne
  <2>2. ASSUME NEW r \in Requests, Step(r) PROVE Kept BY <1>2, <2>2, StepKeepsOne
  <2>3. ASSUME NEW r \in Requests, Fail(r) PROVE Kept
    BY <1>2, <2>3, FinishKeepsOne DEF Fail
  <2>4. CASE UNCHANGED vars
    BY <1>2, <2>4 DEF vars, rows, SuperadminInvariant, Alone, Under, At, ChangeKeepsOne, With
  <2> QED BY <2>1, <2>2, <2>3, <2>4 DEF Next
<1> QED BY <1>1, <1>2 DEF SuperadminInvariant

(* The only steps that touch a role or a status save a row.                *)
LEMMA NextKeepsAnActiveOne ==
  ASSUME SuperadminInvariant, [Next]_vars, overlaps' = 0, HasSuperadmin
  PROVE  HasSuperadmin'
<1>0. TypeOK /\ user \in [Users -> Row] /\ req \in [Requests -> Request] /\ overlaps \in Nat
  BY DEF SuperadminInvariant, ReferralInvariant, TypeOK
<1>1. Guards(user) BY DEF HasSuperadmin, Guards, IsSuperadmin, IsActive
<1>2. Guards(user') => HasSuperadmin'
  BY DEF HasSuperadmin, Guards, IsSuperadmin, IsActive, Exists, NoRow
<1>3. CASE UNCHANGED user BY <1>1, <1>2, <1>3
<1>4. ASSUME NEW r \in Requests, Insert(r) PROVE Guards(user')
  <2>1. user[req[r].user].role = "NONE" BY <1>4 DEF Insert, Exists, NoRow
  <2>2. PICK w \in Users : user[w].role = "SUPERADMIN" /\ user[w].status = "ACTIVE"
    BY <1>1 DEF Guards
  <2>3. user'[w] = user[w] BY <1>0, <1>4, <2>1, <2>2 DEF Insert
  <2> QED BY <2>2, <2>3 DEF Guards
<1>5. ASSUME NEW r \in Requests, SetReferredBy(r) PROVE Guards(user')
  <2>1. \A w \in Users : user'[w].role = user[w].role /\ user'[w].status = user[w].status
    BY <1>0, <1>5 DEF SetReferredBy, Row, Request
  <2> QED BY <1>1, <2>1 DEF Guards
<1>6. ASSUME NEW r \in Requests, SaveRow(r) PROVE Guards(user')
  <2>1. overlaps = 0 BY <1>6 DEF SaveRow, Goes
  <2> QED BY <1>1, <1>6, <2>1 DEF SuperadminInvariant, ChangeKeepsOne, SaveRow, With
<1>7. ASSUME NEW r \in Requests, Arrives(r) \/ Fail(r) PROVE UNCHANGED user
  <2>1. ASSUME Arrives(r) PROVE UNCHANGED user
    BY <2>1, ArrivesAtABeginning DEF Starts, rows
  <2> QED BY <1>7, <2>1 DEF Fail, rows
<1>8. ASSUME NEW r \in Requests,
             InsertRefused(r) \/ ResolveReferrer(r) \/ Attach(r) \/ LoadRow(r) \/ SavePartner(r)
      PROVE  UNCHANGED user
  BY <1>8 DEF InsertRefused, ResolveReferrer, Attach, LoadRow, SavePartner, rows
<1> QED BY <1>2, <1>3, <1>4, <1>5, <1>6, <1>7, <1>8 DEF Next, Step, vars, rows

(* No step takes away the last active superadmin, whatever changes of role *)
(* and status follow each other and whatever fails, as long as requests do *)
(* not overlap.                                                            *)
THEOREM ASuperadminRemains == Spec => SuperadminRemains
<1>1. Spec => []SuperadminInvariant
  BY InitialSuperadmins, NextKeepsSuperadmins, PTL DEF Spec
<1>2. SuperadminInvariant /\ [Next]_vars
        => [overlaps' = 0 /\ HasSuperadmin => HasSuperadmin']_vars
  BY NextKeepsAnActiveOne
<1> QED BY <1>1, <1>2, PTL DEF Spec, SuperadminRemains
=============================================================================
