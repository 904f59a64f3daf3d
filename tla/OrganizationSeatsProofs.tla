----------------------- MODULE OrganizationSeatsProofs -----------------------
(***************************************************************************)
(* Theorems about OrganizationSeats, for all users, courses, packs,        *)
(* invitations and requests and any number of overlaps and failures: by    *)
(* how much seats are oversold, that they are held by members, that        *)
(* invitations move forward, and that they are the only way in.            *)
(***************************************************************************)
EXTENDS OrganizationSeats, FiniteSetTheorems, TLAPS

Assigning == {"assignCount", "assignSave"}

(* A request that assigns a seat knows for whom and for what.              *)
Sound(request) ==
  /\ request \in Request
  /\ request.at \in Assigning => request.user \in Users /\ request.course \in Courses

RequestsAreSound == \A r \in Requests : Sound(req[r])

(* While nothing has overlapped or failed, one request is under way at     *)
(* most; a seat is held by a member or about to be taken from its holder;  *)
(* and it is assigned to a member.                                         *)
Serial == ~overlapped /\ failures = 0
Alone == \A q, r \in Requests : req[q] # Idle /\ req[r] # Idle => q = r
SeatsAreHeld ==
  \A h \in seats : \/ member[h[1]] # "NONE"
                   \/ \E r \in Requests : req[r].at = "removeSeats" /\ req[r].user = h[1]
AssigneesAreMembers == \A r \in Requests : req[r].at \in Assigning => member[req[r].user] # "NONE"
SerialInvariant == Serial => Alone /\ SeatsAreHeld /\ AssigneesAreMembers

SeatInvariant == TypeOK /\ RequestsAreSound /\ OversoldByOverlapsOnly /\ SerialInvariant

-----------------------------------------------------------------------------
LEMMA NullsHaveTypes ==
  /\ NoRow \in Invitation /\ NoPack \in Pack
  /\ Sound(Idle) /\ Idle.at = "idle"
BY DEF NoRow, Invitation, NoPack, Pack, MemberRoles, Sound, Idle, Request, Places, Assigning

LEMMA GoingOnIsSound ==
  ASSUME RequestsAreSound, NEW r \in Requests, NEW place \in Places,
         place \in Assigning => req[r].at \in Assigning
  PROVE  /\ Sound([req[r] EXCEPT !.at = place])
         /\ [req[r] EXCEPT !.at = place].at = place
         /\ [req[r] EXCEPT !.at = place].user = req[r].user
BY DEF RequestsAreSound, Sound, Request

(* The seats of the packs can be counted.                                  *)
LEMMA TotalIsNat ==
  ASSUME TypeOK
  PROVE  TotalSeats \in Nat
<1> DEFINE Most == 10000
           Numbers == 1..Most
<1>1. IsFiniteSet(PackIds \X Numbers)
  <2>1. \A n \in Nat : IsFiniteSet(1..n) BY FS_Interval
  <2>2. Most \in Nat OBVIOUS
  <2> HIDE DEF Most
  <2>3. IsFiniteSet(Numbers) BY <2>1, <2>2
  <2> HIDE DEF Numbers
  <2> QED BY <2>3, FiniteAssumption, FS_Product
<1>2. ASSUME NEW k \in ActivePacks PROVE (1..pack[k].seats) \subseteq Numbers
  <2>1. pack[k] \in Pack BY DEF TypeOK, ActivePacks
  <2>2. pack[k].seats \in PackSizes \union {0} BY <2>1 DEF Pack
  <2>3. PackSizes \subseteq 1..Most /\ Most \in Nat BY SizesAssumption
  <2> HIDE DEF Most
  <2>4. ASSUME NEW n \in PackSizes \union {0} PROVE (1..n) \subseteq Numbers
    <3>1. n \in Nat /\ n <= Most BY <2>3
    <3> QED BY <2>3, <3>1
  <2> HIDE DEF Numbers
  <2> QED BY <2>2, <2>4
<1> HIDE DEF Numbers, Most
<1>3. SeatUnits \subseteq PackIds \X Numbers
  BY <1>2 DEF SeatUnits, ActivePacks
<1> QED BY <1>1, <1>3, FS_Subset, FS_CardinalityType DEF TotalSeats

LEMMA SeatsAreFinite ==
  ASSUME TypeOK
  PROVE  /\ IsFiniteSet(seats) /\ UsedSeats \in Nat
         /\ IsFiniteSet(Saving) /\ Cardinality(Saving) \in Nat
         /\ Cardinality(Saving) <= Cardinality(Requests)
         /\ Cardinality(Requests) \in Nat /\ Cardinality(Requests) > 0
<1>1. IsFiniteSet(Users \X Courses) BY FiniteAssumption, FS_Product
<1>2. IsFiniteSet(seats) BY <1>1, FS_Subset DEF TypeOK, SeatAssignment
<1>3. Saving \subseteq Requests BY DEF Saving
<1>4. /\ IsFiniteSet(Saving) /\ Cardinality(Saving) <= Cardinality(Requests)
      /\ Cardinality(Requests) \in Nat
  BY <1>3, FiniteAssumption, FS_Subset, FS_CardinalityType
<1>5. Cardinality(Requests) # 0 BY FiniteAssumption, RequestsAssumption, FS_EmptySet
<1> QED BY <1>2, <1>4, <1>5, FS_CardinalityType DEF UsedSeats

-----------------------------------------------------------------------------
(* How far the pool is oversold.                                           *)
LEMMA NothingIsAssigned ==
  ASSUME TypeOK, TypeOK', OversoldByOverlapsOnly,
         seats' \subseteq seats, Saving' \subseteq Saving, counted' >= counted
  PROVE  OversoldByOverlapsOnly'
<1>1. UsedSeats' <= UsedSeats /\ UsedSeats' \in Nat
  BY SeatsAreFinite, FS_Subset, FS_CardinalityType DEF UsedSeats
<1>2. Cardinality(Saving') <= Cardinality(Saving) /\ Cardinality(Saving') \in Nat
  BY SeatsAreFinite, FS_Subset, FS_CardinalityType
<1>3. counted \in Nat /\ counted' \in Nat BY DEF TypeOK
<1>4. UsedSeats + Cardinality(Saving) < counted + Cardinality(Requests) BY DEF OversoldByOverlapsOnly
<1>5. UsedSeats' + Cardinality(Saving') < counted' + Cardinality(Requests)
  <2> HIDE DEF UsedSeats, Saving
  <2> QED BY <1>1, <1>2, <1>3, <1>4, SeatsAreFinite
<1> QED BY <1>5 DEF OversoldByOverlapsOnly

LEMMA SeatIsAssigned ==
  ASSUME TypeOK, TypeOK', OversoldByOverlapsOnly, NEW r \in Requests, AssignSave(r)
  PROVE  OversoldByOverlapsOnly'
<1> DEFINE h == <<req[r].user, req[r].course>>
<1>1. /\ req[r].at = "assignSave" /\ req' = [req EXCEPT ![r] = Idle]
      /\ seats' = seats \union {h} /\ counted' = counted
      /\ req \in [Requests -> Request] /\ counted \in Nat
  BY DEF AssignSave, At, Finish, TypeOK
<1> HIDE DEF h
<1>2. UsedSeats' <= UsedSeats + 1 /\ UsedSeats' \in Nat
  <2>1. IsFiniteSet(seats) /\ UsedSeats \in Nat BY SeatsAreFinite
  <2>2. Cardinality(seats \union {h}) = IF h \in seats THEN UsedSeats ELSE UsedSeats + 1
    BY <2>1, FS_AddElement DEF UsedSeats
  <2>3. UsedSeats' = Cardinality(seats \union {h}) BY <1>1 DEF UsedSeats
  <2> HIDE DEF UsedSeats
  <2> QED BY <2>1, <2>2, <2>3
<1>3. Saving' = Saving \ {r} /\ r \in Saving
  BY <1>1, NullsHaveTypes DEF Saving
<1>4. Cardinality(Saving') = Cardinality(Saving) - 1
  <2> HIDE DEF Saving
  <2> QED BY <1>3, SeatsAreFinite, FS_RemoveElement
<1>5. UsedSeats + Cardinality(Saving) < counted + Cardinality(Requests) BY DEF OversoldByOverlapsOnly
<1>6. UsedSeats' + Cardinality(Saving') < counted' + Cardinality(Requests)
  <2> HIDE DEF UsedSeats, Saving
  <2> QED BY <1>1, <1>2, <1>4, <1>5, SeatsAreFinite
<1> QED BY <1>6 DEF OversoldByOverlapsOnly

(* A seat is promised only while the packs hold more than are used.        *)
LEMMA SeatIsPromised ==
  ASSUME TypeOK, TypeOK', NEW r \in Requests, AssignCount(r), SeatsAvailable
  PROVE  OversoldByOverlapsOnly'
<1>1. seats' = seats /\ counted' = IF TotalSeats > counted THEN TotalSeats ELSE counted
  BY DEF AssignCount, rows
<1>2. counted \in Nat /\ TotalSeats \in Nat BY TotalIsNat DEF TypeOK
<1>3. UsedSeats < TotalSeats BY DEF SeatsAvailable
<1>4. UsedSeats' = UsedSeats BY <1>1 DEF UsedSeats
<1>5. UsedSeats \in Nat /\ Cardinality(Requests) \in Nat BY SeatsAreFinite
<1>6. Cardinality(Saving') <= Cardinality(Requests) /\ Cardinality(Saving') \in Nat
  <2>1. Saving' \subseteq Requests BY DEF Saving
  <2> QED BY <2>1, FiniteAssumption, FS_Subset, FS_CardinalityType
<1>7. UsedSeats' + Cardinality(Saving') < counted' + Cardinality(Requests)
  <2> HIDE DEF UsedSeats, TotalSeats, Saving
  <2> QED BY <1>1, <1>2, <1>3, <1>4, <1>5, <1>6
<1> QED BY <1>7 DEF OversoldByOverlapsOnly

-----------------------------------------------------------------------------
(* While nothing overlaps: a request begins, goes on, or something happens  *)
(* beside the requests.                                                    *)
LEMMA BeginningKeepsHeld ==
  ASSUME SerialInvariant, NEW r \in Requests, NEW request, req \in [Requests -> Request],
         req[r] = Idle, req' = [req EXCEPT ![r] = request],
         Arrives, UNCHANGED <<failures, seats>>,
         \A u \in Users : \/ member[u] = "NONE"
                          \/ member'[u] # "NONE"
                          \/ request.at = "removeSeats" /\ request.user = u,
         request.at \in Assigning => member'[request.user] # "NONE",
         seats \subseteq Users \X Courses
  PROVE  SerialInvariant'
<1> SUFFICES ASSUME Serial' PROVE Alone' /\ SeatsAreHeld' /\ AssigneesAreMembers'
  BY DEF SerialInvariant
<1>1. Serial /\ \A q \in Requests : req[q] = Idle
  BY DEF Serial, Arrives, Under
<1>2. Alone /\ SeatsAreHeld /\ AssigneesAreMembers BY <1>1 DEF SerialInvariant
<1>3. \A q \in Requests : req'[q] = IF q = r THEN request ELSE Idle BY <1>1
<1>4. Alone' BY <1>3 DEF Alone
<1>5. SeatsAreHeld'
  <2> SUFFICES ASSUME NEW h \in seats
               PROVE  \/ member'[h[1]] # "NONE"
                      \/ \E q \in Requests : req'[q].at = "removeSeats" /\ req'[q].user = h[1]
    BY DEF SeatsAreHeld
  <2>1. member[h[1]] # "NONE" BY <1>1, <1>2, NullsHaveTypes DEF SeatsAreHeld
  <2>2. h[1] \in Users OBVIOUS
  <2> QED BY <1>3, <2>1, <2>2
<1>6. AssigneesAreMembers' BY <1>3, NullsHaveTypes DEF AssigneesAreMembers, Assigning
<1> QED BY <1>4, <1>5, <1>6

LEMMA GoingOnKeepsHeld ==
  ASSUME SerialInvariant, NEW r \in Requests, NEW request, req \in [Requests -> Request],
         req[r] # Idle, req' = [req EXCEPT ![r] = request],
         UNCHANGED <<overlapped, failures>>,
         \A u \in Users : member[u] # "NONE" => member'[u] # "NONE",
         \A h \in seats' : h \in seats \/ member'[h[1]] # "NONE",
         req[r].at = "removeSeats" => seats' \subseteq SeatsWithout(req[r].user),
         request.at \in Assigning =>
           request.user \in Users /\ request.user = req[r].user /\ req[r].at \in Assigning,
         seats \subseteq Users \X Courses
  PROVE  SerialInvariant'
<1> SUFFICES ASSUME Serial' PROVE Alone' /\ SeatsAreHeld' /\ AssigneesAreMembers'
  BY DEF SerialInvariant
<1>1. Serial BY DEF Serial
<1>2. Alone /\ SeatsAreHeld /\ AssigneesAreMembers BY <1>1 DEF SerialInvariant
<1>3. \A q \in Requests : q # r => req[q] = Idle BY <1>2 DEF Alone
<1>4. \A q \in Requests : req'[q] = IF q = r THEN request ELSE Idle BY <1>3
<1>5. Alone' BY <1>4 DEF Alone
<1>6. SeatsAreHeld'
  <2> SUFFICES ASSUME NEW h \in seats' PROVE member'[h[1]] # "NONE" BY DEF SeatsAreHeld
  <2>1. CASE h \in seats
    <3>1. h[1] \in Users BY <2>1
    <3>2. CASE member[h[1]] # "NONE" BY <3>1, <3>2
    <3>3. CASE \E q \in Requests : req[q].at = "removeSeats" /\ req[q].user = h[1]
      <4>1. req[r].at = "removeSeats" /\ req[r].user = h[1] BY <1>3, <3>3, NullsHaveTypes
      <4>2. h \in SeatsWithout(req[r].user) BY <4>1
      <4> QED BY <4>1, <4>2 DEF SeatsWithout
    <3> QED BY <1>2, <2>1, <3>2, <3>3 DEF SeatsAreHeld
  <2>2. CASE h \notin seats BY <2>2
  <2> QED BY <2>1, <2>2
<1>7. AssigneesAreMembers'
  <2>1. request.at \in Assigning => member'[request.user] # "NONE"
    BY <1>2 DEF AssigneesAreMembers
  <2> QED BY <1>4, <2>1, NullsHaveTypes DEF AssigneesAreMembers, Assigning
<1> QED BY <1>5, <1>6, <1>7

LEMMA BesideKeepsHeld ==
  ASSUME SerialInvariant, Arrives \/ UNCHANGED overlapped, UNCHANGED <<req, member, failures>>,
         seats' \subseteq seats
  PROVE  SerialInvariant'
<1> SUFFICES ASSUME Serial' PROVE Alone' /\ SeatsAreHeld' /\ AssigneesAreMembers'
  BY DEF SerialInvariant
<1>1. Serial
  <2>1. CASE Arrives BY <2>1 DEF Serial, Arrives
  <2>2. CASE UNCHANGED overlapped BY <2>2 DEF Serial
  <2> QED BY <2>1, <2>2
<1> QED BY <1>1 DEF SerialInvariant, Alone, SeatsAreHeld, AssigneesAreMembers

-----------------------------------------------------------------------------
(* A request is replaced by a sound one, other rows keep their types, and  *)
(* no seat is assigned or promised.                                        *)
LEMMA RequestKeeps ==
  ASSUME SeatInvariant, NEW r \in Requests, NEW request, Sound(request),
         req' = [req EXCEPT ![r] = request],
         exists' \in BOOLEAN, member' \in [Users -> Membership],
         role' \in [Users -> UserRoles],
         UNCHANGED pack, seats' \subseteq seats,
         invitation' \in [InvitationIds -> Invitation],
         counted' \in Nat, counted' >= counted, overlapped' \in BOOLEAN, failures' \in 0..MaxFailures,
         request.at # "assignSave", SerialInvariant'
  PROVE  SeatInvariant'
<1>1. req \in [Requests -> Request] /\ RequestsAreSound BY DEF SeatInvariant, TypeOK
<1>2. \A q \in Requests : req'[q] = IF q = r THEN request ELSE req[q] BY <1>1
<1>3. req' \in [Requests -> Request] BY <1>1 DEF Sound
<1>4. TypeOK' BY <1>3 DEF SeatInvariant, TypeOK
<1>5. RequestsAreSound' BY <1>1, <1>2 DEF RequestsAreSound
<1>6. Saving' \subseteq Saving BY <1>2 DEF Saving
<1>7. OversoldByOverlapsOnly' BY <1>4, <1>6, NothingIsAssigned DEF SeatInvariant
<1> QED BY <1>4, <1>5, <1>7 DEF SeatInvariant

LEMMA TypesOf ==
  ASSUME SeatInvariant
  PROVE  /\ exists \in BOOLEAN /\ member \in [Users -> Membership]
         /\ role \in [Users -> UserRoles]
         /\ pack \in [PackIds -> Pack] /\ seats \subseteq Users \X Courses
         /\ invitation \in [InvitationIds -> Invitation]
         /\ req \in [Requests -> Request]
         /\ counted \in Nat /\ counted >= counted
         /\ overlapped \in BOOLEAN /\ failures \in 0..MaxFailures
         /\ \A r \in Requests : Sound(req[r])
         /\ SerialInvariant
BY DEF SeatInvariant, TypeOK, SeatAssignment, RequestsAreSound

LEMMA ArrivesType == Arrives => overlapped' \in BOOLEAN
BY DEF Arrives

(* The handlers begin.                                                     *)
LEMMA CreateKeeps ==
  ASSUME SeatInvariant, NEW r \in Requests, Create(r)
  PROVE  SeatInvariant'
<1> DEFINE request == [Idle EXCEPT !.at = "createMember", !.user = Owner]
<1> USE TypesOf
<1>1. /\ req[r] = Idle /\ exists' = TRUE /\ Arrives
      /\ UNCHANGED <<member, role, pack, seats, invitation, counted, failures>>
  BY DEF Create
<1>2. req' = [req EXCEPT ![r] = request] BY <1>1 DEF Create
<1>3. Sound(request) /\ request.at = "createMember"
  BY NullsHaveTypes, OwnerAssumption DEF Sound, Request, Places, Assigning, Idle
<1> HIDE DEF request
<1>4. SerialInvariant' BY <1>1, <1>2, <1>3, BeginningKeepsHeld DEF Assigning
<1> QED BY <1>1, <1>2, <1>3, <1>4, ArrivesType, RequestKeeps

LEMMA RemoveMemberKeeps ==
  ASSUME SeatInvariant, NEW r \in Requests, NEW actor, NEW u \in Users, RemoveMember(r, actor, u)
  PROVE  SeatInvariant'
<1> DEFINE request == [Idle EXCEPT !.at = "removeSeats", !.user = u]
<1> USE TypesOf
<1>1. /\ req[r] = Idle /\ member' = [member EXCEPT ![u] = "NONE"] /\ Arrives
      /\ UNCHANGED <<exists, role, pack, seats, invitation, counted, failures>>
  BY DEF RemoveMember
<1>2. req' = [req EXCEPT ![r] = request] BY <1>1 DEF RemoveMember
<1>3. Sound(request) /\ request.at = "removeSeats" /\ request.user = u
  BY NullsHaveTypes DEF Sound, Request, Places, Assigning, Idle
<1> HIDE DEF request
<1>4. member' \in [Users -> Membership] BY <1>1 DEF Membership
<1>5. SerialInvariant' BY <1>1, <1>2, <1>3, BeginningKeepsHeld DEF Assigning
<1> QED BY <1>1, <1>2, <1>3, <1>4, <1>5, ArrivesType, RequestKeeps

LEMMA InviteKeeps ==
  ASSUME SeatInvariant, NEW r \in Requests, NEW actor, NEW u \in Users, NEW as \in MemberRoles,
         Invite(r, actor, u, as)
  PROVE  SeatInvariant'
<1> DEFINE row == [NoRow EXCEPT !.status = "PENDING", !.email = u, !.role = as]
           request == [Idle EXCEPT !.at = "inviteSave", !.row = row]
<1> USE TypesOf
<1>1. /\ req[r] = Idle /\ Arrives
      /\ UNCHANGED <<exists, member, role, pack, seats, counted, failures>>
      /\ invitation' = WithoutPending(u)
  BY DEF Invite
<1>2. req' = [req EXCEPT ![r] = request] BY <1>1 DEF Invite
<1>3. row \in Invitation BY DEF NoRow, Invitation
<1> HIDE DEF row
<1>4. Sound(request) /\ request.at = "inviteSave"
  BY <1>3, NullsHaveTypes DEF Sound, Request, Places, Assigning, Idle
<1> HIDE DEF request
<1>5. invitation' \in [InvitationIds -> Invitation]
  <2>1. \A i \in InvitationIds : invitation[i] \in Invitation /\ Revoked(invitation[i]) \in Invitation
    BY DEF Revoked, Invitation
  <2> QED BY <1>1, <2>1 DEF WithoutPending
<1>6. SerialInvariant' BY <1>1, <1>2, <1>4, BeginningKeepsHeld DEF Assigning
<1> QED BY <1>1, <1>2, <1>4, <1>5, <1>6, ArrivesType, RequestKeeps

LEMMA AcceptInvitationKeeps ==
  ASSUME SeatInvariant, NEW r \in Requests, NEW u \in Users, NEW i \in InvitationIds,
         AcceptInvitation(r, u, i)
  PROVE  SeatInvariant'
<1> DEFINE found == member[u] # "NONE"
           request == [Idle EXCEPT !.at = "acceptJoin", !.user = u, !.id = i,
                                   !.row = invitation[i], !.joined = found]
<1> USE TypesOf
<1>1. /\ req[r] = Idle /\ Arrives
      /\ UNCHANGED <<exists, member, role, pack, seats, invitation, counted, failures>>
  BY DEF AcceptInvitation, rows
<1>2. req' = [req EXCEPT ![r] = request] BY <1>1 DEF AcceptInvitation
<1>3. found \in BOOLEAN OBVIOUS
<1> HIDE DEF found
<1>4. Sound(request) /\ request.at = "acceptJoin"
  BY <1>3, NullsHaveTypes DEF Sound, Request, Places, Assigning, Idle
<1> HIDE DEF request
<1>5. SerialInvariant' BY <1>1, <1>2, <1>4, BeginningKeepsHeld DEF Assigning
<1> QED BY <1>1, <1>2, <1>4, <1>5, ArrivesType, RequestKeeps

LEMMA AssignSeatKeeps ==
  ASSUME SeatInvariant, NEW r \in Requests, NEW actor, NEW u \in Users, NEW c \in Courses,
         AssignSeat(r, actor, u, c)
  PROVE  SeatInvariant'
<1> DEFINE request == [Idle EXCEPT !.at = "assignCount", !.user = u, !.course = c]
<1> USE TypesOf
<1>1. /\ req[r] = Idle /\ Arrives /\ member[u] # "NONE"
      /\ UNCHANGED <<exists, member, role, pack, seats, invitation, counted, failures>>
  BY DEF AssignSeat, rows
<1>2. req' = [req EXCEPT ![r] = request] BY <1>1 DEF AssignSeat
<1>3. Sound(request) /\ request.at = "assignCount" /\ request.user = u
  BY NullsHaveTypes DEF Sound, Request, Places, Assigning, Idle
<1> HIDE DEF request
<1>4. SerialInvariant' BY <1>1, <1>2, <1>3, BeginningKeepsHeld
<1> QED BY <1>1, <1>2, <1>3, <1>4, ArrivesType, RequestKeeps

-----------------------------------------------------------------------------
(* They go on.                                                             *)
LEMMA NotIdle == \A r \in Requests : req[r].at # "idle" => req[r] # Idle
BY NullsHaveTypes

LEMMA CreateMemberKeeps ==
  ASSUME SeatInvariant, NEW r \in Requests, CreateMember(r)
  PROVE  SeatInvariant'
<1> DEFINE request == [req[r] EXCEPT !.at = "createPromote"]
<1> USE TypesOf
<1>1. /\ req[r] # Idle /\ req[r].at = "createMember"
      /\ member' = [member EXCEPT ![Owner] = "ADMIN"]
      /\ req' = [req EXCEPT ![r] = request]
      /\ UNCHANGED <<exists, role, pack, seats, invitation, counted, overlapped, failures>>
  BY NotIdle DEF CreateMember, At, Continue
<1>2. Sound(request) /\ request.at = "createPromote"
  BY GoingOnIsSound DEF SeatInvariant, Places, Assigning
<1> HIDE DEF request
<1>3. member' \in [Users -> Membership] /\ \A u \in Users : member[u] # "NONE" => member'[u] # "NONE"
  BY <1>1 DEF Membership, MemberRoles
<1>4. SerialInvariant' BY <1>1, <1>2, <1>3, GoingOnKeepsHeld DEF Assigning
<1> QED BY <1>1, <1>2, <1>3, <1>4, RequestKeeps

LEMMA EndsKeep ==
  ASSUME SeatInvariant, NEW r \in Requests, Promote(r) \/ RemoveSeats(r)
           \/ \E i \in InvitationIds : InviteSave(r, i)
  PROVE  SeatInvariant'
<1> USE TypesOf, NullsHaveTypes
<1>1. CASE Promote(r)
  <2>1. /\ req[r] # Idle /\ req[r].at # "removeSeats" /\ req' = [req EXCEPT ![r] = Idle]
        /\ role' = Promoted(req[r].user)
        /\ UNCHANGED <<exists, member, pack, seats, invitation, counted, overlapped, failures>>
    BY <1>1, NotIdle DEF Promote, At, Finish
  <2>2. role' \in [Users -> UserRoles] BY <2>1 DEF Promoted, UserRoles
  <2>3. SerialInvariant' BY <2>1, GoingOnKeepsHeld DEF Assigning
  <2> QED BY <2>1, <2>2, <2>3, RequestKeeps
<1>2. CASE RemoveSeats(r)
  <2>1. /\ req[r] # Idle /\ req' = [req EXCEPT ![r] = Idle]
        /\ seats' = SeatsWithout(req[r].user)
        /\ UNCHANGED <<exists, member, role, pack, invitation, counted, overlapped, failures>>
    BY <1>2, NotIdle DEF RemoveSeats, At, Finish
  <2>2. seats' \subseteq seats BY <2>1 DEF SeatsWithout
  <2>3. SerialInvariant' BY <2>1, <2>2, GoingOnKeepsHeld DEF Assigning
  <2> QED BY <2>1, <2>2, <2>3, RequestKeeps
<1>3. ASSUME NEW i, InviteSave(r, i) PROVE SeatInvariant'
  <2>1. /\ req[r] # Idle /\ req[r].at # "removeSeats" /\ req' = [req EXCEPT ![r] = Idle]
        /\ invitation' = [invitation EXCEPT ![i] = req[r].row]
        /\ UNCHANGED <<exists, member, role, pack, seats, counted, overlapped, failures>>
    BY <1>3, NotIdle DEF InviteSave, At, Finish
  <2>2. req[r].row \in Invitation BY DEF Sound, Request
  <2>3. invitation' \in [InvitationIds -> Invitation] BY <2>1, <2>2
  <2>4. SerialInvariant' BY <2>1, GoingOnKeepsHeld DEF Assigning
  <2> QED BY <2>1, <2>3, <2>4, RequestKeeps
<1> QED BY <1>1, <1>2, <1>3

LEMMA AcceptJoinKeeps ==
  ASSUME SeatInvariant, NEW r \in Requests, AcceptJoin(r)
  PROVE  SeatInvariant'
<1> DEFINE request == [req[r] EXCEPT !.at = "acceptSave"]
<1> USE TypesOf, NullsHaveTypes
<1>1. /\ req[r] # Idle /\ req[r].at = "acceptJoin" /\ req[r] \in Request
      /\ UNCHANGED <<exists, role, pack, seats, invitation, counted, overlapped, failures>>
  BY NotIdle DEF AcceptJoin, At, Sound
<1>2. Sound(request) /\ request.at = "acceptSave"
  BY GoingOnIsSound DEF SeatInvariant, Places, Assigning
<1>3. req' = [req EXCEPT ![r] = request] \/ req' = [req EXCEPT ![r] = Idle]
  BY DEF AcceptJoin, Continue, Finish
<1>4. member' = member \/ member' = [member EXCEPT ![req[r].user] = req[r].row.role]
  BY DEF AcceptJoin
<1> HIDE DEF request
<1>5. req[r].row.role \in MemberRoles BY <1>1 DEF Request, Invitation
<1>6. member' \in [Users -> Membership] /\ \A u \in Users : member[u] # "NONE" => member'[u] # "NONE"
  BY <1>4, <1>5 DEF Membership, MemberRoles
<1>7. CASE req' = [req EXCEPT ![r] = request]
  <2>1. SerialInvariant' BY <1>1, <1>2, <1>6, <1>7, GoingOnKeepsHeld DEF Assigning
  <2> QED BY <1>1, <1>2, <1>6, <1>7, <2>1, RequestKeeps
<1>8. CASE req' = [req EXCEPT ![r] = Idle]
  <2>1. SerialInvariant' BY <1>1, <1>6, <1>8, GoingOnKeepsHeld DEF Assigning
  <2> QED BY <1>1, <1>6, <1>8, <2>1, RequestKeeps
<1> QED BY <1>3, <1>7, <1>8

LEMMA AcceptSaveKeeps ==
  ASSUME SeatInvariant, NEW r \in Requests, AcceptSave(r)
  PROVE  SeatInvariant'
<1> DEFINE request == [req[r] EXCEPT !.at = "acceptPromote"]
<1> USE TypesOf, NullsHaveTypes
<1>1. /\ req[r] # Idle /\ req[r].at = "acceptSave" /\ req[r] \in Request
      /\ invitation' = [invitation EXCEPT ![req[r].id] = Accepted(req[r].row)]
      /\ UNCHANGED <<exists, member, role, pack, seats, counted, overlapped, failures>>
  BY NotIdle DEF AcceptSave, At, Sound
<1>2. Sound(request) /\ request.at = "acceptPromote"
  BY GoingOnIsSound DEF SeatInvariant, Places, Assigning
<1>3. req' = [req EXCEPT ![r] = request] \/ req' = [req EXCEPT ![r] = Idle]
  BY DEF AcceptSave, Continue, Finish
<1> HIDE DEF request
<1>4. Accepted(req[r].row) \in Invitation BY <1>1 DEF Request, Accepted, Invitation
<1>5. invitation' \in [InvitationIds -> Invitation] BY <1>1, <1>4
<1>6. CASE req' = [req EXCEPT ![r] = request]
  <2>1. SerialInvariant' BY <1>1, <1>2, <1>6, GoingOnKeepsHeld DEF Assigning
  <2> QED BY <1>1, <1>2, <1>5, <1>6, <2>1, RequestKeeps
<1>7. CASE req' = [req EXCEPT ![r] = Idle]
  <2>1. SerialInvariant' BY <1>1, <1>7, GoingOnKeepsHeld DEF Assigning
  <2> QED BY <1>1, <1>5, <1>7, <2>1, RequestKeeps
<1> QED BY <1>3, <1>6, <1>7

LEMMA AssignCountKeeps ==
  ASSUME SeatInvariant, NEW r \in Requests, AssignCount(r)
  PROVE  SeatInvariant'
<1> DEFINE request == [req[r] EXCEPT !.at = "assignSave"]
<1> USE TypesOf, NullsHaveTypes
<1>1. /\ req[r] # Idle /\ req[r].at = "assignCount"
      /\ counted' = IF TotalSeats > counted THEN TotalSeats ELSE counted
      /\ UNCHANGED <<exists, member, role, pack, seats, invitation, overlapped, failures>>
  BY NotIdle DEF AssignCount, At, rows
<1>2. TotalSeats \in Nat BY TotalIsNat DEF SeatInvariant
<1>3. counted' \in Nat /\ counted' >= counted
  <2> HIDE DEF TotalSeats
  <2> QED BY <1>1, <1>2
<1>4. CASE SeatsAvailable
  <2>1. req' = [req EXCEPT ![r] = request] BY <1>4 DEF AssignCount, Continue
  <2>2. Sound(request) /\ request.at = "assignSave" /\ request.user = req[r].user
    BY <1>1, GoingOnIsSound DEF SeatInvariant, Places, Assigning
  <2>3. request.user \in Users BY <2>2 DEF Sound, Assigning
  <2> HIDE DEF request
  <2>4. SerialInvariant' BY <1>1, <2>1, <2>2, <2>3, GoingOnKeepsHeld DEF Assigning
  <2>5. req' \in [Requests -> Request] BY <2>1, <2>2 DEF Sound
  <2>6. TypeOK' BY <1>1, <1>3, <2>5 DEF SeatInvariant, TypeOK
  <2>7. OversoldByOverlapsOnly' BY <1>4, <2>6, SeatIsPromised DEF SeatInvariant
  <2>8. RequestsAreSound' BY <2>1, <2>2 DEF RequestsAreSound
  <2> QED BY <2>4, <2>6, <2>7, <2>8 DEF SeatInvariant
<1>5. CASE ~SeatsAvailable
  <2>1. req' = [req EXCEPT ![r] = Idle] BY <1>5 DEF AssignCount, Finish
  <2>2. SerialInvariant' BY <1>1, <2>1, GoingOnKeepsHeld DEF Assigning
  <2> QED BY <1>1, <1>3, <2>1, <2>2, RequestKeeps
<1> QED BY <1>4, <1>5

LEMMA AssignSaveKeeps ==
  ASSUME SeatInvariant, NEW r \in Requests, AssignSave(r)
  PROVE  SeatInvariant'
<1> DEFINE h == <<req[r].user, req[r].course>>
<1> USE TypesOf, NullsHaveTypes
<1>1. /\ req[r] # Idle /\ req[r].at = "assignSave" /\ req' = [req EXCEPT ![r] = Idle]
      /\ seats' = seats \union {h}
      /\ UNCHANGED <<exists, member, role, pack, invitation, counted, overlapped, failures>>
  BY NotIdle DEF AssignSave, At, Finish
<1>2. req[r].user \in Users /\ req[r].course \in Courses BY <1>1 DEF Sound, Assigning
<1>3. req' \in [Requests -> Request] BY <1>1 DEF Sound
<1>4. TypeOK' BY <1>1, <1>2, <1>3 DEF SeatInvariant, TypeOK, SeatAssignment
<1>5. OversoldByOverlapsOnly' BY <1>4, SeatIsAssigned DEF SeatInvariant
<1>6. RequestsAreSound' BY <1>1 DEF RequestsAreSound
<1>7. SerialInvariant'
  <2>1. CASE Serial
    <3>1. member[h[1]] # "NONE"
      BY <1>1, <2>1 DEF SerialInvariant, AssigneesAreMembers, Assigning
    <3>2. \A g \in seats' : g \in seats \/ member'[g[1]] # "NONE" BY <1>1, <3>1
    <3> QED BY <1>1, <3>2, GoingOnKeepsHeld DEF Assigning
  <2>2. CASE ~Serial BY <1>1, <2>2 DEF SerialInvariant, Serial
  <2> QED BY <2>1, <2>2
<1> QED BY <1>4, <1>5, <1>6, <1>7 DEF SeatInvariant

LEMMA FailKeeps ==
  ASSUME SeatInvariant, NEW r \in Requests, Fail(r)
  PROVE  SeatInvariant'
<1> USE TypesOf, NullsHaveTypes
<1>1. /\ req' = [req EXCEPT ![r] = Idle] /\ failures < MaxFailures /\ failures' = failures + 1
      /\ UNCHANGED <<exists, member, role, pack, seats, invitation, counted, overlapped>>
  BY DEF Fail, Finish, rows
<1>2. failures' \in 0..MaxFailures /\ failures' # 0 BY <1>1, FailureAssumption
<1>3. SerialInvariant' BY <1>2 DEF SerialInvariant, Serial
<1> QED BY <1>1, <1>2, <1>3, RequestKeeps

(* What happens in one statement beside them.                              *)
LEMMA BesideKeeps ==
  ASSUME SeatInvariant, Arrives \/ UNCHANGED overlapped,
         UNCHANGED <<exists, member, role, req, counted, failures>>,
         pack' \in [PackIds -> Pack], seats' \subseteq seats,
         invitation' \in [InvitationIds -> Invitation]
  PROVE  SeatInvariant'
<1> USE TypesOf
<1>1. overlapped' \in BOOLEAN
  <2>1. CASE Arrives BY <2>1, ArrivesType
  <2>2. CASE UNCHANGED overlapped BY <2>2
  <2> QED BY <2>1, <2>2
<1>2. TypeOK' BY <1>1 DEF SeatInvariant, TypeOK
<1>3. RequestsAreSound' BY DEF RequestsAreSound
<1>4. Saving' = Saving BY DEF Saving
<1>5. OversoldByOverlapsOnly' BY <1>2, <1>4, NothingIsAssigned DEF SeatInvariant
<1>6. SerialInvariant' BY BesideKeepsHeld
<1> QED BY <1>2, <1>3, <1>5, <1>6 DEF SeatInvariant

LEMMA BesideStepsKeep ==
  ASSUME SeatInvariant,
         \/ \E actor \in Users \union {Staff} :
              \/ \E i \in InvitationIds : RevokeInvitation(actor, i)
              \/ \E u \in Users, c \in Courses : RevokeSeat(actor, u, c)
         \/ \E i \in InvitationIds : InvitationExpires(i)
         \/ \E k \in PackIds : \/ RemoveSeatPacksByPurchase(k) \/ SeatPackExpires(k)
                               \/ \E n \in PackSizes, source \in {"MANUAL", "PURCHASE"} :
                                    GrantSeatPack(k, n, source)
  PROVE  SeatInvariant'
<1> USE TypesOf
<1>1. ASSUME NEW i \in InvitationIds, NEW row,
             row = Revoked(invitation[i]) \/ row = [invitation[i] EXCEPT !.expired = TRUE],
             invitation' = [invitation EXCEPT ![i] = row], Arrives,
             UNCHANGED <<exists, member, role, pack, seats, req, counted, failures>>
      PROVE  SeatInvariant'
  <2>1. invitation[i] \in Invitation OBVIOUS
  <2>2. row \in Invitation BY <1>1, <2>1 DEF Revoked, Invitation
  <2>3. invitation' \in [InvitationIds -> Invitation] BY <1>1, <2>2
  <2> QED BY <1>1, <2>3, BesideKeeps
<1>2. ASSUME NEW k \in PackIds, NEW row \in Pack,
             pack' = [pack EXCEPT ![k] = row], Arrives,
             UNCHANGED <<exists, member, role, seats, invitation, req, counted, failures>>
      PROVE  SeatInvariant'
  <2>1. pack' \in [PackIds -> Pack] BY <1>2
  <2> QED BY <1>2, <2>1, BesideKeeps
<1>3. ASSUME NEW actor, NEW i \in InvitationIds, RevokeInvitation(actor, i) PROVE SeatInvariant'
  BY <1>1, <1>3 DEF RevokeInvitation
<1>4. ASSUME NEW i \in InvitationIds, InvitationExpires(i) PROVE SeatInvariant'
  BY <1>1, <1>4 DEF InvitationExpires
<1>5. ASSUME NEW actor, NEW u \in Users, NEW c \in Courses, RevokeSeat(actor, u, c)
      PROVE  SeatInvariant'
  <2>1. seats' \subseteq seats BY <1>5 DEF RevokeSeat
  <2> QED BY <1>5, <2>1, BesideKeeps DEF RevokeSeat
<1>6. ASSUME NEW k \in PackIds, RemoveSeatPacksByPurchase(k) PROVE SeatInvariant'
  <2>1. [pack[k] EXCEPT !.status = "REMOVED"] \in Pack BY DEF Pack
  <2> QED BY <1>2, <1>6, <2>1 DEF RemoveSeatPacksByPurchase
<1>7. ASSUME NEW k \in PackIds, SeatPackExpires(k) PROVE SeatInvariant'
  <2>1. [pack[k] EXCEPT !.status = "EXPIRED"] \in Pack BY DEF Pack
  <2> QED BY <1>2, <1>7, <2>1 DEF SeatPackExpires
<1>8. ASSUME NEW k \in PackIds, NEW n \in PackSizes, NEW source \in {"MANUAL", "PURCHASE"},
             GrantSeatPack(k, n, source)
      PROVE  SeatInvariant'
  <2>1. [status |-> "ACTIVE", seats |-> n, source |-> source] \in Pack BY DEF Pack
  <2> QED BY <1>2, <1>8, <2>1 DEF GrantSeatPack
<1> QED BY <1>3, <1>4, <1>5, <1>6, <1>7, <1>8

-----------------------------------------------------------------------------
LEMMA InitialSeats == Init => SeatInvariant
<1> SUFFICES ASSUME Init PROVE SeatInvariant OBVIOUS
<1>1. TypeOK
  <2>1. 0 \in 0..MaxFailures /\ "NONE" \in Membership
    BY FailureAssumption DEF Membership
  <2>2. Idle \in Request BY NullsHaveTypes DEF Sound
  <2>3. role \in [Users -> UserRoles] BY RolesAssumption DEF Init
  <2> QED BY <2>1, <2>2, <2>3, NullsHaveTypes DEF Init, TypeOK
<1>2. RequestsAreSound BY NullsHaveTypes DEF Init, RequestsAreSound
<1>3. Saving = {} /\ seats = {} /\ counted = 0 BY NullsHaveTypes DEF Init, Saving
<1>4. Cardinality({}) = 0 BY FS_EmptySet
<1>5. OversoldByOverlapsOnly BY <1>1, <1>3, <1>4, SeatsAreFinite DEF OversoldByOverlapsOnly, UsedSeats
<1>6. SerialInvariant
  BY NullsHaveTypes DEF Init, SerialInvariant, Alone, SeatsAreHeld, AssigneesAreMembers, Assigning
<1> QED BY <1>1, <1>2, <1>5, <1>6 DEF SeatInvariant

LEMMA StepsKeepSeats == SeatInvariant /\ [Next]_vars => SeatInvariant'
<1> SUFFICES ASSUME SeatInvariant, [Next]_vars PROVE SeatInvariant' OBVIOUS
<1>1. ASSUME NEW r \in Requests,
             \/ Create(r) \/ CreateMember(r) \/ Promote(r) \/ RemoveSeats(r)
             \/ AcceptJoin(r) \/ AcceptSave(r) \/ AssignCount(r) \/ AssignSave(r) \/ Fail(r)
             \/ \E u \in Users, i \in InvitationIds : AcceptInvitation(r, u, i)
             \/ \E i \in InvitationIds : InviteSave(r, i)
             \/ \E actor \in Users \union {Staff}, u \in Users :
                  \/ RemoveMember(r, actor, u)
                  \/ \E as \in MemberRoles : Invite(r, actor, u, as)
                  \/ \E c \in Courses : AssignSeat(r, actor, u, c)
      PROVE  SeatInvariant'
  BY <1>1, CreateKeeps, CreateMemberKeeps, EndsKeep, AcceptJoinKeeps, AcceptSaveKeeps,
     AssignCountKeeps, AssignSaveKeeps, FailKeeps, AcceptInvitationKeeps, RemoveMemberKeeps,
     InviteKeeps, AssignSeatKeeps
<1>2. CASE UNCHANGED vars
  BY <1>2, TypesOf, BesideKeeps DEF vars, rows
<1> QED BY <1>1, <1>2, BesideStepsKeep DEF Next

LEMMA SeatsAlways == Spec => []SeatInvariant
BY InitialSeats, StepsKeepSeats, PTL DEF Spec

(* However assignments, removals and purchases interleave or fail, the     *)
(* seats in use exceed the largest pool anybody has counted by less than   *)
(* the number of requests, and without an overlap they are held by members. *)
THEOREM SeatsAlwaysBacked == Spec => []SeatsAreBacked
<1>1. SeatInvariant => SeatsAreBacked
  <2> SUFFICES ASSUME SeatInvariant, Quiet PROVE \A h \in seats : member[h[1]] # "NONE"
    BY DEF SeatInvariant, SeatsAreBacked, SeatsHeldByMembers
  <2>1. SeatsAreHeld /\ \A r \in Requests : req[r] = Idle
    BY DEF SeatInvariant, SerialInvariant, Serial, Quiet, Under
  <2> QED BY <2>1, NullsHaveTypes DEF SeatsAreHeld
<1> QED BY <1>1, SeatsAlways, PTL

(* An invitation that has been accepted stays accepted, and one that has   *)
(* been revoked is never pending again, whatever overlaps it or fails: a   *)
(* stale save can only turn it into an accepted one.                       *)
THEOREM InvitationsOnlyMoveForward == Spec => InvitationsMoveForward
<1> DEFINE Forward == \A i \in InvitationIds :
             /\ invitation[i].status = "ACCEPTED" => invitation'[i].status = "ACCEPTED"
             /\ invitation[i].status = "REVOKED" => invitation'[i].status # "PENDING"
<1>1. ASSUME SeatInvariant, [Next]_vars PROVE Forward
  <2>1. invitation \in [InvitationIds -> Invitation] BY <1>1 DEF SeatInvariant, TypeOK
  <2>2. ASSUME UNCHANGED invitation PROVE Forward BY <2>2
  <2>3. ASSUME NEW r \in Requests, NEW actor, NEW u \in Users, NEW as \in MemberRoles,
               Invite(r, actor, u, as)
        PROVE  Forward
    <3>1. \A row \in Invitation : Revoked(row).status = "REVOKED" BY DEF Revoked, Invitation
    <3> QED BY <2>1, <2>3, <3>1 DEF Invite, WithoutPending
  <2>4. ASSUME NEW r \in Requests, NEW i \in InvitationIds, InviteSave(r, i) PROVE Forward
    BY <2>1, <2>4 DEF InviteSave, NoRow
  <2>5. ASSUME NEW actor, NEW i \in InvitationIds, RevokeInvitation(actor, i) PROVE Forward
    BY <2>1, <2>5 DEF RevokeInvitation
  <2>6. ASSUME NEW i \in InvitationIds, InvitationExpires(i) PROVE Forward
    BY <2>1, <2>6 DEF InvitationExpires, IsPending, Invitation
  <2>7. ASSUME NEW r \in Requests, AcceptSave(r) PROVE Forward
    <3>1. req[r].row \in Invitation BY <1>1 DEF SeatInvariant, TypeOK, Request
    <3>2. Accepted(req[r].row).status = "ACCEPTED" BY <3>1 DEF Accepted, Invitation
    <3> QED BY <2>1, <2>7, <3>2 DEF AcceptSave
  <2>8. ASSUME NEW r \in Requests,
               \/ Create(r) \/ CreateMember(r) \/ Promote(r) \/ RemoveSeats(r)
               \/ AcceptJoin(r) \/ AssignCount(r) \/ AssignSave(r) \/ Fail(r)
        PROVE  UNCHANGED invitation
    BY <2>8 DEF Create, CreateMember, Promote, RemoveSeats, AcceptJoin, AssignCount,
                AssignSave, Fail, rows
  <2>9. ASSUME NEW r \in Requests, NEW actor, NEW u \in Users,
               \/ \E i \in InvitationIds : AcceptInvitation(r, u, i)
               \/ RemoveMember(r, actor, u)
               \/ \E c \in Courses : AssignSeat(r, actor, u, c)
        PROVE  UNCHANGED invitation
    BY <2>9 DEF AcceptInvitation, RemoveMember, AssignSeat, rows
  <2>10. ASSUME NEW actor, NEW u \in Users, NEW c \in Courses, RevokeSeat(actor, u, c)
         PROVE  UNCHANGED invitation
    BY <2>10 DEF RevokeSeat
  <2>11. ASSUME NEW k \in PackIds,
                \/ RemoveSeatPacksByPurchase(k) \/ SeatPackExpires(k)
                \/ \E n \in PackSizes, source \in {"MANUAL", "PURCHASE"} :
                     GrantSeatPack(k, n, source)
         PROVE  UNCHANGED invitation
    BY <2>11 DEF RemoveSeatPacksByPurchase, SeatPackExpires, GrantSeatPack
  <2>12. CASE UNCHANGED vars BY <2>2, <2>12 DEF vars, rows
  <2> HIDE DEF Forward
  <2>13. CASE Next
    BY <2>2, <2>3, <2>4, <2>5, <2>6, <2>7, <2>8, <2>9, <2>10, <2>11, <2>13,
       OwnerAssumption DEF Next
  <2> QED BY <1>1, <2>12, <2>13
<1> QED BY <1>1, SeatsAlways, PTL DEF Spec, InvitationsMoveForward

-----------------------------------------------------------------------------
(* What requests know of the invitations they accept or save.              *)
Accepting == {"acceptJoin", "acceptSave"}
Brings(request) ==
  /\ request.at \in Accepting =>
       /\ request.id \in InvitationIds /\ request.user \in Users
       /\ request.row.email = request.user /\ invitation[request.id].email = request.user
  /\ request.at = "inviteSave" => request.row.status = "PENDING" /\ request.row.email \in Users
  /\ request.at \in {"createMember", "createPromote"} => request.user = Owner
InvitationsAreSound ==
  /\ \A i \in InvitationIds : invitation[i].status = "PENDING" => invitation[i].email \in Users
  /\ \A r \in Requests : Brings(req[r])

(* While nothing has overlapped or failed: invitations are only sent once   *)
(* the owner is a member; an address that has one is no member, but for    *)
(* the request that is just accepting it, and has one only; and an admin   *)
(* is promoted or about to be.                                             *)
Founding == ~exists \/ \E r \in Requests : At(r, "createMember")
OwnerComesFirst ==
  IF Founding THEN \A i \in InvitationIds : invitation[i].status # "PENDING"
              ELSE member[Owner] = "ADMIN"
PendingOf(u) == {i \in InvitationIds : invitation[i].status = "PENDING" /\ invitation[i].email = u}
WaysAreOpen ==
  \A u \in Users : \A i \in PendingOf(u) :
    /\ member[u] = "NONE" \/ \E r \in Requests : At(r, "acceptSave") /\ req[r].id = i
    /\ PendingOf(u) = {i}
Promotes(r, u) ==
  /\ req[r].user = u
  /\ \/ req[r].at \in {"createPromote", "acceptPromote"}
     \/ req[r].at = "acceptSave" /\ req[r].row.role = "ADMIN"
AdminsArePromoted ==
  \A u \in Users : member[u] = "ADMIN" => role[u] # "LEARNER" \/ \E r \in Requests : Promotes(r, u)
StaysValid(r) ==
  /\ At(r, "acceptJoin") => invitation[req[r].id].status = "PENDING"
  /\ At(r, "inviteSave") => exists /\ member[req[r].row.email] = "NONE"
                                   /\ PendingOf(req[r].row.email) = {}

MemberFacts ==
  OwnerComesFirst /\ WaysAreOpen /\ AdminsArePromoted /\ \A r \in Requests : StaysValid(r)

MemberInvariant ==
  SeatInvariant /\ InvitationsAreSound /\ MembersWereInvited /\ (Serial => MemberFacts)

-----------------------------------------------------------------------------
(* What each step leaves of the invitations.                               *)
LEMMA AfterInvite ==
  ASSUME SeatInvariant, NEW u, invitation' = WithoutPending(u)
  PROVE  \A i \in InvitationIds :
           /\ invitation'[i].email = invitation[i].email
           /\ invitation'[i].status = IF invitation[i].email = u /\ invitation[i].status = "PENDING"
                                      THEN "REVOKED" ELSE invitation[i].status
BY TypesOf DEF WithoutPending, Revoked, Invitation

LEMMA AfterAnswer ==
  ASSUME SeatInvariant, NEW i \in InvitationIds,
         (\E actor : RevokeInvitation(actor, i)) \/ InvitationExpires(i)
  PROVE  /\ \A j \in InvitationIds : invitation'[j].email = invitation[j].email
         /\ \A j \in InvitationIds \ {i} : invitation'[j] = invitation[j]
         /\ invitation[i].status = "PENDING" /\ invitation'[i].status \in {"PENDING", "REVOKED"}
<1>1. invitation \in [InvitationIds -> Invitation] BY TypesOf
<1>2. CASE InvitationExpires(i)
  BY <1>1, <1>2 DEF InvitationExpires, IsPending, Invitation
<1>3. CASE \E actor : RevokeInvitation(actor, i)
  BY <1>1, <1>3 DEF RevokeInvitation, Revoked, Invitation
<1> QED BY <1>2, <1>3

LEMMA AfterInviteSave ==
  ASSUME SeatInvariant, NEW r \in Requests, NEW i \in InvitationIds, InviteSave(r, i)
  PROVE  /\ invitation[i].status = "NONE" /\ invitation[i].email = NoUser
         /\ invitation'[i] = req[r].row
         /\ \A j \in InvitationIds \ {i} : invitation'[j] = invitation[j]
BY TypesOf DEF InviteSave, NoRow

LEMMA AfterAcceptSave ==
  ASSUME SeatInvariant, InvitationsAreSound, NEW r \in Requests, AcceptSave(r)
  PROVE  /\ req[r].id \in InvitationIds /\ req[r].user \in Users
         /\ invitation'[req[r].id].status = "ACCEPTED"
         /\ invitation'[req[r].id].email = req[r].user /\ invitation[req[r].id].email = req[r].user
         /\ \A j \in InvitationIds \ {req[r].id} : invitation'[j] = invitation[j]
<1>1. /\ req[r].id \in InvitationIds /\ req[r].user \in Users
      /\ req[r].row.email = req[r].user /\ invitation[req[r].id].email = req[r].user
  BY DEF InvitationsAreSound, Brings, Accepting, AcceptSave, At
<1>2. req[r].row \in Invitation BY TypesOf DEF Sound, Request
<1>3. Accepted(req[r].row).status = "ACCEPTED" /\ Accepted(req[r].row).email = req[r].row.email
  BY <1>2 DEF Accepted, Invitation
<1>4. invitation' = [invitation EXCEPT ![req[r].id] = Accepted(req[r].row)] BY DEF AcceptSave
<1> QED BY <1>1, <1>3, <1>4, TypesOf

-----------------------------------------------------------------------------
(* The handlers that leave the organization, its members and its           *)
(* invitations alone, or have only just begun to look at them.             *)
Elsewhere == {"idle", "removeSeats", "assignCount", "assignSave"}
StaysAway(r) ==
  /\ UNCHANGED <<exists, member, role, invitation>>
  /\ req[r].at \in Elsewhere
  /\ \E next : req' = [req EXCEPT ![r] = next] /\ next.at \in Elsewhere
HappensBeside == UNCHANGED <<exists, member, role, invitation, req>>

LEMMA StayingAway ==
  ASSUME SeatInvariant, NEW r \in Requests,
         \/ RemoveSeats(r) \/ AssignCount(r) \/ AssignSave(r)
         \/ \E actor \in Users \union {Staff}, u \in Users, c \in Courses : AssignSeat(r, actor, u, c)
  PROVE  StaysAway(r)
<1>1. req[r] \in Request /\ Idle.at = "idle" BY TypesOf, NullsHaveTypes DEF Sound
<1>2. CASE RemoveSeats(r) \/ AssignSave(r)
  BY <1>1, <1>2 DEF RemoveSeats, AssignSave, StaysAway, Elsewhere, At, Finish
<1>3. CASE AssignCount(r)
  <2>1. [req[r] EXCEPT !.at = "assignSave"].at = "assignSave" BY <1>1 DEF Request
  <2> QED BY <1>1, <1>3, <2>1 DEF AssignCount, StaysAway, Elsewhere, At, Finish, Continue, rows
<1>4. ASSUME NEW actor, NEW u, NEW c, AssignSeat(r, actor, u, c) PROVE StaysAway(r)
  <2> DEFINE next == [req[r] EXCEPT !.at = "assignCount", !.user = u, !.course = c]
  <2>1. req' = [req EXCEPT ![r] = next] /\ next.at = "assignCount"
    BY <1>1, <1>4, TypesOf DEF AssignSeat, Request
  <2> HIDE DEF next
  <2> QED BY <1>1, <1>4, <2>1 DEF AssignSeat, StaysAway, Elsewhere, rows
<1> QED BY <1>2, <1>3, <1>4

LEMMA HappeningBeside ==
  \/ \E actor \in Users \union {Staff}, u \in Users, c \in Courses : RevokeSeat(actor, u, c)
  \/ \E k \in PackIds : \/ RemoveSeatPacksByPurchase(k) \/ SeatPackExpires(k)
                        \/ \E n \in PackSizes, source \in {"MANUAL", "PURCHASE"} :
                             GrantSeatPack(k, n, source)
  \/ UNCHANGED vars
  => HappensBeside
BY DEF HappensBeside, RevokeSeat, RemoveSeatPacksByPurchase, SeatPackExpires, GrantSeatPack, vars, rows

-----------------------------------------------------------------------------
(* Rows and requests agree on whom an invitation is for.                   *)
LEMMA BringsKept ==
  ASSUME SeatInvariant, InvitationsAreSound, NEW r \in Requests, NEW next,
         req' = [req EXCEPT ![r] = next], Brings(next)',
         \A i \in InvitationIds :
           /\ invitation[i].email \in Users => invitation'[i].email = invitation[i].email
           /\ invitation'[i].status = "PENDING" => invitation'[i].email \in Users
  PROVE  InvitationsAreSound'
<1>1. \A q \in Requests : req'[q] = IF q = r THEN next ELSE req[q] BY TypesOf
<1>2. ASSUME NEW q \in Requests PROVE Brings(req[q])'
  <2>1. CASE q = r BY <1>1, <2>1
  <2>2. CASE q # r BY <1>1, <2>2 DEF InvitationsAreSound, Brings
  <2> QED BY <2>1, <2>2
<1> QED BY <1>2 DEF InvitationsAreSound

LEMMA StepsKeepInvitationsSound ==
  ASSUME SeatInvariant, InvitationsAreSound, [Next]_vars
  PROVE  InvitationsAreSound'
<1> USE TypesOf
<1>1. ASSUME NEW r \in Requests, StaysAway(r) PROVE InvitationsAreSound'
  BY <1>1, BringsKept DEF StaysAway, Elsewhere, InvitationsAreSound, Brings, Accepting
<1>2. CASE HappensBeside
  BY <1>2 DEF HappensBeside, InvitationsAreSound, Brings
(* What leaves the invitations as they are.                                *)
<1>3. ASSUME NEW r \in Requests, UNCHANGED invitation, NEW next, req' = [req EXCEPT ![r] = next],
             Brings(next)'
      PROVE  InvitationsAreSound'
  BY <1>3, BringsKept DEF InvitationsAreSound
<1>4. ASSUME NEW r \in Requests, Create(r) PROVE InvitationsAreSound'
  <2> DEFINE next == [Idle EXCEPT !.at = "createMember", !.user = Owner]
  <2>1. next.at = "createMember" /\ next.user = Owner BY DEF Idle
  <2>2. req' = [req EXCEPT ![r] = next] /\ UNCHANGED invitation BY <1>4 DEF Create
  <2> HIDE DEF next
  <2>3. Brings(next)' BY <2>1 DEF Brings, Accepting
  <2> QED BY <1>3, <2>2, <2>3
<1>5. ASSUME NEW r \in Requests, CreateMember(r) PROVE InvitationsAreSound'
  <2>0. PICK next : next = [req[r] EXCEPT !.at = "createPromote"] OBVIOUS
  <2>1. next.at = "createPromote" /\ next.user = req[r].user BY <2>0 DEF Sound, Request
  <2>2. req' = [req EXCEPT ![r] = next] /\ UNCHANGED invitation
    BY <1>5, <2>0 DEF CreateMember, Continue
  <2>3. req[r].user = Owner BY <1>5 DEF CreateMember, At, InvitationsAreSound, Brings
  <2>4. Brings(next)' BY <2>1, <2>3 DEF Brings, Accepting
  <2> QED BY <1>3, <2>2, <2>4
<1>6. ASSUME NEW r \in Requests, Finish(r), UNCHANGED invitation PROVE InvitationsAreSound'
  <2>1. Brings(Idle)' BY NullsHaveTypes DEF Brings, Accepting
  <2> QED BY <1>3, <1>6, <2>1 DEF Finish
<1>7. ASSUME NEW r \in Requests, NEW actor, NEW u \in Users, RemoveMember(r, actor, u)
      PROVE  InvitationsAreSound'
  <2> DEFINE next == [Idle EXCEPT !.at = "removeSeats", !.user = u]
  <2>1. next.at = "removeSeats" BY DEF Idle
  <2>2. req' = [req EXCEPT ![r] = next] /\ UNCHANGED invitation BY <1>7 DEF RemoveMember
  <2> HIDE DEF next
  <2>3. Brings(next)' BY <2>1 DEF Brings, Accepting
  <2> QED BY <1>3, <2>2, <2>3
<1>8. ASSUME NEW r \in Requests, NEW actor, NEW u \in Users, NEW as \in MemberRoles,
             Invite(r, actor, u, as)
      PROVE  InvitationsAreSound'
  <2> DEFINE row == [NoRow EXCEPT !.status = "PENDING", !.email = u, !.role = as]
             next == [Idle EXCEPT !.at = "inviteSave", !.row = row]
  <2>1. row.status = "PENDING" /\ row.email = u BY DEF NoRow
  <2> HIDE DEF row
  <2>2. next.at = "inviteSave" /\ next.row = row BY DEF Idle
  <2>3. req' = [req EXCEPT ![r] = next] /\ invitation' = WithoutPending(u)
    BY <1>8 DEF Invite, row
  <2> HIDE DEF next
  <2>4. Brings(next)' BY <2>1, <2>2 DEF Brings, Accepting
  <2>5. \A i \in InvitationIds :
          /\ invitation'[i].email = invitation[i].email
          /\ invitation'[i].status = "PENDING" => invitation[i].status = "PENDING"
    BY <2>3, AfterInvite
  <2> QED BY <2>3, <2>4, <2>5, BringsKept DEF InvitationsAreSound
<1>9. ASSUME NEW r \in Requests, NEW i \in InvitationIds, InviteSave(r, i)
      PROVE  InvitationsAreSound'
  <2>1. req' = [req EXCEPT ![r] = Idle] /\ req[r].at = "inviteSave" BY <1>9 DEF InviteSave, Finish, At
  <2>2. Brings(Idle)' BY NullsHaveTypes DEF Brings, Accepting
  <2>3. req[r].row.email \in Users BY <2>1 DEF InvitationsAreSound, Brings
  <2>4. \A j \in InvitationIds :
          /\ invitation[j].email \in Users => invitation'[j].email = invitation[j].email
          /\ invitation'[j].status = "PENDING" => invitation'[j].email \in Users
    BY <1>9, <2>3, AfterInviteSave, NullsAssumption DEF InvitationsAreSound
  <2> QED BY <2>1, <2>2, <2>4, BringsKept
<1>10. ASSUME NEW i \in InvitationIds, (\E actor : RevokeInvitation(actor, i)) \/ InvitationExpires(i)
       PROVE  InvitationsAreSound'
  <2>1. UNCHANGED req BY <1>10 DEF RevokeInvitation, InvitationExpires
  <2>2. \A j \in InvitationIds :
          /\ invitation'[j].email = invitation[j].email
          /\ invitation'[j].status = "PENDING" => invitation[j].status = "PENDING"
    BY <1>10, AfterAnswer
  <2> QED BY <2>1, <2>2 DEF InvitationsAreSound, Brings
<1>11. ASSUME NEW r \in Requests, NEW u \in Users, NEW i \in InvitationIds, AcceptInvitation(r, u, i)
       PROVE  InvitationsAreSound'
  <2>0. PICK next : next = [Idle EXCEPT !.at = "acceptJoin", !.user = u, !.id = i,
                                        !.row = invitation[i], !.joined = member[u] # "NONE"]
    OBVIOUS
  <2>1. /\ req' = [req EXCEPT ![r] = next] /\ UNCHANGED invitation
        /\ invitation[i].email = u
    BY <1>11, <2>0 DEF AcceptInvitation, rows
  <2>2. next.at = "acceptJoin" /\ next.user = u /\ next.id = i /\ next.row = invitation[i]
    BY <2>0 DEF Idle
  <2>3. Brings(next)' BY <2>1, <2>2 DEF Brings, Accepting
  <2> QED BY <1>3, <2>1, <2>3
<1>12. ASSUME NEW r \in Requests, AcceptJoin(r) PROVE InvitationsAreSound'
  <2>0. PICK next : next = [req[r] EXCEPT !.at = "acceptSave"] OBVIOUS
  <2>1. /\ next.at = "acceptSave" /\ next.user = req[r].user /\ next.id = req[r].id
        /\ next.row = req[r].row
    BY <2>0 DEF Sound, Request
  <2>2. Finish(r) \/ req' = [req EXCEPT ![r] = next] BY <1>12, <2>0 DEF AcceptJoin, Continue
  <2>3. UNCHANGED invitation /\ req[r].at = "acceptJoin" BY <1>12 DEF AcceptJoin, At
  <2>4. Brings(next)' BY <2>1, <2>3 DEF InvitationsAreSound, Brings, Accepting
  <2> QED BY <1>3, <1>6, <2>2, <2>3, <2>4
<1>13. ASSUME NEW r \in Requests, AcceptSave(r) PROVE InvitationsAreSound'
  <2>1. PICK next : req' = [req EXCEPT ![r] = next] /\ next.at \in {"acceptPromote", "idle"}
    <3>1. [req[r] EXCEPT !.at = "acceptPromote"].at = "acceptPromote" BY DEF Sound, Request
    <3> QED BY <1>13, <3>1, NullsHaveTypes DEF AcceptSave, Continue, Finish
  <2>2. Brings(next)' BY <2>1 DEF Brings, Accepting
  <2>3. \A j \in InvitationIds :
          /\ invitation[j].email \in Users => invitation'[j].email = invitation[j].email
          /\ invitation'[j].status = "PENDING" => invitation'[j].email \in Users
    BY <1>13, AfterAcceptSave DEF InvitationsAreSound
  <2> QED BY <2>1, <2>2, <2>3, BringsKept
<1>14. ASSUME NEW r \in Requests, Promote(r) \/ Fail(r) PROVE InvitationsAreSound'
  BY <1>6, <1>14 DEF Promote, Fail, rows
<1> QED
  BY <1>1, <1>2, <1>4, <1>5, <1>7, <1>8, <1>9, <1>10, <1>11, <1>12, <1>13, <1>14,
     StayingAway, HappeningBeside DEF Next

-----------------------------------------------------------------------------
(* Most steps make nobody a member and forget no invitation.                *)
LEMMA InvitedKept ==
  ASSUME MembersWereInvited, UNCHANGED failures,
         \A u \in Users \ {Owner} : member'[u] # "NONE" => member[u] # "NONE",
         \A i \in InvitationIds : invitation[i].email \in Users =>
           /\ invitation'[i].email = invitation[i].email
           /\ invitation[i].status = "ACCEPTED" => invitation'[i].status = "ACCEPTED",
         \A q \in Requests : req[q].at = "acceptSave" =>
           \/ req'[q].at = "acceptSave" /\ req'[q].id = req[q].id
           \/ invitation'[req[q].id].status = "ACCEPTED"
  PROVE  MembersWereInvited'
<1> SUFFICES ASSUME failures = 0, NEW u \in Users \ {Owner}, member'[u] # "NONE"
             PROVE  \E i \in InvitationIds :
                      /\ invitation'[i].email = u
                      /\ \/ invitation'[i].status = "ACCEPTED"
                         \/ \E r \in Requests : req'[r].id = i /\ req'[r].at = "acceptSave"
  BY DEF MembersWereInvited
<1>1. PICK i \in InvitationIds :
        /\ invitation[i].email = u
        /\ \/ invitation[i].status = "ACCEPTED"
           \/ \E r \in Requests : req[r].id = i /\ req[r].at = "acceptSave"
  BY DEF MembersWereInvited
<1> QED BY <1>1

LEMMA StepsKeepInvited ==
  ASSUME SeatInvariant, InvitationsAreSound, MembersWereInvited, [Next]_vars
  PROVE  MembersWereInvited'
<1> USE TypesOf
(* What leaves the invitations as they are, and makes nobody a member.      *)
<1>1. ASSUME NEW r \in Requests, NEW next, req' = [req EXCEPT ![r] = next], req[r].at # "acceptSave",
             UNCHANGED <<invitation, failures>>,
             \A u \in Users \ {Owner} : member'[u] # "NONE" => member[u] # "NONE"
      PROVE  MembersWereInvited'
  <2>1. \A q \in Requests : q # r => req'[q] = req[q] BY <1>1
  <2> QED BY <1>1, <2>1, InvitedKept
<1>2. ASSUME NEW r \in Requests,
             \/ RemoveSeats(r) \/ AssignCount(r) \/ AssignSave(r)
             \/ \E actor \in Users \union {Staff}, u \in Users, c \in Courses : AssignSeat(r, actor, u, c)
      PROVE  MembersWereInvited'
  <2>1. UNCHANGED failures
    BY <1>2 DEF RemoveSeats, AssignCount, AssignSave, AssignSeat
  <2> QED BY <1>1, <1>2, <2>1, StayingAway DEF StaysAway, Elsewhere
<1>3. CASE HappensBeside /\ UNCHANGED failures
  BY <1>3 DEF HappensBeside, MembersWereInvited
<1>4. ASSUME NEW r \in Requests, Create(r) PROVE MembersWereInvited'
  <2> DEFINE next == [req[r] EXCEPT !.at = "createMember", !.user = Owner]
  <2>1. req' = [req EXCEPT ![r] = next] BY <1>4 DEF Create
  <2> HIDE DEF next
  <2> QED BY <1>1, <1>4, <2>1, NullsHaveTypes DEF Create
<1>5. ASSUME NEW r \in Requests, CreateMember(r) PROVE MembersWereInvited'
  <2> DEFINE next == [req[r] EXCEPT !.at = "createPromote"]
  <2>1. req' = [req EXCEPT ![r] = next] BY <1>5 DEF CreateMember, Continue
  <2>2. \A u \in Users \ {Owner} : member'[u] = member[u] BY <1>5 DEF CreateMember
  <2> HIDE DEF next
  <2> QED BY <1>1, <1>5, <2>1, <2>2 DEF CreateMember, At
<1>6. ASSUME NEW r \in Requests, NEW actor, NEW u \in Users, RemoveMember(r, actor, u)
      PROVE  MembersWereInvited'
  <2> DEFINE next == [req[r] EXCEPT !.at = "removeSeats", !.user = u]
  <2>1. req' = [req EXCEPT ![r] = next] BY <1>6 DEF RemoveMember
  <2>2. \A w \in Users : member'[w] # "NONE" => member[w] # "NONE" BY <1>6 DEF RemoveMember
  <2> HIDE DEF next
  <2> QED BY <1>1, <1>6, <2>1, <2>2, NullsHaveTypes DEF RemoveMember
<1>7. ASSUME NEW r \in Requests, NEW actor, NEW u \in Users, NEW as \in MemberRoles,
             Invite(r, actor, u, as)
      PROVE  MembersWereInvited'
  <2>1. req[r].at = "idle" /\ \A q \in Requests : q # r => req'[q] = req[q]
    BY <1>7, NullsHaveTypes DEF Invite
  <2>2. \A i \in InvitationIds :
          /\ invitation'[i].email = invitation[i].email
          /\ invitation[i].status = "ACCEPTED" => invitation'[i].status = "ACCEPTED"
    BY <1>7, AfterInvite DEF Invite
  <2>3. UNCHANGED <<member, failures>> BY <1>7 DEF Invite
  <2> QED BY <2>1, <2>2, <2>3, InvitedKept
<1>8. ASSUME NEW r \in Requests, NEW i \in InvitationIds, InviteSave(r, i)
      PROVE  MembersWereInvited'
  <2>1. req[r].at = "inviteSave" /\ \A q \in Requests : q # r => req'[q] = req[q]
    BY <1>8 DEF InviteSave, At, Finish
  <2>2. \A j \in InvitationIds : invitation[j].email \in Users => invitation'[j] = invitation[j]
    BY <1>8, AfterInviteSave, NullsAssumption
  <2>3. UNCHANGED <<member, failures>> BY <1>8 DEF InviteSave
  <2> QED BY <2>1, <2>2, <2>3, InvitedKept
<1>9. ASSUME NEW i \in InvitationIds, (\E actor : RevokeInvitation(actor, i)) \/ InvitationExpires(i)
      PROVE  MembersWereInvited'
  <2>1. UNCHANGED <<req, member, failures>> BY <1>9 DEF RevokeInvitation, InvitationExpires
  <2>2. \A j \in InvitationIds :
          /\ invitation'[j].email = invitation[j].email
          /\ invitation[j].status = "ACCEPTED" => invitation'[j].status = "ACCEPTED"
    BY <1>9, AfterAnswer
  <2> QED BY <2>1, <2>2, InvitedKept
<1>10. ASSUME NEW r \in Requests, NEW u \in Users, NEW i \in InvitationIds, AcceptInvitation(r, u, i)
       PROVE  MembersWereInvited'
  <2>1. req[r].at = "idle" /\ \A q \in Requests : q # r => req'[q] = req[q]
    BY <1>10, NullsHaveTypes DEF AcceptInvitation
  <2>2. UNCHANGED <<invitation, member, failures>> BY <1>10 DEF AcceptInvitation, rows
  <2> QED BY <2>1, <2>2, InvitedKept
<1>11. ASSUME NEW r \in Requests, AcceptJoin(r) PROVE MembersWereInvited'
  <2>1. /\ req[r].at = "acceptJoin" /\ UNCHANGED <<invitation, failures>>
        /\ \A q \in Requests : q # r => req'[q] = req[q]
    BY <1>11 DEF AcceptJoin, At, Continue, Finish
  <2>2. CASE UNCHANGED member BY <2>1, <2>2, InvitedKept
  <2>3. CASE member' = [member EXCEPT ![req[r].user] = req[r].row.role] /\ Continue(r, "acceptSave")
    <3> DEFINE w == req[r].user
               i == req[r].id
    <3>1. i \in InvitationIds /\ w \in Users /\ invitation[i].email = w
      BY <2>1 DEF InvitationsAreSound, Brings, Accepting
    <3>2. req'[r].id = i /\ req'[r].at = "acceptSave" BY <2>3 DEF Continue, Sound, Request
    <3>3. \A u \in Users : u # w => member'[u] = member[u] BY <2>3
    <3> HIDE DEF w, i
    <3> SUFFICES ASSUME failures = 0, NEW u \in Users \ {Owner}, member'[u] # "NONE"
                 PROVE  \E j \in InvitationIds :
                          /\ invitation[j].email = u
                          /\ \/ invitation[j].status = "ACCEPTED"
                             \/ \E q \in Requests : req'[q].id = j /\ req'[q].at = "acceptSave"
      BY <2>1 DEF MembersWereInvited
    <3>4. CASE u = w BY <3>1, <3>2, <3>4
    <3>5. CASE u # w
      <4>1. member[u] # "NONE" BY <3>3, <3>5
      <4>2. PICK j \in InvitationIds :
              /\ invitation[j].email = u
              /\ \/ invitation[j].status = "ACCEPTED"
                 \/ \E q \in Requests : req[q].id = j /\ req[q].at = "acceptSave"
        BY <4>1 DEF MembersWereInvited
      <4> QED BY <2>1, <4>2
    <3> QED BY <3>4, <3>5
  <2> QED BY <1>11, <2>2, <2>3 DEF AcceptJoin
<1>12. ASSUME NEW r \in Requests, AcceptSave(r) PROVE MembersWereInvited'
  <2>1. /\ UNCHANGED <<member, failures>>
        /\ \A q \in Requests : q # r => req'[q] = req[q]
    BY <1>12 DEF AcceptSave, Continue, Finish
  <2>2. \A j \in InvitationIds :
          /\ invitation'[j].email = invitation[j].email
          /\ invitation[j].status = "ACCEPTED" => invitation'[j].status = "ACCEPTED"
    BY <1>12, AfterAcceptSave
  <2>3. invitation'[req[r].id].status = "ACCEPTED" BY <1>12, AfterAcceptSave
  <2> QED BY <2>1, <2>2, <2>3, InvitedKept
<1>13. ASSUME NEW r \in Requests, Promote(r) PROVE MembersWereInvited'
  <2>1. req[r].at # "acceptSave" /\ req' = [req EXCEPT ![r] = Idle] /\ UNCHANGED <<invitation, member, failures>>
    BY <1>13 DEF Promote, At, Finish
  <2> QED BY <1>1, <2>1
<1>14. ASSUME NEW r \in Requests, Fail(r) PROVE MembersWereInvited'
  <2>1. failures \in Nat BY FailureAssumption
  <2>2. failures' # 0 BY <1>14, <2>1 DEF Fail
  <2> QED BY <2>2 DEF MembersWereInvited
<1>15. ASSUME \/ \E actor \in Users \union {Staff}, u \in Users, c \in Courses : RevokeSeat(actor, u, c)
              \/ \E k \in PackIds : \/ RemoveSeatPacksByPurchase(k) \/ SeatPackExpires(k)
                                    \/ \E n \in PackSizes, source \in {"MANUAL", "PURCHASE"} :
                                         GrantSeatPack(k, n, source)
              \/ UNCHANGED vars
       PROVE  MembersWereInvited'
  <2>1. UNCHANGED failures
    BY <1>15 DEF RevokeSeat, RemoveSeatPacksByPurchase, SeatPackExpires, GrantSeatPack, vars, rows
  <2> QED BY <1>3, <1>15, <2>1, HappeningBeside
<1> QED
  BY <1>2, <1>4, <1>5, <1>6, <1>7, <1>8, <1>9, <1>10, <1>11, <1>12, <1>13, <1>14, <1>15 DEF Next

-----------------------------------------------------------------------------
(* While nothing overlaps or fails one request takes a step, alone.         *)
LEMMA OneRequest ==
  ASSUME MemberInvariant, NEW r \in Requests, NEW next, req' = [req EXCEPT ![r] = next],
         Arrives \/ (UNCHANGED overlapped /\ req[r].at # "idle"),
         UNCHANGED failures, Serial'
  PROVE  /\ MemberFacts
         /\ \A q \in Requests \ {r} : req[q].at = "idle" /\ req'[q].at = "idle"
         /\ req'[r] = next
<1>1. SeatInvariant BY DEF MemberInvariant
<1>2. Serial
  <2>1. CASE Arrives BY <2>1 DEF Serial, Arrives
  <2>2. CASE UNCHANGED overlapped BY <2>2 DEF Serial
  <2> QED BY <2>1, <2>2
<1>3. MemberFacts /\ Alone BY <1>1, <1>2, TypesOf DEF MemberInvariant, SerialInvariant
<1>4. \A q \in Requests : req'[q] = IF q = r THEN next ELSE req[q] BY <1>1, TypesOf
<1>5. \A q \in Requests \ {r} : req[q].at = "idle"
  <2>1. CASE Arrives
    <3>1. \A q \in Requests : req[q] = Idle BY <2>1 DEF Arrives, Serial, Under
    <3> QED BY <3>1, NullsHaveTypes
  <2>2. CASE req[r].at # "idle"
    BY <1>3, <2>2, NullsHaveTypes DEF Alone
  <2> QED BY <2>1, <2>2
<1> QED BY <1>3, <1>4, <1>5

LEMMA NothingUnderWay ==
  ASSUME MemberInvariant, Arrives, UNCHANGED failures, Serial'
  PROVE  MemberFacts /\ \A q \in Requests : req[q].at = "idle"
<1>1. Serial /\ \A q \in Requests : req[q] = Idle BY DEF Serial, Arrives, Under
<1> QED BY <1>1, NullsHaveTypes DEF MemberInvariant

(* The request steps to places where it has no say.                        *)
LEMMA AwayIsSafe ==
  ASSUME MemberInvariant, NEW r \in Requests, StaysAway(r),
         Arrives \/ (UNCHANGED overlapped /\ req[r].at # "idle"),
         UNCHANGED failures, Serial'
  PROVE  MemberFacts'
<1>1. PICK next : req' = [req EXCEPT ![r] = next] /\ next.at \in Elsewhere BY DEF StaysAway
<1>2. MemberFacts /\ \A q \in Requests : req[q].at \in Elsewhere /\ req'[q].at \in Elsewhere
  <2>1. /\ MemberFacts /\ req'[r] = next
        /\ \A q \in Requests \ {r} : req[q].at = "idle" /\ req'[q].at = "idle"
    BY <1>1, OneRequest
  <2> QED BY <1>1, <2>1 DEF StaysAway, Elsewhere
<1>3. UNCHANGED <<exists, member, role, invitation>> BY DEF StaysAway
<1>4. OwnerComesFirst' BY <1>2, <1>3 DEF MemberFacts, OwnerComesFirst, Founding, At, Elsewhere
<1>5. WaysAreOpen'
  BY <1>2, <1>3 DEF MemberFacts, WaysAreOpen, PendingOf, At, Elsewhere
<1>6. AdminsArePromoted'
  BY <1>2, <1>3 DEF MemberFacts, AdminsArePromoted, Promotes, Elsewhere
<1>7. \A q \in Requests : StaysValid(q)'
  BY <1>2 DEF StaysValid, At, Elsewhere
<1> QED BY <1>4, <1>5, <1>6, <1>7 DEF MemberFacts

LEMMA CreateIsSafe ==
  ASSUME MemberInvariant, NEW r \in Requests, Create(r), Serial'
  PROVE  MemberFacts'
<1>0. PICK next : next = [Idle EXCEPT !.at = "createMember", !.user = Owner] OBVIOUS
<1>1. next.at = "createMember" BY <1>0 DEF Idle
<1>2. /\ req' = [req EXCEPT ![r] = next] /\ req[r].at = "idle" /\ Arrives /\ ~exists
      /\ UNCHANGED <<member, role, invitation, failures>>
  BY <1>0, NullsHaveTypes DEF Create
<1>3. /\ MemberFacts /\ req'[r] = next
      /\ \A q \in Requests \ {r} : req[q].at = "idle" /\ req'[q].at = "idle"
  BY <1>2, OneRequest
<1>4. \A i \in InvitationIds : invitation'[i].status # "PENDING"
  BY <1>2, <1>3 DEF MemberFacts, OwnerComesFirst, Founding
<1>5. OwnerComesFirst' BY <1>1, <1>3, <1>4 DEF OwnerComesFirst, Founding, At
<1>6. WaysAreOpen' BY <1>4 DEF WaysAreOpen, PendingOf
<1>7. AdminsArePromoted'
  BY <1>2, <1>3 DEF MemberFacts, AdminsArePromoted, Promotes
<1>8. \A q \in Requests : StaysValid(q)' BY <1>1, <1>3 DEF StaysValid, At
<1> QED BY <1>5, <1>6, <1>7, <1>8 DEF MemberFacts

LEMMA CreateMemberIsSafe ==
  ASSUME MemberInvariant, NEW r \in Requests, CreateMember(r), Serial'
  PROVE  MemberFacts'
<1>0. PICK next : next = [req[r] EXCEPT !.at = "createPromote"] OBVIOUS
<1> USE TypesOf DEF MemberInvariant
<1>1. next.at = "createPromote" /\ next.user = Owner
  BY <1>0 DEF Sound, Request, InvitationsAreSound, Brings, CreateMember, At
<1>2. /\ req' = [req EXCEPT ![r] = next] /\ req[r].at = "createMember"
      /\ member' = [member EXCEPT ![Owner] = "ADMIN"]
      /\ UNCHANGED <<exists, role, invitation, overlapped, failures>>
  BY <1>0 DEF CreateMember, Continue, At
<1>3. /\ MemberFacts /\ req'[r] = next
      /\ \A q \in Requests \ {r} : req[q].at = "idle" /\ req'[q].at = "idle"
  BY <1>2, OneRequest
<1>4. \A i \in InvitationIds : invitation'[i].status # "PENDING"
  BY <1>2, <1>3 DEF MemberFacts, OwnerComesFirst, Founding, At
<1>5. OwnerComesFirst' BY <1>2, <1>4, OwnerAssumption DEF OwnerComesFirst, Founding
<1>6. WaysAreOpen' BY <1>4 DEF WaysAreOpen, PendingOf
<1>7. AdminsArePromoted'
  BY <1>1, <1>2, <1>3 DEF MemberFacts, AdminsArePromoted, Promotes
<1>8. \A q \in Requests : StaysValid(q)' BY <1>1, <1>3 DEF StaysValid, At
<1> QED BY <1>5, <1>6, <1>7, <1>8 DEF MemberFacts

LEMMA PromoteIsSafe ==
  ASSUME MemberInvariant, NEW r \in Requests, Promote(r), Serial'
  PROVE  MemberFacts'
<1> USE TypesOf DEF MemberInvariant
<1>1. /\ req' = [req EXCEPT ![r] = Idle] /\ req[r].at \in {"createPromote", "acceptPromote"}
      /\ role' = [role EXCEPT ![req[r].user] = IF @ = "LEARNER" THEN "ORG_ADMIN" ELSE @]
      /\ UNCHANGED <<exists, member, invitation, overlapped, failures>>
  BY DEF Promote, Promoted, Finish, At
<1>2. /\ MemberFacts /\ req'[r] = Idle
      /\ \A q \in Requests \ {r} : req[q].at = "idle" /\ req'[q].at = "idle"
  BY <1>1, OneRequest
<1>3. \A q \in Requests : req'[q].at = "idle" BY <1>2, NullsHaveTypes
<1>4. OwnerComesFirst'
  BY <1>1, <1>2, <1>3 DEF MemberFacts, OwnerComesFirst, Founding, At
<1>5. WaysAreOpen'
  BY <1>1, <1>2, <1>3 DEF MemberFacts, WaysAreOpen, PendingOf, At
<1>6. AdminsArePromoted'
  <2>1. role \in [Users -> UserRoles] OBVIOUS
  <2>2. \A u \in Users : role[u] # "LEARNER" \/ req[r].user = u => role'[u] # "LEARNER"
    BY <1>1, <2>1
  <2>3. \A u \in Users : member[u] = "ADMIN" => role[u] # "LEARNER" \/ req[r].user = u
    BY <1>1, <1>2 DEF MemberFacts, AdminsArePromoted, Promotes
  <2> QED BY <1>1, <2>2, <2>3 DEF AdminsArePromoted
<1>7. \A q \in Requests : StaysValid(q)' BY <1>3 DEF StaysValid, At
<1> QED BY <1>4, <1>5, <1>6, <1>7 DEF MemberFacts

LEMMA RemoveMemberIsSafe ==
  ASSUME MemberInvariant, NEW r \in Requests, NEW actor, NEW u \in Users, RemoveMember(r, actor, u),
         Serial'
  PROVE  MemberFacts'
<1> USE TypesOf DEF MemberInvariant
<1>0. PICK next : next = [Idle EXCEPT !.at = "removeSeats", !.user = u] OBVIOUS
<1>1. next.at = "removeSeats" BY <1>0 DEF Idle
<1>2. /\ req' = [req EXCEPT ![r] = next] /\ req[r].at = "idle" /\ Arrives /\ u # Owner
      /\ member' = [member EXCEPT ![u] = "NONE"]
      /\ UNCHANGED <<exists, role, invitation, failures>>
  BY <1>0, NullsHaveTypes DEF RemoveMember
<1>3. /\ MemberFacts /\ req'[r] = next
      /\ \A q \in Requests \ {r} : req[q].at = "idle" /\ req'[q].at = "idle"
  BY <1>2, OneRequest
<1>4. \A q \in Requests : req[q].at = "idle" /\ req'[q].at \in {"idle", "removeSeats"}
  BY <1>1, <1>2, <1>3
<1>5. OwnerComesFirst'
  BY <1>2, <1>3, <1>4, OwnerAssumption DEF MemberFacts, OwnerComesFirst, Founding, At
<1>6. WaysAreOpen'
  BY <1>2, <1>3, <1>4 DEF MemberFacts, WaysAreOpen, PendingOf, At
<1>7. AdminsArePromoted'
  BY <1>2, <1>3, <1>4 DEF MemberFacts, AdminsArePromoted, Promotes
<1>8. \A q \in Requests : StaysValid(q)' BY <1>4 DEF StaysValid, At
<1> QED BY <1>5, <1>6, <1>7, <1>8 DEF MemberFacts

(* An invitation is sent by who can manage, so there is an owner.           *)
LEMMA InviteIsSafe ==
  ASSUME MemberInvariant, NEW r \in Requests, NEW actor, NEW u \in Users, NEW as \in MemberRoles,
         Invite(r, actor, u, as), Serial'
  PROVE  MemberFacts'
<1> USE TypesOf DEF MemberInvariant
<1> DEFINE row == [NoRow EXCEPT !.status = "PENDING", !.email = u, !.role = as]
<1>0. PICK next : next = [Idle EXCEPT !.at = "inviteSave", !.row = row] OBVIOUS
<1>1. next.at = "inviteSave" /\ next.row.email = u BY <1>0 DEF Idle, NoRow
<1>2. /\ req' = [req EXCEPT ![r] = next] /\ req[r].at = "idle" /\ Arrives /\ exists
      /\ member[u] = "NONE" /\ UNCHANGED <<exists, member, role, failures>>
  BY <1>0, NullsHaveTypes DEF Invite, CanManage
<1> HIDE DEF row
<1>3. \A i \in InvitationIds :
           /\ invitation'[i].email = invitation[i].email
           /\ invitation'[i].status = "PENDING" <=>
                invitation[i].status = "PENDING" /\ invitation[i].email # u
  BY AfterInvite DEF Invite
<1>4. /\ MemberFacts /\ req'[r] = next
      /\ \A q \in Requests \ {r} : req[q].at = "idle" /\ req'[q].at = "idle"
  BY <1>2, OneRequest
<1>5. \A q \in Requests : req[q].at = "idle" /\ req'[q].at \in {"idle", "inviteSave"}
  BY <1>1, <1>2, <1>4
<1>6. OwnerComesFirst'
  BY <1>2, <1>3, <1>4, <1>5 DEF MemberFacts, OwnerComesFirst, Founding, At
<1>7. \A w \in Users : PendingOf(w)' = IF w = u THEN {} ELSE PendingOf(w)
  BY <1>3 DEF PendingOf
<1>8. WaysAreOpen'
  BY <1>2, <1>4, <1>5, <1>7 DEF MemberFacts, WaysAreOpen, At
<1>9. AdminsArePromoted'
  BY <1>2, <1>4, <1>5 DEF MemberFacts, AdminsArePromoted, Promotes
<1>10. \A q \in Requests : StaysValid(q)'
  <2>1. PendingOf(u)' = {} BY <1>7
  <2>2. PendingOf(next.row.email)' = {} BY <1>1, <1>3 DEF PendingOf
  <2> QED BY <1>1, <1>2, <1>4, <1>5, <2>2 DEF StaysValid, At, PendingOf
<1> QED BY <1>6, <1>8, <1>9, <1>10 DEF MemberFacts

LEMMA InviteSaveIsSafe ==
  ASSUME MemberInvariant, NEW r \in Requests, NEW i \in InvitationIds, InviteSave(r, i), Serial'
  PROVE  MemberFacts'
<1> USE TypesOf DEF MemberInvariant
<1>1. PICK u \in Users : req[r].row.email = u /\ req[r].row.status = "PENDING"
  BY DEF InvitationsAreSound, Brings, InviteSave, At
<1>2. /\ req' = [req EXCEPT ![r] = Idle] /\ req[r].at = "inviteSave"
      /\ UNCHANGED <<exists, member, role, overlapped, failures>>
  BY DEF InviteSave, Finish, At
<1>3. /\ MemberFacts /\ req'[r] = Idle
      /\ \A q \in Requests \ {r} : req[q].at = "idle" /\ req'[q].at = "idle"
  BY <1>2, OneRequest
<1>4. \A q \in Requests : req'[q].at = "idle" BY <1>3, NullsHaveTypes
<1>5. exists /\ member[u] = "NONE" /\ PendingOf(u) = {}
  BY <1>1, <1>2, <1>3 DEF MemberFacts, StaysValid, At
<1>6. /\ invitation[i].status = "NONE"
      /\ invitation'[i].status = "PENDING" /\ invitation'[i].email = u
      /\ \A j \in InvitationIds \ {i} : invitation'[j] = invitation[j]
  BY <1>1, AfterInviteSave
<1>7. \A w \in Users : PendingOf(w)' = IF w = u THEN {i} ELSE PendingOf(w)
  BY <1>5, <1>6 DEF PendingOf
<1>8. OwnerComesFirst'
  BY <1>2, <1>3, <1>4, <1>5 DEF MemberFacts, OwnerComesFirst, Founding, At
<1>9. WaysAreOpen'
  BY <1>2, <1>3, <1>5, <1>7 DEF MemberFacts, WaysAreOpen, At
<1>10. AdminsArePromoted'
  BY <1>2, <1>3 DEF MemberFacts, AdminsArePromoted, Promotes
<1>11. \A q \in Requests : StaysValid(q)' BY <1>4 DEF StaysValid, At
<1> QED BY <1>8, <1>9, <1>10, <1>11 DEF MemberFacts

(* Revocations and expiries find nothing under way.                        *)
LEMMA AnswerIsSafe ==
  ASSUME MemberInvariant, NEW i \in InvitationIds,
         (\E actor : RevokeInvitation(actor, i)) \/ InvitationExpires(i), Serial'
  PROVE  MemberFacts'
<1> USE TypesOf DEF MemberInvariant
<1>1. UNCHANGED <<exists, member, role, req, failures>> /\ Arrives
  BY DEF RevokeInvitation, InvitationExpires
<1>2. MemberFacts /\ \A q \in Requests : req[q].at = "idle" BY <1>1, NothingUnderWay
<1>3. \A j \in InvitationIds :
        /\ invitation'[j].email = invitation[j].email
        /\ invitation'[j].status = "PENDING" => invitation[j].status = "PENDING"
  BY AfterAnswer
<1>4. \A w \in Users : PendingOf(w)' \subseteq PendingOf(w) BY <1>3 DEF PendingOf
<1>5. OwnerComesFirst' BY <1>1, <1>2, <1>3 DEF MemberFacts, OwnerComesFirst, Founding, At
<1>6. WaysAreOpen'
  BY <1>1, <1>2, <1>4 DEF MemberFacts, WaysAreOpen, At
<1>7. AdminsArePromoted' BY <1>1, <1>2 DEF MemberFacts, AdminsArePromoted, Promotes
<1>8. \A q \in Requests : StaysValid(q)' BY <1>1, <1>2 DEF StaysValid, At
<1> QED BY <1>5, <1>6, <1>7, <1>8 DEF MemberFacts

LEMMA AcceptInvitationIsSafe ==
  ASSUME MemberInvariant, NEW r \in Requests, NEW u \in Users, NEW i \in InvitationIds,
         AcceptInvitation(r, u, i), Serial'
  PROVE  MemberFacts'
<1> USE TypesOf DEF MemberInvariant
<1>0. PICK next : next = [Idle EXCEPT !.at = "acceptJoin", !.user = u, !.id = i,
                                      !.row = invitation[i], !.joined = member[u] # "NONE"]
  OBVIOUS
<1>1. next.at = "acceptJoin" /\ next.user = u /\ next.id = i BY <1>0 DEF Idle
<1>2. /\ req' = [req EXCEPT ![r] = next] /\ req[r].at = "idle" /\ Arrives
      /\ invitation[i].status = "PENDING"
      /\ UNCHANGED <<exists, member, role, invitation, failures>>
  BY <1>0, NullsHaveTypes DEF AcceptInvitation, rows, IsPending
<1>3. /\ MemberFacts /\ req'[r] = next
      /\ \A q \in Requests \ {r} : req[q].at = "idle" /\ req'[q].at = "idle"
  BY <1>2, OneRequest
<1>4. \A q \in Requests : req[q].at = "idle" /\ req'[q].at \in {"idle", "acceptJoin"}
  BY <1>1, <1>2, <1>3
<1>5. OwnerComesFirst'
  BY <1>2, <1>3, <1>4 DEF MemberFacts, OwnerComesFirst, Founding, At
<1>6. WaysAreOpen'
  BY <1>2, <1>3, <1>4 DEF MemberFacts, WaysAreOpen, PendingOf, At
<1>7. AdminsArePromoted'
  BY <1>2, <1>3, <1>4 DEF MemberFacts, AdminsArePromoted, Promotes
<1>8. \A q \in Requests : StaysValid(q)' BY <1>1, <1>2, <1>3 DEF StaysValid, At
<1> QED BY <1>5, <1>6, <1>7, <1>8 DEF MemberFacts

LEMMA AcceptJoinIsSafe ==
  ASSUME MemberInvariant, NEW r \in Requests, AcceptJoin(r), Serial'
  PROVE  MemberFacts'
<1> USE TypesOf DEF MemberInvariant
<1>0. PICK u, i : u = req[r].user /\ i = req[r].id OBVIOUS
<1>1. /\ req[r].at = "acceptJoin" /\ i \in InvitationIds /\ u \in Users /\ invitation[i].email = u
      /\ UNCHANGED <<exists, role, invitation, overlapped, failures>>
  BY <1>0 DEF AcceptJoin, At, InvitationsAreSound, Brings, Accepting
<1>2. CASE Finish(r) /\ UNCHANGED member
  <2>1. /\ MemberFacts /\ req'[r] = Idle
        /\ \A q \in Requests \ {r} : req[q].at = "idle" /\ req'[q].at = "idle"
    BY <1>1, <1>2, OneRequest DEF Finish
  <2>2. \A q \in Requests : req'[q].at = "idle" BY <2>1, NullsHaveTypes
  <2>3. OwnerComesFirst'
    BY <1>1, <1>2, <2>1, <2>2 DEF MemberFacts, OwnerComesFirst, Founding, At
  <2>4. WaysAreOpen'
    BY <1>1, <1>2, <2>1, <2>2 DEF MemberFacts, WaysAreOpen, PendingOf, At
  <2>5. AdminsArePromoted'
    BY <1>1, <1>2, <2>1, <2>2 DEF MemberFacts, AdminsArePromoted, Promotes
  <2>6. \A q \in Requests : StaysValid(q)' BY <2>2 DEF StaysValid, At
  <2> QED BY <2>3, <2>4, <2>5, <2>6 DEF MemberFacts
<1>3. CASE /\ Continue(r, "acceptSave")
           /\ \/ UNCHANGED member
              \/ member[u] = "NONE" /\ member' = [member EXCEPT ![u] = req[r].row.role]
  <2>0. PICK next : next = [req[r] EXCEPT !.at = "acceptSave"] OBVIOUS
  <2>1. /\ next.at = "acceptSave" /\ next.user = u /\ next.id = i /\ next.row = req[r].row
        /\ req' = [req EXCEPT ![r] = next]
    BY <1>0, <1>3, <2>0 DEF Sound, Request, Continue
  <2>2. /\ MemberFacts /\ req'[r] = next
        /\ \A q \in Requests \ {r} : req[q].at = "idle" /\ req'[q].at = "idle"
    BY <1>1, <2>1, OneRequest
  <2>3. invitation[i].status = "PENDING"
    BY <1>0, <1>1, <2>2 DEF MemberFacts, StaysValid, At
  <2>4. member[Owner] = "ADMIN" /\ exists
    BY <1>1, <2>2, <2>3 DEF MemberFacts, OwnerComesFirst, Founding
  <2>5. OwnerComesFirst'
    <3>1. member'[Owner] = "ADMIN" BY <1>1, <1>3, <2>4, OwnerAssumption
    <3>2. \A q \in Requests : req'[q].at # "createMember" BY <2>1, <2>2
    <3> QED BY <1>1, <2>4, <3>1, <3>2 DEF OwnerComesFirst, Founding, At
  <2>6. PendingOf(u) = {i} /\ \A w \in Users : PendingOf(w)' = PendingOf(w)
    BY <1>1, <2>2, <2>3 DEF MemberFacts, WaysAreOpen, PendingOf
  <2>7. WaysAreOpen'
    <3>1. \A w \in Users \ {u} : member'[w] = member[w] BY <1>3
    <3>2. \A w \in Users : \A j \in PendingOf(w) : PendingOf(w) = {j} /\ member[w] = "NONE"
      BY <1>1, <2>2 DEF MemberFacts, WaysAreOpen, At
    <3> QED BY <2>1, <2>2, <2>6, <3>1, <3>2 DEF WaysAreOpen, At
  <2>8. AdminsArePromoted'
    <3>1. \A w \in Users : member[w] = "ADMIN" => role[w] # "LEARNER"
      BY <1>1, <2>2 DEF MemberFacts, AdminsArePromoted, Promotes
    <3>2. ASSUME NEW w \in Users, member'[w] = "ADMIN"
          PROVE  role[w] # "LEARNER" \/ (w = u /\ req[r].row.role = "ADMIN")
      BY <1>1, <1>3, <3>1, <3>2
    <3> QED BY <1>1, <2>1, <2>2, <3>2 DEF AdminsArePromoted, Promotes
  <2>9. \A q \in Requests : StaysValid(q)' BY <2>1, <2>2 DEF StaysValid, At
  <2> QED BY <2>5, <2>7, <2>8, <2>9 DEF MemberFacts
<1> QED BY <1>0, <1>2, <1>3 DEF AcceptJoin

LEMMA AcceptSaveIsSafe ==
  ASSUME MemberInvariant, NEW r \in Requests, AcceptSave(r), Serial'
  PROVE  MemberFacts'
<1> USE TypesOf DEF MemberInvariant
<1>0. PICK u, i : u = req[r].user /\ i = req[r].id OBVIOUS
<1>1. /\ req[r].at = "acceptSave" /\ i \in InvitationIds /\ u \in Users
      /\ UNCHANGED <<exists, member, role, overlapped, failures>>
      /\ invitation'[i].status = "ACCEPTED" /\ invitation[i].email = u
      /\ \A j \in InvitationIds \ {i} : invitation'[j] = invitation[j]
  BY <1>0, AfterAcceptSave DEF AcceptSave, At
<1>2. PICK next : /\ req' = [req EXCEPT ![r] = next]
                  /\ \/ next.at = "acceptPromote" /\ next.user = u
                     \/ next.at = "idle" /\ req[r].row.role # "ADMIN"
  <2> DEFINE going == [req[r] EXCEPT !.at = "acceptPromote"]
  <2>1. going.at = "acceptPromote" /\ going.user = u BY <1>0 DEF Sound, Request
  <2>2. \/ req' = [req EXCEPT ![r] = going]
        \/ req' = [req EXCEPT ![r] = Idle] /\ req[r].row.role # "ADMIN"
    BY DEF AcceptSave, Continue, Finish
  <2> HIDE DEF going
  <2> QED BY <2>1, <2>2, NullsHaveTypes
<1>3. /\ MemberFacts /\ req'[r] = next
      /\ \A q \in Requests \ {r} : req[q].at = "idle" /\ req'[q].at = "idle"
  BY <1>1, <1>2, OneRequest
<1>4. \A j \in InvitationIds : invitation'[j].status = "PENDING" => j # i /\ invitation[j].status = "PENDING"
  BY <1>1
<1>5. \A w \in Users : PendingOf(w)' = PendingOf(w) \ {i}
  BY <1>1, <1>4 DEF PendingOf
<1>6. OwnerComesFirst'
  BY <1>1, <1>2, <1>3, <1>4 DEF MemberFacts, OwnerComesFirst, Founding, At
<1>7. WaysAreOpen'
  <2>1. \A w \in Users : \A j \in PendingOf(w)' : PendingOf(w)' = {j} /\ member[w] = "NONE"
    BY <1>0, <1>1, <1>3, <1>5 DEF MemberFacts, WaysAreOpen, At
  <2> QED BY <1>1, <2>1 DEF WaysAreOpen
<1>8. AdminsArePromoted'
  <2>1. \A w \in Users : member[w] = "ADMIN" =>
           role[w] # "LEARNER" \/ (w = u /\ req[r].row.role = "ADMIN")
    BY <1>0, <1>1, <1>3 DEF MemberFacts, AdminsArePromoted, Promotes
  <2> QED BY <1>1, <1>2, <1>3, <2>1 DEF AdminsArePromoted, Promotes
<1>9. \A q \in Requests : StaysValid(q)' BY <1>2, <1>3 DEF StaysValid, At
<1> QED BY <1>6, <1>7, <1>8, <1>9 DEF MemberFacts

LEMMA InitialMembers == Init => MemberInvariant
<1> SUFFICES ASSUME Init PROVE MemberInvariant OBVIOUS
<1>1. SeatInvariant BY InitialSeats
<1>2. /\ \A i \in InvitationIds : invitation[i].status = "NONE"
      /\ \A r \in Requests : req[r].at = "idle"
      /\ \A u \in Users : member[u] = "NONE"
      /\ ~exists
  BY NullsHaveTypes DEF Init, NoRow
<1>3. InvitationsAreSound BY <1>2 DEF InvitationsAreSound, Brings, Accepting
<1>4. MembersWereInvited BY <1>2 DEF MembersWereInvited
<1>5. MemberFacts
  BY <1>2 DEF MemberFacts, OwnerComesFirst, Founding, WaysAreOpen, PendingOf, AdminsArePromoted,
              StaysValid, At
<1> QED BY <1>1, <1>3, <1>4, <1>5 DEF MemberInvariant

(* What happens beside the members waits, in this case, for every request.  *)
LEMMA BesideIsSafe ==
  ASSUME MemberInvariant, HappensBeside, Serial',
         \/ Arrives /\ UNCHANGED failures
         \/ UNCHANGED <<overlapped, failures>>
  PROVE  MemberFacts'
<1>1. Serial
  <2>1. CASE Arrives /\ UNCHANGED failures BY <2>1 DEF Serial, Arrives
  <2>2. CASE UNCHANGED <<overlapped, failures>> BY <2>2 DEF Serial
  <2> QED BY <2>1, <2>2
<1>2. MemberFacts BY <1>1 DEF MemberInvariant
<1> QED
  BY <1>2 DEF HappensBeside, MemberFacts, OwnerComesFirst, Founding, WaysAreOpen, PendingOf,
              AdminsArePromoted, Promotes, StaysValid, At

LEMMA StepsKeepMembers == MemberInvariant /\ [Next]_vars => MemberInvariant'
<1> SUFFICES ASSUME MemberInvariant, [Next]_vars PROVE MemberInvariant' OBVIOUS
<1>1. SeatInvariant' BY StepsKeepSeats DEF MemberInvariant
<1>2. InvitationsAreSound' BY StepsKeepInvitationsSound DEF MemberInvariant
<1>3. MembersWereInvited' BY StepsKeepInvited DEF MemberInvariant
<1>4. ASSUME Serial' PROVE MemberFacts'
  <2> USE <1>4
  <2>1. ASSUME NEW r \in Requests, RemoveSeats(r) \/ AssignCount(r) \/ AssignSave(r)
        PROVE  MemberFacts'
    <3>1. req[r].at # "idle" /\ UNCHANGED <<overlapped, failures>>
      BY <2>1 DEF RemoveSeats, AssignCount, AssignSave, At
    <3>2. StaysAway(r) BY <2>1, StayingAway DEF MemberInvariant
    <3> QED BY <3>1, <3>2, AwayIsSafe
  <2>2. ASSUME NEW r \in Requests, NEW actor \in Users \union {Staff}, NEW u \in Users, NEW c \in Courses,
               AssignSeat(r, actor, u, c)
        PROVE  MemberFacts'
    <3>1. Arrives /\ UNCHANGED failures BY <2>2 DEF AssignSeat
    <3>2. StaysAway(r) BY <2>2, StayingAway DEF MemberInvariant
    <3> QED BY <3>1, <3>2, AwayIsSafe
  <2>3. ASSUME NEW r \in Requests, Fail(r) PROVE MemberFacts'
    <3>1. failures \in Nat BY TypesOf, FailureAssumption DEF MemberInvariant
    <3> QED BY <2>3, <3>1 DEF Fail, Serial
  <2>4. CASE \/ \E actor \in Users \union {Staff}, u \in Users, c \in Courses : RevokeSeat(actor, u, c)
             \/ \E k \in PackIds : \/ RemoveSeatPacksByPurchase(k) \/ SeatPackExpires(k)
                                   \/ \E n \in PackSizes, source \in {"MANUAL", "PURCHASE"} :
                                        GrantSeatPack(k, n, source)
    <3>1. Arrives /\ UNCHANGED failures
      BY <2>4 DEF RevokeSeat, RemoveSeatPacksByPurchase, SeatPackExpires, GrantSeatPack
    <3> QED BY <2>4, <3>1, HappeningBeside, BesideIsSafe
  <2>5. CASE UNCHANGED vars
    <3>1. UNCHANGED <<overlapped, failures>> BY <2>5 DEF vars
    <3> QED BY <2>5, <3>1, HappeningBeside, BesideIsSafe
  <2> QED
    BY <2>1, <2>2, <2>3, <2>4, <2>5, CreateIsSafe, CreateMemberIsSafe, PromoteIsSafe,
       RemoveMemberIsSafe, InviteIsSafe, InviteSaveIsSafe, AnswerIsSafe, AcceptInvitationIsSafe,
       AcceptJoinIsSafe, AcceptSaveIsSafe DEF Next
<1> QED BY <1>1, <1>2, <1>3, <1>4 DEF MemberInvariant

LEMMA MembersAlways == Spec => []MemberInvariant
<1> QED BY InitialMembers, StepsKeepMembers, PTL DEF Spec

(* Invitations are the only way into an organization, whatever overlaps;    *)
(* and while its requests do not overlap or fail an address has one        *)
(* pending invitation at most, a member has none, and no admin of the      *)
(* organization is left a learner, whatever roles the accounts came with.  *)
THEOREM MembersAlwaysCameByInvitation == Spec => []MembersCameByInvitation
<1>1. MemberInvariant => MembersCameByInvitation
  <2> SUFFICES ASSUME MemberInvariant PROVE MembersCameByInvitation OBVIOUS
  <2>1. ASSUME Quiet PROVE MemberFacts /\ \A r \in Requests : req[r].at = "idle"
    BY <2>1, NullsHaveTypes DEF Quiet, Under, MemberInvariant, Serial
  <2>2. OneWayIn
    <3> SUFFICES ASSUME Quiet, NEW i \in InvitationIds, invitation[i].status = "PENDING"
                 PROVE  /\ member[invitation[i].email] = "NONE"
                        /\ \A j \in InvitationIds \ {i} :
                             ~ /\ invitation[j].status = "PENDING"
                               /\ invitation[j].email = invitation[i].email
      BY DEF OneWayIn
    <3>1. invitation[i].email \in Users /\ i \in PendingOf(invitation[i].email)
      BY DEF MemberInvariant, InvitationsAreSound, PendingOf
    <3>2. /\ member[invitation[i].email] = "NONE"
          /\ PendingOf(invitation[i].email) = {i}
      BY <2>1, <3>1 DEF MemberFacts, WaysAreOpen, At
    <3> QED BY <3>2 DEF PendingOf
  <2>3. MembersWereInvited BY DEF MemberInvariant
  <2>4. LearnersArePromoted
    BY <2>1 DEF LearnersArePromoted, MemberFacts, OwnerComesFirst, Founding, AdminsArePromoted,
                Promotes, At
  <2> QED BY <2>2, <2>3, <2>4 DEF MembersCameByInvitation
<1> QED BY <1>1, MembersAlways, PTL
=============================================================================
