------------------------------ MODULE Sessions ------------------------------
(***************************************************************************)
(* The sessions of src/auth: families of refresh tokens that logins start  *)
(* and rotations continue (token.service.ts), the one-time codes that      *)
(* reset a password (otp.service.ts), and the requests of auth.service.ts  *)
(* that use them.                                                          *)
(*                                                                         *)
(* Tokens and codes are changed by single statements, but no handler holds *)
(* a transaction from one to the next.  Whether a password or a code       *)
(* matches is an input.  Expiry only refuses more than this and is left    *)
(* out; so is the account, but for whether it is active.                   *)
(***************************************************************************)
EXTENDS Naturals, FiniteSets

CONSTANTS
  Users,
  MaxTokens,      \* a bound for the checker: refresh tokens issued
  MaxCodes,       \* a bound for the checker: codes issued
  MaxIssued,      \* a bound for the checker: tokens and codes together
  OtpMaxAttempts, \* config.otpMaxAttempts
  Requests,       \* the requests the servers handle at the same time
  MaxDisturbances \* a bound for the checker: how often requests overlap or fail

ASSUME BoundAssumption   == {MaxTokens, MaxCodes, MaxIssued, OtpMaxAttempts, MaxDisturbances} \subseteq Nat
ASSUME RequestAssumption == IsFiniteSet(Requests)
ASSUME UserAssumption    == Users # {}

TokenIds == 1..MaxTokens  \* in the order in which they are issued
CodeIds == 1..MaxCodes    \* by created_at

VARIABLES
  active,    \* the accounts that are not suspended
  token,     \* the rows of refresh_tokens
  code,      \* the rows of one_time_codes
  uses,      \* how often each code was consumed
  ended,     \* the accounts whose sessions were all ended, and no login since
  reused,    \* the families a revoked token was presented of
  req, overlaps, failures

rows == <<active, token, code, uses, ended, reused>>
vars == <<rows, req, overlaps, failures>>

(* family is the first token of the family, owner the user.                *)
Token == [status: {"NONE", "LIVE", "REVOKED"}, owner: Users, family: TokenIds]
Code == [status: {"NONE", "OUT", "CONSUMED"}, owner: Users, attempts: Nat]

Places == {"idle", "issue", "issueNext", "retire", "revokeFamily",
           "withdraw", "issueCode", "count", "consume", "update", "revokeAll"}

(* token is the token presented, code the code that was found.             *)
Request == [at: Places, user: Users, token: TokenIds \union {0}, code: CodeIds \union {0},
            strong: BOOLEAN]
NoUser == CHOOSE u \in Users : TRUE
Idle == [at |-> "idle", user |-> NoUser, token |-> 0, code |-> 0, strong |-> TRUE]

Init ==
  /\ active = Users
  /\ token = [t \in TokenIds |-> [status |-> "NONE", owner |-> NoUser, family |-> t]]
  /\ code = [c \in CodeIds |-> [status |-> "NONE", owner |-> NoUser, attempts |-> 0]]
  /\ uses = [c \in CodeIds |-> 0]
  /\ ended = {}
  /\ reused = {}
  /\ req = [r \in Requests |-> Idle]
  /\ overlaps = 0
  /\ failures = 0

(***************************************************************************)
(* Requests.                                                               *)
(***************************************************************************)
At(r, place) == req[r].at = place
Under(r) == req[r].at # "idle"
Finish(r) == req' = [req EXCEPT ![r] = Idle]
Continue(r, place) == req' = [req EXCEPT ![r].at = place]
Undisturbed == overlaps + failures < MaxDisturbances

(* Every first step counts whether a request was under way.                *)
Arrives ==
  /\ \/ /\ \A q \in Requests : ~Under(q)
        /\ UNCHANGED overlaps
     \/ /\ \E q \in Requests : Under(q)
        /\ Undisturbed
        /\ overlaps' = overlaps + 1
  /\ UNCHANGED failures

Starts(r, request) ==
  /\ ~Under(r)
  /\ req' = [req EXCEPT ![r] = request]
  /\ Arrives
  /\ UNCHANGED rows

Goes == UNCHANGED <<overlaps, failures>>

Fail(r) ==
  /\ Under(r)
  /\ Undisturbed
  /\ failures' = failures + 1
  /\ Finish(r)
  /\ UNCHANGED <<rows, overlaps>>

(* An admin suspends the account or lifts the suspension.                  *)
ChangeStatus(u) ==
  /\ active' = IF u \in active THEN active \ {u} ELSE active \union {u}
  /\ Arrives
  /\ UNCHANGED <<token, code, uses, ended, reused, req>>

(***************************************************************************)
(* Refresh tokens.                                                         *)
(***************************************************************************)
Issued == {t \in TokenIds : token[t].status # "NONE"}
Sent == {c \in CodeIds : code[c].status # "NONE"}
MayIssueMore == Cardinality(Issued) + Cardinality(Sent) < MaxIssued
MayIssue == Cardinality(Issued) < MaxTokens /\ MayIssueMore
NextToken == Cardinality(Issued) + 1
OfUser(u) == {t \in Issued : token[t].owner = u}
OfFamily(f) == {t \in Issued : token[t].family = f}
Revoked(ts) ==
  [t \in TokenIds |-> IF t \in ts THEN [token[t] EXCEPT !.status = "REVOKED"] ELSE token[t]]

(* A login starts a family, and so do a signup and a login with Google.     *)
Login(r, u) ==
  /\ u \in active
  /\ MayIssue
  /\ Starts(r, [Idle EXCEPT !.at = "issue", !.user = u])

IssueTokens(u, family) ==
  token' = [token EXCEPT ![NextToken] = [status |-> "LIVE", owner |-> u, family |-> family]]

Issue(r) ==
  LET u == req[r].user IN
  /\ At(r, "issue")
  /\ MayIssue
  /\ IssueTokens(u, NextToken)
  /\ ended' = ended \ {u}
  /\ Finish(r)
  /\ Goes /\ UNCHANGED <<active, code, uses, reused>>

(* rotate: a token that is revoked is a sign of theft.                     *)
Reuse(r, t) ==
  /\ token[t].status = "REVOKED"
  /\ Starts(r, [Idle EXCEPT !.at = "revokeFamily", !.token = t])

MayRotate(t) == token[t].status = "LIVE" /\ token[t].owner \in active

Rotate(r, t) ==
  /\ MayRotate(t)
  /\ MayIssue
  /\ Starts(r, [Idle EXCEPT !.at = "issueNext", !.token = t])

(* Mutant: the family is that of the token issued last, not of the one that *)
(* was presented.                                                          *)
SuccessorFamilyLatest(t) == token[Cardinality(Issued)].family

SuccessorFamily(t) == token[t].family

IssueNext(r) ==
  LET t == req[r].token IN
  /\ At(r, "issueNext")
  /\ MayIssue
  /\ IssueTokens(token[t].owner, SuccessorFamily(t))
  /\ Continue(r, "retire")
  /\ Goes /\ UNCHANGED <<active, code, uses, ended, reused>>

(* Mutant: the presented token stays valid.                                *)
RetiredNone(t) == {}

Retired(t) == {t}

Retire(r) ==
  /\ At(r, "retire")
  /\ token' = Revoked(Retired(req[r].token))
  /\ Finish(r)
  /\ Goes /\ UNCHANGED <<active, code, uses, ended, reused>>

RevokeFamily(r) ==
  LET f == token[req[r].token].family IN
  /\ At(r, "revokeFamily")
  /\ token' = Revoked(OfFamily(f))
  /\ reused' = reused \union {f}
  /\ Finish(r)
  /\ Goes /\ UNCHANGED <<active, code, uses, ended>>

Logout(t) ==
  /\ token[t].status = "LIVE"
  /\ token' = Revoked({t})
  /\ Arrives
  /\ UNCHANGED <<active, code, uses, ended, reused, req>>

AllSessions(u) == OfUser(u)

RevokeAllForUser(u) ==
  /\ token' = Revoked(AllSessions(u))
  /\ ended' = ended \union {u}

LogoutEverywhere(u) ==
  /\ u \in active
  /\ RevokeAllForUser(u)
  /\ Arrives
  /\ UNCHANGED <<active, code, uses, reused, req>>

(***************************************************************************)
(* Passwords and one-time codes.                                           *)
(***************************************************************************)
Outstanding(u) == {c \in Sent : code[c].owner = u /\ code[c].status = "OUT"}
MaySend == Cardinality(Sent) < MaxCodes /\ MayIssueMore

ForgotPassword(r, u) ==
  /\ u \in active
  /\ MaySend
  /\ Starts(r, [Idle EXCEPT !.at = "withdraw", !.user = u])

Withdrawn(u) == Outstanding(u)

WithdrawCodes(r) ==
  /\ At(r, "withdraw")
  /\ code' = [c \in CodeIds |-> IF c \in Withdrawn(req[r].user)
                               THEN [code[c] EXCEPT !.status = "CONSUMED"] ELSE code[c]]
  /\ Continue(r, "issueCode")
  /\ Goes /\ UNCHANGED <<active, token, uses, ended, reused>>

IssueCode(r) ==
  /\ At(r, "issueCode")
  /\ MaySend
  /\ code' = [code EXCEPT ![Cardinality(Sent) + 1] =
       [status |-> "OUT", owner |-> req[r].user, attempts |-> 0]]
  /\ Finish(r)
  /\ Goes /\ UNCHANGED <<active, token, uses, ended, reused>>

MayTry(c) == code[c].attempts < OtpMaxAttempts

(* verifyAndConsume takes the latest outstanding code of the account, which *)
(* need not be active.                                                     *)
ResetPassword(r, u, c, matches, strong) ==
  /\ c \in Outstanding(u)
  /\ \A d \in Outstanding(u) : d <= c
  /\ MayTry(c)
  /\ Starts(r, [Idle EXCEPT !.at = IF matches THEN "consume" ELSE "count", !.user = u,
                            !.code = c, !.strong = strong])

(* increment adds to what the database holds.                         *)
CountAttempt(r) ==
  /\ At(r, "count")
  /\ code' = [code EXCEPT ![req[r].code].attempts = @ + 1]
  /\ Finish(r)
  /\ Goes /\ UNCHANGED <<active, token, uses, ended, reused>>

(* Mutant: the code is not marked as consumed.                             *)
ConsumedNot(c) == code

Consumed(c) == [code EXCEPT ![c].status = "CONSUMED"]

(* The code is consumed before the strength of the new password is checked. *)
ConsumeCode(r) ==
  LET c == req[r].code IN
  /\ At(r, "consume")
  /\ code' = Consumed(c)
  /\ uses' = [uses EXCEPT ![c] = @ + 1]
  /\ \/ req[r].strong /\ req' = [req EXCEPT ![r] = [Idle EXCEPT !.at = "update", !.user = req[r].user]]
     \/ ~req[r].strong /\ Finish(r)
  /\ Goes /\ UNCHANGED <<active, token, ended, reused>>

ChangePassword(r, u) == u \in active /\ Starts(r, [Idle EXCEPT !.at = "update", !.user = u])

(* The new password is saved, then every session is ended.                 *)
UpdatePassword(r) ==
  /\ At(r, "update")
  /\ Continue(r, "revokeAll")
  /\ Goes /\ UNCHANGED rows

RevokeAll(r) ==
  /\ At(r, "revokeAll")
  /\ RevokeAllForUser(req[r].user)
  /\ Finish(r)
  /\ Goes /\ UNCHANGED <<active, code, uses, reused>>

Step(r) ==
  \/ Issue(r) \/ IssueNext(r) \/ Retire(r) \/ RevokeFamily(r)
  \/ WithdrawCodes(r) \/ IssueCode(r) \/ CountAttempt(r) \/ ConsumeCode(r)
  \/ UpdatePassword(r) \/ RevokeAll(r)

Begins(r) ==
  \/ \E u \in Users : Login(r, u) \/ ForgotPassword(r, u) \/ ChangePassword(r, u)
  \/ \E t \in TokenIds : Rotate(r, t) \/ Reuse(r, t)
  \/ \E u \in Users, c \in CodeIds, matches, strong \in BOOLEAN :
       ResetPassword(r, u, c, matches, strong)

Next ==
  \/ \E r \in Requests : Begins(r) \/ Step(r) \/ Fail(r)
  \/ \E t \in TokenIds : Logout(t)
  \/ \E u \in Users : LogoutEverywhere(u) \/ ChangeStatus(u)

Spec == Init /\ [][Next]_vars

-----------------------------------------------------------------------------
(* Nothing is under way, and so far nothing has overlapped or failed.      *)
Quiet == overlaps = 0 /\ failures = 0 /\ \A r \in Requests : ~Under(r)

(* Every token, code and request has a value of its kind: the type          *)
(* invariant of src/auth.                                                  *)
TypeOK ==
  /\ active \subseteq Users
  /\ token \in [TokenIds -> Token]
  /\ code \in [CodeIds -> Code]
  /\ uses \in [CodeIds -> Nat]
  /\ ended \subseteq Users
  /\ reused \subseteq TokenIds
  /\ req \in [Requests -> Request]
  /\ overlaps \in Nat
  /\ failures \in Nat
  /\ \A r \in Requests : At(r, "revokeFamily") => token[req[r].token].status = "REVOKED"

Live == {t \in TokenIds : token[t].status = "LIVE"}

(* Rotation replaces: between requests a family has one live token at most, *)
(* however logins, rotations and logouts follow each other.                *)
OneLiveTokenPerFamily ==
  Quiet => \A t, s \in Live : token[t].family = token[s].family => t = s

(* "Presenting an already revoked token is treated as theft and invalidates *)
(* every token in the family": no token of it is live afterwards, nor one   *)
(* of an account after a new password or a logout everywhere.              *)
EndedSessionsStayEnded ==
  Quiet => \A t \in Live : token[t].owner \notin ended /\ token[t].family \notin reused

(* Whatever overlaps or fails, all tokens of a family belong to one account *)
(* and a family is never started twice.                                    *)
FamiliesHaveOneOwner ==
  \A t \in Issued : token[t].family \in Issued /\ token[token[t].family].owner = token[t].owner
                    /\ token[token[t].family].family = token[t].family

(* issue "invalidates any outstanding codes for the same purpose": between  *)
(* requests one code of an account at most is outstanding.                 *)
OneOutstandingCode == Quiet => \A u \in Users : Cardinality(Outstanding(u)) <= 1

(* "Failed attempts are counted": whatever overlaps, they exceed the limit  *)
(* by less than the number of requests handled at the same time.           *)
Counting(c) == {r \in Requests : At(r, "count") /\ req[r].code = c}
AttemptsAreLimited ==
  OtpMaxAttempts > 0 => \A c \in CodeIds :
    code[c].attempts + Cardinality(Counting(c)) < OtpMaxAttempts + Cardinality(Requests)

(* A code resets one password, unless two requests with it overlap.         *)
CodesAreUsedOnce == Quiet => \A c \in CodeIds : uses[c] <= 1

(* One token continues a session, and none does once it was ended.         *)
SessionsEnd == TypeOK /\ OneLiveTokenPerFamily /\ EndedSessionsStayEnded

(* A one-time code is the only one, is tried a limited number of times,     *)
(* however the tries overlap, and is used once.                            *)
CodesAreLimited == OneOutstandingCode /\ AttemptsAreLimited /\ CodesAreUsedOnce
=============================================================================
