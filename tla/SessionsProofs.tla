--------------------------- MODULE SessionsProofs ---------------------------
(***************************************************************************)
(* Theorems about Sessions, for all accounts, limits and requests and any  *)
(* number of overlaps and failures: types, that a family of tokens belongs *)
(* to one account, and by how much guesses at a code exceed their limit;   *)
(* and, as long as nothing overlaps or fails, that sessions that were ended *)
(* stay ended, and that one code is outstanding and used once.             *)
(***************************************************************************)
EXTENDS Sessions, FiniteSetTheorems, TLAPS

(* Tokens are issued one after the other, and what a request presented was *)
(* issued.                                                                 *)
IssuedInOrder == \E n \in 0..MaxTokens : Issued = 1..n
PresentedWereIssued ==
  \A r \in Requests : req[r].at \in {"issueNext", "retire", "revokeFamily"} => req[r].token \in Issued

TokenInvariant == TypeOK /\ IssuedInOrder /\ PresentedWereIssued /\ FamiliesHaveOneOwner

-----------------------------------------------------------------------------
LEMMA Bounds ==
  /\ MaxTokens \in Nat /\ MaxCodes \in Nat /\ OtpMaxAttempts \in Nat /\ MaxDisturbances \in Nat
  /\ NoUser \in Users
<1>1. NoUser \in Users BY UserAssumption DEF NoUser
<1> QED BY <1>1, BoundAssumption

LEMMA IdleIsRequest == Idle \in Request /\ Idle.at = "idle"
BY Bounds DEF Idle, Request, Places

(* The next token is a new one, and the order is kept.                     *)
LEMMA NextTokenIsNew ==
  ASSUME IssuedInOrder, MayIssue
  PROVE  /\ NextToken \in TokenIds
         /\ NextToken \notin Issued
         /\ \E n \in 0..MaxTokens : Issued \union {NextToken} = 1..n
<1>1. PICK n \in 0..MaxTokens : Issued = 1..n BY DEF IssuedInOrder
<1>2. n \in Nat BY <1>1, Bounds
<1>3. Cardinality(Issued) = n BY <1>1, <1>2, FS_Interval
<1>4. n < MaxTokens /\ NextToken = n + 1 BY <1>3 DEF MayIssue, NextToken
<1>5. n + 1 \in 0..MaxTokens /\ n + 1 \in TokenIds /\ n + 1 \notin Issued
  BY <1>1, <1>2, <1>4, Bounds DEF TokenIds
<1>6. Issued \union {n + 1} = 1..(n + 1) BY <1>1, <1>2
<1> QED BY <1>4, <1>5, <1>6

(* Revoking keeps owners and families, and what was issued.                *)
LEMMA RevokingKeeps ==
  ASSUME TokenInvariant, NEW ts \in SUBSET Issued, token' = Revoked(ts)
  PROVE  /\ token' \in [TokenIds -> Token]
         /\ Issued' = Issued
         /\ IssuedInOrder' /\ FamiliesHaveOneOwner'
         /\ \A t \in TokenIds : token[t].status = "REVOKED" => token'[t].status = "REVOKED"
<1>1. token \in [TokenIds -> Token] BY DEF TokenInvariant, TypeOK
<1>2. ASSUME NEW t \in TokenIds
      PROVE  /\ token'[t] \in Token
             /\ token'[t].owner = token[t].owner /\ token'[t].family = token[t].family
             /\ token'[t].status = IF t \in ts THEN "REVOKED" ELSE token[t].status
  <2>1. token[t] \in Token BY <1>1
  <2>2. token'[t] = IF t \in ts THEN [token[t] EXCEPT !.status = "REVOKED"] ELSE token[t]
    BY DEF Revoked
  <2> QED BY <2>1, <2>2 DEF Token
<1>3. token' \in [TokenIds -> Token]
  <2>1. token' = [t \in TokenIds |-> token'[t]] BY DEF Revoked
  <2> QED BY <1>2, <2>1
<1>4. Issued' = Issued BY <1>2 DEF Issued
<1>5. IssuedInOrder' BY <1>4 DEF TokenInvariant, IssuedInOrder
<1>6. FamiliesHaveOneOwner'
  <2>1. Issued \subseteq TokenIds BY DEF Issued
  <2> QED BY <1>2, <1>4, <2>1 DEF TokenInvariant, FamiliesHaveOneOwner
<1> QED BY <1>2, <1>3, <1>4, <1>5, <1>6

(* A token is issued in a family of its owner, or starts one.               *)
LEMMA IssuingKeeps ==
  ASSUME TokenInvariant, MayIssue, NEW u \in Users, NEW f,
         IssueTokens(u, f),
         \/ f = NextToken
         \/ f \in Issued /\ token[f].owner = u /\ token[f].family = f
  PROVE  /\ token' \in [TokenIds -> Token]
         /\ Issued' = Issued \union {NextToken}
         /\ IssuedInOrder' /\ FamiliesHaveOneOwner'
         /\ \A t \in TokenIds : token[t].status = "REVOKED" => token'[t].status = "REVOKED"
<1> DEFINE n == NextToken
           row == [status |-> "LIVE", owner |-> u, family |-> f]
<1>1. token \in [TokenIds -> Token] BY DEF TokenInvariant, TypeOK
<1>2. /\ n \in TokenIds /\ n \notin Issued
      /\ \E k \in 0..MaxTokens : Issued \union {n} = 1..k
  BY NextTokenIsNew DEF TokenInvariant
<1>3. token' = [token EXCEPT ![n] = row] BY DEF IssueTokens
<1>4. Issued \subseteq TokenIds /\ f \in TokenIds BY <1>2 DEF Issued
<1> HIDE DEF n
<1>5. row \in Token BY <1>4 DEF Token
<1>6. token' \in [TokenIds -> Token] BY <1>1, <1>3, <1>5
<1>7. \A t \in TokenIds : token'[t] = IF t = n THEN row ELSE token[t] BY <1>1, <1>3
<1>8. Issued' = Issued \union {n} BY <1>2, <1>7 DEF Issued
<1>9. IssuedInOrder' BY <1>2, <1>8 DEF IssuedInOrder
<1>10. FamiliesHaveOneOwner'
  <2> SUFFICES ASSUME NEW t \in Issued \union {n}
               PROVE  /\ token'[t].family \in Issued'
                      /\ token'[token'[t].family].owner = token'[t].owner
                      /\ token'[token'[t].family].family = token'[t].family
    BY <1>8 DEF FamiliesHaveOneOwner
  <2>1. CASE t = n
    <3>1. token'[t].family = f /\ token'[t].owner = u BY <1>2, <1>7, <2>1
    <3>2. CASE f = n BY <1>2, <1>7, <1>8, <3>1, <3>2
    <3>3. CASE f \in Issued /\ token[f].owner = u /\ token[f].family = f
      BY <1>2, <1>4, <1>7, <1>8, <3>1, <3>3
    <3> QED BY <3>2, <3>3 DEF n
  <2>2. CASE t # n
    <3>1. t \in Issued /\ token'[t] = token[t] BY <1>4, <1>7, <2>2
    <3>2. /\ token[t].family \in Issued
          /\ token[token[t].family].owner = token[t].owner
          /\ token[token[t].family].family = token[t].family
      BY <3>1 DEF TokenInvariant, FamiliesHaveOneOwner
    <3> QED BY <1>2, <1>4, <1>7, <1>8, <3>1, <3>2
  <2> QED BY <2>1, <2>2
<1>11. \A t \in TokenIds : token[t].status = "REVOKED" => token'[t].status = "REVOKED"
  BY <1>2, <1>7 DEF Issued
<1> QED BY <1>6, <1>8, <1>9, <1>10, <1>11 DEF n

-----------------------------------------------------------------------------
(* What a request may hold.                                                *)
Sound(request) ==
  /\ request \in Request
  /\ request.at \in {"issueNext", "retire", "revokeFamily"} => request.token \in Issued
  /\ request.at = "revokeFamily" => token[request.token].status = "REVOKED"

LEMMA RequestsAreSound ==
  ASSUME TokenInvariant
  PROVE  /\ req \in [Requests -> Request]
         /\ \A r \in Requests : Sound(req[r])
BY DEF TokenInvariant, TypeOK, PresentedWereIssued, Sound, At

(* A step changes one request and tokens in one of the two ways, and other *)
(* variables within their types.                                           *)
LEMMA StepKeeps ==
  ASSUME TokenInvariant, NEW r \in Requests, NEW request, Sound(request),
         req' = [req EXCEPT ![r] = request],
         token' \in [TokenIds -> Token], Issued \subseteq Issued',
         IssuedInOrder', FamiliesHaveOneOwner',
         \A t \in TokenIds : token[t].status = "REVOKED" => token'[t].status = "REVOKED",
         active' \subseteq Users, code' \in [CodeIds -> Code], uses' \in [CodeIds -> Nat],
         ended' \subseteq Users, reused' \subseteq TokenIds,
         overlaps' \in Nat, failures' \in Nat
  PROVE  TokenInvariant'
<1>1. req' \in [Requests -> Request] BY RequestsAreSound DEF Sound
<1>2. \A q \in Requests : Sound(req'[q]) BY RequestsAreSound
<1>3. Issued \subseteq TokenIds BY DEF Issued
<1>4. PresentedWereIssued' BY <1>2 DEF PresentedWereIssued, Sound
<1>5. ASSUME NEW q \in Requests, req'[q].at = "revokeFamily"
      PROVE  token'[req'[q].token].status = "REVOKED"
  BY <1>2, <1>3, <1>5 DEF Sound
<1>6. TypeOK' BY <1>1, <1>5 DEF TypeOK, At
<1> QED BY <1>4, <1>6 DEF TokenInvariant

(* The common cases: no token changes; tokens are revoked.                  *)
LEMMA TokensStay ==
  ASSUME TokenInvariant, NEW r \in Requests, NEW request, Sound(request),
         req' = [req EXCEPT ![r] = request], UNCHANGED <<active, token, ended, reused>>,
         code' \in [CodeIds -> Code], uses' \in [CodeIds -> Nat],
         overlaps' \in Nat, failures' \in Nat
  PROVE  TokenInvariant'
<1>1. /\ token' \in [TokenIds -> Token] /\ active' \subseteq Users /\ ended' \subseteq Users
      /\ reused' \subseteq TokenIds
      /\ \A t \in TokenIds : token[t].status = "REVOKED" => token'[t].status = "REVOKED"
  BY DEF TokenInvariant, TypeOK
<1>2. Issued' = Issued BY DEF Issued
<1>3. IssuedInOrder' BY <1>2 DEF TokenInvariant, IssuedInOrder
<1>4. FamiliesHaveOneOwner' BY <1>2 DEF TokenInvariant, FamiliesHaveOneOwner
<1> QED BY <1>1, <1>2, <1>3, <1>4, StepKeeps

LEMMA TokensRevoked ==
  ASSUME TokenInvariant, NEW r \in Requests, NEW ts \in SUBSET Issued, token' = Revoked(ts),
         Finish(r), UNCHANGED <<active, code, uses, overlaps, failures>>,
         ended' \subseteq Users, reused' \subseteq TokenIds
  PROVE  TokenInvariant'
<1>1. req' = [req EXCEPT ![r] = Idle] BY DEF Finish
<1>2. Sound(Idle) BY IdleIsRequest DEF Sound
<1>3. /\ active' \subseteq Users /\ code' \in [CodeIds -> Code] /\ uses' \in [CodeIds -> Nat]
      /\ overlaps' \in Nat /\ failures' \in Nat
  BY DEF TokenInvariant, TypeOK
<1> QED BY <1>1, <1>2, <1>3, RevokingKeeps, StepKeeps

LEMMA StartsKeep ==
  ASSUME TokenInvariant, NEW r \in Requests, NEW request, Sound(request), Starts(r, request)
  PROVE  TokenInvariant'
<1>1. /\ req' = [req EXCEPT ![r] = request]
      /\ UNCHANGED <<active, token, code, uses, ended, reused>>
      /\ overlaps' \in Nat /\ failures' \in Nat
  BY DEF Starts, Arrives, rows, TokenInvariant, TypeOK
<1> QED BY <1>1, TokensStay DEF TokenInvariant, TypeOK

-----------------------------------------------------------------------------
LEMMA BeginsKeeps ==
  ASSUME TokenInvariant, NEW r \in Requests, Begins(r)
  PROVE  TokenInvariant'
<1> USE Bounds
<1>1. ASSUME NEW u \in Users, Login(r, u) PROVE TokenInvariant'
  <2> DEFINE request == [Idle EXCEPT !.at = "issue", !.user = u]
  <2>1. Sound(request) BY DEF Idle, Request, Places, Sound
  <2>2. Starts(r, request) BY <1>1 DEF Login
  <2> HIDE DEF request
  <2> QED BY <2>1, <2>2, StartsKeep
<1>2. ASSUME NEW u \in Users, ForgotPassword(r, u) PROVE TokenInvariant'
  <2> DEFINE request == [Idle EXCEPT !.at = "withdraw", !.user = u]
  <2>1. Sound(request) BY DEF Idle, Request, Places, Sound
  <2>2. Starts(r, request) BY <1>2 DEF ForgotPassword
  <2> HIDE DEF request
  <2> QED BY <2>1, <2>2, StartsKeep
<1>3. ASSUME NEW u \in Users, ChangePassword(r, u) PROVE TokenInvariant'
  <2> DEFINE request == [Idle EXCEPT !.at = "update", !.user = u]
  <2>1. Sound(request) BY DEF Idle, Request, Places, Sound
  <2>2. Starts(r, request) BY <1>3 DEF ChangePassword
  <2> HIDE DEF request
  <2> QED BY <2>1, <2>2, StartsKeep
<1>4. ASSUME NEW t \in TokenIds, Rotate(r, t) PROVE TokenInvariant'
  <2> DEFINE request == [Idle EXCEPT !.at = "issueNext", !.token = t]
  <2>1. t \in Issued BY <1>4 DEF Rotate, MayRotate, Issued
  <2>2. Sound(request) BY <2>1 DEF Idle, Request, Places, Sound
  <2>3. Starts(r, request) BY <1>4 DEF Rotate
  <2> HIDE DEF request
  <2> QED BY <2>2, <2>3, StartsKeep
<1>5. ASSUME NEW t \in TokenIds, Reuse(r, t) PROVE TokenInvariant'
  <2> DEFINE request == [Idle EXCEPT !.at = "revokeFamily", !.token = t]
  <2>1. t \in Issued /\ token[t].status = "REVOKED" BY <1>5 DEF Reuse, Issued
  <2>2. Sound(request) BY <2>1 DEF Idle, Request, Places, Sound
  <2>3. Starts(r, request) BY <1>5 DEF Reuse
  <2> HIDE DEF request
  <2> QED BY <2>2, <2>3, StartsKeep
<1>6. ASSUME NEW u \in Users, NEW c \in CodeIds, NEW matches \in BOOLEAN, NEW strong \in BOOLEAN,
             ResetPassword(r, u, c, matches, strong)
      PROVE  TokenInvariant'
  <2> DEFINE place == IF matches THEN "consume" ELSE "count"
             request == [Idle EXCEPT !.at = place, !.user = u, !.code = c, !.strong = strong]
  <2>1. place \in {"consume", "count"} OBVIOUS
  <2>2. Starts(r, request) BY <1>6 DEF ResetPassword
  <2> HIDE DEF place
  <2>3. Sound(request) BY <2>1 DEF Idle, Request, Places, Sound
  <2> HIDE DEF request
  <2> QED BY <2>2, <2>3, StartsKeep
<1> QED BY <1>1, <1>2, <1>3, <1>4, <1>5, <1>6 DEF Begins

(* A request goes on to another place with what it holds.                  *)
LEMMA GoingOnIsSound ==
  ASSUME TokenInvariant, NEW r \in Requests, NEW place \in Places,
         Continue(r, place),
         place \in {"issueNext", "retire", "revokeFamily"} => req[r].token \in Issued,
         place # "revokeFamily"
  PROVE  /\ req' = [req EXCEPT ![r] = [req[r] EXCEPT !.at = place]]
         /\ Sound([req[r] EXCEPT !.at = place])
<1>1. req[r] \in Request BY RequestsAreSound
<1>2. Sound([req[r] EXCEPT !.at = place]) BY <1>1 DEF Request, Sound
<1> QED BY <1>2 DEF Continue

LEMMA TokenStepsKeep ==
  ASSUME TokenInvariant, NEW r \in Requests,
         Issue(r) \/ IssueNext(r) \/ Retire(r) \/ RevokeFamily(r) \/ RevokeAll(r)
  PROVE  TokenInvariant'
<1>1. /\ req[r] \in Request /\ Sound(req[r]) /\ req[r].user \in Users
      /\ Sound(Idle) /\ Issued \subseteq TokenIds
  BY RequestsAreSound, IdleIsRequest DEF Sound, Request, Issued
<1>2. /\ active \subseteq Users /\ code \in [CodeIds -> Code] /\ uses \in [CodeIds -> Nat]
      /\ ended \subseteq Users /\ reused \subseteq TokenIds
      /\ overlaps \in Nat /\ failures \in Nat /\ token \in [TokenIds -> Token]
  BY DEF TokenInvariant, TypeOK
<1>3. CASE Issue(r)
  <2>1. /\ token' \in [TokenIds -> Token] /\ Issued' = Issued \union {NextToken}
        /\ IssuedInOrder' /\ FamiliesHaveOneOwner'
        /\ \A t \in TokenIds : token[t].status = "REVOKED" => token'[t].status = "REVOKED"
    BY <1>1, <1>3, IssuingKeeps DEF Issue
  <2>2. /\ req' = [req EXCEPT ![r] = Idle] /\ ended' \subseteq Users
        /\ UNCHANGED <<active, code, uses, reused, overlaps, failures>>
    BY <1>2, <1>3 DEF Issue, Finish, Goes
  <2> QED BY <1>1, <1>2, <2>1, <2>2, StepKeeps
<1>4. CASE IssueNext(r)
  <2> DEFINE t == req[r].token
             f == token[t].family
  <2>1. t \in Issued /\ MayIssue BY <1>1, <1>4 DEF IssueNext, At, Sound
  <2>2. f \in Issued /\ token[f].owner = token[t].owner /\ token[f].family = f
    BY <2>1 DEF TokenInvariant, FamiliesHaveOneOwner
  <2>3. token[t].owner \in Users BY <1>1, <1>2, <2>1 DEF Token
  <2>4. IssueTokens(token[t].owner, f) BY <1>4 DEF IssueNext, SuccessorFamily
  <2>5. Continue(r, "retire") BY <1>4 DEF IssueNext
  <2>6. /\ req' = [req EXCEPT ![r] = [req[r] EXCEPT !.at = "retire"]]
        /\ Sound([req[r] EXCEPT !.at = "retire"])
    BY <2>1, <2>5, GoingOnIsSound DEF Places
  <2>7. UNCHANGED <<active, code, uses, ended, reused, overlaps, failures>>
    BY <1>4 DEF IssueNext, Goes
  <2> HIDE DEF t, f
  <2>8. /\ token' \in [TokenIds -> Token] /\ Issued' = Issued \union {NextToken}
        /\ IssuedInOrder' /\ FamiliesHaveOneOwner'
        /\ \A s \in TokenIds : token[s].status = "REVOKED" => token'[s].status = "REVOKED"
    BY <2>1, <2>2, <2>3, <2>4, IssuingKeeps
  <2> QED BY <1>2, <2>6, <2>7, <2>8, StepKeeps
<1>5. CASE Retire(r)
  <2>1. {req[r].token} \in SUBSET Issued BY <1>1, <1>5 DEF Retire, At, Sound
  <2> QED BY <1>2, <1>5, <2>1, TokensRevoked DEF Retire, Retired, Goes
<1>6. CASE RevokeFamily(r)
  <2> DEFINE f == token[req[r].token].family
  <2>1. f \in TokenIds
    <3>1. req[r].token \in TokenIds BY <1>1, <1>6 DEF RevokeFamily, At, Sound
    <3> QED BY <1>2, <3>1 DEF Token
  <2>2. OfFamily(f) \in SUBSET Issued BY DEF OfFamily
  <2>3. /\ token' = Revoked(OfFamily(f)) /\ reused' = reused \union {f} /\ Finish(r)
        /\ UNCHANGED <<active, code, uses, ended, overlaps, failures>>
    BY <1>6 DEF RevokeFamily, Goes
  <2> HIDE DEF f
  <2> QED BY <1>2, <2>1, <2>2, <2>3, TokensRevoked
<1>7. CASE RevokeAll(r)
  <2>1. OfUser(req[r].user) \in SUBSET Issued BY DEF OfUser
  <2>2. /\ token' = Revoked(OfUser(req[r].user)) /\ ended' = ended \union {req[r].user} /\ Finish(r)
        /\ UNCHANGED <<active, code, uses, reused, overlaps, failures>>
    BY <1>7 DEF RevokeAll, RevokeAllForUser, AllSessions, Goes
  <2> QED BY <1>1, <1>2, <2>1, <2>2, TokensRevoked
<1> QED BY <1>3, <1>4, <1>5, <1>6, <1>7

LEMMA CodeStepsKeep ==
  ASSUME TokenInvariant, NEW r \in Requests,
         WithdrawCodes(r) \/ IssueCode(r) \/ CountAttempt(r) \/ ConsumeCode(r)
           \/ UpdatePassword(r) \/ Fail(r)
  PROVE  TokenInvariant'
<1>1. /\ req[r] \in Request /\ req[r].user \in Users /\ Sound(Idle)
      /\ code \in [CodeIds -> Code] /\ uses \in [CodeIds -> Nat]
      /\ overlaps \in Nat /\ failures \in Nat
  BY RequestsAreSound, IdleIsRequest DEF Sound, Request, TokenInvariant, TypeOK
<1>2. CASE WithdrawCodes(r)
  <2>1. /\ Continue(r, "issueCode") /\ UNCHANGED <<active, token, uses, ended, reused, overlaps, failures>>
        /\ code' = [c \in CodeIds |-> IF c \in Withdrawn(req[r].user)
                                     THEN [code[c] EXCEPT !.status = "CONSUMED"] ELSE code[c]]
    BY <1>2 DEF WithdrawCodes, Goes
  <2>2. \A c \in CodeIds : [code[c] EXCEPT !.status = "CONSUMED"] \in Code /\ code[c] \in Code
    BY <1>1 DEF Code
  <2>3. code' \in [CodeIds -> Code] BY <2>1, <2>2
  <2>4. /\ req' = [req EXCEPT ![r] = [req[r] EXCEPT !.at = "issueCode"]]
        /\ Sound([req[r] EXCEPT !.at = "issueCode"])
    BY <2>1, GoingOnIsSound DEF Places
  <2> QED BY <1>1, <2>1, <2>3, <2>4, TokensStay
<1>3. CASE IssueCode(r)
  <2> DEFINE row == [status |-> "OUT", owner |-> req[r].user, attempts |-> 0]
  <2>1. row \in Code BY <1>1 DEF Code
  <2>2. /\ req' = [req EXCEPT ![r] = Idle]
        /\ code' = [code EXCEPT ![Cardinality(Sent) + 1] = row]
        /\ UNCHANGED <<active, token, uses, ended, reused, overlaps, failures>>
    BY <1>3 DEF IssueCode, Finish, Goes
  <2> HIDE DEF row
  <2>3. code' \in [CodeIds -> Code] BY <1>1, <2>1, <2>2
  <2> QED BY <1>1, <2>2, <2>3, TokensStay
<1>4. CASE CountAttempt(r)
  <2> DEFINE c == req[r].code
             row == [code[c] EXCEPT !.attempts = @ + 1]
  <2>1. /\ req' = [req EXCEPT ![r] = Idle]
        /\ code' = [code EXCEPT ![c] = row]
        /\ UNCHANGED <<active, token, uses, ended, reused, overlaps, failures>>
    BY <1>4 DEF CountAttempt, Finish, Goes
  <2>2. c \in CodeIds => row \in Code BY <1>1 DEF Code
  <2> HIDE DEF row, c
  <2>3. code' \in [CodeIds -> Code] BY <1>1, <2>1, <2>2
  <2> QED BY <1>1, <2>1, <2>3, TokensStay
<1>5. CASE ConsumeCode(r)
  <2> DEFINE c == req[r].code
             row == [code[c] EXCEPT !.status = "CONSUMED"]
             next == [Idle EXCEPT !.at = "update", !.user = req[r].user]
  <2>1. /\ code' = [code EXCEPT ![c] = row]
        /\ uses' = [uses EXCEPT ![c] = uses[c] + 1]
        /\ UNCHANGED <<active, token, ended, reused, overlaps, failures>>
    BY <1>5 DEF ConsumeCode, Consumed, Goes
  <2>2. req' = [req EXCEPT ![r] = next] \/ req' = [req EXCEPT ![r] = Idle]
    BY <1>5 DEF ConsumeCode, Finish
  <2>3. Sound(next) BY <1>1, Bounds DEF Idle, Request, Places, Sound
  <2>4. c \in CodeIds => row \in Code BY <1>1 DEF Code
  <2> HIDE DEF row, c, next
  <2>5. code' \in [CodeIds -> Code] BY <1>1, <2>1, <2>4
  <2>6. uses' \in [CodeIds -> Nat]
    <3>1. CASE c \in CodeIds BY <1>1, <2>1, <3>1
    <3>2. CASE c \notin CodeIds BY <1>1, <2>1, <3>2
    <3> QED BY <3>1, <3>2
  <2>7. CASE req' = [req EXCEPT ![r] = next] BY <1>1, <2>1, <2>3, <2>5, <2>6, <2>7, TokensStay
  <2>8. CASE req' = [req EXCEPT ![r] = Idle] BY <1>1, <2>1, <2>5, <2>6, <2>8, TokensStay
  <2> QED BY <2>2, <2>7, <2>8
<1>6. CASE UpdatePassword(r)
  <2>1. Continue(r, "revokeAll") /\ UNCHANGED <<rows, overlaps, failures>>
    BY <1>6 DEF UpdatePassword, Goes
  <2>2. /\ req' = [req EXCEPT ![r] = [req[r] EXCEPT !.at = "revokeAll"]]
        /\ Sound([req[r] EXCEPT !.at = "revokeAll"])
    BY <2>1, GoingOnIsSound DEF Places
  <2> QED BY <1>1, <2>1, <2>2, TokensStay DEF rows
<1>7. CASE Fail(r)
  <2>1. /\ req' = [req EXCEPT ![r] = Idle] /\ failures' \in Nat
        /\ UNCHANGED <<active, token, code, uses, ended, reused, overlaps>>
    BY <1>1, <1>7 DEF Fail, Finish, rows
  <2> QED BY <1>1, <2>1, TokensStay
<1> QED BY <1>2, <1>3, <1>4, <1>5, <1>6, <1>7

(* What happens in one statement, beside the requests.                      *)
LEMMA BesideKeeps ==
  ASSUME TokenInvariant, NEW ts \in SUBSET Issued,
         token' = Revoked(ts) \/ UNCHANGED token,
         UNCHANGED <<code, uses, reused, req>>, active' \subseteq Users, ended' \subseteq Users,
         overlaps' \in Nat, failures' \in Nat
  PROVE  TokenInvariant'
<1>1. /\ token' \in [TokenIds -> Token] /\ Issued' = Issued
      /\ IssuedInOrder' /\ FamiliesHaveOneOwner'
      /\ \A t \in TokenIds : token[t].status = "REVOKED" => token'[t].status = "REVOKED"
  <2>1. CASE token' = Revoked(ts) BY <2>1, RevokingKeeps
  <2>2. CASE UNCHANGED token
    BY <2>2 DEF TokenInvariant, TypeOK, Issued, IssuedInOrder, FamiliesHaveOneOwner
  <2> QED BY <2>1, <2>2
<1>2. Issued \subseteq TokenIds BY DEF Issued
<1>3. PresentedWereIssued' BY <1>1 DEF TokenInvariant, PresentedWereIssued
<1>4. ASSUME NEW q \in Requests, req'[q].at = "revokeFamily"
      PROVE  token'[req'[q].token].status = "REVOKED"
  BY <1>1, <1>2, <1>4, RequestsAreSound DEF Sound
<1>5. TypeOK' BY <1>1, <1>4 DEF TokenInvariant, TypeOK, At
<1> QED BY <1>1, <1>3, <1>5 DEF TokenInvariant

-----------------------------------------------------------------------------
LEMMA InitialTokens == Init => TokenInvariant
<1> SUFFICES ASSUME Init PROVE TokenInvariant OBVIOUS
<1>1. \A t \in TokenIds : [status |-> "NONE", owner |-> NoUser, family |-> t] \in Token
  BY Bounds DEF Token
<1>2. \A c \in CodeIds : [status |-> "NONE", owner |-> NoUser, attempts |-> 0] \in Code
  BY Bounds DEF Code
<1>3. TypeOK BY <1>1, <1>2, IdleIsRequest DEF Init, TypeOK, At
<1>4. Issued = {} BY DEF Init, Issued
<1>5. IssuedInOrder
  <2>1. 0 \in 0..MaxTokens /\ 1..0 = {} BY Bounds
  <2> QED BY <1>4, <2>1 DEF IssuedInOrder
<1>6. FamiliesHaveOneOwner BY <1>4 DEF FamiliesHaveOneOwner
<1>7. PresentedWereIssued BY IdleIsRequest DEF Init, PresentedWereIssued
<1> QED BY <1>3, <1>5, <1>6, <1>7 DEF TokenInvariant

LEMMA StepsKeepTokens == TokenInvariant /\ [Next]_vars => TokenInvariant'
<1> SUFFICES ASSUME TokenInvariant, [Next]_vars PROVE TokenInvariant' OBVIOUS
<1>1. ASSUME NEW r \in Requests, Begins(r) \/ Step(r) \/ Fail(r) PROVE TokenInvariant'
  BY <1>1, BeginsKeeps, TokenStepsKeep, CodeStepsKeep DEF Step
<1>2. ASSUME NEW t \in TokenIds, Logout(t) PROVE TokenInvariant'
  <2>1. {t} \in SUBSET Issued BY <1>2 DEF Logout, Issued
  <2>2. /\ token' = Revoked({t}) /\ UNCHANGED <<active, code, uses, ended, reused, req>>
        /\ overlaps' \in Nat /\ failures' \in Nat
    BY <1>2 DEF Logout, Arrives, TokenInvariant, TypeOK
  <2> QED BY <2>1, <2>2, BesideKeeps DEF TokenInvariant, TypeOK
<1>3. ASSUME NEW u \in Users, LogoutEverywhere(u) PROVE TokenInvariant'
  <2>1. OfUser(u) \in SUBSET Issued BY DEF OfUser
  <2>2. /\ token' = Revoked(OfUser(u)) /\ ended' = ended \union {u}
        /\ UNCHANGED <<active, code, uses, reused, req>>
        /\ overlaps' \in Nat /\ failures' \in Nat
    BY <1>3 DEF LogoutEverywhere, RevokeAllForUser, AllSessions, Arrives, TokenInvariant, TypeOK
  <2> QED BY <2>1, <2>2, BesideKeeps DEF TokenInvariant, TypeOK
<1>4. ASSUME NEW u \in Users, ChangeStatus(u) PROVE TokenInvariant'
  <2>1. /\ UNCHANGED <<token, code, uses, ended, reused, req>> /\ active' \subseteq Users
        /\ overlaps' \in Nat /\ failures' \in Nat
    BY <1>4 DEF ChangeStatus, Arrives, TokenInvariant, TypeOK
  <2>2. {} \in SUBSET Issued OBVIOUS
  <2> QED BY <2>1, <2>2, BesideKeeps DEF TokenInvariant, TypeOK
<1>5. CASE UNCHANGED vars
  <2>1. UNCHANGED <<active, token, code, uses, ended, reused, req, overlaps, failures>>
    BY <1>5 DEF vars, rows
  <2>2. {} \in SUBSET Issued OBVIOUS
  <2> QED BY <2>1, <2>2, BesideKeeps DEF TokenInvariant, TypeOK
<1> QED BY <1>1, <1>2, <1>3, <1>4, <1>5 DEF Next

LEMMA TokensAlways == Spec => []TokenInvariant
BY InitialTokens, StepsKeepTokens, PTL DEF Spec

(* Every row and request has its type, and who revokes a family presented  *)
(* a token that is revoked.                                                *)
THEOREM TypeCorrect == Spec => []TypeOK
<1>1. TokenInvariant => TypeOK BY DEF TokenInvariant
<1> QED BY <1>1, TokensAlways, PTL

(* Whatever overlaps or fails, all tokens of a family belong to one account *)
(* and no family is started twice: revoking a family never signs another   *)
(* account out.                                                            *)
THEOREM FamiliesBelongToOneAccount == Spec => []FamiliesHaveOneOwner
<1>1. TokenInvariant => FamiliesHaveOneOwner BY DEF TokenInvariant
<1> QED BY <1>1, TokensAlways, PTL

-----------------------------------------------------------------------------
(* How often a code was tried and is being tried.                          *)
Tried(c) == code[c].attempts + Cardinality(Counting(c))

LEMMA CountingIsFinite ==
  ASSUME NEW c
  PROVE  /\ IsFiniteSet(Counting(c)) /\ Cardinality(Counting(c)) \in Nat
         /\ Cardinality(Requests) \in Nat
<1>1. Counting(c) \subseteq Requests BY DEF Counting
<1> QED BY <1>1, RequestAssumption, FS_Subset, FS_CardinalityType

(* Most steps count nothing and begin no guess.                            *)
LEMMA NotCounting ==
  ASSUME TokenInvariant, TokenInvariant', NEW c \in CodeIds,
         code'[c].attempts <= code[c].attempts,
         Counting(c)' \subseteq Counting(c)
  PROVE  Tried(c)' <= Tried(c)
<1>1. /\ Cardinality(Counting(c)') <= Cardinality(Counting(c))
      /\ Cardinality(Counting(c)') \in Nat
  BY CountingIsFinite, FS_Subset, FS_CardinalityType
<1>2. code[c].attempts \in Nat /\ code'[c].attempts \in Nat
  BY DEF TokenInvariant, TypeOK, Code
<1>3. Tried(c)' = code'[c].attempts + Cardinality(Counting(c)') BY DEF Tried
<1> HIDE DEF Counting
<1> QED BY <1>1, <1>2, <1>3, CountingIsFinite DEF Tried

(* A guess at the code begins only while attempts are left.                *)
LEMMA GuessBegins ==
  ASSUME TokenInvariant, NEW r \in Requests, NEW u \in Users, NEW c \in CodeIds,
         NEW strong \in BOOLEAN, ResetPassword(r, u, c, FALSE, strong)
  PROVE  Tried(c)' < OtpMaxAttempts + Cardinality(Requests)
<1>1. /\ ~Under(r) /\ UNCHANGED code /\ code[c].attempts < OtpMaxAttempts
      /\ req' = [req EXCEPT ![r] = [Idle EXCEPT !.at = "count", !.user = u, !.code = c,
                                                !.strong = strong]]
  BY DEF ResetPassword, Starts, rows, MayTry
<1>2. Counting(c)' \subseteq Requests BY DEF Counting
<1>3. Cardinality(Counting(c)') <= Cardinality(Requests) /\ Cardinality(Counting(c)') \in Nat
  BY <1>2, RequestAssumption, FS_Subset, FS_CardinalityType
<1>4. code[c].attempts \in Nat BY DEF TokenInvariant, TypeOK, Code
<1>5. Tried(c)' = code[c].attempts + Cardinality(Counting(c)') BY <1>1 DEF Tried
<1> HIDE DEF Counting
<1> QED BY <1>1, <1>3, <1>4, <1>5, CountingIsFinite, Bounds

(* A guess that failed is added to the attempts and no longer counting.     *)
LEMMA GuessCounts ==
  ASSUME TokenInvariant, NEW r \in Requests, NEW c \in CodeIds, CountAttempt(r), req[r].code = c
  PROVE  Tried(c)' = Tried(c)
<1>1. /\ req[r].at = "count" /\ req' = [req EXCEPT ![r] = Idle]
      /\ code' = [code EXCEPT ![c].attempts = @ + 1]
      /\ req \in [Requests -> Request] /\ code \in [CodeIds -> Code]
  BY DEF CountAttempt, At, Finish, TokenInvariant, TypeOK
<1>2. r \in Counting(c) BY <1>1 DEF Counting, At
<1>3. Counting(c)' = Counting(c) \ {r}
  <2>1. \A q \in Requests : req'[q] = IF q = r THEN Idle ELSE req[q] BY <1>1
  <2>2. Counting(c)' = {q \in Requests : req'[q].at = "count" /\ req'[q].code = c}
    BY DEF Counting, At
  <2> QED BY <2>1, <2>2, IdleIsRequest DEF Counting, At
<1>4. Cardinality(Counting(c)') = Cardinality(Counting(c)) - 1
  <2>1. IsFiniteSet(Counting(c)) BY CountingIsFinite
  <2>2. \A S, x : IsFiniteSet(S) /\ x \in S => Cardinality(S \ {x}) = Cardinality(S) - 1
    BY FS_RemoveElement
  <2> HIDE DEF Counting
  <2> QED BY <1>2, <1>3, <2>1, <2>2
<1>5. code[c].attempts \in Nat /\ code'[c].attempts = code[c].attempts + 1
  BY <1>1 DEF Code
<1>6. Tried(c)' = code'[c].attempts + Cardinality(Counting(c)') BY DEF Tried
<1> HIDE DEF Counting
<1> QED BY <1>4, <1>5, <1>6, CountingIsFinite DEF Tried

(* Every other step leaves the attempts as they are or takes a new code,    *)
(* and nobody who was not counting begins to.                              *)
LEMMA OthersCountNothing ==
  ASSUME TokenInvariant, [Next]_vars, NEW c \in CodeIds
  PROVE  \/ /\ code'[c].attempts <= code[c].attempts
            /\ Counting(c)' \subseteq Counting(c)
         \/ \E r \in Requests, u \in Users, strong \in BOOLEAN : ResetPassword(r, u, c, FALSE, strong)
         \/ \E r \in Requests : CountAttempt(r) /\ req[r].code = c
<1> DEFINE Settled == /\ code'[c].attempts <= code[c].attempts
                      /\ Counting(c)' \subseteq Counting(c)
<1>1. /\ req \in [Requests -> Request] /\ code \in [CodeIds -> Code] /\ code[c] \in Code
      /\ code[c].attempts \in Nat
  BY DEF TokenInvariant, TypeOK, Code
<1>2. ASSUME NEW r \in Requests, NEW request, req' = [req EXCEPT ![r] = request],
             request.at # "count" \/ request.code # c, code'[c].attempts <= code[c].attempts
      PROVE  Settled
  <2>1. \A q \in Requests : req'[q] = IF q = r THEN request ELSE req[q] BY <1>1, <1>2
  <2>2. Counting(c)' = {q \in Requests : req'[q].at = "count" /\ req'[q].code = c}
    BY DEF Counting, At
  <2> QED BY <1>2, <2>1, <2>2 DEF Counting, At
<1>3. ASSUME UNCHANGED req, code'[c].attempts <= code[c].attempts PROVE Settled
  BY <1>3 DEF Counting, At
<1> HIDE DEF Settled
<1>4. ASSUME NEW r \in Requests, NEW request, Starts(r, request),
             request.at # "count" \/ request.code # c
      PROVE  Settled
  <2>1. req' = [req EXCEPT ![r] = request] /\ code' = code BY <1>4 DEF Starts, rows
  <2>2. code'[c].attempts <= code[c].attempts BY <1>1, <2>1
  <2> QED BY <1>2, <1>4, <2>1, <2>2
<1>5. ASSUME NEW r \in Requests, Begins(r),
             ~ \E u \in Users, strong \in BOOLEAN : ResetPassword(r, u, c, FALSE, strong)
      PROVE  Settled
  <2>1. CASE \E u \in Users : Login(r, u) \/ ForgotPassword(r, u) \/ ChangePassword(r, u)
    BY <1>4, <2>1 DEF Login, ForgotPassword, ChangePassword, Idle
  <2>2. CASE \E t \in TokenIds : Rotate(r, t) \/ Reuse(r, t)
    BY <1>4, <2>2 DEF Rotate, Reuse, Idle
  <2>3. ASSUME NEW u \in Users, NEW d \in CodeIds, NEW matches \in BOOLEAN, NEW strong \in BOOLEAN,
               ResetPassword(r, u, d, matches, strong)
        PROVE  Settled
    <3> DEFINE request == [Idle EXCEPT !.at = IF matches THEN "consume" ELSE "count", !.user = u,
                                       !.code = d, !.strong = strong]
    <3>1. matches \/ d # c BY <1>5, <2>3
    <3>2. Starts(r, request) BY <2>3 DEF ResetPassword
    <3>3. request.at # "count" \/ request.code # c BY <3>1 DEF Idle
    <3> HIDE DEF request
    <3> QED BY <1>4, <3>2, <3>3
  <2> QED BY <1>5, <2>1, <2>2, <2>3 DEF Begins
<1>6. ASSUME NEW r \in Requests, NEW place, Continue(r, place), place # "count",
             code'[c].attempts <= code[c].attempts
      PROVE  Settled
  <2>1. req' = [req EXCEPT ![r] = [req[r] EXCEPT !.at = place]] BY <1>6 DEF Continue
  <2>2. [req[r] EXCEPT !.at = place].at = place
    <3>1. req[r] \in Request BY <1>1
    <3> QED BY <3>1 DEF Request
  <2> QED BY <1>2, <1>6, <2>1, <2>2
<1>7. ASSUME NEW r \in Requests, Finish(r), code'[c].attempts <= code[c].attempts
      PROVE  Settled
  BY <1>2, <1>7, IdleIsRequest DEF Finish
<1>8. code[c].attempts <= code[c].attempts BY <1>1
<1>9. ASSUME NEW r \in Requests, Step(r) \/ Fail(r), ~(CountAttempt(r) /\ req[r].code = c)
      PROVE  Settled
  <2>1. CASE Issue(r) \/ Retire(r) \/ RevokeFamily(r) \/ RevokeAll(r) \/ Fail(r)
    BY <1>7, <1>8, <2>1 DEF Issue, Retire, RevokeFamily, RevokeAll, Fail, rows
  <2>2. CASE IssueNext(r) \/ UpdatePassword(r)
    BY <1>6, <1>8, <2>2 DEF IssueNext, UpdatePassword, rows
  <2>3. CASE WithdrawCodes(r)
    <3>1. code'[c].attempts = code[c].attempts BY <1>1, <2>3 DEF WithdrawCodes, Code
    <3> QED BY <1>6, <1>8, <2>3, <3>1 DEF WithdrawCodes
  <2>4. CASE IssueCode(r)
    <3> DEFINE row == [status |-> "OUT", owner |-> req[r].user, attempts |-> 0]
    <3>1. code'[c] = row \/ code'[c] = code[c] BY <1>1, <2>4 DEF IssueCode
    <3>2. code'[c].attempts <= code[c].attempts BY <1>1, <3>1
    <3> QED BY <1>7, <2>4, <3>2 DEF IssueCode
  <2>5. CASE CountAttempt(r)
    <3>1. req[r].code # c BY <1>9, <2>5
    <3>2. code'[c] = code[c] BY <1>1, <2>5, <3>1 DEF CountAttempt
    <3> QED BY <1>7, <1>8, <2>5, <3>2 DEF CountAttempt
  <2>6. CASE ConsumeCode(r)
    <3> DEFINE next == [Idle EXCEPT !.at = "update", !.user = req[r].user]
    <3>1. code' = [code EXCEPT ![req[r].code].status = "CONSUMED"] BY <2>6 DEF ConsumeCode, Consumed
    <3>2. code'[c].attempts = code[c].attempts BY <1>1, <3>1 DEF Code
    <3>3. req' = [req EXCEPT ![r] = next] \/ Finish(r) BY <2>6 DEF ConsumeCode
    <3>4. next.at # "count" BY DEF Idle
    <3> HIDE DEF next
    <3> QED BY <1>2, <1>7, <1>8, <3>2, <3>3, <3>4
  <2> QED BY <1>9, <2>1, <2>2, <2>3, <2>4, <2>5, <2>6 DEF Step
<1>10. CASE \/ \E t \in TokenIds : Logout(t)
            \/ \E u \in Users : LogoutEverywhere(u) \/ ChangeStatus(u)
            \/ UNCHANGED vars
  <2>1. UNCHANGED <<req, code>>
    BY <1>10 DEF Logout, LogoutEverywhere, ChangeStatus, vars, rows
  <2> QED BY <1>3, <1>8, <2>1 DEF Settled
<1> QED BY <1>5, <1>9, <1>10 DEF Next, Settled

LEMMA StepsLimitAttempts ==
  TokenInvariant /\ TokenInvariant' /\ AttemptsAreLimited /\ [Next]_vars => AttemptsAreLimited'
<1> SUFFICES ASSUME TokenInvariant, TokenInvariant', AttemptsAreLimited, [Next]_vars,
                    OtpMaxAttempts > 0, NEW c \in CodeIds
             PROVE  Tried(c)' < OtpMaxAttempts + Cardinality(Requests)
  BY DEF AttemptsAreLimited, Tried
<1>1. Tried(c) < OtpMaxAttempts + Cardinality(Requests) BY DEF AttemptsAreLimited, Tried
<1>2. Tried(c) \in Nat /\ Tried(c)' \in Nat
  <2>1. code[c].attempts \in Nat /\ code'[c].attempts \in Nat
    BY DEF TokenInvariant, TypeOK, Code
  <2>2. Cardinality(Counting(c)') \in Nat
    <3>1. Counting(c)' \subseteq Requests BY DEF Counting
    <3> QED BY <3>1, RequestAssumption, FS_Subset, FS_CardinalityType
  <2>3. Tried(c)' = code'[c].attempts + Cardinality(Counting(c)') BY DEF Tried
  <2> HIDE DEF Counting
  <2> QED BY <2>1, <2>2, <2>3, CountingIsFinite DEF Tried
<1>3. CASE Tried(c)' <= Tried(c) BY <1>1, <1>2, <1>3, CountingIsFinite, Bounds
<1>4. CASE Tried(c)' < OtpMaxAttempts + Cardinality(Requests) BY <1>4
<1>5. Tried(c)' <= Tried(c) \/ Tried(c)' < OtpMaxAttempts + Cardinality(Requests)
  <2>1. CASE code'[c].attempts <= code[c].attempts /\ Counting(c)' \subseteq Counting(c)
    BY <2>1, NotCounting
  <2>2. CASE \E r \in Requests, u \in Users, strong \in BOOLEAN : ResetPassword(r, u, c, FALSE, strong)
    BY <2>2, GuessBegins
  <2>3. CASE \E r \in Requests : CountAttempt(r) /\ req[r].code = c
    <3>1. Tried(c)' = Tried(c) BY <2>3, GuessCounts
    <3> HIDE DEF Tried
    <3> QED BY <1>2, <3>1
  <2> QED BY <2>1, <2>2, <2>3, OthersCountNothing
<1> QED BY <1>3, <1>4, <1>5

(* However guesses overlap, a code is tried fewer times than its limit and  *)
(* the number of requests together.                                        *)
THEOREM GuessesAreLimited == Spec => []AttemptsAreLimited
<1>1. Init => AttemptsAreLimited
  <2> SUFFICES ASSUME Init, OtpMaxAttempts > 0, NEW c \in CodeIds
               PROVE  code[c].attempts + Cardinality(Counting(c)) < OtpMaxAttempts + Cardinality(Requests)
    BY DEF AttemptsAreLimited
  <2>1. Counting(c) = {} BY IdleIsRequest DEF Init, Counting, At
  <2>2. code[c].attempts = 0 BY DEF Init
  <2> QED BY <2>1, <2>2, FS_EmptySet, CountingIsFinite, Bounds
<1> QED BY <1>1, StepsLimitAttempts, TokensAlways, PTL DEF Spec

-----------------------------------------------------------------------------
(* Codes are sent one after the other as tokens are issued, a request that  *)
(* consumes one found one that was sent, and only families that were       *)
(* started are marked as stolen.                                           *)
SentInOrder == \E n \in 0..MaxCodes : Sent = 1..n
ConsumedWereSent == \A r \in Requests : At(r, "consume") => req[r].code \in Sent
ReusedWereStarted == reused \subseteq Issued

OrderInvariant == TokenInvariant /\ SentInOrder /\ ConsumedWereSent /\ ReusedWereStarted

(* Nothing has overlapped or failed; then one request is under way at most. *)
Serial == overlaps = 0 /\ failures = 0
Alone == \A r, q \in Requests : Under(r) /\ Under(q) => r = q

(* A family has one live token, but for one whose successor is there and   *)
(* which is to be retired; and no live token is of a session that ended.   *)
Retiring == {req[r].token : r \in {q \in Requests : At(q, "retire")}}
TokensContinue ==
  /\ \A t, s \in Live \ Retiring : token[t].family = token[s].family => t = s
  /\ \A t \in Live : token[t].owner \notin ended /\ token[t].family \notin reused
  /\ \A r \in Requests : At(r, "issueNext") => req[r].token \in Live

(* An account has one outstanding code, and none when the next is issued;  *)
(* what was used was consumed, and what is about to be used was not.       *)
CodesServe ==
  /\ \A u \in Users : \A c, d \in Outstanding(u) : c = d
  /\ \A c \in CodeIds : uses[c] = 0 \/ (uses[c] = 1 /\ code[c].status = "CONSUMED")
  /\ \A r \in Requests :
       /\ At(r, "issueCode") => Outstanding(req[r].user) = {}
       /\ At(r, "consume") => code[req[r].code].status = "OUT"

SerialFacts == Alone /\ TokensContinue /\ CodesServe
SessionInvariant == OrderInvariant /\ (Serial => SerialFacts)

-----------------------------------------------------------------------------
LEMMA TokensAfterRevoking ==
  ASSUME TokenInvariant, NEW ts \in SUBSET Issued, token' = Revoked(ts)
  PROVE  /\ \A t \in TokenIds : token'[t].owner = token[t].owner /\ token'[t].family = token[t].family
         /\ Live' = Live \ ts /\ Issued' = Issued
<1>1. ASSUME NEW t \in TokenIds
      PROVE  /\ token'[t].owner = token[t].owner /\ token'[t].family = token[t].family
             /\ token'[t].status = IF t \in ts THEN "REVOKED" ELSE token[t].status
  <2>1. token[t] \in Token BY DEF TokenInvariant, TypeOK
  <2>2. token'[t] = IF t \in ts THEN [token[t] EXCEPT !.status = "REVOKED"] ELSE token[t]
    BY DEF Revoked
  <2> QED BY <2>1, <2>2 DEF Token
<1> QED BY <1>1, RevokingKeeps DEF Live

LEMMA TokensAfterIssuing ==
  ASSUME TokenInvariant, MayIssue, NEW u, NEW f, IssueTokens(u, f)
  PROVE  /\ NextToken \in TokenIds /\ NextToken \notin Issued
         /\ token'[NextToken].owner = u /\ token'[NextToken].family = f
         /\ \A t \in TokenIds \ {NextToken} : token'[t] = token[t]
         /\ Live' = Live \union {NextToken} /\ Issued \subseteq Issued'
<1> DEFINE n == NextToken
<1>1. n \in TokenIds /\ n \notin Issued BY NextTokenIsNew DEF TokenInvariant
<1>2. token' = [token EXCEPT ![n] = [status |-> "LIVE", owner |-> u, family |-> f]]
      /\ token \in [TokenIds -> Token]
  BY DEF IssueTokens, TokenInvariant, TypeOK
<1> HIDE DEF n
<1>3. /\ token'[n].status = "LIVE" /\ token'[n].owner = u /\ token'[n].family = f
      /\ \A t \in TokenIds \ {n} : token'[t] = token[t]
  BY <1>1, <1>2
<1>4. Live' = Live \union {n} /\ Issued \subseteq Issued' BY <1>1, <1>3 DEF Live, Issued
<1> QED BY <1>1, <1>3, <1>4 DEF n

(* Live tokens were issued, and so were their families.                    *)
LEMMA LiveTokens ==
  ASSUME TokenInvariant, NEW t \in Live
  PROVE  t \in TokenIds /\ t \in Issued /\ token[t].family \in Issued /\ token[t].owner \in Users
<1>1. t \in TokenIds /\ t \in Issued BY DEF Live, Issued
<1>2. token[t] \in Token BY <1>1 DEF TokenInvariant, TypeOK
<1> QED BY <1>1, <1>2 DEF TokenInvariant, FamiliesHaveOneOwner, Token

-----------------------------------------------------------------------------
(* The next code is a new one, and the order is kept.                      *)
LEMMA NextCodeIsNew ==
  ASSUME SentInOrder, MaySend
  PROVE  /\ Cardinality(Sent) + 1 \in CodeIds
         /\ Cardinality(Sent) + 1 \notin Sent
         /\ \E n \in 0..MaxCodes : Sent \union {Cardinality(Sent) + 1} = 1..n
<1>1. PICK n \in 0..MaxCodes : Sent = 1..n BY DEF SentInOrder
<1>2. n \in Nat BY <1>1, Bounds
<1>3. Cardinality(Sent) = n BY <1>1, <1>2, FS_Interval
<1>4. n < MaxCodes BY <1>3 DEF MaySend
<1>5. n + 1 \in 0..MaxCodes /\ n + 1 \in CodeIds /\ n + 1 \notin Sent
  BY <1>1, <1>2, <1>4, Bounds DEF CodeIds
<1>6. Sent \union {n + 1} = 1..(n + 1) BY <1>1, <1>2
<1> QED BY <1>3, <1>5, <1>6

(* What each step leaves of the codes.                                     *)
LEMMA CodesAfterIssuing ==
  ASSUME OrderInvariant, NEW r \in Requests, IssueCode(r)
  PROVE  \E n \in CodeIds \ Sent :
           /\ code'[n].status = "OUT" /\ code'[n].owner = req[r].user
           /\ \A c \in CodeIds \ {n} : code'[c] = code[c]
           /\ Sent' = Sent \union {n} /\ SentInOrder'
<1> DEFINE n == Cardinality(Sent) + 1
<1>1. n \in CodeIds /\ n \notin Sent /\ \E k \in 0..MaxCodes : Sent \union {n} = 1..k
  BY NextCodeIsNew DEF IssueCode, OrderInvariant
<1>2. /\ code' = [code EXCEPT ![n] = [status |-> "OUT", owner |-> req[r].user, attempts |-> 0]]
      /\ code \in [CodeIds -> Code]
  BY DEF IssueCode, OrderInvariant, TokenInvariant, TypeOK
<1> HIDE DEF n
<1>3. /\ code'[n].status = "OUT" /\ code'[n].owner = req[r].user
      /\ \A c \in CodeIds \ {n} : code'[c] = code[c]
  BY <1>1, <1>2
<1>4. Sent' = Sent \union {n} BY <1>1, <1>3 DEF Sent
<1>5. SentInOrder' BY <1>1, <1>4 DEF SentInOrder
<1> QED BY <1>1, <1>3, <1>4, <1>5

LEMMA CodesAfterWithdrawing ==
  ASSUME OrderInvariant, NEW r \in Requests, WithdrawCodes(r)
  PROVE  /\ \A c \in CodeIds :
              /\ code'[c].owner = code[c].owner
              /\ code'[c].status = IF c \in Outstanding(req[r].user) THEN "CONSUMED" ELSE code[c].status
         /\ Sent' = Sent
<1>1. ASSUME NEW c \in CodeIds
      PROVE  /\ code'[c].owner = code[c].owner
             /\ code'[c].status = IF c \in Outstanding(req[r].user) THEN "CONSUMED" ELSE code[c].status
  <2>1. code[c] \in Code BY DEF OrderInvariant, TokenInvariant, TypeOK
  <2>2. code'[c] = IF c \in Outstanding(req[r].user) THEN [code[c] EXCEPT !.status = "CONSUMED"] ELSE code[c]
    BY DEF WithdrawCodes, Withdrawn
  <2> QED BY <2>1, <2>2 DEF Code
<1>2. Outstanding(req[r].user) \subseteq Sent BY DEF Outstanding
<1>3. Sent' = Sent BY <1>1, <1>2 DEF Sent
<1> QED BY <1>1, <1>3

LEMMA CodesAfterCounting ==
  ASSUME OrderInvariant, NEW r \in Requests, CountAttempt(r)
  PROVE  /\ \A c \in CodeIds : code'[c].owner = code[c].owner /\ code'[c].status = code[c].status
         /\ Sent' = Sent
<1>1. \A c \in CodeIds : code'[c].owner = code[c].owner /\ code'[c].status = code[c].status
  BY DEF CountAttempt, OrderInvariant, TokenInvariant, TypeOK, Code
<1> QED BY <1>1 DEF Sent

LEMMA CodesAfterConsuming ==
  ASSUME OrderInvariant, NEW r \in Requests, ConsumeCode(r)
  PROVE  /\ req[r].code \in CodeIds
         /\ \A c \in CodeIds :
              /\ code'[c].owner = code[c].owner
              /\ code'[c].status = IF c = req[r].code THEN "CONSUMED" ELSE code[c].status
              /\ uses'[c] = IF c = req[r].code THEN uses[c] + 1 ELSE uses[c]
         /\ Sent' = Sent
<1> DEFINE d == req[r].code
<1>1. d \in Sent /\ d \in CodeIds BY DEF ConsumeCode, OrderInvariant, ConsumedWereSent, Sent
<1>2. /\ code \in [CodeIds -> Code] /\ uses \in [CodeIds -> Nat]
      /\ code' = [code EXCEPT ![d].status = "CONSUMED"] /\ uses' = [uses EXCEPT ![d] = @ + 1]
  BY DEF ConsumeCode, Consumed, OrderInvariant, TokenInvariant, TypeOK
<1> HIDE DEF d
<1>3. \A c \in CodeIds :
        /\ code'[c].owner = code[c].owner
        /\ code'[c].status = IF c = d THEN "CONSUMED" ELSE code[c].status
        /\ uses'[c] = IF c = d THEN uses[c] + 1 ELSE uses[c]
  BY <1>1, <1>2 DEF Code
<1>4. Sent' = Sent BY <1>1, <1>3 DEF Sent
<1> QED BY <1>1, <1>3, <1>4 DEF d

-----------------------------------------------------------------------------
LEMMA BeginningKeepsRows ==
  ASSUME NEW r \in Requests, Begins(r)
  PROVE  UNCHANGED <<active, token, code, uses, ended, reused>>
<1>1. ASSUME NEW request, Starts(r, request)
      PROVE  UNCHANGED <<active, token, code, uses, ended, reused>>
  BY <1>1 DEF Starts, rows
<1>2. CASE \E u \in Users : Login(r, u) \/ ForgotPassword(r, u) \/ ChangePassword(r, u)
  BY <1>1, <1>2 DEF Login, ForgotPassword, ChangePassword
<1>3. CASE \E t \in TokenIds : Rotate(r, t) \/ Reuse(r, t)
  BY <1>1, <1>3 DEF Rotate, Reuse
<1>4. CASE \E u \in Users, c \in CodeIds, matches, strong \in BOOLEAN :
             ResetPassword(r, u, c, matches, strong)
  BY <1>1, <1>4 DEF ResetPassword
<1> QED BY <1>2, <1>3, <1>4 DEF Begins

(* Tokens are never forgotten.                                             *)
LEMMA TokensNeverVanish ==
  ASSUME TokenInvariant, [Next]_vars
  PROVE  Issued \subseteq Issued'
<1>1. ASSUME NEW ts \in SUBSET Issued, token' = Revoked(ts) PROVE Issued \subseteq Issued'
  BY <1>1, TokensAfterRevoking
<1>2. ASSUME NEW u, NEW f, IssueTokens(u, f), MayIssue PROVE Issued \subseteq Issued'
  BY <1>2, TokensAfterIssuing
<1>3. ASSUME UNCHANGED token PROVE Issued \subseteq Issued' BY <1>3 DEF Issued
<1>4. ASSUME NEW r \in Requests, Begins(r) PROVE Issued \subseteq Issued'
  BY <1>3, <1>4, BeginningKeepsRows
<1>5. ASSUME NEW r \in Requests, Step(r) \/ Fail(r) PROVE Issued \subseteq Issued'
  <2>1. CASE Issue(r) \/ IssueNext(r) BY <1>2, <2>1 DEF Issue, IssueNext
  <2>2. CASE Retire(r)
    <3>1. {req[r].token} \in SUBSET Issued BY <2>2 DEF Retire, At, TokenInvariant, PresentedWereIssued
    <3> QED BY <1>1, <2>2, <3>1 DEF Retire, Retired
  <2>3. CASE RevokeFamily(r) \/ RevokeAll(r)
    BY <1>1, <2>3 DEF RevokeFamily, RevokeAll, RevokeAllForUser, AllSessions, OfFamily, OfUser
  <2>4. CASE WithdrawCodes(r) \/ IssueCode(r) \/ CountAttempt(r) \/ ConsumeCode(r)
               \/ UpdatePassword(r) \/ Fail(r)
    BY <1>3, <2>4 DEF WithdrawCodes, IssueCode, CountAttempt, ConsumeCode, UpdatePassword, Fail, rows
  <2> QED BY <1>5, <2>1, <2>2, <2>3, <2>4 DEF Step
<1>6. ASSUME NEW t \in TokenIds, Logout(t) PROVE Issued \subseteq Issued'
  BY <1>1, <1>6 DEF Logout, Issued
<1>7. ASSUME NEW u \in Users, LogoutEverywhere(u) \/ ChangeStatus(u) PROVE Issued \subseteq Issued'
  BY <1>1, <1>3, <1>7 DEF LogoutEverywhere, ChangeStatus, RevokeAllForUser, AllSessions, OfUser
<1>8. ASSUME UNCHANGED vars PROVE Issued \subseteq Issued' BY <1>3, <1>8 DEF vars, rows
<1> QED BY <1>4, <1>5, <1>6, <1>7, <1>8 DEF Next

LEMMA StepsKeepOrder == OrderInvariant /\ [Next]_vars => OrderInvariant'
<1> SUFFICES ASSUME OrderInvariant, [Next]_vars PROVE OrderInvariant' OBVIOUS
<1>0. /\ TokenInvariant /\ TokenInvariant' /\ Issued \subseteq Issued'
      /\ req \in [Requests -> Request] /\ Idle.at # "consume"
  BY StepsKeepTokens, TokensNeverVanish, IdleIsRequest DEF OrderInvariant, TokenInvariant, TypeOK
<1> DEFINE Ordered == SentInOrder' /\ ConsumedWereSent'
(* In a step one request goes on; and no code that was sent is forgotten.   *)
<1>1. ASSUME NEW r \in Requests, NEW next, req' = [req EXCEPT ![r] = next],
             next.at = "consume" => next.code \in Sent,
             SentInOrder', Sent \subseteq Sent'
      PROVE  Ordered
  <2>1. \A q \in Requests : req'[q] = IF q = r THEN next ELSE req[q] BY <1>0, <1>1
  <2> QED BY <1>1, <2>1 DEF OrderInvariant, ConsumedWereSent, At
<1>2. ASSUME Sent' = Sent PROVE SentInOrder' /\ Sent \subseteq Sent'
  BY <1>2 DEF OrderInvariant, SentInOrder
<1>3. ASSUME UNCHANGED code PROVE SentInOrder' /\ Sent \subseteq Sent'
  BY <1>3 DEF OrderInvariant, SentInOrder, Sent
<1> HIDE DEF Ordered
<1>4. ASSUME NEW r \in Requests, NEW request, Starts(r, request),
             request.at = "consume" => request.code \in Sent
      PROVE  Ordered
  BY <1>1, <1>3, <1>4 DEF Starts, rows
<1>5. ASSUME NEW r \in Requests, Begins(r) PROVE Ordered
  <2>1. CASE \E u \in Users : Login(r, u) \/ ForgotPassword(r, u) \/ ChangePassword(r, u)
    BY <1>4, <2>1 DEF Login, ForgotPassword, ChangePassword, Idle
  <2>2. CASE \E t \in TokenIds : Rotate(r, t) \/ Reuse(r, t)
    BY <1>4, <2>2 DEF Rotate, Reuse, Idle
  <2>3. ASSUME NEW u \in Users, NEW c \in CodeIds, NEW matches \in BOOLEAN, NEW strong \in BOOLEAN,
               ResetPassword(r, u, c, matches, strong)
        PROVE  Ordered
    <3> DEFINE request == [Idle EXCEPT !.at = IF matches THEN "consume" ELSE "count", !.user = u,
                                       !.code = c, !.strong = strong]
    <3>1. request.code = c BY DEF Idle
    <3>2. Starts(r, request) /\ c \in Sent BY <2>3 DEF ResetPassword, Outstanding
    <3> HIDE DEF request
    <3> QED BY <1>4, <3>1, <3>2
  <2> QED BY <1>5, <2>1, <2>2, <2>3 DEF Begins
<1>6. ASSUME NEW r \in Requests, Finish(r), SentInOrder', Sent \subseteq Sent' PROVE Ordered
  BY <1>0, <1>1, <1>6 DEF Finish
<1>7. ASSUME NEW r \in Requests, NEW place, Continue(r, place), place # "consume",
             SentInOrder', Sent \subseteq Sent'
      PROVE  Ordered
  <2> DEFINE next == [req[r] EXCEPT !.at = place]
  <2>1. req' = [req EXCEPT ![r] = next] /\ next.at = place
    BY <1>0, <1>7 DEF Continue, Request
  <2> HIDE DEF next
  <2> QED BY <1>1, <1>7, <2>1
<1>8. ASSUME NEW r \in Requests, Step(r) \/ Fail(r) PROVE Ordered
  <2>1. CASE Issue(r) \/ Retire(r) \/ RevokeFamily(r) \/ RevokeAll(r) \/ Fail(r)
    BY <1>3, <1>6, <2>1 DEF Issue, Retire, RevokeFamily, RevokeAll, Fail, rows
  <2>2. CASE IssueNext(r) \/ UpdatePassword(r)
    BY <1>3, <1>7, <2>2 DEF IssueNext, UpdatePassword, rows
  <2>3. CASE WithdrawCodes(r)
    BY <1>2, <1>7, <2>3, CodesAfterWithdrawing DEF WithdrawCodes
  <2>4. CASE IssueCode(r)
    BY <1>6, <2>4, CodesAfterIssuing DEF IssueCode
  <2>5. CASE CountAttempt(r)
    BY <1>2, <1>6, <2>5, CodesAfterCounting DEF CountAttempt
  <2>6. CASE ConsumeCode(r)
    <3> DEFINE next == [Idle EXCEPT !.at = "update", !.user = req[r].user]
    <3>1. next.at # "consume" BY DEF Idle
    <3>2. req' = [req EXCEPT ![r] = next] \/ Finish(r) BY <2>6 DEF ConsumeCode
    <3>3. SentInOrder' /\ Sent \subseteq Sent' BY <1>2, <2>6, CodesAfterConsuming
    <3> HIDE DEF next
    <3> QED BY <1>1, <1>6, <3>1, <3>2, <3>3
  <2> QED BY <1>8, <2>1, <2>2, <2>3, <2>4, <2>5, <2>6 DEF Step
<1>9. ASSUME UNCHANGED <<code, req>> PROVE Ordered
  BY <1>3, <1>9 DEF Ordered, OrderInvariant, ConsumedWereSent, At
<1>10. Ordered
  <2>1. CASE \E t \in TokenIds : Logout(t) BY <1>9, <2>1 DEF Logout
  <2>2. CASE \E u \in Users : LogoutEverywhere(u) \/ ChangeStatus(u)
    BY <1>9, <2>2 DEF LogoutEverywhere, ChangeStatus
  <2>3. CASE UNCHANGED vars BY <1>9, <2>3 DEF vars, rows
  <2> QED BY <1>5, <1>8, <2>1, <2>2, <2>3 DEF Next
<1>11. ReusedWereStarted'
  <2>1. reused \subseteq Issued BY DEF OrderInvariant, ReusedWereStarted
  <2>2. CASE \E r \in Requests : RevokeFamily(r)
    <3>1. PICK r \in Requests : RevokeFamily(r) BY <2>2
    <3>2. req[r].token \in Issued
      BY <3>1 DEF RevokeFamily, At, OrderInvariant, TokenInvariant, PresentedWereIssued
    <3>3. token[req[r].token].family \in Issued
      BY <3>2 DEF OrderInvariant, TokenInvariant, FamiliesHaveOneOwner
    <3> QED BY <1>0, <2>1, <3>1, <3>3 DEF RevokeFamily, ReusedWereStarted
  <2>3. CASE UNCHANGED reused BY <1>0, <2>1, <2>3 DEF ReusedWereStarted
  <2>4. ASSUME NEW r \in Requests, Begins(r) PROVE UNCHANGED reused
    BY <2>4, BeginningKeepsRows
  <2>5. ASSUME NEW r \in Requests, Step(r) \/ Fail(r), ~RevokeFamily(r) PROVE UNCHANGED reused
    BY <2>5 DEF Step, Issue, IssueNext, Retire, WithdrawCodes, IssueCode, CountAttempt, ConsumeCode,
       UpdatePassword, RevokeAll, Fail, rows
  <2>6. ASSUME \/ \E t \in TokenIds : Logout(t)
               \/ \E u \in Users : LogoutEverywhere(u) \/ ChangeStatus(u)
               \/ UNCHANGED vars
        PROVE  UNCHANGED reused
    BY <2>6 DEF Logout, LogoutEverywhere, ChangeStatus, vars, rows
  <2>7. (\E r \in Requests : RevokeFamily(r)) \/ UNCHANGED reused
    BY <2>4, <2>5, <2>6 DEF Next
  <2> QED BY <2>2, <2>3, <2>7
<1> QED BY <1>0, <1>10, <1>11 DEF OrderInvariant, Ordered

-----------------------------------------------------------------------------
(* While nothing else is under way a request starts and goes on alone.      *)
LEMMA NothingArrivesBeside ==
  ASSUME SessionInvariant, Arrives, Serial'
  PROVE  SerialFacts /\ \A q \in Requests : ~Under(q)
<1>1. overlaps \in Nat /\ overlaps' = 0 /\ failures' = 0
  BY DEF SessionInvariant, OrderInvariant, TokenInvariant, TypeOK, Serial
<1>2. UNCHANGED <<overlaps, failures>> /\ \A q \in Requests : ~Under(q)
  BY <1>1 DEF Arrives
<1> QED BY <1>1, <1>2 DEF Serial, SessionInvariant

LEMMA GoesOnAlone ==
  ASSUME SessionInvariant, NEW r \in Requests, Under(r), NEW next, Goes, Serial',
         req' = [req EXCEPT ![r] = next]
  PROVE  /\ SerialFacts /\ Alone'
         /\ \A q \in Requests \ {r} : req[q].at = "idle" /\ req'[q].at = "idle"
         /\ req'[r] = next
<1>1. SerialFacts BY DEF SessionInvariant, Serial, Goes
<1>2. \A q \in Requests \ {r} : req[q].at = "idle" BY <1>1 DEF SerialFacts, Alone, Under
<1>3. \A q \in Requests : req'[q] = IF q = r THEN next ELSE req[q]
  BY DEF SessionInvariant, OrderInvariant, TokenInvariant, TypeOK
<1>4. Alone' BY <1>2, <1>3 DEF Alone, Under
<1> QED BY <1>1, <1>2, <1>3, <1>4

(* What leaves the tokens as they are keeps the facts about them, and what  *)
(* leaves the codes as they are keeps those about them.                    *)
LEMMA TokensUndisturbed ==
  ASSUME TokensContinue, UNCHANGED <<token, ended, reused>>,
         \A q \in Requests : ~At(q, "retire"),
         \A q \in Requests : At(q, "issueNext")' => req'[q].token \in Live
  PROVE  TokensContinue'
<1>1. Live' = Live BY DEF Live
<1>2. Retiring = {} BY DEF Retiring
<1> QED BY <1>1, <1>2 DEF TokensContinue

LEMMA CodesUndisturbed ==
  ASSUME CodesServe, UNCHANGED <<code, uses>>,
         \A q \in Requests : At(q, "issueCode")' => Outstanding(req'[q].user) = {},
         \A q \in Requests : At(q, "consume")' => code[req'[q].code].status = "OUT"
  PROVE  CodesServe'
<1>1. \A u : Outstanding(u)' = Outstanding(u) BY DEF Outstanding, Sent
<1> QED BY <1>1 DEF CodesServe

-----------------------------------------------------------------------------
LEMMA BeginsSafely ==
  ASSUME SessionInvariant, NEW r \in Requests, Begins(r), Serial'
  PROVE  SerialFacts'
(* What a request that starts must bring along.                            *)
<1>1. ASSUME NEW request, Starts(r, request),
             request.at \notin {"retire", "issueCode"},
             request.at = "issueNext" => request.token \in Live,
             request.at = "consume" => code[request.code].status = "OUT"
      PROVE  SerialFacts'
  <2>1. SerialFacts /\ \A q \in Requests : req[q].at = "idle"
    BY <1>1, NothingArrivesBeside DEF Starts, Under
  <2>2. /\ UNCHANGED <<token, code, uses, ended, reused>>
        /\ \A q \in Requests : req'[q] = IF q = r THEN request ELSE req[q]
    BY <1>1 DEF Starts, rows, SessionInvariant, OrderInvariant, TokenInvariant, TypeOK
  <2>3. Alone' BY <2>1, <2>2 DEF Alone, Under
  <2>4. TokensContinue'
    <3>1. \A q \in Requests : ~At(q, "retire") BY <2>1 DEF At
    <3>2. \A q \in Requests : At(q, "issueNext")' => req'[q].token \in Live
      BY <1>1, <2>1, <2>2 DEF At
    <3> QED BY <2>1, <2>2, <3>1, <3>2, TokensUndisturbed DEF SerialFacts
  <2>5. CodesServe'
    <3>1. \A q \in Requests : ~At(q, "issueCode")' BY <1>1, <2>1, <2>2 DEF At
    <3>2. \A q \in Requests : At(q, "consume")' => code[req'[q].code].status = "OUT"
      BY <1>1, <2>1, <2>2 DEF At
    <3> QED BY <2>1, <2>2, <3>1, <3>2, CodesUndisturbed DEF SerialFacts
  <2> QED BY <2>3, <2>4, <2>5 DEF SerialFacts
<1>2. CASE \E u \in Users : Login(r, u) \/ ForgotPassword(r, u) \/ ChangePassword(r, u)
  BY <1>1, <1>2 DEF Login, ForgotPassword, ChangePassword, Idle
<1>3. CASE \E t \in TokenIds : Rotate(r, t) \/ Reuse(r, t)
  <2>1. \A t \in TokenIds : MayRotate(t) => t \in Live BY DEF MayRotate, Live
  <2> QED BY <1>1, <1>3, <2>1 DEF Rotate, Reuse, Idle
<1>4. ASSUME NEW u \in Users, NEW c \in CodeIds, NEW matches \in BOOLEAN, NEW strong \in BOOLEAN,
             ResetPassword(r, u, c, matches, strong)
      PROVE  SerialFacts'
  <2> DEFINE request == [Idle EXCEPT !.at = IF matches THEN "consume" ELSE "count", !.user = u,
                                     !.code = c, !.strong = strong]
  <2>1. request.at \in {"consume", "count"} /\ request.code = c BY DEF Idle
  <2>2. Starts(r, request) /\ code[c].status = "OUT" BY <1>4 DEF ResetPassword, Outstanding
  <2> HIDE DEF request
  <2> QED BY <1>1, <2>1, <2>2
<1> QED BY <1>2, <1>3, <1>4 DEF Begins

(* Revoking ends sessions: those of the families and accounts that are      *)
(* marked, and of the token that is replaced.                              *)
LEMMA RevokesSafely ==
  ASSUME SessionInvariant, SerialFacts, NEW ts \in SUBSET Issued, token' = Revoked(ts),
         Retiring \subseteq ts,
         \A q \in Requests : ~At(q, "issueNext")' /\ ~At(q, "retire")',
         \A t \in TokenIds :
           t \in Live /\ (token[t].owner \in ended' \/ token[t].family \in reused') =>
             token[t].owner \in ended \/ token[t].family \in reused \/ t \in ts
  PROVE  TokensContinue'
<1>1. /\ \A t \in TokenIds : token'[t].owner = token[t].owner /\ token'[t].family = token[t].family
      /\ Live' = Live \ ts /\ Live \subseteq TokenIds
  BY TokensAfterRevoking DEF SessionInvariant, OrderInvariant, Live
<1>2. \A t, s \in Live' : token'[t].family = token'[s].family => t = s
  BY <1>1 DEF SerialFacts, TokensContinue
<1>3. \A t \in Live' : token'[t].owner \notin ended' /\ token'[t].family \notin reused'
  BY <1>1 DEF SerialFacts, TokensContinue
<1> QED BY <1>2, <1>3 DEF TokensContinue

LEMMA IssueIsSafe ==
  ASSUME SessionInvariant, NEW r \in Requests, Issue(r), Serial'
  PROVE  TokensContinue'
<1> DEFINE n == NextToken
<1>1. /\ IssueTokens(req[r].user, n) /\ MayIssue /\ ended' = ended \ {req[r].user} /\ UNCHANGED reused
      /\ req[r].at = "issue" /\ req' = [req EXCEPT ![r] = Idle] /\ Goes /\ Under(r)
  BY DEF Issue, Finish, Under, At
<1>2. /\ SerialFacts /\ \A q \in Requests \ {r} : req[q].at = "idle" /\ req'[q].at = "idle"
      /\ req'[r] = Idle
  BY <1>1, GoesOnAlone
<1>3. Retiring = {} /\ \A q \in Requests : ~At(q, "issueNext")'
  BY <1>1, <1>2, IdleIsRequest DEF Retiring, At
<1>4. /\ n \in TokenIds /\ n \notin Issued
      /\ token'[n].owner = req[r].user /\ token'[n].family = n
      /\ \A t \in TokenIds \ {n} : token'[t] = token[t]
      /\ Live' = Live \union {n}
  BY <1>1, TokensAfterIssuing DEF SessionInvariant, OrderInvariant
<1>5. \A t \in Live : t \in TokenIds \ {n} /\ token'[t] = token[t] /\ token[t].family # n
  BY <1>4, LiveTokens DEF SessionInvariant, OrderInvariant
<1> HIDE DEF n
<1>6. n \notin reused BY <1>4 DEF SessionInvariant, OrderInvariant, ReusedWereStarted
<1>7. \A t, s \in Live : token[t].family = token[s].family => t = s
  BY <1>2, <1>3 DEF SerialFacts, TokensContinue
<1>8. \A t, s \in Live' : token'[t].family = token'[s].family => t = s
  BY <1>4, <1>5, <1>7
<1>9. \A t \in Live' : token'[t].owner \notin ended' /\ token'[t].family \notin reused'
  BY <1>1, <1>2, <1>4, <1>5, <1>6 DEF SerialFacts, TokensContinue
<1> QED BY <1>3, <1>8, <1>9 DEF TokensContinue

LEMMA IssueNextIsSafe ==
  ASSUME SessionInvariant, NEW r \in Requests, IssueNext(r), Serial'
  PROVE  TokensContinue'
<1> DEFINE n == NextToken
           old == req[r].token
           next == [req[r] EXCEPT !.at = "retire"]
<1>1. /\ IssueTokens(token[old].owner, token[old].family) /\ MayIssue /\ UNCHANGED <<ended, reused>>
      /\ At(r, "issueNext") /\ req' = [req EXCEPT ![r] = next] /\ Goes /\ Under(r)
  BY DEF IssueNext, SuccessorFamily, Continue, Under, At
<1>2. next.at = "retire" /\ next.token = old
  BY DEF SessionInvariant, OrderInvariant, TokenInvariant, TypeOK, Request
<1> HIDE DEF next
<1>3. /\ SerialFacts /\ \A q \in Requests \ {r} : req[q].at = "idle" /\ req'[q].at = "idle"
      /\ req'[r] = next
  BY <1>1, GoesOnAlone
<1>4. Retiring = {} /\ old \in Retiring' /\ \A q \in Requests : ~At(q, "issueNext")'
  BY <1>1, <1>2, <1>3 DEF Retiring, At
<1>5. /\ n \in TokenIds /\ n \notin Issued
      /\ token'[n].owner = token[old].owner /\ token'[n].family = token[old].family
      /\ \A t \in TokenIds \ {n} : token'[t] = token[t]
      /\ Live' = Live \union {n}
  BY <1>1, TokensAfterIssuing DEF SessionInvariant, OrderInvariant
<1>6. \A t \in Live : t \in TokenIds \ {n} /\ token'[t] = token[t]
  BY <1>5, LiveTokens DEF SessionInvariant, OrderInvariant
<1>7. old \in Live BY <1>1, <1>3 DEF SerialFacts, TokensContinue
<1> HIDE DEF n, old
<1>8. \A t, s \in Live : token[t].family = token[s].family => t = s
  BY <1>3, <1>4 DEF SerialFacts, TokensContinue
<1>9. \A t, s \in Live' \ Retiring' : token'[t].family = token'[s].family => t = s
  BY <1>4, <1>5, <1>6, <1>7, <1>8
<1>10. \A t \in Live' : token'[t].owner \notin ended' /\ token'[t].family \notin reused'
  BY <1>1, <1>3, <1>5, <1>6, <1>7 DEF SerialFacts, TokensContinue
<1> QED BY <1>4, <1>9, <1>10 DEF TokensContinue

LEMMA RevokingStepsAreSafe ==
  ASSUME SessionInvariant, NEW r \in Requests, Serial',
         Retire(r) \/ RevokeFamily(r) \/ RevokeAll(r)
  PROVE  TokensContinue'
<1>1. req' = [req EXCEPT ![r] = Idle] /\ Goes /\ Under(r)
  BY DEF Retire, RevokeFamily, RevokeAll, Finish, Under, At
<1>2. /\ SerialFacts /\ \A q \in Requests \ {r} : req[q].at = "idle" /\ req'[q].at = "idle"
      /\ req'[r] = Idle
  BY <1>1, GoesOnAlone
<1>3. \A q \in Requests : ~At(q, "issueNext")' /\ ~At(q, "retire")'
  BY <1>2, IdleIsRequest DEF At
<1>4. Retiring \subseteq {req[r].token} /\ (req[r].at # "retire" => Retiring = {})
  BY <1>2 DEF Retiring, At
<1>5. req[r].at \in {"retire", "revokeFamily"} => req[r].token \in Issued
  BY DEF SessionInvariant, OrderInvariant, TokenInvariant, PresentedWereIssued
<1>6. CASE Retire(r)
  <2>1. {req[r].token} \in SUBSET Issued BY <1>5, <1>6 DEF Retire, At
  <2>2. token' = Revoked({req[r].token}) /\ UNCHANGED <<ended, reused>> BY <1>6 DEF Retire, Retired
  <2> QED BY <1>2, <1>3, <1>4, <2>1, <2>2, RevokesSafely
<1>7. CASE RevokeFamily(r)
  <2> DEFINE f == token[req[r].token].family
  <2>1. OfFamily(f) \in SUBSET Issued /\ \A t \in Live : token[t].family = f => t \in OfFamily(f)
    BY LiveTokens DEF OfFamily, SessionInvariant, OrderInvariant
  <2>2. token' = Revoked(OfFamily(f)) /\ reused' = reused \union {f} /\ UNCHANGED ended
    BY <1>7 DEF RevokeFamily
  <2>3. Retiring = {} BY <1>4, <1>7 DEF RevokeFamily, At
  <2> HIDE DEF f
  <2> QED BY <1>2, <1>3, <2>1, <2>2, <2>3, RevokesSafely
<1>8. CASE RevokeAll(r)
  <2> DEFINE u == req[r].user
  <2>1. OfUser(u) \in SUBSET Issued /\ \A t \in Live : token[t].owner = u => t \in OfUser(u)
    BY LiveTokens DEF OfUser, SessionInvariant, OrderInvariant
  <2>2. token' = Revoked(OfUser(u)) /\ ended' = ended \union {u} /\ UNCHANGED reused
    BY <1>8 DEF RevokeAll, RevokeAllForUser, AllSessions
  <2>3. Retiring = {} BY <1>4, <1>8 DEF RevokeAll, At
  <2> HIDE DEF u
  <2> QED BY <1>2, <1>3, <2>1, <2>2, <2>3, RevokesSafely
<1> QED BY <1>6, <1>7, <1>8

LEMMA CodeStepsAreSafe ==
  ASSUME SessionInvariant, NEW r \in Requests, Serial',
         WithdrawCodes(r) \/ IssueCode(r) \/ CountAttempt(r) \/ ConsumeCode(r)
  PROVE  CodesServe'
<1> DEFINE u == req[r].user
<1>0. /\ OrderInvariant /\ req[r] \in Request
      /\ Goes /\ Under(r)
  BY DEF WithdrawCodes, IssueCode, CountAttempt, ConsumeCode, SessionInvariant, OrderInvariant,
     TokenInvariant, TypeOK, Under, At
<1>1. ASSUME NEW next, req' = [req EXCEPT ![r] = next]
      PROVE  /\ CodesServe /\ req'[r] = next
             /\ \A q \in Requests \ {r} : req[q].at = "idle" /\ req'[q].at = "idle"
  BY <1>0, <1>1, GoesOnAlone DEF SerialFacts
<1>2. CASE WithdrawCodes(r)
  <2> DEFINE next == [req[r] EXCEPT !.at = "issueCode"]
  <2>1. req' = [req EXCEPT ![r] = next] /\ next.at = "issueCode" /\ next.user = u
    BY <1>0, <1>2 DEF WithdrawCodes, Continue, Request
  <2> HIDE DEF next, u
  <2>2. /\ CodesServe /\ req'[r] = next /\ UNCHANGED uses
        /\ \A q \in Requests \ {r} : req'[q].at = "idle"
    BY <1>1, <1>2, <2>1 DEF WithdrawCodes
  <2>3. /\ \A c \in CodeIds :
             /\ code'[c].owner = code[c].owner
             /\ code'[c].status = IF c \in Outstanding(u) THEN "CONSUMED" ELSE code[c].status
        /\ Sent' = Sent
    BY <1>0, <1>2, CodesAfterWithdrawing DEF u
  <2>4. \A w \in Users : Outstanding(w)' \subseteq Outstanding(w)
    BY <2>3 DEF Outstanding, Sent
  <2>5. ASSUME NEW w \in Users, w = u PROVE {c \in Sent' : code'[c].owner = w /\ code'[c].status = "OUT"} = {}
    <3>1. \A c \in CodeIds : code'[c].owner = w /\ code'[c].status = "OUT" => c \notin Sent
      BY <2>3, <2>5 DEF Outstanding
    <3> QED BY <2>3, <3>1 DEF Sent
  <2>6. \A w \in Users : \A c, d \in Outstanding(w)' : c = d
    BY <2>2, <2>4 DEF CodesServe
  <2>7. \A c \in CodeIds : uses'[c] = 0 \/ (uses'[c] = 1 /\ code'[c].status = "CONSUMED")
    BY <2>2, <2>3 DEF CodesServe
  <2>8. u \in Users BY <1>0 DEF Request, u
  <2>9. \A q \in Requests : (~At(q, "consume") /\ (At(q, "issueCode") => Outstanding(req[q].user) = {}))'
    BY <2>1, <2>2, <2>5, <2>8 DEF At, Outstanding
  <2> QED BY <2>6, <2>7, <2>9 DEF CodesServe
<1>3. ASSUME Finish(r) PROVE /\ CodesServe
                            /\ \A q \in Requests : ~At(q, "consume")' /\ ~At(q, "issueCode")'
  BY <1>1, <1>3, IdleIsRequest DEF Finish, At
<1>4. CASE IssueCode(r)
  <2>1. PICK n \in CodeIds \ Sent :
           /\ code'[n].status = "OUT" /\ code'[n].owner = u
           /\ \A c \in CodeIds \ {n} : code'[c] = code[c]
           /\ Sent' = Sent \union {n}
    BY <1>0, <1>4, CodesAfterIssuing
  <2>2. /\ CodesServe /\ UNCHANGED uses
        /\ \A q \in Requests : ~At(q, "consume")' /\ ~At(q, "issueCode")'
    BY <1>3, <1>4 DEF IssueCode
  <2>3. Outstanding(u) = {} BY <1>4, <2>2 DEF CodesServe, IssueCode
  <2>4. uses[n] = 0 BY <2>1, <2>2 DEF CodesServe, Sent
  <2> HIDE DEF u
  <2>5. ASSUME NEW w \in Users, NEW c \in Outstanding(w)'
        PROVE  c \in Outstanding(w) \/ (c = n /\ w = u)
    BY <2>1, <2>5 DEF Outstanding, Sent
  <2>6. \A w \in Users : \A c, d \in Outstanding(w)' : c = d
    BY <2>2, <2>3, <2>5 DEF CodesServe
  <2>7. \A c \in CodeIds : uses'[c] = 0 \/ (uses'[c] = 1 /\ code'[c].status = "CONSUMED")
    BY <2>1, <2>2, <2>4 DEF CodesServe
  <2> QED BY <2>2, <2>6, <2>7 DEF CodesServe
<1>5. CASE CountAttempt(r)
  <2>1. /\ \A c \in CodeIds : code'[c].owner = code[c].owner /\ code'[c].status = code[c].status
        /\ Sent' = Sent
    BY <1>0, <1>5, CodesAfterCounting
  <2>2. /\ CodesServe /\ UNCHANGED uses
        /\ \A q \in Requests : ~At(q, "consume")' /\ ~At(q, "issueCode")'
    BY <1>3, <1>5 DEF CountAttempt
  <2>3. \A w \in Users : Outstanding(w)' \subseteq Outstanding(w) BY <2>1 DEF Outstanding, Sent
  <2>4. \A w \in Users : \A c, d \in Outstanding(w)' : c = d BY <2>2, <2>3 DEF CodesServe
  <2> QED BY <2>1, <2>2, <2>4 DEF CodesServe
<1>6. CASE ConsumeCode(r)
  <2> DEFINE d == req[r].code
             next == [Idle EXCEPT !.at = "update", !.user = u]
  <2>1. next.at = "update" BY DEF Idle
  <2>2. req' = [req EXCEPT ![r] = next] \/ Finish(r) BY <1>6 DEF ConsumeCode
  <2> HIDE DEF next, u
  <2>3. /\ CodesServe /\ \A q \in Requests : ~At(q, "consume")' /\ ~At(q, "issueCode")'
    <3>1. ASSUME req' = [req EXCEPT ![r] = next]
          PROVE  CodesServe /\ \A q \in Requests : ~At(q, "consume")' /\ ~At(q, "issueCode")'
      BY <1>1, <2>1, <3>1 DEF At
    <3> QED BY <1>3, <2>2, <3>1
  <2>4. /\ d \in CodeIds
        /\ \A c \in CodeIds :
             /\ code'[c].owner = code[c].owner
             /\ code'[c].status = IF c = d THEN "CONSUMED" ELSE code[c].status
             /\ uses'[c] = IF c = d THEN uses[c] + 1 ELSE uses[c]
        /\ Sent' = Sent
    BY <1>0, <1>6, CodesAfterConsuming
  <2>5. uses[d] = 0 BY <1>6, <2>3, <2>4 DEF CodesServe, ConsumeCode
  <2> HIDE DEF d
  <2>6. \A w \in Users : Outstanding(w)' \subseteq Outstanding(w) BY <2>4 DEF Outstanding, Sent
  <2>7. \A w \in Users : \A a, b \in Outstanding(w)' : a = b BY <2>3, <2>6 DEF CodesServe
  <2>8. \A c \in CodeIds : uses'[c] = 0 \/ (uses'[c] = 1 /\ code'[c].status = "CONSUMED")
    BY <2>3, <2>4, <2>5 DEF CodesServe
  <2> QED BY <2>3, <2>7, <2>8 DEF CodesServe
<1> QED BY <1>2, <1>4, <1>5, <1>6

LEMMA StepIsSafe ==
  ASSUME SessionInvariant, NEW r \in Requests, Step(r), Serial'
  PROVE  SerialFacts'
<1>0. Goes /\ Under(r) /\ req \in [Requests -> Request]
  BY DEF Step, Issue, IssueNext, Retire, RevokeFamily, WithdrawCodes, IssueCode, CountAttempt,
     ConsumeCode, UpdatePassword, RevokeAll, At, Under, SessionInvariant, OrderInvariant,
     TokenInvariant, TypeOK
<1>1. ASSUME NEW next, req' = [req EXCEPT ![r] = next]
      PROVE  /\ SerialFacts /\ Alone' /\ req'[r] = next
             /\ \A q \in Requests \ {r} : req[q].at = "idle" /\ req'[q].at = "idle"
  BY <1>0, <1>1, GoesOnAlone
<1>2. \E next : req' = [req EXCEPT ![r] = next]
  BY DEF Step, Issue, IssueNext, Retire, RevokeFamily, WithdrawCodes, IssueCode, CountAttempt,
     ConsumeCode, UpdatePassword, RevokeAll, Finish, Continue
<1>3. CASE Issue(r) \/ IssueNext(r) \/ Retire(r) \/ RevokeFamily(r) \/ RevokeAll(r)
  <2>1. TokensContinue' BY <1>3, IssueIsSafe, IssueNextIsSafe, RevokingStepsAreSafe
  <2>2. PICK next : req' = [req EXCEPT ![r] = next] /\ next.at \in {"idle", "retire"}
    <3>1. [req[r] EXCEPT !.at = "retire"].at = "retire" BY <1>0 DEF Request
    <3> QED BY <1>3, <3>1, IdleIsRequest
        DEF Issue, IssueNext, Retire, RevokeFamily, RevokeAll, Finish, Continue
  <2>3. SerialFacts /\ Alone' /\ \A q \in Requests : ~At(q, "issueCode")' /\ ~At(q, "consume")'
    BY <1>1, <2>2 DEF At
  <2>4. CodesServe'
    BY <1>3, <2>3, CodesUndisturbed
       DEF SerialFacts, Issue, IssueNext, Retire, RevokeFamily, RevokeAll
  <2> QED BY <2>1, <2>3, <2>4 DEF SerialFacts
<1>4. CASE WithdrawCodes(r) \/ IssueCode(r) \/ CountAttempt(r) \/ ConsumeCode(r)
  <2>1. CodesServe' BY <1>4, CodeStepsAreSafe
  <2>2. PICK next : /\ req' = [req EXCEPT ![r] = next]
                    /\ next.at \in {"idle", "issueCode", "update"}
    <3>1. [req[r] EXCEPT !.at = "issueCode"].at = "issueCode" BY <1>0 DEF Request
    <3>2. [Idle EXCEPT !.at = "update", !.user = req[r].user].at = "update" BY DEF Idle
    <3> QED BY <1>4, <3>1, <3>2, IdleIsRequest
        DEF WithdrawCodes, IssueCode, CountAttempt, ConsumeCode, Finish, Continue
  <2>3. req[r].at # "retire"
    BY <1>4 DEF At, WithdrawCodes, IssueCode, CountAttempt, ConsumeCode
  <2>4. SerialFacts /\ Alone' /\ \A q \in Requests : ~At(q, "issueNext")' /\ ~At(q, "retire")
    BY <1>1, <2>2, <2>3 DEF At
  <2>5. TokensContinue'
    BY <1>4, <2>4, TokensUndisturbed
       DEF SerialFacts, WithdrawCodes, IssueCode, CountAttempt, ConsumeCode
  <2> QED BY <2>1, <2>4, <2>5 DEF SerialFacts
<1>5. CASE UpdatePassword(r)
  <2> DEFINE next == [req[r] EXCEPT !.at = "revokeAll"]
  <2>1. req' = [req EXCEPT ![r] = next] /\ next.at = "revokeAll" /\ req[r].at = "update"
        /\ UNCHANGED <<token, code, uses, ended, reused>>
    BY <1>0, <1>5 DEF UpdatePassword, Continue, Request, At, rows
  <2> HIDE DEF next
  <2>2. /\ SerialFacts /\ Alone'
        /\ \A q \in Requests : ~At(q, "retire") /\ ~At(q, "issueNext")' /\ ~At(q, "issueCode")'
                               /\ ~At(q, "consume")'
    BY <1>1, <2>1 DEF At
  <2> QED BY <2>1, <2>2, TokensUndisturbed, CodesUndisturbed DEF SerialFacts
<1> QED BY <1>3, <1>4, <1>5 DEF Step

(* Logouts and changes of the account find nothing under way.               *)
LEMMA BesideIsSafe ==
  ASSUME SessionInvariant, Serial',
         \/ \E t \in TokenIds : Logout(t)
         \/ \E u \in Users : LogoutEverywhere(u) \/ ChangeStatus(u)
  PROVE  SerialFacts'
<1>1. /\ SerialFacts /\ \A q \in Requests : req[q].at = "idle"
      /\ UNCHANGED <<code, uses, reused, req>>
  BY NothingArrivesBeside DEF Logout, LogoutEverywhere, ChangeStatus, Under
<1>2. Alone' BY <1>1 DEF Alone, Under
<1>3. \A q \in Requests : /\ ~At(q, "retire") /\ ~At(q, "issueNext")' /\ ~At(q, "retire")'
                          /\ ~At(q, "issueCode")' /\ ~At(q, "consume")'
  BY <1>1 DEF At
<1>4. CodesServe' BY <1>1, <1>3, CodesUndisturbed DEF SerialFacts
<1>5. Retiring = {} BY <1>3 DEF Retiring
<1>6. CASE \E t \in TokenIds : Logout(t)
  <2>1. PICK t \in TokenIds : Logout(t) BY <1>6
  <2>2. {t} \in SUBSET Issued /\ token' = Revoked({t}) /\ UNCHANGED ended
    BY <2>1 DEF Logout, Issued
  <2>3. TokensContinue' BY <1>1, <1>3, <1>5, <2>2, RevokesSafely
  <2> QED BY <1>2, <1>4, <2>3 DEF SerialFacts
<1>7. CASE \E u \in Users : LogoutEverywhere(u)
  <2>1. PICK u \in Users : LogoutEverywhere(u) BY <1>7
  <2>2. OfUser(u) \in SUBSET Issued /\ \A t \in Live : token[t].owner = u => t \in OfUser(u)
    BY LiveTokens DEF OfUser, SessionInvariant, OrderInvariant
  <2>3. token' = Revoked(OfUser(u)) /\ ended' = ended \union {u}
    BY <2>1 DEF LogoutEverywhere, RevokeAllForUser, AllSessions
  <2>4. TokensContinue' BY <1>1, <1>3, <1>5, <2>2, <2>3, RevokesSafely
  <2> QED BY <1>2, <1>4, <2>4 DEF SerialFacts
<1>8. CASE \E u \in Users : ChangeStatus(u)
  <2>1. UNCHANGED <<token, ended>> BY <1>8 DEF ChangeStatus
  <2>2. TokensContinue' BY <1>1, <1>3, <2>1, TokensUndisturbed DEF SerialFacts
  <2> QED BY <1>2, <1>4, <2>2 DEF SerialFacts
<1> QED BY <1>6, <1>7, <1>8

-----------------------------------------------------------------------------
LEMMA InitialSessions == Init => SessionInvariant
<1> SUFFICES ASSUME Init PROVE SessionInvariant OBVIOUS
<1>1. TokenInvariant BY InitialTokens
<1>2. \A r \in Requests : req[r].at = "idle" BY IdleIsRequest DEF Init
<1>3. Sent = {} /\ Live = {} /\ reused = {} BY DEF Init, Sent, Live
<1>4. SentInOrder
  <2>1. 0 \in 0..MaxCodes /\ 1..0 = {} BY Bounds
  <2> QED BY <1>3, <2>1 DEF SentInOrder
<1>5. ConsumedWereSent /\ Alone BY <1>2 DEF ConsumedWereSent, Alone, At, Under
<1>6. TokensContinue BY <1>2, <1>3 DEF TokensContinue, At
<1>7. CodesServe BY <1>2, <1>3 DEF Init, CodesServe, Outstanding, At
<1> QED BY <1>1, <1>3, <1>4, <1>5, <1>6, <1>7
    DEF SessionInvariant, OrderInvariant, ReusedWereStarted, SerialFacts

LEMMA StepsKeepSessions == SessionInvariant /\ [Next]_vars => SessionInvariant'
<1> SUFFICES ASSUME SessionInvariant, [Next]_vars PROVE SessionInvariant' OBVIOUS
<1>1. OrderInvariant' BY StepsKeepOrder DEF SessionInvariant
<1>2. ASSUME Serial' PROVE SerialFacts'
  <2>1. ASSUME NEW r \in Requests, Begins(r) \/ Step(r) PROVE SerialFacts'
    BY <1>2, <2>1, BeginsSafely, StepIsSafe
  <2>2. ASSUME NEW r \in Requests, Fail(r) PROVE FALSE
    BY <1>2, <2>2 DEF Fail, Serial, SessionInvariant, OrderInvariant, TokenInvariant, TypeOK
  <2>3. CASE \/ \E t \in TokenIds : Logout(t)
             \/ \E u \in Users : LogoutEverywhere(u) \/ ChangeStatus(u)
    BY <1>2, <2>3, BesideIsSafe
  <2>4. CASE UNCHANGED vars
    <3>1. SerialFacts /\ UNCHANGED <<token, code, uses, ended, reused, req>>
      BY <1>2, <2>4 DEF vars, rows, SessionInvariant, Serial
    <3>2. Alone' BY <3>1 DEF SerialFacts, Alone, Under
    <3>3. TokensContinue' BY <3>1 DEF SerialFacts, TokensContinue, Live, Retiring, At
    <3>4. CodesServe' BY <3>1 DEF SerialFacts, CodesServe, Outstanding, Sent, At
    <3> QED BY <3>2, <3>3, <3>4 DEF SerialFacts
  <2> QED BY <2>1, <2>2, <2>3, <2>4 DEF Next
<1> QED BY <1>1, <1>2 DEF SessionInvariant

LEMMA SessionsAlways == Spec => []SessionInvariant
BY InitialSessions, StepsKeepSessions, PTL DEF Spec

(* Rotation replaces: while nothing overlaps or fails one token continues a *)
(* session at most, and none does once a password was changed, every       *)
(* session was logged out or a revoked token of the family was presented.  *)
THEOREM SessionsAlwaysEnd == Spec => []SessionsEnd
<1>1. ASSUME SessionInvariant PROVE SessionsEnd
  <2>1. TypeOK BY <1>1 DEF SessionInvariant, OrderInvariant, TokenInvariant
  <2>2. ASSUME Quiet PROVE TokensContinue /\ Retiring = {}
    <3>1. TokensContinue BY <1>1, <2>2 DEF Quiet, SessionInvariant, Serial, SerialFacts
    <3>2. Retiring = {} BY <2>2 DEF Quiet, Retiring, At, Under
    <3> QED BY <3>1, <3>2
  <2>3. OneLiveTokenPerFamily BY <2>2 DEF OneLiveTokenPerFamily, TokensContinue
  <2>4. EndedSessionsStayEnded BY <2>2 DEF EndedSessionsStayEnded, TokensContinue
  <2> QED BY <2>1, <2>3, <2>4 DEF SessionsEnd
<1> QED BY <1>1, SessionsAlways, PTL

(* A set all of whose members are the same has one member at most.          *)
LEMMA AtMostOne ==
  ASSUME NEW S, \A x, y \in S : x = y
  PROVE  Cardinality(S) <= 1
<1>1. CASE S = {} BY <1>1, FS_EmptySet
<1>2. ASSUME NEW x \in S PROVE Cardinality(S) <= 1
  <2>1. S = {x} BY <1>2
  <2> QED BY <2>1, FS_Singleton
<1> QED BY <1>1, <1>2

(* A one-time code is the only one of its account and is used once while   *)
(* nothing overlaps or fails, and is tried a limited number of times        *)
(* whatever does.                                                          *)
THEOREM CodesAlwaysLimited == Spec => []CodesAreLimited
<1>1. ASSUME SessionInvariant, AttemptsAreLimited PROVE CodesAreLimited
  <2>1. ASSUME Quiet PROVE CodesServe
    BY <1>1, <2>1 DEF Quiet, SessionInvariant, Serial, SerialFacts
  <2>2. OneOutstandingCode BY <2>1, AtMostOne DEF OneOutstandingCode, CodesServe
  <2>3. CodesAreUsedOnce BY <2>1 DEF CodesAreUsedOnce, CodesServe
  <2> QED BY <1>1, <2>2, <2>3 DEF CodesAreLimited
<1> QED BY <1>1, SessionsAlways, GuessesAreLimited, PTL
=============================================================================
