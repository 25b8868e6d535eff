--------------------------- MODULE SessionsProofs ---------------------------
(***************************************************************************)
(* The safety properties of Sessions for any users, tokens and requests.   *)
(*                                                                         *)
(* The argument: a session is carried by at most one thing at a time, a    *)
(* token of the table or a request between deleting its token and adding   *)
(* the next; a log-out takes it from the table, and nobody else has it.    *)
(* Access adds the clock: as nothing is signed for a session that has      *)
(* ended, its tokens are no younger than its end.                          *)
(***************************************************************************)
EXTENDS Access, TLAPS

\* Request r has deleted its token and not added the next one.
Carries(r) == req[r].pc = "sign" /\ req[r].token # NoToken

\* Whatever is known of a token, it was issued; and so was the first of its session.
IssuedInv ==
    /\ allowed \subseteq Issued
    /\ held \subseteq Issued
    /\ ended \subseteq Issued
    /\ \A t \in Issued : session[t] \in Issued
    /\ \A r \in Requests :
         /\ req[r].token # NoToken => req[r].token \in Issued
         /\ req[r].pc \in {"answer", "rotate", "logout"} => req[r].token # NoToken
         /\ req[r].pc = "insert" => req[r].info \in Info

\* An issued token is in the table or was deleted.
KeptInv == Issued \subseteq allowed \cup used \cup ended \cup unsure

\* A session is carried once, and not at all when it has ended.
LineInv ==
    /\ OneTokenPerSession
    /\ LogoutIsFinal
    /\ \A r \in Requests : Carries(r) =>
         /\ \A t \in allowed \cup ended : session[req[r].token] # session[t]
         /\ \A q \in Requests :
              Carries(q) /\ session[req[q].token] = session[req[r].token] => q = r

IInv == TypeOK /\ UniqueUsers /\ IssuedInv /\ KeptInv /\ LineInv

-----------------------------------------------------------------------------
\* The initial states satisfy the invariant.
LEMMA InitInv == Init => IInv
  <1> SUFFICES ASSUME Init PROVE IInv
      OBVIOUS
  <1> USE DEF Init
  <1>1. TypeOK
        BY DEF TypeOK, Idle, Request, NoInfo
  <1>2. Issued = {} /\ Registered = {}
        BY DEF Issued, Registered
  <1>3. UniqueUsers /\ IssuedInv /\ KeptInv
        BY <1>2 DEF UniqueUsers, IssuedInv, KeptInv, Idle
  <1>4. LineInv
        BY DEF LineInv, OneTokenPerSession, LogoutIsFinal, Carries, Idle
  <1> QED BY <1>1, <1>3, <1>4 DEF IInv

\* The fields of a request.
LEMMA RequestFields ==
    ASSUME TypeOK, NEW r \in Requests
    PROVE  /\ req[r] \in Request
           /\ req[r].info \in Info \cup {NoInfo}
           /\ req[r].user \in Users \cup {NoUser}
           /\ req[r].token \in Tokens \cup {NoToken}
  BY DEF TypeOK, Request

\* An idle request, and one that is signed for.
LEMMA NewRequests ==
    /\ Idle \in Request
    /\ \A u \in Users \cup {NoUser} : [Idle EXCEPT !.pc = "sign", !.user = u] \in Request
  BY DEF Idle, Request

\* What AddToken does.
LEMMA AddTokenType ==
    ASSUME TypeOK, NEW r \in Requests, NEW t \in Tokens, AddToken(r, t)
    PROVE  /\ allowed' \in SUBSET Tokens
           /\ owner' \in [Tokens -> Users \cup {NoUser}]
           /\ session' \in [Tokens -> Tokens \cup {NoToken}]
  BY RequestFields DEF AddToken, TypeOK

\* Every action keeps the types.
LEMMA TypeInv == ASSUME TypeOK, IssuedInv, [Next]_vars PROVE TypeOK'
  <1> USE DEF TypeOK
  <1>1. ASSUME NEW r \in Requests, NEW i \in Info, StartRegistration(r, i) PROVE TypeOK'
    <2>1. [Idle EXCEPT !.pc = "insert", !.info = i] \in Request
          BY DEF Idle, Request
    <2> QED BY <1>1, <2>1 DEF StartRegistration
  <1>2. ASSUME NEW r \in Requests, NEW u \in Users, Login(r, u) PROVE TypeOK'
        BY <1>2, NewRequests DEF Login
  <1>3. ASSUME NEW r \in Requests, NEW t \in Tokens, NEW pc \in {"rotate", "logout"},
               Present(r, t, pc)
        PROVE  TypeOK'
    <2>1. [Idle EXCEPT !.pc = pc, !.user = owner[t], !.token = t] \in Request
          BY DEF Idle, Request
    <2> QED BY <1>3, <2>1 DEF Present
  <1>4. ASSUME NEW r \in Requests, InsertUser(r) PROVE TypeOK'
    <2>1. PICK u \in Users \ Registered :
             /\ account' = [account EXCEPT ![u] = req[r].info]
             /\ req' = [req EXCEPT ![r] = [Idle EXCEPT !.pc = "sign", !.user = u]]
          BY <1>4 DEF InsertUser
    <2>2. account' \in [Users -> Info \cup {NoInfo}] /\ req' \in [Requests -> Request]
          BY <2>1, RequestFields, NewRequests
    <2> QED BY <1>4, <2>2 DEF InsertUser
  <1>5. ASSUME NEW r \in Requests, InsertUserFailed(r) PROVE TypeOK'
        BY <1>5, RequestFields, NewRequests DEF InsertUserFailed
  <1>6. ASSUME NEW r \in Requests, Sign(r) PROVE TypeOK'
    <2>1. PICK t \in Tokens :
             /\ AddToken(r, t)
             /\ req' = [req EXCEPT ![r] = [@ EXCEPT !.pc = "answer", !.token = t]]
          BY <1>6 DEF Sign
    <2>2. [req[r] EXCEPT !.pc = "answer", !.token = t] \in Request
          BY RequestFields DEF Request
    <2> QED BY <1>6, <2>1, <2>2, AddTokenType DEF Sign
  <1>7. ASSUME NEW r \in Requests, SignFailed(r) PROVE TypeOK'
        BY <1>7, AddTokenType, NewRequests DEF SignFailed
  <1>8. ASSUME NEW r \in Requests, Answer(r) PROVE TypeOK'
    <2>1. req[r].token \in Tokens
          BY <1>8, RequestFields DEF Answer, IssuedInv
    <2> QED BY <1>8, <2>1, NewRequests DEF Answer
  <1>9. ASSUME NEW r \in Requests, Abandon(r) \/ Banned(r) PROVE TypeOK'
        BY <1>9, NewRequests DEF Abandon, Banned
  <1>10. ASSUME NEW r \in Requests, req[r].pc \in {"rotate", "logout"} PROVE req[r].token \in Tokens
        BY <1>10, RequestFields DEF IssuedInv
  <1>11. ASSUME NEW r \in Requests, Rotate(r) PROVE TypeOK'
    <2>1. [req[r] EXCEPT !.pc = "sign"] \in Request
          BY RequestFields DEF Request
    <2> QED BY <1>10, <1>11, <2>1 DEF Rotate, DeleteToken
  <1>12. ASSUME NEW r \in Requests, Logout(r) PROVE TypeOK'
        BY <1>10, <1>12, NewRequests DEF Logout, DeleteToken
  <1>13. ASSUME NEW r \in Requests, DeleteFailed(r) PROVE TypeOK'
        BY <1>10, <1>13, NewRequests DEF DeleteFailed
  <1>14. CASE UNCHANGED vars
        BY <1>14 DEF vars
  <1> QED BY <1>1, <1>2, <1>3, <1>4, <1>5, <1>6, <1>7, <1>8, <1>9, <1>11, <1>12, <1>13, <1>14
          DEF Next

-----------------------------------------------------------------------------
\* No action gives a login or an email to two users.
LEMMA UniqueInv == ASSUME TypeOK, IssuedInv, UniqueUsers, [Next]_vars PROVE UniqueUsers'
  <1>1. ASSUME NEW r \in Requests, NEW u \in Users \ Registered, req[r].pc = "insert",
               Matching(req[r].info) = {}, account' = [account EXCEPT ![u] = req[r].info]
        PROVE  UniqueUsers'
    <2>1. Registered' \subseteq Registered \cup {u}
          BY <1>1 DEF Registered, TypeOK
    <2>2. account'[u] = req[r].info /\ \A v \in Registered : account'[v] = account[v]
          BY <1>1 DEF Registered, TypeOK
    <2>3. \A v \in Registered :
             account[v].login # req[r].info.login /\ account[v].email # req[r].info.email
          BY <1>1 DEF Matching
    <2> QED BY <2>1, <2>2, <2>3 DEF UniqueUsers
  <1>2. CASE UNCHANGED account
        BY <1>2 DEF UniqueUsers, Registered
  <1>3. ASSUME NEW r \in Requests, InsertUser(r) \/ InsertUserFailed(r) PROVE UniqueUsers'
        BY <1>1, <1>2, <1>3 DEF InsertUser, InsertUserFailed
  <1> QED BY <1>2, <1>3 DEF Next, vars, StartRegistration, Login, Present, Sign, SignFailed,
             Answer, Abandon, Rotate, Logout, Banned, DeleteFailed, DeleteToken

\* A step of request r that leaves the tokens alone and does not begin to carry one.
LEMMA QuietStep ==
    ASSUME IInv, NEW r \in Requests, NEW x, req' = [req EXCEPT ![r] = x],
           x.pc = "sign" => x.token = NoToken,
           x.token # NoToken => x.token \in Issued,
           x.pc \in {"answer", "rotate", "logout"} => x.token # NoToken,
           x.pc = "insert" => x.info \in Info,
           held' \subseteq Issued,
           UNCHANGED <<allowed, session, used, ended, unsure>>
    PROVE  IssuedInv' /\ KeptInv' /\ LineInv'
  <1>1. Issued' = Issued
        BY DEF Issued
  <1>2. \A q \in Requests : req'[q] = IF q = r THEN x ELSE req[q]
        BY DEF IInv, TypeOK
  <1>3. IssuedInv'
        BY <1>1, <1>2 DEF IInv, IssuedInv
  <1>4. KeptInv'
        BY <1>1 DEF IInv, KeptInv
  <1>5. \A q \in Requests : Carries(q)' => q # r /\ Carries(q) /\ req'[q] = req[q]
        BY <1>2 DEF Carries
  <1>6. LineInv'
        BY <1>5 DEF IInv, LineInv, OneTokenPerSession, LogoutIsFinal
  <1> QED BY <1>3, <1>4, <1>6

\* Request r adds the next token of the session it carries, or the first of a new one.
LEMMA AddStep ==
    ASSUME IInv, NEW r \in Requests, NEW t \in Tokens, NEW x,
           req[r].pc = "sign", AddToken(r, t), req' = [req EXCEPT ![r] = x],
           x.pc \in {"idle", "answer"}, x.token \in {t, NoToken}, x.pc = "answer" => x.token = t,
           UNCHANGED <<held, used, ended, unsure>>
    PROVE  IssuedInv' /\ KeptInv' /\ LineInv'
  <1> DEFINE s == IF req[r].token = NoToken THEN t ELSE session[req[r].token]
  <1>1. t \notin Issued /\ t # NoToken
        BY ConstantsAssumption DEF AddToken
  <1>2. req[r].token # NoToken => req[r].token \in Issued /\ session[req[r].token] \in Issued
        BY DEF IInv, IssuedInv
  <1>3. session'[t] = s /\ \A k \in Tokens \ {t} : session'[k] = session[k]
        BY DEF AddToken, IInv, TypeOK
  <1>4. s \in Issued \cup {t} /\ s # NoToken
        BY <1>1, <1>2 DEF Issued, IInv, TypeOK
  <1>5. Issued' = Issued \cup {t}
        BY <1>3, <1>4 DEF Issued
  <1>6. \A k \in Issued : session'[k] = session[k]
        BY <1>1, <1>3 DEF Issued
  <1>7. \A q \in Requests : req'[q] = IF q = r THEN x ELSE req[q]
        BY DEF IInv, TypeOK
  <1>8. allowed' = allowed \cup {t} /\ allowed \subseteq Issued /\ ended \subseteq Issued
        BY DEF AddToken, IInv, IssuedInv
  <1>9. IssuedInv'
    <2>1. allowed' \subseteq Issued' /\ held' \subseteq Issued' /\ ended' \subseteq Issued'
          BY <1>5, <1>8 DEF IInv, IssuedInv
    <2>2. \A k \in Issued' : session'[k] \in Issued'
          BY <1>3, <1>4, <1>5, <1>6 DEF IInv, IssuedInv
    <2>3. ASSUME NEW q \in Requests
          PROVE  /\ req'[q].token # NoToken => req'[q].token \in Issued'
                 /\ req'[q].pc \in {"answer", "rotate", "logout"} => req'[q].token # NoToken
                 /\ req'[q].pc = "insert" => req'[q].info \in Info
          BY <1>1, <1>5, <1>7 DEF IInv, IssuedInv
    <2> QED BY <2>1, <2>2, <2>3 DEF IssuedInv
  <1>10. KeptInv'
        BY <1>5, <1>8 DEF IInv, KeptInv
  <1>11. \A k \in allowed \cup ended : session[k] # s
    <2>1. CASE req[r].token = NoToken
          BY <1>1, <1>8, <2>1 DEF IInv, IssuedInv
    <2>2. CASE req[r].token # NoToken
          BY <2>2 DEF IInv, LineInv, Carries
    <2> QED BY <2>1, <2>2
  <1>12. \A q \in Requests : Carries(q)' =>
            /\ q # r
            /\ Carries(q)
            /\ req'[q] = req[q]
            /\ req[q].token \in Issued
        BY <1>7 DEF Carries, IInv, IssuedInv
  <1>13. \A q \in Requests : Carries(q)' => session[req[q].token] # s
    <2>1. CASE req[r].token = NoToken
          BY <1>1, <1>12, <2>1 DEF IInv, IssuedInv
    <2>2. CASE req[r].token # NoToken
          BY <1>12, <2>2 DEF IInv, LineInv, Carries
    <2> QED BY <2>1, <2>2
  <1>14. OneTokenPerSession' /\ LogoutIsFinal'
        BY <1>3, <1>6, <1>8, <1>11 DEF IInv, LineInv, OneTokenPerSession, LogoutIsFinal
  <1>15. LineInv'
        BY <1>3, <1>6, <1>8, <1>12, <1>13, <1>14 DEF IInv, LineInv
  <1> QED BY <1>9, <1>10, <1>15

\* Request r deletes its token (or fails to) and goes on as x.
LEMMA DeleteStep ==
    ASSUME IInv, NEW r \in Requests, NEW x, NEW t \in Issued, req[r].token = t,
           req' = [req EXCEPT ![r] = x],
           x.pc \in {"idle", "sign"}, x.token \in {t, NoToken},
           allowed' \in {allowed, allowed \ {t}},
           t \in used' \cup ended' \cup unsure',
           used \subseteq used', unsure \subseteq unsure',
           ended' = ended \/ (ended' = ended \cup {t} /\ t \in allowed /\ t \notin allowed'),
           x.pc = "sign" /\ x.token = t => ended' = ended /\ t \in allowed /\ t \notin allowed',
           ended' # ended => x.pc = "idle",
           UNCHANGED <<held, session>>
    PROVE  IssuedInv' /\ KeptInv' /\ LineInv'
  <1>1. Issued' = Issued
        BY DEF Issued
  <1>2. \A q \in Requests : req'[q] = IF q = r THEN x ELSE req[q]
        BY DEF IInv, TypeOK
  <1>3. IssuedInv'
        BY <1>1, <1>2 DEF IInv, IssuedInv
  <1>4. KeptInv'
        BY <1>1 DEF IInv, KeptInv
  <1>5. \A s \in allowed' : s \in allowed
        OBVIOUS
  <1>6. t \in allowed /\ t \notin allowed' =>
          /\ \A s \in allowed' \cup ended : session[s] # session[t]
          /\ \A q \in Requests : Carries(q) => session[req[q].token] # session[t]
        BY <1>5 DEF IInv, LineInv, OneTokenPerSession, LogoutIsFinal
  <1>7. \A q \in Requests : Carries(q)' =>
          \/ q # r /\ Carries(q) /\ req'[q] = req[q]
          \/ /\ q = r
             /\ req'[q].token = t
             /\ ended' = ended
             /\ t \in allowed
             /\ t \notin allowed'
        BY <1>2 DEF Carries
  <1>8. OneTokenPerSession'
        BY <1>5 DEF IInv, LineInv, OneTokenPerSession
  <1>9. LogoutIsFinal'
        BY <1>5, <1>6 DEF IInv, LineInv, LogoutIsFinal
  <1>10. ASSUME NEW q \in Requests, Carries(q)'
        PROVE  /\ \A s \in allowed' \cup ended' : session[req'[q].token] # session[s]
               /\ \A p \in Requests :
                    Carries(p)' /\ session[req'[p].token] = session[req'[q].token] => p = q
    <2>1. CASE q = r
          BY <1>6, <1>7, <1>10, <2>1
    <2>2. CASE q # r
      <3>1. Carries(q) /\ req'[q] = req[q]
            BY <1>7, <1>10, <2>2
      <3>2. \A s \in allowed' \cup ended' : session[req'[q].token] # session[s]
            BY <1>5, <1>6, <3>1 DEF IInv, LineInv
      <3>3. \A p \in Requests :
               Carries(p)' /\ session[req'[p].token] = session[req'[q].token] => p = q
            BY <1>6, <1>7, <3>1 DEF IInv, LineInv
      <3> QED BY <3>2, <3>3
    <2> QED BY <2>1, <2>2
  <1>11. LineInv'
        BY <1>8, <1>9, <1>10 DEF LineInv
  <1> QED BY <1>3, <1>4, <1>11
-----------------------------------------------------------------------------
\* The rest of the invariant, action by action.
LEMMA TokenInv == ASSUME IInv, [Next]_vars PROVE IssuedInv' /\ KeptInv' /\ LineInv'
  <1> DEFINE Goal == IssuedInv' /\ KeptInv' /\ LineInv'
  <1>1. TypeOK /\ IssuedInv /\ held \subseteq Issued
        BY DEF IInv, IssuedInv
  <1>2. ASSUME NEW r \in Requests, req' = [req EXCEPT ![r] = Idle], held' \subseteq Issued,
               UNCHANGED <<allowed, session, used, ended, unsure>>
        PROVE  Goal
        BY <1>2, QuietStep, Zenon DEF Idle
  <1>3. ASSUME NEW r \in Requests, NEW i \in Info, StartRegistration(r, i) PROVE Goal
    <2> DEFINE x == [Idle EXCEPT !.pc = "insert", !.info = i]
    <2>1. x.pc = "insert" /\ x.token = NoToken /\ x.info = i
          BY DEF Idle
    <2>2. req' = [req EXCEPT ![r] = x] /\ UNCHANGED <<allowed, session, used, ended, unsure, held>>
          BY <1>3 DEF StartRegistration
    <2> HIDE DEF x
    <2> QED BY <1>1, <2>1, <2>2, QuietStep
  <1>4. ASSUME NEW r \in Requests, NEW u,
               req' = [req EXCEPT ![r] = [Idle EXCEPT !.pc = "sign", !.user = u]],
               UNCHANGED <<allowed, session, used, ended, unsure, held>>
        PROVE  Goal
    <2> DEFINE x == [Idle EXCEPT !.pc = "sign", !.user = u]
    <2>1. x.pc = "sign" /\ x.token = NoToken
          BY DEF Idle
    <2>2. req' = [req EXCEPT ![r] = x]
          BY <1>4
    <2> HIDE DEF x
    <2> QED BY <1>1, <1>4, <2>1, <2>2, QuietStep
  <1>5. ASSUME NEW r \in Requests, NEW u \in Users, Login(r, u) PROVE Goal
        BY <1>4, <1>5 DEF Login
  <1>6. ASSUME NEW r \in Requests, InsertUser(r) PROVE Goal
        BY <1>4, <1>6 DEF InsertUser
  <1>7. ASSUME NEW r \in Requests, NEW t \in Tokens, NEW pc \in {"rotate", "logout"},
               Present(r, t, pc)
        PROVE  Goal
    <2> DEFINE x == [Idle EXCEPT !.pc = pc, !.user = owner[t], !.token = t]
    <2>1. x.pc \in {"rotate", "logout"} /\ x.token = t
          BY DEF Idle
    <2>2. req' = [req EXCEPT ![r] = x] /\ UNCHANGED <<allowed, session, used, ended, unsure, held>>
          BY <1>7 DEF Present
    <2>3. t \in Issued /\ t # NoToken
          BY <1>1, <1>7, ConstantsAssumption DEF Present
    <2> HIDE DEF x
    <2> QED BY <1>1, <2>1, <2>2, <2>3, QuietStep
  <1>8. ASSUME NEW r \in Requests, InsertUserFailed(r) \/ Abandon(r) \/ Banned(r) PROVE Goal
        BY <1>1, <1>2, <1>8 DEF InsertUserFailed, Abandon, Banned
  <1>9. ASSUME NEW r \in Requests, Sign(r) PROVE Goal
    <2>1. PICK t \in Tokens :
             /\ AddToken(r, t)
             /\ req' = [req EXCEPT ![r] = [@ EXCEPT !.pc = "answer", !.token = t]]
          BY <1>9 DEF Sign
    <2> DEFINE x == [req[r] EXCEPT !.pc = "answer", !.token = t]
    <2>2. x.pc = "answer" /\ x.token = t
          BY <1>1, RequestFields DEF Request
    <2>3. req' = [req EXCEPT ![r] = x]
          BY <2>1
    <2> HIDE DEF x
    <2> QED BY <1>9, <2>1, <2>2, <2>3, AddStep DEF Sign
  <1>10. ASSUME NEW r \in Requests, SignFailed(r) PROVE Goal
    <2>1. CASE UNCHANGED <<allowed, owner, session>>
          BY <1>1, <1>2, <1>10, <2>1 DEF SignFailed
    <2>2. ASSUME NEW t \in Tokens, AddToken(r, t) PROVE Goal
      <3>1. Idle.pc = "idle" /\ Idle.token = NoToken
            BY DEF Idle
      <3> QED BY <1>10, <2>2, <3>1, AddStep DEF SignFailed
    <2> QED BY <1>10, <2>1, <2>2 DEF SignFailed
  <1>11. ASSUME NEW r \in Requests, Answer(r) PROVE Goal
    <2>1. req[r].token \in Issued
          BY <1>11 DEF Answer, IInv, IssuedInv
    <2> QED BY <1>1, <1>2, <1>11, <2>1 DEF Answer
  <1>12. ASSUME NEW r \in Requests, req[r].pc \in {"rotate", "logout"} PROVE req[r].token \in Issued
        BY <1>12 DEF IInv, IssuedInv
  <1>13. ASSUME NEW r \in Requests, Rotate(r) PROVE Goal
    <2> DEFINE x == [req[r] EXCEPT !.pc = "sign"]
               t == req[r].token
    <2>1. x.pc = "sign" /\ x.token = t
          BY <1>1, RequestFields DEF Request
    <2>2. req' = [req EXCEPT ![r] = x]
          BY <1>13 DEF Rotate
    <2>3. /\ t \in allowed
          /\ allowed' = allowed \ {t}
          /\ t \in used'
          /\ used \subseteq used'
          /\ UNCHANGED <<held, session, unsure, ended>>
          BY <1>13 DEF Rotate, DeleteToken
    <2>4. t \in Issued
          BY <1>12, <1>13 DEF Rotate
    <2> HIDE DEF x
    <2> QED BY <2>1, <2>2, <2>3, <2>4, DeleteStep
  <1>14. ASSUME NEW r \in Requests, Logout(r) PROVE Goal
    <2> DEFINE t == req[r].token
    <2>1. Idle.pc = "idle" /\ Idle.token = NoToken
          BY DEF Idle
    <2>2. /\ t \in allowed
          /\ allowed' = allowed \ {t}
          /\ ended' = ended \cup {t}
          /\ req' = [req EXCEPT ![r] = Idle]
          /\ UNCHANGED <<held, session, unsure, used>>
          BY <1>14 DEF Logout, DeleteToken
    <2>3. t \in Issued
          BY <1>12, <1>14 DEF Logout
    <2> QED BY <2>1, <2>2, <2>3, DeleteStep
  <1>15. ASSUME NEW r \in Requests, DeleteFailed(r) PROVE Goal
    <2>1. Idle.pc = "idle" /\ Idle.token = NoToken
          BY DEF Idle
    <2> QED BY <1>12, <1>15, <2>1, DeleteStep DEF DeleteFailed
  <1>16. CASE UNCHANGED vars
        BY <1>16 DEF vars, IInv, IssuedInv, KeptInv, LineInv, OneTokenPerSession, LogoutIsFinal,
                     Carries, Issued
  <1> QED BY <1>3, <1>5, <1>6, <1>7, <1>8, <1>9, <1>10, <1>11, <1>13, <1>14, <1>15, <1>16 DEF Next

-----------------------------------------------------------------------------
\* The invariant holds for every value of the constants.
THEOREM Invariance == Spec => []IInv
  <1>1. ASSUME IInv, [Next]_vars PROVE IInv'
        BY <1>1, TypeInv, UniqueInv, TokenInv DEF IInv
  <1> QED BY InitInv, <1>1, PTL DEF Spec

\* Every variable keeps its type.
THEOREM TypeCorrect == Spec => []TypeOK
  <1>1. IInv => TypeOK
        BY DEF IInv
  <1> QED BY Invariance, <1>1, PTL

\* One user gets a login and an email, however many registrations found them free
\* (userAccessService.CreateUser and the constraints of the table).
THEOREM UsersAreUnique == Spec => []UniqueUsers
  <1>1. IInv => UniqueUsers
        BY DEF IInv
  <1> QED BY Invariance, <1>1, PTL

\* A log-in is continued by one valid token at a time (authService.RotateJWT).
THEOREM SessionsAreLines == Spec => []OneTokenPerSession
  <1>1. IInv => OneTokenPerSession
        BY DEF IInv, LineInv
  <1> QED BY Invariance, <1>1, PTL

\* Nothing valid descends from a log-in that was logged out (authService.LogoutByRefresh).
THEOREM LogoutsAreFinal == Spec => []LogoutIsFinal
  <1>1. IInv => LogoutIsFinal
        BY DEF IInv, LineInv
  <1> QED BY Invariance, <1>1, PTL

\* A client's token is valid until it is presented (tokenRepository.TryToDeleteToken).
THEOREM UnusedTokensStay == Spec => []UnusedStaysUsable
  <1>1. IInv => UnusedStaysUsable
        BY DEF IInv, KeptInv, IssuedInv, UnusedStaysUsable
  <1> QED BY Invariance, <1>1, PTL

-----------------------------------------------------------------------------
(* Access: the same sessions under a clock.                                *)

\* A session with an end has a token that was logged out with, and none signed later.
ClockInv ==
    /\ \A t \in Tokens : iat[t] <= now
    /\ \A s \in Tokens : closed[s] # Never => \E t \in ended : session[t] = s
    /\ \A t \in Issued : closed[session[t]] # Never => iat[t] <= closed[session[t]]

TimedIInv == IInv /\ TimesOK /\ ClockInv

\* A step of the clocked system is a step of Sessions, or leaves its variables alone.
LEMMA TimedSteps == TimedNext => [Next]_vars
  BY DEF TimedNext, Tick, PresentInTime, Issue, Close, Other, Next

\* Whatever is proved of Sessions holds of it under a clock.
THEOREM TimedIsSessions == TimedSpec => Spec
  <1>1. TimedInit => Init
        BY DEF TimedInit
  <1>2. [TimedNext]_timedVars => [Next]_vars
        BY TimedSteps DEF timedVars
  <1> QED BY <1>1, <1>2, PTL DEF TimedSpec, Spec

\* The initial states satisfy the clocked invariant.
LEMMA TimedInitInv == TimedInit => TimedIInv
  <1> SUFFICES ASSUME TimedInit PROVE TimedIInv
      OBVIOUS
  <1>1. IInv
        BY InitInv DEF TimedInit
  <1>2. Issued = {}
        BY DEF TimedInit, Init, Issued
  <1>3. now \in 0..MaxTime
        BY LivesAssumption DEF TimedInit
  <1>4. TimesOK
        BY <1>1, <1>2, <1>3 DEF IInv, TimesOK, TimedInit
  <1>5. ClockInv
        BY <1>2 DEF ClockInv, TimedInit, Never
  <1> QED BY <1>1, <1>4, <1>5 DEF TimedIInv

\* A step that issues nothing and ends nothing, while time may pass.
LEMMA TimedQuiet ==
    ASSUME TimedIInv, IInv', now' \in now..MaxTime, UNCHANGED <<session, iat, closed>>,
           ended \subseteq ended'
    PROVE  TimesOK' /\ ClockInv'
  <1>1. Issued' = Issued
        BY DEF Issued
  <1>2. now \in 0..MaxTime /\ now <= now' /\ now' \in 0..MaxTime
        BY LivesAssumption DEF TimedIInv, TimesOK
  <1>3. iat \in [Tokens -> 0..MaxTime \cup {Never}]
        BY DEF TimedIInv, TimesOK
  <1>4. TimesOK'
        BY <1>1, <1>2 DEF TimedIInv, TimesOK, IInv
  <1>5. \A t \in Tokens : iat'[t] <= now'
    <2> TAKE t \in Tokens
    <2>1. iat[t] \in Int /\ iat[t] <= now
          BY <1>3, LivesAssumption DEF TimedIInv, ClockInv, Never
    <2> QED BY <1>2, <2>1
  <1>6. ClockInv'
        BY <1>1, <1>5 DEF TimedIInv, ClockInv
  <1> QED BY <1>4, <1>6

\* Token t is issued now: its session has not ended.
LEMMA TimedIssue ==
    ASSUME TimedIInv, IInv', NEW r \in Requests, NEW t \in Tokens,
           req[r].pc = "sign", AddToken(r, t), UNCHANGED <<now, closed, ended>>,
           iat' = [k \in Tokens |-> IF session'[k] = session[k] THEN iat[k] ELSE now]
    PROVE  TimesOK' /\ ClockInv'
  <1> DEFINE s == IF req[r].token = NoToken THEN t ELSE session[req[r].token]
  <1>1. t \notin Issued /\ session[t] = NoToken
        BY DEF AddToken, Issued
  <1>2. session'[t] = s /\ \A k \in Tokens \ {t} : session'[k] = session[k]
        BY DEF AddToken, TimedIInv, IInv, TypeOK
  <1>3. req[r].token # NoToken => req[r].token \in Issued /\ session[req[r].token] \in Issued
        BY DEF TimedIInv, IInv, IssuedInv
  <1>4. s \in Tokens /\ s # NoToken
        BY <1>3, ConstantsAssumption DEF Issued
  <1>5. Issued' = Issued \cup {t}
        BY <1>2, <1>4 DEF Issued
  <1>6. iat'[t] = now /\ \A k \in Tokens \ {t} : iat'[k] = iat[k]
        BY <1>1, <1>2, <1>4
  <1>7. now \in 0..MaxTime /\ now # Never
        BY DEF TimedIInv, TimesOK, Never
  <1>8. \A k \in ended : k \in Issued /\ session[k] \in Issued /\ session[k] # s
    <2>1. \A k \in ended : k \in Issued /\ session[k] \in Issued
          BY DEF TimedIInv, IInv, IssuedInv
    <2>2. CASE req[r].token = NoToken
          BY <1>1, <2>1, <2>2
    <2>3. CASE req[r].token # NoToken
          BY <2>1, <2>3 DEF TimedIInv, IInv, LineInv, Carries
    <2> QED BY <2>1, <2>2, <2>3
  <1>9. closed[s] = Never
        BY <1>4, <1>8 DEF TimedIInv, ClockInv
  <1>10. TimesOK'
    <2>1. iat' \in [Tokens -> 0..MaxTime \cup {Never}]
          BY <1>7 DEF TimedIInv, TimesOK
    <2>2. \A k \in Tokens : k \in Issued' <=> iat'[k] # Never
          BY <1>5, <1>6, <1>7 DEF TimedIInv, TimesOK
    <2> QED BY <1>7, <2>1, <2>2 DEF TimedIInv, TimesOK, IInv
  <1>11. \A k \in Tokens : iat'[k] <= now'
        BY <1>6, <1>7 DEF TimedIInv, ClockInv
  <1>12. \A k \in Tokens : closed'[k] # Never => \E e \in ended' : session'[e] = k
        BY <1>1, <1>2, <1>8 DEF TimedIInv, ClockInv, Issued
  <1>13. \A k \in Issued' : closed'[session'[k]] # Never => iat'[k] <= closed'[session'[k]]
        BY <1>1, <1>2, <1>5, <1>6, <1>9 DEF TimedIInv, ClockInv, Issued
  <1>14. ClockInv'
        BY <1>11, <1>12, <1>13 DEF ClockInv
  <1> QED BY <1>10, <1>14

\* Every action keeps the clocked invariant.
LEMMA TimedStepInv == ASSUME TimedIInv, [TimedNext]_timedVars PROVE TimedIInv'
  <1>1. IInv'
    <2>1. [Next]_vars
          BY TimedSteps DEF timedVars
    <2> QED BY <2>1, TypeInv, UniqueInv, TokenInv DEF TimedIInv, IInv
  <1>2. now \in 0..MaxTime /\ now \in now..MaxTime
        BY LivesAssumption DEF TimedIInv, TimesOK
  <1>3. CASE Tick
    <2>1. now' \in now..MaxTime
          BY <1>2, <1>3, LivesAssumption DEF Tick
    <2> QED BY <1>1, <1>3, <2>1, TimedQuiet DEF Tick, vars, TimedIInv
  <1>4. ASSUME NEW r \in Requests, NEW t \in Tokens, NEW pc \in {"rotate", "logout"},
               PresentInTime(r, t, pc)
        PROVE  TimedIInv'
        BY <1>1, <1>2, <1>4, TimedQuiet DEF PresentInTime, Present, TimedIInv
  <1>5. ASSUME NEW r \in Requests, Other(r) PROVE TimedIInv'
    <2>1. UNCHANGED <<session, ended, now, iat, closed>>
          BY <1>5 DEF Other, StartRegistration, Login, InsertUser, InsertUserFailed, Answer,
                      Abandon, Rotate, Banned, DeleteFailed, DeleteToken
    <2> QED BY <1>1, <1>2, <2>1, TimedQuiet DEF TimedIInv
  <1>6. ASSUME NEW r \in Requests, Issue(r) PROVE TimedIInv'
    <2>1. CASE UNCHANGED session
      <3>1. UNCHANGED <<session, ended, now, closed>>
            BY <1>6, <2>1 DEF Issue, Sign, SignFailed
      <3>2. iat' = iat
            BY <1>6, <2>1 DEF Issue, TimedIInv, TimesOK
      <3> QED BY <1>1, <1>2, <3>1, <3>2, TimedQuiet DEF TimedIInv
    <2>2. ASSUME NEW t \in Tokens, AddToken(r, t) PROVE TimedIInv'
      <3>1. /\ req[r].pc = "sign"
            /\ UNCHANGED <<now, closed, ended>>
            /\ iat' = [k \in Tokens |-> IF session'[k] = session[k] THEN iat[k] ELSE now]
            BY <1>6 DEF Issue, Sign, SignFailed
      <3> QED BY <1>1, <2>2, <3>1, TimedIssue DEF TimedIInv
    <2> QED BY <1>6, <2>1, <2>2 DEF Issue, Sign, SignFailed
  <1>7. ASSUME NEW r \in Requests, Close(r) PROVE TimedIInv'
    <2> DEFINE s == session[req[r].token]
    <2>1. /\ closed' = [closed EXCEPT ![s] = now]
          /\ UNCHANGED <<now, iat, session>>
          /\ ended' = ended \cup {req[r].token}
          BY <1>7 DEF Close, Logout, DeleteToken
    <2>2. req[r].token \in Issued /\ s \in Tokens
          BY <1>7 DEF Close, Logout, TimedIInv, IInv, IssuedInv, Issued
    <2>3. Issued' = Issued
          BY <2>1 DEF Issued
    <2>4. TimesOK'
          BY <1>1, <1>2, <2>1, <2>2, <2>3 DEF TimedIInv, TimesOK, IInv
    <2>5. \A k \in Tokens : closed'[k] = IF k = s THEN now ELSE closed[k]
          BY <2>1 DEF TimedIInv, TimesOK
    <2>6. \A k \in Tokens : closed'[k] # Never => \E e \in ended' : session'[e] = k
          BY <2>1, <2>5 DEF TimedIInv, ClockInv
    <2>7. \A k \in Issued : k \in Tokens /\ session[k] \in Tokens
          BY DEF Issued, TimedIInv, IInv, TypeOK
    <2>8. \A k \in Issued' : closed'[session'[k]] # Never => iat'[k] <= closed'[session'[k]]
          BY <2>1, <2>3, <2>5, <2>7 DEF TimedIInv, ClockInv
    <2>9. ClockInv'
          BY <2>1, <2>6, <2>8 DEF TimedIInv, ClockInv
    <2> QED BY <1>1, <2>4, <2>9 DEF TimedIInv
  <1>8. CASE UNCHANGED timedVars
        BY <1>1, <1>2, <1>8, TimedQuiet DEF timedVars, vars, TimedIInv
  <1> QED BY <1>3, <1>4, <1>5, <1>6, <1>7, <1>8 DEF TimedNext

\* The clocked invariant holds for every value of the constants.
THEOREM TimedInvariance == TimedSpec => []TimedIInv
  <1> QED BY TimedInitInv, TimedStepInv, PTL DEF TimedSpec

\* Times keep their types too.
THEOREM TimesCorrect == TimedSpec => []TimesOK
  <1>1. TimedIInv => TimesOK
        BY DEF TimedIInv
  <1> QED BY TimedInvariance, <1>1, PTL

\* From AccessTTL after a log-out on no access token of the session is let in
\* (jwtMiddleware.Pass; authService.LogoutByRefresh), whatever the two lives are.
THEOREM AccessEnds == TimedSpec => []LogoutEndsAccess
  <1>1. TimedIInv => LogoutEndsAccess
    <2> SUFFICES ASSUME TimedIInv, NEW t \in Issued, closed[session[t]] # Never,
                        now >= closed[session[t]] + AccessTTL, LetIn(t)
                 PROVE  FALSE
        BY DEF LogoutEndsAccess
    <2>1. t \in Tokens /\ session[t] \in Tokens
          BY DEF Issued, TimedIInv, IInv, TypeOK
    <2>2. iat[t] <= closed[session[t]]
          BY DEF TimedIInv, ClockInv
    <2>3. iat[t] \in Int /\ closed[session[t]] \in Int /\ now \in Int
          BY <2>1, LivesAssumption DEF TimedIInv, TimesOK, Never
    <2> QED BY <2>2, <2>3, LivesAssumption DEF LetIn
  <1> QED BY TimedInvariance, <1>1, PTL
=============================================================================
