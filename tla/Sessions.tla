------------------------------ MODULE Sessions ------------------------------
(***************************************************************************)
(* Accounts and refresh tokens: registering, logging in, exchanging a      *)
(* refresh token for a new pair and logging out, by requests that run      *)
(* concurrently, may fail at each of their statements and may lose their   *)
(* answers.                                                                *)
(*                                                                         *)
(* A refresh token is signed once and checked against the table            *)
(* allowed_refresh_tokens each time it is used. Access tokens and the      *)
(* expiry of refresh tokens are left out: both only refuse requests, which *)
(* here may fail to come anyway. So are requests that are refused before   *)
(* they have changed anything (a wrong password, a taken name).            *)
(***************************************************************************)
EXTENDS Integers, FiniteSets

CONSTANTS Users,    \* user ids; uuid.New never returns one again
          Logins,
          Emails,
          Tokens,   \* the jtis of refresh tokens; never returned again either
          Requests,
          NoUser,
          NoToken

ASSUME ConstantsAssumption ==
    /\ NoUser \notin Users
    /\ NoToken \notin Tokens

VARIABLES
    account, \* users: id -> login and email
    allowed, \* allowed_refresh_tokens: the jtis
    owner,   \* who a token was signed for (its claim "sub")
    req,     \* the requests under way
    held,    \* tokens that have reached a client
    session, \* history: the token of the log-in that a token descends from
    used,    \* history: tokens deleted for an exchange
    ended,   \* history: tokens deleted for a log-out
    unsure   \* history: tokens whose deletion has failed, if it has

vars == <<account, allowed, owner, req, held, session, used, ended, unsure>>

-----------------------------------------------------------------------------
Info == [login : Logins, email : Emails]
NoInfo == [login |-> NoUser, email |-> NoUser]

Request == [pc : {"idle", "insert", "sign", "answer", "rotate", "logout"},
            info : Info \cup {NoInfo},    \* of a registration
            user : Users \cup {NoUser},   \* signed for
            token : Tokens \cup {NoToken}] \* presented or, in "answer", issued

Idle == [pc |-> "idle", info |-> NoInfo, user |-> NoUser, token |-> NoToken]

Registered == {u \in Users : account[u] # NoInfo}
Issued == {t \in Tokens : session[t] # NoToken}

\* WHERE login = $1 OR email = $2, and the unique constraints of the table.
Matching(i) ==
    {u \in Registered : account[u].login = i.login \/ account[u].email = i.email}

Init ==
    /\ account = [u \in Users |-> NoInfo]
    /\ allowed = {}
    /\ owner = [t \in Tokens |-> NoUser]
    /\ req = [r \in Requests |-> Idle]
    /\ held = {}
    /\ session = [t \in Tokens |-> NoToken]
    /\ used = {}
    /\ ended = {}
    /\ unsure = {}

-----------------------------------------------------------------------------
(* Register.                                                               *)

\* The credentials are free; the password is hashed.
StartRegistration(r, i) ==
    /\ req[r].pc = "idle"
    /\ Matching(i) = {}
    /\ req' = [req EXCEPT ![r] = [Idle EXCEPT !.pc = "insert", !.info = i]]
    /\ UNCHANGED <<account, allowed, owner, held, session, used, ended, unsure>>

InsertUser(r) ==
    /\ req[r].pc = "insert"
    /\ Matching(req[r].info) = {}
    /\ \E u \in Users \ Registered :
         /\ account' = [account EXCEPT ![u] = req[r].info]
         /\ req' = [req EXCEPT ![r] = [Idle EXCEPT !.pc = "sign", !.user = u]]
    /\ UNCHANGED <<allowed, owner, held, session, used, ended, unsure>>

\* A unique constraint refuses the row, or the statement fails, with or without effect.
InsertUserFailed(r) ==
    /\ req[r].pc = "insert"
    /\ req' = [req EXCEPT ![r] = Idle]
    /\ \/ UNCHANGED account
       \/ /\ Matching(req[r].info) = {}
          /\ \E u \in Users \ Registered : account' = [account EXCEPT ![u] = req[r].info]
    /\ UNCHANGED <<allowed, owner, held, session, used, ended, unsure>>

-----------------------------------------------------------------------------
(* Log in, and sign a pair.                                                *)

Login(r, u) ==
    /\ req[r].pc = "idle"
    /\ u \in Registered
    /\ req' = [req EXCEPT ![r] = [Idle EXCEPT !.pc = "sign", !.user = u]]
    /\ UNCHANGED <<account, allowed, owner, held, session, used, ended, unsure>>

\* The row of token t, signed for the user of request r.
AddToken(r, t) ==
    /\ t \in Tokens \ Issued
    /\ allowed' = allowed \cup {t}
    /\ owner' = [owner EXCEPT ![t] = req[r].user]
    /\ session' = [session EXCEPT ![t] =
                     IF req[r].token = NoToken THEN t ELSE session[req[r].token]]

Sign(r) ==
    /\ req[r].pc = "sign"
    /\ \E t \in Tokens :
         /\ AddToken(r, t)
         /\ req' = [req EXCEPT ![r] = [@ EXCEPT !.pc = "answer", !.token = t]]
    /\ UNCHANGED <<account, held, used, ended, unsure>>

\* AddRefreshToken fails, with or without effect: there is no pair. A token that was
\* to be exchanged is gone by now, and the account of a registration stays.
SignFailed(r) ==
    /\ req[r].pc = "sign"
    /\ req' = [req EXCEPT ![r] = Idle]
    /\ \/ UNCHANGED <<allowed, owner, session>>
       \/ \E t \in Tokens : AddToken(r, t)
    /\ UNCHANGED <<account, held, used, ended, unsure>>

Answer(r) ==
    /\ req[r].pc = "answer"
    /\ held' = held \cup {req[r].token}
    /\ req' = [req EXCEPT ![r] = Idle]
    /\ UNCHANGED <<account, allowed, owner, session, used, ended, unsure>>

\* The client has gone, or the process stops anywhere in a request.
Abandon(r) ==
    /\ req[r].pc # "idle"
    /\ req' = [req EXCEPT ![r] = Idle]
    /\ UNCHANGED <<account, allowed, owner, held, session, used, ended, unsure>>

-----------------------------------------------------------------------------
(* Exchange a refresh token, and log out.                                  *)

\* PassRefresh takes the user and the jti from the claims of the token.
Present(r, t, pc) ==
    /\ req[r].pc = "idle"
    /\ t \in held
    /\ req' = [req EXCEPT ![r] = [Idle EXCEPT !.pc = pc, !.user = owner[t], !.token = t]]
    /\ UNCHANGED <<account, allowed, owner, held, session, used, ended, unsure>>

\* Mutant: every token of the user is deleted.
DeleteAllOfUser(r) ==
    /\ req[r].token \in allowed
    /\ allowed' = allowed \ {t \in allowed : owner[t] = req[r].user}
    /\ UNCHANGED <<account, owner, held, session, unsure>>

\* Mutant: the number of deleted rows is not looked at.
DeleteAnyhow(r) ==
    /\ allowed' = allowed \ {req[r].token}
    /\ UNCHANGED <<account, owner, held, session, unsure>>

\* TryToDeleteToken finds and deletes the row in one statement.
DeleteToken(r) ==
    /\ req[r].token \in allowed
    /\ allowed' = allowed \ {req[r].token}
    /\ UNCHANGED <<account, owner, held, session, unsure>>

Rotate(r) ==
    /\ req[r].pc = "rotate"
    /\ DeleteToken(r)
    /\ used' = used \cup {req[r].token}
    /\ req' = [req EXCEPT ![r].pc = "sign"]
    /\ UNCHANGED ended

Logout(r) ==
    /\ req[r].pc = "logout"
    /\ DeleteToken(r)
    /\ ended' = ended \cup {req[r].token}
    /\ req' = [req EXCEPT ![r] = Idle]
    /\ UNCHANGED used

\* ErrTokenBanned.
Banned(r) ==
    /\ req[r].pc \in {"rotate", "logout"}
    /\ req[r].token \notin allowed
    /\ req' = [req EXCEPT ![r] = Idle]
    /\ UNCHANGED <<account, allowed, owner, held, session, used, ended, unsure>>

\* Mutant: the exchange goes on after the error.
DeleteFailedIgnored(r) ==
    /\ req[r].pc \in {"rotate", "logout"}
    /\ allowed' \in {allowed, allowed \ {req[r].token}}
    /\ unsure' = unsure \cup {req[r].token}
    /\ req' = [req EXCEPT ![r] = IF @.pc = "rotate" THEN [@ EXCEPT !.pc = "sign"] ELSE Idle]
    /\ UNCHANGED <<account, owner, held, session, used, ended>>

\* The statement fails, with or without effect.
DeleteFailed(r) ==
    /\ req[r].pc \in {"rotate", "logout"}
    /\ allowed' \in {allowed, allowed \ {req[r].token}}
    /\ unsure' = unsure \cup {req[r].token}
    /\ req' = [req EXCEPT ![r] = Idle]
    /\ UNCHANGED <<account, owner, held, session, used, ended>>

-----------------------------------------------------------------------------
Next ==
    \E r \in Requests :
        \/ \E i \in Info : StartRegistration(r, i)
        \/ \E u \in Users : Login(r, u)
        \/ \E t \in Tokens, pc \in {"rotate", "logout"} : Present(r, t, pc)
        \/ InsertUser(r) \/ InsertUserFailed(r)
        \/ Sign(r) \/ SignFailed(r) \/ Answer(r) \/ Abandon(r)
        \/ Rotate(r) \/ Logout(r) \/ Banned(r) \/ DeleteFailed(r)

Spec == Init /\ [][Next]_vars

-----------------------------------------------------------------------------
(* Properties.                                                             *)

\* Every variable keeps its type.
TypeOK ==
    /\ account \in [Users -> Info \cup {NoInfo}]
    /\ allowed \in SUBSET Tokens
    /\ owner \in [Tokens -> Users \cup {NoUser}]
    /\ req \in [Requests -> Request]
    /\ held \in SUBSET Tokens
    /\ session \in [Tokens -> Tokens \cup {NoToken}]
    /\ used \in SUBSET Tokens
    /\ ended \in SUBSET Tokens
    /\ unsure \in SUBSET Tokens

\* However many registrations for it looked a login or an email up and found it free,
\* one user gets it.
UniqueUsers ==
    \A u, v \in Registered :
        (account[u].login = account[v].login \/ account[u].email = account[v].email) => u = v

\* A log-in continues in one line: whatever is presented concurrently, fails half way or
\* is retried, never are two of the tokens descending from it valid together.
OneTokenPerSession ==
    \A s, t \in allowed : session[s] = session[t] => s = t

\* A log-out that has succeeded ends the session: no exchange that began before or begins
\* later leaves a valid token descended from the same log-in.
LogoutIsFinal ==
    \A t \in ended, s \in allowed : session[s] # session[t]

\* A client's token stays valid until a request with that very token has deleted it (or
\* may have): no exchange and no log-out of another session of the user touches it.
UnusedStaysUsable ==
    held \ (used \cup ended \cup unsure) \subseteq allowed
=============================================================================
