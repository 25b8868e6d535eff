------------------------------- MODULE Access -------------------------------
(***************************************************************************)
(* Sessions, as time passes: who is let in, and for how long.              *)
(*                                                                         *)
(* SignJWT signs two tokens of one time and one jti: a refresh token,      *)
(* which Sessions follows, and an access token, which no table knows and   *)
(* no log-out can revoke. The two middlewares check kind and expiry. The   *)
(* steps are those of Sessions; here each token has the time at which it   *)
(* was signed, and the clock moves between any two steps of a request.     *)
(***************************************************************************)
EXTENDS Sessions

CONSTANTS
    AccessTTL,  \* fifteen minutes
    RefreshTTL, \* thirty days
    MaxTime     \* bound: the clock stops here

ASSUME LivesAssumption ==
    /\ AccessTTL \in Nat
    /\ RefreshTTL \in Nat
    /\ MaxTime \in Nat

VARIABLES
    now,
    iat,   \* when the pair of a refresh token was signed
    closed \* history: when a session was logged out of

timedVars == <<vars, now, iat, closed>>

-----------------------------------------------------------------------------
Never == -1

TimedInit ==
    /\ Init
    /\ now = 0
    /\ iat = [t \in Tokens |-> Never]
    /\ closed = [t \in Tokens |-> Never]

Tick ==
    /\ now < MaxTime
    /\ now' = now + 1
    /\ UNCHANGED <<vars, iat, closed>>

\* PassRefresh: a refresh token that has not expired. (All others are answered 401.)
PresentInTime(r, t, pc) ==
    /\ Present(r, t, pc)
    /\ now < iat[t] + RefreshTTL
    /\ UNCHANGED <<now, iat, closed>>

\* Mutant: the pair of an exchange is dated to the expiry of the old one.
IssueLater(r) ==
    /\ Sign(r) \/ SignFailed(r)
    /\ iat' = [t \in Tokens |->
                 IF session'[t] = session[t] THEN iat[t]
                 ELSE IF req[r].token = NoToken THEN now ELSE iat[req[r].token] + RefreshTTL]
    /\ UNCHANGED <<now, closed>>

\* The clock is read and the row is added in one step: were it read earlier, the pair would
\* only expire sooner.
Issue(r) ==
    /\ Sign(r) \/ SignFailed(r)
    /\ iat' = [t \in Tokens |-> IF session'[t] = session[t] THEN iat[t] ELSE now]
    /\ UNCHANGED <<now, closed>>

Close(r) ==
    /\ Logout(r)
    /\ closed' = [closed EXCEPT ![session[req[r].token]] = now]
    /\ UNCHANGED <<now, iat>>

\* The steps that neither read the clock nor end a session.
Other(r) ==
    /\ \/ \E i \in Info : StartRegistration(r, i)
       \/ \E u \in Users : Login(r, u)
       \/ InsertUser(r) \/ InsertUserFailed(r) \/ Answer(r) \/ Abandon(r)
       \/ Rotate(r) \/ Banned(r) \/ DeleteFailed(r)
    /\ UNCHANGED <<now, iat, closed>>

TimedNext ==
    \/ Tick
    \/ \E r \in Requests :
         \/ \E t \in Tokens, pc \in {"rotate", "logout"} : PresentInTime(r, t, pc)
         \/ Issue(r) \/ Close(r) \/ Other(r)

TimedSpec == TimedInit /\ [][TimedNext]_timedVars

-----------------------------------------------------------------------------
(* Properties.                                                             *)

\* Every variable keeps its type, and a token has a time once it was issued.
TimesOK ==
    /\ TypeOK
    /\ now \in 0..MaxTime
    /\ iat \in [Tokens -> 0..MaxTime \cup {Never}]
    /\ closed \in [Tokens -> 0..MaxTime \cup {Never}]
    /\ \A t \in Tokens : t \in Issued <=> iat[t] # Never

\* Pass: the posts, the feed and the subscriptions are open to the access token of t, which
\* has reached a client and has not expired.
LetIn(t) == t \in held /\ now < iat[t] + AccessTTL

\* No table can revoke an access token. Yet from AccessTTL after a log-out on nobody is let in
\* with one of this session, not even with one that a concurrent exchange was signing or
\* answering when the log-out came.
LogoutEndsAccess ==
    \A t \in Issued :
      LET end == closed[session[t]]
      IN  end # Never /\ now >= end + AccessTTL => ~LetIn(t)

=============================================================================
