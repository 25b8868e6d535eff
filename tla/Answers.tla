------------------------------ MODULE Answers ------------------------------
(***************************************************************************)
(* What the status of an answer says about the tables. A request passes    *)
(* the middleware and its handler, whose service makes its statements one  *)
(* by one while other requests make theirs. Each statement may fail, with  *)
(* or without effect. Its error is translated on the way back: repository, *)
(* service, handler (processUserServiceErrors and its like) and            *)
(* ErrorMiddleware each replace the errors they know and pass on others.   *)
(***************************************************************************)
EXTENDS Naturals

CONSTANTS Requests,
          Follows, \* pairs of a user and an author
          Ghosts,  \* pairs that the tables never take: oneself, an author who does not exist
          Names,   \* logins
          Tokens,  \* refresh tokens that are presented
          Posts,   \* of the user who asks
          Others,  \* posts of somebody else
          Nothing

ASSUME ConstantsAssumption ==
    /\ Ghosts \subseteq Follows
    /\ Follows \cap (Names \cup Tokens \cup Posts \cup Others) = {}
    /\ Nothing \notin Follows \cup Names \cup Tokens \cup Posts \cup Others

VARIABLES
    rows, \* what the tables hold of these
    req,  \* the requests under way
    was   \* history: what the tables have said since, of what a request is about

vars == <<rows, req, was>>

-----------------------------------------------------------------------------
(* The API.                                                                *)

\* What the requests are about. (A read stands for the feed and for the posts of a user.)
About ==
    [subscribe |-> Follows, unsubscribe |-> Follows,
     register |-> Names, login |-> Names,
     refresh |-> Tokens, logout |-> Tokens,
     add |-> {Nothing}, remove |-> Posts \cup Others, read |-> {Nothing}]

Ops == DOMAIN About

Things == UNION {About[op] : op \in Ops}

\* Behind the JWT middleware.
Guarded == Ops \ {"register", "login"}

\* What a handler answers in the end.
Success ==
    [subscribe |-> 200, unsubscribe |-> 200, register |-> 201, login |-> 200,
     refresh |-> 200, logout |-> 204, add |-> 200, remove |-> 204, read |-> 200]

\* What a request changes when it succeeds.
Duty ==
    [subscribe |-> {"row"}, unsubscribe |-> {"row"}, register |-> {"row", "token"},
     login |-> {"token"}, refresh |-> {"row", "token"}, logout |-> {"row"},
     add |-> {"row", "event"}, remove |-> {"row", "event"}, read |-> {}]

-----------------------------------------------------------------------------
(* The way back of an error.                                               *)

\* Mutant: any failure of the INSERT is taken for a violation of its unique constraint.
RepositoryGuesses(op, err) ==
    IF op \in {"subscribe", "register"} /\ err # "nil" THEN "AlreadyExists"
    ELSE IF err = "norows" THEN "NotFound" ELSE err

\* Mutant: the violation of a unique constraint is not told from other errors.
RepositoryBlind(op, err) == IF err = "norows" THEN "NotFound" ELSE err

\* What the repositories make of the errors of Postgres.
Repository(op, err) ==
    IF op \in {"subscribe", "register", "add"} /\ err = "unique" THEN "AlreadyExists"
    ELSE IF err = "norows" THEN "NotFound" ELSE err

\* UnsubscribeUserFrom looks at the number of rows before it looks at the error.
UnsubscribeResult(cnt, err) == IF cnt = 0 THEN "NotFound" ELSE err

\* The services.
Service(op, err) ==
    CASE op = "subscribe" /\ err = "AlreadyExists" -> "AlreadySubscribed"
      [] op = "unsubscribe" /\ err = "NotFound" -> "NotSubscribed"
      [] op = "register" /\ err = "AlreadyExists" -> "UserAlreadyExists"
      [] op = "login" /\ err = "NotFound" -> "InvalidCredentials"
      [] op = "remove" /\ err = "NotFound" -> "PostDoesNotExist"
      [] OTHER -> err

\* The handlers: the errors of the services with an answer of their own.
HttpError ==
    [NotSubscribed |-> 400, AlreadySubscribed |-> 409, UserAlreadyExists |-> 409,
     InvalidCredentials |-> 400, TokenBanned |-> 403, PostDoesNotExist |-> 404]

Silence == 0

\* ErrorMiddleware. It writes nothing for a request whose context was cancelled.
Status(err) ==
    IF err \in DOMAIN HttpError THEN HttpError[err]
    ELSE CASE err = "Unauthorized" -> 401
           [] err = "deadline" -> 504
           [] err = "canceled" -> Silence
           [] OTHER -> 500

-----------------------------------------------------------------------------
Statuses == {Silence, 200, 201, 204, 400, 401, 403, 404, 409, 500, 504}

Request == [pc : {"idle", "begin", "insert", "fill", "sign", "remove", "event", "answered"},
            op : Ops, on : Things \cup {Nothing}, status : Statuses,
            bad : BOOLEAN,                           \* it asks for what the tables refuse
            made : SUBSET {"row", "event", "token"}, \* history: what it has changed
            failed : BOOLEAN,                        \* history: a call of it has failed
            gone : BOOLEAN]                          \* its client has hung up

Idle == [pc |-> "idle", op |-> "read", on |-> Nothing, status |-> Silence, bad |-> FALSE,
         made |-> {}, failed |-> FALSE, gone |-> FALSE]

Init ==
    /\ rows \in SUBSET (Things \ (Ghosts \cup {Nothing}))
    /\ req = [r \in Requests |-> Idle]
    /\ was = [r \in Requests |-> {}]

At(r, ops, pc) == req[r].op \in ops /\ req[r].pc = pc

On(r) == req[r].on

Goes(r, pc) == req' = [req EXCEPT ![r].pc = pc]

\* r has made a change and goes on.
Makes(r, what, pc) == req' = [req EXCEPT ![r].made = @ \cup what, ![r].pc = pc]

Answers(r, status) == req' = [req EXCEPT ![r].status = status, ![r].pc = "answered"]

\* An error reaches the service and goes its way.
Reports(r, err) == Answers(r, Status(Service(req[r].op, err)))

\* How a call may fail that nobody has refused.
Failures(r) == {"broken", "deadline"} \cup (IF req[r].gone THEN {"canceled"} ELSE {})

\* A call fails with err; it may have made its change all the same.
Fails(r, err, change) ==
    \E made \in {{}, change} :
        req' = [req EXCEPT ![r].failed = TRUE, ![r].made = @ \cup made,
                           ![r].status = Status(Service(req[r].op, err)), ![r].pc = "answered"]

-----------------------------------------------------------------------------
(* A request comes, is refused at the door, is given up by its client.     *)

\* Whether a request about x passes the validation and asks for what Postgres refuses,
\* whatever the tables hold: a pair of Ghosts (foreign key, chk_sub_not_auth), a login or an
\* email that is too long or has a NUL, an unknown reply_to, media that are unknown or have
\* one order twice, a negative limit of the posts of an author.
Bad(op, x) ==
    CASE op = "subscribe" -> {x \in Ghosts}
      [] op \in {"register", "login", "add", "read"} -> BOOLEAN
      [] OTHER -> {FALSE}

Arrive(r) ==
    /\ req[r].pc = "idle"
    /\ \E op \in Ops : \E x \in About[op] : \E bad \in Bad(op, x) :
         req' = [req EXCEPT ![r] =
                   [Idle EXCEPT !.pc = "begin", !.op = op, !.on = x, !.bad = bad]]
    /\ UNCHANGED rows

\* The JWT middleware, then the body, the path or the query. (ErrorMiddleware does not know
\* the error of a reply_to that is no UUID.)
Refuse(r) ==
    /\ req[r].pc = "begin"
    /\ \/ req[r].op \in Guarded /\ Answers(r, 401)
       \/ req[r].op \notin {"refresh", "logout"} /\ Answers(r, 400)
       \/ req[r].op = "add" /\ req[r].bad /\ Answers(r, 500)
    /\ UNCHANGED rows

HangUp(r) ==
    /\ req[r].pc \notin {"idle", "answered"}
    /\ ~req[r].gone
    /\ req' = [req EXCEPT ![r].gone = TRUE]
    /\ UNCHANGED rows

Finish(r) ==
    /\ req[r].pc = "answered"
    /\ req' = [req EXCEPT ![r] = Idle]
    /\ UNCHANGED rows

-----------------------------------------------------------------------------
(* Subscriptions, through the follower cache.                              *)

Subscribe(r) ==
    /\ At(r, {"subscribe"}, "begin")
    /\ \/ On(r) \in Ghosts /\ Reports(r, Repository("subscribe", "refused")) /\ UNCHANGED rows
       \/ On(r) \in rows /\ Reports(r, Repository("subscribe", "unique")) /\ UNCHANGED rows
       \/ /\ On(r) \notin Ghosts \cup rows
          /\ rows' = rows \cup {On(r)}
          /\ Makes(r, {"row"}, "fill")

SubscribeFailed(r) ==
    /\ At(r, {"subscribe"}, "begin")
    /\ \E err \in Failures(r) : Fails(r, Repository("subscribe", err),
                                      IF On(r) \in Ghosts \cup rows THEN {} ELSE {"row"})
    /\ rows' = IF req'[r].made = {} THEN rows ELSE rows \cup {On(r)}

\* Mutant: the number of rows is not looked at.
UnsubscribeUncounted(r) ==
    /\ At(r, {"unsubscribe"}, "begin")
    /\ Makes(r, IF On(r) \in rows THEN {"row"} ELSE {}, "fill")
    /\ rows' = rows \ {On(r)}

Unsubscribe(r) ==
    /\ At(r, {"unsubscribe"}, "begin")
    /\ \/ On(r) \notin rows /\ Reports(r, UnsubscribeResult(0, "nil"))
       \/ On(r) \in rows /\ Makes(r, {"row"}, "fill")
    /\ rows' = rows \ {On(r)}

UnsubscribeFailed(r) ==
    /\ At(r, {"unsubscribe"}, "begin")
    /\ \E err \in Failures(r) : Fails(r, UnsubscribeResult(0, err),
                                      IF On(r) \in rows THEN {"row"} ELSE {})
    /\ rows' = IF req'[r].made = {} THEN rows ELSE rows \ {On(r)}

\* The cached list is changed or filled. Only the fill's error is returned, or that of the
\* context while it is waited for.
Fill(r) ==
    /\ req[r].pc = "fill"
    /\ \/ Answers(r, Success[req[r].op])
       \/ \E err \in Failures(r) : Fails(r, err, {})
    /\ UNCHANGED rows

-----------------------------------------------------------------------------
(* Registration, log-in, exchange of tokens, log-out.                      *)

FindUser(r) ==
    /\ At(r, {"register", "login"}, "begin")
    /\ \/ req[r].bad /\ Reports(r, Repository(req[r].op, "refused"))
       \/ /\ req[r].op = "register"
          /\ IF On(r) \in rows THEN Reports(r, "UserAlreadyExists") ELSE Goes(r, "insert")
       \/ /\ req[r].op = "login" /\ ~req[r].bad
          /\ IF On(r) \in rows THEN Goes(r, "sign") \/ Reports(r, "InvalidCredentials")
                              ELSE Reports(r, Repository("login", "norows"))
    /\ UNCHANGED rows

InsertUser(r) ==
    /\ At(r, {"register"}, "insert")
    /\ CASE req[r].bad -> Reports(r, Repository("register", "refused")) /\ UNCHANGED rows
         [] ~req[r].bad /\ On(r) \in rows ->
              Reports(r, Repository("register", "unique")) /\ UNCHANGED rows
         [] OTHER -> Makes(r, {"row"}, "sign") /\ rows' = rows \cup {On(r)}

InsertUserFailed(r) ==
    /\ At(r, {"register"}, "insert")
    /\ \E err \in Failures(r) : Fails(r, Repository("register", err),
                                      IF req[r].bad \/ On(r) \in rows THEN {} ELSE {"row"})
    /\ rows' = IF req'[r].made = {} THEN rows ELSE rows \cup {On(r)}

DeleteToken(r) ==
    /\ At(r, {"refresh", "logout"}, "begin")
    /\ CASE On(r) \notin rows -> Reports(r, "TokenBanned")
         [] On(r) \in rows /\ req[r].op = "refresh" -> Makes(r, {"row"}, "sign")
         [] OTHER -> req' = [req EXCEPT ![r].made = {"row"}, ![r].pc = "answered",
                                        ![r].status = Success["logout"]]
    /\ rows' = rows \ {On(r)}

DeleteTokenFailed(r) ==
    /\ At(r, {"refresh", "logout"}, "begin")
    /\ \E err \in Failures(r) : Fails(r, err, IF On(r) \in rows THEN {"row"} ELSE {})
    /\ rows' = IF req'[r].made = {} THEN rows ELSE rows \ {On(r)}

\* SignJWT, for a jti that nobody else has.
Sign(r) ==
    /\ req[r].pc = "sign"
    /\ req' = [req EXCEPT ![r].made = @ \cup {"token"}, ![r].pc = "answered",
                          ![r].status = Success[req[r].op]]
    /\ UNCHANGED rows

\* Mutant: a token that could not be exchanged is answered as one that is used up.
SignFailedBanned(r) ==
    /\ req[r].pc = "sign"
    /\ Fails(r, "TokenBanned", {"token"})
    /\ UNCHANGED rows

SignFailed(r) ==
    /\ req[r].pc = "sign"
    /\ \E err \in Failures(r) : Fails(r, err, {"token"})
    /\ UNCHANGED rows

-----------------------------------------------------------------------------
(* Posts.                                                                  *)

\* One transaction; its post has a fresh id, so that "unique" is about its media.
AddPost(r) ==
    /\ At(r, {"add"}, "begin")
    /\ \/ /\ req[r].bad
          /\ \E err \in {"refused", "unique"} : Reports(r, Repository("add", err))
       \/ /\ ~req[r].bad
          /\ req' = [req EXCEPT ![r].made = Duty["add"], ![r].pc = "answered",
                                ![r].status = Success["add"]]
    /\ UNCHANGED rows

FindPost(r) ==
    /\ At(r, {"remove"}, "begin")
    /\ CASE On(r) \notin rows -> Reports(r, Repository("remove", "norows"))
         [] On(r) \in rows \cap Others -> Reports(r, "Unauthorized")
         [] OTHER -> Goes(r, "remove")
    /\ UNCHANGED rows

\* The row outside of the transaction, which has begun; a row once found is never gone.
MarkDeleted(r) ==
    /\ req[r].pc = "remove"
    /\ Makes(r, {"row"}, "event")
    /\ UNCHANGED rows

\* The event and the commit.
CommitRemoval(r) ==
    /\ req[r].pc = "event"
    /\ req' = [req EXCEPT ![r].made = @ \cup {"event"}, ![r].pc = "answered",
                          ![r].status = Success["remove"]]
    /\ UNCHANGED rows

Read(r) ==
    /\ At(r, {"read"}, "begin")
    /\ IF req[r].bad THEN Reports(r, "refused") ELSE Answers(r, Success["read"])
    /\ UNCHANGED rows

\* A lookup, the transaction of AddPost, a statement of RemovePost or a read fails.
CallFailed(r) ==
    /\ \E err \in Failures(r) :
         \/ At(r, {"register", "login", "remove", "read"}, "begin") /\ Fails(r, err, {})
         \/ At(r, {"add"}, "begin") /\ Fails(r, err, IF req[r].bad THEN {} ELSE Duty["add"])
         \/ req[r].pc = "remove" /\ Fails(r, err, {"row"})
         \/ req[r].pc = "event" /\ Fails(r, err, {"event"})
    /\ UNCHANGED rows

-----------------------------------------------------------------------------
Step(r) ==
    \/ Arrive(r) \/ Refuse(r) \/ HangUp(r) \/ Finish(r)
    \/ Subscribe(r) \/ SubscribeFailed(r) \/ Unsubscribe(r) \/ UnsubscribeFailed(r) \/ Fill(r)
    \/ FindUser(r) \/ InsertUser(r) \/ InsertUserFailed(r)
    \/ DeleteToken(r) \/ DeleteTokenFailed(r) \/ Sign(r) \/ SignFailed(r)
    \/ AddPost(r) \/ FindPost(r) \/ MarkDeleted(r) \/ CommitRemoval(r)
    \/ Read(r) \/ CallFailed(r)

\* Every request sees what its row is like after the step.
Watch ==
    was' = [r \in Requests |->
              IF req'[r].pc = "idle" THEN {}
              ELSE was[r] \cup {IF req'[r].on \in rows' THEN "present" ELSE "absent"}]

Next == (\E r \in Requests : Step(r)) /\ Watch

Spec == Init /\ [][Next]_vars

-----------------------------------------------------------------------------
(* Properties.                                                             *)

Answered(r, statuses) == req[r].pc = "answered" /\ req[r].status \in statuses

\* Tables and requests keep their types.
TypeOK ==
    /\ rows \subseteq Things \ (Ghosts \cup {Nothing})
    /\ req \in [Requests -> Request]
    /\ was \in [Requests -> SUBSET {"present", "absent"}]

\* Who is told of a success has got all of it, by the statements of this very request:
\* of two requests for the same change one is told.
SuccessIsDone ==
    \A r \in Requests : Answered(r, {200, 201, 204}) => req[r].made = Duty[req[r].op]

\* A refused request has changed nothing: the client may correct it and send it again. (But
\* a DELETE of a subscription that fails reports no rows, which UnsubscribeUserFrom looks at
\* before the error: whatever has become of it, it is said that there was no subscription.)
RefusedChangesNothing ==
    \A r \in Requests :
        (Answered(r, 400..499) /\ ~(req[r].op = "unsubscribe" /\ req[r].failed))
            => req[r].made = {}

\* The reason given is true: what is said to exist (409), to be used up (403) or not to be
\* found (404) was so in the tables at some time during the request, also if another
\* request came between its lookup and its insertion.
RefusalsAreTrue ==
    \A r \in Requests :
        /\ Answered(r, {409}) => "present" \in was[r]
        /\ Answered(r, {403, 404}) => "absent" \in was[r]

\* The server blames itself when a call has failed or when the request asks for what Postgres
\* refuses, whose errors no one translates, and then it has changed nothing. What two requests
\* do that meet is never a reason: whoever comes second is told so.
ServerErrorsHaveCauses ==
    \A r \in Requests :
        Answered(r, 500..599) => (req[r].failed \/ (req[r].bad /\ req[r].made = {}))

=============================================================================
