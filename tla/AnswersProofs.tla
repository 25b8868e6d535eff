---------------------------- MODULE AnswersProofs ----------------------------
(***************************************************************************)
(* Answers for any requests and any rows. What a request has changed is    *)
(* determined by how far it has come; a refusal is true of the tables at   *)
(* the step that decides on it, which Watch keeps; and the error of a call *)
(* that fails is known to none of the four translations, so that it ends   *)
(* as the server's own or in silence, but for the cancellation of a        *)
(* subscription.                                                           *)
(***************************************************************************)
EXTENDS Answers, TLAPS

\* How far a request has come, and what it has changed by then.
Progress(q) ==
    /\ q.pc # "idle" => q.on \in About[q.op] /\ q.bad \in Bad(q.op, q.on)
    /\ q.pc = "begin" => q.made = {}
    /\ q.pc = "insert" => q.op = "register" /\ q.made = {}
    /\ q.pc = "fill" => q.op \in {"subscribe", "unsubscribe"} /\ q.made = {"row"}
    /\ q.pc = "sign" => \/ q.op \in {"register", "refresh"} /\ q.made = {"row"}
                        \/ q.op = "login" /\ q.made = {}
    /\ q.pc = "remove" => q.op = "remove" /\ q.made = {}
    /\ q.pc = "event" => q.op = "remove" /\ q.made = {"row"}

\* What the status says of the request itself.
Honest(q) ==
    q.pc = "answered" =>
      /\ q.status \in {200, 201, 204} => q.made = Duty[q.op]
      /\ (q.status \in 400..499 /\ ~(q.op = "unsubscribe" /\ q.failed)) => q.made = {}
      /\ q.status \in 500..599 => q.failed \/ (q.bad /\ q.made = {})

\* What it says of the tables.
Justified(q, R) ==
    q.pc = "answered" => /\ q.status = 409 => q.on \in R
                         /\ q.status \in {403, 404} => q.on \notin R

IInv ==
    /\ TypeOK
    /\ \A r \in Requests : Progress(req[r]) /\ Honest(req[r])
    /\ RefusalsAreTrue

-----------------------------------------------------------------------------
(* The tables of the API.                                                  *)

\* What there is to ask for, and what it is about.
LEMMA OpsAre ==
  /\ Ops = {"subscribe", "unsubscribe", "register", "login", "refresh", "logout", "add",
            "remove", "read"}
  /\ About["subscribe"] = Follows /\ About["unsubscribe"] = Follows
  /\ About["register"] = Names /\ About["login"] = Names
  /\ About["refresh"] = Tokens /\ About["logout"] = Tokens
  /\ About["add"] = {Nothing} /\ About["read"] = {Nothing}
  /\ About["remove"] = Posts \cup Others
BY DEF Ops, About

\* The rows of names and tokens are never those of ghosts, nor are they Nothing.
LEMMA RowsAreReal ==
  /\ \A x \in Follows \ Ghosts : x \in Things \ (Ghosts \cup {Nothing})
  /\ \A x \in Names \cup Tokens : x \in Things \ (Ghosts \cup {Nothing})
<1>1. Follows \cup Names \cup Tokens \subseteq Things
  BY OpsAre DEF Things
<1>2. QED
  BY <1>1, ConstantsAssumption

\* What a success is answered with, and what it owes.
LEMMA Successes ==
  /\ \A op \in Ops : Success[op] \in {200, 201, 204}
  /\ Duty["subscribe"] = {"row"} /\ Duty["unsubscribe"] = {"row"}
  /\ Duty["register"] = {"row", "token"} /\ Duty["login"] = {"token"}
  /\ Duty["refresh"] = {"row", "token"} /\ Duty["logout"] = {"row"}
  /\ Duty["add"] = {"row", "event"} /\ Duty["remove"] = {"row", "event"} /\ Duty["read"] = {}
BY OpsAre DEF Success, Duty

\* The errors that a handler knows, and those that only the middleware does.
LEMMA StatusIs ==
  /\ Status("NotSubscribed") = 400 /\ Status("AlreadySubscribed") = 409
  /\ Status("UserAlreadyExists") = 409 /\ Status("InvalidCredentials") = 400
  /\ Status("TokenBanned") = 403 /\ Status("PostDoesNotExist") = 404
  /\ Status("Unauthorized") = 401 /\ Status("deadline") = 504 /\ Status("canceled") = 0
  /\ Status("broken") = 500 /\ Status("refused") = 500 /\ Status("AlreadyExists") = 500
BY DEF Status, HttpError, Silence

\* Nobody on the way back takes the failure of a call for an answer.
LEMMA FailureStays ==
  ASSUME NEW op, NEW err \in {"broken", "deadline", "canceled"}
  PROVE  /\ Repository(op, err) = err
         /\ Service(op, err) = err
         /\ Status(Service(op, err)) \in {0, 500, 504}
<1>1. Repository(op, err) = err
  BY DEF Repository
<1>2. Service(op, err) = err
  BY DEF Service
<1>3. QED
  BY <1>1, <1>2, StatusIs

\* What each service makes of what the tables say.
LEMMA ServiceIs ==
  /\ \A op : Repository(op, "refused") = "refused" /\ Service(op, "refused") = "refused"
  /\ Service("add", Repository("add", "unique")) = "AlreadyExists"
  /\ Service("subscribe", Repository("subscribe", "unique")) = "AlreadySubscribed"
  /\ \A err : Service("unsubscribe", UnsubscribeResult(0, err)) = "NotSubscribed"
  /\ Service("register", "UserAlreadyExists") = "UserAlreadyExists"
  /\ Service("register", Repository("register", "unique")) = "UserAlreadyExists"
  /\ Service("login", Repository("login", "norows")) = "InvalidCredentials"
  /\ Service("login", "InvalidCredentials") = "InvalidCredentials"
  /\ Service("refresh", "TokenBanned") = "TokenBanned"
  /\ Service("logout", "TokenBanned") = "TokenBanned"
  /\ Service("remove", Repository("remove", "norows")) = "PostDoesNotExist"
  /\ Service("remove", "Unauthorized") = "Unauthorized"
BY DEF Service, Repository, UnsubscribeResult

-----------------------------------------------------------------------------
(* What the parts of the actions do to the request.                        *)

\* Only r moves.
Moves(r) ==
    /\ req' \in [Requests -> Request]
    /\ \A s \in Requests \ {r} : req'[s] = req[s]
    /\ req'[r].op = req[r].op /\ req'[r].on = req[r].on /\ req'[r].bad = req[r].bad

\* It goes on, or is answered.
LEMMA GoesOn ==
  ASSUME TypeOK, NEW r \in Requests, NEW pc \in {"insert", "sign", "remove"}, Goes(r, pc)
  PROVE  Moves(r) /\ req'[r].pc = pc /\ req'[r].made = req[r].made
BY DEF TypeOK, Goes, Moves, Request

LEMMA MakesChange ==
  ASSUME TypeOK, NEW r \in Requests, NEW what \in SUBSET {"row", "event", "token"},
         NEW pc \in {"fill", "sign", "event"}, Makes(r, what, pc)
  PROVE  Moves(r) /\ req'[r].pc = pc /\ req'[r].made = req[r].made \cup what
<1>1. req[r] \in Request
  BY DEF TypeOK
<1>2. [req[r] EXCEPT !.made = req[r].made \cup what, !.pc = pc] \in Request
  BY <1>1 DEF Request
<1>3. req' = [req EXCEPT ![r] = [req[r] EXCEPT !.made = req[r].made \cup what, !.pc = pc]]
  BY DEF TypeOK, Makes
<1>4. QED
  BY <1>1, <1>2, <1>3 DEF TypeOK, Moves, Request

LEMMA IsAnswered ==
  ASSUME TypeOK, NEW r \in Requests, NEW status \in Statuses, Answers(r, status)
  PROVE  /\ Moves(r) /\ req'[r].pc = "answered" /\ req'[r].status = status
         /\ req'[r].made = req[r].made
<1>1. req[r] \in Request
  BY DEF TypeOK
<1>2. [req[r] EXCEPT !.status = status, !.pc = "answered"] \in Request
  BY <1>1 DEF Request
<1>3. req' = [req EXCEPT ![r] = [req[r] EXCEPT !.status = status, !.pc = "answered"]]
  BY DEF TypeOK, Answers
<1>4. QED
  BY <1>1, <1>2, <1>3 DEF TypeOK, Moves, Request

Succeeds(r, made) ==
    req' = [req EXCEPT ![r].made = made, ![r].pc = "answered", ![r].status = Success[req[r].op]]

LEMMA EndsWell ==
  ASSUME TypeOK, NEW r \in Requests, NEW made \in SUBSET {"row", "event", "token"},
         Succeeds(r, made)
  PROVE  /\ Moves(r) /\ req'[r].pc = "answered" /\ req'[r].status \in {200, 201, 204}
         /\ req'[r].made = made
<1>1. req[r] \in Request
  BY DEF TypeOK
<1> DEFINE status == Success[req[r].op]
<1>2. status \in {200, 201, 204} /\ status \in Statuses
  BY <1>1, Successes DEF Request, Statuses
<1> HIDE DEF status
<1>3. [req[r] EXCEPT !.made = made, !.pc = "answered", !.status = status] \in Request
  BY <1>1, <1>2 DEF Request
<1>4. req' = [req EXCEPT ![r] = [req[r] EXCEPT !.made = made, !.pc = "answered", !.status = status]]
  BY DEF TypeOK, status, Succeeds
<1>5. QED
  BY <1>1, <1>2, <1>3, <1>4 DEF TypeOK, Moves, Request

LEMMA HasFailed ==
  ASSUME TypeOK, NEW r \in Requests, NEW err, NEW change \in SUBSET {"row", "event", "token"},
         Status(Service(req[r].op, err)) \in Statuses, Fails(r, err, change)
  PROVE  /\ Moves(r) /\ req'[r].pc = "answered" /\ req'[r].failed
         /\ req'[r].status = Status(Service(req[r].op, err))
         /\ req'[r].made \in {req[r].made, req[r].made \cup change}
<1> DEFINE s == Status(Service(req[r].op, err))
<1>1. req[r] \in Request
  BY DEF TypeOK
<1>2. s \in Statuses
  OBVIOUS
<1>3. PICK made \in {{}, change} :
        req' = [req EXCEPT ![r].failed = TRUE, ![r].made = @ \cup made,
                           ![r].status = s, ![r].pc = "answered"]
  BY DEF Fails
<1> HIDE DEF s
<1>4. [req[r] EXCEPT !.failed = TRUE, !.made = req[r].made \cup made, !.status = s,
                     !.pc = "answered"] \in Request
  BY <1>1, <1>2 DEF Request
<1>5. req' = [req EXCEPT ![r] =
                [req[r] EXCEPT !.failed = TRUE, !.made = req[r].made \cup made, !.status = s,
                               !.pc = "answered"]]
  BY <1>3 DEF TypeOK
<1>6. QED
  BY <1>1, <1>4, <1>5 DEF TypeOK, Moves, Request, s

-----------------------------------------------------------------------------
(* The ends of a request.                                                  *)

Rows == Things \ (Ghosts \cup {Nothing})

\* What every step of a request has to see to.
Keeps(r) ==
    /\ req' \in [Requests -> Request]
    /\ \A s \in Requests \ {r} : req'[s] = req[s]
    /\ rows' \subseteq Rows
    /\ Progress(req'[r]) /\ Honest(req'[r]) /\ Justified(req'[r], rows')

\* It has all it has asked for.
LEMMA SuccessKeeps ==
  ASSUME IInv, NEW r \in Requests, req[r].pc # "idle", rows' \subseteq Rows,
         Moves(r), req'[r].pc = "answered", req'[r].status \in {200, 201, 204},
         req'[r].made = Duty[req[r].op]
  PROVE  Keeps(r)
BY DEF IInv, Keeps, Moves, Progress, Honest, Justified

\* It is refused before it has changed anything, for a reason that is true.
LEMMA RefusalKeeps ==
  ASSUME IInv, NEW r \in Requests, req[r].pc # "idle", rows' \subseteq Rows,
         req[r].made = {}, NEW status \in {400, 401, 403, 404, 409}, Answers(r, status),
         status = 409 => On(r) \in rows',
         status \in {403, 404} => On(r) \notin rows'
  PROVE  Keeps(r)
<1>1. /\ Moves(r) /\ req'[r].pc = "answered" /\ req'[r].status = status
      /\ req'[r].made = {}
  BY IsAnswered DEF IInv, Statuses
<1>2. QED
  BY <1>1 DEF IInv, Keeps, Moves, Progress, Honest, Justified, On

\* It asks for what Postgres refuses, and nothing of it has been done.
LEMMA BadKeeps ==
  ASSUME IInv, NEW r \in Requests, req[r].pc # "idle", rows' \subseteq Rows,
         req[r].bad, req[r].made = {}, Answers(r, 500)
  PROVE  Keeps(r)
<1>1. /\ Moves(r) /\ req'[r].pc = "answered" /\ req'[r].status = 500
      /\ req'[r].made = {}
  BY IsAnswered DEF IInv, Statuses
<1>2. Progress(req'[r])
  <2>1. req[r].on \in About[req[r].op] /\ req[r].bad \in Bad(req[r].op, req[r].on)
    BY Zenon DEF IInv, Progress
  <2>2. req'[r].on \in About[req'[r].op] /\ req'[r].bad \in Bad(req'[r].op, req'[r].on)
    BY <1>1, <2>1, Zenon DEF Moves
  <2>3. req'[r].pc \notin {"begin", "insert", "fill", "sign", "remove", "event"}
    BY <1>1
  <2>4. QED
    BY <2>2, <2>3, Zenon DEF Progress
<1>3. req'[r].bad = TRUE
  <2>1. req[r].bad = TRUE
    BY DEF IInv, TypeOK, Request
  <2>2. QED
    BY <1>1, <2>1, Zenon DEF Moves
<1>4. Honest(req'[r])
  <2>1. 500 \notin 400..499 /\ 500 \notin {200, 201, 204}
    OBVIOUS
  <2>2. QED
    BY <1>1, <1>3, <2>1, Zenon DEF Honest
<1>5. QED
  BY <1>1, <1>2, <1>4 DEF Keeps, Moves, Justified

\* A call of it fails.
LEMMA FailureKeeps ==
  ASSUME IInv, NEW r \in Requests, req[r].pc # "idle", rows' \subseteq Rows,
         NEW err \in Failures(r), NEW change \in SUBSET {"row", "event", "token"},
         Fails(r, err, change)
  PROVE  Keeps(r)
<1> DEFINE status == Status(Service(req[r].op, err))
<1>1. err \in {"broken", "deadline", "canceled"}
  BY DEF Failures
<1>2. status \in {0, 500, 504} /\ status \in Statuses
  BY <1>1, FailureStays DEF Statuses, Silence
<1>3. Moves(r) /\ req'[r].pc = "answered" /\ req'[r].failed /\ req'[r].status = status
  BY <1>2, HasFailed DEF IInv
<1> HIDE DEF status
<1>4. QED
  BY <1>2, <1>3 DEF IInv, Keeps, Moves, Progress, Honest, Justified

-----------------------------------------------------------------------------
(* The steps of a request.                                                 *)

\* It comes, is refused at the door, loses its client, goes.
LEMMA DoorSteps ==
  ASSUME IInv, NEW r \in Requests, Arrive(r) \/ Refuse(r) \/ HangUp(r) \/ Finish(r)
  PROVE  Keeps(r)
<1>0. /\ req \in [Requests -> Request] /\ req[r] \in Request
      /\ rows \subseteq Rows /\ Progress(req[r])
  BY DEF IInv, TypeOK, Rows
<1>1. CASE Arrive(r)
  <2>1. PICK op \in Ops : \E x \in About[op] : \E bad \in Bad(op, x) :
          req' = [req EXCEPT ![r] =
                    [Idle EXCEPT !.pc = "begin", !.op = op, !.on = x, !.bad = bad]]
    BY <1>1 DEF Arrive
  <2>2. PICK x \in About[op] : \E bad \in Bad(op, x) :
          req' = [req EXCEPT ![r] =
                    [Idle EXCEPT !.pc = "begin", !.op = op, !.on = x, !.bad = bad]]
    BY <2>1
  <2>3. PICK bad \in Bad(op, x) :
          req' = [req EXCEPT ![r] =
                    [Idle EXCEPT !.pc = "begin", !.op = op, !.on = x, !.bad = bad]]
    BY <2>2
  <2>8. x \in Things /\ bad \in BOOLEAN
    BY DEF Things, Bad
  <2>4. [Idle EXCEPT !.pc = "begin", !.op = op, !.on = x, !.bad = bad] \in Request
    BY <2>8 DEF Idle, Request, Statuses
  <2>5. /\ req'[r].pc = "begin" /\ req'[r].op = op /\ req'[r].on = x /\ req'[r].made = {}
        /\ req'[r].bad = bad
    BY <1>0, <2>3 DEF Idle
  <2>6. req' \in [Requests -> Request] /\ \A s \in Requests \ {r} : req'[s] = req[s]
    BY <1>0, <2>3, <2>4
  <2>7. QED
    BY <1>0, <1>1, <2>5, <2>6 DEF Arrive, Keeps, Progress, Honest, Justified
<1>2. CASE Refuse(r)
  <2>1. \/ \E status \in {400, 401} : Answers(r, status)
        \/ req[r].bad /\ Answers(r, 500)
    BY <1>2 DEF Refuse
  <2>2. req[r].pc = "begin" /\ req[r].made = {} /\ rows' = rows
    BY <1>0, <1>2 DEF Refuse, Progress
  <2>3. QED
    BY <1>0, <2>1, <2>2, RefusalKeeps, BadKeeps
<1>3. CASE HangUp(r)
  <2>1. req' = [req EXCEPT ![r] = [req[r] EXCEPT !.gone = TRUE]]
    BY <1>0, <1>3 DEF HangUp
  <2>2. [req[r] EXCEPT !.gone = TRUE] \in Request
    BY <1>0 DEF Request
  <2>3. /\ req'[r].pc = req[r].pc /\ req'[r].op = req[r].op /\ req'[r].on = req[r].on
        /\ req'[r].made = req[r].made /\ req'[r].bad = req[r].bad
    BY <1>0, <2>1 DEF Request
  <2>4. req' \in [Requests -> Request] /\ \A s \in Requests \ {r} : req'[s] = req[s]
    BY <1>0, <2>1, <2>2
  <2>5. req[r].pc # "answered" /\ rows' = rows
    BY <1>3 DEF HangUp
  <2>6. QED
    BY <1>0, <2>3, <2>4, <2>5 DEF Keeps, Progress, Honest, Justified
<1>4. CASE Finish(r)
  <2>1. Idle \in Request /\ Idle.pc = "idle"
    BY OpsAre DEF Idle, Request, Statuses
  <2>2. req'[r] = Idle /\ rows' = rows
    BY <1>0, <1>4 DEF Finish
  <2>3. req' \in [Requests -> Request] /\ \A s \in Requests \ {r} : req'[s] = req[s]
    BY <1>0, <1>4, <2>1 DEF Finish
  <2>4. QED
    BY <1>0, <2>1, <2>2, <2>3 DEF Keeps, Progress, Honest, Justified
<1>5. QED
  BY <1>1, <1>2, <1>3, <1>4

\* Subscriptions: a ghost is nobody's row.
LEMMA SubscriptionSteps ==
  ASSUME IInv, NEW r \in Requests,
         Subscribe(r) \/ SubscribeFailed(r) \/ Unsubscribe(r) \/ UnsubscribeFailed(r) \/ Fill(r)
  PROVE  Keeps(r)
<1>0. /\ TypeOK /\ req[r] \in Request /\ rows \subseteq Rows /\ Progress(req[r])
  BY DEF IInv, TypeOK, Rows
<1>1. CASE Subscribe(r)
  <2>1. /\ req[r].op = "subscribe" /\ req[r].pc = "begin" /\ req[r].made = {}
        /\ On(r) \in Follows
    BY <1>0, <1>1, OpsAre DEF Subscribe, At, Progress, On
  <2>2. CASE On(r) \in Ghosts /\ Reports(r, Repository("subscribe", "refused")) /\ UNCHANGED rows
    <3>1. Answers(r, 500)
      BY <2>1, <2>2, ServiceIs, StatusIs DEF Reports
    <3>2. req[r].bad
      BY <1>0, <2>1, <2>2 DEF Progress, Bad, On
    <3>3. QED
      BY <1>0, <2>1, <2>2, <3>1, <3>2, BadKeeps
  <2>3. CASE On(r) \in rows /\ Reports(r, Repository("subscribe", "unique")) /\ UNCHANGED rows
    <3>1. Answers(r, 409)
      BY <2>1, <2>3, ServiceIs, StatusIs DEF Reports
    <3>2. QED
      BY <1>0, <2>1, <2>3, <3>1, RefusalKeeps
  <2>4. CASE /\ On(r) \notin Ghosts \cup rows
             /\ rows' = rows \cup {On(r)}
             /\ Makes(r, {"row"}, "fill")
    <3>1. Moves(r) /\ req'[r].pc = "fill" /\ req'[r].made = {"row"}
      BY <1>0, <2>1, <2>4, MakesChange
    <3>2. rows' \subseteq Rows
      BY <1>0, <2>1, <2>4, RowsAreReal DEF Rows
    <3>3. QED
      BY <1>0, <2>1, <3>1, <3>2 DEF Keeps, Moves, Progress, Honest, Justified
  <2>5. QED
    BY <1>1, <2>2, <2>3, <2>4 DEF Subscribe
<1>2. CASE SubscribeFailed(r)
  <2> DEFINE change == IF On(r) \in Ghosts \cup rows THEN {} ELSE {"row"}
  <2>1. PICK err \in Failures(r) : Fails(r, Repository("subscribe", err), change)
    BY <1>2 DEF SubscribeFailed
  <2>2. Repository("subscribe", err) = err
    BY FailureStays DEF Failures
  <2>3. /\ req[r].op = "subscribe" /\ req[r].pc = "begin" /\ req[r].made = {}
        /\ On(r) \in Follows
    BY <1>0, <1>2, OpsAre DEF SubscribeFailed, At, Progress, On
  <2>4. req'[r].made \in {{}, change}
    <3>1. Status(Service(req[r].op, err)) \in Statuses
      BY FailureStays DEF Failures, Statuses, Silence
    <3>2. QED
      BY <1>0, <2>1, <2>2, <2>3, <3>1, HasFailed
  <2>5. rows' \subseteq Rows
    BY <1>0, <1>2, <2>3, <2>4, RowsAreReal DEF SubscribeFailed, Rows
  <2>6. QED
    BY <2>1, <2>2, <2>3, <2>5, FailureKeeps
<1>3. CASE Unsubscribe(r)
  <2>1. req[r].op = "unsubscribe" /\ req[r].pc = "begin" /\ req[r].made = {}
    BY <1>0, <1>3 DEF Unsubscribe, At, Progress
  <2>2. rows' \subseteq Rows
    BY <1>0, <1>3 DEF Unsubscribe
  <2>3. CASE On(r) \notin rows /\ Reports(r, UnsubscribeResult(0, "nil"))
    <3>1. Answers(r, 400)
      BY <2>1, <2>3, ServiceIs, StatusIs DEF Reports
    <3>2. QED
      BY <2>1, <2>2, <3>1, RefusalKeeps
  <2>4. CASE On(r) \in rows /\ Makes(r, {"row"}, "fill")
    <3>1. Moves(r) /\ req'[r].pc = "fill" /\ req'[r].made = {"row"}
      BY <1>0, <2>1, <2>4, MakesChange
    <3>2. QED
      BY <1>0, <2>1, <2>2, <3>1 DEF Keeps, Moves, Progress, Honest, Justified
  <2>5. QED
    BY <1>3, <2>3, <2>4 DEF Unsubscribe
<1>4. CASE UnsubscribeFailed(r)
  <2>1. PICK err \in Failures(r) :
          Fails(r, UnsubscribeResult(0, err), IF On(r) \in rows THEN {"row"} ELSE {})
    BY <1>4 DEF UnsubscribeFailed
  <2>2. req[r].op = "unsubscribe" /\ req[r].pc = "begin"
    BY <1>4 DEF UnsubscribeFailed, At
  <2>3. Status(Service(req[r].op, UnsubscribeResult(0, err))) = 400
    BY <2>2, ServiceIs, StatusIs
  <2>4. Moves(r) /\ req'[r].pc = "answered" /\ req'[r].failed /\ req'[r].status = 400
    BY <1>0, <2>1, <2>3, HasFailed DEF Statuses
  <2>5. rows' \subseteq Rows
    BY <1>0, <1>4 DEF UnsubscribeFailed
  <2>6. Honest(req'[r])
    <3>1. 400 \notin 500..599 /\ 400 \notin {200, 201, 204}
      OBVIOUS
    <3>2. req'[r].op = "unsubscribe"
      BY <2>2, <2>4 DEF Moves
    <3>3. QED
      BY <2>4, <3>1, <3>2, Zenon DEF Honest
  <2>7. QED
    BY <1>0, <2>2, <2>4, <2>5, <2>6 DEF Keeps, Moves, Progress, Justified
<1>5. CASE Fill(r)
  <2>1. /\ req[r].pc = "fill" /\ req[r].op \in {"subscribe", "unsubscribe"}
        /\ req[r].made = {"row"} /\ rows' = rows
    BY <1>0, <1>5 DEF Fill, Progress
  <2>2. CASE Answers(r, Success[req[r].op])
    <3>1. Success[req[r].op] \in {200, 201, 204} /\ Success[req[r].op] \in Statuses
      BY <1>0, Successes DEF Request, Statuses
    <3>2. /\ Moves(r) /\ req'[r].pc = "answered" /\ req'[r].status \in {200, 201, 204}
          /\ req'[r].made = {"row"}
      BY <1>0, <2>1, <2>2, <3>1, IsAnswered
    <3>3. QED
      BY <1>0, <2>1, <3>2, SuccessKeeps, Successes
  <2>3. CASE \E err \in Failures(r) : Fails(r, err, {})
    BY <1>0, <2>1, <2>3, FailureKeeps
  <2>4. QED
    BY <1>5, <2>2, <2>3 DEF Fill
<1>6. QED
  BY <1>1, <1>2, <1>3, <1>4, <1>5

\* Registration, log-in, exchange of tokens, log-out.
LEMMA TokenSteps ==
  ASSUME IInv, NEW r \in Requests,
         \/ FindUser(r) \/ InsertUser(r) \/ InsertUserFailed(r)
         \/ DeleteToken(r) \/ DeleteTokenFailed(r) \/ Sign(r) \/ SignFailed(r)
  PROVE  Keeps(r)
<1>0. /\ TypeOK /\ req[r] \in Request /\ rows \subseteq Rows /\ Progress(req[r])
  BY DEF IInv, TypeOK, Rows
<1>1. CASE FindUser(r)
  <2>1. /\ req[r].op \in {"register", "login"} /\ req[r].pc = "begin" /\ req[r].made = {}
        /\ rows' = rows
    BY <1>0, <1>1 DEF FindUser, At, Progress
  <2>2. CASE Goes(r, "insert") /\ req[r].op = "register"
    BY <1>0, <2>1, <2>2, GoesOn DEF Keeps, Moves, Progress, Honest, Justified
  <2>3. CASE Goes(r, "sign") /\ req[r].op = "login"
    BY <1>0, <2>1, <2>3, GoesOn DEF Keeps, Moves, Progress, Honest, Justified
  <2>4. CASE Reports(r, "UserAlreadyExists") /\ req[r].op = "register" /\ On(r) \in rows
    <3>1. Answers(r, 409)
      BY <2>4, ServiceIs, StatusIs DEF Reports
    <3>2. QED
      BY <1>0, <2>1, <2>4, <3>1, RefusalKeeps
  <2>6. CASE req[r].bad /\ Reports(r, Repository(req[r].op, "refused"))
    <3>1. Answers(r, 500)
      BY <2>6, ServiceIs, StatusIs DEF Reports
    <3>2. QED
      BY <1>0, <2>1, <2>6, <3>1, BadKeeps
  <2>5. CASE /\ req[r].op = "login"
             /\ Reports(r, Repository("login", "norows")) \/ Reports(r, "InvalidCredentials")
    <3>1. Answers(r, 400)
      BY <2>5, ServiceIs, StatusIs DEF Reports
    <3>2. QED
      BY <1>0, <2>1, <3>1, RefusalKeeps
  <2>7. QED
    BY <1>1, <2>1, <2>2, <2>3, <2>4, <2>5, <2>6 DEF FindUser
<1>2. CASE InsertUser(r)
  <2>1. /\ req[r].op = "register" /\ req[r].pc = "insert" /\ req[r].made = {}
        /\ On(r) \in Names
    BY <1>0, <1>2, OpsAre DEF InsertUser, At, Progress, On
  <2>2. CASE On(r) \in rows /\ Reports(r, Repository("register", "unique")) /\ UNCHANGED rows
    <3>1. Answers(r, 409)
      BY <2>1, <2>2, ServiceIs, StatusIs DEF Reports
    <3>2. QED
      BY <1>0, <2>1, <2>2, <3>1, RefusalKeeps
  <2>3. CASE Makes(r, {"row"}, "sign") /\ rows' = rows \cup {On(r)}
    <3>1. Moves(r) /\ req'[r].pc = "sign" /\ req'[r].made = {"row"}
      BY <1>0, <2>1, <2>3, MakesChange
    <3>2. rows' \subseteq Rows
      BY <1>0, <2>1, <2>3, RowsAreReal DEF Rows
    <3>3. QED
      BY <1>0, <2>1, <3>1, <3>2 DEF Keeps, Moves, Progress, Honest, Justified
  <2>4. CASE req[r].bad /\ Reports(r, Repository("register", "refused")) /\ UNCHANGED rows
    <3>1. Answers(r, 500)
      BY <2>1, <2>4, ServiceIs, StatusIs DEF Reports
    <3>2. QED
      BY <1>0, <2>1, <2>4, <3>1, BadKeeps
  <2>5. QED
    BY <1>2, <2>2, <2>3, <2>4 DEF InsertUser
<1>3. CASE InsertUserFailed(r)
  <2>1. PICK err \in Failures(r) :
          Fails(r, Repository("register", err),
                IF req[r].bad \/ On(r) \in rows THEN {} ELSE {"row"})
    BY <1>3 DEF InsertUserFailed
  <2>2. Repository("register", err) = err
    BY FailureStays DEF Failures
  <2>3. req[r].op = "register" /\ req[r].pc = "insert" /\ On(r) \in Names
    BY <1>0, <1>3, OpsAre DEF InsertUserFailed, At, Progress, On
  <2>4. rows' \subseteq Rows
    BY <1>0, <1>3, <2>3, RowsAreReal DEF InsertUserFailed, Rows
  <2>5. QED
    BY <2>1, <2>2, <2>3, <2>4, FailureKeeps
<1>4. CASE DeleteToken(r)
  <2>1. /\ req[r].op \in {"refresh", "logout"} /\ req[r].pc = "begin" /\ req[r].made = {}
        /\ rows' \subseteq Rows /\ On(r) \notin rows'
    BY <1>0, <1>4 DEF DeleteToken, At, Progress
  <2>2. CASE Reports(r, "TokenBanned")
    <3>1. Answers(r, 403)
      BY <2>1, <2>2, ServiceIs, StatusIs DEF Reports
    <3>2. QED
      BY <2>1, <3>1, RefusalKeeps
  <2>3. CASE Makes(r, {"row"}, "sign") /\ req[r].op = "refresh"
    <3>1. Moves(r) /\ req'[r].pc = "sign" /\ req'[r].made = {"row"}
      BY <1>0, <2>1, <2>3, MakesChange
    <3>2. QED
      BY <1>0, <2>1, <2>3, <3>1 DEF Keeps, Moves, Progress, Honest, Justified
  <2>4. CASE /\ req[r].op = "logout"
             /\ req' = [req EXCEPT ![r].made = {"row"}, ![r].pc = "answered",
                                   ![r].status = Success["logout"]]
    <3>1. Succeeds(r, {"row"})
      BY <2>4 DEF Succeeds
    <3>2. /\ Moves(r) /\ req'[r].pc = "answered" /\ req'[r].status \in {200, 201, 204}
          /\ req'[r].made = {"row"}
      BY <1>0, <3>1, EndsWell
    <3>3. QED
      BY <2>1, <2>4, <3>2, SuccessKeeps, Successes
  <2>5. QED
    BY <1>4, <2>1, <2>2, <2>3, <2>4 DEF DeleteToken
<1>5. CASE DeleteTokenFailed(r)
  <2>1. PICK err \in Failures(r) : Fails(r, err, IF On(r) \in rows THEN {"row"} ELSE {})
    BY <1>5 DEF DeleteTokenFailed
  <2>2. req[r].pc = "begin" /\ rows' \subseteq Rows
    BY <1>0, <1>5 DEF DeleteTokenFailed, At
  <2>3. QED
    BY <2>1, <2>2, FailureKeeps
<1>6. CASE Sign(r)
  <2>1. req[r].pc = "sign" /\ rows' = rows /\ Succeeds(r, req[r].made \cup {"token"})
    BY <1>6 DEF Sign, Succeeds
  <2>2. req[r].made \cup {"token"} \in SUBSET {"row", "event", "token"}
    BY <1>0 DEF Request
  <2>3. /\ Moves(r) /\ req'[r].pc = "answered" /\ req'[r].status \in {200, 201, 204}
        /\ req'[r].made = req[r].made \cup {"token"}
    BY <1>0, <2>1, <2>2, EndsWell
  <2>4. req[r].made \cup {"token"} = Duty[req[r].op]
    BY <1>0, <2>1, Successes DEF Progress
  <2>5. req[r].pc # "idle" /\ rows' \subseteq Rows /\ req'[r].made = Duty[req[r].op]
    BY <1>0, <2>1, <2>3, <2>4
  <2>6. QED
    BY <2>3, <2>5, SuccessKeeps
<1>7. CASE SignFailed(r)
  <2>1. PICK err \in Failures(r) : Fails(r, err, {"token"})
    BY <1>7 DEF SignFailed
  <2>2. req[r].pc = "sign" /\ rows' = rows
    BY <1>7 DEF SignFailed
  <2>3. QED
    BY <1>0, <2>1, <2>2, FailureKeeps
<1>8. QED
  BY <1>1, <1>2, <1>3, <1>4, <1>5, <1>6, <1>7

\* Posts: each end has the changes of the steps before it.
LEMMA PostSteps ==
  ASSUME IInv, NEW r \in Requests,
         AddPost(r) \/ FindPost(r) \/ MarkDeleted(r) \/ CommitRemoval(r) \/ Read(r)
  PROVE  Keeps(r)
<1>0. /\ TypeOK /\ req[r] \in Request /\ rows' \subseteq Rows /\ rows' = rows
      /\ Progress(req[r])
  BY DEF IInv, TypeOK, Rows, AddPost, FindPost, MarkDeleted, CommitRemoval, Read
<1>1. CASE AddPost(r)
  <2>1. req[r].op = "add" /\ req[r].pc = "begin" /\ req[r].made = {}
    BY <1>0, <1>1 DEF AddPost, At, Progress
  <2>2. CASE Succeeds(r, Duty["add"])
    <3>1. /\ Moves(r) /\ req'[r].pc = "answered" /\ req'[r].status \in {200, 201, 204}
          /\ req'[r].made = Duty["add"]
      BY <1>0, <2>2, EndsWell, Successes
    <3>2. QED
      BY <1>0, <2>1, <3>1, SuccessKeeps
  <2>3. CASE req[r].bad /\ \E err \in {"refused", "unique"} : Reports(r, Repository("add", err))
    <3>1. Answers(r, 500)
      BY <2>1, <2>3, ServiceIs, StatusIs DEF Reports
    <3>2. QED
      BY <1>0, <2>1, <2>3, <3>1, BadKeeps
  <2>4. \/ req[r].bad /\ \E err \in {"refused", "unique"} : Reports(r, Repository("add", err))
        \/ Succeeds(r, Duty["add"])
    BY <1>1, <2>1, Zenon DEF AddPost, Succeeds
  <2>5. QED
    BY <2>2, <2>3, <2>4
<1>2. CASE FindPost(r)
  <2>1. req[r].op = "remove" /\ req[r].pc = "begin" /\ req[r].made = {}
    BY <1>0, <1>2 DEF FindPost, At, Progress
  <2>2. CASE On(r) \notin rows /\ Reports(r, Repository("remove", "norows"))
    <3>1. Answers(r, 404)
      BY <2>1, <2>2, ServiceIs, StatusIs DEF Reports
    <3>2. QED
      BY <1>0, <2>1, <2>2, <3>1, RefusalKeeps
  <2>3. CASE Reports(r, "Unauthorized")
    <3>1. Answers(r, 401)
      BY <2>1, <2>3, ServiceIs, StatusIs DEF Reports
    <3>2. QED
      BY <1>0, <2>1, <3>1, RefusalKeeps
  <2>4. CASE Goes(r, "remove")
    BY <1>0, <2>1, <2>4, GoesOn DEF Keeps, Moves, Progress, Honest, Justified
  <2>5. QED
    BY <1>2, <2>2, <2>3, <2>4 DEF FindPost
<1>3. CASE MarkDeleted(r)
  <2>1. req[r].pc = "remove" /\ req[r].op = "remove" /\ req[r].made = {}
    BY <1>0, <1>3 DEF MarkDeleted, Progress
  <2>2. Moves(r) /\ req'[r].pc = "event" /\ req'[r].made = {"row"}
    BY <1>0, <1>3, <2>1, MakesChange DEF MarkDeleted
  <2>3. QED
    BY <1>0, <2>1, <2>2 DEF Keeps, Moves, Progress, Honest, Justified
<1>4. CASE CommitRemoval(r)
  <2>1. req[r].pc = "event" /\ req[r].op = "remove" /\ req[r].made = {"row"}
    BY <1>0, <1>4 DEF CommitRemoval, Progress
  <2>2. Succeeds(r, req[r].made \cup {"event"})
    BY <1>4, <2>1 DEF CommitRemoval, Succeeds
  <2>3. req[r].made \cup {"event"} = {"row", "event"}
    BY <2>1
  <2>4. /\ Moves(r) /\ req'[r].pc = "answered" /\ req'[r].status \in {200, 201, 204}
        /\ req'[r].made = {"row", "event"}
    BY <1>0, <2>2, <2>3, EndsWell
  <2>5. QED
    BY <1>0, <2>1, <2>4, SuccessKeeps, Successes
<1>5. CASE Read(r)
  <2>1. req[r].op = "read" /\ req[r].pc = "begin" /\ req[r].made = {}
    BY <1>0, <1>5 DEF Read, At, Progress
  <2>2. Success["read"] \in {200, 201, 204} /\ Success["read"] \in Statuses
    BY OpsAre, Successes DEF Statuses
  <2>3. CASE Answers(r, Success["read"])
    <3>1. /\ Moves(r) /\ req'[r].pc = "answered" /\ req'[r].status \in {200, 201, 204}
          /\ req'[r].made = {}
      BY <1>0, <2>1, <2>2, <2>3, IsAnswered
    <3>2. QED
      BY <1>0, <2>1, <3>1, SuccessKeeps, Successes
  <2>4. CASE req[r].bad /\ Reports(r, "refused")
    <3>1. Answers(r, 500)
      BY <2>1, <2>4, ServiceIs, StatusIs DEF Reports
    <3>2. QED
      BY <1>0, <2>1, <2>4, <3>1, BadKeeps
  <2>5. QED
    BY <1>5, <2>3, <2>4 DEF Read
<1>6. QED
  BY <1>1, <1>2, <1>3, <1>4, <1>5

\* A lookup, a transaction or a statement that fails.
LEMMA CallFailedStep ==
  ASSUME IInv, NEW r \in Requests, CallFailed(r)
  PROVE  Keeps(r)
<1>1. PICK err \in Failures(r) :
        \/ At(r, {"register", "login", "remove", "read"}, "begin") /\ Fails(r, err, {})
        \/ At(r, {"add"}, "begin") /\ Fails(r, err, IF req[r].bad THEN {} ELSE Duty["add"])
        \/ req[r].pc = "remove" /\ Fails(r, err, {"row"})
        \/ req[r].pc = "event" /\ Fails(r, err, {"event"})
  BY DEF CallFailed
<1>2. PICK change \in SUBSET {"row", "event", "token"} : Fails(r, err, change)
  BY <1>1, Successes
<1>3. req[r].pc # "idle" /\ rows' \subseteq Rows
  BY <1>1 DEF At, CallFailed, IInv, TypeOK, Rows
<1>4. QED
  BY <1>2, <1>3, FailureKeeps

-----------------------------------------------------------------------------
(* The theorems.                                                           *)

\* The initial states satisfy the invariant.
LEMMA InitInv == Init => IInv
<1> SUFFICES ASSUME Init PROVE IInv
  OBVIOUS
<1>1. Idle \in Request /\ Idle.pc = "idle"
  BY OpsAre DEF Idle, Request, Statuses
<1>2. QED
  BY <1>1 DEF Init, IInv, TypeOK, Progress, Honest, RefusalsAreTrue, Answered

\* What a request has seen in the tables stays seen until it goes.
LEMMA WatchKeeps ==
  ASSUME IInv, NEW r \in Requests, Keeps(r), Watch
  PROVE  IInv'
<1>1. TypeOK'
  BY DEF IInv, TypeOK, Keeps, Watch, Rows
<1>2. \A s \in Requests : Progress(req'[s]) /\ Honest(req'[s])
  BY DEF IInv, Keeps
<1>3. ASSUME NEW s \in Requests, req'[s].pc = "answered"
      PROVE  /\ req'[s].status = 409 => "present" \in was'[s]
             /\ req'[s].status \in {403, 404} => "absent" \in was'[s]
  <2>1. was'[s] = was[s] \cup {IF req'[s].on \in rows' THEN "present" ELSE "absent"}
    BY <1>3 DEF Watch
  <2>2. CASE s = r
    BY <1>3, <2>1, <2>2 DEF Keeps, Justified
  <2>3. CASE s # r
    <3>1. req'[s] = req[s]
      BY <2>3 DEF Keeps
    <3>2. QED
      BY <1>3, <2>1, <3>1 DEF IInv, RefusalsAreTrue, Answered
  <2>4. QED
    BY <2>2, <2>3
<1>4. RefusalsAreTrue'
  BY <1>3 DEF RefusalsAreTrue, Answered
<1>5. QED
  BY <1>1, <1>2, <1>4 DEF IInv, Progress, Honest

\* Every step keeps the invariant.
LEMMA StepInv == IInv /\ [Next]_vars => IInv'
<1> SUFFICES ASSUME IInv, [Next]_vars PROVE IInv'
  OBVIOUS
<1>1. ASSUME NEW r \in Requests, Step(r) PROVE Keeps(r)
  BY <1>1, DoorSteps, SubscriptionSteps, TokenSteps, PostSteps, CallFailedStep DEF Step
<1>2. CASE Next
  BY <1>1, <1>2, WatchKeeps DEF Next
<1>3. CASE UNCHANGED vars
  BY <1>3 DEF vars, IInv, TypeOK, Progress, Honest, RefusalsAreTrue, Answered
<1>4. QED
  BY <1>2, <1>3

\* The invariant holds throughout.
THEOREM Invariance == Spec => []IInv
BY InitInv, StepInv, PTL DEF Spec

\* Tables and requests keep their types, whatever the requests are about.
THEOREM TypeCorrect == Spec => []TypeOK
<1>1. IInv => TypeOK
  BY DEF IInv
<1>2. QED
  BY <1>1, Invariance, PTL

\* A success has been had in full, and by this request.
THEOREM SuccessesAreDone == Spec => []SuccessIsDone
<1>1. IInv => SuccessIsDone
  BY DEF IInv, Honest, SuccessIsDone, Answered
<1>2. QED
  BY <1>1, Invariance, PTL

\* A refusal has changed nothing.
THEOREM RefusalsChangeNothing == Spec => []RefusedChangesNothing
<1>1. IInv => RefusedChangesNothing
  BY DEF IInv, Honest, RefusedChangesNothing, Answered
<1>2. QED
  BY <1>1, Invariance, PTL

\* The reason of a refusal has been true while the request ran.
THEOREM ReasonsAreTrue == Spec => []RefusalsAreTrue
<1>1. IInv => RefusalsAreTrue
  BY DEF IInv
<1>2. QED
  BY <1>1, Invariance, PTL

\* The server blames itself for failures of calls and for requests that Postgres refuses, never
\* for the meeting of two requests.
THEOREM CausesAreFound == Spec => []ServerErrorsHaveCauses
<1>1. IInv => ServerErrorsHaveCauses
  BY DEF IInv, Honest, ServerErrorsHaveCauses, Answered
<1>2. QED
  BY <1>1, Invariance, PTL
=============================================================================
