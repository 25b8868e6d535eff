# Verification of blog-go

TLA+ models of the backend in `src/`, the TLC runs that check them and the
TLAPS proofs about them. `PROJECT.json` holds the machine-readable side: the
lines each definition translates, the runs, one mutant per property, the
hazards and the theorems.

- [The system](#the-system)
- [Modules](#modules)
- [Runs](#runs)
- [Proofs](#proofs)
- [What the code does otherwise than its documentation says](#findings)
- [Not modelled, and the plan](#plan)

## The system

A Twitter-like backend: Go, gin, Postgres through pgx and sqlc, Redis. One
`web` container; HTTP requests run concurrently in it, with one background
goroutine, the post events processor.

| Component | State | Operations | Interacts with |
|---|---|---|---|
| Post table (`postRepository`) | `posts`, `post_media`, `outbox` in Postgres | AddPost (one transaction: post, attachments, event), RemovePost (deleted_at and event), reads by id, ids, author | called through the post cache; writes what the processor reads |
| Outbox processor (`postEventsProcessor`) | position in the batch, back-off; `outbox.processed_at` | loop: fetch the oldest unprocessed rows, handle each, mark them all | reads `outbox` and `subscriber_author`, writes feeds |
| Feeds (`feedCacher`) | `user:<id>:feed`, sorted sets in Redis | ZADD, ZREM over the followers, page by ZRANGE BYLEX | written by the processor, read by `feedService` |
| Post cache (`postCacheWrapper`, `postCacher`) | `post:<id>` documents in Redis, with a time to live of 10 days | add, patch deleted_at, read through | decorates the post table |
| Follower cache (`userCacheWrapper`, `subsCacher`) | `user:<id>:followers` sets in Redis, a singleflight group | subscribe, unsubscribe, read through | decorates `userRepository` for the user and auth services, so subscriptions maintain the list; nobody reads it in production: the processor and the feed service are given the plain repository |
| Sessions (`authService`, `tokenRepository`, `jwtMiddleware`) | `allowed_refresh_tokens`; the claims in the tokens of the clients | sign, rotate, log out, let in | called by the auth handlers; the middleware guards all other routes |
| Users (`userAccessService`, `userRepository`) | `users`, `subscriber_author` | register, subscribe, unsubscribe | auth and user handlers |
| Back-off | count of adverse cycles | next delay, accumulate, clear | the processor |
| Start and shutdown (`main`) | the pending error | stop the server, telemetry, the processor, the connections; exit code | everything |
| Connection pool | which connections are in use | statements and transactions take one, RemovePost two | requests, the processor and the fills of follower lists |
| Work pool | a bounded channel and its workers | try to push, close | nothing uses it |
| Handlers, error middleware | none that outlives a request | call the services, translate their errors into answers | clients |
| Configuration, telemetry | none | – | – |

What is hard, and where it bites, is the list `hazards` of `PROJECT.json`. In short:

- **Order.** `outbox.created_at` is `DEFAULT now()`, the start of the
  transaction. Rows become visible in commit order and are read in start order.
- **Replays.** The processor keeps its position in memory and marks a batch as
  a whole. An error or a restart repeats all of it, additions after deletions
  included.
- **Time of reading.** The followers are read when an event is handled, and
  pushed to afterwards; subscriptions change before, between and after.
- **Two stores.** Every operation of the caches touches Postgres, then Redis
  (or the other way round) with nothing to order it with other requests, and an
  error of Redis is logged and forgotten.
- **One operation, two connections.** RemovePost opens a transaction and
  changes the row outside of it.
- **Four translations of an error.** Repository, service, handler and middleware
  each replace the errors they know; what the client is told of a statement that
  failed, perhaps with its effect, is what is left at the end.
- **Time.** The delay between two cycles grows while there is nothing to do or
  calls fail; access tokens outlive a log-out.

What makes each component correct: the outbox loses no event and handles a
post's addition before its deletion; a processed event has reached every
follower who was there all the time; a processed deletion is final; the caches
never contradict the table for good, and a read-through is complete; a refresh
token is used once and access ends a known time after a log-out; pagination
neither skips nor repeats, also while the feed is being written; the processor
neither rests too long nor spins; an answer says of the tables what is true;
shutdown is honest about what it cut; the pool is waited for in a circle by no
one but removals (which can do so, and then for good).

## Modules

| Module | Models |
|---|---|
| `OutboxDelivery` | the abstract promise of a transactional outbox: committed, handed over, acknowledged |
| `FeedFanout` | AddPost, RemovePost, subscriptions, the processor, its failures, restarts, lost feeds; implements `OutboxDelivery` |
| `TwoProcessors` | `FeedFanout` with a second processor over the same tables and feeds |
| `FeedPaging` | a client that follows the cursors through its feed or an author's posts |
| `FeedReading` | `FeedFanout` and the walk of `FeedPaging` together; implements `FeedPaging` |
| `PostCache` | the post cache over the posts table and its documents |
| `FollowerCache` | one author's cached follower list, its changes, reads and shared fill |
| `Sessions` | registration, log-in, exchange of refresh tokens, log-out |
| `Access` | `Sessions` under a clock: expiry, access tokens |
| `Answers` | every route of the API between the tables and the status of its answer |
| `RetryLoop` | the processor's loop in time, with the exponential back-off |
| `Lifecycle` | requests and the processor on the connection pool, and the shutdown |
| `FeedFanoutProofs`, `FeedPagingProofs`, `FeedCompositionProofs` (of `FeedReading` and `TwoProcessors`), `PostCacheProofs`, `FollowerCacheProofs`, `SessionsProofs` (of `Sessions` and `Access`), `AnswersProofs`, `ProcessProofs` (of `Lifecycle` and `RetryLoop`) | the inductive invariants and the theorems |
| `MC...` | values of the constants and symmetries for TLC |

A definition whose comment begins with "Mutant:" is a plausible bug in the
operator that follows it. It is used by no specification; substituting it for
that operator must violate the property `PROJECT.json` pairs it with.

### FeedFanout

*State.* `posts`, `subs`, `outbox`, `processed` are the committed tables.
`clock` hands out the start times of transactions. `adding` and `removing` are
the requests under way: `adding[p]` is the start time of the open AddPost
transaction of `p`, `removing[d]` the progress of one RemovePostById. `phase`,
`batch`, `todo`, `event`, `targets` are the local variables of
`fetchAndProcess`, `processEvents` and `pushToFeed`. `feed` are the sorted sets
(as sets: `feedMember` is a function of the post, which makes ZADD and ZREM
idempotent). `owed` is a history variable: who was a follower when an event
was committed and has been one ever since. It appears in no guard.

*Actions and code.*

| Action | Code |
|---|---|
| BeginAdd, CommitAdd, AbortAdd | `ExecTransaction` around `postRepository.AddPost`. The statements of the transaction are one step, at its commit; only its start time is taken before, because it is the stamp of the row |
| FindForRemoval | `GetPostById` and the author check of `RemovePostById`. A deleted post passes them |
| BeginRemoval, MarkDeleted, CommitRemoval, AbortRemoval | `postRepository.RemovePost`: begin, `r.query.DeletePost` on the pool (commits alone), `q.AddToOutbox` and commit, or any of them failing |
| Subscribe, Unsubscribe | one statement each |
| Fetch, ReadSubs, Push, MarkProcessed | one cycle of the loop: the oldest `Limit` unprocessed rows; for each the followers, then the pipeline; then the UPDATE. Between any two of these every request may act |
| SubsFailed, PushFailed, MarkFailed | an error of each call. A failed pipeline has reached any part of the followers, a failed UPDATE may have happened. `fetchAndProcess` returns and the batch is forgotten |
| Crash | the process stops anywhere and is restarted (`restart: on-failure`); open transactions are rolled back |
| LoseFeed | `maxmemory-policy allkeys-lru` |

An error of the fetch itself changes nothing and is left out. A removal whose
author check fails changes nothing either.

*The promise of the outbox.* `OutboxDelivery` knows events, an order some of
them have to keep (an addition before the deletions of its post), and three
sets. `FeedFanout` implements it with `committed <- outbox`,
`acked <- processed` and `handed <- processed \cup (batch \ todo)`: what was
handled in the present attempt counts as handed over until the attempt fails.
This excludes handling a deletion and then, in the same attempt or a later one,
the addition.

### TwoProcessors

Nothing reserves a row: `GetOutboxEvents` has neither FOR UPDATE SKIP LOCKED nor
a lease, so a second instance of the program (or an old one that is still
stopping) fetches the same rows. `TwoProcessors` extends
`FeedFanout` and adds the local variables of a second processor (`phase2` ...
`targets2`), whose steps are an instance of the module over the same tables and
feeds. What survives is stated, and for either processor as soon as it has
handled a row, not only once the row is marked: an addition is in the feed of
everybody it is owed to (`StillDelivered`), and a deletion is taken up after the
addition it follows (`StillInOrder`). What does not survive is `Removed`: a
processor that has read the followers for an addition may push it after the
other one has handled the addition and the deletion and marked both. ZADD and
ZREM can each be repeated but do not commute. `OnlyLateAdditionsReturn` says that
this is the only way back: nothing enters a feed after its marked deletion
except by an addition in hand whose row the other processor has marked. The
deployment runs one container.

### FeedPaging

*State.* `posts` is the table, `feed` the reader's sorted set, `walk` one
client: the cursor it got with the latest page (named by its post), the ids
read and not resolved yet, the latest page. History in `walk`: `shown` (all
pages), `from` and `before` (the cursor that the latest page was asked for with
and what had been shown before it), `steady` (posts that could be read without
interruption since the walk began), `blank` (the latest page had ids, all of
deleted posts).

`CursorDescends` compares the cursor of the latest page with `from` and
`AuthorPagesDisjoint` the page with `before`. Both speak of states, so that a page
that hands back the cursor it was given, or is shown a second time, violates them.

*Two orders.* `feedMember` writes milliseconds and the id, the table is
ordered by microseconds and the id. `Key(source, p)` is the sort key in each,
and `Below` compares in the source that is read; the cursor carries
microseconds and the feed cuts them itself.

| Action | Code |
|---|---|
| Start, Show | the first page and the next ones; no post, no cursor (`makeNewCursor`) |
| ReadFeed | `GetFeedPostsIds`. A limit of 0 is not sent and a negative one is taken by Redis for none |
| ReadPosts | `GetPostsWithIds` as the feed service sees it: what the cache has, in the order of the ids (it may hold deleted posts as live), then the rows of the others in any order. The sorted slice is computed and not returned |
| ReadAuthor | `GetPostsByAuthorId`, one statement |
| ReadFailed | an error between the two reads |
| AddPost, RemovePost, PushToFeed, RemoveFromFeed, LoseFeed | what the rest of the system does meanwhile. `created_at` is taken before the transaction, so a post may appear anywhere in the order |

### FeedReading

`FeedPaging` lets posts enter and leave the feed as they like, within the guards
of its actions. `FeedReading` replaces that freedom by `FeedFanout`: FanoutStep
is any of its steps, StartWalk and ReadStep are `GetFromFeed` for one follower,
`Reader`. History: `promised` (what was processed and owed to the reader when
the walk began, and has been since) and `retracted` (whose deletion was). The
properties go from the commit to the page, and `ImplementsPaging` shows that
the freedom of `FeedPaging` was wide enough: every step of the fan-out is a
step of its environment or leaves it alone.

### PostCache

*State.* `row` is the posts table, `doc` the documents `post:<id>` with or
without `deleted_at`, `lasting` the documents without a time to live. `adder`,
`remover`, `reader` are requests, each split where it changes stores. History:
`due` and `gone` of a reader, `hidden` (posts whose removal has been answered)
and `raced` (posts for which a live document was written after the row was
deleted, or whose patch failed).

*Actions and code.* AddRow and AddDoc are `postCacheWrapper.AddPost`.
StartRemoval, RemoveRow, TestDoc, GetDoc, PatchDoc are
`postCacheWrapper.RemovePost` with the three calls of
`postCacher.RemovePostById`; RemoveRowFailed and PatchFailed are its errors.
ReadDocs, ReadRows, FillDocs, EndRead are `GetPostsWithIds`, ReadDocsFailed its
error path. Expire and Evict are Redis; Crash is a restart of the process.
Writes go through a pipeline that may fail anywhere (`WriteDocs`): some
documents written, some without their EXPIRE.

`FeedFanout` and `PostCache` overlap in the table: `FeedFanout` keeps the
statements of RemovePost apart because the outbox depends on it, `PostCache`
takes the row's change as one step (that may be followed by an error) because
the cache is touched only after it. They share no other state: the processor
reads the payload of the event and never the cache.

### FollowerCache

*State.* `subs` are the author's followers in the table, `list` the Redis set
(an empty set does not exist), `call` the requests, `flight` the one fill that
singleflight lets run, with what it has read. History: `due` and `got` of a
read, `late` (the users whose rows have changed since the answer of the fill was
fixed) and `shaky`, the users about whom the list may be wrong.

| Action | Code |
|---|---|
| Subscribe, Unsubscribe | the statement on the table, the first step of both wrappers. ChangeLost: it has its effect and answers with an error, and the list is not looked at |
| TestList, WriteList | EXISTS, then SADD or SREM. TestFailed, WriteFailed: the errors, logged |
| GetSubs, ReadMembers | EXISTS, then SMEMBERS. ReadMembersFailed: on to the fill |
| Join, Abandon, Return | `DoChan`, `ctx.Done`, the answer |
| FlightLookup, FlightMembers, FlightRepo, FlightSet | `tryToCacheSubs`: look again, read the table, SADD; FlightGetFailed, FlightRepoFailed are its errors |
| FlightAnswer | the function has returned and singleflight hands its result to whoever waits by then. Rows change between SADD and this step (`Outdates`), and a request may join that asks for what they say now |
| Evict, Crash | `allkeys-lru` on a key without a time to live; a restart |

The code makes no attempt to keep the list right in five situations, which is
what `shaky` records: a change that meets the time between a fill's read and
its write; two changes of one user that overlap; a change whose statement or
command fails; a restart in the middle of one; and a list that was evicted
after the test and is begun anew by a single SADD (then everybody else is
missing). `ListInSync` says that there is no sixth. The integration tests avoid
them ("so no two goroutines race on the same cache key"), and the comments at
`userCacheWrapper.go:59` and `:73` say what is missing: the list should be
invalidated. A wrong list stays until it is evicted; it has no time to live.

### Sessions

*State.* `account` is the table of users, `allowed` the table
`allowed_refresh_tokens`, `owner` the claim "sub" of each token, `held` the
tokens that have reached a client, `req` the requests under way. History:
`session[t]` is the log-in that token `t` descends from; `used`, `ended`,
`unsure` tell why a token is gone (exchange, log-out, a deletion that failed
with unknown effect).

*Actions and code.* StartRegistration and InsertUser are the two halves of
`CreateUser` (lookup, insert); Login ends where the password has been verified;
Sign is `SignJWT` up to the row of the new token, Answer the delivery to the
client; Present is `PassRefresh`, Rotate and Logout the one statement that
finds and deletes the token, Banned its refusal. Each statement may fail with
or without effect (InsertUserFailed, SignFailed, DeleteFailed), and Abandon
ends a request anywhere: the client has gone or the process has stopped.

### Access

EXTENDS `Sessions`: each of its steps is a step here, with a clock `now` and the
time `iat` at which a pair was signed. PresentInTime is `PassRefresh` with the
expiry; Issue is Sign or SignFailed, which date the pair; Close is Logout with
the time remembered in `closed`. `LetIn(t)` is `Pass`: the access token of the
pair has not expired; no table is asked. Access tokens change nothing in this
module, so that letting one in is a predicate and not an action. The clock is
read when the row is added, a moment later than in `SignJWT`: tokens live a
little longer here than there. Nothing ever deletes the row of a token that
was left to expire; it can no longer be presented.

### Answers

*State.* `rows` are the rows that requests are about (a subscription, a name, a
token, a post), `req` the requests: the operation, its thing, whether it asks for
what the tables refuse (`bad`), the step it is at, what it has changed (`made`),
whether a call of it failed, whether its client has gone, and its status. History: `was[r]` tells what the tables have said of
the request's thing since it came.

*Actions and code.* Arrive and Refuse are the router, the middleware and the
binding of the input (401, 400). Each further action is one call of a service:
FindUser and InsertUser, DeleteToken, Sign, Subscribe, Unsubscribe, AddPost,
FindPost, MarkDeleted, CommitRemoval, Read; each has a failing form, with effect
or without. The way back of the error is four functions applied to one another:
`Repository` (23505 and no rows), `Service`, `HttpError`
(`processUserServiceErrors` and its like) and `Status` (`ErrorMiddleware`).
HangUp is a client that goes away; for a cancelled context nothing is written,
and gin then answers 200 with an empty body.

*What it leaves to the reader.* `UnsubscribeUserFrom` (userRepository.go:136)
tests `cnt == 0` before it looks at `err`, and the generated query returns 0 with
every error: whatever fails becomes `ErrNotSubscribed`, and a user who is
subscribed is told "User is not subscribed" (400). So `RefusedChangesNothing`
cannot include cancellations of a subscription. The annotations of the handlers
promise 204 for subscribing and unsubscribing and 200 for registering
(userHandle.go:42, :78, authHandler.go:29); the code answers 200, 200 and 201. A
POST /post that is sent again after a lost answer makes a second post: ids are
fresh and requests carry no key.

The server also blames itself where the client erred: what the validation lets
pass and Postgres refuses is translated by nobody and answered 500. These are
subscribing to oneself (`chk_sub_not_auth`, migrations/00003) or to nobody (foreign
key); a login of more than 20 or an email of more than 30 characters, or one with a
NUL, also at log-in; a post with a NUL, with a `reply_to` that is no UUID or names no
post, with media of a type that the table does not know or a MIME type that is too
long, or with two media in one place (23505, which `processPostServiceErrors` does not
know); and a negative limit for the posts
of an author. `Bad` tells which operations can ask for such things, and
`ServerErrorsHaveCauses` says that these requests and those with a failed call are
the only ones answered 5xx, and that the former have changed nothing.

### RetryLoop

*State.* `backlog` counts the rows that are not marked, `phase` is the place in
the loop, `adverseCount`, `i`, `delay` are the variables of the back-off, `left`
is the timer, `closing` is `doneChan`. History: `streak` (adverse cycles in a row),
`idle` (time since the latest cycle), `waited` (time that the oldest unseen row
has waited).

| Action | Code |
|---|---|
| EnterNextDelay, Multiply, ReturnDelay | `NextDelay`, one turn of its loop at a time; products are taken in the width of a Duration (`Wrap`) |
| Tick, Fire | the timer. Calls take no time: what passes is what the loop waits for |
| Succeed, FindNothing, Fail | one cycle: `fetchAndProcess` handled rows, found none, or returned an error |
| Close, Finish | `doneChan` is closed; `select` takes it, at once or after further cycles |

Time is counted in units of which `Coefficient` is a multiple. `ParametersAssumption` states
what the code relies on and does not check: the first delay is within the limit
(the comparison is inside the loop, after a multiplication) and `MaxDelay * Base`
fits a Duration. With the parameters in use (2, 1 s, 30 s) both hold.

### Lifecycle

*State.* `req` tells how many connections each request has and whether it
waits; `fill` the same of the fill of each author's follower list, `processor`
of the processor, between its timer and its calls; `stage`, `failed`, `code` are main's progress, its `shutdownErr` and the exit code;
`drained` and `told` are what closing the server and the processor leave
behind; `died` says that `srvErr` is ready. History: `asked` (main took the
signal), `late` (the processor was not waited for to its end), `cut` (requests
that met a closed pool or the end of the process).

*Actions and code.* Ask, Acquire, Release are a statement on the pool or an
`ExecTransaction`; AcquireSecond and ReleaseSecond are `r.query.DeletePost`
inside the transaction of RemovePost; Cancel is the end of the request's
context, Refused the error of a closed pool. FillStart, FillAcquire, FillEnds and
FillRefused are the fill of a follower list that a subscription or a cancellation
has found missing: it runs with `context.WithoutCancel`, so that it may hold a
connection when the requests that waited for it have ended. Wake, Query, QueryEnds, Feeds and
Quit are the processor's loop: when both its channels are ready, `select` may
take either, so Quit can be put off. Signal or HearDeath begins the shutdown: when
the server has died (ServerDied) and a signal has come, `select` may take the
signal, and nobody reads the error. Kill ends the process before its end: a
second signal, which finds no handler any more after `stop()`, or the SIGKILL
that Docker sends ten seconds after its SIGTERM.
CloseServer, CloseOTel, CloseProcessors and Exit are main's steps in order.
Time limits are a choice: each of the first and the third step may end because
it is done or because its five seconds are over. An error of telemetry or of
Redis is a choice, too. `pgxpool` is external: it hands a connection to a
waiting request, refuses those whose turn comes after Close, and Close waits
for all connections without a limit.

*The jam.* With as many removals inside their transactions as the pool has
connections (`Jammed`) each of them waits for one more, and so does everybody else.
Nothing in the code keeps them below that number, and the instance does not either:
it has two connections and two removals. Then no request is answered, and the
process does not end by itself: main's time limits run out, and `Pool.Close` waits
without one. `JamsLast` proves that only a client who hangs up or the end of the
process from outside (ten seconds after Docker's SIGTERM) changes that. So
`OnlyRemovalsJam` says who can do this, and `ConnectionsCome` and `MainExits` what
holds unless it is done for good (`[]<>~Jammed`); without that condition both fail.
A processor that runs out of time does not change the exit code.

## Runs

| Run | Instance | Shows |
|---|---|---|
| `fanout` | an author and one possible follower (nobody can follow himself), two posts, two removals at a time, batches of 2, 3 transactions, 1 failure or restart | what is processed is delivered and removed, nothing comes back, rows are handled, additions and deletions arrive, and the outbox is implemented |
| `deletion_has_event` | one post, one removal | a violation, see below |
| `two_processors` | the same users, two posts, one removal at a time, batches of 2, 3 transactions, 1 failure | what is left of the promises when two processes read one outbox, and the one way in which a deleted post comes back |
| `feed_reading` | two posts of one millisecond, one removal at a time, batches and pages of 1, 1 failure | the way from the commit to the page, and that the fan-out implements the environment of `FeedPaging` |
| `feed_paging` | four posts: two of one millisecond whose ids and microseconds disagree, one before, one after; limits -1, 0, 1, 2 | walks skip nothing, end complete, descend |
| `page_order` | three posts | a violation, see below |
| `post_cache` | two posts, one reader, one removal at a time | the races for the documents: reads lack no live post, removals reach the cache, a deleted post is served in named races only and fades out |
| `follower_cache` | two users, two requests at a time | the list agrees with the table outside the five situations, reads lack nobody, waiters are answered |
| `sessions` | two users and log-ins, one email, three tokens, two requests (all symmetric), lifetimes 1 and 2, three instants | a session is one line of tokens, a log-out ends it, for access tokens after their lifetime, other tokens stay |
| `answers` | two requests (symmetric) about one thing of each kind | what each answer says of the tables, also to requests for what the tables refuse |
| `retry_loop` | delays of 1, 2, 4, 7 in a Duration of five bits, three waiting rows, cycles of two, 8 adverse cycles | each pause is the closed form's, rows are seen in time, the loop goes on and can be closed |
| `lifecycle` | two connections, two removals (which may jam them), another request, a follower list, the processor | only removals jam the pool; unless they do so for good, connections come to all who wait and the process ends; its exit code is honest |

The type invariants of the modules are proved (`TypeCorrect`, `ReadingTypeCorrect`,
`RetryTypeCorrect`, `TimesCorrect`) and not repeated in the runs. A few more
formulas are only proved, being what other theorems rest on or a consequence of
what the runs check: `AdditionBeforeDeletion` (`StillInOrder` contains it, for
two processors), `CacheBehindTable`, `AuthorPagesDisjoint`, `UniqueUsers`, `NeverWraps`,
`Spaced`, `CyclesEndFirst`.

*Why the bounds are enough.* Two posts make a batch of several rows and leave a
third event over for the next; three transactions allow an addition, a
removal and a second removal of the same post, or two additions in one order
that commit in the other, and a removal. One failure is enough to repeat a
batch, and lost feeds are not bounded. In `feed_reading` a page of one post
makes a walk of several pages, between which the processor works; pages of several
posts, and their order, are the matter of `feed_paging` and the proofs. Four posts
give `feed_paging` a page of two, one of them of the disputed millisecond, and
posts on both sides of the cursor. Two posts let a read find one in the cache
and the other in the table. Two requests on the follower list are a change and
a fill, or two changes of one user. Three tokens are a log-in with two exchanges
or two sessions, one of them exchanged; two requests are two that present the
same token, or an exchange and the log-out that overtakes it, and two
registrations of one email. With lifetimes of 1 and 2 and three instants, an
exchange that begins before a log-out can be answered after it and expire within
the run. Eight adverse cycles at five bits are twice what an unlimited product
needs to wrap around; a delay of 7, which is no power of two, tells the limit
from a product. Two connections are the fewest with which one removal does not
jam the pool by itself, and two removals the fewest that do.

Two things the instances are too small for. One possible follower (two users, of
whom nobody follows himself) is all of `fanout` and `two_processors`: a pipeline that
reaches some of several followers and fails is covered by `ProcessedIsDelivered`,
`ProcessedIsRemoved` and `EitherDelivers`, which hold for any users. And `post_cache` has
one removal at a time, so that a patch by another removal between EXISTS, JSON.GET
and JSON.SET is covered by `RemovalsReachCache` and `DeletedStayHidden`, for any
removers. With a third user or a second removal the runs take longer than can be
repeated at every change.

Named bounds: `MaxStamp`, `MaxFaults` (`FeedFanout` and what uses it), `MaxTime`
(`Access`), `MaxBacklog`, `MaxAdverse` (`RetryLoop`; more adverse cycles change
no delay). In the other modules nothing is counted: a post is added once (ids
are fresh UUIDs), a token is signed once, and requests come back for ever. The
proofs below remove the instances for most safety properties.

Deadlock is checked in `feed_paging`, `follower_cache`, `sessions` and
`answers`. It is not in `FeedFanout`, `TwoProcessors` and `FeedReading` (the
bounded transactions are used up and the processor with nothing to fetch waits),
`PostCache` (nobody need read), `Lifecycle` (the process ends) and `RetryLoop`
(the loop does).

*Fairness.* `FairSpec` of `FeedFanout` is weak fairness of the processor's four
steps together. The loop re-arms its timer on every path, the delay is at most
30 s and no call waits for a user, so a processor that can go on goes on;
`KeepsTrying` of `RetryLoop` is that fact about the loop itself. Failures are
bounded by `MaxFaults`: with calls that fail for ever nothing can be promised.
Requests have no fairness; a transaction may stay open for good without holding
up the processor. `EventuallyInFeed` is claimed for followers who stay and feeds
that stay (README.md:26: consistency as long as the cache is stable). `FairSpec`
of `PostCache` lets requests that have begun go on and documents expire; removals
need not end. `DeletedFadesOut` excludes documents that lost their time to live
(`lasting` again and again): EXPIRE is a command of its own, and when it alone
fails the document stays until it is evicted or written again.

`FairSpec` of `FollowerCache` is weak fairness of the fill, which runs in a
goroutine of its own with `context.WithoutCancel`: nobody can stop it and each of
its calls answers or fails. `FairRetrySpec` of `RetryLoop` is weak fairness of the
goroutine and strong fairness of `Finish`: `select` picks among ready channels at
random, so a closed `doneChan` is not passed over for ever, even if every timer
fires at once because rows never run out. `FairSpec` of `Lifecycle` is weak
fairness of Postgres's answers, to fills too, and of main (its waits have time
limits, but for the last one, which ends when all connections are back), and strong
fairness of those who wait for a connection, fills included, since the pool serves
them in turn. Clients need
not hang up and the processor need not quit.

*Assumptions.* Start times of transactions are strictly increasing (no two
equal, no clock set back). One processor runs, except in `TwoProcessors`. Redis
commands and single statements are atomic; Postgres reads committed data. A Redis
restart keeps its data (`appendonly yes`); losing single keys is modelled.

## Proofs

`FeedFanoutProofs` proves, for all values of the constants that meet
`ConstantsAssumption` (any users, posts, authors, removers, limit and bounds,
finite or not):

| Theorem | Property |
|---|---|
| `TypeCorrect` | `TypeOK` |
| `ProcessedIsDelivered` | `Delivered` |
| `ProcessedIsRemoved` | `Removed` |
| `DeletionsFollowAdditions` | `AdditionBeforeDeletion` |
| `NothingResurrected` | `NoResurrection` |
| `LivePostsStay` | `OnlyDeletedPostsLeave` |
| `FanoutImplementsOutbox` | `ImplementsOutbox`, that is `Outbox!Spec` |

None of the properties is inductive: they speak of rows marked as processed,
and a row takes effect earlier. The invariant `IInv` is stated over the rows
*handled* in the present attempt and consists of

- `RowInv`: stamps are not ahead of the clock; a post that is not "none" has
  exactly one row that adds it; a deletion's row belongs to a deleted post and
  has an older addition (`Precedes`);
- `RemoverInv`: the stamp of a removal under way is later than the addition of
  its post and nobody else's, and what a removal knows of its post;
- `BatchInv`: how `batch`, `todo` and `event` contain one another, that the
  event is the oldest left, and for each deletion of the batch that its addition
  is in the batch or processed before. This is the heart of the argument: a row that commits after the fetch may have an older stamp
  than rows of the batch, but never one of a post whose deletion is in the
  batch, because a removal begins only after the addition has committed;
- `OwedInv`: who is owed a row still follows, and is among `targets` while it
  is being handled;
- `DeliveredInv`: `Delivered`, as soon as a row is handled;
- `WorkerInv` and `RemovedInv`: no row of the batch is marked, and `Removed`, as
  soon as a row is handled.

All but the last item is `SharedInv`: what holds whoever else marks rows and
writes feeds. `StepInv` proves the whole with one lemma per part and one step per
action. The action properties and the refinement use it in the step's first
state.

*Two processors.* `Interference` is what a processor must bear of another one: it
marks rows, in order and delivered, and handles rows of the outbox on any feeds
and at any time; it leaves posts, subscriptions and requests alone. A
processor's own steps are such an interference to another one
(`OwnInterference`), and `SharedInv` bears it (`InterferenceStep`). So the
invariant of `TwoProcessors` is `SharedInv` taken twice, once for each
processor's variables (`TwoInv` in `FeedCompositionProofs`): in every step one
half moves by `SharedStep` and the other one by `InterferenceStep`. `WorkerInv`
and `RemovedInv` are exactly the parts that do not bear it.

The other modules, each for any sets of posts, users, requests and tokens:

| Module | Theorem | Property |
|---|---|---|
| `FeedPagingProofs` | `TypeCorrect` | `TypeOK` |
| | `PagesSkipNothing` | `NothingSkipped` |
| | `WalksAreComplete` | `EndedIsComplete` |
| | `CursorsDescend` | `CursorDescends` |
| | `AuthorPagesAreDisjoint` | `AuthorPagesDisjoint` |
| `FeedCompositionProofs` | `ReadingTypeCorrect` | `ReadingTypeOK` |
| | `PromisesAreShown` | `PromisedShown` |
| | `RetractionsAreFinal` | `RetractedHidden` |
| | `ReadingImplementsPaging` | `ImplementsPaging` |
| | `EitherDelivers` | `StillDelivered` |
| | `EitherInOrder` | `StillInOrder` |
| | `OnlyLateOnesReturn` | `OnlyLateAdditionsReturn` |
| | `LivePostsStayWithTwo` | `TwoSpec => OnlyDeletedPostsLeave` |
| `PostCacheProofs` | `TypeCorrect` | `TypeOK` |
| | `CacheStaysBehind` | `CacheBehindTable` |
| | `ReadsComplete` | `LivePostsReturned` |
| | `RemovalsReachCache` | `RemovalReachesCache` |
| | `DeletedStayHidden` | `DeletedNotServed` |
| `FollowerCacheProofs` | `TypeCorrect` | `TypeOK` |
| | `ListStaysInSync` | `ListInSync` |
| | `ReadsAreComplete` | `ReadsComplete` |
| `SessionsProofs` | `TypeCorrect` | `TypeOK` |
| | `UsersAreUnique` | `UniqueUsers` |
| | `SessionsAreLines` | `OneTokenPerSession` |
| | `LogoutsAreFinal` | `LogoutIsFinal` |
| | `UnusedTokensStay` | `UnusedStaysUsable` |
| | `TimedIsSessions` | `TimedSpec => Spec` |
| | `TimesCorrect` | `TimesOK` |
| | `AccessEnds` | `LogoutEndsAccess` |
| `AnswersProofs` | `TypeCorrect` | `TypeOK` |
| | `SuccessesAreDone` | `SuccessIsDone` |
| | `RefusalsChangeNothing` | `RefusedChangesNothing` |
| | `ReasonsAreTrue` | `RefusalsAreTrue` |
| | `CausesAreFound` | `ServerErrorsHaveCauses` |
| `ProcessProofs` (`RetryLoop`) | `RetryTypeCorrect` | `RetryTypeOK` |
| | `ProductsFit` | `NeverWraps` |
| | `PausesAreExact` | `Paced` |
| | `RowsAreSeen` | `SeenInTime` |
| | `CyclesAreSpaced` | `Spaced` |
| `ProcessProofs` (`Lifecycle`) | `TypeCorrect` | `TypeOK` |
| | `ExitCodesAreHonest` | `HonestExit` |
| | `CyclesEnd` | `CyclesEndFirst` |
| | `JamsAreOfRemovals` | `OnlyRemovalsJam` |
| | `JamsLast` | `JamStays` |

- `FeedPagingProofs`: the keys of each source are totally ordered; the ids in
  hand come after the cursor, and a steady post beyond the cursor is among them
  or after all of them (`IdsInv`). That is why any order within the page is
  harmless to completeness: a cursor at *some* post of the page passes only what
  the page shows. `PageInv` holds the two facts about the latest page, which rest on
  its ids being strictly below `from`.
- `FeedCompositionProofs`, `FeedReading`: every step of the fan-out is shown to be a step of
  `FeedPaging`'s environment or to leave the reader's feed alone, so that the
  invariants of both halves hold together. `PromiseInv` joins them: a promised
  post is in the feed (by `Delivered`) and hence steady, and a steady post has
  been shown when the walk ends; a retracted one is in no feed (by `Removed`), and
  no step brings it back (by `NoResurrection`).
- `PostCacheProofs`: the properties of the cache are inductive together with
  `RowInv` (requests are never ahead of the table), `ReadInv` (a read has found,
  or is still to find, every post that is due) and `GoneInv` (what a read has
  found of the posts that were hidden before it began is raced, and it has
  read no row of them).
- `FollowerCacheProofs`: a user who is not shaky has at most one change under
  way, and that one writes what the table says (`ChangeInv`); what a fill has
  read of him is what the table says (`FillInv`); nobody who is due to a read
  has a change under way (`DueInv`); an answer on its way lacks nobody but those whose
  rows have changed since, and none of these is due to whoever waits (`AnswerInv`).
- `SessionsProofs`: a session is carried by at most one thing at a time, a
  token of the table or a request between its deletion and its insertion
  (`LineInv`), and by nothing once it has ended. `IssuedInv` and `KeptInv` keep
  account of the tokens. `Access` implements `Sessions`, so all of this holds
  under the clock; `ClockInv` adds that no token of a session is dated after the
  session's end, from which `LogoutEndsAccess` is arithmetic.
- `AnswersProofs`: how far a request has come determines what it has changed
  (`Progress`), and its status is honest about that (`Honest`). The four
  translations are first turned into facts about each error (`ServiceIs`,
  `FailureStays`, `StatusIs`): no service or handler knows the error of a call that
  failed or of a refusal by the tables, so that it ends as the server's own or in
  silence, but for the cancellation of a subscription. That a refusal is true of the tables is shown at
  the step that decides on it, and `was` keeps it (`WatchKeeps`).
- `ProcessProofs`, `RetryLoop`: the delay stays between the first and the greatest,
  so that a product with the base fits a Duration (`ProductFits`, from
  `ParametersAssumption`), and what has passed and what is left of the timer make
  up the delay (`TimingInv`). `PacedInv` ties the loop to the closed form: before
  pass `i` the delay is `Coefficient * Base ^ (i - 1)`, and once the timer is armed
  it is the cut one, since powers only grow (`PowersGrow`). The prover knows no more
  of `^` than its type; what it needs of powers of the base is `PowersAssumption`,
  three facts of arithmetic that TLC evaluates for the instance.
- `ProcessProofs`, `Lifecycle`: once main is past the server, it has drained, after which
  there is no request to cut, or the error is set, and nothing resets it
  (`StageInv`); only removals wait while holding (`TwiceInv`). So when nobody has a
  connection without waiting, removals have them all (`OnlyRemovalsJam`), and then
  nobody can take a step that returns one (`JamsLast`); no theorem bounds the number
  of removals. `Held <= MaxConns` in `TypeOK` is itself proved with cardinalities.

Each proof assumes the assumptions on the constants of its module and nothing
else: values that stand for "nobody" are no users, requests, authors and the
pool of `Lifecycle` are finite, `CreatedAt` and `Milli` are numbers (`FeedPaging`), the
reader is a user (`ReadingAssumption`), lifetimes are numbers (`LivesAssumption`),
the rows of subscriptions, names, tokens and posts are of different kinds
(`Answers`), the parameters of the back-off are those the code can bear
(`ParametersAssumption`, which the parameters in use meet), and powers are powers
(`PowersAssumption`).

Only model-checked: the liveness properties (`EveryRowProcessed`,
`EventuallyInFeed`, `EventuallyGone`, `DeletedFadesOut`, `WaitersAnswered`,
`KeepsTrying`, `CloseAnswered`, `ConnectionsCome`, `MainExits`), which are beyond
this prover. Every invariant and every action property of a passing run, and both
refinements, are proved.

<a name="findings"></a>
## What the code does otherwise than its documentation says

1. **A deletion without its event** (`deletion_has_event`). RemovePost sets
   `deleted_at` with `r.query`, on the pool, inside a transaction that only
   writes the event. If the transaction fails afterwards, the post is deleted
   and no event follows, where README.md:4 and :23 promise a transactional
   outbox with at-least-once delivery.
2. **Pages out of order** (`page_order`). `postCacheWrapper.go:121`: "Sort
   posts to match the order of the input ids". The sorted slice is dropped and
   `cachedPosts` returned. The cursor is built from the last post, which need
   not be the oldest: the next page repeats posts. It skips none
   (`NothingSkipped`).

Further disagreements that no run of their own shows, because a checked property
already draws the line:

- `postHandle.go:133`: "Also removes post from users feeds". The followers are
  read when the deletion is handled; a reader who unsubscribed after receiving
  the post keeps it. Hence `Removed` speaks of those who still follow. Feed
  reads filter deleted posts, so the entry only takes a place in each page.
- `postHandle.go:132` and the comment at `postCacheWrapper.go:44`: the document
  of a deleted post should not survive. The code logs a failed patch and keeps
  the document, and a read-through that read the row before the deletion caches
  it afterwards. `DeletedNotServed` says that nothing else brings a deleted
  post back (`raced`), and `DeletedFadesOut` that even those end.
- The answers listed under [Answers](#answers).

<a name="plan"></a>
## Not modelled, and the plan

- **Work pool** (`src/workpool`): no other package uses it, so there is no
  behaviour of this program it takes part in.
- **Configuration, telemetry, connections, migrations, start-up**: they run once,
  end in `log.Fatal` or in the initial states of the models, and keep nothing.
  The generated queries are translated where the operations that use them are; the
  generated API documentation is text.
- **Binding and validation** of bodies, paths and queries, and the syntax and
  signature of tokens: pure functions of one request, each of which is one choice
  here (`Refuse` and `Bad` in `Answers`).
- **Lookups** (`GetPostById`, user queries): they change nothing and pass the
  caches by; the read before a removal is modelled with the removal.
- **Equal or set-back `created_at`** and **an event that fails for ever**: listed
  among the hazards, with the reason why no property covers them. The first would
  make every order of rows possible, the second stops delivery by design of the
  batch.
- **Things that only grow**: rows of expired tokens and processed outbox rows
  are never purged, feeds are never trimmed. No statement of the code reads them
  differently for it.

What could still be done: an abstract specification of a cache that is read
through (a read returns what the table said at some time during it), implemented
by `PostCache` and by `FollowerCache` outside their named races. That
`TwoProcessors` implements `OutboxDelivery` is not among it: a mapping that counts
as handed over what either processor has handled would hide the late addition that
`OnlyLateAdditionsReturn` describes, and one that does not hide it fails.
