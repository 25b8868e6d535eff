----------------------------- MODULE FeedFanout -----------------------------
(***************************************************************************)
(* Fan-out on write: a post and its outbox event are committed together,   *)
(* a background processor reads the events in batches and pushes the post  *)
(* into (or removes it from) the Redis feed of every follower the author   *)
(* has AT THAT MOMENT, then marks the batch processed.                     *)
(*                                                                         *)
(*   Postgres   posts, subs (subscriber_author), outbox with processed_at  *)
(*   requests   adding, removing: the AddPost and RemovePost transactions  *)
(*              that are under way                                         *)
(*   processor  phase, batch, todo, event, targets                         *)
(*   Redis      feed                                                       *)
(*                                                                         *)
(* An outbox row's created_at is DEFAULT now(), which Postgres fixes when  *)
(* the TRANSACTION STARTS: rows become visible in another order than their *)
(* stamps, and the processor orders by the stamps.                         *)
(***************************************************************************)
EXTENDS Integers, FiniteSets

CONSTANTS Users, Posts,
          Author,     \* [Posts -> Users]
          Removers,   \* the RemovePost requests that may run at one time
          NoPost,     \* what an idle remover works on
          Limit,      \* rows per batch (50 in routes.go)
          MaxStamp,   \* bound: transactions that may start
          MaxFaults   \* bound: failures of the processor's calls, and restarts

ASSUME ConstantsAssumption ==
    /\ Author \in [Posts -> Users]
    /\ NoPost \notin Posts
    /\ Limit \in Nat \ {0}
    /\ MaxStamp \in Nat
    /\ MaxFaults \in Nat

VARIABLES
    posts,     \* [Posts -> {"none", "live", "deleted"}]: no row, deleted_at NULL or set
    subs,      \* <<u, a>>: u is subscribed to a
    outbox,    \* committed outbox rows
    processed, \* the rows whose processed_at is set
    clock,     \* start time of the latest transaction
    adding,    \* [Posts -> Nat]: start time of the post's open AddPost transaction, or 0
    removing,  \* [Removers -> progress of a RemovePostById request]
    phase,     \* of the processor: "idle", "subs", "push" or "mark"
    batch,     \* the fetched rows
    todo,      \* those of them not handled yet
    event,     \* the row being handled ({} or a singleton)
    targets,   \* the followers read for it
    feed,      \* [Users -> SUBSET Posts], the sorted sets user:<id>:feed
    owed,      \* history: <<e, u>>, u was subscribed when e was committed and ever since,
               \* and no eviction of u's feed has cancelled an addition
    faults     \* failures so far

tables  == <<posts, subs, outbox, processed>>
requests == <<clock, adding, removing>>
worker  == <<phase, batch, todo, event, targets>>
vars    == <<tables, requests, worker, feed, owed, faults>>

-----------------------------------------------------------------------------
Event == [kind : {"added", "deleted"}, post : Posts, at : 1..MaxStamp]

Request ==
    [pc : {"idle", "found", "begun", "marked"}, post : Posts \cup {NoPost}, at : 0..MaxStamp]

IdleRequest == [pc |-> "idle", post |-> NoPost, at |-> 0]

Followers(a) == {u \in Users : <<u, a>> \in subs}

\* Who is entitled to see the effect of an event committed now.
OwedNow(e) == {<<e, u>> : u \in Followers(Author[e.post])}

Init ==
    /\ posts = [p \in Posts |-> "none"]
    /\ subs = {}
    /\ outbox = {}
    /\ processed = {}
    /\ clock = 0
    /\ adding = [p \in Posts |-> 0]
    /\ removing = [d \in Removers |-> IdleRequest]
    /\ phase = "idle"
    /\ batch = {}
    /\ todo = {}
    /\ event = {}
    /\ targets = {}
    /\ feed = [u \in Users |-> {}]
    /\ owed = {}
    /\ faults = 0

-----------------------------------------------------------------------------
(* AddPost: post, attachments and event in one transaction.                *)

BeginAdd(p) ==
    /\ posts[p] = "none"
    /\ adding[p] = 0
    /\ clock < MaxStamp
    /\ clock' = clock + 1
    /\ adding' = [adding EXCEPT ![p] = clock']
    /\ UNCHANGED <<tables, removing, worker, feed, owed, faults>>

CommitAdd(p) ==
    /\ adding[p] # 0
    /\ LET e == [kind |-> "added", post |-> p, at |-> adding[p]]
       IN  /\ outbox' = outbox \cup {e}
           /\ owed' = owed \cup OwedNow(e)
    /\ posts' = [posts EXCEPT ![p] = "live"]
    /\ adding' = [adding EXCEPT ![p] = 0]
    /\ UNCHANGED <<subs, processed, clock, removing, worker, feed, faults>>

\* Any statement fails, or the client goes away: the whole transaction rolls back.
AbortAdd(p) ==
    /\ adding[p] # 0
    /\ adding' = [adding EXCEPT ![p] = 0]
    /\ UNCHANGED <<tables, clock, removing, worker, feed, owed, faults>>

-----------------------------------------------------------------------------
(* RemovePostById, four statements on two connections: the row is read on  *)
(* the pool, a transaction is opened, deleted_at is set through r.query,   *)
(* which is the POOL and not the transaction, and only the event is        *)
(* written in the transaction. A post that is deleted already passes every *)
(* check, so that a second event is written for it.                        *)

FindForRemoval(d) ==
    /\ removing[d].pc = "idle"
    /\ \E p \in Posts :
         /\ posts[p] # "none"
         /\ removing' = [removing EXCEPT ![d] = [pc |-> "found", post |-> p, at |-> 0]]
    /\ UNCHANGED <<tables, clock, adding, worker, feed, owed, faults>>

BeginRemoval(d) ==
    /\ removing[d].pc = "found"
    /\ clock < MaxStamp
    /\ clock' = clock + 1
    /\ removing' = [removing EXCEPT ![d].pc = "begun", ![d].at = clock']
    /\ UNCHANGED <<tables, adding, worker, feed, owed, faults>>

MarkDeleted(d) ==
    /\ removing[d].pc = "begun"
    /\ posts' = [posts EXCEPT ![removing[d].post] = "deleted"]
    /\ removing' = [removing EXCEPT ![d].pc = "marked"]
    /\ UNCHANGED <<subs, outbox, processed, clock, adding, worker, feed, owed, faults>>

\* Mutant: the event is committed before the row is updated.
CommitRemovalEarly(d) ==
    /\ removing[d].pc = "begun"
    /\ LET e == [kind |-> "deleted", post |-> removing[d].post, at |-> removing[d].at]
       IN  /\ outbox' = outbox \cup {e}
           /\ owed' = owed \cup OwedNow(e)
    /\ removing' = [removing EXCEPT ![d] = IdleRequest]
    /\ UNCHANGED <<posts, subs, processed, clock, adding, worker, feed, faults>>

CommitRemoval(d) ==
    /\ removing[d].pc = "marked"
    /\ LET e == [kind |-> "deleted", post |-> removing[d].post, at |-> removing[d].at]
       IN  /\ outbox' = outbox \cup {e}
           /\ owed' = owed \cup OwedNow(e)
    /\ removing' = [removing EXCEPT ![d] = IdleRequest]
    /\ UNCHANGED <<posts, subs, processed, clock, adding, worker, feed, faults>>

\* Begin, DeletePost, AddToOutbox or Commit fails: the event is rolled back, the
\* deleted_at that was set outside the transaction is not.
AbortRemoval(d) ==
    /\ removing[d].pc # "idle"
    /\ removing' = [removing EXCEPT ![d] = IdleRequest]
    /\ UNCHANGED <<tables, clock, adding, worker, feed, owed, faults>>

-----------------------------------------------------------------------------
(* Subscriptions: one autocommitted statement each.                        *)

Subscribe(u, a) ==
    /\ u # a
    /\ <<u, a>> \notin subs
    /\ subs' = subs \cup {<<u, a>>}
    /\ UNCHANGED <<posts, outbox, processed, requests, worker, feed, owed, faults>>

Unsubscribe(u, a) ==
    /\ <<u, a>> \in subs
    /\ subs' = subs \ {<<u, a>>}
    /\ owed' = {o \in owed : ~(o[2] = u /\ Author[o[1].post] = a)}
    /\ UNCHANGED <<posts, outbox, processed, requests, worker, feed, faults>>

-----------------------------------------------------------------------------
(* The post events processor: loop, fetchAndProcess, processEvents.        *)

\* Mutant: the filter on processed_at is forgotten.
AllRows == outbox

\* Mutant: rows are read from the latest processed stamp on.
RowsAfterLast == {e \in outbox : \A f \in processed : f.at < e.at}

Unprocessed == outbox \ processed

\* Mutant: LIMIT without ORDER BY.
AnyRows(S) ==
    /\ S # {}
    /\ Cardinality(S) = Limit \/ (S = Unprocessed /\ Cardinality(S) < Limit)

\* ORDER BY created_at LIMIT: the oldest rows, as many as there are up to Limit.
OldestRows(S) ==
    /\ S # {}
    /\ Cardinality(S) = Limit \/ (S = Unprocessed /\ Cardinality(S) < Limit)
    /\ \A e \in S, f \in Unprocessed \ S : e.at < f.at

Fetch ==
    /\ phase = "idle"
    /\ \E S \in SUBSET Unprocessed :
         /\ OldestRows(S)
         /\ batch' = S
         /\ todo' = S
    /\ phase' = "subs"
    /\ UNCHANGED <<tables, requests, event, targets, feed, owed, faults>>

\* Mutant: the rows of a batch are handled in any order.
ReadSubsUnordered ==
    /\ phase = "subs"
    /\ \E e \in todo :
         /\ event' = {e}
         /\ targets' = Followers(Author[e.post])
    /\ phase' = "push"
    /\ UNCHANGED <<tables, requests, batch, todo, feed, owed, faults>>

\* The next row of the batch: its author's followers are read now.
ReadSubs ==
    /\ phase = "subs"
    /\ \E e \in todo :
         /\ \A f \in todo : e.at <= f.at
         /\ event' = {e}
         /\ targets' = Followers(Author[e.post])
    /\ phase' = "push"
    /\ UNCHANGED <<tables, requests, batch, todo, feed, owed, faults>>

\* Mutant: ZREM builds another member than ZADD (a creation time of other precision).
FeedsAfterOtherMember(e, S) ==
    [u \in Users |-> IF u \in S /\ e.kind = "added" THEN feed[u] \cup {e.post} ELSE feed[u]]

\* The ZADD or ZREM of event e on the feeds of S.
FeedsAfter(e, S) ==
    [u \in Users |-> IF u \notin S THEN feed[u]
                     ELSE IF e.kind = "added" THEN feed[u] \cup {e.post}
                     ELSE feed[u] \ {e.post}]

Push ==
    /\ phase = "push"
    /\ \E e \in event :
         /\ feed' = FeedsAfter(e, targets)
         /\ todo' = todo \ {e}
    /\ phase' = IF todo' = {} THEN "mark" ELSE "subs"
    /\ event' = {}
    /\ targets' = {}
    /\ UNCHANGED <<tables, requests, batch, owed, faults>>

\* Mutant: the UPDATE marks every unprocessed row instead of the batch's ids.
MarkAllProcessed ==
    /\ phase = "mark"
    /\ processed' = outbox
    /\ phase' = "idle"
    /\ batch' = {}
    /\ UNCHANGED <<posts, subs, outbox, requests, todo, event, targets, feed, owed, faults>>

MarkProcessed ==
    /\ phase = "mark"
    /\ processed' = processed \cup batch
    /\ phase' = "idle"
    /\ batch' = {}
    /\ UNCHANGED <<posts, subs, outbox, requests, todo, event, targets, feed, owed, faults>>

-----------------------------------------------------------------------------
(* Failures. fetchAndProcess returns at the first error and keeps nothing: *)
(* the loop backs off and fetches again.                                   *)

DropBatch ==
    /\ phase' = "idle"
    /\ batch' = {}
    /\ todo' = {}
    /\ event' = {}
    /\ targets' = {}

CountFault ==
    /\ faults < MaxFaults
    /\ faults' = faults + 1

\* Mutant: a failed read of the followers counts as no followers.
SubsFailedSkipped ==
    /\ phase = "subs"
    /\ CountFault
    /\ \E e \in todo : todo' = todo \ {e}
    /\ phase' = IF todo' = {} THEN "mark" ELSE "subs"
    /\ UNCHANGED <<tables, requests, batch, event, targets, feed, owed>>

SubsFailed ==
    /\ phase = "subs"
    /\ CountFault
    /\ DropBatch
    /\ UNCHANGED <<tables, requests, feed, owed>>

\* Mutant: the error of the pipeline is ignored.
PushFailedIgnored ==
    /\ phase = "push"
    /\ CountFault
    /\ \E e \in event, S \in SUBSET targets :
         /\ feed' = FeedsAfter(e, S)
         /\ todo' = todo \ {e}
    /\ phase' = IF todo' = {} THEN "mark" ELSE "subs"
    /\ event' = {}
    /\ targets' = {}
    /\ UNCHANGED <<tables, requests, batch, owed>>

\* The pipeline is not a MULTI: any part of it may have been executed.
PushFailed ==
    /\ phase = "push"
    /\ CountFault
    /\ \E e \in event, S \in SUBSET targets : feed' = FeedsAfter(e, S)
    /\ DropBatch
    /\ UNCHANGED <<tables, requests, owed>>

\* The UPDATE fails, or succeeds and its answer is lost.
MarkFailed ==
    /\ phase = "mark"
    /\ CountFault
    /\ processed' \in {processed, processed \cup batch}
    /\ DropBatch
    /\ UNCHANGED <<posts, subs, outbox, requests, feed, owed>>

\* The process dies and is restarted: Postgres rolls its open transactions back.
Crash ==
    /\ CountFault
    /\ DropBatch
    /\ adding' = [p \in Posts |-> 0]
    /\ removing' = [d \in Removers |-> IdleRequest]
    /\ UNCHANGED <<tables, clock, feed, owed>>

\* maxmemory-policy allkeys-lru: Redis drops a feed; nothing rebuilds it.
LoseFeed(u) ==
    /\ feed[u] # {}
    /\ feed' = [feed EXCEPT ![u] = {}]
    /\ owed' = {o \in owed : ~(o[2] = u /\ o[1].kind = "added")}
    /\ UNCHANGED <<tables, requests, worker, faults>>

-----------------------------------------------------------------------------
Requests ==
    \/ \E p \in Posts : BeginAdd(p) \/ CommitAdd(p) \/ AbortAdd(p)
    \/ \E d \in Removers :
         \/ FindForRemoval(d) \/ BeginRemoval(d) \/ MarkDeleted(d)
         \/ CommitRemoval(d) \/ AbortRemoval(d)
    \/ \E p \in Posts, u \in Users : Subscribe(u, Author[p]) \/ Unsubscribe(u, Author[p])

Processor == Fetch \/ ReadSubs \/ Push \/ MarkProcessed

Failures == SubsFailed \/ PushFailed \/ MarkFailed \/ Crash \/ \E u \in Users : LoseFeed(u)

Next == Requests \/ Processor \/ Failures

Spec == Init /\ [][Next]_vars

\* The loop's timer always fires again and every call returns.
FairSpec == Spec /\ WF_vars(Processor)

-----------------------------------------------------------------------------
(* Properties.                                                             *)

\* Every variable keeps its type; owed pairs concern committed rows.
TypeOK ==
    /\ posts \in [Posts -> {"none", "live", "deleted"}]
    /\ subs \in SUBSET (Users \X Users)
    /\ outbox \in SUBSET Event
    /\ processed \in SUBSET Event
    /\ clock \in 0..MaxStamp
    /\ adding \in [Posts -> 0..MaxStamp]
    /\ removing \in [Removers -> Request]
    /\ phase \in {"idle", "subs", "push", "mark"}
    /\ batch \in SUBSET Event
    /\ todo \in SUBSET Event
    /\ event \in SUBSET Event
    /\ targets \in SUBSET Users
    /\ feed \in [Users -> SUBSET Posts]
    /\ owed \in SUBSET (Event \X Users)
    /\ faults \in 0..MaxFaults

\* At-least-once reaches the followers: once the event of a new post is marked
\* processed, whoever has followed the author since the post was committed has
\* the post in the feed, unless its deletion is committed too. (The followers
\* are read late, the push may be partial and the batch repeated.)
Delivered ==
    \A o \in owed :
      (/\ o[1] \in processed
       /\ o[1].kind = "added"
       /\ \A f \in outbox : f.kind = "deleted" => f.post # o[1].post)
        => o[1].post \in feed[o[2]]

\* Once the event of a deletion is marked processed, whoever has followed the
\* author since the deletion was committed no longer has the post in the feed,
\* whatever was replayed in between.
Removed ==
    \A o \in owed :
      (o[1] \in processed /\ o[1].kind = "deleted") => o[1].post \notin feed[o[2]]

\* Rows become visible out of order, come in limited batches and are replayed,
\* and yet no deletion is marked processed before the post's addition is.
AdditionBeforeDeletion ==
    \A e \in processed : e.kind = "deleted" =>
      \E f \in processed : f.kind = "added" /\ f.post = e.post /\ f.at < e.at

\* A post whose deletion has been processed never enters a feed again: no replay
\* of its addition may come after it.
NoResurrection ==
    [][\A e \in processed : e.kind = "deleted" =>
         \A u \in Users : e.post \in feed'[u] => e.post \in feed[u]]_vars

\* A post leaves a feed only when deleted_at is set in the database or Redis
\* has dropped the whole feed.
OnlyDeletedPostsLeave ==
    [][\A u \in Users : \A p \in feed[u] \ feed'[u] :
         posts[p] = "deleted" \/ feed'[u] = {}]_vars

\* The rows that follow one another: a post's addition, then its deletions.
Follows ==
    {ef \in Event \X Event :
       ef[1].kind = "added" /\ ef[2].kind = "deleted" /\ ef[1].post = ef[2].post}

Outbox == INSTANCE OutboxDelivery
            WITH Events <- Event, Follows <- Follows, committed <- outbox,
                 handed <- processed \cup (batch \ todo), acked <- processed

\* The processor keeps the promise of a transactional outbox.
ImplementsOutbox == Outbox!Spec

Owed(k, p, u) == \E o \in owed : o[1].kind = k /\ o[1].post = p /\ o[2] = u

\* No committed row is passed over: each one is marked processed in the end, also
\* one that became visible after rows with later stamps were read.
EveryRowProcessed ==
    \A n \in 1..MaxStamp :
      (\E e \in outbox : e.at = n) ~> (\E e \in processed : e.at = n)

\* A post reaches each follower who stays, unless it is deleted (the README's
\* eventual consistency, as long as the cache keeps the feed).
EventuallyInFeed ==
    \A p \in Posts, u \in Users :
      Owed("added", p, u) ~> \/ p \in feed[u]
                             \/ posts[p] = "deleted"
                             \/ ~Owed("added", p, u)

\* A deletion whose event was committed reaches each follower who stays, and
\* stays reached.
EventuallyGone ==
    \A p \in Posts, u \in Users :
      <>[]Owed("deleted", p, u) => <>[](p \notin feed[u])

-----------------------------------------------------------------------------
(* What the documentation says and the code does not do.                   *)

\* README.md:4 and :23 promise a transactional outbox with at-least-once delivery:
\* a deleted post has its event, or the request that deleted it is about to write
\* it. RemovePost sets deleted_at outside the transaction that writes the event.
DeletionHasEvent ==
    \A p \in Posts : posts[p] = "deleted" =>
      \/ \E e \in outbox : e.kind = "deleted" /\ e.post = p
      \/ \E d \in Removers : removing[d].pc = "marked" /\ removing[d].post = p
=============================================================================
