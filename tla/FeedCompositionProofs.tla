------------------------ MODULE FeedCompositionProofs ------------------------
(***************************************************************************)
(* The fan-out together with a reader, and with a second processor, for    *)
(* every value of the constants.                                           *)
(*                                                                         *)
(* FeedReading, from the invariants of its two halves: FeedFanoutProofs    *)
(* says what the feed holds, and since the fan-out implements the          *)
(* environment of FeedPaging, FeedPagingProofs says what the walk shows.   *)
(*                                                                         *)
(* TwoProcessors, from one invariant taken twice: what a processor         *)
(* maintains that is not alone (SharedInv). A step of either keeps its own *)
(* by FeedFanout's proof, and does to the other one only what that bears   *)
(* (Interference).                                                         *)
(***************************************************************************)
EXTENDS FeedReading, TwoProcessors, FeedFanoutProofs

PagingP == INSTANCE FeedPagingProofs WITH feed <- feed[Reader]

\* A promised post is still due, live and readable; a retracted one is nowhere in the
\* Reader's feed and in no page, and stays out.
PromiseInv ==
    /\ walk.source = "feed"
    /\ promised \subseteq walk.steady
    /\ retracted \subseteq Posts
    /\ \A p \in retracted :
         /\ \E e \in processed : e.kind = "deleted" /\ e.post = p
         /\ p \notin feed[Reader]
         /\ p \notin walk.ids
         /\ p \notin walk.shown

ReadingInv == IInv /\ PagingP!IInv /\ PromiseInv

-----------------------------------------------------------------------------
(* The two instances of FeedPaging.                                        *)

\* The constants of FeedPaging are as it assumes them to be.
LEMMA PagingConstants == PagingP!ConstantsAssumption
BY ReadingAssumption, ConstantsAssumption DEF PagingP!ConstantsAssumption

\* The steps of the client are those the proofs of FeedPaging are about.
LEMMA SameSteps ==
  /\ Paging!Start("feed") <=> PagingP!Start("feed")
  /\ Paging!ReadPosts <=> PagingP!ReadPosts
  /\ Paging!ReadFailed <=> PagingP!ReadFailed
  /\ \A n \in Limits : Paging!ReadFeed(n) <=> PagingP!ReadFeed(n)
<1>1. Paging!Start("feed") <=> PagingP!Start("feed")
  BY DEF Paging!Start, PagingP!Start, Paging!NewWalk, PagingP!NewWalk, Paging!Live, PagingP!Live
<1>2. Paging!ReadPosts <=> PagingP!ReadPosts
  BY DEF Paging!ReadPosts, PagingP!ReadPosts, Paging!Show, PagingP!Show, Paging!Lowest,
         PagingP!Lowest, Paging!Below, PagingP!Below, Paging!Before, PagingP!Before, Paging!Key,
         PagingP!Key, Paging!Live, PagingP!Live
<1>3. Paging!ReadFailed <=> PagingP!ReadFailed
  BY DEF Paging!ReadFailed, PagingP!ReadFailed
<1>4. ASSUME NEW n \in Limits PROVE Paging!ReadFeed(n) <=> PagingP!ReadFeed(n)
  <2>1. \A s, p, c : Paging!Below(s, p, c) <=> PagingP!Below(s, p, c)
    BY DEF Paging!Below, PagingP!Below, Paging!Before, PagingP!Before, Paging!Key, PagingP!Key
  <2>2. \A s, S, c : Paging!Rest(s, S, c) = PagingP!Rest(s, S, c)
    BY <2>1 DEF Paging!Rest, PagingP!Rest
  <2>3. \A s, S, m, T : Paging!NewestOf(s, S, m, T) <=> PagingP!NewestOf(s, S, m, T)
    BY <2>1 DEF Paging!NewestOf, PagingP!NewestOf, Paging!Cardinality, PagingP!Cardinality
  <2>4. QED
    BY <2>2, <2>3 DEF Paging!ReadFeed, PagingP!ReadFeed
<1>5. QED
  BY <1>1, <1>2, <1>3, <1>4

\* So are the steps of posts and feeds, and the initial states.
LEMMA SameEnvironment ==
  /\ \A p \in Posts : /\ PagingP!AddPost(p) => Paging!AddPost(p)
                      /\ PagingP!RemovePost(p) => Paging!RemovePost(p)
                      /\ PagingP!PushToFeed(p) => Paging!PushToFeed(p)
                      /\ PagingP!RemoveFromFeed(p) => Paging!RemoveFromFeed(p)
  /\ PagingP!LoseFeed => Paging!LoseFeed
BY DEF PagingP!AddPost, Paging!AddPost, PagingP!RemovePost, Paging!RemovePost,
       PagingP!PushToFeed, Paging!PushToFeed, PagingP!RemoveFromFeed, Paging!RemoveFromFeed,
       PagingP!LoseFeed, Paging!LoseFeed

-----------------------------------------------------------------------------
(* What the fan-out promises the Reader.                                   *)

\* A promised post is in the feed: its row is handled, and no deletion is committed.
LEMMA PromisedInFeed == IInv => Promised \subseteq feed[Reader] \cap Live
<1> SUFFICES ASSUME IInv PROVE Promised \subseteq feed[Reader] \cap Live
  OBVIOUS
<1>1. ASSUME NEW p \in Promised PROVE p \in feed[Reader]
  <2>1. PICK e \in processed : e.kind = "added" /\ e.post = p /\ <<e, Reader>> \in owed
    BY DEF Promised, DuePosts
  <2>2. \A f \in outbox : f.kind = "deleted" => f.post # p
    BY DEF Promised, Live, IInv, SharedInv, RowInv
  <2>3. PICK o \in owed : o[1] = e /\ o[2] = Reader
    BY <2>1, Zenon
  <2>4. QED
    BY <2>1, <2>2, <2>3 DEF IInv, SharedInv, DeliveredInv, RemovedInv, Handled
<1>2. QED
  BY <1>1 DEF Promised

\* A retracted post is not.
LEMMA RetractedNotInFeed ==
  ASSUME IInv, NEW p \in Retracted
  PROVE  /\ \E e \in processed : e.kind = "deleted" /\ e.post = p
         /\ p \notin feed[Reader]
<1>1. PICK e \in processed : e.kind = "deleted" /\ e.post = p /\ <<e, Reader>> \in owed
  BY DEF Retracted, DuePosts
<1>2. PICK o \in owed : o[1] = e /\ o[2] = Reader
  BY <1>1, Zenon
<1>3. QED
  BY <1>1, <1>2 DEF IInv, SharedInv, DeliveredInv, RemovedInv, Handled

\* Rows stay processed.
LEMMA ProcessedGrows == [Next]_vars => processed \subseteq processed'
BY DEF Next, Requests, BeginAdd, CommitAdd, AbortAdd, FindForRemoval, BeginRemoval, MarkDeleted,
       CommitRemoval, AbortRemoval, Subscribe, Unsubscribe, vars, tables, Processor, Failures,
       Fetch, ReadSubs, Push, MarkProcessed, SubsFailed, PushFailed, MarkFailed, Crash, LoseFeed

-----------------------------------------------------------------------------
(* The fan-out is an environment of the walk.                              *)

\* What a step of the fan-out leaves of the walk.
LEMMA WalkAfterFanout ==
  ASSUME PagingP!TypeOK, FanoutStep
  PROVE  /\ \A S : walk.steady \cap Live' \cap feed'[Reader] = S
                     => walk' = [walk EXCEPT !.steady = S]
         /\ walk'.steady = walk.steady \cap Live' \cap feed'[Reader]
         /\ walk.steady \subseteq Live' \cap feed'[Reader] => walk' = walk
         /\ walk'.source = walk.source /\ walk'.pc = walk.pc /\ walk'.limit = walk.limit
         /\ walk'.blank = walk.blank /\ walk'.ids = walk.ids /\ walk'.shown = walk.shown
<1>1. walk \in PagingP!Walk
  BY DEF PagingP!TypeOK
<1>2. walk' = [walk EXCEPT !.steady = walk.steady \cap Live' \cap feed'[Reader]]
  BY DEF FanoutStep
<1>3. QED
  BY <1>1, <1>2 DEF PagingP!Walk

\* What can be read is live and in the feed.
LEMMA SteadyIsReadable ==
  ASSUME PagingP!IInv, walk.source = "feed"
  PROVE  walk.steady \subseteq Live \cap feed[Reader]
BY DEF PagingP!IInv, PagingP!SteadyInv, PagingP!Live, Live

\* A step that touches neither the table nor the Reader's feed does nothing to the walk.
LEMMA Elsewhere ==
  ASSUME PagingP!IInv, walk.source = "feed", FanoutStep, posts' = posts,
         feed'[Reader] = feed[Reader]
  PROVE  UNCHANGED PagingP!vars
<1>1. Live' = Live
  BY DEF Live
<1>2. walk' = walk
  BY <1>1, SteadyIsReadable, WalkAfterFanout DEF PagingP!IInv
<1>3. QED
  BY <1>2 DEF PagingP!vars

\* Every step of the fan-out is one of FeedPaging's, or none.
LEMMA FanoutRefines ==
  ASSUME IInv, PagingP!IInv, walk.source = "feed", FanoutStep
  PROVE  \/ \E p \in Posts : \/ PagingP!AddPost(p) \/ PagingP!RemovePost(p)
                             \/ PagingP!PushToFeed(p) \/ PagingP!RemoveFromFeed(p)
         \/ PagingP!LoseFeed
         \/ UNCHANGED PagingP!vars
<1> DEFINE Goal == \/ \E p \in Posts : \/ PagingP!AddPost(p) \/ PagingP!RemovePost(p)
                                      \/ PagingP!PushToFeed(p) \/ PagingP!RemoveFromFeed(p)
                   \/ PagingP!LoseFeed
                   \/ UNCHANGED PagingP!vars
<1>0. /\ PagingP!TypeOK /\ TypeOK /\ Reader \in Users
      /\ walk.steady \subseteq Live \cap feed[Reader]
  BY SteadyIsReadable, ReadingAssumption DEF PagingP!IInv, IInv, SharedInv
<1>1. ASSUME NEW p \in Posts, CommitAdd(p) PROVE Goal
  <2>1. posts[p] = "none" /\ posts' = [posts EXCEPT ![p] = "live"] /\ feed' = feed
    BY <1>1 DEF CommitAdd, IInv, SharedInv, RowInv
  <2>2. Live \subseteq Live'
    BY <1>0, <2>1 DEF Live, TypeOK
  <2>3. walk' = walk
    BY <1>0, <2>1, <2>2, WalkAfterFanout
  <2>4. PagingP!AddPost(p)
    BY <2>1, <2>3 DEF PagingP!AddPost
  <2>5. QED
    BY <2>4
<1>2. ASSUME NEW d \in Removers, MarkDeleted(d) PROVE Goal
  <2> DEFINE p == removing[d].post
  <2>1. p \in Posts /\ posts[p] # "none"
    BY <1>2 DEF MarkDeleted, IInv, SharedInv, RemoverInv
  <2>2. posts' = [posts EXCEPT ![p] = "deleted"] /\ feed' = feed
    BY <1>2 DEF MarkDeleted
  <2> HIDE DEF p
  <2>3. CASE posts[p] = "live"
    <3>1. Live' = Live \ {p}
      BY <1>0, <2>1, <2>2 DEF Live, TypeOK
    <3>2. walk.steady \cap Live' \cap feed'[Reader] = walk.steady \ {p}
      BY <1>0, <2>2, <3>1
    <3>3. walk' = [walk EXCEPT !.steady = @ \ {p}]
      BY <1>0, <3>2, WalkAfterFanout
    <3>4. PagingP!RemovePost(p)
      BY <2>2, <2>3, <3>3 DEF PagingP!RemovePost
    <3>5. QED
      BY <2>1, <3>4
  <2>4. CASE posts[p] = "deleted"
    <3>1. posts' = posts
      BY <1>0, <2>1, <2>2, <2>4 DEF TypeOK
    <3>2. QED
      BY <2>2, <3>1, Elsewhere
  <2>5. QED
    BY <1>0, <2>1, <2>3, <2>4 DEF TypeOK
<1>3. ASSUME NEW e \in event, NEW S \in SUBSET targets, feed' = FeedsAfter(e, S), posts' = posts
      PROVE  Goal
  <2>1. e \in outbox /\ e \in Event /\ e.post \in Posts
    BY <1>0, <1>3 DEF IInv, SharedInv, BatchInv, TypeOK, Event
  <2>2. Live' = Live
    BY <1>3 DEF Live
  <2>3. CASE Reader \in S /\ e.kind = "added" /\ e.post \notin feed[Reader]
    <3>1. feed'[Reader] = feed[Reader] \cup {e.post}
      BY <1>0, <1>3, <2>3 DEF FeedsAfter
    <3>2. posts[e.post] # "none"
      BY <2>1, <2>3 DEF IInv, SharedInv, RowInv
    <3>3. walk' = walk
      BY <1>0, <2>2, <3>1, WalkAfterFanout
    <3>4. PagingP!PushToFeed(e.post)
      BY <1>3, <2>3, <3>1, <3>2, <3>3 DEF PagingP!PushToFeed
    <3>5. QED
      BY <2>1, <3>4
  <2>4. CASE Reader \in S /\ e.kind = "deleted" /\ e.post \in feed[Reader]
    <3>1. feed'[Reader] = feed[Reader] \ {e.post}
      BY <1>0, <1>3, <2>4 DEF FeedsAfter
    <3>2. posts[e.post] = "deleted"
      BY <2>1, <2>4 DEF IInv, SharedInv, RowInv
    <3>3. walk' = walk
      BY <1>0, <2>2, <3>1, <3>2, WalkAfterFanout DEF Live
    <3>4. PagingP!RemoveFromFeed(e.post)
      BY <1>3, <2>4, <3>1, <3>2, <3>3 DEF PagingP!RemoveFromFeed
    <3>5. QED
      BY <2>1, <3>4
  <2>5. CASE /\ ~(Reader \in S /\ e.kind = "added" /\ e.post \notin feed[Reader])
             /\ ~(Reader \in S /\ e.kind = "deleted" /\ e.post \in feed[Reader])
    <3>1. e.kind \in {"added", "deleted"}
      BY <2>1 DEF Event
    <3>2. feed'[Reader] = feed[Reader]
      BY <1>0, <1>3, <2>5, <3>1 DEF FeedsAfter
    <3>3. QED
      BY <1>3, <3>2, Elsewhere
  <2>6. QED
    BY <2>3, <2>4, <2>5
<1>4. ASSUME NEW u \in Users, LoseFeed(u) PROVE Goal
  <2>1. feed[u] # {} /\ feed' = [feed EXCEPT ![u] = {}] /\ posts' = posts
    BY <1>4 DEF LoseFeed, tables
  <2>2. CASE u = Reader
    <3>1. feed'[Reader] = {}
      BY <1>0, <2>1, <2>2 DEF TypeOK
    <3>2. walk' = [walk EXCEPT !.steady = {}]
      BY <1>0, <3>1, WalkAfterFanout
    <3>3. PagingP!LoseFeed
      BY <2>1, <2>2, <3>1, <3>2 DEF PagingP!LoseFeed
    <3>4. QED
      BY <3>3
  <2>3. CASE u # Reader
    <3>1. feed'[Reader] = feed[Reader]
      BY <1>0, <2>1, <2>3 DEF TypeOK
    <3>2. QED
      BY <2>1, <3>1, Elsewhere
  <2>4. QED
    BY <2>2, <2>3
<1>5. ASSUME posts' = posts, feed' = feed PROVE Goal
  BY <1>5, Elsewhere
<1>6. ASSUME Push \/ PushFailed PROVE Goal
  <2>1. posts' = posts
    BY <1>6 DEF Push, PushFailed, tables
  <2>2. \E e \in event, S \in SUBSET targets : feed' = FeedsAfter(e, S)
    BY <1>6 DEF Push, PushFailed
  <2>3. QED
    BY <1>3, <2>1, <2>2
<1>7. ASSUME \/ \E p \in Posts : BeginAdd(p) \/ AbortAdd(p)
             \/ \E d \in Removers : \/ FindForRemoval(d) \/ BeginRemoval(d)
                                    \/ CommitRemoval(d) \/ AbortRemoval(d)
             \/ \E u \in Users, a \in Users : Subscribe(u, a) \/ Unsubscribe(u, a)
             \/ Fetch \/ ReadSubs \/ MarkProcessed \/ SubsFailed \/ MarkFailed \/ Crash
      PROVE  posts' = posts /\ feed' = feed
  BY <1>7 DEF BeginAdd, AbortAdd, FindForRemoval, BeginRemoval, CommitRemoval, AbortRemoval,
              Subscribe, Unsubscribe, Fetch, ReadSubs, MarkProcessed, SubsFailed, MarkFailed,
              Crash, tables
<1>8. \A p \in Posts : Author[p] \in Users
  BY ConstantsAssumption
<1> HIDE DEF Goal
<1>9. Goal
  BY <1>1, <1>2, <1>4, <1>5, <1>6, <1>7, <1>8 DEF FanoutStep, Next, Requests, Processor, Failures
<1>10. QED
  BY <1>9 DEF Goal

-----------------------------------------------------------------------------
(* The invariant.                                                          *)

\* A step of FeedPaging keeps its invariant.
LEMMA PagingStep == PagingP!IInv /\ [PagingP!Next]_PagingP!vars => PagingP!IInv'
BY PagingP!Inductive, PagingConstants

\* The fan-out leaves the walk with a step that FeedPaging allows.
LEMMA FanoutIsPaging ==
  ASSUME IInv, PagingP!IInv, walk.source = "feed", FanoutStep
  PROVE  [PagingP!Next]_PagingP!vars
BY FanoutRefines DEF PagingP!Next

\* So do the client's own steps.
LEMMA ClientIsPaging == StartWalk \/ ReadStep => PagingP!Next
BY SameSteps DEF StartWalk, ReadStep, PagingP!Next, PagingP!Sources

\* At first nothing is promised, retracted or shown.
LEMMA ReadingInitInv == ReadingInit => ReadingInv
<1> SUFFICES ASSUME ReadingInit PROVE ReadingInv
  OBVIOUS
<1>1. IInv
  BY InitInv DEF ReadingInit
<1>2. feed[Reader] = {}
  BY ReadingAssumption DEF ReadingInit, Init
<1>3. PagingP!Init
  BY <1>2 DEF ReadingInit, Init, PagingP!Init, PagingP!NewWalk, Paging!NewWalk
<1>4. PagingP!IInv
  BY <1>3, PagingP!InitInv, PagingConstants
<1>5. walk.source = "feed"
  BY DEF ReadingInit, Paging!NewWalk
<1>6. QED
  BY <1>1, <1>4, <1>5 DEF ReadingInit, ReadingInv, PromiseInv

\* A promise is kept as long as it is live and owed, a retraction for good.
LEMMA FanoutPromises ==
  ASSUME ReadingInv, FanoutStep
  PROVE  PromiseInv'
<1>1. IInv /\ [Next]_vars /\ PagingP!TypeOK
  BY DEF ReadingInv, FanoutStep, PagingP!IInv
<1>2. (Promised \subseteq feed[Reader] \cap Live)'
  <2>1. IInv'
    BY <1>1, StepInv
  <2>2. QED
    BY <2>1, PromisedInFeed, PTL
<1>3. promised' \subseteq walk'.steady
  BY <1>1, <1>2, WalkAfterFanout DEF ReadingInv, PromiseInv, FanoutStep
<1>4. ASSUME NEW p \in retracted
      PROVE  /\ \E e \in processed' : e.kind = "deleted" /\ e.post = p
             /\ p \notin feed'[Reader]
  <2>1. PICK e \in processed : e.kind = "deleted" /\ e.post = p
    BY DEF ReadingInv, PromiseInv
  <2>2. p \notin feed[Reader]
    BY DEF ReadingInv, PromiseInv
  <2>3. QED
    BY <1>1, <2>1, <2>2, StaysOut, ProcessedGrows, ReadingAssumption
<1>5. QED
  BY <1>1, <1>3, <1>4, WalkAfterFanout DEF ReadingInv, PromiseInv, FanoutStep

\* What a new walk is promised is there to be read.
LEMMA StartPromises ==
  ASSUME ReadingInv, StartWalk
  PROVE  PromiseInv'
<1>1. walk' = PagingP!NewWalk("feed", feed[Reader] \cap PagingP!Live)
  BY SameSteps DEF StartWalk, PagingP!Start
<1>2. /\ walk'.source = "feed" /\ walk'.ids = {} /\ walk'.shown = {}
      /\ walk'.steady = feed[Reader] \cap PagingP!Live
  BY <1>1 DEF PagingP!NewWalk
<1>3. Promised \subseteq feed[Reader] \cap PagingP!Live
  BY PromisedInFeed DEF ReadingInv, Live, PagingP!Live
<1>4. UNCHANGED <<processed, feed>> /\ promised' = Promised /\ retracted' = Retracted
  BY DEF StartWalk, vars, tables
<1>5. Retracted \subseteq Posts
  BY DEF Retracted, DuePosts
<1>6. QED
  BY <1>2, <1>3, <1>4, <1>5, RetractedNotInFeed DEF ReadingInv, PromiseInv

\* Pages show nothing but what was in the feed.
LEMMA ReadPromises ==
  ASSUME ReadingInv, ReadStep
  PROVE  PromiseInv'
<1>1. UNCHANGED <<processed, feed, promised, retracted>>
  BY DEF ReadStep, vars, tables
<1>2. walk \in PagingP!Walk
  BY DEF ReadingInv, PagingP!IInv, PagingP!TypeOK
<1>3. ASSUME NEW n \in Limits, PagingP!ReadFeed(n)
      PROVE  /\ walk'.source = walk.source /\ walk'.steady = walk.steady
             /\ walk'.ids \subseteq feed[Reader] /\ walk'.shown = walk.shown
  BY <1>2, <1>3 DEF PagingP!ReadFeed, PagingP!Walk
<1>4. ASSUME NEW found, NEW last, found \subseteq walk.ids,
             PagingP!Show(found, last, walk.limit)
      PROVE  /\ walk'.source = walk.source /\ walk'.steady = walk.steady
             /\ walk'.ids = {} /\ walk'.shown \subseteq walk.shown \cup walk.ids
  BY <1>2, <1>4 DEF PagingP!Show, PagingP!Walk
<1>5. ASSUME PagingP!ReadPosts
      PROVE  /\ walk'.source = walk.source /\ walk'.steady = walk.steady
             /\ walk'.ids = {} /\ walk'.shown \subseteq walk.shown \cup walk.ids
  <2>1. PICK stale \in SUBSET (walk.ids \ PagingP!Live),
             missed \in SUBSET (walk.ids \cap PagingP!Live) :
          LET found == stale \cup (walk.ids \cap PagingP!Live)
          IN  IF found = {} THEN PagingP!Show({}, NoPost, walk.limit)
              ELSE \E last \in (IF missed = {} THEN PagingP!Lowest("feed", found) ELSE missed) :
                     PagingP!Show(found, last, walk.limit)
    BY <1>5 DEF PagingP!ReadPosts
  <2>2. \/ PagingP!Show({}, NoPost, walk.limit)
        \/ \E last : PagingP!Show(stale \cup (walk.ids \cap PagingP!Live), last, walk.limit)
    BY <2>1
  <2>3. QED
    BY <1>4, <2>2
<1>6. ASSUME PagingP!ReadFailed
      PROVE  /\ walk'.source = walk.source /\ walk'.steady = walk.steady
             /\ walk'.ids = {} /\ walk'.shown = walk.shown
  BY <1>2, <1>6 DEF PagingP!ReadFailed, PagingP!Walk
<1>7. /\ walk'.source = walk.source /\ walk'.steady = walk.steady
      /\ walk'.ids \subseteq feed[Reader] /\ walk'.shown \subseteq walk.shown \cup walk.ids
  BY <1>3, <1>5, <1>6, SameSteps DEF ReadStep
<1>8. QED
  BY <1>1, <1>7 DEF ReadingInv, PromiseInv

\* Every step keeps the invariant.
LEMMA ReadingStepInv == ReadingInv /\ [ReadingNext]_readingVars => ReadingInv'
<1> SUFFICES ASSUME ReadingInv, [ReadingNext]_readingVars PROVE ReadingInv'
  OBVIOUS
<1>1. IInv /\ PagingP!IInv /\ walk.source = "feed"
  BY DEF ReadingInv, PromiseInv
<1>2. CASE FanoutStep
  <2>1. IInv'
    BY <1>1, <1>2, StepInv DEF FanoutStep
  <2>2. PagingP!IInv'
    BY <1>1, <1>2, FanoutIsPaging, PagingStep
  <2>3. QED
    BY <1>2, <2>1, <2>2, FanoutPromises DEF ReadingInv
<1>3. CASE StartWalk \/ ReadStep
  <2>1. IInv'
    BY <1>1, <1>3, StepInv DEF StartWalk, ReadStep
  <2>2. PagingP!IInv'
    BY <1>1, <1>3, ClientIsPaging, PagingStep
  <2>3. QED
    BY <1>3, <2>1, <2>2, StartPromises, ReadPromises DEF ReadingInv
<1>4. CASE UNCHANGED readingVars
  <2>1. IInv'
    BY <1>1, <1>4, StepInv DEF readingVars
  <2>2. PagingP!IInv'
    <3>1. UNCHANGED PagingP!vars
      BY <1>4 DEF readingVars, vars, tables, PagingP!vars
    <3>2. QED
      BY <1>1, <3>1, PagingStep
  <2>3. PromiseInv'
    BY <1>4 DEF readingVars, vars, tables, ReadingInv, PromiseInv
  <2>4. QED
    BY <2>1, <2>2, <2>3 DEF ReadingInv
<1>5. QED
  BY <1>2, <1>3, <1>4 DEF ReadingNext

\* The invariant holds throughout.
THEOREM ReadingInvariance == ReadingSpec => []ReadingInv
BY ReadingInitInv, ReadingStepInv, PTL DEF ReadingSpec

-----------------------------------------------------------------------------
(* The properties.                                                         *)

\* The walk, its cursor and the two histories keep their types.
THEOREM ReadingTypeCorrect == ReadingSpec => []ReadingTypeOK
<1>1. ReadingInv => ReadingTypeOK
  BY DEF ReadingInv, PromiseInv, PagingP!IInv, PagingP!TypeOK, PagingP!Walk, Paging!Walk,
         PagingP!Sources, Paging!Sources, ReadingTypeOK
<1>2. QED
  BY <1>1, ReadingInvariance, PTL

\* GET /feed shows, in a walk that ends complete, every post whose event was processed for
\* this reader before the walk began.
THEOREM PromisesAreShown == ReadingSpec => []PromisedShown
<1>1. ReadingInv => PromisedShown
  BY DEF ReadingInv, PromiseInv, PagingP!IInv, PagingP!EndedIsComplete, PromisedShown
<1>2. QED
  BY <1>1, ReadingInvariance, PTL

\* GET /feed never shows a post whose deletion was processed for this reader before the
\* walk began, however stale the post cache is.
THEOREM RetractionsAreFinal == ReadingSpec => []RetractedHidden
<1>1. ReadingInv => RetractedHidden
  BY DEF ReadingInv, PromiseInv, RetractedHidden
<1>2. QED
  BY <1>1, ReadingInvariance, PTL

\* The system as a whole implements FeedPaging for each of its users: the freedom which
\* that module gives to its posts and to the feed covers what the fan-out does.
THEOREM ReadingImplementsPaging == ReadingSpec => ImplementsPaging
<1>1. ReadingInit => Paging!Init
  <2>1. ReadingInit => feed[Reader] = {}
    BY ReadingAssumption DEF ReadingInit, Init
  <2>2. QED
    BY <2>1 DEF ReadingInit, Init, Paging!Init
<1>2. ReadingInv /\ [ReadingNext]_readingVars => [Paging!Next]_Paging!vars
  <2> SUFFICES ASSUME ReadingInv, [ReadingNext]_readingVars PROVE [Paging!Next]_Paging!vars
    OBVIOUS
  <2>1. CASE FanoutStep
    <3>1. \/ \E p \in Posts : \/ PagingP!AddPost(p) \/ PagingP!RemovePost(p)
                             \/ PagingP!PushToFeed(p) \/ PagingP!RemoveFromFeed(p)
          \/ PagingP!LoseFeed
          \/ UNCHANGED PagingP!vars
      BY <2>1, FanoutRefines DEF ReadingInv, PromiseInv
    <3>2. UNCHANGED PagingP!vars => UNCHANGED Paging!vars
      BY DEF PagingP!vars, Paging!vars
    <3>3. QED
      BY <3>1, <3>2, SameEnvironment DEF Paging!Next
  <2>2. CASE StartWalk \/ ReadStep
    BY <2>2 DEF StartWalk, ReadStep, Paging!Next, Paging!Sources
  <2>3. CASE UNCHANGED readingVars
    BY <2>3 DEF readingVars, vars, tables, Paging!vars
  <2>4. QED
    BY <2>1, <2>2, <2>3 DEF ReadingNext
<1>3. QED
  BY <1>1, <1>2, ReadingInvariance, PTL DEF ReadingSpec, ImplementsPaging, Paging!Spec

-----------------------------------------------------------------------------
(* Two processors.                                                         *)

SecondP == INSTANCE FeedFanoutProofs
             WITH phase <- phase2, batch <- batch2, todo <- todo2,
                  event <- event2, targets <- targets2

TwoInv == SharedInv /\ SecondP!SharedInv

\* The second processor has the constants of the first.
LEMMA SecondConstants == SecondP!ConstantsAssumption
BY ConstantsAssumption DEF SecondP!ConstantsAssumption

\* What does not name a processor is the same for both.
LEMMA SameInterference == Interference <=> SecondP!Interference
BY DEF Interference, SecondP!Interference, requests, SecondP!requests, AdditionBeforeDeletion,
       SecondP!AdditionBeforeDeletion, Delivered, SecondP!Delivered, FeedsAfter,
       SecondP!FeedsAfter

\* The second processor starts like the first.
LEMMA SameInit == Second!Init => SecondP!Init
BY DEF Second!Init, SecondP!Init, Second!IdleRequest, SecondP!IdleRequest

\* Requests and evictions that leave the second processor alone are those of its module.
LEMMA SameRequests ==
  UNCHANGED worker2 => /\ Requests => SecondP!Requests
                       /\ \A u \in Users : LoseFeed(u) => SecondP!LoseFeed(u)
<1> SUFFICES ASSUME UNCHANGED worker2
             PROVE  /\ Requests => SecondP!Requests
                    /\ \A u \in Users : LoseFeed(u) => SecondP!LoseFeed(u)
  OBVIOUS
<1> USE DEF worker2, SecondP!tables, SecondP!requests, SecondP!worker, tables, requests
<1>1. ASSUME NEW e PROVE OwedNow(e) = SecondP!OwedNow(e)
  BY DEF OwedNow, SecondP!OwedNow, Followers, SecondP!Followers
<1>2. ASSUME NEW p \in Posts
      PROVE  /\ BeginAdd(p) => SecondP!BeginAdd(p)
             /\ CommitAdd(p) => SecondP!CommitAdd(p)
             /\ AbortAdd(p) => SecondP!AbortAdd(p)
  BY <1>1 DEF BeginAdd, SecondP!BeginAdd, CommitAdd, SecondP!CommitAdd, AbortAdd, SecondP!AbortAdd
<1>3. ASSUME NEW d \in Removers
      PROVE  /\ FindForRemoval(d) => SecondP!FindForRemoval(d)
             /\ BeginRemoval(d) => SecondP!BeginRemoval(d)
             /\ MarkDeleted(d) => SecondP!MarkDeleted(d)
             /\ CommitRemoval(d) => SecondP!CommitRemoval(d)
             /\ AbortRemoval(d) => SecondP!AbortRemoval(d)
  BY <1>1 DEF FindForRemoval, SecondP!FindForRemoval, BeginRemoval, SecondP!BeginRemoval,
              MarkDeleted, SecondP!MarkDeleted, CommitRemoval, SecondP!CommitRemoval,
              AbortRemoval, SecondP!AbortRemoval, IdleRequest, SecondP!IdleRequest
<1>4. ASSUME NEW u \in Users, NEW a
      PROVE  /\ Subscribe(u, a) => SecondP!Subscribe(u, a)
             /\ Unsubscribe(u, a) => SecondP!Unsubscribe(u, a)
  BY DEF Subscribe, SecondP!Subscribe, Unsubscribe, SecondP!Unsubscribe
<1>5. ASSUME NEW u \in Users PROVE LoseFeed(u) => SecondP!LoseFeed(u)
  BY DEF LoseFeed, SecondP!LoseFeed
<1>6. QED
  BY <1>2, <1>3, <1>4, <1>5 DEF Requests, SecondP!Requests

\* The steps of the second processor are those the proofs of FeedFanout are about.
LEMMA SameSecondStep ==
  SecondStep => SecondP!Processor \/ SecondP!SubsFailed \/ SecondP!PushFailed \/ SecondP!MarkFailed
<1> USE DEF Second!tables, SecondP!tables, Second!requests, SecondP!requests,
            Second!DropBatch, SecondP!DropBatch, Second!CountFault, SecondP!CountFault,
            Second!FeedsAfter, SecondP!FeedsAfter
<1>1. Second!Fetch => SecondP!Fetch
  BY DEF Second!Fetch, SecondP!Fetch, Second!Unprocessed, SecondP!Unprocessed,
         Second!OldestRows, SecondP!OldestRows, Second!Cardinality, SecondP!Cardinality
<1>2. Second!ReadSubs => SecondP!ReadSubs
  BY DEF Second!ReadSubs, SecondP!ReadSubs, Second!Followers, SecondP!Followers
<1>3. Second!Push => SecondP!Push
  BY DEF Second!Push, SecondP!Push
<1>4. Second!MarkProcessed => SecondP!MarkProcessed
  BY DEF Second!MarkProcessed, SecondP!MarkProcessed
<1>5. Second!SubsFailed => SecondP!SubsFailed
  BY DEF Second!SubsFailed, SecondP!SubsFailed
<1>6. Second!PushFailed => SecondP!PushFailed
  BY DEF Second!PushFailed, SecondP!PushFailed
<1>7. Second!MarkFailed => SecondP!MarkFailed
  BY DEF Second!MarkFailed, SecondP!MarkFailed
<1>8. QED
  BY <1>1, <1>2, <1>3, <1>4, <1>5, <1>6, <1>7 DEF SecondStep, Second!Processor, SecondP!Processor

\* The initial states satisfy the invariant of either processor.
LEMMA TwoInitInv == TwoInit => TwoInv
<1>1. SecondP!Init => SecondP!SharedInv
  BY SecondConstants, SecondP!InitInv DEF SecondP!IInv
<1>2. QED
  BY <1>1, InitInv, SameInit DEF TwoInit, TwoInv, IInv

\* A step of either keeps both.
LEMMA TwoStepInv == TwoInv /\ [TwoNext]_twoVars => TwoInv'
<1> SUFFICES ASSUME TwoInv, [TwoNext]_twoVars PROVE TwoInv'
  OBVIOUS
<1>1. CASE (Requests \/ \E u \in Users : LoseFeed(u)) /\ UNCHANGED worker2
  <2>1. SharedInv'
    BY <1>1, SharedStep DEF TwoInv, Next, Failures
  <2>2. SecondP!Next
    BY <1>1, SameRequests DEF SecondP!Next, SecondP!Failures
  <2>3. SecondP!SharedInv'
    BY <2>2, SecondConstants, SecondP!SharedStep DEF TwoInv
  <2>4. QED
    BY <2>1, <2>3 DEF TwoInv
<1>2. CASE FirstStep /\ UNCHANGED worker2
  <2>1. SharedInv'
    BY <1>2, SharedStep DEF TwoInv, FirstStep, Next, Failures
  <2>2. SecondP!Interference
    BY <1>2, OwnInterference, SameInterference DEF TwoInv, FirstStep
  <2>3. SecondP!SharedInv'
    BY <1>2, <2>2, SecondConstants, SecondP!InterferenceStep DEF TwoInv, worker2, SecondP!worker
  <2>4. QED
    BY <2>1, <2>3 DEF TwoInv
<1>3. CASE SecondStep /\ UNCHANGED worker
  <2>1. SecondP!Processor \/ SecondP!SubsFailed \/ SecondP!PushFailed \/ SecondP!MarkFailed
    BY <1>3, SameSecondStep
  <2>2. SecondP!SharedInv'
    BY <2>1, SecondConstants, SecondP!SharedStep DEF TwoInv, SecondP!Next, SecondP!Failures
  <2>3. Interference
    BY <2>1, SecondConstants, SecondP!OwnInterference, SameInterference DEF TwoInv
  <2>4. SharedInv'
    BY <1>3, <2>3, InterferenceStep DEF TwoInv
  <2>5. QED
    BY <2>2, <2>4 DEF TwoInv
<1>4. CASE UNCHANGED twoVars
  <2>1. UNCHANGED vars /\ UNCHANGED SecondP!vars
    BY <1>4 DEF twoVars, vars, tables, requests, worker, worker2, SecondP!vars, SecondP!tables,
                SecondP!requests, SecondP!worker
  <2>2. QED
    BY <2>1, SharedStep, SecondConstants, SecondP!SharedStep DEF TwoInv
<1>5. QED
  BY <1>1, <1>2, <1>3, <1>4 DEF TwoNext

\* The invariant of either processor holds throughout.
THEOREM TwoInvariance == TwoSpec => []TwoInv
BY TwoInitInv, TwoStepInv, PTL DEF TwoSpec

\* Whoever of the two has handled an addition, its followers who stay have the post.
THEOREM EitherDelivers == TwoSpec => []StillDelivered
<1>1. TwoInv => StillDelivered
  <2> SUFFICES ASSUME TwoInv PROVE StillDelivered
    OBVIOUS
  <2>1. UNION HandledBy = Handled \cup SecondP!Handled
    BY DEF HandledBy, Handled, SecondP!Handled
  <2>2. DeliveredInv /\ SecondP!DeliveredInv
    BY DEF TwoInv, SharedInv, SecondP!SharedInv
  <2>3. QED
    BY <2>1, <2>2 DEF DeliveredInv, SecondP!DeliveredInv, StillDelivered
<1>2. QED
  BY <1>1, TwoInvariance, PTL

\* Neither of the two handles a deletion before its addition.
THEOREM EitherInOrder == TwoSpec => []StillInOrder
<1>1. TwoInv => StillInOrder
  BY DEF TwoInv, SharedInv, SecondP!SharedInv, BatchInv, SecondP!BatchInv, Precedes,
         SecondP!Precedes, HandledBy, Handled, SecondP!Handled, StillInOrder
<1>2. QED
  BY <1>1, TwoInvariance, PTL

\* The feeds change by a row that one of the two has in hand, or by an eviction.
LEMMA TwoFeedChanges ==
  ASSUME TwoInv, [TwoNext]_twoVars
  PROVE  \/ UNCHANGED feed
         \/ \E e \in event \cup event2, S \in SUBSET Users : feed' = FeedsAfter(e, S)
         \/ \E u \in Users : feed' = [feed EXCEPT ![u] = {}]
<1>1. CASE (Requests \/ FirstStep \/ \E u \in Users : LoseFeed(u)) /\ UNCHANGED worker2
  <2>1. Next
    BY <1>1 DEF Next, Failures, FirstStep
  <2>2. targets \subseteq Users
    BY DEF TwoInv, SharedInv, TypeOK
  <2>3. QED
    BY <2>1, <2>2, FeedChanges
<1>2. CASE SecondStep /\ UNCHANGED worker
  <2>1. SecondP!Next
    BY <1>2, SameSecondStep DEF SecondP!Next, SecondP!Failures
  <2>2. targets2 \subseteq Users
    BY DEF TwoInv, SecondP!SharedInv, SecondP!TypeOK
  <2>3. \A e, S : SecondP!FeedsAfter(e, S) = FeedsAfter(e, S)
    BY DEF SecondP!FeedsAfter, FeedsAfter
  <2>4. QED
    BY <2>1, <2>2, <2>3, SecondConstants, SecondP!FeedChanges
<1>3. CASE UNCHANGED twoVars
  BY <1>3 DEF twoVars, vars
<1>4. QED
  BY <1>1, <1>2, <1>3 DEF TwoNext

\* A post whose deletion is marked comes back only by an addition that is marked, too.
THEOREM OnlyLateOnesReturn == TwoSpec => OnlyLateAdditionsReturn
<1>1. ASSUME TwoInv, [TwoNext]_twoVars, NEW d \in processed, NEW u \in Users,
             d.kind = "deleted", d.post \in feed'[u] \ feed[u]
      PROVE  \E f \in (event \cup event2) \cap processed : f.kind = "added" /\ f.post = d.post
  <2>1. ASSUME NEW e \in event \cup event2, NEW S \in SUBSET Users, feed' = FeedsAfter(e, S)
        PROVE  e \in processed /\ e.kind = "added" /\ e.post = d.post
    <3>1. e.kind = "added" /\ e.post = d.post
      BY <1>1, <2>1 DEF FeedsAfter
    <3>2. e \in outbox
      BY <1>1, <2>1 DEF TwoInv, SharedInv, SecondP!SharedInv, BatchInv, SecondP!BatchInv
    <3>3. PICK f \in processed : Precedes(f, d)
      BY <1>1 DEF TwoInv, SharedInv, BatchInv
    <3>4. f \in outbox /\ f = e
      BY <1>1, <3>1, <3>2, <3>3 DEF TwoInv, SharedInv, BatchInv, RowInv, Precedes
    <3>5. QED
      BY <3>1, <3>3, <3>4
  <2>2. ASSUME NEW v \in Users, feed' = [feed EXCEPT ![v] = {}] PROVE FALSE
    BY <1>1, <2>2 DEF TwoInv, SharedInv, TypeOK
  <2>3. QED
    BY <1>1, <2>1, <2>2, TwoFeedChanges
<1>2. TwoInv /\ [TwoNext]_twoVars =>
        [\A e \in processed, u \in Users :
           (e.kind = "deleted" /\ e.post \in feed'[u] \ feed[u]) =>
             \E f \in (event \cup event2) \cap processed :
                f.kind = "added" /\ f.post = e.post]_twoVars
  BY <1>1
<1>3. QED
  BY <1>2, TwoInvariance, PTL DEF TwoSpec, OnlyLateAdditionsReturn

\* Also between two processors a live post never leaves a feed, unless Redis drops the feed.
THEOREM LivePostsStayWithTwo == TwoSpec => OnlyDeletedPostsLeave
<1>1. ASSUME TwoInv, [TwoNext]_twoVars, NEW u \in Users, NEW p \in feed[u] \ feed'[u]
      PROVE  posts[p] = "deleted" \/ feed'[u] = {}
  <2>1. ASSUME NEW e \in event \cup event2, NEW S \in SUBSET Users, feed' = FeedsAfter(e, S)
        PROVE  posts[p] = "deleted"
    <3>1. e \in outbox /\ e \in Event
      BY <1>1 DEF TwoInv, SharedInv, SecondP!SharedInv, BatchInv, SecondP!BatchInv, TypeOK
    <3>2. e.kind = "deleted" /\ p = e.post
      BY <1>1, <2>1, <3>1 DEF FeedsAfter, Event
    <3>3. QED
      BY <1>1, <3>1, <3>2 DEF TwoInv, SharedInv, RowInv
  <2>2. ASSUME NEW v \in Users, feed' = [feed EXCEPT ![v] = {}] PROVE feed'[u] = {}
    BY <1>1, <2>2 DEF TwoInv, SharedInv, TypeOK
  <2>3. QED
    BY <1>1, <2>1, <2>2, TwoFeedChanges
<1>2. TwoInv /\ [TwoNext]_twoVars =>
        [\A u \in Users : \A p \in feed[u] \ feed'[u] :
           posts[p] = "deleted" \/ feed'[u] = {}]_vars
  <2> SUFFICES ASSUME TwoInv, [TwoNext]_twoVars
               PROVE  \A u \in Users : \A p \in feed[u] \ feed'[u] :
                        posts[p] = "deleted" \/ feed'[u] = {}
    OBVIOUS
  <2>1. QED
    BY <1>1
<1>3. QED
  BY <1>2, TwoInvariance, PTL DEF TwoSpec, OnlyDeletedPostsLeave
=============================================================================
