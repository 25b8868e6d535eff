---------------------------- MODULE FeedReading ----------------------------
(***************************************************************************)
(* The two ends of the feed together: the fan-out writes the feeds of all  *)
(* followers while one of them, Reader, walks through its own page by page *)
(* (GET /feed). FeedPaging lets posts enter and leave the feed as they     *)
(* like, within the limits of its actions; here they do what the requests, *)
(* the outbox and the processor of FeedFanout make them do.                *)
(***************************************************************************)
EXTENDS FeedFanout

CONSTANTS Reader,    \* whose feed is read
          CreatedAt, \* [Posts -> Nat], in microseconds
          Milli,     \* microseconds per millisecond
          Limits     \* what the client asks for

ASSUME ReadingAssumption ==
    /\ Reader \in Users
    /\ Posts \subseteq Nat
    /\ CreatedAt \in [Posts -> Nat]
    /\ Milli \in Nat \ {0}
    /\ Limits \subseteq Int

VARIABLES
    walk,      \* the client's progress
    promised,  \* history: due to the Reader when the walk began and ever since
    retracted  \* history: withdrawn from the Reader before the walk began

readingVars == <<vars, walk, promised, retracted>>

Paging == INSTANCE FeedPaging WITH feed <- feed[Reader]

-----------------------------------------------------------------------------
\* The posts whose row of this kind is processed and owed to the Reader.
DuePosts(kind) ==
    {p \in Posts : \E e \in processed : e.kind = kind /\ e.post = p /\ <<e, Reader>> \in owed}

Live == {p \in Posts : posts[p] = "live"}

\* What the outbox has promised to have delivered by now.
Promised == DuePosts("added") \cap Live

Retracted == DuePosts("deleted")

ReadingInit ==
    /\ Init
    /\ walk = [Paging!NewWalk("feed", {}) EXCEPT !.pc = "idle"]
    /\ promised = {}
    /\ retracted = {}

\* Requests, the processor, failures. What is deleted or has left the feed can no longer be
\* read, what is no longer owed is no longer promised.
FanoutStep ==
    /\ Next
    /\ walk' = [walk EXCEPT !.steady = @ \cap Live' \cap feed'[Reader]]
    /\ promised' = promised \cap Promised'
    /\ UNCHANGED retracted

\* The first page is asked for.
StartWalk ==
    /\ UNCHANGED vars
    /\ Paging!Start("feed")
    /\ promised' = Promised
    /\ retracted' = Retracted

\* GetFromFeed: the ids, then the posts, or an error in between.
ReadStep ==
    /\ UNCHANGED <<vars, promised, retracted>>
    /\ \/ \E n \in Limits : Paging!ReadFeed(n)
       \/ Paging!ReadPosts
       \/ Paging!ReadFailed

ReadingNext == FanoutStep \/ StartWalk \/ ReadStep

ReadingSpec == ReadingInit /\ [][ReadingNext]_readingVars

-----------------------------------------------------------------------------
(* Properties.                                                             *)

\* The walk and what is known of it keep their types.
ReadingTypeOK ==
    /\ walk \in Paging!Walk
    /\ promised \in SUBSET Posts
    /\ retracted \in SUBSET Posts

\* The processor, the requests and Redis do to a feed only what FeedPaging allows them: a
\* post is pushed after it is committed and taken out after it is deleted, one by one.
ImplementsPaging == Paging!Spec

\* From the commit to the page: a post whose addition was processed before the walk began,
\* for a reader who has followed its author since the commit, has been shown when the walk
\* ends, if it is still live and owed, whatever is replayed, published and deleted
\* meanwhile. (The walk ends with a positive limit and not on a page of deleted posts.)
PromisedShown ==
    (walk.pc = "ended" /\ walk.limit > 0 /\ ~walk.blank) => promised \subseteq walk.shown

\* A deletion that was processed before the walk began, for a reader who has followed the
\* author since it was committed, is final: no page shows the post, although the post cache
\* may still hold its document as live.
RetractedHidden == retracted \cap walk.shown = {}
=============================================================================
