----------------------------- MODULE FeedPaging -----------------------------
(***************************************************************************)
(* A client that reads posts page by page, handing back the cursor it got  *)
(* with the last page: its own feed (GET /feed) or the posts of an author  *)
(* (GET /user/{user_id}/posts), while posts are published and deleted.     *)
(*                                                                         *)
(* The feed is a sorted set whose members are ordered by <<created_at in   *)
(* MILLISECONDS, id>>; the posts of an author are ordered by <<created_at  *)
(* in MICROSECONDS, id>>. A page of the feed is read in two steps: the     *)
(* ids, then the posts behind them, part from the cache and part from the  *)
(* table; the cursor names the LAST post of that answer.                   *)
(*                                                                         *)
(* All posts are by one author, whom the reader follows.                   *)
(***************************************************************************)
EXTENDS Integers, FiniteSets

CONSTANTS Posts,     \* the ids, as numbers: their order is that of the UUIDs
          CreatedAt, \* [Posts -> Nat], in microseconds
          Milli,     \* microseconds per millisecond
          Limits,    \* what clients ask for; nothing keeps them from 0 and below
          NoPost

ASSUME ConstantsAssumption ==
    /\ Posts \subseteq Nat
    /\ CreatedAt \in [Posts -> Nat]
    /\ Milli \in Nat \ {0}
    /\ Limits \subseteq Int
    /\ NoPost \notin Posts

VARIABLES
    posts, \* [Posts -> {"none", "live", "deleted"}]: the posts table
    feed,  \* the reader's sorted set
    walk   \* the client's progress

vars == <<posts, feed, walk>>

-----------------------------------------------------------------------------
Sources == {"feed", "author"}

Walk == [pc : {"idle", "page", "posts", "ended"},
         source : Sources,
         limit : Limits \cup {1},        \* of the latest page
         cursor : Posts \cup {NoPost},   \* of the latest page
         ids : SUBSET Posts,             \* read from the feed, posts not read yet
         page : SUBSET Posts,            \* the latest page
         from : Posts \cup {NoPost},     \* history: the cursor it was asked for with
         before : SUBSET Posts,          \* history: all pages before it
         shown : SUBSET Posts,           \* history: all pages so far
         steady : SUBSET Posts,          \* history: there to be read since the walk began
         blank : BOOLEAN]                \* the latest page had ids, all of deleted posts

NewWalk(s, steady) ==
    [pc |-> "page", source |-> s, limit |-> 1, cursor |-> NoPost, ids |-> {}, page |-> {},
     from |-> NoPost, before |-> {}, shown |-> {}, steady |-> steady, blank |-> FALSE]

Live == {p \in Posts : posts[p] = "live"}

Before(k, l) == k[1] < l[1] \/ (k[1] = l[1] /\ k[2] < l[2])

\* feedMember drops what is below a millisecond; the table keeps it.
Key(s, p) ==
    IF s = "feed" THEN <<CreatedAt[p] \div Milli, p>> ELSE <<CreatedAt[p], p>>

\* p comes after c when source s is read.
Below(s, p, c) == Before(Key(s, p), Key(s, c))

\* Mutant: the cursor's time is cut to milliseconds for the table, too.
RestTruncated(s, S, c) ==
    {p \in S : c = NoPost \/ Before(Key(s, p), <<(CreatedAt[c] \div Milli) * Milli, c>>)}

\* Mutant: the post of the cursor is part of what is left.
RestWithCursor(s, S, c) == {p \in S : c = NoPost \/ ~Below(s, c, p)}

\* What is left to read after the cursor.
Rest(s, S, c) == {p \in S : c = NoPost \/ Below(s, p, c)}

\* T is the page of the n newest members of S.
NewestOf(s, S, n, T) ==
    /\ T \subseteq S
    /\ \A p \in T, q \in S \ T : Below(s, q, p)
    /\ Cardinality(T) <= n
    /\ T = S \/ Cardinality(T) = n

\* The oldest of a set of posts.
Lowest(s, S) == {p \in S : \A q \in S \ {p} : Below(s, p, q)}

Init ==
    /\ posts = [p \in Posts |-> "none"]
    /\ feed = {}
    /\ walk = [NewWalk("feed", {}) EXCEPT !.pc = "idle"]

-----------------------------------------------------------------------------
(* Posts come and go.                                                      *)

\* created_at was taken before the transaction: a post may appear below a cursor.
AddPost(p) ==
    /\ posts[p] = "none"
    /\ posts' = [posts EXCEPT ![p] = "live"]
    /\ UNCHANGED <<feed, walk>>

RemovePost(p) ==
    /\ posts[p] = "live"
    /\ posts' = [posts EXCEPT ![p] = "deleted"]
    /\ walk' = [walk EXCEPT !.steady = @ \ {p}]
    /\ UNCHANGED feed

\* The processor, late or again.
PushToFeed(p) ==
    /\ posts[p] # "none"
    /\ p \notin feed
    /\ feed' = feed \cup {p}
    /\ UNCHANGED <<posts, walk>>

RemoveFromFeed(p) ==
    /\ posts[p] = "deleted"
    /\ p \in feed
    /\ feed' = feed \ {p}
    /\ UNCHANGED <<posts, walk>>

\* Redis drops the feed.
LoseFeed ==
    /\ feed # {}
    /\ feed' = {}
    /\ walk' = IF walk.source = "feed" THEN [walk EXCEPT !.steady = {}] ELSE walk
    /\ UNCHANGED posts

-----------------------------------------------------------------------------
(* The client.                                                             *)

Start(s) ==
    /\ walk.pc \in {"idle", "ended"}
    /\ walk' = NewWalk(s, IF s = "feed" THEN feed \cap Live ELSE Live)
    /\ UNCHANGED <<posts, feed>>

\* The page is answered; without posts there is no cursor, and the client has finished.
Show(found, last, n) ==
    walk' = [walk EXCEPT !.pc = IF found = {} THEN "ended" ELSE "page",
                         !.limit = n,
                         !.cursor = IF found = {} THEN NoPost ELSE last,
                         !.ids = {},
                         !.page = found,
                         !.from = walk.cursor,
                         !.before = walk.shown,
                         !.shown = @ \cup found,
                         !.blank = (found = {} /\ walk.ids # {})]

\* GetFeedPostsIds: a limit of 0 is not sent, and Redis takes a negative one for none.
ReadFeed(n) ==
    /\ walk.pc = "page"
    /\ walk.source = "feed"
    /\ \E T \in SUBSET feed :
         /\ IF n > 0 THEN NewestOf("feed", Rest("feed", feed, walk.cursor), n, T)
                     ELSE T = Rest("feed", feed, walk.cursor)
         /\ walk' = [walk EXCEPT !.pc = "posts", !.ids = T, !.limit = n]
    /\ UNCHANGED <<posts, feed>>

\* Mutant: the rows missing in the cache are cached and not returned.
ReadPostsCachedOnly ==
    /\ walk.pc = "posts"
    /\ \E stale \in SUBSET (walk.ids \ Live), missed \in SUBSET (walk.ids \cap Live) :
         LET found == stale \cup ((walk.ids \cap Live) \ missed)
         IN  IF found = {} THEN Show({}, NoPost, walk.limit)
             ELSE \E last \in Lowest("feed", found) : Show(found, last, walk.limit)
    /\ UNCHANGED <<posts, feed>>

\* GetPostsWithIds: a deleted post may still be cached as live; what the cache has comes
\* first, in the order of the ids, then the rows of the others in whatever order the table
\* returns them. (Ordering the answer is computed, and thrown away.)
ReadPosts ==
    /\ walk.pc = "posts"
    /\ \E stale \in SUBSET (walk.ids \ Live), missed \in SUBSET (walk.ids \cap Live) :
         LET found == stale \cup (walk.ids \cap Live)
         IN  IF found = {} THEN Show({}, NoPost, walk.limit)
             ELSE \E last \in (IF missed = {} THEN Lowest("feed", found) ELSE missed) :
                    Show(found, last, walk.limit)
    /\ UNCHANGED <<posts, feed>>

\* GetPostsByAuthorId, in one statement. LIMIT 0 returns nothing; below, it is an error.
ReadAuthor(n) ==
    /\ walk.pc = "page"
    /\ walk.source = "author"
    /\ n >= 0
    /\ \E T \in SUBSET Live :
         /\ NewestOf("author", Rest("author", Live, walk.cursor), n, T)
         /\ IF T = {} THEN Show({}, NoPost, n)
            ELSE \E last \in Lowest("author", T) : Show(T, last, n)
    /\ UNCHANGED <<posts, feed>>

\* The feed or the posts cannot be read: the client may ask again.
ReadFailed ==
    /\ walk.pc = "posts"
    /\ walk' = [walk EXCEPT !.pc = "page", !.ids = {}]
    /\ UNCHANGED <<posts, feed>>

-----------------------------------------------------------------------------
Next ==
    \/ \E p \in Posts : AddPost(p) \/ RemovePost(p) \/ PushToFeed(p) \/ RemoveFromFeed(p)
    \/ LoseFeed
    \/ \E s \in Sources : Start(s)
    \/ \E n \in Limits : ReadFeed(n) \/ ReadAuthor(n)
    \/ ReadPosts
    \/ ReadFailed

Spec == Init /\ [][Next]_vars

-----------------------------------------------------------------------------
(* Properties.                                                             *)

\* Every variable keeps its type.
TypeOK ==
    /\ posts \in [Posts -> {"none", "live", "deleted"}]
    /\ feed \in SUBSET Posts
    /\ walk \in Walk

Passed(p, c) == ~Before(Key(walk.source, p), Key(walk.source, c))

\* Whatever is published, pushed, deleted or dropped in between and however the page is
\* ordered, no post is skipped: each one that could be read since the walk began has been
\* shown once the cursor is at it or past it.
NothingSkipped ==
    (walk.pc \in {"page", "posts"} /\ walk.cursor # NoPost) =>
      \A p \in walk.steady : Passed(p, walk.cursor) => p \in walk.shown

\* When a page without a cursor has ended the walk, everything that could be read since
\* it began has been shown, if the page was asked for with a positive limit and was not
\* one of deleted posts only.
EndedIsComplete ==
    (walk.pc = "ended" /\ walk.limit > 0 /\ ~walk.blank) => walk.steady \subseteq walk.shown

\* Every page hands out a cursor further down than the one it was asked for with, or none:
\* no client is sent round in a circle or kept where it is, in whatever order the posts of a
\* page come and whatever is published between two pages.
CursorDescends ==
    (walk.from # NoPost /\ walk.cursor # NoPost) => ~Passed(walk.cursor, walk.from)

\* A page of an author's posts repeats nothing that the walk has shown before it.
AuthorPagesDisjoint == walk.source = "author" => walk.page \cap walk.before = {}

-----------------------------------------------------------------------------
(* What a comment says and the code does not do.                           *)

\* postCacheWrapper.go:121: "Sort posts to match the order of the input ids". The cursor
\* then names the oldest post of the page. The code returns the posts unsorted.
PageInOrder ==
    walk.page # {} => walk.cursor \in Lowest(walk.source, walk.page)
=============================================================================
