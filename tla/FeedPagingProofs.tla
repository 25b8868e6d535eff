-------------------------- MODULE FeedPagingProofs --------------------------
(***************************************************************************)
(* FeedPaging for any posts, creation times and limits: nothing is skipped *)
(* and cursors descend, from an invariant that says which posts the ids    *)
(* in hand may leave out.                                                  *)
(***************************************************************************)
EXTENDS FeedPaging, FiniteSetTheorems, TLAPS

\* What could be read since the walk began still can.
SteadyInv ==
    /\ walk.steady \subseteq Live
    /\ walk.source = "feed" => walk.steady \subseteq feed

\* The ids in hand come after the cursor, and a steady post that comes after it, too, is
\* one of them or comes after all of them.
IdsInv ==
    walk.pc = "posts" =>
      /\ walk.source = "feed"
      /\ walk.cursor # NoPost => \A i \in walk.ids : ~Passed(i, walk.cursor)
      /\ \A p \in walk.steady :
           \/ walk.cursor # NoPost /\ Passed(p, walk.cursor)
           \/ p \in walk.ids
           \/ walk.ids # {} /\ \A i \in walk.ids : ~Passed(p, i)

\* What an author's walk has shown is passed.
ShownInv ==
    (walk.pc = "page" /\ walk.source = "author") =>
      \A p \in walk.shown : walk.cursor # NoPost /\ Passed(p, walk.cursor)

IInv == TypeOK /\ SteadyInv /\ IdsInv /\ ShownInv /\ NothingSkipped /\ EndedIsComplete

-----------------------------------------------------------------------------
(* The order of the keys.                                                  *)

\* A key is a pair of integers,
LEMMA KeyType ==
  ASSUME NEW s \in Sources, NEW p \in Posts
  PROVE  Key(s, p) \in Int \X Int
<1>1. CreatedAt[p] \in Int /\ p \in Int /\ Milli \in Int /\ Milli > 0
  BY ConstantsAssumption
<1>2. CreatedAt[p] \div Milli \in Int
  BY <1>1
<1>3. QED
  BY <1>1, <1>2 DEF Key

\* of which the second is the id.
LEMMA KeyId ==
  ASSUME NEW s \in Sources, NEW p \in Posts
  PROVE  Key(s, p)[2] = p
BY DEF Key

\* Before is a strict order of pairs of integers, and total.
LEMMA BeforeOrder ==
  ASSUME NEW k \in Int \X Int, NEW l \in Int \X Int, NEW n \in Int \X Int
  PROVE  /\ ~Before(k, k)
         /\ Before(k, l) => ~Before(l, k)
         /\ (Before(k, l) /\ Before(l, n)) => Before(k, n)
         /\ (~Before(k, l) /\ k[2] # l[2]) => Before(l, k)
         /\ (~Before(k, l) /\ ~Before(l, n)) => ~Before(k, n)
BY DEF Before

\* The same of posts in a walk.
LEMMA PassedOrder ==
  ASSUME walk.source \in Sources, NEW p \in Posts, NEW q \in Posts, NEW r \in Posts
  PROVE  /\ Passed(p, p)
         /\ ~Passed(p, q) => Passed(q, p)
         /\ (Passed(p, q) /\ Passed(q, r)) => Passed(p, r)
         /\ (~Passed(p, q) /\ ~Passed(q, r)) => ~Passed(p, r)
         /\ (Passed(p, q) /\ p # q) => ~Passed(q, p)
<1>1. /\ Key(walk.source, p) \in Int \X Int
      /\ Key(walk.source, q) \in Int \X Int
      /\ Key(walk.source, r) \in Int \X Int
      /\ Key(walk.source, p)[2] = p
      /\ Key(walk.source, q)[2] = q
  BY KeyType, KeyId
<1> DEFINE a == Key(walk.source, p)
           b == Key(walk.source, q)
           c == Key(walk.source, r)
<1>2. /\ ~Before(a, a)
      /\ Before(a, b) => ~Before(b, a)
      /\ (Before(a, b) /\ Before(b, c)) => Before(a, c)
      /\ (~Before(a, b) /\ a[2] # b[2]) => Before(b, a)
      /\ (~Before(a, b) /\ ~Before(b, c)) => ~Before(a, c)
  BY <1>1, BeforeOrder
<1>3. QED
  BY <1>1, <1>2 DEF Passed

\* The fields of a walk.
LEMMA WalkType ==
  ASSUME TypeOK
  PROVE  /\ walk.pc \in {"idle", "page", "posts", "ended"}
         /\ walk.source \in Sources
         /\ walk.limit \in Limits \cup {1}
         /\ walk.cursor \in Posts \cup {NoPost}
         /\ walk.ids \in SUBSET Posts
         /\ walk.page \in SUBSET Posts
         /\ walk.from \in Posts \cup {NoPost}
         /\ walk.before \in SUBSET Posts
         /\ walk.shown \in SUBSET Posts
         /\ walk.steady \in SUBSET Posts
         /\ walk.blank \in BOOLEAN
BY DEF TypeOK, Walk

\* An empty page has nothing left to read.
LEMMA EmptyPage ==
  ASSUME NEW s, NEW S, NEW n \in Int, n > 0, NewestOf(s, S, n, {})
  PROVE  S = {}
<1>1. Cardinality({}) = 0
  BY FS_EmptySet
<1>2. QED
  BY <1>1 DEF NewestOf

-----------------------------------------------------------------------------
(* Answering a page.                                                       *)

\* A new walk has the type of walks.
LEMMA NewWalkType ==
  ASSUME NEW s \in Sources, NEW S \in SUBSET Posts
  PROVE  NewWalk(s, S) \in Walk
BY DEF NewWalk, Walk

\* A walk that is shown a page keeps its type.
LEMMA ShowType ==
  ASSUME TypeOK, NEW found \in SUBSET Posts, NEW last, NEW n \in Limits \cup {1},
         found # {} => last \in Posts, Show(found, last, n)
  PROVE  walk' \in Walk
<1>1. walk \in Walk
  BY DEF TypeOK
<1>2. (found = {} /\ walk.ids # {}) \in BOOLEAN
  OBVIOUS
<1>3. (IF found = {} THEN NoPost ELSE last) \in Posts \cup {NoPost}
  OBVIOUS
<1>4. walk.shown \cup found \in SUBSET Posts
  BY <1>1 DEF Walk
<1>5. (IF found = {} THEN "ended" ELSE "page") \in {"idle", "page", "posts", "ended"}
  OBVIOUS
<1> DEFINE pc == IF found = {} THEN "ended" ELSE "page"
           cursor == IF found = {} THEN NoPost ELSE last
           shown == walk.shown \cup found
           blank == (found = {} /\ walk.ids # {})
<1>6. walk' = [walk EXCEPT !.pc = pc, !.limit = n, !.cursor = cursor, !.ids = {},
                           !.page = found, !.from = walk.cursor, !.before = walk.shown,
                           !.shown = shown, !.blank = blank]
  BY DEF Show
<1>7. pc \in {"idle", "page", "posts", "ended"} /\ cursor \in Posts \cup {NoPost}
      /\ shown \in SUBSET Posts /\ blank \in BOOLEAN
  BY <1>2, <1>3, <1>4, <1>5
<1> HIDE DEF pc, cursor, shown, blank
<1>8. QED
  BY <1>1, <1>6, <1>7 DEF Walk

\* What Show changes and what it leaves.
LEMMA ShowFields ==
  ASSUME TypeOK, NEW found, NEW last, NEW n, Show(found, last, n)
  PROVE  /\ walk'.pc = IF found = {} THEN "ended" ELSE "page"
         /\ walk'.source = walk.source
         /\ walk'.limit = n
         /\ walk'.cursor = IF found = {} THEN NoPost ELSE last
         /\ walk'.ids = {}
         /\ walk'.page = found
         /\ walk'.from = walk.cursor
         /\ walk'.before = walk.shown
         /\ walk'.shown = walk.shown \cup found
         /\ walk'.steady = walk.steady
         /\ walk'.blank = (found = {} /\ walk.ids # {})
BY DEF Show, TypeOK, Walk

-----------------------------------------------------------------------------
(* Type correctness.                                                       *)

\* The initial states satisfy the invariant.
LEMMA InitInv == Init => IInv
<1> SUFFICES ASSUME Init PROVE IInv
  OBVIOUS
<1>1. NewWalk("feed", {}) \in Walk
  BY NewWalkType DEF Sources
<1>2. walk \in Walk /\ walk.pc = "idle" /\ walk.steady = {}
  BY <1>1 DEF Init, NewWalk, Walk
<1>3. TypeOK
  BY <1>2 DEF Init, TypeOK
<1>4. QED
  BY <1>2, <1>3 DEF IInv, SteadyInv, IdsInv, ShownInv, NothingSkipped, EndedIsComplete

\* A page that is answered from ids or rows of the posts.
LEMMA ReadsType ==
  ASSUME TypeOK, ReadPosts \/ \E n \in Limits : ReadAuthor(n)
  PROVE  walk' \in Walk
<1>1. CASE ReadPosts
  <2>1. PICK stale \in SUBSET (walk.ids \ Live), missed \in SUBSET (walk.ids \cap Live) :
          LET found == stale \cup (walk.ids \cap Live)
          IN  IF found = {} THEN Show({}, NoPost, walk.limit)
              ELSE \E last \in (IF missed = {} THEN Lowest("feed", found) ELSE missed) :
                     Show(found, last, walk.limit)
    BY <1>1 DEF ReadPosts
  <2> DEFINE found == stale \cup (walk.ids \cap Live)
  <2>2. found \in SUBSET Posts /\ walk.limit \in Limits \cup {1}
    BY WalkType
  <2>3. CASE found = {}
    <3>1. Show({}, NoPost, walk.limit)
      BY <2>1, <2>3
    <3>2. QED
      BY <3>1, <2>2, ShowType
  <2>4. CASE found # {}
    <3>1. PICK last \in (IF missed = {} THEN Lowest("feed", found) ELSE missed) :
            Show(found, last, walk.limit)
      BY <2>1, <2>4
    <3>2. last \in Posts
      <4>1. last \in found \/ last \in walk.ids
        BY <3>1 DEF Lowest
      <4>2. QED
        BY <4>1, <2>2, WalkType
    <3>3. QED
      BY <3>1, <3>2, <2>2, ShowType
  <2>5. QED
    BY <2>3, <2>4
<1>2. ASSUME NEW n \in Limits, ReadAuthor(n)
      PROVE  walk' \in Walk
  <2>1. PICK T \in SUBSET Live :
          /\ NewestOf("author", Rest("author", Live, walk.cursor), n, T)
          /\ IF T = {} THEN Show({}, NoPost, n)
             ELSE \E last \in Lowest("author", T) : Show(T, last, n)
    BY <1>2 DEF ReadAuthor
  <2>2. T \in SUBSET Posts
    BY DEF Live
  <2>3. CASE T = {}
    BY <2>1, <2>2, <2>3, ShowType
  <2>4. CASE T # {}
    <3>1. PICK last \in Lowest("author", T) : Show(T, last, n)
      BY <2>1, <2>4
    <3>2. QED
      BY <3>1, <2>2, ShowType DEF Lowest
  <2>5. QED
    BY <2>3, <2>4
<1>3. QED
  BY <1>1, <1>2

\* Every step keeps the types.
LEMMA TypeStep == TypeOK /\ [Next]_vars => TypeOK'
<1> SUFFICES ASSUME TypeOK, [Next]_vars PROVE TypeOK'
  OBVIOUS
<1>1. walk \in Walk /\ feed \in SUBSET Posts /\ Live \in SUBSET Posts
  BY DEF TypeOK, Live
<1>2. CASE UNCHANGED vars
  BY <1>2 DEF vars, TypeOK
<1>3. ASSUME NEW p \in Posts, AddPost(p) \/ PushToFeed(p) \/ RemoveFromFeed(p)
      PROVE  TypeOK'
  BY <1>3 DEF AddPost, PushToFeed, RemoveFromFeed, TypeOK
<1>4. ASSUME NEW p \in Posts, RemovePost(p)
      PROVE  TypeOK'
  <2>1. walk' \in Walk
    BY <1>1, <1>4 DEF RemovePost, Walk
  <2>2. QED
    BY <2>1, <1>4 DEF RemovePost, TypeOK
<1>5. CASE LoseFeed
  <2>1. walk' \in Walk
    BY <1>1, <1>5 DEF LoseFeed, Walk
  <2>2. QED
    BY <2>1, <1>5 DEF LoseFeed, TypeOK
<1>6. ASSUME NEW s \in Sources, Start(s)
      PROVE  TypeOK'
  <2>1. walk' \in Walk
    BY <1>1, <1>6, NewWalkType DEF Start
  <2>2. QED
    BY <2>1, <1>6 DEF Start, TypeOK
<1>7. ASSUME NEW n \in Limits, ReadFeed(n)
      PROVE  TypeOK'
  <2>1. walk' \in Walk
    BY <1>1, <1>7 DEF ReadFeed, Walk
  <2>2. QED
    BY <2>1, <1>7 DEF ReadFeed, TypeOK
<1>8. ASSUME NEW n \in Limits, ReadAuthor(n)
      PROVE  TypeOK'
  BY <1>8, ReadsType DEF ReadAuthor, TypeOK
<1>9. CASE ReadPosts
  <2>1. walk' \in Walk
    BY <1>9, ReadsType
  <2>2. QED
    BY <2>1, <1>9 DEF ReadPosts, TypeOK
<1>10. CASE ReadFailed
  <2>1. walk' \in Walk
    BY <1>1, <1>10 DEF ReadFailed, Walk
  <2>2. QED
    BY <2>1, <1>10 DEF ReadFailed, TypeOK
<1>11. QED
  BY <1>2, <1>3, <1>4, <1>5, <1>6, <1>7, <1>8, <1>9, <1>10 DEF Next

-----------------------------------------------------------------------------
(* The invariant.                                                          *)

\* Steps that leave the walk alone, or take posts out of what is steady.
LEMMA Shrink ==
  ASSUME IInv, NEW T \in SUBSET walk.steady, walk' = [walk EXCEPT !.steady = T]
  PROVE  /\ walk'.pc = walk.pc /\ walk'.source = walk.source /\ walk'.steady = T
         /\ IdsInv' /\ ShownInv' /\ NothingSkipped' /\ EndedIsComplete'
<1>1. /\ walk'.pc = walk.pc
      /\ walk'.source = walk.source
      /\ walk'.limit = walk.limit
      /\ walk'.cursor = walk.cursor
      /\ walk'.ids = walk.ids
      /\ walk'.shown = walk.shown
      /\ walk'.steady = T
      /\ walk'.blank = walk.blank
  BY DEF IInv, TypeOK, Walk
<1>2. QED
  BY <1>1 DEF IInv, IdsInv, ShownInv, NothingSkipped, EndedIsComplete, Passed

\* What a page must contain for the invariant to survive it: each steady post that comes
\* after the cursor, unless it comes after the whole page.
Covers(found, n) ==
    /\ \A p \in walk.steady :
         \/ walk.cursor # NoPost /\ Passed(p, walk.cursor)
         \/ p \in found
         \/ \A i \in found : ~Passed(p, i)
    /\ (found = {} /\ n > 0 /\ walk.ids = {}) =>
         \A p \in walk.steady : walk.cursor # NoPost /\ Passed(p, walk.cursor)

\* A page that holds all that is left down to its cursor keeps NothingSkipped and EndedIsComplete.
LEMMA PageShown ==
  ASSUME IInv, walk.pc \in {"page", "posts"},
         NEW found \in SUBSET Posts, NEW last, NEW n \in Int,
         Show(found, last, n), Covers(found, n), found # {} => last \in found
  PROVE  IdsInv' /\ NothingSkipped' /\ EndedIsComplete'
<1>1. TypeOK
  BY DEF IInv
<1>2. walk'.pc = (IF found = {} THEN "ended" ELSE "page") /\ walk'.source = walk.source
  BY <1>1, ShowFields
<1>3. /\ walk'.limit = n
      /\ walk'.cursor = (IF found = {} THEN NoPost ELSE last)
      /\ walk'.shown = walk.shown \cup found
      /\ walk'.steady = walk.steady
      /\ walk'.blank = (found = {} /\ walk.ids # {})
  BY <1>1, ShowFields
<1>4. \A p \in walk.steady : walk.cursor # NoPost /\ Passed(p, walk.cursor) => p \in walk.shown
  BY DEF IInv, NothingSkipped
<1>5. \A p, q : Passed(p, q)' <=> Passed(p, q)
  BY <1>2 DEF Passed
<1>6. IdsInv'
  BY <1>2 DEF IdsInv
<1>7. NothingSkipped'
  BY <1>2, <1>3, <1>4, <1>5 DEF NothingSkipped, Covers
<1>8. EndedIsComplete'
  BY <1>2, <1>3, <1>4 DEF EndedIsComplete, Covers
<1>9. QED
  BY <1>6, <1>7, <1>8

\* The answer to ReadPosts.
LEMMA ReadPostsPage ==
  ASSUME IInv, ReadPosts
  PROVE  \E found \in SUBSET walk.ids, last \in Posts \cup {NoPost} :
           /\ Show(found, last, walk.limit)
           /\ walk.ids \cap Live \subseteq found
           /\ found # {} => last \in found
<1>1. PICK stale \in SUBSET (walk.ids \ Live), missed \in SUBSET (walk.ids \cap Live) :
        LET found == stale \cup (walk.ids \cap Live)
        IN  IF found = {} THEN Show({}, NoPost, walk.limit)
            ELSE \E last \in (IF missed = {} THEN Lowest("feed", found) ELSE missed) :
                   Show(found, last, walk.limit)
  BY DEF ReadPosts
<1> DEFINE found == stale \cup (walk.ids \cap Live)
<1>2. found \in SUBSET walk.ids
  OBVIOUS
<1>3. CASE found = {}
  <2>1. Show(found, NoPost, walk.limit)
    BY <1>1, <1>3
  <2>2. QED
    BY <2>1, <1>2, <1>3
<1>4. CASE found # {}
  <2>1. PICK last \in (IF missed = {} THEN Lowest("feed", found) ELSE missed) :
          Show(found, last, walk.limit)
    BY <1>1, <1>4
  <2>2. last \in found
    BY <2>1 DEF Lowest
  <2>3. last \in Posts
    BY <2>2, <1>2, WalkType DEF IInv
  <2>4. QED
    BY <2>1, <2>2, <2>3, <1>2
<1>5. QED
  BY <1>3, <1>4

\* A page of the feed keeps the invariant, in whatever order its posts come.
LEMMA ReadPostsInv ==
  ASSUME IInv, ReadPosts
  PROVE  IdsInv' /\ ShownInv' /\ NothingSkipped' /\ EndedIsComplete'
<1>1. PICK found \in SUBSET walk.ids, last \in Posts \cup {NoPost} :
        /\ Show(found, last, walk.limit)
        /\ walk.ids \cap Live \subseteq found
        /\ found # {} => last \in found
  BY ReadPostsPage
<1>2. walk.pc = "posts" /\ walk.source = "feed" /\ walk.steady \subseteq Live
  BY DEF ReadPosts, IInv, IdsInv, SteadyInv
<1>3. Covers(found, walk.limit)
  <2>1. \A p \in walk.steady :
          \/ walk.cursor # NoPost /\ Passed(p, walk.cursor)
          \/ p \in walk.ids
          \/ walk.ids # {} /\ \A i \in walk.ids : ~Passed(p, i)
    BY <1>2 DEF IInv, IdsInv
  <2>2. QED
    BY <2>1, <1>1, <1>2 DEF Covers
<1>4. found \in SUBSET Posts /\ walk.limit \in Int
  <2>1. walk.ids \in SUBSET Posts /\ walk.limit \in Limits \cup {1}
    BY WalkType DEF IInv
  <2>2. found \in SUBSET Posts
    BY <1>1, <2>1
  <2>3. Limits \subseteq Int
    BY ConstantsAssumption
  <2>4. walk.limit \in Int
    <3>1. CASE walk.limit \in Limits
      BY <2>3, <3>1
    <3>2. CASE walk.limit = 1
      BY <3>2
    <3>3. QED
      BY <2>1, <3>1, <3>2
  <2>5. QED
    BY <2>2, <2>4
<1>5. IdsInv' /\ NothingSkipped' /\ EndedIsComplete'
  BY <1>1, <1>2, <1>3, <1>4, PageShown
<1>6. walk'.source = "feed"
  BY <1>1, <1>2, ShowFields DEF IInv
<1>7. QED
  BY <1>5, <1>6 DEF ShownInv

\* The answer to ReadAuthor.
LEMMA ReadAuthorPage ==
  ASSUME IInv, NEW n \in Limits, ReadAuthor(n)
  PROVE  \E T \in SUBSET Live, last \in Posts \cup {NoPost} :
           /\ Show(T, last, n)
           /\ NewestOf("author", Rest("author", Live, walk.cursor), n, T)
           /\ T # {} => last \in Lowest("author", T)
<1>1. PICK T \in SUBSET Live :
        /\ NewestOf("author", Rest("author", Live, walk.cursor), n, T)
        /\ IF T = {} THEN Show({}, NoPost, n)
           ELSE \E last \in Lowest("author", T) : Show(T, last, n)
  BY DEF ReadAuthor
<1>2. CASE T = {}
  <2>1. Show(T, NoPost, n)
    BY <1>1, <1>2
  <2>2. NoPost \in Posts \cup {NoPost}
    OBVIOUS
  <2>3. QED
    BY <1>1, <1>2, <2>1, <2>2
<1>3. CASE T # {}
  <2>1. PICK last \in Lowest("author", T) : Show(T, last, n)
    BY <1>1, <1>3
  <2>2. last \in Posts
    BY <2>1 DEF Lowest, Live
  <2>3. QED
    BY <1>1, <2>1, <2>2, <1>3
<1>4. QED
  BY <1>2, <1>3

\* A page of an author keeps the invariant.
LEMMA ReadAuthorInv ==
  ASSUME IInv, NEW n \in Limits, ReadAuthor(n)
  PROVE  IdsInv' /\ ShownInv' /\ NothingSkipped' /\ EndedIsComplete'
<1>1. PICK T \in SUBSET Live, last \in Posts \cup {NoPost} :
        /\ Show(T, last, n)
        /\ NewestOf("author", Rest("author", Live, walk.cursor), n, T)
        /\ T # {} => last \in Lowest("author", T)
  BY ReadAuthorPage
<1>2. walk.pc = "page" /\ walk.source = "author" /\ walk.steady \subseteq Live
  BY DEF ReadAuthor, IInv, SteadyInv
<1>3. n \in Int /\ T \in SUBSET Posts /\ (T # {} => last \in T)
  BY <1>1, ConstantsAssumption DEF Live, Lowest
<1>4. \A p, q : Below("author", p, q) <=> ~Passed(p, q)
  BY <1>2 DEF Below, Passed
<1>5. Covers(T, n)
  <2>1. \A p \in walk.steady :
          \/ walk.cursor # NoPost /\ Passed(p, walk.cursor)
          \/ p \in Rest("author", Live, walk.cursor)
    BY <1>2, <1>4 DEF Rest
  <2>2. \A p \in Rest("author", Live, walk.cursor) \ T : \A i \in T : ~Passed(p, i)
    BY <1>1, <1>4 DEF NewestOf
  <2>3. (T = {} /\ n > 0) => Rest("author", Live, walk.cursor) = {}
    BY <1>1, <1>3, EmptyPage
  <2>4. QED
    BY <2>1, <2>2, <2>3 DEF Covers
<1>6. IdsInv' /\ NothingSkipped' /\ EndedIsComplete'
  BY <1>1, <1>2, <1>3, <1>5, PageShown
<1>7. ShownInv'
  <2>1. /\ walk'.pc = (IF T = {} THEN "ended" ELSE "page")
        /\ walk'.source = walk.source
        /\ walk'.cursor = (IF T = {} THEN NoPost ELSE last)
        /\ walk'.shown = walk.shown \cup T
    BY <1>1, ShowFields DEF IInv
  <2>2. \A p, q : Passed(p, q)' <=> Passed(p, q)
    BY <2>1 DEF Passed
  <2>3. ASSUME T # {}, NEW p \in walk.shown \cup T
        PROVE  last # NoPost /\ Passed(p, last)
    <3>1. last \in T /\ last \in Posts /\ p \in Posts
      BY <2>3, <1>3, WalkType DEF IInv
    <3>2. walk.source \in Sources
      BY WalkType DEF IInv
    <3>3. CASE p \in T
      <4>1. p = last \/ ~Passed(last, p)
        BY <1>1, <1>4, <2>3, <3>3 DEF Lowest
      <4>2. QED
        BY <4>1, <3>1, <3>2, PassedOrder, ConstantsAssumption
    <3>4. CASE p \in walk.shown
      <4>1. walk.cursor # NoPost /\ Passed(p, walk.cursor)
        BY <3>4, <1>2 DEF IInv, ShownInv
      <4>2. ~Passed(last, walk.cursor)
        BY <1>1, <1>4, <3>1, <4>1 DEF NewestOf, Rest
      <4>3. walk.cursor \in Posts
        BY <4>1, WalkType DEF IInv
      <4>4. Passed(walk.cursor, last)
        BY <4>2, <4>3, <3>1, <3>2, PassedOrder
      <4>5. QED
        BY <4>1, <4>3, <4>4, <3>1, <3>2, PassedOrder, ConstantsAssumption
    <3>5. QED
      BY <3>3, <3>4
  <2>4. QED
    BY <2>1, <2>2, <2>3 DEF ShownInv
<1>8. QED
  BY <1>6, <1>7

\* The ids of a page leave out only what is passed or comes after all of them.
LEMMA ReadFeedInv ==
  ASSUME IInv, NEW n \in Limits, ReadFeed(n)
  PROVE  IdsInv' /\ ShownInv' /\ NothingSkipped' /\ EndedIsComplete'
<1>1. PICK T \in SUBSET feed :
        /\ IF n > 0 THEN NewestOf("feed", Rest("feed", feed, walk.cursor), n, T)
                    ELSE T = Rest("feed", feed, walk.cursor)
        /\ walk' = [walk EXCEPT !.pc = "posts", !.ids = T, !.limit = n]
  BY DEF ReadFeed
<1>2. /\ walk'.pc = "posts"
      /\ walk'.source = walk.source
      /\ walk'.cursor = walk.cursor
      /\ walk'.ids = T
      /\ walk'.shown = walk.shown
      /\ walk'.steady = walk.steady
  BY <1>1 DEF IInv, TypeOK, Walk
<1>3. walk.pc = "page" /\ walk.source = "feed" /\ walk.steady \subseteq feed /\ n \in Int
  BY ConstantsAssumption DEF ReadFeed, IInv, SteadyInv
<1>4. \A p, q : (Below("feed", p, q) <=> ~Passed(p, q)) /\ (Passed(p, q)' <=> Passed(p, q))
  BY <1>2, <1>3 DEF Below, Passed
<1>5. T \subseteq Rest("feed", feed, walk.cursor)
  BY <1>1 DEF NewestOf
<1>6. T = {} => Rest("feed", feed, walk.cursor) = {}
  BY <1>1, <1>3, EmptyPage
<1>7. \A p \in Rest("feed", feed, walk.cursor) \ T : \A i \in T : ~Passed(p, i)
  BY <1>1, <1>4 DEF NewestOf
<1>8. IdsInv'
  <2>1. walk.cursor # NoPost => \A i \in T : ~Passed(i, walk.cursor)
    BY <1>4, <1>5 DEF Rest
  <2>2. \A p \in walk.steady :
          \/ walk.cursor # NoPost /\ Passed(p, walk.cursor)
          \/ p \in Rest("feed", feed, walk.cursor)
    BY <1>3, <1>4 DEF Rest
  <2>3. QED
    BY <1>2, <1>3, <1>4, <1>6, <1>7, <2>1, <2>2 DEF IdsInv
<1>9. QED
  BY <1>2, <1>3, <1>4, <1>8 DEF IInv, ShownInv, NothingSkipped, EndedIsComplete

\* Every step keeps the invariant.
LEMMA Inductive == IInv /\ [Next]_vars => IInv'
<1> SUFFICES ASSUME IInv, [Next]_vars PROVE IInv'
  OBVIOUS
<1>1. TypeOK /\ TypeOK'
  BY TypeStep DEF IInv
<1>2. walk.steady \subseteq Live /\ (walk.source = "feed" => walk.steady \subseteq feed)
  BY DEF IInv, SteadyInv
<1> DEFINE Rest4 == IdsInv /\ ShownInv /\ NothingSkipped /\ EndedIsComplete
<1>3. CASE UNCHANGED vars
  <2>1. Live' = Live
    BY <1>3 DEF vars, Live
  <2>2. QED
    BY <1>1, <1>3, <2>1 DEF vars, IInv, SteadyInv, IdsInv, ShownInv, NothingSkipped,
                            EndedIsComplete, Passed
<1>4. walk = [walk EXCEPT !.steady = walk.steady]
  BY <1>1 DEF TypeOK, Walk
<1>5. ASSUME NEW p \in Posts, AddPost(p) \/ PushToFeed(p) \/ RemoveFromFeed(p)
      PROVE  IInv'
  <2>1. walk' = [walk EXCEPT !.steady = walk.steady]
    BY <1>4, <1>5 DEF AddPost, PushToFeed, RemoveFromFeed
  <2>2. walk'.source = walk.source /\ walk'.steady = walk.steady /\ Rest4'
    BY <2>1, Shrink
  <2>3. Live \subseteq Live'
    BY <1>1, <1>5 DEF AddPost, PushToFeed, RemoveFromFeed, Live, TypeOK
  <2>4. walk.source = "feed" => walk.steady \subseteq feed'
    BY <1>2, <1>5 DEF AddPost, PushToFeed, RemoveFromFeed, Live
  <2>5. QED
    BY <1>1, <1>2, <2>2, <2>3, <2>4 DEF IInv, SteadyInv
<1>6. ASSUME NEW p \in Posts, RemovePost(p)
      PROVE  IInv'
  <2>1. walk'.source = walk.source /\ walk'.steady = walk.steady \ {p} /\ Rest4'
    BY <1>6, Shrink DEF RemovePost
  <2>2. Live \ {p} \subseteq Live' /\ feed' = feed
    BY <1>1, <1>6 DEF RemovePost, Live, TypeOK
  <2>3. QED
    BY <1>1, <1>2, <2>1, <2>2 DEF IInv, SteadyInv
<1>7. CASE LoseFeed
  <2>1. Live' = Live
    BY <1>7 DEF LoseFeed, Live
  <2>2. CASE walk.source = "feed"
    <3>1. walk' = [walk EXCEPT !.steady = {}]
      BY <1>7, <2>2 DEF LoseFeed
    <3>2. walk'.steady = {} /\ Rest4'
      BY <3>1, Shrink
    <3>3. QED
      BY <1>1, <3>2 DEF IInv, SteadyInv
  <2>3. CASE walk.source # "feed"
    <3>1. walk' = [walk EXCEPT !.steady = walk.steady]
      BY <1>4, <1>7, <2>3 DEF LoseFeed
    <3>2. walk'.source = walk.source /\ walk'.steady = walk.steady /\ Rest4'
      BY <3>1, Shrink
    <3>3. QED
      BY <1>1, <1>2, <2>1, <2>3, <3>2 DEF IInv, SteadyInv
  <2>4. QED
    BY <2>2, <2>3
<1>8. ASSUME NEW s \in Sources, Start(s)
      PROVE  IInv'
  <2>1. /\ walk'.pc = "page" /\ walk'.source = s /\ walk'.cursor = NoPost
        /\ walk'.shown = {}
        /\ walk'.steady = IF s = "feed" THEN feed \cap Live ELSE Live
    BY <1>8 DEF Start, NewWalk
  <2>2. Live' = Live /\ feed' = feed
    BY <1>8 DEF Start, Live
  <2>3. QED
    BY <1>1, <2>1, <2>2 DEF IInv, SteadyInv, IdsInv, ShownInv, NothingSkipped, EndedIsComplete
<1>9. ASSUME NEW n \in Limits, ReadFeed(n)
      PROVE  IInv'
  <2>1. Live' = Live /\ feed' = feed /\ walk'.source = walk.source /\ walk'.steady = walk.steady
    BY <1>1, <1>9 DEF ReadFeed, Live, TypeOK, Walk
  <2>2. QED
    BY <1>1, <1>2, <1>9, <2>1, ReadFeedInv DEF IInv, SteadyInv
<1>10. ASSUME NEW n \in Limits, ReadAuthor(n)
       PROVE  IInv'
  <2>1. walk'.source = walk.source /\ walk'.steady = walk.steady
    BY <1>1, <1>10, ReadAuthorPage, ShowFields
  <2>2. Live' = Live /\ feed' = feed
    BY <1>10 DEF ReadAuthor, Live
  <2>3. QED
    BY <1>1, <1>2, <1>10, <2>1, <2>2, ReadAuthorInv DEF IInv, SteadyInv
<1>11. CASE ReadPosts
  <2>1. walk'.source = walk.source /\ walk'.steady = walk.steady
    BY <1>1, <1>11, ReadPostsPage, ShowFields
  <2>2. Live' = Live /\ feed' = feed
    BY <1>11 DEF ReadPosts, Live
  <2>3. QED
    BY <1>1, <1>2, <1>11, <2>1, <2>2, ReadPostsInv DEF IInv, SteadyInv
<1>12. CASE ReadFailed
  <2>1. /\ walk'.pc = "page" /\ walk'.source = "feed" /\ walk'.cursor = walk.cursor
        /\ walk'.shown = walk.shown /\ walk'.steady = walk.steady
    BY <1>1, <1>12 DEF ReadFailed, IInv, IdsInv, TypeOK, Walk
  <2>2. Live' = Live /\ feed' = feed /\ walk.source = "feed" /\ walk.pc = "posts"
    BY <1>12 DEF ReadFailed, Live, IInv, IdsInv
  <2>3. QED
    BY <1>1, <1>2, <2>1, <2>2 DEF IInv, SteadyInv, IdsInv, ShownInv, NothingSkipped,
                                  EndedIsComplete, Passed
<1>13. QED
  BY <1>3, <1>5, <1>6, <1>7, <1>8, <1>9, <1>10, <1>11, <1>12 DEF Next

\* The invariant holds for every value of the constants.
THEOREM Invariance == Spec => []IInv
<1>1. Init => IInv
  BY InitInv
<1>2. IInv /\ [Next]_vars => IInv'
  BY Inductive
<1>3. QED
  BY <1>1, <1>2, PTL DEF Spec

-----------------------------------------------------------------------------
(* The properties.                                                         *)

\* The table, the feed and the walk with its cursor keep their types.
THEOREM TypeCorrect == Spec => []TypeOK
<1>1. IInv => TypeOK
  BY DEF IInv
<1>2. QED
  BY <1>1, Invariance, PTL

\* GET /feed and GET /user/{user_id}/posts skip nothing that could be read all the
\* time, for any posts, times, limits and order of the answers.
THEOREM PagesSkipNothing == Spec => []NothingSkipped
<1>1. IInv => NothingSkipped
  BY DEF IInv
<1>2. QED
  BY <1>1, Invariance, PTL

\* A walk that has ended without a cursor is complete.
THEOREM WalksAreComplete == Spec => []EndedIsComplete
<1>1. IInv => EndedIsComplete
  BY DEF IInv
<1>2. QED
  BY <1>1, Invariance, PTL

\* What is said of the latest page.
PageInv == CursorDescends /\ AuthorPagesDisjoint

\* It stays said while no page is shown.
LEMMA PageKept ==
  ASSUME PageInv, walk'.source = walk.source, walk'.cursor = walk.cursor,
         walk'.page = walk.page, walk'.from = walk.from, walk'.before = walk.before
  PROVE  PageInv'
BY DEF PageInv, CursorDescends, AuthorPagesDisjoint, Passed

\* A page that is shown hands out the cursor of a post that the cursor before had not passed,
\* and an author's page holds only such posts, which have not been shown yet.
LEMMA PageStep == IInv /\ PageInv /\ [Next]_vars => PageInv'
<1> SUFFICES ASSUME IInv, PageInv, [Next]_vars PROVE PageInv'
  OBVIOUS
<1>1. TypeOK
  BY DEF IInv
<1>2. CASE UNCHANGED vars
  BY <1>2, PageKept DEF vars
<1>3. ASSUME NEW p \in Posts, AddPost(p) \/ RemovePost(p) \/ PushToFeed(p) \/ RemoveFromFeed(p)
      PROVE  PageInv'
  <2>1. /\ walk'.source = walk.source /\ walk'.cursor = walk.cursor
        /\ walk'.page = walk.page /\ walk'.from = walk.from /\ walk'.before = walk.before
    BY <1>1, <1>3 DEF AddPost, RemovePost, PushToFeed, RemoveFromFeed, TypeOK, Walk
  <2>2. QED
    BY <2>1, PageKept
<1>4. CASE LoseFeed \/ ReadFailed \/ \E n \in Limits : ReadFeed(n)
  <2>1. /\ walk'.source = walk.source /\ walk'.cursor = walk.cursor
        /\ walk'.page = walk.page /\ walk'.from = walk.from /\ walk'.before = walk.before
    BY <1>1, <1>4 DEF LoseFeed, ReadFailed, ReadFeed, TypeOK, Walk
  <2>2. QED
    BY <2>1, PageKept
<1>5. ASSUME NEW s \in Sources, Start(s)
      PROVE  PageInv'
  <2>1. walk'.cursor = NoPost /\ walk'.page = {}
    BY <1>5 DEF Start, NewWalk
  <2>2. QED
    BY <2>1 DEF PageInv, CursorDescends, AuthorPagesDisjoint
<1>6. ASSUME NEW n \in Limits, ReadAuthor(n)
      PROVE  PageInv'
  <2>1. PICK T \in SUBSET Live, last \in Posts \cup {NoPost} :
          /\ Show(T, last, n)
          /\ NewestOf("author", Rest("author", Live, walk.cursor), n, T)
          /\ T # {} => last \in Lowest("author", T)
    BY <1>6, ReadAuthorPage
  <2>2. /\ walk'.cursor = (IF T = {} THEN NoPost ELSE last) /\ walk'.source = walk.source
        /\ walk'.page = T /\ walk'.from = walk.cursor /\ walk'.before = walk.shown
    BY <1>1, <2>1, ShowFields
  <2>3. \A p, q : Passed(p, q)' <=> Passed(p, q)
    BY <2>2 DEF Passed
  <2>4. \A p \in T : walk.cursor = NoPost \/ ~Passed(p, walk.cursor)
    BY <1>6, <2>1 DEF ReadAuthor, NewestOf, Rest, Below, Passed
  <2>5. CursorDescends'
    BY <2>1, <2>2, <2>3, <2>4 DEF CursorDescends, Lowest
  <2>6. \A p \in walk.shown : walk.cursor # NoPost /\ Passed(p, walk.cursor)
    BY <1>6 DEF ReadAuthor, IInv, ShownInv
  <2>7. AuthorPagesDisjoint'
    BY <2>2, <2>4, <2>6 DEF AuthorPagesDisjoint
  <2>8. QED
    BY <2>5, <2>7 DEF PageInv
<1>7. CASE ReadPosts
  <2>1. PICK found \in SUBSET walk.ids, last \in Posts \cup {NoPost} :
          /\ Show(found, last, walk.limit)
          /\ walk.ids \cap Live \subseteq found
          /\ found # {} => last \in found
    BY <1>7, ReadPostsPage
  <2>2. /\ walk'.cursor = (IF found = {} THEN NoPost ELSE last) /\ walk'.source = walk.source
        /\ walk'.from = walk.cursor
    BY <1>1, <2>1, ShowFields
  <2>3. \A p, q : Passed(p, q)' <=> Passed(p, q)
    BY <2>2 DEF Passed
  <2>4. walk.cursor # NoPost => \A i \in walk.ids : ~Passed(i, walk.cursor)
    BY <1>7 DEF ReadPosts, IInv, IdsInv
  <2>5. CursorDescends'
    BY <2>1, <2>2, <2>3, <2>4 DEF CursorDescends
  <2>6. walk'.source = "feed"
    BY <1>7, <2>2 DEF ReadPosts, IInv, IdsInv
  <2>7. QED
    BY <2>5, <2>6 DEF PageInv, AuthorPagesDisjoint
<1>8. QED
  BY <1>2, <1>3, <1>4, <1>5, <1>6, <1>7 DEF Next

\* Every page satisfies what is said of pages.
THEOREM PagesInvariance == Spec => []PageInv
<1>1. Init => PageInv
  BY DEF Init, NewWalk, PageInv, CursorDescends, AuthorPagesDisjoint
<1>2. QED
  BY <1>1, PageStep, Invariance, PTL DEF Spec

\* Every cursor that the server hands out is strictly below the one it was given: no client
\* is sent round in a circle, or kept where it is.
THEOREM CursorsDescend == Spec => []CursorDescends
<1>1. PageInv => CursorDescends
  BY DEF PageInv
<1>2. QED
  BY <1>1, PagesInvariance, PTL

\* No post is shown twice to a client that pages through an author's posts.
THEOREM AuthorPagesAreDisjoint == Spec => []AuthorPagesDisjoint
<1>1. PageInv => AuthorPagesDisjoint
  BY DEF PageInv
<1>2. QED
  BY <1>1, PagesInvariance, PTL
=============================================================================
