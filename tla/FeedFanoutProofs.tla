-------------------------- MODULE FeedFanoutProofs --------------------------
(***************************************************************************)
(* FeedFanout for every value of its constants. The properties are not     *)
(* inductive: they speak of the rows that are marked processed, and a row  *)
(* takes effect earlier, when its push succeeds. The invariant is stated   *)
(* over the rows HANDLED in the present attempt, and adds why a deletion   *)
(* is never handled before the addition it follows: its stamp is later,    *)
(* the batch is closed under earlier stamps and its rows are taken oldest  *)
(* first.                                                                  *)
(***************************************************************************)
EXTENDS FeedFanout, TLAPS

Handled == processed \cup (batch \ todo)

Precedes(f, e) == f.kind = "added" /\ f.post = e.post /\ f.at < e.at

Active(d) == removing[d].pc \in {"begun", "marked"}

\* The rows of the outbox against the table of posts.
RowInv ==
    /\ \A e \in outbox : e.at <= clock
    /\ \A p \in Posts : adding[p] <= clock /\ (adding[p] # 0 => posts[p] = "none")
    /\ \A p \in Posts : posts[p] # "none" =>
         \E e \in outbox : e.kind = "added" /\ e.post = p
    /\ \A e \in outbox : e.kind = "added" => posts[e.post] # "none"
    /\ \A e, f \in outbox :
         (e.kind = "added" /\ f.kind = "added" /\ e.post = f.post) => e = f
    /\ \A e \in outbox : e.kind = "deleted" =>
         posts[e.post] = "deleted" /\ \E f \in outbox : Precedes(f, e)

\* The removals under way: the stamp of each is later than the post's addition
\* and is nobody else's.
RemoverInv ==
    /\ \A d \in Removers :
         /\ removing[d].at <= clock
         /\ removing[d].pc # "idle" =>
              removing[d].post \in Posts /\ posts[removing[d].post] # "none"
         /\ removing[d].pc = "marked" => posts[removing[d].post] = "deleted"
         /\ Active(d) =>
              /\ removing[d].at # 0
              /\ \E f \in outbox : f.kind = "added" /\ f.post = removing[d].post
                                   /\ f.at < removing[d].at
              /\ \A e \in outbox : e.kind = "deleted" => e.at # removing[d].at
    /\ \A c, d \in Removers :
         (Active(c) /\ Active(d) /\ removing[c].at = removing[d].at) => c = d

\* The batch of the processor: it is fetched with the additions its deletions follow, and
\* handled in order.
BatchInv ==
    /\ processed \subseteq outbox
    /\ batch \subseteq outbox
    /\ todo \subseteq batch
    /\ event \subseteq todo
    /\ phase = "mark" => todo = {}
    /\ phase = "idle" => event = {}
    /\ \A e \in event, f \in todo : e.at <= f.at
    /\ \A e \in batch : e.kind = "deleted" =>
         \E f \in batch \cup processed : Precedes(f, e)
    /\ \A e \in Handled : e.kind = "deleted" => \E f \in Handled : Precedes(f, e)
    /\ \A e \in processed : e.kind = "deleted" => \E f \in processed : Precedes(f, e)

\* Nobody else marks what this processor has fetched.
WorkerInv == BatchInv /\ batch \cap processed = {}

\* Who is owed a row still follows its author, and was read with the followers.
OwedInv ==
    \A o \in owed :
      /\ o[1] \in outbox
      /\ <<o[2], Author[o[1].post]>> \in subs
      /\ (phase = "push" /\ o[1] \in event) => o[2] \in targets

\* Delivered and Removed, as soon as a row is handled.
DeliveredInv ==
    \A o \in owed :
      (/\ o[1] \in Handled
       /\ o[1].kind = "added"
       /\ \A f \in outbox : f.kind = "deleted" => f.post # o[1].post)
        => o[1].post \in feed[o[2]]

RemovedInv ==
    \A o \in owed : (o[1] \in Handled /\ o[1].kind = "deleted") => o[1].post \notin feed[o[2]]

\* What a processor maintains that is not alone. (RemovedInv is not among it.)
SharedInv == TypeOK /\ RowInv /\ RemoverInv /\ BatchInv /\ OwedInv /\ DeliveredInv

IInv == SharedInv /\ WorkerInv /\ RemovedInv

-----------------------------------------------------------------------------
(* Type correctness.                                                       *)

\* The initial values have their types.
LEMMA InitType == Init => TypeOK
<1>1. IdleRequest \in Request
  BY ConstantsAssumption DEF IdleRequest, Request
<1>2. QED
  BY <1>1, ConstantsAssumption DEF Init, TypeOK

\* The feeds after a push are sets of posts.
LEMMA FeedsAfterType ==
  ASSUME TypeOK, NEW e \in Event, NEW S \in SUBSET Users
  PROVE  FeedsAfter(e, S) \in [Users -> SUBSET Posts]
BY DEF TypeOK, FeedsAfter, Event

\* What is owed for an event are pairs of an event and a user.
LEMMA OwedNowType ==
  ASSUME NEW e \in Event
  PROVE  OwedNow(e) \subseteq Event \X Users
<1>1. Followers(Author[e.post]) \subseteq Users
  BY DEF Followers
<1>2. ASSUME NEW o \in OwedNow(e) PROVE o \in Event \X Users
  <2>1. PICK u \in Followers(Author[e.post]) : o = <<e, u>>
    BY <1>2 DEF OwedNow
  <2>2. u \in Users
    BY <1>1
  <2>3. QED
    BY <2>1, <2>2
<1>3. QED
  BY <1>2

\* The requests keep the types.
LEMMA RequestsType == TypeOK /\ RemoverInv /\ Requests => TypeOK'
<1> SUFFICES ASSUME TypeOK, RemoverInv, Requests PROVE TypeOK'
  OBVIOUS
<1> USE ConstantsAssumption
<1>1. ASSUME NEW p \in Posts, BeginAdd(p) PROVE TypeOK'
  BY <1>1 DEF TypeOK, BeginAdd, tables, worker
<1>2. ASSUME NEW p \in Posts, CommitAdd(p) PROVE TypeOK'
  <2> DEFINE e == [kind |-> "added", post |-> p, at |-> adding[p]]
  <2>1. e \in Event
    BY <1>2 DEF TypeOK, CommitAdd, Event
  <2>2. OwedNow(e) \subseteq Event \X Users
    BY <2>1, OwedNowType
  <2>3. outbox' = outbox \cup {e} /\ owed' = owed \cup OwedNow(e)
    BY <1>2 DEF CommitAdd
  <2> HIDE DEF e
  <2>4. QED
    BY <1>2, <2>1, <2>2, <2>3 DEF TypeOK, CommitAdd, worker
<1>3. ASSUME NEW p \in Posts, AbortAdd(p) PROVE TypeOK'
  BY <1>3 DEF TypeOK, AbortAdd, tables, worker
<1>4. ASSUME NEW d \in Removers, FindForRemoval(d) PROVE TypeOK'
  BY <1>4 DEF TypeOK, FindForRemoval, tables, worker, Request
<1>5. ASSUME NEW d \in Removers, BeginRemoval(d) PROVE TypeOK'
  <2>1. clock' \in 0..MaxStamp
    BY <1>5 DEF TypeOK, BeginRemoval
  <2>2. [removing[d] EXCEPT !.pc = "begun", !.at = clock'] \in Request
    <3>1. removing[d] \in Request
      BY DEF TypeOK
    <3>2. QED
      BY <2>1, <3>1 DEF Request
  <2>3. removing' = [removing EXCEPT ![d] = [removing[d] EXCEPT !.pc = "begun", !.at = clock']]
    BY <1>5 DEF TypeOK, BeginRemoval
  <2>4. removing' \in [Removers -> Request]
    BY <2>2, <2>3 DEF TypeOK
  <2>5. QED
    BY <1>5, <2>1, <2>4 DEF TypeOK, BeginRemoval, tables, worker
<1>6. ASSUME NEW d \in Removers, MarkDeleted(d) PROVE TypeOK'
  <2>1. posts' \in [Posts -> {"none", "live", "deleted"}]
    BY <1>6 DEF TypeOK, MarkDeleted
  <2>2. [removing[d] EXCEPT !.pc = "marked"] \in Request
    <3>1. removing[d] \in Request
      BY DEF TypeOK
    <3>2. QED
      BY <3>1 DEF Request
  <2>3. removing' \in [Removers -> Request]
    BY <1>6, <2>2 DEF TypeOK, MarkDeleted
  <2>4. QED
    BY <1>6, <2>1, <2>3 DEF TypeOK, MarkDeleted, worker
<1>7. ASSUME NEW d \in Removers, AbortRemoval(d) PROVE TypeOK'
  BY <1>7 DEF TypeOK, AbortRemoval, tables, worker, Request, IdleRequest
<1>8. ASSUME NEW u \in Users, NEW p \in Posts,
             Subscribe(u, Author[p]) \/ Unsubscribe(u, Author[p])
      PROVE  TypeOK'
  BY <1>8 DEF TypeOK, Subscribe, Unsubscribe, requests, worker
<1>9. ASSUME NEW d \in Removers, CommitRemoval(d) PROVE TypeOK'
  <2> DEFINE e == [kind |-> "deleted", post |-> removing[d].post, at |-> removing[d].at]
  <2>1. e \in Event
    BY <1>9 DEF TypeOK, RemoverInv, Active, CommitRemoval, Event, Request
  <2>2. OwedNow(e) \subseteq Event \X Users
    BY <2>1, OwedNowType
  <2>3. outbox' = outbox \cup {e} /\ owed' = owed \cup OwedNow(e)
    BY <1>9 DEF CommitRemoval
  <2> HIDE DEF e
  <2>4. QED
    BY <1>9, <2>1, <2>2, <2>3 DEF TypeOK, CommitRemoval, worker, Request, IdleRequest
<1>10. QED
  BY <1>1, <1>2, <1>3, <1>4, <1>5, <1>6, <1>7, <1>8, <1>9 DEF Requests

\* The processor's steps and its failures keep the types.
LEMMA ProcessorType == TypeOK /\ (Processor \/ Failures) => TypeOK'
<1> SUFFICES ASSUME TypeOK, Processor \/ Failures PROVE TypeOK'
  OBVIOUS
<1> USE ConstantsAssumption
<1>1. CASE Fetch
  BY <1>1 DEF TypeOK, Fetch, Unprocessed, tables, requests
<1>2. CASE ReadSubs
  BY <1>2 DEF TypeOK, ReadSubs, Followers, tables, requests
<1>3. CASE Push
  <2>1. PICK e \in event : feed' = FeedsAfter(e, targets) /\ todo' = todo \ {e}
    BY <1>3 DEF Push
  <2>2. feed' \in [Users -> SUBSET Posts]
    BY <2>1, FeedsAfterType DEF TypeOK
  <2>3. phase' \in {"mark", "subs"}
    BY <1>3 DEF Push
  <2>4. QED
    BY <1>3, <2>1, <2>2, <2>3 DEF TypeOK, Push, tables, requests
<1>4. CASE MarkProcessed
  BY <1>4 DEF TypeOK, MarkProcessed, requests
<1>5. CASE SubsFailed
  BY <1>5 DEF TypeOK, SubsFailed, DropBatch, CountFault, tables, requests
<1>6. CASE PushFailed
  <2>1. PICK e \in event, S \in SUBSET targets : feed' = FeedsAfter(e, S)
    BY <1>6 DEF PushFailed
  <2>2. feed' \in [Users -> SUBSET Posts]
    BY <2>1, FeedsAfterType DEF TypeOK
  <2>3. QED
    BY <1>6, <2>2 DEF TypeOK, PushFailed, DropBatch, CountFault, tables, requests
<1>7. CASE MarkFailed
  BY <1>7 DEF TypeOK, MarkFailed, DropBatch, CountFault, requests
<1>8. CASE Crash
  <2>1. IdleRequest \in Request
    BY DEF IdleRequest, Request
  <2>2. QED
    BY <1>8, <2>1 DEF TypeOK, Crash, DropBatch, CountFault, tables
<1>9. ASSUME NEW u \in Users, LoseFeed(u) PROVE TypeOK'
  BY <1>9 DEF TypeOK, LoseFeed, tables, requests, worker
<1>10. QED
  BY <1>1, <1>2, <1>3, <1>4, <1>5, <1>6, <1>7, <1>8, <1>9 DEF Processor, Failures

\* A step that changes nothing keeps the types.
LEMMA StutterType == TypeOK /\ UNCHANGED vars => TypeOK'
BY DEF TypeOK, vars, tables, requests, worker

-----------------------------------------------------------------------------
(* The rows of the outbox and the requests that write them.                *)

\* What a step does to the tables and the requests: it is a request's step, a crash,
\* or it leaves both alone, but for processed and the subscriptions.
LEMMA RequestSteps ==
  ASSUME [Next]_vars
  PROVE  \/ \E p \in Posts : BeginAdd(p) \/ CommitAdd(p) \/ AbortAdd(p)
         \/ \E d \in Removers :
              \/ FindForRemoval(d) \/ BeginRemoval(d) \/ MarkDeleted(d)
              \/ CommitRemoval(d) \/ AbortRemoval(d)
         \/ Crash
         \/ UNCHANGED <<posts, outbox, clock, adding, removing>>
BY DEF Next, Requests, Processor, Failures, Subscribe, Unsubscribe, Fetch, ReadSubs, Push,
       MarkProcessed, SubsFailed, PushFailed, MarkFailed, LoseFeed, vars, tables, requests

\* An addition that is under way has no row yet, of any kind.
LEMMA OpenAdditionHasNoRow ==
  ASSUME TypeOK, RowInv, NEW p \in Posts, adding[p] # 0
  PROVE  \A e \in outbox : e.post # p
BY DEF TypeOK, RowInv, Event

\* Every step keeps the rows in agreement with the posts.
LEMMA RowStep == TypeOK /\ RowInv /\ RemoverInv /\ [Next]_vars => RowInv'
<1> SUFFICES ASSUME TypeOK, RowInv, RemoverInv, [Next]_vars PROVE RowInv'
  OBVIOUS
<1> USE ConstantsAssumption
<1>1. ASSUME NEW p \in Posts, BeginAdd(p) PROVE RowInv'
  BY <1>1 DEF TypeOK, RowInv, BeginAdd, tables, Event, Precedes
<1>2. ASSUME NEW p \in Posts, CommitAdd(p) PROVE RowInv'
  <2> DEFINE e == [kind |-> "added", post |-> p, at |-> adding[p]]
  <2>1. \A f \in outbox : f.post # p
    BY <1>2, OpenAdditionHasNoRow DEF CommitAdd
  <2>2. /\ outbox' = outbox \cup {e}
        /\ posts' = [posts EXCEPT ![p] = "live"]
        /\ adding' = [adding EXCEPT ![p] = 0]
        /\ clock' = clock
    BY <1>2 DEF CommitAdd
  <2>3. e.kind = "added" /\ e.post = p /\ e.at = adding[p] /\ e.at <= clock
    BY DEF RowInv
  <2> HIDE DEF e
  <2>4. \A f \in outbox' : f.at <= clock'
    BY <2>2, <2>3 DEF RowInv
  <2>5. \A q \in Posts : adding'[q] <= clock' /\ (adding'[q] # 0 => posts'[q] = "none")
    BY <2>2 DEF RowInv, TypeOK
  <2>6. \A q \in Posts : posts'[q] # "none" =>
          \E f \in outbox' : f.kind = "added" /\ f.post = q
    BY <2>2, <2>3 DEF RowInv, TypeOK
  <2>7. \A f \in outbox' : f.kind = "added" => posts'[f.post] # "none"
    BY <2>1, <2>2, <2>3 DEF RowInv, TypeOK, Event
  <2>8. \A f, g \in outbox' :
          (f.kind = "added" /\ g.kind = "added" /\ f.post = g.post) => f = g
    BY <2>1, <2>2, <2>3 DEF RowInv
  <2>9. \A f \in outbox' : f.kind = "deleted" =>
          posts'[f.post] = "deleted" /\ \E g \in outbox' : Precedes(g, f)
    BY <2>1, <2>2, <2>3 DEF RowInv, TypeOK, Event, Precedes
  <2>10. QED
    BY <2>4, <2>5, <2>6, <2>7, <2>8, <2>9 DEF RowInv, Precedes
<1>3. ASSUME NEW p \in Posts, AbortAdd(p) PROVE RowInv'
  BY <1>3 DEF TypeOK, RowInv, AbortAdd, tables, Precedes
<1>4. ASSUME NEW d \in Removers, FindForRemoval(d) \/ AbortRemoval(d) PROVE RowInv'
  BY <1>4 DEF RowInv, FindForRemoval, AbortRemoval, tables, Precedes
<1>5. ASSUME NEW d \in Removers, BeginRemoval(d) PROVE RowInv'
  BY <1>5 DEF TypeOK, RowInv, BeginRemoval, tables, Event, Precedes
<1>6. ASSUME NEW d \in Removers, MarkDeleted(d) PROVE RowInv'
  <2>1. posts' = [posts EXCEPT ![removing[d].post] = "deleted"]
        /\ UNCHANGED <<outbox, clock, adding>>
    BY <1>6 DEF MarkDeleted
  <2>2. posts[removing[d].post] # "none" /\ removing[d].post \in Posts
    BY <1>6 DEF MarkDeleted, RemoverInv
  <2>3. QED
    BY <2>1, <2>2 DEF TypeOK, RowInv, Event, Precedes
<1>7. ASSUME NEW d \in Removers, CommitRemoval(d) PROVE RowInv'
  <2> DEFINE e == [kind |-> "deleted", post |-> removing[d].post, at |-> removing[d].at]
  <2>1. outbox' = outbox \cup {e} /\ UNCHANGED <<posts, clock, adding>>
    BY <1>7 DEF CommitRemoval
  <2>2. /\ e.kind = "deleted" /\ e.at <= clock
        /\ posts[e.post] = "deleted" /\ \E f \in outbox : Precedes(f, e)
    BY <1>7 DEF CommitRemoval, RemoverInv, Active, Precedes
  <2> HIDE DEF e
  <2>3. QED
    BY <2>1, <2>2 DEF RowInv, Precedes
<1>8. CASE Crash
  BY <1>8 DEF TypeOK, RowInv, Crash, tables, Precedes
<1>9. CASE UNCHANGED <<posts, outbox, clock, adding, removing>>
  BY <1>9 DEF RowInv, Precedes
<1>10. QED
  BY <1>1, <1>2, <1>3, <1>4, <1>5, <1>6, <1>7, <1>8, <1>9, RequestSteps

\* Every step keeps what the removals know.
LEMMA RemoverStep == TypeOK /\ RowInv /\ RemoverInv /\ [Next]_vars => RemoverInv'
<1> SUFFICES ASSUME TypeOK, RowInv, RemoverInv, [Next]_vars PROVE RemoverInv'
  OBVIOUS
<1> USE ConstantsAssumption
<1>1. ASSUME NEW p \in Posts, BeginAdd(p) \/ AbortAdd(p) PROVE RemoverInv'
  <2>1. UNCHANGED <<posts, outbox, removing>>
    BY <1>1 DEF BeginAdd, AbortAdd, tables
  <2>2. clock' \in {clock, clock + 1} /\ clock \in Nat
    BY <1>1 DEF BeginAdd, AbortAdd, TypeOK
  <2>3. \A d \in Removers : removing[d].at <= clock'
    <3>1. \A d \in Removers : removing[d].at <= clock /\ removing[d].at \in Nat
      BY DEF RemoverInv, TypeOK, Request
    <3>2. QED
      BY <2>2, <3>1
  <2>4. QED
    BY <2>1, <2>3 DEF RemoverInv, Active
<1>2. ASSUME NEW p \in Posts, CommitAdd(p) PROVE RemoverInv'
  <2>1. PICK e \in Event : outbox' = outbox \cup {e} /\ e.kind = "added"
    BY <1>2, RequestsType DEF CommitAdd, TypeOK, Requests, Event
  <2>2. posts' = [posts EXCEPT ![p] = "live"] /\ UNCHANGED <<clock, removing>>
    BY <1>2 DEF CommitAdd
  <2>3. \A d \in Removers : removing[d].pc # "idle" => removing[d].post # p
    BY <1>2 DEF CommitAdd, RowInv, RemoverInv
  <2>4. QED
    BY <2>1, <2>2, <2>3 DEF TypeOK, RemoverInv, Active
<1>3. ASSUME NEW d \in Removers, FindForRemoval(d) \/ AbortRemoval(d) PROVE RemoverInv'
  <2>1. UNCHANGED <<posts, outbox, clock>>
    BY <1>3 DEF FindForRemoval, AbortRemoval, tables
  <2>2. /\ ~Active(d)' /\ removing'[d].pc # "marked" /\ removing'[d].at = 0
        /\ removing'[d].pc # "idle" =>
             removing'[d].post \in Posts /\ posts[removing'[d].post] # "none"
    BY <1>3 DEF FindForRemoval, AbortRemoval, TypeOK, IdleRequest, Active
  <2>3. \A c \in Removers : c # d => removing'[c] = removing[c]
    BY <1>3 DEF FindForRemoval, AbortRemoval, TypeOK
  <2>4. QED
    BY <2>1, <2>2, <2>3 DEF TypeOK, RemoverInv, Active
<1>4. ASSUME NEW d \in Removers, BeginRemoval(d) PROVE RemoverInv'
  <2>1. /\ UNCHANGED <<posts, outbox>>
        /\ clock' = clock + 1 /\ clock \in Nat
    BY <1>4 DEF BeginRemoval, tables, TypeOK
  <2>2. removing'[d].pc = "begun" /\ removing'[d].at = clock'
        /\ removing'[d].post = removing[d].post
    BY <1>4 DEF BeginRemoval, TypeOK, Request
  <2>3. \A c \in Removers : c # d => removing'[c] = removing[c]
    BY <1>4 DEF BeginRemoval, TypeOK
  <2>4. \A c \in Removers : removing[c].at < clock' /\ removing[c].at \in Nat
    BY <2>1 DEF RemoverInv, TypeOK, Request
  <2>5. \A e \in outbox : e.at < clock' /\ e.at \in Nat
    BY <2>1 DEF RowInv, TypeOK, Event
  <2>6. /\ removing[d].post \in Posts /\ posts[removing[d].post] # "none"
        /\ \E f \in outbox : f.kind = "added" /\ f.post = removing[d].post
    BY <1>4 DEF BeginRemoval, RemoverInv, RowInv
  <2>7. QED
    BY <2>1, <2>2, <2>3, <2>4, <2>5, <2>6 DEF RemoverInv, Active
<1>5. ASSUME NEW d \in Removers, MarkDeleted(d) PROVE RemoverInv'
  <2>1. posts' = [posts EXCEPT ![removing[d].post] = "deleted"]
        /\ UNCHANGED <<outbox, clock>>
    BY <1>5 DEF MarkDeleted
  <2>2. removing[d].post \in Posts /\ Active(d)
    BY <1>5 DEF MarkDeleted, RemoverInv, Active
  <2>3. removing'[d].pc = "marked" /\ removing'[d].at = removing[d].at
        /\ removing'[d].post = removing[d].post
    BY <1>5 DEF MarkDeleted, TypeOK, Request
  <2>4. \A c \in Removers : c # d => removing'[c] = removing[c]
    BY <1>5 DEF MarkDeleted, TypeOK
  <2>5. posts'[removing[d].post] = "deleted"
        /\ \A p \in Posts : posts'[p] # posts[p] => posts'[p] = "deleted"
    BY <2>1, <2>2 DEF TypeOK
  <2>6. QED
    BY <1>5, <2>1, <2>2, <2>3, <2>4, <2>5 DEF RemoverInv, Active, MarkDeleted
<1>6. ASSUME NEW d \in Removers, CommitRemoval(d) PROVE RemoverInv'
  <2>1. /\ UNCHANGED <<posts, clock>>
        /\ \A e \in outbox' : e \in outbox \/ e.at = removing[d].at
        /\ outbox \subseteq outbox'
    BY <1>6 DEF CommitRemoval
  <2>2. Active(d) /\ removing'[d].pc = "idle" /\ removing'[d].at = 0
    BY <1>6 DEF CommitRemoval, Active, TypeOK, IdleRequest
  <2>3. \A c \in Removers : c # d => removing'[c] = removing[c]
    BY <1>6 DEF CommitRemoval, TypeOK
  <2>4. removing'[d].at <= clock' /\ ~Active(d)'
    BY <2>1, <2>2 DEF Active, TypeOK
  <2>5. \A c \in Removers \ {d} : Active(c) => removing[c].at # removing[d].at
    BY <2>2 DEF RemoverInv
  <2>6. \A c \in Removers : Active(c)' => c # d /\ Active(c)
    BY <2>3, <2>4 DEF Active
  <2>7. ASSUME NEW c \in Removers, Active(c)'
        PROVE  \A e \in outbox' : e.kind = "deleted" => e.at # removing'[c].at
    BY <2>1, <2>3, <2>5, <2>6, <2>7 DEF RemoverInv
  <2>8. ASSUME NEW c \in Removers, Active(c)'
        PROVE  /\ removing'[c].at # 0
               /\ \E f \in outbox' : f.kind = "added" /\ f.post = removing'[c].post
                                     /\ f.at < removing'[c].at
    <3>1. Active(c) /\ removing'[c] = removing[c]
      BY <2>3, <2>6, <2>8
    <3>2. QED
      BY <2>1, <3>1 DEF RemoverInv
  <2>9. \A b, c \in Removers :
          (Active(b)' /\ Active(c)' /\ removing'[b].at = removing'[c].at) => b = c
    BY <2>3, <2>6 DEF RemoverInv
  <2>10. \A c \in Removers :
           /\ removing'[c].at <= clock'
           /\ removing'[c].pc # "idle" =>
                removing'[c].post \in Posts /\ posts'[removing'[c].post] # "none"
           /\ removing'[c].pc = "marked" => posts'[removing'[c].post] = "deleted"
    BY <2>1, <2>2, <2>3, <2>4 DEF RemoverInv
  <2>11. QED
    BY <2>7, <2>8, <2>9, <2>10 DEF RemoverInv
<1>7. CASE Crash
  BY <1>7 DEF RemoverInv, Active, Crash, tables, IdleRequest, TypeOK
<1>8. CASE UNCHANGED <<posts, outbox, clock, adding, removing>>
  BY <1>8 DEF RemoverInv, Active
<1>9. QED
  BY <1>1, <1>2, <1>3, <1>4, <1>5, <1>6, <1>7, <1>8, RequestSteps

-----------------------------------------------------------------------------
(* The batch.                                                              *)

\* No row is ever removed from the outbox.
LEMMA OutboxGrows == [Next]_vars => outbox \subseteq outbox'
BY DEF Next, Requests, Processor, Failures, BeginAdd, CommitAdd, AbortAdd, FindForRemoval,
       BeginRemoval, MarkDeleted, CommitRemoval, AbortRemoval, Subscribe, Unsubscribe, Fetch,
       ReadSubs, Push, MarkProcessed, SubsFailed, PushFailed, MarkFailed, Crash, LoseFeed,
       vars, tables

\* The requests do not touch the processor, nor what it has marked.
LEMMA RequestsLeaveWorker == Requests => UNCHANGED <<processed, worker>>
BY DEF Requests, BeginAdd, CommitAdd, AbortAdd, FindForRemoval, BeginRemoval, MarkDeleted,
       CommitRemoval, AbortRemoval, Subscribe, Unsubscribe, tables, worker

\* A batch that is dropped takes with it what was handled but not marked.
LEMMA DroppedBatch ==
  ASSUME BatchInv, DropBatch, processed \subseteq processed',
         processed' \in {processed, Handled}, outbox' = outbox
  PROVE  BatchInv'
<1>1. processed' \subseteq outbox' /\ Handled' = processed'
  BY DEF BatchInv, DropBatch, Handled
<1>2. \A e \in processed' : e.kind = "deleted" => \E f \in processed' : Precedes(f, e)
  BY DEF BatchInv
<1>3. QED
  BY <1>1, <1>2 DEF BatchInv, DropBatch, Precedes

\* Every step keeps the batch in order, and closed under the additions that deletions follow.
LEMMA BatchStep == TypeOK /\ RowInv /\ BatchInv /\ [Next]_vars => BatchInv'
<1> SUFFICES ASSUME TypeOK, RowInv, BatchInv, [Next]_vars PROVE BatchInv'
  OBVIOUS
<1>1. CASE UNCHANGED <<processed, worker>>
  BY <1>1, OutboxGrows DEF BatchInv, Handled, Precedes, worker
<1>2. CASE Fetch
  <2>1. PICK S \in SUBSET Unprocessed : OldestRows(S) /\ batch' = S /\ todo' = S
    BY <1>2 DEF Fetch
  <2>2. UNCHANGED <<processed, outbox, event>> /\ phase' = "subs"
    BY <1>2 DEF Fetch, tables
  <2>3. event = {}
    BY <1>2 DEF Fetch, BatchInv
  <2>4. \A e \in S : e.kind = "deleted" => \E f \in S \cup processed : Precedes(f, e)
    <3> SUFFICES ASSUME NEW e \in S, e.kind = "deleted"
                 PROVE  \E f \in S \cup processed : Precedes(f, e)
      OBVIOUS
    <3>1. PICK f \in outbox : Precedes(f, e)
      BY <2>1 DEF Unprocessed, RowInv
    <3>2. ~(e.at < f.at)
      BY <2>1, <3>1 DEF Precedes, Unprocessed, TypeOK, Event
    <3>3. f \in S \cup processed
      BY <2>1, <3>1, <3>2 DEF OldestRows, Unprocessed
    <3>4. QED
      BY <3>1, <3>3
  <2>5. QED
    BY <2>1, <2>2, <2>3, <2>4 DEF BatchInv, Handled, Unprocessed, Precedes
<1>3. CASE ReadSubs
  BY <1>3 DEF ReadSubs, BatchInv, Handled, Precedes, tables
<1>4. CASE Push
  <2>1. PICK e \in event : todo' = todo \ {e}
    BY <1>4 DEF Push
  <2>2. UNCHANGED <<processed, outbox, batch>> /\ event' = {}
        /\ (phase' = "mark" => todo' = {})
    BY <1>4 DEF Push, tables
  <2>3. e \in batch /\ Handled' = Handled \cup {e}
    BY <2>1, <2>2 DEF BatchInv, Handled
  <2>4. e.kind = "deleted" => \E f \in Handled : Precedes(f, e)
    <3> SUFFICES ASSUME e.kind = "deleted" PROVE \E f \in Handled : Precedes(f, e)
      OBVIOUS
    <3>1. PICK f \in batch \cup processed : Precedes(f, e)
      BY <2>3 DEF BatchInv
    <3>2. f \notin todo
      BY <2>1, <3>1 DEF BatchInv, Precedes, TypeOK, Event
    <3>3. QED
      BY <3>1, <3>2 DEF Handled
  <2>5. QED
    BY <2>1, <2>2, <2>3, <2>4 DEF BatchInv, Precedes
<1>5. CASE MarkProcessed
  <2>1. /\ processed' = processed \cup batch /\ batch' = {}
        /\ UNCHANGED <<outbox, todo, event>> /\ phase' = "idle" /\ todo = {}
    BY <1>5 DEF MarkProcessed, BatchInv
  <2>2. processed' = Handled /\ Handled' = Handled
    BY <2>1 DEF Handled
  <2>3. QED
    BY <2>1, <2>2 DEF BatchInv, Precedes
<1>6. CASE SubsFailed
  BY <1>6, DroppedBatch DEF SubsFailed, tables
<1>7. CASE PushFailed
  BY <1>7, DroppedBatch DEF PushFailed, tables
<1>8. CASE MarkFailed
  <2>1. todo = {} /\ processed' \in {processed, processed \cup batch} /\ outbox' = outbox
    BY <1>8 DEF MarkFailed, BatchInv
  <2>2. Handled = processed \cup batch
    BY <2>1 DEF Handled
  <2>3. QED
    BY <1>8, <2>1, <2>2, DroppedBatch DEF MarkFailed
<1>9. CASE Crash
  BY <1>9, DroppedBatch DEF Crash, tables
<1>10. ASSUME NEW u \in Users, LoseFeed(u) PROVE UNCHANGED <<processed, worker>>
  BY <1>10 DEF LoseFeed, tables
<1>11. CASE UNCHANGED vars
  BY <1>1, <1>11 DEF vars, tables
<1>12. QED
  BY <1>1, <1>2, <1>3, <1>4, <1>5, <1>6, <1>7, <1>8, <1>9, <1>10, <1>11, RequestsLeaveWorker
     DEF Next, Processor, Failures

\* Only the processor itself marks rows, and it fetches none that is marked.
LEMMA WorkerStep == TypeOK /\ RowInv /\ WorkerInv /\ [Next]_vars => WorkerInv'
<1> SUFFICES ASSUME TypeOK, RowInv, WorkerInv, [Next]_vars PROVE WorkerInv'
  OBVIOUS
<1>1. BatchInv'
  BY BatchStep DEF WorkerInv
<1>2. Requests \/ UNCHANGED vars \/ (\E u \in Users : LoseFeed(u)) => UNCHANGED <<processed, batch>>
  BY RequestsLeaveWorker DEF LoseFeed, vars, tables, worker
<1>3. ReadSubs \/ Push => UNCHANGED <<processed, batch>>
  BY DEF ReadSubs, Push, tables
<1>4. Fetch => batch' \cap processed' = {}
  BY DEF Fetch, Unprocessed, tables
<1>5. MarkProcessed \/ SubsFailed \/ PushFailed \/ MarkFailed \/ Crash => batch' = {}
  BY DEF MarkProcessed, SubsFailed, PushFailed, MarkFailed, Crash, DropBatch
<1>6. batch' \cap processed' = {}
  BY <1>2, <1>3, <1>4, <1>5 DEF WorkerInv, Next, Processor, Failures
<1>7. QED
  BY <1>1, <1>6 DEF WorkerInv

-----------------------------------------------------------------------------
(* The pairs that are owed.                                                *)

\* A row is committed once: its stamp, or its post, is new to the outbox.
LEMMA CommittedOnce ==
  ASSUME TypeOK, RowInv, RemoverInv
  PROVE  /\ \A p \in Posts : CommitAdd(p) =>
              [kind |-> "added", post |-> p, at |-> adding[p]] \notin outbox
         /\ \A d \in Removers : CommitRemoval(d) =>
              [kind |-> "deleted", post |-> removing[d].post, at |-> removing[d].at]
                \notin outbox
<1>1. ASSUME NEW p \in Posts, CommitAdd(p)
      PROVE  [kind |-> "added", post |-> p, at |-> adding[p]] \notin outbox
  BY <1>1, OpenAdditionHasNoRow DEF CommitAdd
<1>2. ASSUME NEW d \in Removers, CommitRemoval(d)
      PROVE  [kind |-> "deleted", post |-> removing[d].post, at |-> removing[d].at]
               \notin outbox
  BY <1>2 DEF CommitRemoval, RemoverInv, Active
<1>3. QED
  BY <1>1, <1>2

\* The pairs of a row that is being committed.
LEMMA OwedNowPairs ==
  ASSUME NEW e, NEW o \in OwedNow(e)
  PROVE  o[1] = e /\ o[2] \in Users /\ <<o[2], Author[e.post]>> \in subs
<1>1. PICK u \in Followers(Author[e.post]) : o = <<e, u>>
  BY DEF OwedNow
<1>2. u \in Users /\ <<u, Author[e.post]>> \in subs
  BY <1>1 DEF Followers
<1>3. QED
  BY <1>1, <1>2

\* A pair becomes owed in the step that commits its row.
LEMMA NewlyOwed ==
  ASSUME TypeOK, RowInv, RemoverInv, [Next]_vars, NEW o \in owed' \ owed
  PROVE  /\ o[1] \in outbox' \ outbox
         /\ <<o[2], Author[o[1].post]>> \in subs'
         /\ UNCHANGED <<processed, worker, feed>>
<1>1. ASSUME NEW p \in Posts, CommitAdd(p)
      PROVE  /\ o[1] \in outbox' \ outbox
             /\ <<o[2], Author[o[1].post]>> \in subs'
             /\ UNCHANGED <<processed, worker, feed>>
  <2> DEFINE e == [kind |-> "added", post |-> p, at |-> adding[p]]
  <2>1. e \notin outbox /\ outbox' = outbox \cup {e} /\ o \in OwedNow(e)
        /\ UNCHANGED <<subs, processed, worker, feed>>
    BY <1>1, CommittedOnce DEF CommitAdd
  <2> HIDE DEF e
  <2>2. QED
    BY <2>1, OwedNowPairs
<1>2. ASSUME NEW d \in Removers, CommitRemoval(d)
      PROVE  /\ o[1] \in outbox' \ outbox
             /\ <<o[2], Author[o[1].post]>> \in subs'
             /\ UNCHANGED <<processed, worker, feed>>
  <2> DEFINE e == [kind |-> "deleted", post |-> removing[d].post, at |-> removing[d].at]
  <2>1. e \notin outbox /\ outbox' = outbox \cup {e} /\ o \in OwedNow(e)
        /\ UNCHANGED <<subs, processed, worker, feed>>
    BY <1>2, CommittedOnce DEF CommitRemoval
  <2> HIDE DEF e
  <2>2. QED
    BY <2>1, OwedNowPairs
<1>3. \/ \E p \in Posts : CommitAdd(p)
      \/ \E d \in Removers : CommitRemoval(d)
      \/ owed' \subseteq owed
  BY DEF Next, Requests, Processor, Failures, BeginAdd, AbortAdd, FindForRemoval,
         BeginRemoval, MarkDeleted, AbortRemoval, Subscribe, Unsubscribe, Fetch, ReadSubs,
         Push, MarkProcessed, SubsFailed, PushFailed, MarkFailed, Crash, LoseFeed, vars
<1>4. QED
  BY <1>1, <1>2, <1>3

\* Who is owed a row goes on following and being among the targets.
LEMMA OwedStep ==
  TypeOK /\ RowInv /\ RemoverInv /\ BatchInv /\ OwedInv /\ [Next]_vars => OwedInv'
<1> SUFFICES ASSUME TypeOK, RowInv, RemoverInv, BatchInv, OwedInv, [Next]_vars
             PROVE  OwedInv'
  OBVIOUS
<1> SUFFICES ASSUME NEW o \in owed'
             PROVE  /\ o[1] \in outbox'
                    /\ <<o[2], Author[o[1].post]>> \in subs'
                    /\ (phase' = "push" /\ o[1] \in event') => o[2] \in targets'
  BY DEF OwedInv
<1>1. CASE o \notin owed
  BY <1>1, NewlyOwed DEF BatchInv, worker
<1>2. CASE o \in owed
  <2>1. o[1] \in outbox'
    BY <1>2, OutboxGrows DEF OwedInv
  <2>2. <<o[2], Author[o[1].post]>> \in subs'
    <3>1. <<o[2], Author[o[1].post]>> \in subs
      BY <1>2 DEF OwedInv
    <3>2. CASE \E p \in Posts, u \in Users : Unsubscribe(u, Author[p])
      BY <3>1, <3>2 DEF Unsubscribe
    <3>3. CASE ~ \E p \in Posts, u \in Users : Unsubscribe(u, Author[p])
      <4>1. subs \subseteq subs'
        BY <3>3 DEF Next, Requests, Processor, Failures, BeginAdd, CommitAdd, AbortAdd,
           FindForRemoval, BeginRemoval, MarkDeleted, CommitRemoval, AbortRemoval, Subscribe,
           Fetch, ReadSubs, Push, MarkProcessed, SubsFailed, PushFailed, MarkFailed, Crash,
           LoseFeed, vars, tables
      <4>2. QED
        BY <3>1, <4>1
    <3>4. QED
      BY <3>2, <3>3
  <2>3. ASSUME phase' = "push", o[1] \in event' PROVE o[2] \in targets'
    <3>1. CASE ReadSubs
      <4>1. PICK e \in todo : event' = {e} /\ targets' = Followers(Author[e.post])
        BY <3>1 DEF ReadSubs
      <4>2. o[2] \in Users /\ <<o[2], Author[e.post]>> \in subs
        BY <1>2, <2>3, <4>1 DEF OwedInv, TypeOK
      <4>3. QED
        BY <4>1, <4>2 DEF Followers
    <3>2. CASE ~ReadSubs
      <4>1. UNCHANGED <<phase, event, targets>>
        BY <2>3, <3>2, RequestsLeaveWorker
           DEF Next, Processor, Failures, Fetch, Push, MarkProcessed, SubsFailed, PushFailed,
               MarkFailed, Crash, DropBatch, LoseFeed, vars, worker
      <4>2. QED
        BY <1>2, <2>3, <4>1 DEF OwedInv
    <3>3. QED
      BY <3>1, <3>2
  <2>4. QED
    BY <2>1, <2>2, <2>3
<1>3. QED
  BY <1>1, <1>2

-----------------------------------------------------------------------------
(* The feeds.                                                              *)

\* The row being handled is in the outbox.
LEMMA EventInOutbox ==
  ASSUME BatchInv, NEW e \in event
  PROVE  e \in outbox
BY DEF BatchInv

\* If nobody else marks it, it is not handled yet.
LEMMA EventNotHandled ==
  ASSUME WorkerInv, NEW e \in event
  PROVE  e \in outbox \ Handled
BY DEF WorkerInv, BatchInv, Handled

\* The addition of a post is never handled again after its deletion.
LEMMA NoAdditionAfterDeletion ==
  ASSUME RowInv, WorkerInv, NEW e \in event, NEW d \in Handled,
         d.kind = "deleted", d.post = e.post
  PROVE  e.kind # "added"
<1>1. PICK f \in Handled : Precedes(f, d)
  BY DEF WorkerInv, BatchInv
<1>2. f \in outbox /\ f # e
  BY EventNotHandled DEF WorkerInv, BatchInv, Handled
<1>3. QED
  BY <1>1, <1>2, EventNotHandled DEF RowInv, Precedes

\* The feeds change by a push, which handles a row, by part of one, or by an eviction.
LEMMA FeedCases ==
  ASSUME BatchInv, [Next]_vars
  PROVE  \/ UNCHANGED feed /\ Handled' \subseteq Handled
         \/ \E e \in event :
              /\ feed' = FeedsAfter(e, targets) /\ phase = "push"
              /\ Handled' \subseteq Handled \cup {e} /\ UNCHANGED outbox
         \/ \E e \in event, S \in SUBSET targets :
              feed' = FeedsAfter(e, S) /\ Handled' \subseteq Handled /\ UNCHANGED outbox
         \/ \E u \in Users : LoseFeed(u)
<1>1. CASE Push
  BY <1>1 DEF Push, Handled, tables
<1>2. CASE PushFailed
  BY <1>2 DEF PushFailed, DropBatch, Handled, tables
<1>3. Requests => UNCHANGED feed
  BY DEF Requests, BeginAdd, CommitAdd, AbortAdd, FindForRemoval, BeginRemoval,
         MarkDeleted, CommitRemoval, AbortRemoval, Subscribe, Unsubscribe
<1>4. Requests => Handled' \subseteq Handled
  BY RequestsLeaveWorker DEF Handled, worker
<1>5. UNCHANGED vars \/ Fetch \/ ReadSubs \/ MarkProcessed \/ SubsFailed
        \/ MarkFailed \/ Crash => UNCHANGED feed
  BY DEF vars, Fetch, ReadSubs, MarkProcessed, SubsFailed, MarkFailed, Crash
<1>6. UNCHANGED vars \/ Fetch \/ ReadSubs \/ SubsFailed \/ Crash => Handled' \subseteq Handled
  BY DEF vars, Fetch, ReadSubs, SubsFailed, Crash, DropBatch, Handled, tables, worker
<1>7. MarkProcessed \/ MarkFailed => Handled' \subseteq Handled
  BY DEF MarkProcessed, MarkFailed, DropBatch, Handled, BatchInv
<1>8. QED
  BY <1>1, <1>2, <1>3, <1>4, <1>5, <1>6, <1>7 DEF Next, Processor, Failures

\* Who is owed a handled row was owed it before.
LEMMA HandledOwed ==
  ASSUME TypeOK, RowInv, RemoverInv, BatchInv, [Next]_vars,
         NEW o \in owed', o[1] \in Handled'
  PROVE  o \in owed
BY NewlyOwed DEF BatchInv, Handled, worker

\* Handling a row, on any of its feeds, takes out no post without a deletion.
LEMMA HandlingKeepsDelivered ==
  ASSUME TypeOK, NEW e \in outbox, NEW S, NEW u \in Users, NEW p \in feed[u],
         \A f \in outbox : f.kind = "deleted" => f.post # p
  PROVE  p \in FeedsAfter(e, S)[u]
<1>1. e.kind = "added" \/ e.post # p
  BY DEF TypeOK, Event
<1>2. QED
  BY <1>1 DEF FeedsAfter

\* A handled addition has reached every feed it is owed to.
LEMMA DeliveredStep == SharedInv /\ [Next]_vars => DeliveredInv'
<1> SUFFICES ASSUME SharedInv, [Next]_vars PROVE DeliveredInv'
  OBVIOUS
<1> SUFFICES ASSUME NEW o \in owed', o[1] \in Handled', o[1].kind = "added",
                    \A f \in outbox' : f.kind = "deleted" => f.post # o[1].post
             PROVE  o[1].post \in feed'[o[2]]
  BY DEF DeliveredInv
<1>1. o \in owed /\ o[2] \in Users
  BY HandledOwed DEF SharedInv, TypeOK
<1>2. \A f \in outbox : f.kind = "deleted" => f.post # o[1].post
  BY OutboxGrows
<1>3. o[1] \in Handled => o[1].post \in feed[o[2]]
  BY <1>1, <1>2 DEF SharedInv, DeliveredInv
<1>4. ASSUME NEW e \in event, NEW S, feed' = FeedsAfter(e, S), o[1] \in Handled
      PROVE  o[1].post \in feed'[o[2]]
  <2>1. e \in outbox
    BY EventInOutbox DEF SharedInv
  <2>2. QED
    BY <1>1, <1>2, <1>3, <1>4, <2>1, HandlingKeepsDelivered DEF SharedInv
<1>5. ASSUME NEW e \in event, feed' = FeedsAfter(e, targets), phase = "push", o[1] = e
      PROVE  o[1].post \in feed'[o[2]]
  <2>1. o[2] \in targets
    BY <1>1, <1>5 DEF SharedInv, OwedInv
  <2>2. QED
    BY <1>1, <1>5, <2>1 DEF FeedsAfter
<1>6. ASSUME NEW u \in Users, LoseFeed(u) PROVE o[1].post \in feed'[o[2]]
  <2>1. o[1] \in Handled /\ o[2] # u
    BY <1>6 DEF LoseFeed, Handled, tables, worker
  <2>2. feed'[o[2]] = feed[o[2]]
    BY <1>1, <1>6, <2>1 DEF LoseFeed, SharedInv, TypeOK
  <2>3. QED
    BY <1>3, <2>1, <2>2
<1>7. CASE UNCHANGED feed /\ Handled' \subseteq Handled
  BY <1>3, <1>7
<1>8. BatchInv
  BY DEF SharedInv
<1>9. QED
  BY <1>4, <1>5, <1>6, <1>7, <1>8, FeedCases

\* A handled deletion has reached every feed it is owed to, and no replay undoes it.
LEMMA RemovedStep == IInv /\ [Next]_vars => RemovedInv'
<1> SUFFICES ASSUME IInv, [Next]_vars PROVE RemovedInv'
  OBVIOUS
<1> SUFFICES ASSUME NEW o \in owed', o[1] \in Handled', o[1].kind = "deleted"
             PROVE  o[1].post \notin feed'[o[2]]
  BY DEF RemovedInv
<1>1. o \in owed /\ o[2] \in Users
  BY HandledOwed DEF IInv, SharedInv, TypeOK
<1>2. o[1] \in Handled => o[1].post \notin feed[o[2]]
  BY <1>1 DEF IInv, RemovedInv
<1>3. ASSUME NEW e \in event, NEW S, feed' = FeedsAfter(e, S), o[1] \in Handled
      PROVE  o[1].post \notin feed'[o[2]]
  <2>1. e.kind # "added" \/ e.post # o[1].post
    BY <1>3, NoAdditionAfterDeletion DEF IInv, SharedInv
  <2>2. QED
    BY <1>1, <1>2, <1>3, <2>1 DEF FeedsAfter
<1>4. ASSUME NEW e \in event, feed' = FeedsAfter(e, targets), phase = "push", o[1] = e
      PROVE  o[1].post \notin feed'[o[2]]
  <2>1. o[2] \in targets
    BY <1>1, <1>4 DEF IInv, SharedInv, OwedInv
  <2>2. QED
    BY <1>1, <1>4, <2>1 DEF FeedsAfter
<1>5. ASSUME NEW u \in Users, LoseFeed(u) PROVE o[1].post \notin feed'[o[2]]
  <2>1. o[1] \in Handled
    BY <1>5 DEF LoseFeed, Handled, tables, worker
  <2>2. feed'[o[2]] \in {feed[o[2]], {}}
    BY <1>1, <1>5 DEF LoseFeed, IInv, SharedInv, TypeOK
  <2>3. QED
    BY <1>2, <2>1, <2>2
<1>6. CASE UNCHANGED feed /\ Handled' \subseteq Handled
  BY <1>2, <1>6
<1>7. BatchInv
  BY DEF IInv, SharedInv
<1>8. QED
  BY <1>3, <1>4, <1>5, <1>6, <1>7, FeedCases

-----------------------------------------------------------------------------
(* The theorems.                                                           *)

\* The initial states satisfy the invariant.
LEMMA InitInv == Init => IInv
<1> SUFFICES ASSUME Init PROVE IInv
  OBVIOUS
<1>1. TypeOK
  BY InitType
<1>2. RowInv
  BY ConstantsAssumption DEF Init, RowInv
<1>3. RemoverInv
  BY DEF Init, RemoverInv, Active, IdleRequest
<1>4. WorkerInv /\ OwedInv /\ DeliveredInv /\ RemovedInv
  BY DEF Init, WorkerInv, BatchInv, OwedInv, DeliveredInv, RemovedInv, Handled
<1>5. QED
  BY <1>1, <1>2, <1>3, <1>4 DEF IInv, SharedInv, WorkerInv

\* Every step keeps what does not need the processor to be alone.
LEMMA SharedStep == SharedInv /\ [Next]_vars => SharedInv'
<1> SUFFICES ASSUME SharedInv, [Next]_vars PROVE SharedInv'
  OBVIOUS
<1>1. TypeOK'
  BY RequestsType, ProcessorType, StutterType DEF SharedInv, Next
<1>2. RowInv' /\ RemoverInv' /\ BatchInv' /\ OwedInv'
  BY RowStep, RemoverStep, BatchStep, OwedStep DEF SharedInv
<1>3. QED
  BY <1>1, <1>2, DeliveredStep DEF SharedInv

\* What a second processor does to what the first one reads: it marks rows, in order and
\* delivered, and it handles rows of the outbox, on any feeds and at any time.
Interference ==
    /\ UNCHANGED <<posts, subs, outbox, requests, owed>>
    /\ faults' \in 0..MaxFaults
    /\ processed \subseteq processed' /\ processed' \subseteq outbox
    /\ AdditionBeforeDeletion'
    /\ Delivered'
    /\ \/ UNCHANGED feed
       \/ \E e \in outbox, S \in SUBSET Users : feed' = FeedsAfter(e, S)

\* That is what a processor does to another one.
LEMMA OwnInterference ==
  ASSUME SharedInv, Processor \/ SubsFailed \/ PushFailed \/ MarkFailed
  PROVE  Interference
<1>1. SharedInv'
  BY SharedStep DEF Next, Failures
<1>2. UNCHANGED <<posts, subs, outbox, requests, owed>>
  BY DEF Processor, Fetch, ReadSubs, Push, MarkProcessed, SubsFailed, PushFailed, MarkFailed, tables
<1>3. faults' \in 0..MaxFaults
  BY <1>1 DEF SharedInv, TypeOK
<1>4. processed \subseteq processed'
  BY DEF Processor, Fetch, ReadSubs, Push, MarkProcessed, SubsFailed, PushFailed, MarkFailed, tables
<1>5. processed' \subseteq outbox /\ AdditionBeforeDeletion'
  BY <1>1, <1>2 DEF SharedInv, BatchInv, AdditionBeforeDeletion, Precedes
<1>6. Delivered'
  BY <1>1 DEF SharedInv, DeliveredInv, Delivered, Handled
<1>7. \/ UNCHANGED feed
      \/ \E e \in outbox, S \in SUBSET Users : feed' = FeedsAfter(e, S)
  <2>1. event \subseteq outbox /\ targets \subseteq Users
    BY DEF SharedInv, BatchInv, TypeOK
  <2>2. Push \/ PushFailed => \E e \in event, S \in SUBSET targets : feed' = FeedsAfter(e, S)
    BY DEF Push, PushFailed
  <2>3. Fetch \/ ReadSubs \/ MarkProcessed \/ SubsFailed \/ MarkFailed => UNCHANGED feed
    BY DEF Fetch, ReadSubs, MarkProcessed, SubsFailed, MarkFailed
  <2>4. QED
    BY <2>1, <2>2, <2>3 DEF Processor
<1>8. QED
  BY <1>2, <1>3, <1>4, <1>5, <1>6, <1>7 DEF Interference

\* A processor bears it.
LEMMA InterferenceStep ==
  ASSUME SharedInv, Interference, UNCHANGED worker
  PROVE  SharedInv'
<1> USE DEF SharedInv
<1>1. /\ UNCHANGED <<posts, subs, outbox, clock, adding, removing, owed>>
      /\ UNCHANGED <<phase, batch, todo, event, targets>>
  BY DEF Interference, requests, worker
<1>2. processed \subseteq processed' /\ processed' \subseteq outbox
  BY DEF Interference
<1>3. ASSUME UNCHANGED feed PROVE TypeOK' /\ DeliveredInv'
  <2>1. TypeOK'
    BY <1>1, <1>2, <1>3 DEF TypeOK, Interference
  <2>2. DeliveredInv'
    BY <1>1, <1>3 DEF DeliveredInv, Delivered, Interference, Handled
  <2>3. QED
    BY <2>1, <2>2
<1>4. ASSUME NEW e \in outbox, NEW S \in SUBSET Users, feed' = FeedsAfter(e, S)
      PROVE  TypeOK' /\ DeliveredInv'
  <2>1. e \in Event
    BY DEF TypeOK
  <2>2. TypeOK'
    BY <1>1, <1>2, <1>4, <2>1, FeedsAfterType DEF TypeOK, Interference
  <2>3. ASSUME NEW o \in owed, o[1] \in Handled', o[1].kind = "added",
               \A f \in outbox : f.kind = "deleted" => f.post # o[1].post
        PROVE  o[1].post \in feed'[o[2]]
    <3>1. CASE o[1] \in Handled
      <4>1. o[2] \in Users /\ o[1].post \in feed[o[2]]
        BY <2>3, <3>1 DEF DeliveredInv, TypeOK
      <4>2. QED
        BY <1>4, <2>3, <4>1, HandlingKeepsDelivered
    <3>2. CASE o[1] \notin Handled
      <4>1. o[1] \in processed'
        BY <1>1, <2>3, <3>2 DEF Handled
      <4>2. QED
        BY <1>1, <2>3, <4>1 DEF Interference, Delivered
    <3>3. QED
      BY <3>1, <3>2
  <2>4. QED
    BY <1>1, <2>2, <2>3 DEF DeliveredInv
<1>5. TypeOK' /\ DeliveredInv'
  BY <1>3, <1>4 DEF Interference
<1>6. RowInv'
  BY <1>1 DEF RowInv, Precedes
<1>7. RemoverInv'
  BY <1>1 DEF RemoverInv, Active
<1>8. BatchInv'
  BY <1>1, <1>2 DEF BatchInv, Interference, AdditionBeforeDeletion, Handled, Precedes
<1>9. OwedInv'
  BY <1>1 DEF OwedInv
<1>10. QED
  BY <1>5, <1>6, <1>7, <1>8, <1>9

\* Every step keeps the invariant.
LEMMA StepInv == IInv /\ [Next]_vars => IInv'
<1> SUFFICES ASSUME IInv, [Next]_vars PROVE IInv'
  OBVIOUS
<1>1. SharedInv'
  BY SharedStep DEF IInv
<1>2. WorkerInv'
  BY WorkerStep DEF IInv, SharedInv
<1>3. QED
  BY <1>1, <1>2, RemovedStep DEF IInv

\* The inductive invariant holds throughout.
THEOREM Invariance == Spec => []IInv
BY InitInv, StepInv, PTL DEF Spec

\* Every variable keeps its type, for any users, posts, batch size and bounds.
THEOREM TypeCorrect == Spec => []TypeOK
<1>1. IInv => TypeOK
  BY DEF IInv, SharedInv
<1>2. QED
  BY <1>1, Invariance, PTL

\* A follower who stays has every processed post that is not deleted.
THEOREM ProcessedIsDelivered == Spec => []Delivered
<1>1. IInv => Delivered
  BY DEF IInv, SharedInv, DeliveredInv, Handled, Delivered
<1>2. QED
  BY <1>1, Invariance, PTL

\* A follower who stays has no post whose deletion is processed.
THEOREM ProcessedIsRemoved == Spec => []Removed
<1>1. IInv => Removed
  BY DEF IInv, SharedInv, RemovedInv, Handled, Removed
<1>2. QED
  BY <1>1, Invariance, PTL

\* Batches, late rows and replays never mark a deletion before its addition.
THEOREM DeletionsFollowAdditions == Spec => []AdditionBeforeDeletion
<1>1. IInv => AdditionBeforeDeletion
  BY DEF IInv, SharedInv, WorkerInv, BatchInv, Precedes, AdditionBeforeDeletion
<1>2. QED
  BY <1>1, Invariance, PTL

\* The feeds change only by a push, a failed push or an eviction.
LEMMA FeedChanges ==
  ASSUME [Next]_vars
  PROVE  \/ UNCHANGED feed
         \/ \E e \in event, S \in SUBSET targets : feed' = FeedsAfter(e, S)
         \/ \E u \in Users : feed' = [feed EXCEPT ![u] = {}]
<1>1. Push => \E e \in event, S \in SUBSET targets : feed' = FeedsAfter(e, S)
  BY DEF Push
<1>2. PushFailed => \E e \in event, S \in SUBSET targets : feed' = FeedsAfter(e, S)
  BY DEF PushFailed
<1>3. ASSUME NEW u \in Users, LoseFeed(u) PROVE feed' = [feed EXCEPT ![u] = {}]
  BY <1>3 DEF LoseFeed
<1>4. Requests \/ UNCHANGED vars \/ Fetch \/ ReadSubs \/ MarkProcessed \/ SubsFailed
        \/ MarkFailed \/ Crash => UNCHANGED feed
  BY DEF Requests, BeginAdd, CommitAdd, AbortAdd, FindForRemoval, BeginRemoval, MarkDeleted,
         CommitRemoval, AbortRemoval, Subscribe, Unsubscribe, vars, Fetch, ReadSubs,
         MarkProcessed, SubsFailed, MarkFailed, Crash
<1>5. QED
  BY <1>1, <1>2, <1>3, <1>4 DEF Next, Processor, Failures

\* A step puts no post back whose deletion is processed.
LEMMA StaysOut ==
  ASSUME IInv, [Next]_vars,
         NEW d \in processed, d.kind = "deleted", NEW u \in Users, d.post \in feed'[u]
  PROVE  d.post \in feed[u]
<1>1. ASSUME NEW e \in event, NEW S, feed' = FeedsAfter(e, S) PROVE d.post \in feed[u]
  <2>1. e.kind # "added" \/ e.post # d.post
    BY NoAdditionAfterDeletion DEF IInv, SharedInv, Handled
  <2>2. QED
    BY <1>1, <2>1 DEF FeedsAfter
<1>2. ASSUME NEW v \in Users, feed' = [feed EXCEPT ![v] = {}] PROVE d.post \in feed[u]
  BY <1>2 DEF IInv, SharedInv, TypeOK
<1>3. QED
  BY <1>1, <1>2, FeedChanges

\* No replay brings a post back once its deletion is processed.
THEOREM NothingResurrected == Spec => NoResurrection
<1>1. IInv /\ [Next]_vars =>
        [\A e \in processed : e.kind = "deleted" =>
           \A u \in Users : e.post \in feed'[u] => e.post \in feed[u]]_vars
  BY StaysOut
<1>2. QED
  BY <1>1, Invariance, PTL DEF Spec, NoResurrection

\* A live post never leaves a feed, unless Redis drops the feed.
THEOREM LivePostsStay == Spec => OnlyDeletedPostsLeave
<1>1. ASSUME IInv, [Next]_vars, NEW u \in Users, NEW p \in feed[u] \ feed'[u]
      PROVE  posts[p] = "deleted" \/ feed'[u] = {}
  <2>1. ASSUME NEW e \in event, NEW S, feed' = FeedsAfter(e, S) PROVE posts[p] = "deleted"
    <3>1. e.kind = "deleted" /\ p = e.post
      BY <1>1, <2>1, EventNotHandled DEF FeedsAfter, IInv, SharedInv, TypeOK, Event
    <3>2. QED
      BY <3>1, EventNotHandled, <1>1 DEF IInv, SharedInv, RowInv
  <2>2. ASSUME NEW v \in Users, feed' = [feed EXCEPT ![v] = {}] PROVE feed'[u] = {}
    BY <1>1, <2>2 DEF IInv, SharedInv, TypeOK
  <2>3. QED
    BY <1>1, <2>1, <2>2, FeedChanges
<1>2. IInv /\ [Next]_vars =>
        [\A u \in Users : \A p \in feed[u] \ feed'[u] :
           posts[p] = "deleted" \/ feed'[u] = {}]_vars
  BY <1>1
<1>3. QED
  BY <1>2, Invariance, PTL DEF Spec, OnlyDeletedPostsLeave

-----------------------------------------------------------------------------
(* The processor implements OutboxDelivery.                                *)

\* An initial state maps to an initial state of the outbox.
LEMMA InitRefines == Init => Outbox!Init
BY DEF Init, Outbox!Init

\* A request either commits a new row or leaves the abstract state alone.
LEMMA RequestsRefine ==
  ASSUME IInv, Requests
  PROVE  Outbox!Commit \/ UNCHANGED Outbox!vars
<1>1. UNCHANGED <<processed, batch, todo>>
  BY RequestsLeaveWorker DEF worker
<1>2. TypeOK'
  BY RequestsType DEF IInv, SharedInv
<1>3. ASSUME NEW p \in Posts, CommitAdd(p) PROVE Outbox!Commit
  <2> DEFINE e == [kind |-> "added", post |-> p, at |-> adding[p]]
  <2>1. outbox' = outbox \cup {e} /\ e \notin outbox
    BY <1>3, CommittedOnce DEF CommitAdd, IInv, SharedInv
  <2>2. e \in Event
    BY <1>2, <2>1 DEF TypeOK
  <2> HIDE DEF e
  <2>3. QED
    BY <1>1, <2>1, <2>2 DEF Outbox!Commit
<1>4. ASSUME NEW d \in Removers, CommitRemoval(d) PROVE Outbox!Commit
  <2> DEFINE e == [kind |-> "deleted", post |-> removing[d].post, at |-> removing[d].at]
  <2>1. outbox' = outbox \cup {e} /\ e \notin outbox
    BY <1>4, CommittedOnce DEF CommitRemoval, IInv, SharedInv
  <2>2. e \in Event
    BY <1>2, <2>1 DEF TypeOK
  <2> HIDE DEF e
  <2>3. QED
    BY <1>1, <2>1, <2>2 DEF Outbox!Commit
<1>5. \/ \E p \in Posts : CommitAdd(p)
      \/ \E d \in Removers : CommitRemoval(d)
      \/ UNCHANGED outbox
  BY DEF Requests, BeginAdd, AbortAdd, FindForRemoval, BeginRemoval, MarkDeleted,
         AbortRemoval, Subscribe, Unsubscribe, tables
<1>6. CASE UNCHANGED outbox
  BY <1>1, <1>6 DEF Outbox!vars
<1>7. QED
  BY <1>3, <1>4, <1>5, <1>6

\* Dropping a batch starts the attempt over.
LEMMA DropRefines ==
  ASSUME DropBatch, UNCHANGED <<outbox, processed>>
  PROVE  Outbox!StartOver
BY DEF DropBatch, Outbox!StartOver

\* A step maps to a step of the outbox or to none.
LEMMA StepRefines ==
  ASSUME IInv, [Next]_vars
  PROVE  [Outbox!Next]_(Outbox!vars)
<1>1. CASE Requests
  BY <1>1, RequestsRefine DEF Outbox!Next
<1>2. CASE Fetch
  <2>1. batch' = todo' /\ UNCHANGED <<outbox, processed>>
    BY <1>2 DEF Fetch, tables
  <2>2. Outbox!StartOver
    BY <2>1 DEF Outbox!StartOver
  <2>3. QED
    BY <2>2 DEF Outbox!Next
<1>3. CASE Push
  <2>1. PICK e \in event : todo' = todo \ {e}
    BY <1>3 DEF Push
  <2>2. UNCHANGED <<outbox, processed, batch>>
    BY <1>3 DEF Push, tables
  <2>3. e \in outbox \ Handled /\ Handled' = Handled \cup {e}
    BY <2>1, <2>2, EventNotHandled DEF IInv, SharedInv, WorkerInv, BatchInv, Handled
  <2>4. \A f \in Handled : <<e, f>> \notin Follows
    BY NoAdditionAfterDeletion DEF IInv, SharedInv, Follows
  <2>5. Outbox!HandOver
    BY <2>2, <2>3, <2>4 DEF Outbox!HandOver, Handled
  <2>6. QED
    BY <2>5 DEF Outbox!Next
<1>4. CASE MarkProcessed
  <2>1. processed' = Handled /\ Handled' = Handled /\ UNCHANGED outbox
    BY <1>4 DEF MarkProcessed, IInv, SharedInv, WorkerInv, BatchInv, Handled
  <2>2. Handled = processed \cup Handled
    BY DEF Handled
  <2>3. Outbox!Acknowledge
    BY <2>1, <2>2 DEF Outbox!Acknowledge, Handled
  <2>4. QED
    BY <2>3 DEF Outbox!Next
<1>5. CASE MarkFailed
  <2>1. CASE UNCHANGED processed
    BY <1>5, <2>1, DropRefines DEF MarkFailed, Outbox!Next
  <2>2. CASE processed' = processed \cup batch
    <3>1. processed' = Handled /\ Handled' = Handled /\ UNCHANGED outbox
      BY <1>5, <2>2 DEF MarkFailed, DropBatch, IInv, SharedInv, WorkerInv, BatchInv, Handled
    <3>2. Handled = processed \cup Handled
      BY DEF Handled
    <3>3. Outbox!Acknowledge
      BY <3>1, <3>2 DEF Outbox!Acknowledge, Handled
    <3>4. QED
      BY <3>3 DEF Outbox!Next
  <2>3. QED
    BY <1>5, <2>1, <2>2 DEF MarkFailed
<1>6. CASE SubsFailed \/ PushFailed \/ Crash
  BY <1>6, DropRefines DEF SubsFailed, PushFailed, Crash, tables, Outbox!Next
<1>7. CASE ReadSubs \/ (\E u \in Users : LoseFeed(u)) \/ UNCHANGED vars
  BY <1>7 DEF ReadSubs, LoseFeed, vars, tables, worker, Outbox!vars
<1>8. QED
  BY <1>1, <1>2, <1>3, <1>4, <1>5, <1>6, <1>7 DEF Next, Processor, Failures

\* The detailed processor keeps every promise of the abstract outbox.
THEOREM FanoutImplementsOutbox == Spec => ImplementsOutbox
<1>1. Init => Outbox!Init
  BY InitRefines
<1>2. IInv /\ [Next]_vars => [Outbox!Next]_(Outbox!vars)
  BY StepRefines
<1>3. QED
  BY <1>1, <1>2, Invariance, PTL DEF Spec, ImplementsOutbox, Outbox!Spec
=============================================================================
