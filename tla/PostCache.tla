------------------------------ MODULE PostCache ------------------------------
(***************************************************************************)
(* The post cache: postCacheWrapper over the posts table and the Redis     *)
(* documents post:<id>. Every request is split where it leaves one store   *)
(* for the other, because nothing orders its steps with those of another   *)
(* request: AddPost writes the row, then the document; RemovePost sets     *)
(* deleted_at in the row, then tests, reads and patches the document;      *)
(* GetPostsWithIds reads the documents, reads the rows that were missing   *)
(* and writes them back.                                                   *)
(*                                                                         *)
(* The rows' own transactions are FeedFanout's subject: here the row is    *)
(* changed in one step. Any call to Redis may fail, and the code goes on.  *)
(***************************************************************************)
EXTENDS Naturals, FiniteSets

CONSTANTS Posts, Readers, Removers, NoPost

ASSUME NoPostAssumption == NoPost \notin Posts

VARIABLES
    row,     \* [Posts -> {"none", "live", "deleted"}]: the posts table
    doc,     \* [Posts -> {"none", "live", "deleted"}]: post:<id>, with or without deleted_at
    lasting, \* the documents that have lost their time to live
    adder,   \* [Posts -> {"new", "cache", "done"}]: the AddPost request of the post
    remover, \* [Removers -> progress of a RemovePost request]
    reader,  \* [Readers -> progress of a GetPostsWithIds request]
    hidden,  \* history: posts whose removal has been answered with success
    raced    \* history: posts with a live document written after the row was deleted,
             \* or a failed attempt to patch the document

vars == <<row, doc, lasting, adder, remover, reader, hidden, raced>>

-----------------------------------------------------------------------------
States == {"none", "live", "deleted"}

Removal == [pc : {"idle", "row", "exists", "get", "set"}, post : Posts \cup {NoPost}]

Reading == [pc : {"idle", "rows", "fill", "done"},
            ids : SUBSET Posts,     \* what was asked for
            found : SUBSET Posts,   \* the answer so far
            missed : SUBSET Posts,  \* what the cache did not have
            due : SUBSET Posts,     \* history: asked for, and live when the read began
            gone : SUBSET Posts]    \* history: hidden when the read began

IdleRemoval == [pc |-> "idle", post |-> NoPost]

IdleReading == [pc |-> "idle", ids |-> {}, found |-> {}, missed |-> {}, due |-> {}, gone |-> {}]

Init ==
    /\ row = [p \in Posts |-> "none"]
    /\ doc = [p \in Posts |-> "none"]
    /\ lasting = {}
    /\ adder = [p \in Posts |-> "new"]
    /\ remover = [d \in Removers |-> IdleRemoval]
    /\ reader = [r \in Readers |-> IdleReading]
    /\ hidden = {}
    /\ raced = {}

-----------------------------------------------------------------------------
\* JSON.SET then EXPIRE for every post of S, a pipeline that is no transaction: it may
\* fail anywhere, so that only the documents of T are written, and those of L have no time
\* to live afterwards.
WriteDocs(S) ==
    \E T \in SUBSET S : \E L \in SUBSET (T \cup (S \cap lasting)) :
      /\ doc' = [p \in Posts |-> IF p \in T THEN "live" ELSE doc[p]]
      /\ lasting' = (lasting \ S) \cup L
      /\ raced' = raced \cup {p \in T : row[p] = "deleted"}

-----------------------------------------------------------------------------
(* postCacheWrapper.AddPost                                                *)

AddRow(p) ==
    /\ adder[p] = "new"
    /\ row' = [row EXCEPT ![p] = "live"]
    /\ adder' = [adder EXCEPT ![p] = "cache"]
    /\ UNCHANGED <<doc, lasting, remover, reader, hidden, raced>>

\* An error is recorded, and the request succeeds all the same.
AddDoc(p) ==
    /\ adder[p] = "cache"
    /\ WriteDocs({p})
    /\ adder' = [adder EXCEPT ![p] = "done"]
    /\ UNCHANGED <<row, remover, reader, hidden>>

-----------------------------------------------------------------------------
(* postCacheWrapper.RemovePost and postCacher.RemovePostById               *)

\* The service has found the row (deleted or not) and checked the author.
StartRemoval(d) ==
    /\ remover[d].pc = "idle"
    /\ \E p \in Posts :
         /\ row[p] # "none"
         /\ remover' = [remover EXCEPT ![d] = [pc |-> "row", post |-> p]]
    /\ UNCHANGED <<row, doc, lasting, adder, reader, hidden, raced>>

RemoveRow(d) ==
    /\ remover[d].pc = "row"
    /\ row' = [row EXCEPT ![remover[d].post] = "deleted"]
    /\ remover' = [remover EXCEPT ![d].pc = "exists"]
    /\ UNCHANGED <<doc, lasting, adder, reader, hidden, raced>>

\* The repository fails, before or after deleted_at was set (outside its transaction):
\* the cache is not touched.
RemoveRowFailed(d) ==
    /\ remover[d].pc = "row"
    /\ row' \in {row, [row EXCEPT ![remover[d].post] = "deleted"]}
    /\ remover' = [remover EXCEPT ![d] = IdleRemoval]
    /\ UNCHANGED <<doc, lasting, adder, reader, hidden, raced>>

\* The request is answered with success, whatever became of the document.
Answered(d) ==
    /\ remover' = [remover EXCEPT ![d] = IdleRemoval]
    /\ hidden' = hidden \cup {remover[d].post}

\* EXISTS: without a document there is nothing to do.
TestDoc(d) ==
    /\ remover[d].pc = "exists"
    /\ IF doc[remover[d].post] = "none"
         THEN Answered(d)
         ELSE remover' = [remover EXCEPT ![d].pc = "get"] /\ UNCHANGED hidden
    /\ UNCHANGED <<row, doc, lasting, adder, reader, raced>>

\* Mutant: the test on the answer of JSON.GET is inverted.
GetDocInverted(d) ==
    /\ remover[d].pc = "get"
    /\ IF doc[remover[d].post] = "live"
         THEN Answered(d)
         ELSE remover' = [remover EXCEPT ![d].pc = "set"] /\ UNCHANGED hidden
    /\ UNCHANGED <<row, doc, lasting, adder, reader, raced>>

\* JSON.GET: the document has gone by now, or has deleted_at already, or is patched next.
GetDoc(d) ==
    /\ remover[d].pc = "get"
    /\ IF doc[remover[d].post] # "live"
         THEN Answered(d)
         ELSE remover' = [remover EXCEPT ![d].pc = "set"] /\ UNCHANGED hidden
    /\ UNCHANGED <<row, doc, lasting, adder, reader, raced>>

\* JSON.SET $.deleted_at: an error where the document has gone.
PatchDoc(d) ==
    /\ remover[d].pc = "set"
    /\ doc' = [doc EXCEPT ![remover[d].post] = IF @ = "none" THEN "none" ELSE "deleted"]
    /\ Answered(d)
    /\ UNCHANGED <<row, lasting, adder, reader, raced>>

\* One of the three calls fails: the error is recorded and the document stays.
PatchFailed(d) ==
    /\ remover[d].pc \in {"exists", "get", "set"}
    /\ raced' = raced \cup {remover[d].post}
    /\ Answered(d)
    /\ UNCHANGED <<row, doc, lasting, adder, reader>>

-----------------------------------------------------------------------------
(* postCacheWrapper.GetPostsWithIds                                        *)

\* JSON.MGET: live documents are found, deleted ones are neither found nor missed.
ReadDocs(r) ==
    /\ reader[r].pc = "idle"
    /\ \E ids \in SUBSET Posts \ {{}} :
         LET missed == {p \in ids : doc[p] = "none"}
         IN  reader' = [reader EXCEPT ![r] =
                          [pc     |-> IF missed = {} THEN "done" ELSE "rows",
                           ids    |-> ids,
                           found  |-> {p \in ids : doc[p] = "live"},
                           missed |-> missed,
                           due    |-> {p \in ids : row[p] = "live"},
                           gone   |-> ids \cap hidden]]
    /\ UNCHANGED <<row, doc, lasting, adder, remover, hidden, raced>>

\* Redis fails: every post is looked up in the table.
ReadDocsFailed(r) ==
    /\ reader[r].pc = "idle"
    /\ \E ids \in SUBSET Posts \ {{}} :
         reader' = [reader EXCEPT ![r] =
                      [pc     |-> "rows",
                       ids    |-> ids,
                       found  |-> {},
                       missed |-> ids,
                       due    |-> {p \in ids : row[p] = "live"},
                       gone   |-> ids \cap hidden]]
    /\ UNCHANGED <<row, doc, lasting, adder, remover, hidden, raced>>

\* Mutant: the query neither filters on deleted_at nor returns it.
ReadAllRows(r) ==
    /\ reader[r].pc = "rows"
    /\ reader' = [reader EXCEPT
                    ![r].pc = "fill",
                    ![r].missed = {p \in @ : row[p] # "none"}]
    /\ UNCHANGED <<row, doc, lasting, adder, remover, hidden, raced>>

\* The rows that are not deleted, of those missed.
ReadRows(r) ==
    /\ reader[r].pc = "rows"
    /\ reader' = [reader EXCEPT
                    ![r].pc = "fill",
                    ![r].missed = {p \in @ : row[p] = "live"}]
    /\ UNCHANGED <<row, doc, lasting, adder, remover, hidden, raced>>

\* Mutant: the rows replace what the cache had found.
FillDocsOver(r) ==
    /\ reader[r].pc = "fill"
    /\ WriteDocs(reader[r].missed)
    /\ reader' = [reader EXCEPT ![r].pc = "done", ![r].found = reader[r].missed]
    /\ UNCHANGED <<row, adder, remover, hidden>>

\* The rows are cached, as they were read, and join the answer.
FillDocs(r) ==
    /\ reader[r].pc = "fill"
    /\ WriteDocs(reader[r].missed)
    /\ reader' = [reader EXCEPT
                    ![r].pc = "done",
                    ![r].found = @ \cup reader[r].missed]
    /\ UNCHANGED <<row, adder, remover, hidden>>

\* The answer is returned; or the table could not be read and an error is.
EndRead(r) ==
    /\ reader[r].pc \in {"rows", "done"}
    /\ reader' = [reader EXCEPT ![r] = IdleReading]
    /\ UNCHANGED <<row, doc, lasting, adder, remover, hidden, raced>>

-----------------------------------------------------------------------------
(* Redis and the process.                                                  *)

DropDoc(p) ==
    /\ doc[p] # "none"
    /\ doc' = [doc EXCEPT ![p] = "none"]
    /\ lasting' = lasting \ {p}
    /\ UNCHANGED <<row, adder, remover, reader, hidden, raced>>

\* The time to live (10 days) has passed.
Expire(p) == p \notin lasting /\ DropDoc(p)

\* allkeys-lru: any document may go at any time.
Evict(p) == DropDoc(p)

\* The process restarts; Redis keeps its documents (appendonly).
Crash ==
    /\ adder' = [p \in Posts |-> IF adder[p] = "cache" THEN "done" ELSE adder[p]]
    /\ remover' = [d \in Removers |-> IdleRemoval]
    /\ reader' = [r \in Readers |-> IdleReading]
    /\ UNCHANGED <<row, doc, lasting, hidden, raced>>

-----------------------------------------------------------------------------
Add(p) == AddRow(p) \/ AddDoc(p)

Remove(d) ==
    \/ StartRemoval(d) \/ RemoveRow(d) \/ RemoveRowFailed(d)
    \/ TestDoc(d) \/ GetDoc(d) \/ PatchDoc(d) \/ PatchFailed(d)

Read(r) == ReadDocs(r) \/ ReadDocsFailed(r) \/ ReadRows(r) \/ FillDocs(r) \/ EndRead(r)

Next ==
    \/ \E p \in Posts : Add(p) \/ Expire(p) \/ Evict(p)
    \/ \E d \in Removers : Remove(d)
    \/ \E r \in Readers : Read(r)
    \/ Crash

Spec == Init /\ [][Next]_vars

\* A request that has begun goes on, and Redis expires what has a time to live.
FairSpec ==
    /\ Spec
    /\ \A p \in Posts : WF_vars(AddDoc(p)) /\ WF_vars(Expire(p))
    /\ \A r \in Readers : WF_vars(ReadRows(r) \/ FillDocs(r) \/ EndRead(r))

-----------------------------------------------------------------------------
(* Properties.                                                             *)

\* Every variable keeps its type.
TypeOK ==
    /\ row \in [Posts -> States]
    /\ doc \in [Posts -> States]
    /\ lasting \in SUBSET Posts
    /\ adder \in [Posts -> {"new", "cache", "done"}]
    /\ remover \in [Removers -> Removal]
    /\ reader \in [Readers -> Reading]
    /\ hidden \in SUBSET Posts
    /\ raced \in SUBSET Posts

\* The cache never says more than the table: a document has a row, and a document with
\* deleted_at has a row with deleted_at (a live post is never hidden).
CacheBehindTable ==
    \A p \in Posts :
      /\ doc[p] # "none" => row[p] # "none"
      /\ doc[p] = "deleted" => row[p] = "deleted"

\* A completed read returns every post asked for that was live throughout, whatever was
\* cached, expired, failed or patched in the meantime, and returns no other post.
LivePostsReturned ==
    \A r \in Readers : reader[r].pc = "done" =>
      /\ \A p \in reader[r].due : row[p] = "live" => p \in reader[r].found
      /\ reader[r].found \subseteq {p \in reader[r].ids : row[p] # "none"}

\* A removal that was answered leaves no live document behind, unless a call to Redis
\* failed in it or a live document was written after the row was deleted.
RemovalReachesCache ==
    \A p \in hidden \ raced : doc[p] # "live"

\* However a live document survived, it does not outlive its time to live: a deleted post
\* stops being served, if its document has not lost that time (EXPIRE failed alone).
DeletedFadesOut ==
    \A p \in Posts :
      <>[](row[p] = "deleted") => <>[](doc[p] # "live") \/ []<>(p \in lasting)

\* A read that begins after a removal was answered does not return the post ("Deleted posts
\* should not be accessible till the end of TTL", postCacheWrapper.go:45), unless a patch
\* failed or a live document was written after the row was deleted: nothing else, no
\* expiry, eviction, restart or concurrent removal, brings a deleted post back.
DeletedNotServed ==
    \A r \in Readers : reader[r].pc = "done" => reader[r].found \cap reader[r].gone \subseteq raced
=============================================================================
