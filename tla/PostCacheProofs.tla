-------------------------- MODULE PostCacheProofs --------------------------
(***************************************************************************)
(* PostCache for any posts, readers and removers: the safety properties,   *)
(* from an invariant that also says what the requests under way know of    *)
(* the table.                                                              *)
(***************************************************************************)
EXTENDS PostCache, TLAPS

\* What requests have written or read is never ahead of the table.
RowInv ==
    /\ \A p \in Posts : adder[p] = "new" <=> row[p] = "none"
    /\ \A d \in Removers : remover[d].pc # "idle" =>
         /\ remover[d].post \in Posts
         /\ row[remover[d].post] # "none"
         /\ remover[d].pc # "row" => row[remover[d].post] = "deleted"
    /\ \A p \in hidden : row[p] = "deleted"

\* A read has found, or is still to find, every post that is due.
ReadInv ==
    \A r \in Readers :
      /\ reader[r].pc # "idle" =>
           /\ \A p \in reader[r].found \cup reader[r].due : row[p] # "none"
           /\ reader[r].found \subseteq reader[r].ids
      /\ reader[r].pc \in {"rows", "fill"} =>
           /\ reader[r].missed \subseteq reader[r].ids
           /\ \A p \in reader[r].due : row[p] = "live" =>
                p \in reader[r].found \cup reader[r].missed
      /\ reader[r].pc = "fill" => \A p \in reader[r].missed : row[p] # "none"
      /\ reader[r].pc = "done" =>
           \A p \in reader[r].due : row[p] = "live" => p \in reader[r].found

\* A read has found hidden posts only in documents that a race or a failure has left.
GoneInv ==
    \A r \in Readers :
      /\ reader[r].gone \subseteq hidden
      /\ reader[r].found \cap reader[r].gone \subseteq raced
      /\ reader[r].pc = "fill" => reader[r].missed \cap reader[r].gone = {}

IInv == TypeOK /\ RowInv /\ CacheBehindTable /\ ReadInv /\ RemovalReachesCache /\ GoneInv

-----------------------------------------------------------------------------
(* Type correctness.                                                       *)

\* The initial values have their types.
LEMMA InitType == Init => TypeOK
<1>1. IdleRemoval \in Removal /\ IdleReading \in Reading
  BY DEF IdleRemoval, Removal, IdleReading, Reading
<1>2. QED
  BY <1>1 DEF Init, TypeOK, States

\* A pipeline of documents keeps the types.
LEMMA WriteDocsType ==
  ASSUME TypeOK, NEW S \in SUBSET Posts, WriteDocs(S)
  PROVE  /\ doc' \in [Posts -> States]
         /\ lasting' \in SUBSET Posts
         /\ raced' \in SUBSET Posts
<1>1. PICK T \in SUBSET S : \E L \in SUBSET (T \cup (S \cap lasting)) :
        /\ doc' = [p \in Posts |-> IF p \in T THEN "live" ELSE doc[p]]
        /\ lasting' = (lasting \ S) \cup L
        /\ raced' = raced \cup {p \in T : row[p] = "deleted"}
  BY DEF WriteDocs
<1>2. QED
  BY <1>1 DEF TypeOK, States

\* The end of a removal keeps the types.
LEMMA AnsweredType ==
  ASSUME TypeOK, NEW d \in Removers, Answered(d), remover[d].post \in Posts
  PROVE  remover' \in [Removers -> Removal] /\ hidden' \in SUBSET Posts
<1>1. IdleRemoval \in Removal
  BY DEF IdleRemoval, Removal
<1>2. QED
  BY <1>1 DEF Answered, TypeOK

\* A removal goes on to its next statement.
LEMMA AdvanceType ==
  ASSUME TypeOK, NEW d \in Removers, NEW pc \in {"row", "exists", "get", "set"},
         remover' = [remover EXCEPT ![d].pc = pc]
  PROVE  remover' \in [Removers -> Removal]
<1>1. [remover[d] EXCEPT !.pc = pc] \in Removal
  <2>1. remover[d] \in Removal
    BY DEF TypeOK
  <2>2. QED
    BY <2>1 DEF Removal
<1>2. QED
  BY <1>1 DEF TypeOK

\* The steps of an addition keep the types.
LEMMA AddType ==
  ASSUME TypeOK, NEW p \in Posts, Add(p)
  PROVE  TypeOK'
<1>1. CASE AddRow(p)
  BY <1>1 DEF AddRow, TypeOK, States
<1>2. CASE AddDoc(p)
  BY <1>2, WriteDocsType DEF AddDoc, TypeOK
<1>3. QED
  BY <1>1, <1>2 DEF Add

\* The steps of a removal keep the types.
LEMMA RemoveType ==
  ASSUME TypeOK, RowInv, NEW d \in Removers, Remove(d)
  PROVE  TypeOK'
<1>1. IdleRemoval \in Removal
  BY DEF IdleRemoval, Removal
<1>2. remover[d].pc # "idle" => remover[d].post \in Posts
  BY DEF RowInv
<1>3. CASE StartRemoval(d)
  BY <1>3 DEF StartRemoval, TypeOK, Removal
<1>4. CASE RemoveRow(d)
  <2>1. row' \in [Posts -> States]
    BY <1>4 DEF RemoveRow, TypeOK, States
  <2>2. QED
    BY <1>4, <2>1, AdvanceType DEF RemoveRow, TypeOK
<1>5. CASE RemoveRowFailed(d)
  <2>1. row' \in [Posts -> States]
    BY <1>5 DEF RemoveRowFailed, TypeOK, States
  <2>2. QED
    BY <1>1, <1>5, <2>1 DEF RemoveRowFailed, TypeOK
<1>6. CASE TestDoc(d)
  BY <1>2, <1>6, AnsweredType, AdvanceType DEF TestDoc, TypeOK
<1>7. CASE GetDoc(d)
  BY <1>2, <1>7, AnsweredType, AdvanceType DEF GetDoc, TypeOK
<1>8. CASE PatchDoc(d)
  <2>1. doc' \in [Posts -> States]
    BY <1>8 DEF PatchDoc, TypeOK, States
  <2>2. QED
    BY <1>2, <1>8, <2>1, AnsweredType DEF PatchDoc, TypeOK
<1>9. CASE PatchFailed(d)
  BY <1>2, <1>9, AnsweredType DEF PatchFailed, TypeOK
<1>10. QED
  BY <1>3, <1>4, <1>5, <1>6, <1>7, <1>8, <1>9 DEF Remove

\* The steps of a read keep the types.
LEMMA ReadType ==
  ASSUME TypeOK, NEW r \in Readers, Read(r)
  PROVE  TypeOK'
<1>1. reader[r] \in Reading
  BY DEF TypeOK
<1>2. CASE ReadDocs(r) \/ ReadDocsFailed(r)
  <2>1. PICK x \in Reading : reader' = [reader EXCEPT ![r] = x]
    BY <1>2 DEF ReadDocs, ReadDocsFailed, Reading, TypeOK
  <2>2. QED
    BY <1>2, <2>1 DEF ReadDocs, ReadDocsFailed, TypeOK
<1>3. CASE ReadRows(r)
  <2>1. [reader[r] EXCEPT !.pc = "fill", !.missed = {p \in reader[r].missed : row[p] = "live"}]
          \in Reading
    BY <1>1 DEF Reading
  <2>2. QED
    BY <1>3, <2>1 DEF ReadRows, TypeOK
<1>4. CASE FillDocs(r)
  <2>1. [reader[r] EXCEPT !.pc = "done", !.found = reader[r].found \cup reader[r].missed]
          \in Reading
    BY <1>1 DEF Reading
  <2>2. reader[r].missed \in SUBSET Posts
    BY <1>1 DEF Reading
  <2>3. QED
    BY <1>4, <2>1, <2>2, WriteDocsType DEF FillDocs, TypeOK
<1>5. CASE EndRead(r)
  <2>1. IdleReading \in Reading
    BY DEF IdleReading, Reading
  <2>2. QED
    BY <1>5, <2>1 DEF EndRead, TypeOK
<1>6. QED
  BY <1>2, <1>3, <1>4, <1>5 DEF Read

\* Every step keeps the types.
LEMMA TypeStep == TypeOK /\ RowInv /\ [Next]_vars => TypeOK'
<1> SUFFICES ASSUME TypeOK, RowInv, [Next]_vars PROVE TypeOK'
  OBVIOUS
<1>1. ASSUME NEW p \in Posts, Expire(p) \/ Evict(p) PROVE TypeOK'
  BY <1>1 DEF Expire, Evict, DropDoc, TypeOK, States
<1>2. CASE Crash
  <2>1. IdleRemoval \in Removal /\ IdleReading \in Reading
    BY DEF IdleRemoval, Removal, IdleReading, Reading
  <2>2. QED
    BY <1>2, <2>1 DEF Crash, TypeOK
<1>3. CASE UNCHANGED vars
  BY <1>3 DEF vars, TypeOK
<1>4. QED
  BY <1>1, <1>2, <1>3, AddType, RemoveType, ReadType DEF Next

-----------------------------------------------------------------------------
(* The table.                                                              *)

\* A row is added once, and stays deleted once it is.
Moves(p) ==
    \/ row'[p] = row[p]
    \/ row[p] = "none" /\ row'[p] = "live"
    \/ row[p] # "none" /\ row'[p] = "deleted"

\* A row appears once, is deleted once, and changes in no other way.
LEMMA RowMoves ==
  ASSUME TypeOK, RowInv, [Next]_vars
  PROVE  \A p \in Posts : Moves(p)
<1>1. ASSUME NEW q \in Posts, AddRow(q) PROVE \A p \in Posts : Moves(p)
  BY <1>1 DEF AddRow, RowInv, TypeOK, Moves
<1>2. ASSUME NEW d \in Removers, RemoveRow(d) \/ RemoveRowFailed(d)
      PROVE  \A p \in Posts : Moves(p)
  <2>1. row' \in {row, [row EXCEPT ![remover[d].post] = "deleted"]}
        /\ remover[d].post \in Posts /\ row[remover[d].post] # "none"
    BY <1>2 DEF RemoveRow, RemoveRowFailed, RowInv
  <2>2. QED
    BY <2>1 DEF TypeOK, Moves
<1>3. CASE UNCHANGED row
  BY <1>3 DEF Moves
<1>4. QED
  BY <1>1, <1>2, <1>3 DEF Next, Add, Remove, Read, AddDoc, StartRemoval, TestDoc, GetDoc,
     PatchDoc, PatchFailed, ReadDocs, ReadDocsFailed, ReadRows, FillDocs, EndRead, Expire,
     Evict, DropDoc, Crash, vars

\* Every step keeps what requests know of the table.
LEMMA RowStep == TypeOK /\ RowInv /\ [Next]_vars => RowInv'
<1> SUFFICES ASSUME TypeOK, RowInv, [Next]_vars PROVE RowInv'
  OBVIOUS
<1>1. \A p \in Posts : (row[p] # "none" => row'[p] # "none")
                       /\ (row[p] = "deleted" => row'[p] = "deleted")
  BY RowMoves DEF Moves
<1>2. ASSUME NEW p \in Posts, Add(p) PROVE RowInv'
  <2>1. UNCHANGED <<remover, hidden>>
    BY <1>2 DEF Add, AddRow, AddDoc
  <2>2. \A q \in Posts : adder'[q] = "new" <=> row'[q] = "none"
    BY <1>2 DEF Add, AddRow, AddDoc, RowInv, TypeOK
  <2>3. QED
    BY <1>1, <2>1, <2>2 DEF RowInv, TypeOK
<1>3. ASSUME NEW d \in Removers, Remove(d) PROVE RowInv'
  <2>1. \A c \in Removers \ {d} : remover'[c] = remover[c]
    BY <1>3 DEF Remove, StartRemoval, RemoveRow, RemoveRowFailed, TestDoc, GetDoc, PatchDoc,
       PatchFailed, Answered, TypeOK
  <2>2. remover'[d].pc # "idle" =>
          /\ remover'[d].post \in Posts
          /\ row'[remover'[d].post] # "none"
          /\ remover'[d].pc # "row" => row'[remover'[d].post] = "deleted"
    <3>1. CASE StartRemoval(d)
      BY <3>1 DEF StartRemoval, TypeOK
    <3>2. CASE RemoveRow(d)
      BY <3>2 DEF RemoveRow, RowInv, TypeOK, Removal
    <3>3. CASE TestDoc(d) \/ GetDoc(d)
      BY <3>3 DEF TestDoc, GetDoc, Answered, IdleRemoval, RowInv, TypeOK, Removal
    <3>4. CASE RemoveRowFailed(d) \/ PatchDoc(d) \/ PatchFailed(d)
      BY <3>4 DEF RemoveRowFailed, PatchDoc, PatchFailed, Answered, IdleRemoval, TypeOK
    <3>5. QED
      BY <1>3, <3>1, <3>2, <3>3, <3>4 DEF Remove
  <2>3. \A p \in hidden' : row'[p] = "deleted"
    <3>1. hidden' = hidden \/ (hidden' = hidden \cup {remover[d].post}
                               /\ remover[d].pc \in {"exists", "get", "set"})
      BY <1>3 DEF Remove, StartRemoval, RemoveRow, RemoveRowFailed, TestDoc, GetDoc,
         PatchDoc, PatchFailed, Answered
    <3>2. \A p \in hidden' : row[p] = "deleted" /\ p \in Posts
      BY <3>1 DEF RowInv, TypeOK
    <3>3. QED
      BY <1>1, <3>2
  <2>4. \A q \in Posts : adder'[q] = "new" <=> row'[q] = "none"
    <3>1. UNCHANGED adder
      BY <1>3 DEF Remove, StartRemoval, RemoveRow, RemoveRowFailed, TestDoc, GetDoc, PatchDoc,
         PatchFailed
    <3>2. \A q \in Posts : row'[q] = "none" <=> row[q] = "none"
      <4>1. ~ \E q \in Posts : row[q] = "none" /\ row'[q] = "live"
        BY <1>3 DEF Remove, StartRemoval, RemoveRow, RemoveRowFailed, TestDoc, GetDoc,
           PatchDoc, PatchFailed, TypeOK
      <4>2. QED
        BY <4>1, RowMoves DEF Moves
    <3>3. QED
      BY <3>1, <3>2 DEF RowInv
  <2>5. \A c \in Removers \ {d} : remover'[c].pc # "idle" =>
          /\ remover'[c].post \in Posts
          /\ row'[remover'[c].post] # "none"
          /\ remover'[c].pc # "row" => row'[remover'[c].post] = "deleted"
    BY <1>1, <2>1 DEF RowInv
  <2>6. QED
    BY <2>2, <2>3, <2>4, <2>5 DEF RowInv
<1>4. CASE Crash
  BY <1>4 DEF Crash, RowInv, TypeOK, IdleRemoval
<1>5. CASE UNCHANGED <<row, adder, remover, hidden>>
  BY <1>5 DEF RowInv
<1>6. QED
  BY <1>2, <1>3, <1>4, <1>5 DEF Next, Read, ReadDocs, ReadDocsFailed, ReadRows, FillDocs,
     EndRead, Expire, Evict, DropDoc, vars

-----------------------------------------------------------------------------
(* The documents.                                                          *)

\* What a step does to the documents.
LEMMA DocSteps ==
  ASSUME TypeOK, RowInv, ReadInv, [Next]_vars
  PROVE  \/ UNCHANGED <<doc, raced, hidden>>
         \/ UNCHANGED <<doc, hidden>> /\ raced \subseteq raced'
         \/ /\ UNCHANGED <<row, hidden>>
            /\ \E S \in SUBSET {p \in Posts : row[p] # "none"} : WriteDocs(S)
         \/ \E p \in Posts :
              /\ UNCHANGED <<row, raced, hidden>>
              /\ doc' = [doc EXCEPT ![p] = "none"]
         \/ \E d \in Removers : TestDoc(d) \/ GetDoc(d) \/ PatchDoc(d) \/ PatchFailed(d)
<1>1. ASSUME NEW p \in Posts, AddDoc(p)
      PROVE  UNCHANGED <<row, hidden>>
             /\ \E S \in SUBSET {q \in Posts : row[q] # "none"} : WriteDocs(S)
  <2>1. {p} \in SUBSET {q \in Posts : row[q] # "none"}
    BY <1>1 DEF AddDoc, RowInv
  <2>2. QED
    BY <1>1, <2>1 DEF AddDoc
<1>2. ASSUME NEW r \in Readers, FillDocs(r)
      PROVE  UNCHANGED <<row, hidden>>
             /\ \E S \in SUBSET {q \in Posts : row[q] # "none"} : WriteDocs(S)
  <2>1. reader[r].missed \in SUBSET {q \in Posts : row[q] # "none"}
    BY <1>2 DEF FillDocs, ReadInv, TypeOK, Reading
  <2>2. QED
    BY <1>2, <2>1 DEF FillDocs
<1>3. ASSUME NEW p \in Posts, Expire(p) \/ Evict(p)
      PROVE  UNCHANGED <<row, raced, hidden>> /\ doc' = [doc EXCEPT ![p] = "none"]
  BY <1>3 DEF Expire, Evict, DropDoc
<1>4. QED
  BY <1>1, <1>2, <1>3 DEF Next, Add, Remove, Read, AddRow, StartRemoval, RemoveRow,
     RemoveRowFailed, ReadDocs, ReadDocsFailed, ReadRows, EndRead, Crash, vars

\* Every step keeps the cache behind the table, and removals on their way to it.
LEMMA DocStep ==
  ASSUME TypeOK, RowInv, ReadInv, CacheBehindTable, RemovalReachesCache, [Next]_vars
  PROVE  CacheBehindTable' /\ RemovalReachesCache'
<1>1. \A p \in Posts : (row[p] # "none" => row'[p] # "none")
                       /\ (row[p] = "deleted" => row'[p] = "deleted")
  BY RowMoves DEF Moves
<1>2. CASE UNCHANGED <<doc, hidden>> /\ raced \subseteq raced'
  BY <1>1, <1>2 DEF CacheBehindTable, RemovalReachesCache
<1>3. ASSUME UNCHANGED <<row, hidden>>,
             NEW S \in SUBSET {p \in Posts : row[p] # "none"}, WriteDocs(S)
      PROVE  CacheBehindTable' /\ RemovalReachesCache'
  <2>1. PICK T \in SUBSET S :
          /\ doc' = [p \in Posts |-> IF p \in T THEN "live" ELSE doc[p]]
          /\ raced' = raced \cup {p \in T : row[p] = "deleted"}
    BY <1>3 DEF WriteDocs
  <2>2. CacheBehindTable'
    BY <1>3, <2>1 DEF CacheBehindTable
  <2>3. RemovalReachesCache'
    BY <1>3, <2>1 DEF RemovalReachesCache, RowInv, TypeOK
  <2>4. QED
    BY <2>2, <2>3
<1>4. ASSUME NEW q \in Posts, UNCHANGED <<row, raced, hidden>>,
             doc' = [doc EXCEPT ![q] = "none"]
      PROVE  CacheBehindTable' /\ RemovalReachesCache'
  BY <1>4 DEF CacheBehindTable, RemovalReachesCache, TypeOK
<1>5. ASSUME NEW d \in Removers, TestDoc(d) \/ GetDoc(d)
      PROVE  CacheBehindTable' /\ RemovalReachesCache'
  <2>1. UNCHANGED <<row, doc, raced>>
        /\ hidden' \in {hidden, hidden \cup {remover[d].post}}
        /\ (hidden' # hidden => doc[remover[d].post] # "live")
    BY <1>5 DEF TestDoc, GetDoc, Answered
  <2>2. QED
    BY <2>1 DEF CacheBehindTable, RemovalReachesCache
<1>6. ASSUME NEW d \in Removers, PatchDoc(d)
      PROVE  CacheBehindTable' /\ RemovalReachesCache'
  <2>1. /\ UNCHANGED <<row, raced>> /\ hidden' = hidden \cup {remover[d].post}
        /\ remover[d].post \in Posts /\ row[remover[d].post] = "deleted"
    BY <1>6 DEF PatchDoc, Answered, RowInv
  <2>2. \A p \in Posts : doc'[p] = IF p = remover[d].post /\ doc[p] # "none" THEN "deleted"
                                   ELSE doc[p]
    BY <1>6 DEF PatchDoc, TypeOK
  <2>3. QED
    BY <2>1, <2>2 DEF CacheBehindTable, RemovalReachesCache, TypeOK
<1>7. ASSUME NEW d \in Removers, PatchFailed(d)
      PROVE  CacheBehindTable' /\ RemovalReachesCache'
  BY <1>7 DEF PatchFailed, Answered, CacheBehindTable, RemovalReachesCache
<1>8. QED
  BY <1>2, <1>3, <1>4, <1>5, <1>6, <1>7, DocSteps

-----------------------------------------------------------------------------
(* The reads.                                                              *)

\* What ReadInv says of one read x, with the table t.
ReadGood(x, t) ==
    /\ x.pc # "idle" =>
         /\ \A p \in x.found \cup x.due : t[p] # "none"
         /\ x.found \subseteq x.ids
    /\ x.pc \in {"rows", "fill"} =>
         /\ x.missed \subseteq x.ids
         /\ \A p \in x.due : t[p] = "live" => p \in x.found \cup x.missed
    /\ x.pc = "fill" => \A p \in x.missed : t[p] # "none"
    /\ x.pc = "done" => \A p \in x.due : t[p] = "live" => p \in x.found

\* A read stays good while the table moves on.
LEMMA ReadStaysGood ==
  ASSUME TypeOK, RowInv, [Next]_vars, NEW x \in Reading, ReadGood(x, row)
  PROVE  ReadGood(x, row')
<1>1. \A p \in Posts : row[p] # "none" =>
        row'[p] # "none" /\ (row'[p] = "live" => row[p] = "live")
  BY RowMoves DEF Moves
<1>2. x.found \subseteq Posts /\ x.due \subseteq Posts /\ x.missed \subseteq Posts
  BY DEF Reading
<1>3. QED
  BY <1>1, <1>2 DEF ReadGood

\* The step of a read itself.
LEMMA ReadStep ==
  ASSUME TypeOK, CacheBehindTable, NEW r \in Readers, ReadGood(reader[r], row), Read(r)
  PROVE  row' = row /\ ReadGood(reader'[r], row)
<1>0. reader[r] \in Reading /\ row' = row
  BY DEF TypeOK, Read, ReadDocs, ReadDocsFailed, ReadRows, FillDocs, EndRead
<1>1. CASE ReadDocs(r)
  <2>1. PICK ids \in SUBSET Posts :
          LET missed == {p \in ids : doc[p] = "none"}
          IN  reader'[r] = [pc     |-> IF missed = {} THEN "done" ELSE "rows",
                            ids    |-> ids,
                            found  |-> {p \in ids : doc[p] = "live"},
                            missed |-> missed,
                            due    |-> {p \in ids : row[p] = "live"},
                            gone   |-> ids \cap hidden]
    BY <1>1 DEF ReadDocs, TypeOK
  <2>2. \A p \in ids : /\ doc[p] \in {"none", "live", "deleted"}
                       /\ doc[p] = "live" => row[p] # "none"
                       /\ doc[p] = "deleted" => row[p] = "deleted"
    BY DEF CacheBehindTable, TypeOK, States
  <2>3. QED
    BY <1>0, <2>1, <2>2 DEF ReadGood
<1>2. CASE ReadDocsFailed(r)
  BY <1>0, <1>2 DEF ReadDocsFailed, ReadGood, TypeOK
<1>3. CASE ReadRows(r)
  <2>1. reader'[r] = [reader[r] EXCEPT !.pc = "fill",
                        !.missed = {p \in reader[r].missed : row[p] = "live"}]
        /\ reader[r].pc = "rows"
    BY <1>3 DEF ReadRows, TypeOK
  <2>2. QED
    BY <1>0, <2>1 DEF ReadGood, Reading
<1>4. CASE FillDocs(r)
  <2>1. reader'[r] = [reader[r] EXCEPT !.pc = "done",
                        !.found = reader[r].found \cup reader[r].missed]
        /\ reader[r].pc = "fill"
    BY <1>4 DEF FillDocs, TypeOK
  <2>2. QED
    BY <1>0, <2>1 DEF ReadGood, Reading
<1>5. CASE EndRead(r)
  BY <1>0, <1>5 DEF EndRead, ReadGood, TypeOK, IdleReading
<1>6. QED
  BY <1>0, <1>1, <1>2, <1>3, <1>4, <1>5 DEF Read

\* Every step keeps what the reads have found or are to find.
LEMMA ReadersStep ==
  ASSUME TypeOK, RowInv, CacheBehindTable, ReadInv, [Next]_vars
  PROVE  ReadInv'
<1> SUFFICES ASSUME NEW r \in Readers PROVE ReadGood(reader'[r], row')
  BY DEF ReadInv, ReadGood
<1>1. ReadGood(reader[r], row) /\ reader[r] \in Reading
  BY DEF ReadInv, ReadGood, TypeOK
<1>2. CASE Read(r)
  BY <1>1, <1>2, ReadStep
<1>3. CASE Crash
  BY <1>3 DEF Crash, ReadGood, IdleReading
<1>4. CASE reader'[r] = reader[r]
  BY <1>1, <1>4, ReadStaysGood
<1>5. ASSUME NEW c \in Readers \ {r}, Read(c) PROVE reader'[r] = reader[r]
  BY <1>5 DEF Read, ReadDocs, ReadDocsFailed, ReadRows, FillDocs, EndRead, TypeOK
<1>6. \/ Crash \/ UNCHANGED reader \/ \E c \in Readers : Read(c)
  BY DEF Next, Add, Remove, AddRow, AddDoc, StartRemoval, RemoveRow, RemoveRowFailed, TestDoc,
     GetDoc, PatchDoc, PatchFailed, Expire, Evict, DropDoc, vars
<1>7. QED
  BY <1>2, <1>3, <1>4, <1>5, <1>6

-----------------------------------------------------------------------------
(* Hidden posts in reads.                                                  *)

\* What is hidden stays so, and a race is not forgotten.
LEMMA HistoriesGrow ==
  ASSUME [Next]_vars
  PROVE  hidden \subseteq hidden' /\ raced \subseteq raced'
BY DEF Next, Add, Remove, Read, AddRow, AddDoc, WriteDocs, StartRemoval, RemoveRow,
   RemoveRowFailed, TestDoc, GetDoc, PatchDoc, PatchFailed, Answered, ReadDocs,
   ReadDocsFailed, ReadRows, FillDocs, EndRead, Expire, Evict, DropDoc, Crash, vars

\* The step of a read itself: only a document that is live by a race shows a hidden post.
LEMMA GoneStep ==
  ASSUME TypeOK, RowInv, RemovalReachesCache, GoneInv, NEW r \in Readers, Read(r)
  PROVE  /\ reader'[r].gone \subseteq hidden
         /\ reader'[r].found \cap reader'[r].gone \subseteq raced
         /\ reader'[r].pc = "fill" => reader'[r].missed \cap reader'[r].gone = {}
<1>1. reader[r] \in Reading /\ \A p \in hidden : row[p] = "deleted"
  BY DEF TypeOK, RowInv
<1>2. CASE ReadDocs(r)
  <2>1. PICK ids \in SUBSET Posts :
          LET missed == {p \in ids : doc[p] = "none"}
          IN  reader'[r] = [pc     |-> IF missed = {} THEN "done" ELSE "rows",
                            ids    |-> ids,
                            found  |-> {p \in ids : doc[p] = "live"},
                            missed |-> missed,
                            due    |-> {p \in ids : row[p] = "live"},
                            gone   |-> ids \cap hidden]
    BY <1>2 DEF ReadDocs, TypeOK
  <2>2. QED
    BY <2>1 DEF RemovalReachesCache
<1>3. CASE ReadDocsFailed(r)
  BY <1>3 DEF ReadDocsFailed, TypeOK
<1>4. CASE ReadRows(r)
  <2>1. reader'[r] = [reader[r] EXCEPT !.pc = "fill",
                        !.missed = {p \in reader[r].missed : row[p] = "live"}]
    BY <1>4 DEF ReadRows, TypeOK
  <2>2. QED
    BY <1>1, <2>1 DEF GoneInv, Reading
<1>5. CASE FillDocs(r)
  <2>1. reader'[r] = [reader[r] EXCEPT !.pc = "done",
                        !.found = reader[r].found \cup reader[r].missed]
        /\ reader[r].pc = "fill"
    BY <1>5 DEF FillDocs, TypeOK
  <2>2. QED
    BY <1>1, <2>1 DEF GoneInv, Reading
<1>6. CASE EndRead(r)
  BY <1>6 DEF EndRead, TypeOK, IdleReading
<1>7. QED
  BY <1>2, <1>3, <1>4, <1>5, <1>6 DEF Read

\* Every step keeps hidden posts out of the reads.
LEMMA GonesStep ==
  ASSUME TypeOK, RowInv, RemovalReachesCache, GoneInv, [Next]_vars
  PROVE  GoneInv'
<1> SUFFICES ASSUME NEW r \in Readers
             PROVE  /\ reader'[r].gone \subseteq hidden'
                    /\ reader'[r].found \cap reader'[r].gone \subseteq raced'
                    /\ reader'[r].pc = "fill" => reader'[r].missed \cap reader'[r].gone = {}
  BY DEF GoneInv
<1>1. CASE Read(r)
  BY <1>1, GoneStep, HistoriesGrow
<1>2. CASE Crash
  BY <1>2 DEF Crash, IdleReading
<1>3. CASE reader'[r] = reader[r]
  BY <1>3, HistoriesGrow DEF GoneInv
<1>4. ASSUME NEW c \in Readers \ {r}, Read(c) PROVE reader'[r] = reader[r]
  BY <1>4 DEF Read, ReadDocs, ReadDocsFailed, ReadRows, FillDocs, EndRead, TypeOK
<1>5. \/ Crash \/ UNCHANGED reader \/ \E c \in Readers : Read(c)
  BY DEF Next, Add, Remove, AddRow, AddDoc, StartRemoval, RemoveRow, RemoveRowFailed, TestDoc,
     GetDoc, PatchDoc, PatchFailed, Expire, Evict, DropDoc, vars
<1>6. QED
  BY <1>1, <1>2, <1>3, <1>4, <1>5

-----------------------------------------------------------------------------
(* The theorems.                                                           *)

\* The initial states satisfy the invariant.
LEMMA InitInv == Init => IInv
<1> SUFFICES ASSUME Init PROVE IInv
  OBVIOUS
<1>1. RowInv /\ CacheBehindTable /\ ReadInv /\ RemovalReachesCache /\ GoneInv
  BY DEF Init, RowInv, CacheBehindTable, ReadInv, RemovalReachesCache, GoneInv, IdleRemoval,
         IdleReading
<1>2. QED
  BY <1>1, InitType DEF IInv

\* Every step keeps the invariant.
LEMMA StepInv == IInv /\ [Next]_vars => IInv'
BY TypeStep, RowStep, DocStep, ReadersStep, GonesStep DEF IInv

\* The inductive invariant holds throughout.
THEOREM Invariance == Spec => []IInv
BY InitInv, StepInv, PTL DEF Spec

\* Requests, rows, documents and what a read remembers keep their types.
THEOREM TypeCorrect == Spec => []TypeOK
<1>1. IInv => TypeOK
  BY DEF IInv
<1>2. QED
  BY <1>1, Invariance, PTL

\* The cache never hides a live post and never holds one that has no row.
THEOREM CacheStaysBehind == Spec => []CacheBehindTable
<1>1. IInv => CacheBehindTable
  BY DEF IInv
<1>2. QED
  BY <1>1, Invariance, PTL

\* Every read that completes is complete, whatever the cache did.
THEOREM ReadsComplete == Spec => []LivePostsReturned
<1>1. IInv => LivePostsReturned
  BY DEF IInv, ReadInv, LivePostsReturned, TypeOK, Reading
<1>2. QED
  BY <1>1, Invariance, PTL

\* Only failed calls and late writes leave a live document of a removed post.
THEOREM RemovalsReachCache == Spec => []RemovalReachesCache
<1>1. IInv => RemovalReachesCache
  BY DEF IInv
<1>2. QED
  BY <1>1, Invariance, PTL

\* A read returns a post whose removal was answered only after a failed patch or a late write.
THEOREM DeletedStayHidden == Spec => []DeletedNotServed
<1>1. IInv => DeletedNotServed
  BY DEF IInv, GoneInv, DeletedNotServed
<1>2. QED
  BY <1>1, Invariance, PTL
=============================================================================
