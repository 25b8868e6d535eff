------------------------ MODULE FollowerCacheProofs ------------------------
(***************************************************************************)
(* The safety properties of FollowerCache for any users and requests.      *)
(*                                                                         *)
(* The argument: a user who is not shaky has at most one change under way, *)
(* and that one is going to write what the table says; what a fill has     *)
(* read of him is what the table says.                                     *)
(***************************************************************************)
EXTENDS FollowerCache, TLAPS

\* Request c has changed a row and not come to the list.
Changing(c) == call[c].user \in Users /\ call[c].pc \in {"exists", "write"}

\* Request c reads, and has no answer.
Reading(c) == call[c].op = "get" /\ call[c].pc \in {"exists", "join", "wait", "members"}

\* A change is of a user.
OpInv ==
    \A c \in Calls :
        /\ call[c].pc \in {"exists", "write"} => call[c].op # "none"
        /\ call[c].pc \in {"exists", "write"} => (call[c].op = "get" \/ call[c].user \in Users)
        /\ call[c].op = "get" => call[c].user = NoUser
        /\ call[c].pc = "write" => call[c].user \in Users /\ call[c].op \in {"sub", "unsub"}
        /\ call[c].pc = "members" => call[c].op = "get"

\* What a change is going to write is true, and no other change is under way.
ChangeInv ==
    \A c \in Calls : (Changing(c) /\ call[c].user \notin shaky) =>
        /\ call[c].op = "sub" <=> call[c].user \in subs
        /\ \A d \in Calls : Changing(d) /\ call[d].user = call[c].user => d = c

\* What the fill has read is true.
FillInv ==
    flight.pc = "set" => \A u \in Users \ shaky : u \in flight.read <=> u \in subs

\* Who is due to a read follows, and no change of him is under way.
DueInv ==
    \A c \in Calls : Reading(c) => call[c].due \subseteq {u \in subs : ~Pending(u)}

\* An answer on its way is complete but for the users whose rows have changed since, and
\* whoever waits for it is due none of them.
AnswerInv ==
    /\ flight.pc # "answer" => flight.late = {}
    /\ (flight.pc = "answer" /\ flight.read # {}) =>
          \A u \in Users \ (shaky \cup flight.late) : u \in subs => u \in flight.read
    /\ \A c \in Calls : (call[c].pc = "wait" /\ call[c].op = "get" /\ flight.pc = "answer") =>
          call[c].due \cap flight.late = {}

IInv == /\ TypeOK /\ OpInv /\ ChangeInv /\ FillInv /\ DueInv /\ ListInSync /\ ReadsComplete
        /\ AnswerInv

-----------------------------------------------------------------------------
\* The initial states satisfy the invariant.
LEMMA InitInv == Init => IInv
  <1> SUFFICES ASSUME Init PROVE IInv
      OBVIOUS
  <1>1. TypeOK
        BY DEF Init, TypeOK, Idle, Call, NoFlight, Flight
  <1>2. OpInv /\ ChangeInv /\ FillInv /\ DueInv /\ AnswerInv
        BY DEF Init, Idle, NoFlight, OpInv, ChangeInv, Changing, FillInv, DueInv, Reading, AnswerInv
  <1>3. ListInSync /\ ReadsComplete
        BY DEF Init, Idle, ListInSync, ReadsComplete
  <1> QED BY <1>1, <1>2, <1>3 DEF IInv

\* The fields of a request.
LEMMA CallFields ==
    ASSUME TypeOK, NEW c \in Calls
    PROVE  /\ call[c] \in Call
           /\ call[c].user \in Users \cup {NoUser}
           /\ call[c].due \in SUBSET Users
           /\ call[c].got \in SUBSET Users
  BY DEF TypeOK, Call

\* New requests.
LEMMA NewCalls ==
    /\ Idle \in Call
    /\ \A u \in Users : [Idle EXCEPT !.pc = "exists", !.op = "sub", !.user = u] \in Call
    /\ \A u \in Users : [Idle EXCEPT !.pc = "exists", !.op = "unsub", !.user = u] \in Call
    /\ \A S \in SUBSET Users : [Idle EXCEPT !.pc = "exists", !.op = "get", !.due = S] \in Call
  BY DEF Idle, Call

\* Later states of a request.
LEMMA NextCalls ==
    ASSUME TypeOK, NEW c \in Calls
    PROVE  /\ \A p \in {"write", "join", "wait", "members"} : [call[c] EXCEPT !.pc = p] \in Call
           /\ \A S \in SUBSET Users : [call[c] EXCEPT !.pc = "answered", !.got = S] \in Call
           /\ \A u : [call[c] EXCEPT !.due = @ \ {u}] \in Call
           /\ \A S : [call[c] EXCEPT !.pc = "wait", !.due = @ \ S] \in Call
  BY CallFields DEF Call

\* A change of a row leaves alone what the fill has read.
LEMMA OutdatesFlight ==
    ASSUME TypeOK, NEW u \in Users, Outdates(u)
    PROVE  /\ flight' \in Flight
           /\ flight'.pc = flight.pc
           /\ flight'.read = flight.read
           /\ flight'.late = IF flight.pc = "answer" THEN flight.late \cup {u} ELSE flight.late
  <1>1. flight \in Flight
        BY DEF TypeOK
  <1> QED BY <1>1 DEF Outdates, Flight

\* Every action keeps the types.
LEMMA TypeInv == ASSUME TypeOK, OpInv, [Next]_vars PROVE TypeOK'
  <1> USE DEF TypeOK
  <1>1. ASSUME NEW c \in Calls, NEW u \in Users, Subscribe(c, u) PROVE TypeOK'
        BY <1>1, NewCalls, OutdatesFlight DEF Subscribe
  <1>2. ASSUME NEW c \in Calls, NEW u \in Users, Unsubscribe(c, u) PROVE TypeOK'
    <2>1. Steady(call, u) \in [Calls -> Call]
          BY NextCalls DEF Steady
    <2>2. call' \in [Calls -> Call]
          BY <1>2, <2>1, NewCalls DEF Unsubscribe
    <2> QED BY <1>2, <2>2, OutdatesFlight DEF Unsubscribe
  <1>3. ASSUME NEW c \in Calls, GetSubs(c) PROVE TypeOK'
        BY <1>3, NewCalls DEF GetSubs
  <1>4. ASSUME NEW c \in Calls, TestList(c) PROVE TypeOK'
    <2> DEFINE p == IF list = {} THEN "join" ELSE IF call[c].op = "get" THEN "members" ELSE "write"
    <2>1. [call[c] EXCEPT !.pc = p] \in Call
          BY NextCalls
    <2> QED BY <1>4, <2>1 DEF TestList
  <1>5. ASSUME NEW c \in Calls, TestFailed(c) PROVE TypeOK'
        BY <1>5, NewCalls, NextCalls, CallFields DEF TestFailed, OpInv
  <1>6. ASSUME NEW c \in Calls, WriteList(c) \/ WriteFailed(c) PROVE TypeOK'
    <2>1. ListAfter(c) \in SUBSET Users
          BY <1>6 DEF ListAfter, WriteList, WriteFailed, OpInv
    <2> QED BY <1>6, <2>1, NewCalls DEF WriteList, WriteFailed, OpInv
  <1>7. ASSUME NEW c \in Calls, ReadMembers(c) PROVE TypeOK'
    <2>1. [call[c] EXCEPT !.pc = "answered", !.got = list] \in Call
          BY NextCalls
    <2> QED BY <1>7, <2>1 DEF ReadMembers
  <1>8. ASSUME NEW c \in Calls, ReadMembersFailed(c) \/ Abandon(c) \/ Return(c) PROVE TypeOK'
        BY <1>8, NewCalls, NextCalls DEF ReadMembersFailed, Abandon, Return
  <1>9. ASSUME NEW c \in Calls, Join(c) PROVE TypeOK'
        BY <1>9, NextCalls DEF Join, Flight, NoFlight
  <1>10. ASSUME NEW S \in SUBSET Users, AnswerAll(S) PROVE call' \in [Calls -> Call]
        BY <1>10, NewCalls, NextCalls DEF AnswerAll
  <1>11. CASE FlightLookup \/ FlightGetFailed \/ FlightRepo
        BY <1>11 DEF FlightLookup, FlightGetFailed, FlightRepo, Flight
  <1>12. CASE FlightMembers \/ FlightSet
        BY <1>12 DEF FlightMembers, FlightSet, Flight
  <1>13. CASE FlightAnswer
        BY <1>10, <1>13 DEF FlightAnswer, Flight, NoFlight
  <1>14. CASE FlightRepoFailed
        BY <1>14, NewCalls DEF FlightRepoFailed, Flight, NoFlight
  <1>15. CASE Evict
        BY <1>15 DEF Evict
  <1>16. CASE Crash
        BY <1>16, NewCalls DEF Crash, Flight, NoFlight
  <1>17. CASE UNCHANGED vars
        BY <1>17 DEF vars
  <1>18. ASSUME NEW u \in Users, ChangeLost(u) PROVE TypeOK'
        BY <1>18, NextCalls, OutdatesFlight DEF ChangeLost, Steady
  <1> QED BY <1>1, <1>2, <1>3, <1>4, <1>5, <1>6, <1>7, <1>8, <1>9, <1>11, <1>12, <1>13, <1>14,
             <1>15, <1>16, <1>17, <1>18 DEF Next, Fill
-----------------------------------------------------------------------------
\* The parts of the invariant besides the types.
Rest == OpInv /\ ChangeInv /\ FillInv /\ DueInv /\ ListInSync /\ ReadsComplete

\* Request c did nothing, or nothing that matters: it was no change on its way.
Quiet(c) ==
    \/ call'[c] = call[c]
    \/ /\ call[c].pc \notin {"exists", "write"}
       /\ \/ call'[c] = Idle
          \/ /\ call'[c].pc \in {"join", "wait"}
             /\ call[c].pc \in {"join", "members"}
             /\ call'[c].op = call[c].op
             /\ call'[c].user = call[c].user
             /\ call'[c].due \subseteq call[c].due
          \/ /\ call'[c].pc = "answered"
             /\ call'[c].op = call[c].op
             /\ call'[c].user = call[c].user
             /\ call'[c].got # {} => call'[c].due \ shaky \subseteq call'[c].got

\* A user's change is under way exactly when a request says so.
LEMMA PendingIsChanging ==
    ASSUME NEW u \in Users
    PROVE  Pending(u) <=> \E c \in Calls : Changing(c) /\ call[c].user = u
  BY DEF Pending, Changing

\* A step that leaves the rows alone, in which requests are quiet.
LEMMA QuietStep ==
    ASSUME IInv, \A c \in Calls : Quiet(c), UNCHANGED <<subs, shaky>>,
           list' # {} =>
             (list' = list \/ \A u \in Users \ shaky : Pending(u) \/ (u \in list' <=> u \in subs)),
           flight'.pc = "set" => \A u \in Users \ shaky : u \in flight'.read <=> u \in subs
    PROVE  Rest'
  <1>1. ASSUME NEW c \in Calls
        PROVE  /\ Changing(c)' <=> Changing(c)
               /\ Changing(c) => call'[c] = call[c]
    <2>1. CASE call'[c] = call[c]
          BY <2>1 DEF Changing
    <2>2. CASE /\ call[c].pc \notin {"exists", "write"}
               /\ call'[c].pc \in {"idle", "join", "wait", "answered"}
          BY <2>2 DEF Changing
    <2> QED BY <2>1, <2>2 DEF Quiet, Idle
  <1>2. \A u \in Users : Pending(u)' <=> Pending(u)
    <2> SUFFICES ASSUME NEW u \in Users PROVE Pending(u)' <=> Pending(u)
        OBVIOUS
    <2>1. Pending(u) <=> \E c \in Calls : Changing(c) /\ call[c].user = u
          BY PendingIsChanging
    <2>2. Pending(u)' <=> \E c \in Calls : Changing(c)' /\ call'[c].user = u
          BY DEF Pending, Changing
    <2> QED BY <1>1, <2>1, <2>2
  <1>3. OpInv'
    <2> SUFFICES ASSUME NEW c \in Calls
                 PROVE  /\ call'[c].pc \in {"exists", "write"} => call'[c].op # "none"
                        /\ call'[c].pc \in {"exists", "write"} =>
                             (call'[c].op = "get" \/ call'[c].user \in Users)
                        /\ call'[c].op = "get" => call'[c].user = NoUser
                        /\ call'[c].pc = "write" =>
                             call'[c].user \in Users /\ call'[c].op \in {"sub", "unsub"}
                        /\ call'[c].pc = "members" => call'[c].op = "get"
        BY DEF OpInv
    <2> QED BY DEF Quiet, IInv, OpInv, Idle
  <1>4. ChangeInv'
    <2>1. \A c \in Calls : Changing(c)' => Changing(c) /\ call'[c] = call[c]
          BY <1>1
    <2> HIDE DEF Changing
    <2> QED BY <2>1 DEF IInv, ChangeInv
  <1>5. FillInv'
        BY DEF FillInv
  <1>6. DueInv'
    <2>1. ASSUME NEW c \in Calls, Reading(c)' PROVE Reading(c) /\ call'[c].due \subseteq call[c].due
          BY <2>1 DEF Quiet, Reading, IInv, OpInv, Idle
    <2>2. \A c \in Calls : call[c].due \in SUBSET Users
          BY CallFields DEF IInv
    <2> QED BY <1>2, <2>1, <2>2 DEF IInv, DueInv
  <1>7. ListInSync'
        BY <1>2 DEF IInv, ListInSync
  <1>8. ReadsComplete'
        BY DEF Quiet, IInv, ReadsComplete, Idle
  <1> QED BY <1>3, <1>4, <1>5, <1>6, <1>7, <1>8 DEF Rest

\* What a read is due is in a list that exists, and in the answer it waits for.
LEMMA ReadIsComplete ==
    ASSUME IInv, NEW c \in Calls, Reading(c)
    PROVE  /\ list # {} => call[c].due \ shaky \subseteq list
           /\ (call[c].pc = "wait" /\ flight.pc = "answer" /\ flight.read # {}) =>
                call[c].due \ shaky \subseteq flight.read
  <1>1. \A u \in call[c].due : u \in Users /\ u \in subs /\ ~Pending(u)
        BY CallFields DEF IInv, DueInv
  <1>2. list # {} => call[c].due \ shaky \subseteq list
        BY <1>1 DEF IInv, ListInSync
  <1>3. ASSUME call[c].pc = "wait", flight.pc = "answer", flight.read # {}
        PROVE  call[c].due \ shaky \subseteq flight.read
    <2>1. call[c].due \cap flight.late = {}
          BY <1>3 DEF IInv, AnswerInv, Reading
    <2> QED BY <1>1, <1>3, <2>1 DEF IInv, AnswerInv
  <1> QED BY <1>2, <1>3

\* Answering everyone with a list that is complete, or with nothing, is quiet.
LEMMA AnswerIsQuiet ==
    ASSUME IInv, NEW S, AnswerAll(S),
           S = {} \/ \A c \in Calls : (Reading(c) /\ call[c].pc = "wait") =>
                                       call[c].due \ shaky \subseteq S
    PROVE  \A c \in Calls : Quiet(c)
  <1> SUFFICES ASSUME NEW c \in Calls, call[c].pc = "wait", call[c].op = "get"
               PROVE  Quiet(c)
      BY DEF AnswerAll, Quiet
  <1>1. call'[c] = [call[c] EXCEPT !.pc = "answered", !.got = S]
        BY DEF AnswerAll
  <1>2. call[c] \in Call
        BY CallFields DEF IInv
  <1>3. /\ call'[c].pc = "answered"
        /\ call'[c].op = call[c].op
        /\ call'[c].user = call[c].user
        /\ call'[c].due = call[c].due
        /\ call'[c].got = S
        BY <1>1, <1>2 DEF Call
  <1>4. Reading(c)
        BY DEF Reading
  <1> QED BY <1>3, <1>4 DEF Quiet
-----------------------------------------------------------------------------
\* Whoever is not in the new list of shaky users was not in the old one, and when his
\* row changes nothing else is about to act on it.
LEMMA ChangeStep ==
    ASSUME IInv, NEW c \in Calls, NEW u \in Users, NEW op \in {"sub", "unsub"},
           call[c].pc = "idle",
           op = "sub" => u \notin subs /\ subs' = subs \cup {u},
           op = "unsub" => u \in subs /\ subs' = subs \ {u},
           shaky' = IF Overlaps(u) THEN shaky \cup {u} ELSE shaky,
           call'[c].pc = "exists", call'[c].op = op, call'[c].user = u,
           \A d \in Calls \ {c} :
              /\ call'[d].pc = call[d].pc
              /\ call'[d].op = call[d].op
              /\ call'[d].user = call[d].user
              /\ call'[d].got = call[d].got
              /\ call'[d].due = IF op = "unsub" THEN call[d].due \ {u} ELSE call[d].due,
           UNCHANGED list, Outdates(u)
    PROVE  Rest'
  <1>0. flight'.pc = flight.pc /\ flight'.read = flight.read
        BY OutdatesFlight DEF IInv
  <1>1. ~Changing(c) /\ Changing(c)' /\ \A d \in Calls \ {c} : Changing(d)' <=> Changing(d)
        BY DEF Changing
  <1>2. Pending(u)' /\ \A v \in Users \ {u} : Pending(v)' <=> Pending(v)
    <2>1. Pending(u)'
          BY DEF Pending
    <2>2. ASSUME NEW v \in Users \ {u} PROVE Pending(v)' <=> Pending(v)
      <3>1. \A d \in Calls :
               (call'[d].user = v /\ call'[d].pc \in {"exists", "write"})
                 <=> (call[d].user = v /\ call[d].pc \in {"exists", "write"})
            OBVIOUS
      <3> QED BY <3>1 DEF Pending
    <2> QED BY <2>1, <2>2
  <1>3. OpInv'
    <2>1. \A d \in Calls \ {c} :
             /\ call'[d].pc \in {"exists", "write"} => call'[d].op # "none"
             /\ call'[d].pc \in {"exists", "write"} =>
                  (call'[d].op = "get" \/ call'[d].user \in Users)
             /\ call'[d].op = "get" => call'[d].user = NoUser
             /\ call'[d].pc = "write" => call'[d].user \in Users /\ call'[d].op \in {"sub", "unsub"}
             /\ call'[d].pc = "members" => call'[d].op = "get"
          BY DEF IInv, OpInv
    <2> QED BY <2>1 DEF OpInv
  <1>4. u \notin shaky' => flight.pc # "set" /\ ~Pending(u)
        BY DEF Overlaps
  <1>5. shaky \subseteq shaky'
        OBVIOUS
  <1>6. ChangeInv'
    <2> SUFFICES ASSUME NEW d \in Calls, Changing(d)', call'[d].user \notin shaky'
                 PROVE  /\ call'[d].op = "sub" <=> call'[d].user \in subs'
                        /\ \A e \in Calls : Changing(e)' /\ call'[e].user = call'[d].user => e = d
        BY DEF ChangeInv
    <2>1. CASE d = c
      <3>1. \A e \in Calls : Changing(e) => call[e].user # u
            BY <1>4, <2>1, PendingIsChanging
      <3> QED BY <1>1, <2>1, <3>1
    <2>2. CASE d # c
      <3>1. Changing(d) /\ call[d].user = call'[d].user /\ call[d].op = call'[d].op
            BY <1>1, <2>2
      <3>2. call[d].user # u
            BY <1>4, <3>1, PendingIsChanging
      <3>3. /\ call[d].op = "sub" <=> call[d].user \in subs
            /\ \A e \in Calls : Changing(e) /\ call[e].user = call[d].user => e = d
            BY <1>5, <3>1 DEF IInv, ChangeInv
      <3>4. call[d].user \in subs' <=> call[d].user \in subs
            BY <3>2
      <3>5. \A e \in Calls : Changing(e)' /\ call'[e].user = call'[d].user => e = d
        <4> SUFFICES ASSUME NEW e \in Calls, Changing(e)', call'[e].user = call'[d].user PROVE e = d
            OBVIOUS
        <4>1. e # c
              BY <3>1, <3>2
        <4>2. Changing(e) /\ call[e].user = call[d].user
              BY <1>1, <3>1, <4>1
        <4> QED BY <3>3, <4>2
      <3> QED BY <3>1, <3>3, <3>4, <3>5
    <2> QED BY <2>1, <2>2
  <1>7. FillInv'
        BY <1>0, <1>4, <1>5 DEF IInv, FillInv
  <1>8. DueInv'
    <2> SUFFICES ASSUME NEW d \in Calls, Reading(d)', NEW v \in call'[d].due
                 PROVE  v \in subs' /\ ~Pending(v)'
        BY DEF DueInv
    <2>1. d # c /\ Reading(d) /\ v \in call[d].due
          BY DEF Reading
    <2>2. v \in Users /\ v \in subs /\ ~Pending(v)
          BY <2>1, CallFields DEF IInv, DueInv
    <2>3. v # u
          BY <2>1, <2>2
    <2> QED BY <1>2, <2>2, <2>3
  <1>9. ListInSync'
        BY <1>2, <1>5 DEF IInv, ListInSync
  <1>10. ReadsComplete'
    <2> SUFFICES ASSUME NEW d \in Calls, call'[d].pc = "answered", call'[d].got # {}
                 PROVE  call'[d].due \ shaky' \subseteq call'[d].got
        BY DEF ReadsComplete
    <2>1. d # c
          OBVIOUS
    <2>2. call[d].pc = "answered" /\ call[d].got # {} /\ call'[d].got = call[d].got
          BY <2>1
    <2>3. call[d].due \ shaky \subseteq call[d].got
          BY <2>2 DEF IInv, ReadsComplete
    <2>4. call'[d].due \subseteq call[d].due
          BY <2>1
    <2> QED BY <1>5, <2>2, <2>3, <2>4
  <1> QED BY <1>3, <1>6, <1>7, <1>8, <1>9, <1>10 DEF Rest

\* The change of request c leaves for the list, or ends: there it is true, or its user is
\* shaky, or there is no list.
LEMMA EndOfChange ==
    ASSUME IInv, NEW c \in Calls, NEW u, call[c].user = u, Changing(c),
           UNCHANGED <<subs, flight>>, shaky \subseteq shaky', shaky' \subseteq Users,
           \A d \in Calls \ {c} : call'[d] = call[d],
           \/ call'[c] = Idle
           \/ /\ call'[c].pc \in {"join", "write"}
              /\ call'[c].op = call[c].op
              /\ call'[c].user = u
              /\ call[c].op \in {"sub", "unsub"},
           list' # {} => \A v \in Users \ shaky' : Pending(v)' \/ (v \in list' <=> v \in subs)
    PROVE  Rest'
  <1>1. \A d \in Calls : Changing(d)' =>
          Changing(d) /\ call'[d].op = call[d].op /\ call'[d].user = call[d].user
    <2>1. Changing(c)' => call'[c].op = call[c].op /\ call'[c].user = call[c].user
          BY DEF Changing, Idle
    <2>2. \A d \in Calls \ {c} : Changing(d)' => Changing(d)
          BY DEF Changing
    <2> QED BY <2>1, <2>2
  <1>2. \A v \in Users : Pending(v)' => Pending(v)
    <2>1. \A v \in Users : Pending(v)' => \E d \in Calls : Changing(d)' /\ call'[d].user = v
          BY DEF Pending, Changing
    <2> QED BY <1>1, <2>1, PendingIsChanging
  <1>3. OpInv'
    <2>1. \A d \in Calls :
             /\ call'[d].pc \in {"exists", "write"} => call'[d].op # "none"
             /\ call'[d].pc \in {"exists", "write"} =>
                  (call'[d].op = "get" \/ call'[d].user \in Users)
             /\ call'[d].op = "get" => call'[d].user = NoUser
             /\ call'[d].pc = "write" => call'[d].user \in Users /\ call'[d].op \in {"sub", "unsub"}
             /\ call'[d].pc = "members" => call'[d].op = "get"
          BY DEF IInv, OpInv, Idle, Changing
    <2> QED BY <2>1 DEF OpInv
  <1>4. ChangeInv'
    <2> SUFFICES ASSUME NEW d \in Calls, Changing(d)', call'[d].user \notin shaky'
                 PROVE  /\ call'[d].op = "sub" <=> call'[d].user \in subs'
                        /\ \A e \in Calls : Changing(e)' /\ call'[e].user = call'[d].user => e = d
        BY DEF ChangeInv
    <2>1. /\ Changing(d) /\ call[d].user \notin shaky
          /\ call'[d].op = call[d].op /\ call'[d].user = call[d].user
          BY <1>1
    <2>2. /\ call[d].op = "sub" <=> call[d].user \in subs
          /\ \A e \in Calls : Changing(e) /\ call[e].user = call[d].user => e = d
          BY <2>1 DEF IInv, ChangeInv
    <2> HIDE DEF Changing
    <2> QED BY <1>1, <2>1, <2>2
  <1>5. FillInv'
        BY DEF IInv, FillInv
  <1>6. DueInv'
    <2> SUFFICES ASSUME NEW d \in Calls, Reading(d)', NEW v \in call'[d].due
                 PROVE  v \in subs' /\ ~Pending(v)'
        BY DEF DueInv
    <2>1. d # c
          BY DEF Reading, Idle
    <2>2. Reading(d) /\ v \in call[d].due
          BY <2>1 DEF Reading
    <2>3. v \in Users /\ v \in subs /\ ~Pending(v)
          BY <2>2, CallFields DEF IInv, DueInv
    <2> QED BY <1>2, <2>3
  <1>7. ListInSync'
        BY DEF ListInSync
  <1>8. ReadsComplete'
        BY DEF IInv, ReadsComplete, Idle
  <1> QED BY <1>3, <1>4, <1>5, <1>6, <1>7, <1>8 DEF Rest
\* A request that joins a fill is due no more than before.
LEMMA JoinedCall ==
    ASSUME TypeOK, NEW c \in Calls, Join(c)
    PROVE  /\ \A d \in Calls \ {c} : call'[d] = call[d]
           /\ call'[c].pc = "wait"
           /\ call'[c].op = call[c].op
           /\ call'[c].user = call[c].user
           /\ call'[c].due \subseteq call[c].due
           /\ call'[c].due \cap flight.late = {}
  <1>1. call[c] \in Call /\ call'[c] = [call[c] EXCEPT !.pc = "wait", !.due = @ \ flight.late]
        BY DEF Join, TypeOK
  <1>2. /\ call'[c].pc = "wait"
        /\ call'[c].op = call[c].op
        /\ call'[c].user = call[c].user
        /\ call'[c].due = call[c].due \ flight.late
        BY <1>1 DEF Call
  <1> QED BY <1>2 DEF Join, TypeOK
-----------------------------------------------------------------------------
\* The rest of the invariant, action by action.
LEMMA RestInv == ASSUME IInv, [Next]_vars PROVE Rest'
  <1>0. TypeOK /\ OpInv
        BY DEF IInv
  <1>1. ASSUME NEW c \in Calls, NEW u \in Users, Subscribe(c, u) PROVE Rest'
    <2> DEFINE x == [Idle EXCEPT !.pc = "exists", !.op = "sub", !.user = u]
    <2>1. x.pc = "exists" /\ x.op = "sub" /\ x.user = u
          BY DEF Idle
    <2>2. call'[c] = x /\ \A d \in Calls \ {c} : call'[d] = call[d]
          BY <1>0, <1>1 DEF Subscribe, TypeOK
    <2> HIDE DEF x
    <2> QED BY <1>1, <2>1, <2>2, ChangeStep DEF Subscribe
  <1>2. ASSUME NEW c \in Calls, NEW u \in Users, Unsubscribe(c, u) PROVE Rest'
    <2> DEFINE x == [Idle EXCEPT !.pc = "exists", !.op = "unsub", !.user = u]
    <2>1. x.pc = "exists" /\ x.op = "unsub" /\ x.user = u
          BY DEF Idle
    <2>2. call'[c] = x /\ \A d \in Calls \ {c} : call'[d] = [call[d] EXCEPT !.due = @ \ {u}]
          BY <1>0, <1>2 DEF Unsubscribe, Steady, TypeOK
    <2>3. ASSUME NEW d \in Calls \ {c}
          PROVE  /\ call'[d].pc = call[d].pc
                 /\ call'[d].op = call[d].op
                 /\ call'[d].user = call[d].user
                 /\ call'[d].got = call[d].got
                 /\ call'[d].due = call[d].due \ {u}
      <3>1. call[d] \in Call
            BY <1>0 DEF TypeOK
      <3> QED BY <2>2, <3>1 DEF Call
    <2> HIDE DEF x
    <2>4. call[c].pc = "idle" /\ u \in subs /\ subs' = subs \ {u} /\ UNCHANGED list
          BY <1>2 DEF Unsubscribe
    <2>5. (shaky' = IF Overlaps(u) THEN shaky \cup {u} ELSE shaky) /\ Outdates(u)
          BY <1>2 DEF Unsubscribe
    <2> QED BY <2>1, <2>2, <2>3, <2>4, <2>5, ChangeStep, SMTT(30)
  <1>3. ASSUME NEW c \in Calls, GetSubs(c) PROVE Rest'
    <2> DEFINE S == {u \in subs : ~Pending(u)}
               x == [Idle EXCEPT !.pc = "exists", !.op = "get", !.due = S]
    <2>1. x.pc = "exists" /\ x.op = "get" /\ x.due = S /\ x.user = NoUser
          BY DEF Idle
    <2>2. call'[c] = x /\ \A d \in Calls \ {c} : call'[d] = call[d]
          BY <1>0, <1>3 DEF GetSubs, TypeOK
    <2> HIDE DEF x
    <2>3. ASSUME NEW d \in Calls
          PROVE  /\ Changing(d)' <=> Changing(d)
                 /\ Changing(d) => call'[d] = call[d]
      <3>1. CASE d = c
            BY <1>3, <2>1, <2>2, <3>1, ConstantsAssumption DEF Changing, GetSubs
      <3>2. CASE d # c
            BY <2>2, <3>2 DEF Changing
      <3> QED BY <3>1, <3>2
    <2>4. \A u \in Users : Pending(u)' <=> Pending(u)
      <3> SUFFICES ASSUME NEW u \in Users PROVE Pending(u)' <=> Pending(u)
          OBVIOUS
      <3>1. Pending(u)' <=> \E d \in Calls : Changing(d)' /\ call'[d].user = u
            BY DEF Pending, Changing
      <3>2. Pending(u) <=> \E d \in Calls : Changing(d) /\ call[d].user = u
            BY PendingIsChanging
      <3> QED BY <2>3, <3>1, <3>2
    <2>5. OpInv'
          BY <1>0, <2>1, <2>2 DEF OpInv
    <2>6. ChangeInv'
      <3>1. \A d \in Calls : Changing(d)' => Changing(d) /\ call'[d] = call[d]
            BY <2>3
      <3>2. subs' = subs /\ shaky' = shaky
            BY <1>3 DEF GetSubs
      <3> HIDE DEF Changing
      <3> QED BY <3>1, <3>2 DEF IInv, ChangeInv
    <2>7. DueInv'
      <3> SUFFICES ASSUME NEW d \in Calls, Reading(d)', NEW v \in call'[d].due
                   PROVE  v \in subs' /\ ~Pending(v)'
          BY DEF DueInv
      <3>1. v \in Users /\ v \in subs /\ ~Pending(v)
        <4>1. CASE d = c
              BY <1>0, <2>1, <2>2, <4>1 DEF TypeOK
        <4>2. CASE d # c
              BY <2>2, <4>2, CallFields DEF IInv, DueInv, Reading
        <4> QED BY <4>1, <4>2
      <3> QED BY <1>3, <2>4, <3>1 DEF GetSubs
    <2>8. FillInv' /\ ListInSync'
          BY <1>3, <2>4 DEF GetSubs, IInv, FillInv, ListInSync
    <2>9. ReadsComplete'
          BY <1>3, <2>1, <2>2 DEF GetSubs, IInv, ReadsComplete
    <2> QED BY <2>5, <2>6, <2>7, <2>8, <2>9 DEF Rest
  <1>4. ASSUME NEW c \in Calls, NEW p \in {"join", "wait", "members", "write"},
               call' = [call EXCEPT ![c].pc = p]
        PROVE  /\ \A d \in Calls \ {c} : call'[d] = call[d]
               /\ call'[c].pc = p
               /\ call'[c].op = call[c].op
               /\ call'[c].user = call[c].user
               /\ call'[c].due = call[c].due
               /\ call'[c].got = call[c].got
    <2>1. call[c] \in Call
          BY <1>0 DEF TypeOK
    <2> QED BY <1>0, <1>4, <2>1 DEF TypeOK, Call
  \* A read goes from its first test to the list or to the fill.
  <1>5. ASSUME NEW c \in Calls, NEW p \in {"join", "members"}, call[c].pc = "exists",
               call[c].op = "get", call' = [call EXCEPT ![c].pc = p],
               UNCHANGED <<subs, list, flight, shaky>>
        PROVE  Rest'
    <2>1. /\ \A d \in Calls \ {c} : call'[d] = call[d]
          /\ call'[c].pc = p
          /\ call'[c].op = call[c].op
          /\ call'[c].user = call[c].user
          /\ call'[c].due = call[c].due
          BY <1>4, <1>5
    <2>2. call[c].user = NoUser
          BY <1>0, <1>5 DEF OpInv
    <2>3. ASSUME NEW d \in Calls
          PROVE  /\ Changing(d)' <=> Changing(d)
                 /\ Changing(d) => call'[d] = call[d]
      <3>1. CASE d = c
            BY <2>1, <2>2, <3>1, ConstantsAssumption DEF Changing
      <3>2. CASE d # c
            BY <2>1, <3>2 DEF Changing
      <3> QED BY <3>1, <3>2
    <2>4. \A u \in Users : Pending(u)' <=> Pending(u)
      <3> SUFFICES ASSUME NEW u \in Users PROVE Pending(u)' <=> Pending(u)
          OBVIOUS
      <3>1. Pending(u)' <=> \E d \in Calls : Changing(d)' /\ call'[d].user = u
            BY DEF Pending, Changing
      <3>2. Pending(u) <=> \E d \in Calls : Changing(d) /\ call[d].user = u
            BY PendingIsChanging
      <3> QED BY <2>3, <3>1, <3>2
    <2>5. OpInv'
          BY <1>0, <1>5, <2>1 DEF OpInv
    <2>6. ChangeInv'
      <3>1. \A d \in Calls : Changing(d)' => Changing(d) /\ call'[d] = call[d]
            BY <2>3
      <3> HIDE DEF Changing
      <3> QED BY <1>5, <3>1 DEF IInv, ChangeInv
    <2>7. DueInv'
      <3> SUFFICES ASSUME NEW d \in Calls, Reading(d)', NEW v \in call'[d].due
                   PROVE  v \in subs' /\ ~Pending(v)'
          BY DEF DueInv
      <3>1. Reading(d) /\ v \in call[d].due
            BY <1>5, <2>1 DEF Reading
      <3>2. v \in Users /\ v \in subs /\ ~Pending(v)
            BY <3>1, CallFields DEF IInv, DueInv
      <3> QED BY <1>5, <2>4, <3>2
    <2>8. FillInv' /\ ListInSync'
          BY <1>5, <2>4 DEF IInv, FillInv, ListInSync
    <2>9. ReadsComplete'
          BY <1>5, <2>1 DEF IInv, ReadsComplete
    <2> QED BY <2>5, <2>6, <2>7, <2>8, <2>9 DEF Rest
  \* A change that ends, or whose user is no longer among those it is pending for.
  <1>6. ASSUME NEW c \in Calls, Changing(c), \A d \in Calls \ {c} : call'[d] = call[d]
        PROVE  \A v \in Users \ {call[c].user} : Pending(v) => Pending(v)'
    <2> SUFFICES ASSUME NEW v \in Users \ {call[c].user}, Pending(v) PROVE Pending(v)'
        OBVIOUS
    <2>1. PICK d \in Calls : call[d].user = v /\ call[d].pc \in {"exists", "write"}
          BY DEF Pending
    <2> QED BY <1>6, <2>1 DEF Pending
  <1>7. ASSUME NEW c \in Calls, TestList(c) PROVE Rest'
    <2>1. CASE call[c].op = "get"
          BY <1>5, <1>7, <2>1 DEF TestList
    <2>2. CASE call[c].op # "get"
      <3> DEFINE p == IF list = {} THEN "join" ELSE "write"
      <3>1. call' = [call EXCEPT ![c].pc = p] /\ UNCHANGED <<subs, list, flight, shaky>>
            BY <1>7, <2>2 DEF TestList
      <3>2. /\ \A d \in Calls \ {c} : call'[d] = call[d]
            /\ call'[c].pc = p
            /\ call'[c].op = call[c].op
            /\ call'[c].user = call[c].user
            BY <1>4, <3>1
      <3>3. Changing(c)
            BY <1>0, <1>7, <2>2 DEF TestList, OpInv, Changing
      <3>4. list # {} => \A v \in Users : Pending(v) => Pending(v)'
            BY <1>6, <3>2, <3>3 DEF Pending
      <3>5. call[c].op \in {"sub", "unsub"}
        <4>1. call[c] \in Call /\ call[c].op # "none"
              BY <1>0, <1>7 DEF TypeOK, OpInv, TestList
        <4> QED BY <2>2, <4>1 DEF Call
      <3> QED BY <1>0, <3>1, <3>2, <3>3, <3>4, <3>5, EndOfChange DEF IInv, ListInSync, TypeOK
    <2> QED BY <2>1, <2>2
  <1>8. ASSUME NEW c \in Calls, call' = [call EXCEPT ![c] = Idle]
        PROVE  call'[c] = Idle /\ \A d \in Calls \ {c} : call'[d] = call[d]
        BY <1>0, <1>8 DEF TypeOK
  <1>9. ASSUME NEW c \in Calls, TestFailed(c) PROVE Rest'
    <2>1. CASE call[c].op = "get"
          BY <1>5, <1>9, <2>1 DEF TestFailed
    <2>2. CASE call[c].op # "get"
      <3>1. Changing(c) /\ call[c].user \in Users
            BY <1>0, <1>9, <2>2 DEF TestFailed, OpInv, Changing
      <3>2. call'[c] = Idle /\ \A d \in Calls \ {c} : call'[d] = call[d]
            BY <1>8, <1>9, <2>2 DEF TestFailed
      <3>3. shaky' = shaky \cup {call[c].user} /\ UNCHANGED <<subs, list, flight>>
            BY <1>9, <2>2 DEF TestFailed
      <3>4. \A v \in Users \ shaky' : Pending(v) => Pending(v)'
            BY <1>6, <3>1, <3>2, <3>3
      <3> QED BY <1>0, <3>1, <3>2, <3>3, <3>4, EndOfChange DEF IInv, ListInSync, TypeOK
    <2> QED BY <2>1, <2>2
  <1>10. ASSUME NEW c \in Calls, WriteList(c) PROVE Rest'
    <2> DEFINE u == call[c].user
    <2>1. Changing(c) /\ u \in Users /\ call[c].op \in {"sub", "unsub"}
          BY <1>0, <1>10 DEF WriteList, OpInv, Changing
    <2>2. call'[c] = Idle /\ \A d \in Calls \ {c} : call'[d] = call[d]
          BY <1>8, <1>10 DEF WriteList
    <2>3. /\ list' = ListAfter(c)
          /\ shaky' = IF list = {} /\ list' # {} THEN shaky \cup (Users \ {u}) ELSE shaky
          /\ UNCHANGED <<subs, flight>>
          BY <1>10 DEF WriteList
    <2>4. ASSUME list' # {}, NEW v \in Users \ shaky'
          PROVE  Pending(v)' \/ (v \in list' <=> v \in subs)
      <3>1. CASE v = u
        <4>1. call[c].op = "sub" <=> u \in subs
              BY <2>1, <2>3, <2>4, <3>1 DEF IInv, ChangeInv
        <4> QED BY <2>1, <2>3, <3>1, <4>1 DEF ListAfter
      <3>2. CASE v # u
        <4>1. list # {}
              BY <2>3, <2>4, <3>2
        <4>2. v \in list' <=> v \in list
              BY <2>3, <3>2 DEF ListAfter
        <4>3. Pending(v) => Pending(v)'
              BY <1>6, <2>1, <2>2, <3>2
        <4> QED BY <2>3, <2>4, <4>1, <4>2, <4>3 DEF IInv, ListInSync
      <3> QED BY <3>1, <3>2
    <2> QED BY <1>0, <2>1, <2>2, <2>3, <2>4, EndOfChange DEF TypeOK
  <1>11. ASSUME NEW c \in Calls, WriteFailed(c) PROVE Rest'
    <2> DEFINE u == call[c].user
    <2>1. Changing(c) /\ u \in Users
          BY <1>0, <1>11 DEF WriteFailed, OpInv, Changing
    <2>2. call'[c] = Idle /\ \A d \in Calls \ {c} : call'[d] = call[d]
          BY <1>8, <1>11 DEF WriteFailed
    <2>3. /\ list' \in {list, ListAfter(c)}
          /\ shaky' = shaky \cup (IF list = {} THEN Users ELSE {u})
          /\ UNCHANGED <<subs, flight>>
          BY <1>11 DEF WriteFailed
    <2>4. ASSUME list' # {}, NEW v \in Users \ shaky'
          PROVE  Pending(v)' \/ (v \in list' <=> v \in subs)
      <3>1. v # u /\ v \notin shaky /\ list # {}
            BY <2>3, <2>4
      <3>2. v \in list' <=> v \in list
            BY <2>3, <3>1 DEF ListAfter
      <3>3. Pending(v) => Pending(v)'
            BY <1>6, <2>1, <2>2, <3>1
      <3> QED BY <3>1, <3>2, <3>3 DEF IInv, ListInSync
    <2> QED BY <1>0, <2>1, <2>2, <2>3, <2>4, EndOfChange DEF TypeOK
  <1>12. ASSUME NEW c \in Calls, ReadMembers(c) PROVE Rest'
    <2>1. call[c].pc = "members" /\ call[c].op = "get" /\ call[c] \in Call
          BY <1>0, <1>12 DEF ReadMembers, OpInv, TypeOK
    <2>2. /\ \A d \in Calls \ {c} : call'[d] = call[d]
          /\ call'[c] = [call[c] EXCEPT !.pc = "answered", !.got = list]
          BY <1>0, <1>12 DEF ReadMembers, TypeOK
    <2>3. /\ call'[c].pc = "answered"
          /\ call'[c].op = call[c].op
          /\ call'[c].user = call[c].user
          /\ call'[c].due = call[c].due
          /\ call'[c].got = list
          BY <2>1, <2>2 DEF Call
    <2>4. call'[c].got # {} => call'[c].due \ shaky \subseteq call'[c].got
          BY <2>1, <2>3, ReadIsComplete DEF Reading
    <2>5. \A d \in Calls : Quiet(d)
          BY <2>1, <2>2, <2>3, <2>4 DEF Quiet
    <2> QED BY <1>12, <2>5, QuietStep DEF ReadMembers, IInv, FillInv
  <1>13. ASSUME NEW c \in Calls, ReadMembersFailed(c) PROVE Rest'
    <2>1. /\ \A d \in Calls \ {c} : call'[d] = call[d]
          /\ call'[c].pc = "join"
          /\ call'[c].op = call[c].op
          /\ call'[c].user = call[c].user
          /\ call'[c].due = call[c].due
          BY <1>4, <1>13 DEF ReadMembersFailed
    <2>2. \A d \in Calls : Quiet(d)
          BY <1>13, <2>1 DEF Quiet, ReadMembersFailed
    <2> QED BY <1>13, <2>2, QuietStep DEF ReadMembersFailed, IInv, FillInv
  <1>14. ASSUME NEW c \in Calls, Join(c) PROVE Rest'
    <2>1. /\ \A d \in Calls \ {c} : call'[d] = call[d]
          /\ call'[c].pc = "wait"
          /\ call'[c].op = call[c].op
          /\ call'[c].user = call[c].user
          /\ call'[c].due \subseteq call[c].due
          BY <1>14, JoinedCall DEF IInv
    <2>2. \A d \in Calls : Quiet(d)
          BY <1>14, <2>1 DEF Quiet, Join
    <2>3. flight'.pc = "set" => flight' = flight
          BY <1>14 DEF Join, NoFlight
    <2> QED BY <1>14, <2>2, <2>3, QuietStep DEF Join, IInv, FillInv
  <1>15. ASSUME NEW c \in Calls, Abandon(c) \/ Return(c) PROVE Rest'
    <2>1. \A d \in Calls : Quiet(d)
          BY <1>8, <1>15 DEF Quiet, Abandon, Return
    <2> QED BY <1>15, <2>1, QuietStep DEF Abandon, Return, IInv, FillInv
  <1>16. CASE FlightLookup \/ FlightGetFailed
    <2>1. flight'.pc # "set"
          BY <1>0, <1>16 DEF FlightLookup, FlightGetFailed, TypeOK, Flight
    <2> QED BY <1>16, <2>1, QuietStep DEF FlightLookup, FlightGetFailed, Quiet
  <1>17. CASE FlightRepo
        BY <1>17, QuietStep DEF FlightRepo, Quiet
  <1>18. NoFlight.pc # "set"
        BY DEF NoFlight
  <1>19. CASE FlightMembers
        BY <1>19, QuietStep DEF FlightMembers, Quiet
  <1>20. CASE FlightRepoFailed
    <2>1. \A d \in Calls : Quiet(d)
          BY <1>20 DEF FlightRepoFailed, Quiet
    <2> QED BY <1>18, <1>20, <2>1, QuietStep DEF FlightRepoFailed
  <1>21. CASE FlightSet
    <2>1. flight'.pc # "set"
          BY <1>0, <1>21 DEF FlightSet, TypeOK, Flight
    <2>2. \A u \in Users \ shaky : u \in flight.read <=> u \in subs
          BY <1>21 DEF FlightSet, IInv, FillInv
    <2>3. list' # {} =>
            (list' = list \/ \A u \in Users \ shaky : Pending(u) \/ (u \in list' <=> u \in subs))
      <3>1. CASE list = {}
            BY <1>21, <2>2, <3>1 DEF FlightSet
      <3>2. CASE list # {}
            BY <1>21, <2>2, <3>2 DEF FlightSet, IInv, ListInSync
      <3> QED BY <3>1, <3>2
    <2> QED BY <1>21, <2>1, <2>3, QuietStep DEF FlightSet, Quiet
  <1>27. CASE FlightAnswer
    <2>1. \A d \in Calls : Quiet(d)
      <3>1. flight.read = {} \/ \A c \in Calls : (Reading(c) /\ call[c].pc = "wait") =>
                                   call[c].due \ shaky \subseteq flight.read
            BY <1>27, ReadIsComplete DEF FlightAnswer
      <3> QED BY <1>27, <3>1, AnswerIsQuiet DEF FlightAnswer
    <2> QED BY <1>18, <1>27, <2>1, QuietStep DEF FlightAnswer
  <1>22. ASSUME \A c \in Calls : call'[c].pc = "idle" /\ call'[c].op # "get", FillInv', ListInSync'
         PROVE  Rest'
        BY <1>22 DEF Rest, OpInv, ChangeInv, Changing, DueInv, Reading, ReadsComplete
  <1>23. CASE Evict
    <2>1. CASE shaky' = shaky
          BY <1>23, <2>1, QuietStep DEF Evict, Quiet, IInv, FillInv
    <2>2. CASE flight.pc \notin {"set", "answer"} /\ \A c \in Calls : call[c].pc = "idle"
      <3>1. \A c \in Calls : ~Changing(c)' /\ ~Reading(c)'
            BY <1>23, <2>2 DEF Evict, Changing, Reading
      <3>2. OpInv' /\ ChangeInv' /\ DueInv'
        <4>1. OpInv'
              BY <1>0, <1>23 DEF Evict, OpInv
        <4>2. ChangeInv' /\ DueInv'
          <5> HIDE DEF Changing, Reading
          <5> QED BY <3>1 DEF ChangeInv, DueInv
        <4> QED BY <4>1, <4>2
      <3>3. FillInv' /\ ListInSync' /\ ReadsComplete'
            BY <1>23, <2>2 DEF Evict, FillInv, ListInSync, ReadsComplete
      <3> QED BY <3>2, <3>3 DEF Rest
    <2> QED BY <1>23, <2>1, <2>2 DEF Evict
  <1>24. CASE Crash
    <2>1. \A c \in Calls : call'[c].pc = "idle" /\ call'[c].op # "get"
          BY <1>24 DEF Crash, Idle
    <2>2. FillInv' /\ ListInSync'
          BY <1>18, <1>24 DEF Crash, FillInv, IInv, ListInSync
    <2> QED BY <1>22, <2>1, <2>2
  <1>25. CASE UNCHANGED vars
        BY <1>25, QuietStep DEF vars, Quiet, IInv, FillInv
  <1>26. ASSUME NEW u \in Users, ChangeLost(u) PROVE Rest'
    <2>1. ASSUME NEW c \in Calls
          PROVE  /\ call'[c].pc = call[c].pc
                 /\ call'[c].op = call[c].op
                 /\ call'[c].user = call[c].user
                 /\ call'[c].got = call[c].got
                 /\ call'[c].due = call[c].due \ {u}
      <3>1. call[c] \in Call /\ call'[c] = [call[c] EXCEPT !.due = @ \ {u}]
            BY <1>0, <1>26 DEF ChangeLost, Steady, TypeOK
      <3> QED BY <3>1 DEF Call
    <2>2. ASSUME NEW c \in Calls
          PROVE  /\ Changing(c)' <=> Changing(c)
                 /\ Reading(c)' <=> Reading(c)
      <3>1. Changing(c)' <=> Changing(c)
            BY <2>1 DEF Changing
      <3>2. Reading(c)' <=> Reading(c)
            BY <2>1 DEF Reading
      <3> QED BY <3>1, <3>2
    <2>3. \A v \in Users : Pending(v)' <=> Pending(v)
          BY <2>1 DEF Pending
    <2>4. /\ shaky' = shaky \cup {u}
          /\ \A v \in Users \ {u} : v \in subs' <=> v \in subs
          /\ flight'.pc = flight.pc /\ flight'.read = flight.read
          /\ UNCHANGED list
          BY <1>0, <1>26, OutdatesFlight DEF ChangeLost
    <2>5. OpInv'
          BY <1>0, <2>1 DEF OpInv
    <2>6. ChangeInv'
      <3> SUFFICES ASSUME NEW c \in Calls, Changing(c)', call'[c].user \notin shaky'
                   PROVE  /\ call'[c].op = "sub" <=> call'[c].user \in subs'
                          /\ \A d \in Calls : Changing(d)' /\ call'[d].user = call'[c].user => d = c
          BY DEF ChangeInv
      <3>1. Changing(c) /\ call[c].user \notin shaky /\ call[c].user \in Users \ {u}
            BY <2>1, <2>2, <2>4 DEF Changing
      <3>2. /\ call[c].op = "sub" <=> call[c].user \in subs
            /\ \A d \in Calls : Changing(d) /\ call[d].user = call[c].user => d = c
            BY <3>1 DEF IInv, ChangeInv
      <3>3. ASSUME NEW d \in Calls, Changing(d)', call'[d].user = call'[c].user PROVE d = c
        <4>1. Changing(d) /\ call[d].user = call[c].user
              BY <2>1, <2>2, <3>3
        <4> QED BY <3>2, <4>1
      <3>4. call'[c].op = "sub" <=> call'[c].user \in subs'
            BY <2>1, <2>4, <3>1, <3>2
      <3> QED BY <3>3, <3>4
    <2>7. DueInv'
      <3> SUFFICES ASSUME NEW c \in Calls, Reading(c)', NEW v \in call'[c].due
                   PROVE  v \in subs' /\ ~Pending(v)'
          BY DEF DueInv
      <3>1. Reading(c) /\ v \in call[c].due /\ v # u
            BY <2>1, <2>2
      <3>2. v \in Users /\ v \in subs /\ ~Pending(v)
            BY <3>1, CallFields DEF IInv, DueInv
      <3> QED BY <2>3, <2>4, <3>1, <3>2
    <2>8. FillInv' /\ ListInSync'
          BY <2>3, <2>4 DEF IInv, FillInv, ListInSync
    <2>9. ReadsComplete'
          BY <2>1, <2>4 DEF IInv, ReadsComplete
    <2> QED BY <2>5, <2>6, <2>7, <2>8, <2>9 DEF Rest
  <1> QED BY <1>1, <1>2, <1>3, <1>7, <1>9, <1>10, <1>11, <1>12, <1>13, <1>14, <1>15, <1>16, <1>17,
             <1>19, <1>20, <1>21, <1>23, <1>24, <1>25, <1>26, <1>27 DEF Next, Fill

-----------------------------------------------------------------------------
\* The answer on its way, in a step that changes the row of u.
LEMMA AnswerOutdated ==
    ASSUME IInv, NEW u \in Users, Outdates(u), shaky \subseteq shaky',
           \A v \in Users \ {u} : v \in subs' <=> v \in subs,
           \A c \in Calls : (call'[c].pc = "wait" /\ call'[c].op = "get") =>
              /\ call[c].pc = "wait" /\ call[c].op = "get"
              /\ call'[c].due \subseteq call[c].due /\ u \notin call'[c].due
    PROVE  AnswerInv'
  BY OutdatesFlight DEF IInv, AnswerInv

\* The answer on its way, in a step of requests and of the list.
LEMMA AnswerStays ==
    ASSUME IInv, UNCHANGED <<subs, flight>>, shaky \subseteq shaky' \/ flight.pc # "answer",
           \A c \in Calls : (call'[c].pc = "wait" /\ call'[c].op = "get") => call'[c] = call[c]
    PROVE  AnswerInv'
  BY DEF IInv, AnswerInv

\* Every action keeps the invariant of the answer on its way.
LEMMA AnswerStep == ASSUME IInv, [Next]_vars PROVE AnswerInv'
  <1>0. TypeOK /\ OpInv
        BY DEF IInv
  <1>1. ASSUME NEW c \in Calls, NEW u \in Users, Subscribe(c, u) PROVE AnswerInv'
    <2>1. call'[c].pc = "exists" /\ \A d \in Calls \ {c} : call'[d] = call[d]
          BY <1>0, <1>1 DEF Subscribe, TypeOK, Idle
    <2>2. \A d \in Calls : (call[d].pc = "wait" /\ call[d].op = "get") => u \notin call[d].due
          BY <1>1 DEF Subscribe, IInv, DueInv, Reading
    <2>3. \A v \in Users \ {u} : v \in subs' <=> v \in subs
          BY <1>1 DEF Subscribe
    <2>4. shaky \subseteq shaky' /\ Outdates(u)
          BY <1>1 DEF Subscribe
    <2> QED BY <2>1, <2>2, <2>3, <2>4, AnswerOutdated
  <1>2. ASSUME NEW u \in Users, NEW d \in Calls,
               call'[d] = [call[d] EXCEPT !.due = @ \ {u}]
        PROVE  /\ call'[d].pc = call[d].pc
               /\ call'[d].op = call[d].op
               /\ call'[d].due = call[d].due \ {u}
    <2>1. call[d] \in Call
          BY <1>0 DEF TypeOK
    <2> QED BY <1>2, <2>1 DEF Call
  <1>3. ASSUME NEW c \in Calls, NEW u \in Users, Unsubscribe(c, u) PROVE AnswerInv'
    <2>1. call'[c].pc = "exists"
          BY <1>0, <1>3 DEF Unsubscribe, Steady, TypeOK, Idle
    <2>2. \A d \in Calls \ {c} : call'[d] = [call[d] EXCEPT !.due = @ \ {u}]
          BY <1>0, <1>3 DEF Unsubscribe, Steady, TypeOK
    <2>3. shaky \subseteq shaky' /\ Outdates(u) /\ subs' = subs \ {u}
          BY <1>3 DEF Unsubscribe
    <2>4. \A d \in Calls : (call'[d].pc = "wait" /\ call'[d].op = "get") =>
              /\ call[d].pc = "wait" /\ call[d].op = "get"
              /\ call'[d].due \subseteq call[d].due /\ u \notin call'[d].due
          BY <1>2, <2>1, <2>2
    <2> QED BY <2>3, <2>4, AnswerOutdated
  <1>4. ASSUME NEW u \in Users, ChangeLost(u) PROVE AnswerInv'
    <2>1. \A d \in Calls : call'[d] = [call[d] EXCEPT !.due = @ \ {u}]
          BY <1>4 DEF ChangeLost, Steady
    <2>2. shaky \subseteq shaky' /\ Outdates(u) /\ \A v \in Users \ {u} : v \in subs' <=> v \in subs
          BY <1>4 DEF ChangeLost
    <2>3. \A d \in Calls : (call'[d].pc = "wait" /\ call'[d].op = "get") =>
              /\ call[d].pc = "wait" /\ call[d].op = "get"
              /\ call'[d].due \subseteq call[d].due /\ u \notin call'[d].due
          BY <1>2, <2>1
    <2> QED BY <2>2, <2>3, AnswerOutdated
  <1>5. ASSUME NEW c \in Calls, call'[c].pc # "wait", \A d \in Calls \ {c} : call'[d] = call[d],
               UNCHANGED <<subs, flight>>, shaky \subseteq shaky'
        PROVE  AnswerInv'
        BY <1>5, AnswerStays
  <1>6. ASSUME NEW c \in Calls, GetSubs(c) \/ TestList(c) PROVE AnswerInv'
    <2>1. /\ \A d \in Calls \ {c} : call'[d] = call[d]
          /\ UNCHANGED <<subs, flight, shaky>>
          BY <1>0, <1>6 DEF GetSubs, TestList, TypeOK
    <2>2. CASE GetSubs(c)
      <3>1. call'[c].pc = "exists"
            BY <1>0, <2>2 DEF GetSubs, TypeOK, Idle
      <3> QED BY <1>5, <2>1, <3>1
    <2>3. CASE TestList(c)
      <3>1. call'[c].pc \in {"join", "members", "write"}
            BY <1>0, <2>3 DEF TestList, TypeOK, Call
      <3> QED BY <1>5, <2>1, <3>1
    <2> QED BY <1>6, <2>2, <2>3
  <1>7. ASSUME NEW c \in Calls, TestFailed(c) \/ WriteList(c) \/ WriteFailed(c) PROVE AnswerInv'
        BY <1>0, <1>5, <1>7 DEF TestFailed, WriteList, WriteFailed, TypeOK, Call, Idle
  <1>8. ASSUME NEW c \in Calls, ReadMembers(c) \/ ReadMembersFailed(c) PROVE AnswerInv'
        BY <1>0, <1>5, <1>8 DEF ReadMembers, ReadMembersFailed, TypeOK, Call
  <1>9. ASSUME NEW c \in Calls, Abandon(c) \/ Return(c) PROVE AnswerInv'
        BY <1>0, <1>5, <1>9 DEF Abandon, Return, TypeOK, Idle
  <1>10. ASSUME NEW c \in Calls, Join(c) PROVE AnswerInv'
    <2>1. /\ \A d \in Calls \ {c} : call'[d] = call[d]
          /\ call'[c].due \cap flight.late = {}
          BY <1>0, <1>10, JoinedCall
    <2>2. CASE flight.pc = "none"
          BY <1>10, <2>2 DEF Join, NoFlight, AnswerInv
    <2>3. CASE flight.pc # "none"
      <3>1. UNCHANGED <<subs, flight, shaky>>
            BY <1>10, <2>3 DEF Join
      <3> QED BY <2>1, <3>1 DEF IInv, AnswerInv
    <2> QED BY <2>2, <2>3
  <1>11. CASE FlightLookup \/ FlightGetFailed \/ FlightRepo
    <2>1. flight'.pc # "answer" /\ flight'.late = {}
          BY <1>0, <1>11 DEF FlightLookup, FlightGetFailed, FlightRepo, TypeOK, Flight, IInv,
                             AnswerInv
    <2> QED BY <2>1 DEF AnswerInv
  <1>12. CASE FlightRepoFailed \/ FlightAnswer \/ Crash
    <2>1. flight'.pc # "answer" /\ flight'.late = {}
          BY <1>12 DEF FlightRepoFailed, FlightAnswer, Crash, NoFlight
    <2> QED BY <2>1 DEF AnswerInv
  <1>13. CASE FlightMembers
    <2>1. /\ flight'.read = list /\ flight'.late = {u \in Users : Pending(u)}
          /\ flight'.pc = "answer"
          /\ UNCHANGED <<subs, call, shaky>>
          BY <1>13 DEF FlightMembers
    <2>2. list # {} => \A u \in Users \ shaky : Pending(u) \/ (u \in list <=> u \in subs)
          BY DEF IInv, ListInSync
    <2>3. \A c \in Calls : (call[c].pc = "wait" /\ call[c].op = "get") =>
             call[c].due \subseteq {u \in subs : ~Pending(u)}
          BY DEF IInv, DueInv, Reading
    <2> QED BY <2>1, <2>2, <2>3 DEF AnswerInv
  <1>14. CASE FlightSet
    <2>1. /\ flight'.read = flight.read /\ flight'.late = {}
          /\ UNCHANGED <<subs, call, shaky>>
          BY <1>0, <1>14 DEF FlightSet, TypeOK, Flight, IInv, AnswerInv
    <2>2. \A u \in Users \ shaky : u \in flight.read <=> u \in subs
          BY <1>14 DEF FlightSet, IInv, FillInv
    <2> QED BY <2>1, <2>2 DEF AnswerInv
  <1>15. CASE Evict
        BY <1>15, AnswerStays DEF Evict
  <1>16. CASE UNCHANGED vars
        BY <1>16, AnswerStays DEF vars
  <1> QED BY <1>1, <1>3, <1>4, <1>6, <1>7, <1>8, <1>9, <1>10, <1>11, <1>12, <1>13, <1>14, <1>15,
             <1>16 DEF Next, Fill

-----------------------------------------------------------------------------
\* The invariant holds for every value of the constants.
THEOREM Invariance == Spec => []IInv
  <1>1. ASSUME IInv, [Next]_vars PROVE IInv'
        BY <1>1, TypeInv, RestInv, AnswerStep DEF IInv, Rest
  <1> QED BY InitInv, <1>1, PTL DEF Spec

\* Every variable keeps its type.
THEOREM TypeCorrect == Spec => []TypeOK
  <1>1. IInv => TypeOK
        BY DEF IInv
  <1> QED BY Invariance, <1>1, PTL

\* The cached list agrees with the table, but for the races it names
\* (userCacheWrapper.SubscribeUserTo, UnsubscribeUserFrom, tryToCacheSubs).
THEOREM ListStaysInSync == Spec => []ListInSync
  <1>1. IInv => ListInSync
        BY DEF IInv
  <1> QED BY Invariance, <1>1, PTL

\* Reads return every follower, but for the same races (userCacheWrapper.GetSubs).
THEOREM ReadsAreComplete == Spec => []ReadsComplete
  <1>1. IInv => ReadsComplete
        BY DEF IInv
  <1> QED BY Invariance, <1>1, PTL
=============================================================================
