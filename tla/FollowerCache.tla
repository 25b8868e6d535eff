--------------------------- MODULE FollowerCache ---------------------------
(***************************************************************************)
(* The cached follower list of one author (user:<id>:followers, a Redis    *)
(* set without a time to live) over the table subscriber_author: requests  *)
(* that subscribe, unsubscribe or read the followers, and the fill of a    *)
(* missing list, which concurrent requests share (singleflight).           *)
(*                                                                         *)
(* Every request touches the table first and the list afterwards, with     *)
(* nothing that orders it with the others. Errors of Redis are logged.     *)
(*                                                                         *)
(* The other set the code writes in the same transaction of Redis,         *)
(* user:<id>:subscriptions, is read by nobody and left out.                *)
(***************************************************************************)
EXTENDS FiniteSets

CONSTANTS Users,   \* who may follow the author
          Calls,   \* requests that run at a time
          NoUser

ASSUME ConstantsAssumption == NoUser \notin Users

VARIABLES
    subs,   \* the table: the author's followers
    list,   \* the Redis set; a set without members does not exist
    call,   \* the requests
    flight, \* the shared fill
    shaky   \* history: users the list may be wrong about

vars == <<subs, list, call, flight, shaky>>

-----------------------------------------------------------------------------
Call == [pc : {"idle", "exists", "write", "join", "wait", "members", "answered"},
         op : {"none", "sub", "unsub", "get"},
         user : Users \cup {NoUser},
         due : SUBSET Users, \* history: followers all through a read, and the fill it joins
         got : SUBSET Users] \* the answer of a read

Idle == [pc |-> "idle", op |-> "none", user |-> NoUser, due |-> {}, got |-> {}]

Flight == [pc : {"none", "exists", "members", "repo", "set", "answer"},
           read : SUBSET Users,
           late : SUBSET Users] \* history: whose change is not in the answer
NoFlight == [pc |-> "none", read |-> {}, late |-> {}]

\* A change of u is in the table and its request has not come to the list.
Pending(u) ==
    \E c \in Calls : call[c].user = u /\ call[c].pc \in {"exists", "write"}

\* A row of u changes now: the fill has read the old one, or another change is under way.
Overlaps(u) == flight.pc = "set" \/ Pending(u)

Steady(calls, u) == [c \in Calls |-> [calls[c] EXCEPT !.due = @ \ {u}]]

\* The row of u changes while an answer is on its way to those who wait.
Outdates(u) == flight' = IF flight.pc = "answer" THEN [flight EXCEPT !.late = @ \cup {u}]
                                                 ELSE flight

Init ==
    /\ subs = {}
    /\ list = {}
    /\ call = [c \in Calls |-> Idle]
    /\ flight = NoFlight
    /\ shaky = {}

-----------------------------------------------------------------------------
(* Subscribe and unsubscribe: the row, EXISTS, then the list or the fill.  *)

Subscribe(c, u) ==
    /\ call[c].pc = "idle"
    /\ u \notin subs
    /\ subs' = subs \cup {u}
    /\ shaky' = IF Overlaps(u) THEN shaky \cup {u} ELSE shaky
    /\ call' = [call EXCEPT ![c] = [Idle EXCEPT !.pc = "exists", !.op = "sub", !.user = u]]
    /\ Outdates(u)
    /\ UNCHANGED list

Unsubscribe(c, u) ==
    /\ call[c].pc = "idle"
    /\ u \in subs
    /\ subs' = subs \ {u}
    /\ shaky' = IF Overlaps(u) THEN shaky \cup {u} ELSE shaky
    /\ call' = [Steady(call, u) EXCEPT
                  ![c] = [Idle EXCEPT !.pc = "exists", !.op = "unsub", !.user = u]]
    /\ Outdates(u)
    /\ UNCHANGED list

\* The statement has its effect and its answer is an error: the list is not looked at.
ChangeLost(u) ==
    /\ subs' = (subs \ {u}) \cup ({u} \ subs)
    /\ shaky' = shaky \cup {u}
    /\ call' = Steady(call, u)
    /\ Outdates(u)
    /\ UNCHANGED list

GetSubs(c) ==
    /\ call[c].pc = "idle"
    /\ call' = [call EXCEPT ![c] = [Idle EXCEPT !.pc = "exists", !.op = "get",
                                                !.due = {u \in subs : ~Pending(u)}]]
    /\ UNCHANGED <<subs, list, flight, shaky>>

\* FollowListExists, and the first half of GetFollows.
TestList(c) ==
    /\ call[c].pc = "exists"
    /\ call' = [call EXCEPT ![c].pc = IF list = {} THEN "join"
                                      ELSE IF call[c].op = "get" THEN "members" ELSE "write"]
    /\ UNCHANGED <<subs, list, flight, shaky>>

\* A change is answered as done, though the list was not looked at.
TestFailed(c) ==
    /\ call[c].pc = "exists"
    /\ IF call[c].op = "get"
       THEN call' = [call EXCEPT ![c].pc = "join"] /\ UNCHANGED shaky
       ELSE call' = [call EXCEPT ![c] = Idle] /\ shaky' = shaky \cup {call[c].user}
    /\ UNCHANGED <<subs, list, flight>>

\* Mutant: the two directions are swapped.
ListAfterSwapped(c) ==
    IF call[c].op = "sub" THEN list \ {call[c].user} ELSE list \cup {call[c].user}

\* SADD and SREM.
ListAfter(c) ==
    IF call[c].op = "sub" THEN list \cup {call[c].user} ELSE list \ {call[c].user}

\* SADD makes a new list when the old one has been evicted since the test.
WriteList(c) ==
    /\ call[c].pc = "write"
    /\ list' = ListAfter(c)
    /\ shaky' = IF list = {} /\ list' # {} THEN shaky \cup (Users \ {call[c].user}) ELSE shaky
    /\ call' = [call EXCEPT ![c] = Idle]
    /\ UNCHANGED <<subs, flight>>

\* With or without effect; the list is not invalidated.
WriteFailed(c) ==
    /\ call[c].pc = "write"
    /\ list' \in {list, ListAfter(c)}
    /\ shaky' = shaky \cup (IF list = {} THEN Users ELSE {call[c].user})
    /\ call' = [call EXCEPT ![c] = Idle]
    /\ UNCHANGED <<subs, flight>>

\* The second half of GetFollows: an evicted list is an empty one by now, and no error.
ReadMembers(c) ==
    /\ call[c].pc = "members"
    /\ call' = [call EXCEPT ![c].pc = "answered", ![c].got = list]
    /\ UNCHANGED <<subs, list, flight, shaky>>

ReadMembersFailed(c) ==
    /\ call[c].pc = "members"
    /\ call' = [call EXCEPT ![c].pc = "join"]
    /\ UNCHANGED <<subs, list, flight, shaky>>

\* DoChan: the first one starts the fill.
Join(c) ==
    /\ call[c].pc = "join"
    /\ call' = [call EXCEPT ![c].pc = "wait", ![c].due = @ \ flight.late]
    /\ flight' = IF flight.pc = "none" THEN [NoFlight EXCEPT !.pc = "exists"] ELSE flight
    /\ UNCHANGED <<subs, list, shaky>>

\* ctx.Done: the fill goes on without this request.
Abandon(c) ==
    /\ call[c].pc = "wait"
    /\ call' = [call EXCEPT ![c] = Idle]
    /\ UNCHANGED <<subs, list, flight, shaky>>

Return(c) ==
    /\ call[c].pc = "answered"
    /\ call' = [call EXCEPT ![c] = Idle]
    /\ UNCHANGED <<subs, list, flight, shaky>>

-----------------------------------------------------------------------------
(* The fill: tryToCacheSubs.                                               *)

\* Mutant: only one of those who wait is told.
AnswerOne(S) ==
    \/ \E c \in Calls :
         /\ call[c].pc = "wait"
         /\ call' = [call EXCEPT ![c] = IF call[c].op = "get"
                                        THEN [@ EXCEPT !.pc = "answered", !.got = S] ELSE Idle]
    \/ (\A c \in Calls : call[c].pc # "wait") /\ UNCHANGED call

\* Everyone who waits gets the followers S.
AnswerAll(S) ==
    call' = [c \in Calls |->
               IF call[c].pc # "wait" THEN call[c]
               ELSE IF call[c].op = "get" THEN [call[c] EXCEPT !.pc = "answered", !.got = S]
               ELSE Idle]

FlightLookup ==
    /\ flight.pc = "exists"
    /\ flight' = [flight EXCEPT !.pc = IF list = {} THEN "repo" ELSE "members"]
    /\ UNCHANGED <<subs, list, call, shaky>>

FlightMembers ==
    /\ flight.pc = "members"
    /\ flight' = [pc |-> "answer", read |-> list, late |-> {u \in Users : Pending(u)}]
    /\ UNCHANGED <<subs, list, call, shaky>>

\* "A failed get should not invalidate a get from repo".
FlightGetFailed ==
    /\ flight.pc \in {"exists", "members"}
    /\ flight' = [flight EXCEPT !.pc = "repo"]
    /\ UNCHANGED <<subs, list, call, shaky>>

\* Mutant: the rows are read without those of changes that are under way.
FlightRepoSettled ==
    /\ flight.pc = "repo"
    /\ flight' = [flight EXCEPT !.pc = "set", !.read = {u \in subs : ~Pending(u)}]
    /\ UNCHANGED <<subs, list, call, shaky>>

FlightRepo ==
    /\ flight.pc = "repo"
    /\ flight' = [flight EXCEPT !.pc = "set", !.read = subs]
    /\ UNCHANGED <<subs, list, call, shaky>>

\* Everyone who waits gets the error.
FlightRepoFailed ==
    /\ flight.pc = "repo"
    /\ flight' = NoFlight
    /\ call' = [c \in Calls |-> IF call[c].pc = "wait" THEN Idle ELSE call[c]]
    /\ UNCHANGED <<subs, list, shaky>>

\* SADD adds to whatever the list is by now; it may fail, with or without effect.
FlightSet ==
    /\ flight.pc = "set"
    /\ list' \in {list, list \cup flight.read}
    /\ flight' = [flight EXCEPT !.pc = "answer"]
    /\ UNCHANGED <<subs, call, shaky>>

\* The function has returned, and singleflight hands its result to whoever waits by then.
FlightAnswer ==
    /\ flight.pc = "answer"
    /\ flight' = NoFlight
    /\ AnswerAll(flight.read)
    /\ UNCHANGED <<subs, list, shaky>>

-----------------------------------------------------------------------------
(* The environment.                                                        *)

\* maxmemory-policy allkeys-lru. A list that is gone is wrong about nobody.
Evict ==
    /\ list # {}
    /\ list' = {}
    /\ shaky' = IF flight.pc \notin {"set", "answer"} /\ \A c \in Calls : call[c].pc = "idle"
                THEN {} ELSE shaky
    /\ UNCHANGED <<subs, call, flight>>

Crash ==
    /\ call # [c \in Calls |-> Idle] \/ flight # NoFlight
    /\ call' = [c \in Calls |-> Idle]
    /\ flight' = NoFlight
    /\ shaky' = shaky \cup {u \in Users : Pending(u)}
    /\ UNCHANGED <<subs, list>>

Fill == FlightLookup \/ FlightMembers \/ FlightGetFailed \/ FlightRepo \/ FlightRepoFailed
        \/ FlightSet \/ FlightAnswer

Next ==
    \/ \E c \in Calls :
         \/ \E u \in Users : Subscribe(c, u) \/ Unsubscribe(c, u)
         \/ GetSubs(c) \/ TestList(c) \/ TestFailed(c) \/ WriteList(c) \/ WriteFailed(c)
         \/ ReadMembers(c) \/ ReadMembersFailed(c) \/ Join(c) \/ Abandon(c) \/ Return(c)
    \/ \E u \in Users : ChangeLost(u)
    \/ Fill
    \/ Evict
    \/ Crash

Spec == Init /\ [][Next]_vars

\* The fill runs in a goroutine of its own, with a context nobody cancels.
FairSpec == Spec /\ WF_vars(Fill)

-----------------------------------------------------------------------------
(* Properties.                                                             *)

\* Every variable keeps its type.
TypeOK ==
    /\ subs \in SUBSET Users
    /\ list \in SUBSET Users
    /\ call \in [Calls -> Call]
    /\ flight \in Flight
    /\ shaky \in SUBSET Users

\* A list that exists agrees with the table about every user of whom no change is on its
\* way, but for: a change during the read of a fill or during another one of the same
\* user; a change cut short by an error or a restart; and all users once an evicted list
\* was begun anew by a single SADD.
ListInSync ==
    list # {} => \A u \in Users \ shaky : Pending(u) \/ (u \in list <=> u \in subs)

\* A read returns every follower who was one all along, within the same limits, or nothing
\* at all when the list was evicted under it. To a read that joins a fill whose answer is on
\* its way, those are followers who were so in the list or the rows that the fill has read.
ReadsComplete ==
    \A c \in Calls : (call[c].pc = "answered" /\ call[c].got # {}) =>
                        call[c].due \ shaky \subseteq call[c].got

\* Nobody waits for a fill that does not come to an end or has forgotten about him.
WaitersAnswered ==
    \A c \in Calls : (call[c].pc = "wait") ~> (call[c].pc # "wait")
=============================================================================
