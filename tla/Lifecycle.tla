----------------------------- MODULE Lifecycle -----------------------------
(***************************************************************************)
(* The running process: requests and the post events processor share the   *)
(* connection pool of Postgres; main waits for a signal or the death of    *)
(* the server and stops things one by one, each with a time limit but the  *)
(* last. Whoever has asked it to stop may lose patience meanwhile.         *)
(*                                                                         *)
(* A request holds one connection during a statement or a transaction.     *)
(* RemovePost alone asks for a second one inside its transaction           *)
(* (r.query.DeletePost): as many removals as there are connections can     *)
(* wait for one another. A fill of a follower list, which a request has    *)
(* started and others share, holds one too, and nobody can cancel it.      *)
(***************************************************************************)
EXTENDS Integers, FiniteSets

CONSTANTS Removers, \* requests that remove a post
          Others,   \* all other requests
          Authors,  \* whose follower lists may be filled
          MaxConns  \* connections of the pool

ASSUME ConstantsAssumption ==
    /\ IsFiniteSet(Removers)
    /\ IsFiniteSet(Others)
    /\ IsFiniteSet(Authors)
    /\ Removers \cap Others = {}
    /\ MaxConns \in Nat \ {0}

VARIABLES
    req,       \* what each request is doing
    fill,      \* what the fill of each follower list is doing
    processor, \* what the processor is doing
    stage,     \* where main is
    failed,    \* main: shutdownErr # nil
    code,      \* exit code
    drained,   \* Shutdown has closed every connection of the clients
    told,      \* doneChan is closed
    died,      \* srvErr holds the error of ListenAndServe
    asked,     \* history: main has received a signal
    late,      \* history: the processor was not waited for to its end
    cut        \* history: requests that met a closed pool or the end of the process

vars == <<req, fill, processor, stage, failed, code, drained, told, died, asked, late, cut>>
main == <<stage, failed, code, drained, told, died, asked, late>>

Requests == Removers \cup Others

-----------------------------------------------------------------------------
(* The pool.                                                               *)

In(states) == {r \in Requests : req[r] \in states}

Filling == {a \in Authors : fill[a] = "hold"}

\* "hold" has one connection, "first" one and waits for the other, "both" two.
Held == Cardinality(In({"hold", "first", "both"})) + Cardinality(In({"both"}))
        + Cardinality(Filling) + (IF processor = "hold" THEN 1 ELSE 0)

Free == MaxConns - Held

\* Pool.Close has been called.
Closed == stage \in {"pool", "exited"}

\* Removals have all connections, and each of them waits for one more.
Jammed == Cardinality(Removers \cap In({"first"})) = MaxConns

Init ==
    /\ req = [r \in Requests |-> "none"]
    /\ fill = [a \in Authors |-> "none"]
    /\ processor = "asleep"
    /\ stage = "serving"
    /\ failed = FALSE
    /\ code = -1
    /\ drained = FALSE
    /\ told = FALSE
    /\ died = FALSE
    /\ asked = FALSE
    /\ late = FALSE
    /\ cut = {}

-----------------------------------------------------------------------------
(* Requests.                                                               *)

\* Connections accepted before the shutdown may still bring one until they are closed.
Arrive(r) ==
    /\ req[r] = "none"
    /\ ~drained
    /\ req' = [req EXCEPT ![r] = "run"]
    /\ UNCHANGED <<fill, processor, main, cut>>

\* A statement on the pool, or pool.Begin.
Ask(r) ==
    /\ req[r] = "run"
    /\ req' = [req EXCEPT ![r] = "wait"]
    /\ UNCHANGED <<fill, processor, main, cut>>

Answer(r) ==
    /\ req[r] = "run"
    /\ req' = [req EXCEPT ![r] = "none"]
    /\ UNCHANGED <<fill, processor, main, cut>>

\* Mutant: other transactions use the pool inside, too.
TransactionOfAny(r) == TRUE

\* Whose transaction asks for a second connection.
AsksTwice(r) == r \in Removers

Acquire(r) ==
    /\ req[r] = "wait"
    /\ Free > 0 /\ ~Closed
    /\ \E held \in {"hold"} \cup (IF AsksTwice(r) THEN {"first"} ELSE {}) :
         req' = [req EXCEPT ![r] = held]
    /\ UNCHANGED <<fill, processor, main, cut>>

AcquireSecond(r) ==
    /\ req[r] = "first"
    /\ Free > 0 /\ ~Closed
    /\ req' = [req EXCEPT ![r] = "both"]
    /\ UNCHANGED <<fill, processor, main, cut>>

\* The event and the commit, or the rollback, are left to do.
ReleaseSecond(r) ==
    /\ req[r] = "both"
    /\ req' = [req EXCEPT ![r] = "hold"]
    /\ UNCHANGED <<fill, processor, main, cut>>

\* Mutant: the transaction of a failed removal is not rolled back.
ReleaseNever(r) == FALSE /\ UNCHANGED vars

\* The end of a statement or of a transaction, whatever came of it.
Release(r) ==
    /\ req[r] = "hold"
    /\ req' = [req EXCEPT ![r] = "run"]
    /\ UNCHANGED <<fill, processor, main, cut>>

\* ErrClosedPool, for those whose turn comes; a transaction is rolled back.
Refused(r) ==
    /\ req[r] \in {"wait", "first"}
    /\ Free > 0 /\ Closed
    /\ req' = [req EXCEPT ![r] = "run"]
    /\ cut' = cut \cup {r}
    /\ UNCHANGED <<fill, processor, main>>

\* The client has gone: the context of the request ends, and with it all waiting.
Cancel(r) ==
    /\ req[r] \in {"wait", "first", "both", "hold"}
    /\ req' = [req EXCEPT ![r] = "run"]
    /\ UNCHANGED <<fill, processor, main, cut>>

-----------------------------------------------------------------------------
(* The fills of the follower lists (context.WithoutCancel): one that has   *)
(* begun goes on without the requests that wait for it, which are in "run" *)
(* as long as they do.                                                     *)

\* Some request subscribes or unsubscribes, and the list is missing.
FillStart(a) ==
    /\ fill[a] = "none"
    /\ In({"run"}) \cap Others # {}
    /\ fill' = [fill EXCEPT ![a] = "wait"]
    /\ UNCHANGED <<req, processor, main, cut>>

FillAcquire(a) ==
    /\ fill[a] = "wait"
    /\ Free > 0 /\ ~Closed
    /\ fill' = [fill EXCEPT ![a] = "hold"]
    /\ UNCHANGED <<req, processor, main, cut>>

\* The followers are read, or the query has failed.
FillEnds(a) ==
    /\ fill[a] = "hold"
    /\ fill' = [fill EXCEPT ![a] = "none"]
    /\ UNCHANGED <<req, processor, main, cut>>

\* ErrClosedPool for whoever still waits for it.
FillRefused(a) ==
    /\ fill[a] = "wait"
    /\ Free > 0 /\ Closed
    /\ fill' = [fill EXCEPT ![a] = "none"]
    /\ \E S \in SUBSET In({"run"}) : cut' = cut \cup S
    /\ UNCHANGED <<req, processor, main>>

-----------------------------------------------------------------------------
(* The processor.                                                          *)

\* The timer fires; after Close, select may still choose it.
Wake ==
    /\ processor = "asleep"
    /\ processor' = "wait"
    /\ UNCHANGED <<req, fill, main, cut>>

Quit ==
    /\ processor = "asleep"
    /\ told
    /\ processor' = "finished"
    /\ UNCHANGED <<req, fill, main, cut>>

\* The rows, the followers of an event (its repository is the plain one: no fill), or the
\* UPDATE. A closed pool ends the cycle.
Query ==
    /\ processor = "wait"
    /\ Free > 0
    /\ processor' = IF Closed THEN "asleep" ELSE "hold"
    /\ UNCHANGED <<req, fill, main, cut>>

QueryEnds ==
    /\ processor = "hold"
    /\ processor' \in {"feeds", "asleep"}
    /\ UNCHANGED <<req, fill, main, cut>>

\* The feeds are written; the next event or the UPDATE follows, or an error ends the cycle.
Feeds ==
    /\ processor = "feeds"
    /\ processor' \in {"wait", "asleep"}
    /\ UNCHANGED <<req, fill, main, cut>>

-----------------------------------------------------------------------------
(* main.                                                                   *)

\* ListenAndServe returns. The error waits in a channel of one place.
ServerDied ==
    /\ stage = "serving"
    /\ died' = TRUE
    /\ UNCHANGED <<req, fill, processor, stage, failed, code, drained, told, asked, late, cut>>

\* select may take the signal though srvErr is ready: then nobody reads the error.
Signal ==
    /\ stage = "serving"
    /\ stage' = "server"
    /\ asked' = TRUE
    /\ UNCHANGED <<req, fill, processor, failed, code, drained, told, died, late, cut>>

HearDeath ==
    /\ stage = "serving"
    /\ died
    /\ stage' = "server"
    /\ failed' = TRUE
    /\ UNCHANGED <<req, fill, processor, code, drained, told, died, asked, late, cut>>

\* closeServer: all requests have ended, or five seconds are over.
CloseServer ==
    /\ stage = "server"
    /\ stage' = "telemetry"
    /\ \/ /\ In({"run", "wait", "hold", "first", "both"}) = {}
          /\ drained' = TRUE
          /\ UNCHANGED failed
       \/ /\ failed' = TRUE
          /\ UNCHANGED drained
    /\ UNCHANGED <<req, fill, processor, code, told, died, asked, late, cut>>

\* Mutant: the error of telemetry is assigned, not joined.
CloseOTelAssigns ==
    /\ stage = "telemetry"
    /\ stage' = "processors"
    /\ \E err \in BOOLEAN : failed' = err
    /\ told' = TRUE
    /\ UNCHANGED <<req, fill, processor, code, drained, died, asked, late, cut>>

\* closeOTel, and the first statement of closeProcessors: close(doneChan).
CloseOTel ==
    /\ stage = "telemetry"
    /\ stage' = "processors"
    /\ \E err \in BOOLEAN : failed' = (failed \/ err)
    /\ told' = TRUE
    /\ UNCHANGED <<req, fill, processor, code, drained, died, asked, late, cut>>

\* processFinishedChan, or five seconds are over, which nobody is told of. The pool is closed next.
CloseProcessors ==
    /\ stage = "processors"
    /\ stage' = "pool"
    /\ \/ processor = "finished" /\ UNCHANGED late
       \/ processor # "finished" /\ late' = TRUE
    /\ UNCHANGED <<req, fill, processor, failed, code, drained, told, died, asked, cut>>

\* Pool.Close returns when every connection is back; then the client of Redis is closed.
Exit ==
    /\ stage = "pool"
    /\ Held = 0
    /\ stage' = "exited"
    /\ \E err \in BOOLEAN :
         /\ failed' = (failed \/ err)
         /\ code' = IF failed' THEN 1 ELSE 0
    /\ cut' = cut \cup In({"run", "wait", "hold", "first", "both"})
    /\ req' = [r \in Requests |-> "none"]
    /\ fill' = [a \in Authors |-> "none"]
    /\ processor' = "finished"
    /\ UNCHANGED <<drained, told, died, asked, late>>

\* The end comes before Exit: a second signal, whose handler stop() has removed, or the end
\* of the ten seconds that Docker waits for the process.
Kill ==
    /\ stage \notin {"serving", "exited"}
    /\ stage' = "exited"
    /\ code' = 137
    /\ cut' = cut \cup In({"run", "wait", "hold", "first", "both"})
    /\ req' = [r \in Requests |-> "none"]
    /\ fill' = [a \in Authors |-> "none"]
    /\ processor' = "finished"
    /\ UNCHANGED <<failed, drained, told, died, asked, late>>

-----------------------------------------------------------------------------
Connect(r) == Acquire(r) \/ AcquireSecond(r) \/ Refused(r)
Disconnect(r) == ReleaseSecond(r) \/ Release(r)
FillConnect(a) == FillAcquire(a) \/ FillRefused(a)
Main == CloseServer \/ CloseOTel \/ CloseProcessors \/ Exit

Next ==
    \/ /\ stage # "exited"
       /\ \/ \E r \in Requests :
               Arrive(r) \/ Ask(r) \/ Answer(r) \/ Connect(r) \/ Disconnect(r) \/ Cancel(r)
          \/ \E a \in Authors :
               FillStart(a) \/ FillConnect(a) \/ FillEnds(a)
          \/ Wake \/ Quit \/ Query \/ QueryEnds \/ Feeds
    \/ ServerDied
    \/ Signal
    \/ HearDeath
    \/ Main
    \/ Kill

Spec == Init /\ [][Next]_vars

\* Postgres answers; the pool serves those who wait in turn; the time limits of main run out.
\* Nothing is assumed of clients: they need not go away.
FairSpec ==
    /\ Spec
    /\ \A r \in Requests : SF_vars(Connect(r)) /\ WF_vars(Disconnect(r))
    /\ \A a \in Authors : SF_vars(FillConnect(a)) /\ WF_vars(FillEnds(a))
    /\ SF_vars(Query)
    /\ WF_vars(QueryEnds)
    /\ WF_vars(Main)

-----------------------------------------------------------------------------
(* Properties.                                                             *)

\* Every variable keeps its type, and the pool lends no connection it does not have.
TypeOK ==
    /\ req \in [Requests -> {"none", "run", "wait", "hold", "first", "both"}]
    /\ fill \in [Authors -> {"none", "wait", "hold"}]
    /\ processor \in {"asleep", "wait", "hold", "feeds", "finished"}
    /\ stage \in {"serving", "server", "telemetry", "processors", "pool", "exited"}
    /\ {failed, drained, told, died, asked, late} \subseteq BOOLEAN
    /\ code \in {-1, 0, 1, 137}
    /\ cut \in SUBSET Requests
    /\ Held <= MaxConns

\* The process ends with exit code 0, with which it is not restarted, only if it was asked
\* to end and every request it took has been answered without meeting a closed pool or the
\* end of the process.
HonestExit == code = 0 => asked /\ cut = {}

\* The pool is closed under the processor only after its five seconds, so that a batch is
\* not broken off because main stops things in the wrong order.
CyclesEndFirst == Closed /\ processor # "finished" => late

\* Only removals wait for one another in a circle: when no connection is free, somebody has
\* one and waits for nobody, or removals have them all.
OnlyRemovalsJam ==
    Free = 0 => In({"hold", "both"}) # {} \/ Filling # {} \/ processor = "hold" \/ Jammed

\* Nobody who waits for a connection waits for ever, clients that never hang up included,
\* unless removals have come to wait for one another for good.
ConnectionsCome ==
    []<>~Jammed =>
        /\ \A r \in Requests : \A s \in {"wait", "first"} : (req[r] = s) ~> (req[r] # s)
        /\ \A a \in Authors : (fill[a] = "wait") ~> (fill[a] # "wait")

\* Once main has begun to stop, the process ends, unless removals keep every connection, for
\* which Pool.Close then waits.
MainExits == []<>~Jammed => ((stage = "server") ~> (stage = "exited"))
=============================================================================
