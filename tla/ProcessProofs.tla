---------------------------- MODULE ProcessProofs ----------------------------
(***************************************************************************)
(* The running process for any requests and any pool, and the loop of its  *)
(* processor for any delays: the safety properties of Lifecycle and of     *)
(* RetryLoop, which share nothing but the process they are about.          *)
(*                                                                         *)
(* The argument of the exit code: either the server has drained, after     *)
(* which there are no requests to cut, or shutdownErr has been set, and    *)
(* nothing resets it.                                                      *)
(*                                                                         *)
(* That of the pauses: the delay computed so far is the power of the base  *)
(* for the passes made so far; it stays between the first and the greatest *)
(* delay, so that no product wraps around; and where it is cut, the closed *)
(* form is cut, too, because powers grow. The timer is armed with what is  *)
(* left of it.                                                             *)
(***************************************************************************)
EXTENDS Lifecycle, RetryLoop, FiniteSetTheorems, TLAPS

One == In({"hold", "first", "both"})
Two == In({"both"})
Active == In({"run", "wait", "hold", "first", "both"})

\* Only removals hold a connection and wait for another.
TwiceInv == In({"first", "both"}) \subseteq Removers

\* What main knows at each stage.
StageInv ==
    /\ drained => Active = {} /\ cut = {}
    /\ stage # "serving" => asked \/ failed
    /\ stage \in {"telemetry", "processors", "pool"} => drained \/ failed
    /\ ~Closed => cut = {}
    /\ code = 0 => drained /\ ~failed /\ stage = "exited"

IInv == TypeOK /\ TwiceInv /\ StageInv /\ CyclesEndFirst

-----------------------------------------------------------------------------
\* Requests are finitely many.
LEMMA RequestsFinite == IsFiniteSet(Requests)
  BY ConstantsAssumption, FS_Union DEF Requests

\* So are those in some of the states,
LEMMA InFinite ==
    ASSUME NEW S
    PROVE  IsFiniteSet(In(S)) /\ Cardinality(In(S)) \in Nat
  <1>1. In(S) \in SUBSET Requests
        BY DEF In
  <1> QED BY <1>1, RequestsFinite, FS_Subset, FS_CardinalityType

\* and those in them after a step.
LEMMA InFiniteNext ==
    ASSUME NEW S
    PROVE  IsFiniteSet(In(S)') /\ Cardinality(In(S)') \in Nat
  <1>1. In(S)' \in SUBSET Requests
        BY DEF In
  <1> QED BY <1>1, RequestsFinite, FS_Subset, FS_CardinalityType

\* Fills are finitely many, before a step and after it.
LEMMA FillingFinite ==
    /\ IsFiniteSet(Filling) /\ Cardinality(Filling) \in Nat
    /\ IsFiniteSet(Filling') /\ Cardinality(Filling') \in Nat
  <1>1. Filling \in SUBSET Authors /\ Filling' \in SUBSET Authors
        BY DEF Filling
  <1> QED BY <1>1, ConstantsAssumption, FS_Subset, FS_CardinalityType

\* One more element counts for one at most.
LEMMA AddOne ==
    ASSUME NEW S, IsFiniteSet(S), NEW x
    PROVE  /\ IsFiniteSet(S \cup {x})
           /\ Cardinality(S \cup {x}) \in Nat
           /\ Cardinality(S \cup {x}) <= Cardinality(S) + 1
  <1>1. Cardinality(S \cup {x}) = IF x \in S THEN Cardinality(S) ELSE Cardinality(S) + 1
        BY FS_AddElement
  <1>2. IsFiniteSet(S \cup {x})
        BY FS_AddElement
  <1>3. Cardinality(S) \in Nat
        BY FS_CardinalityType
  <1> QED BY <1>1, <1>2, <1>3

\* The connections in use.
LEMMA HeldSum ==
    /\ Held = Cardinality(One) + Cardinality(Two) + Cardinality(Filling)
                + (IF processor = "hold" THEN 1 ELSE 0)
    /\ Held' = Cardinality(One') + Cardinality(Two') + Cardinality(Filling')
                + (IF processor' = "hold" THEN 1 ELSE 0)
    /\ Held \in Nat
    /\ Held' \in Nat
    /\ Cardinality(One) \in Nat /\ Cardinality(Two) \in Nat
    /\ Cardinality(One') \in Nat /\ Cardinality(Two') \in Nat
    /\ Cardinality(Filling) \in Nat /\ Cardinality(Filling') \in Nat
  <1>1. /\ Cardinality(One) \in Nat /\ Cardinality(Two) \in Nat
        /\ Cardinality(One') \in Nat /\ Cardinality(Two') \in Nat
        BY InFinite, InFiniteNext DEF One, Two
  <1>2. Held = Cardinality(One) + Cardinality(Two) + Cardinality(Filling)
                + (IF processor = "hold" THEN 1 ELSE 0)
        BY DEF Held, One, Two
  <1>3. Held' = Cardinality(One') + Cardinality(Two') + Cardinality(Filling')
                + (IF processor' = "hold" THEN 1 ELSE 0)
        BY DEF Held, One, Two
  <1> QED BY <1>1, <1>2, <1>3, FillingFinite

\* A step that gives nobody a connection keeps the pool within its size.
LEMMA HeldShrinks ==
    ASSUME One' \subseteq One, Two' \subseteq Two, Filling' \subseteq Filling,
           processor' = "hold" => processor = "hold",
           Held <= MaxConns
    PROVE  Held' <= MaxConns
  <1>1. IsFiniteSet(One) /\ IsFiniteSet(Two)
        BY InFinite DEF One, Two
  <1>2. Cardinality(One') <= Cardinality(One)
        BY <1>1, FS_Subset
  <1>3. Cardinality(Two') <= Cardinality(Two)
        BY <1>1, FS_Subset
  <1>4. Cardinality(Filling') <= Cardinality(Filling)
        BY FillingFinite, FS_Subset
  <1> QED BY <1>2, <1>3, <1>4, HeldSum, ConstantsAssumption

\* A step that gives one connection does so when one is free: it may be somebody's first,
LEMMA HeldGrowsOne ==
    ASSUME Free > 0,
           NEW r, One' \subseteq One \cup {r}, Two' \subseteq Two, Filling' = Filling,
           processor' = processor
    PROVE  Held' <= MaxConns
  <1>1. IsFiniteSet(One) /\ IsFiniteSet(Two)
        BY InFinite DEF One, Two
  <1>2. Cardinality(One') <= Cardinality(One \cup {r}) /\ Cardinality(Two') <= Cardinality(Two)
        BY <1>1, AddOne, FS_Subset
  <1>3. Cardinality(One \cup {r}) \in Nat /\ Cardinality(One \cup {r}) <= Cardinality(One) + 1
        BY <1>1, AddOne
  <1> QED BY <1>2, <1>3, HeldSum, ConstantsAssumption DEF Free

\* somebody's second,
LEMMA HeldGrowsTwo ==
    ASSUME Free > 0,
           NEW r, One' \subseteq One, Two' \subseteq Two \cup {r}, Filling' = Filling,
           processor' = processor
    PROVE  Held' <= MaxConns
  <1>1. IsFiniteSet(One) /\ IsFiniteSet(Two)
        BY InFinite DEF One, Two
  <1>2. Cardinality(One') <= Cardinality(One) /\ Cardinality(Two') <= Cardinality(Two \cup {r})
        BY <1>1, AddOne, FS_Subset
  <1>3. Cardinality(Two \cup {r}) \in Nat /\ Cardinality(Two \cup {r}) <= Cardinality(Two) + 1
        BY <1>1, AddOne
  <1> QED BY <1>2, <1>3, HeldSum, ConstantsAssumption DEF Free

\* a fill's,
LEMMA HeldGrowsFill ==
    ASSUME Free > 0,
           NEW a, One' = One, Two' = Two, Filling' \subseteq Filling \cup {a},
           processor' = processor
    PROVE  Held' <= MaxConns
  <1>1. Cardinality(Filling') <= Cardinality(Filling \cup {a})
        BY FillingFinite, AddOne, FS_Subset
  <1>2. /\ Cardinality(Filling \cup {a}) \in Nat
        /\ Cardinality(Filling \cup {a}) <= Cardinality(Filling) + 1
        BY FillingFinite, AddOne
  <1> QED BY <1>1, <1>2, HeldSum, ConstantsAssumption DEF Free

\* or the processor's.
LEMMA HeldGrowsProcessor ==
    ASSUME Free > 0, One' = One, Two' = Two, Filling' = Filling
    PROVE  Held' <= MaxConns
  BY HeldSum, ConstantsAssumption DEF Free

-----------------------------------------------------------------------------
\* The initial states satisfy the invariant.
LEMMA InitInv == Init => IInv
  <1> SUFFICES ASSUME Init PROVE IInv
      OBVIOUS
  <1>1. One = {} /\ Two = {} /\ Active = {} /\ In({"first", "both"}) = {} /\ Filling = {}
        BY DEF Init, One, Two, Active, In, Filling
  <1>2. Cardinality({}) = 0
        BY FS_EmptySet
  <1>3. Held <= MaxConns
        BY <1>1, <1>2, HeldSum, ConstantsAssumption DEF Init
  <1>4. TypeOK
        BY <1>3 DEF Init, TypeOK
  <1>5. TwiceInv /\ StageInv /\ CyclesEndFirst
        BY <1>1 DEF Init, TwiceInv, StageInv, CyclesEndFirst, Closed
  <1> QED BY <1>4, <1>5 DEF IInv

\* A step of a request keeps the types and the size of the pool.
LEMMA RequestType ==
    ASSUME IInv, NEW r \in Requests,
           Arrive(r) \/ Ask(r) \/ Answer(r) \/ Connect(r) \/ Disconnect(r) \/ Cancel(r)
    PROVE  TypeOK' /\ TwiceInv'
  <1>1. req \in [Requests -> {"none", "run", "wait", "hold", "first", "both"}] /\ Held <= MaxConns
        BY DEF IInv, TypeOK
  <1>2. UNCHANGED <<fill, processor, main>> /\ cut' \in {cut, cut \cup {r}}
        BY DEF Arrive, Ask, Answer, Connect, Disconnect, Cancel, Acquire, AcquireSecond, Refused,
               ReleaseSecond, Release
  <1>3. PICK s \in {"none", "run", "wait", "hold", "first", "both"} :
            /\ req' = [req EXCEPT ![r] = s]
            /\ s = "first" => AsksTwice(r)
            /\ s = "both" => req[r] = "first"
            /\ s = "hold" => req[r] \in {"wait", "both"}
            /\ (s = "first" \/ s = "both" \/ (s = "hold" /\ req[r] = "wait")) => Free > 0
        BY DEF Arrive, Ask, Answer, Connect, Disconnect, Cancel, Acquire, AcquireSecond, Refused,
               ReleaseSecond, Release
  <1>4. Held' <= MaxConns
    <2>0. Filling' = Filling
          BY <1>2 DEF Filling
    <2>1. CASE s \in {"none", "run", "wait"} \/ (s = "hold" /\ req[r] = "both")
      <3>1. One' \subseteq One /\ Two' \subseteq Two
            BY <1>1, <1>3, <2>1 DEF One, Two, In
      <3> QED BY <1>1, <1>2, <2>0, <3>1, HeldShrinks
    <2>2. CASE s = "first" \/ (s = "hold" /\ req[r] = "wait")
      <3>1. One' \subseteq One \cup {r} /\ Two' \subseteq Two
            BY <1>1, <1>3, <2>2 DEF One, Two, In
      <3> QED BY <1>2, <1>3, <2>0, <2>2, <3>1, HeldGrowsOne
    <2>3. CASE s = "both"
      <3>1. One' \subseteq One /\ Two' \subseteq Two \cup {r}
            BY <1>1, <1>3, <2>3 DEF One, Two, In
      <3>2. processor' = processor /\ Free > 0
            BY <1>2, <1>3, <2>3
      <3> QED BY <2>0, <3>1, <3>2, HeldGrowsTwo
    <2>4. \/ s \in {"none", "run", "wait", "first", "both"}
          \/ s = "hold" /\ (req[r] = "wait" \/ req[r] = "both")
          BY <1>3
    <2> QED BY <2>1, <2>2, <2>3, <2>4
  <1>5. TypeOK'
        BY <1>1, <1>2, <1>3, <1>4 DEF IInv, TypeOK, main
  <1>6. TwiceInv'
        BY <1>1, <1>3 DEF IInv, TwiceInv, In, AsksTwice
  <1> QED BY <1>5, <1>6

\* A step of a request keeps what main knows; after the server has drained there is none.
LEMMA RequestStage ==
    ASSUME IInv, NEW r \in Requests,
           Arrive(r) \/ Ask(r) \/ Answer(r) \/ Connect(r) \/ Disconnect(r) \/ Cancel(r)
    PROVE  StageInv' /\ CyclesEndFirst'
  <1> USE DEF IInv
  <1>1. UNCHANGED <<processor, main>> /\ cut' \in {cut, cut \cup {r}}
        BY DEF Arrive, Ask, Answer, Connect, Disconnect, Cancel, Acquire, AcquireSecond, Refused,
               ReleaseSecond, Release
  <1>2. req[r] = "none" => ~drained
        BY DEF Arrive, Ask, Answer, Connect, Disconnect, Cancel, Acquire, AcquireSecond, Refused,
               ReleaseSecond, Release
  <1>3. ~drained
        BY <1>2 DEF TypeOK, StageInv, Active, In
  <1>4. ~Closed => cut' = cut
        BY DEF Arrive, Ask, Answer, Connect, Disconnect, Cancel, Acquire, AcquireSecond, Refused,
               ReleaseSecond, Release
  <1>5. StageInv'
        BY <1>1, <1>3, <1>4 DEF StageInv, Closed, main
  <1>6. CyclesEndFirst'
        BY <1>1 DEF CyclesEndFirst, Closed, main
  <1> QED BY <1>5, <1>6

\* A step of the processor keeps the invariant.
LEMMA ProcessorInv ==
    ASSUME IInv, Wake \/ Quit \/ Query \/ QueryEnds \/ Feeds
    PROVE  IInv'
  <1> USE DEF IInv
  <1>1. /\ UNCHANGED <<req, fill, main, cut>>
        /\ processor # "finished"
        /\ processor' \in {"asleep", "wait", "hold", "feeds", "finished"}
        /\ processor' = "hold" => processor = "wait" /\ Free > 0
        BY DEF Wake, Quit, Query, QueryEnds, Feeds
  <1>2. One' = One /\ Two' = Two /\ Active' = Active /\ Filling' = Filling
        BY <1>1 DEF One, Two, Active, In, Filling
  <1>3. Held' <= MaxConns
    <2>1. CASE processor' = "hold"
          BY <1>1, <1>2, <2>1, HeldGrowsProcessor
    <2>2. CASE processor' # "hold"
          BY <1>2, <2>2, HeldShrinks DEF TypeOK
    <2> QED BY <2>1, <2>2
  <1>4. TypeOK'
        BY <1>1, <1>3 DEF TypeOK, main, In
  <1>5. TwiceInv' /\ StageInv'
        BY <1>1, <1>2 DEF TwiceInv, StageInv, In, Closed, main
  <1>6. CyclesEndFirst'
        BY <1>1 DEF CyclesEndFirst, Closed, main
  <1> QED BY <1>4, <1>5, <1>6

\* A step of a fill keeps the invariant.
LEMMA FillInv ==
    ASSUME IInv, NEW a \in Authors, FillStart(a) \/ FillConnect(a) \/ FillEnds(a)
    PROVE  IInv'
  <1> USE DEF IInv
  <1>1. /\ UNCHANGED <<req, processor, main>>
        /\ cut' \in SUBSET (cut \cup In({"run"}))
        /\ cut \subseteq cut'
        /\ ~Closed => cut' = cut
        BY DEF FillStart, FillConnect, FillAcquire, FillRefused, FillEnds
  <1>2. PICK s \in {"none", "wait", "hold"} :
            /\ fill' = [fill EXCEPT ![a] = s]
            /\ s = "hold" => Free > 0
        BY DEF FillStart, FillConnect, FillAcquire, FillRefused, FillEnds
  <1>3. One' = One /\ Two' = Two /\ Active' = Active
        BY <1>1 DEF One, Two, Active, In
  <1>4. Held' <= MaxConns
    <2>1. CASE s = "hold"
      <3>1. Filling' \subseteq Filling \cup {a}
            BY <1>2 DEF Filling, TypeOK
      <3> QED BY <1>1, <1>2, <1>3, <2>1, <3>1, HeldGrowsFill
    <2>2. CASE s # "hold"
      <3>1. Filling' \subseteq Filling
            BY <1>2, <2>2 DEF Filling, TypeOK
      <3> QED BY <1>1, <1>3, <3>1, HeldShrinks DEF TypeOK
    <2> QED BY <2>1, <2>2
  <1>5. TypeOK'
        BY <1>1, <1>2, <1>4 DEF TypeOK, main, In
  <1>6. TwiceInv'
        BY <1>1 DEF TwiceInv, In
  <1>7. drained => cut' = {}
        BY <1>1 DEF StageInv, Active, In
  <1>8. StageInv' /\ CyclesEndFirst'
        BY <1>1, <1>3, <1>7 DEF StageInv, CyclesEndFirst, Closed, main
  <1> QED BY <1>5, <1>6, <1>8

\* A step of main keeps the types and the size of the pool.
LEMMA MainType ==
    ASSUME IInv, ServerDied \/ Signal \/ HearDeath \/ Main \/ Kill
    PROVE  TypeOK' /\ TwiceInv'
  <1> USE DEF IInv
  <1>1. CASE Exit \/ Kill
    <2>1. One' = {} /\ Two' = {} /\ In({"first", "both"})' = {} /\ Filling' = {}
          BY <1>1 DEF Exit, Kill, One, Two, In, Filling
    <2>2. Held' <= MaxConns
      <3>1. One' \subseteq One /\ Two' \subseteq Two /\ Filling' \subseteq Filling
            BY <2>1
      <3> QED BY <1>1, <3>1, HeldShrinks DEF Exit, Kill, TypeOK
    <2>3. cut' \in SUBSET Requests
          BY <1>1 DEF Exit, Kill, TypeOK, In
    <2>4. TypeOK'
          BY <1>1, <2>2, <2>3 DEF Exit, Kill, TypeOK
    <2> QED BY <2>1, <2>4 DEF TwiceInv
  <1>2. CASE ServerDied \/ Signal \/ HearDeath \/ CloseServer \/ CloseOTel \/ CloseProcessors
    <2>1. UNCHANGED <<req, fill, processor, cut, code>>
          BY <1>2 DEF ServerDied, Signal, HearDeath, CloseServer, CloseOTel, CloseProcessors
    <2>2. Held' = Held /\ In({"first", "both"})' = In({"first", "both"})
          BY <2>1 DEF Held, In, Filling
    <2>3. /\ stage' \in {"serving", "server", "telemetry", "processors", "pool", "exited"}
          /\ {failed', drained', told', died', asked', late'} \subseteq BOOLEAN
          BY <1>2 DEF ServerDied, Signal, HearDeath, CloseServer, CloseOTel, CloseProcessors, TypeOK
    <2>4. TypeOK'
          BY <2>1, <2>2, <2>3 DEF TypeOK
    <2> QED BY <2>2, <2>4 DEF TwiceInv
  <1> QED BY <1>1, <1>2 DEF Main

\* A step of main keeps what it knows of the requests and of the processor.
LEMMA MainStage ==
    ASSUME IInv, ServerDied \/ Signal \/ HearDeath \/ Main \/ Kill
    PROVE  StageInv' /\ CyclesEndFirst'
  <1> USE DEF IInv
  <1>1. CASE ServerDied \/ Signal \/ HearDeath
        BY <1>1 DEF ServerDied, Signal, HearDeath, StageInv, CyclesEndFirst, Closed, Active,
                    In, TypeOK
  <1>2. CASE CloseServer
        BY <1>2 DEF CloseServer, StageInv, CyclesEndFirst, Closed, Active, In, TypeOK
  <1>3. CASE CloseOTel
        BY <1>3 DEF CloseOTel, StageInv, CyclesEndFirst, Closed, Active, In, TypeOK
  <1>4. CASE CloseProcessors
        BY <1>4 DEF CloseProcessors, StageInv, CyclesEndFirst, Closed, Active, In, TypeOK
  <1>5. CASE Exit \/ Kill
    <2>1. Active' = {} /\ (drained => cut' = cut)
          BY <1>5 DEF Exit, Kill, StageInv, Active, In
    <2>2. StageInv'
          BY <1>5, <2>1 DEF Exit, Kill, StageInv, Closed, TypeOK
    <2> QED BY <1>5, <2>2 DEF Exit, Kill, CyclesEndFirst
  <1> QED BY <1>1, <1>2, <1>3, <1>4, <1>5 DEF Main

-----------------------------------------------------------------------------
\* The invariant holds for every value of the constants.
THEOREM Invariance == Spec => []IInv
  <1>1. ASSUME IInv, [Next]_vars PROVE IInv'
    <2>1. CASE UNCHANGED vars
          BY <1>1, <2>1 DEF vars, IInv, TypeOK, TwiceInv, StageInv, CyclesEndFirst, Closed, Held,
                            Active, In, Filling
    <2>2. ASSUME NEW r \in Requests,
                 Arrive(r) \/ Ask(r) \/ Answer(r) \/ Connect(r) \/ Disconnect(r) \/ Cancel(r)
          PROVE  IInv'
          BY <1>1, <2>2, RequestType, RequestStage DEF IInv
    <2>3. CASE Wake \/ Quit \/ Query \/ QueryEnds \/ Feeds
          BY <1>1, <2>3, ProcessorInv
    <2>4. CASE ServerDied \/ Signal \/ HearDeath \/ Main \/ Kill
          BY <1>1, <2>4, MainType, MainStage DEF IInv
    <2>5. ASSUME NEW a \in Authors, FillStart(a) \/ FillConnect(a) \/ FillEnds(a) PROVE IInv'
          BY <1>1, <2>5, FillInv
    <2> QED BY <1>1, <2>1, <2>2, <2>3, <2>4, <2>5 DEF Next
  <1> QED BY InitInv, <1>1, PTL DEF Spec

\* Every variable keeps its type, and the pool is not overdrawn.
THEOREM TypeCorrect == Spec => []TypeOK
  <1>1. IInv => TypeOK
        BY DEF IInv
  <1> QED BY Invariance, <1>1, PTL

\* Exit code 0 means that nothing was cut short (main).
THEOREM ExitCodesAreHonest == Spec => []HonestExit
  <1>1. IInv => HonestExit
        BY DEF IInv, StageInv, HonestExit
  <1> QED BY Invariance, <1>1, PTL

\* The processor ends its batch before the pool is closed, or has had its time (main).
THEOREM CyclesEnd == Spec => []CyclesEndFirst
  <1>1. IInv => CyclesEndFirst
        BY DEF IInv
  <1> QED BY Invariance, <1>1, PTL

\* When no connection is free, somebody has one and waits for nobody, or removals have taken
\* all of them and wait for one another (postRepository.RemovePost).
THEOREM JamsAreOfRemovals == Spec => []OnlyRemovalsJam
  <1>1. ASSUME IInv, Free = 0, In({"hold", "both"}) = {}, Filling = {}, processor # "hold"
        PROVE  Jammed
    <2>1. One = Removers \cap In({"first"}) /\ Two = {}
          BY <1>1 DEF IInv, TwiceInv, One, Two, In
    <2>2. Cardinality(Two) = 0 /\ Cardinality(Filling) = 0
          BY <1>1, <2>1, FS_EmptySet
    <2>3. Held = Cardinality(One)
          BY <1>1, <2>2, HeldSum
    <2> QED BY <1>1, <2>1, <2>3, HeldSum, ConstantsAssumption DEF Free, Jammed
  <1>2. IInv => OnlyRemovalsJam
        BY <1>1 DEF OnlyRemovalsJam
  <1> QED BY Invariance, <1>2, PTL

\* What becomes of a jam in a step.
JamStays == Jammed => \/ Jammed'
                      \/ Kill
                      \/ \E r \in Removers : req[r] = "first" /\ Cancel(r)

\* Neither time nor main ends a jam, but one of its clients who hangs up, or the end of the
\* process from outside (postRepository.RemovePost, Database.Close).
THEOREM JamsLast == Spec => [][JamStays]_vars
  <1>1. ASSUME IInv, [Next]_vars, Jammed,
               ~Kill, \A r \in Removers : req[r] = "first" => ~Cancel(r)
        PROVE  Jammed'
    <2> DEFINE J == Removers \cap In({"first"})
    <2>1. Cardinality(J) = MaxConns /\ J \subseteq One /\ IsFiniteSet(One)
          BY <1>1, InFinite DEF Jammed, One, In
    <2>2. Cardinality(J) <= Cardinality(One)
          BY <2>1, FS_Subset
    <2>3. Held = MaxConns /\ Cardinality(One) = MaxConns
          BY <1>1, <2>1, <2>2, HeldSum, ConstantsAssumption DEF IInv, TypeOK
    <2>4. Free = 0
          BY <2>3, ConstantsAssumption DEF Free
    <2>5. One = J
          BY <2>1, <2>3, FS_Subset
    <2>6. \A r \in Removers : (req[r] = "first")' <=> req[r] = "first"
      <3>1. ASSUME NEW r \in Requests,
                   Arrive(r) \/ Ask(r) \/ Answer(r) \/ Connect(r) \/ Disconnect(r) \/ Cancel(r)
            PROVE  /\ req[r] # "first"
                   /\ \E s : s # "first" /\ req' = [req EXCEPT ![r] = s]
        <4>1. ~Connect(r)
              BY <2>4 DEF Connect, Acquire, AcquireSecond, Refused
        <4>2. req[r] # "first"
          <5>1. ASSUME req[r] = "first" PROVE ~Cancel(r)
            <6>1. r \in Removers
                  BY <1>1, <5>1 DEF IInv, TwiceInv, In
            <6> QED BY <1>1, <5>1, <6>1
          <5>2. CASE Arrive(r) \/ Ask(r) \/ Answer(r) \/ Disconnect(r)
                BY <5>2 DEF Arrive, Ask, Answer, Disconnect, ReleaseSecond, Release
          <5> QED BY <3>1, <4>1, <5>1, <5>2
        <4>3. \E s : s # "first" /\ req' = [req EXCEPT ![r] = s]
              BY <3>1, <4>1 DEF Arrive, Ask, Answer, Disconnect, ReleaseSecond, Release, Cancel
        <4> QED BY <4>2, <4>3
      <3>2. ASSUME NEW r \in Requests,
                   Arrive(r) \/ Ask(r) \/ Answer(r) \/ Connect(r) \/ Disconnect(r) \/ Cancel(r)
            PROVE  \A q \in Removers : (req[q] = "first")' <=> req[q] = "first"
            BY <1>1, <3>1, <3>2 DEF IInv, TypeOK, Requests
      <3>3. ~Exit
            BY <2>3, ConstantsAssumption DEF Exit
      <3>4. CASE UNCHANGED req
            BY <3>4
      <3>5. \/ UNCHANGED req
            \/ \E r \in Requests :
                  Arrive(r) \/ Ask(r) \/ Answer(r) \/ Connect(r) \/ Disconnect(r) \/ Cancel(r)
            BY <1>1, <3>3 DEF Next, vars, Wake, Quit, Query, QueryEnds, Feeds, FillStart,
               FillConnect, FillAcquire, FillRefused, FillEnds, ServerDied, Signal, HearDeath, Main,
               CloseServer, CloseOTel, CloseProcessors
      <3> QED BY <3>2, <3>4, <3>5
    <2>7. J' = J
          BY <2>6 DEF In, Requests
    <2> QED BY <2>1, <2>7 DEF Jammed
  <1>2. ASSUME IInv, [Next]_vars PROVE [JamStays]_vars
        BY <1>1, <1>2 DEF JamStays
  <1> QED BY Invariance, <1>2, PTL DEF Spec

-----------------------------------------------------------------------------
(* The loop in time.                                                       *)

\* The count is the number of adverse cycles in a row; NextDelay has passed some of them;
\* the time that has passed and the time that is left make up the delay.
TimingInv ==
    /\ adverseCount = streak
    /\ phase \in {"reset", "loop"} => idle = 0 /\ waited = 0
    /\ phase = "loop" => i \in 1..adverseCount /\ delay \in Coefficient..MaxDelay
    /\ phase = "armed" =>
         /\ waited <= idle
         /\ IF streak = 0 THEN idle + left = 0 ELSE idle + left \in Coefficient..MaxDelay

\* The delay after n passes, if it is not cut.
Uncut(n) == Coefficient * Base ^ n

\* The delay is on its way to the closed form, and is the closed form once the timer is armed.
PacedInv ==
    /\ phase = "loop" => delay = Uncut(i - 1)
    /\ phase = "armed" => idle + left = Reference(streak)

RetryInv == RetryTypeOK /\ TimingInv /\ PacedInv

-----------------------------------------------------------------------------
\* A product of a delay and the base fits, so that wrapping leaves it as it is.
LEMMA ProductFits ==
  ASSUME NEW d \in 0..MaxDelay
  PROVE  /\ d * Base \in d..MaxInt
         /\ Wrap(d * Base) = d * Base
<1> DEFINE x == d * Base
           m == MaxInt + 1
<1>1. d \in Nat /\ Base \in Nat /\ MaxDelay \in Nat /\ MaxInt \in Nat /\ Base >= 1 /\ d <= MaxDelay
  BY RetryAssumption
<1>2. d * Base <= MaxDelay * Base /\ d * 1 <= d * Base
  BY <1>1
<1>3. x \in d..MaxInt
  BY <1>1, <1>2, ParametersAssumption
<1>4. m \in Nat \ {0} /\ x + m \in 0..(2 * m - 1)
  BY <1>1, <1>3
<1> HIDE DEF x, m
<1>5. ASSUME NEW a \in Nat, NEW b \in Nat \ {0}, a < b PROVE a % b = a
  BY <1>5
<1>6. (x + m) % (2 * m) = x + m
  BY <1>4, <1>5
<1>7. (x + m) - m = x
  BY <1>3, <1>4, <1>1
<1>8. x + MaxInt + 1 = x + m
  BY <1>1, <1>3 DEF m
<1>9. Wrap(x) = ((x + m) % (2 * m)) - m
  BY <1>8 DEF m, Wrap
<1>10. Wrap(x) = x
  BY <1>6, <1>7, <1>9
<1>11. QED
  BY <1>3, <1>10 DEF x

\* The closed form for one more pass, and for all that are to come after the cut.
LEMMA PowersGrow ==
  ASSUME NEW n \in 1..MaxAdverse, NEW k \in 1..n
  PROVE  /\ Uncut(k - 1) \in Int /\ Uncut(k) \in Int
         /\ Uncut(0) = Coefficient
         /\ Uncut(k) = Uncut(k - 1) * Base
         /\ k < n => Uncut(k) <= Uncut(n - 1)
<1>1. /\ Coefficient \in Nat /\ Base \in Nat \ {0} /\ MaxAdverse \in Nat /\ n \in Nat /\ k \in Nat
      /\ k >= 1 /\ k <= n /\ n <= MaxAdverse
  BY RetryAssumption
<1>2. k - 1 \in 0..MaxAdverse /\ k \in 0..MaxAdverse /\ n - 1 \in 0..MaxAdverse /\ (k - 1) + 1 = k
  BY <1>1
<1>3. \A m \in 0..MaxAdverse : m \in Nat
  BY <1>1
<1>4. ASSUME NEW m \in Nat PROVE Base ^ m \in Int
  BY <1>1
<1> DEFINE b == Base ^ (k - 1)
           c == Base ^ k
           d == Base ^ (n - 1)
<1>5. b \in Int /\ c \in Int /\ d \in Int
  BY <1>2, <1>3, <1>4
<1>6. c = b * Base
  <2>1. Base ^ ((k - 1) + 1) = Base ^ (k - 1) * Base
    BY <1>2, PowersAssumption
  <2>2. QED
    BY <1>2, <2>1
<1>7. k < n => c <= d
  <2>1. k < n => k <= n - 1
    BY <1>1
  <2>2. QED
    BY <1>2, <2>1, PowersAssumption
<1>8. Uncut(k - 1) = Coefficient * b /\ Uncut(k) = Coefficient * c /\ Uncut(n - 1) = Coefficient * d
  BY DEF Uncut
<1>9. Uncut(0) = Coefficient
  BY <1>1, PowersAssumption DEF Uncut
<1> HIDE DEF b, c, d
<1>10. Coefficient * b \in Int /\ Coefficient * c \in Int
  BY <1>1, <1>5
<1>11. Coefficient * c = Coefficient * b * Base
  BY <1>1, <1>5, <1>6
<1>12. k < n => Coefficient * c <= Coefficient * d
  <2>1. \A x, y \in Int : x <= y => Coefficient * x <= Coefficient * y
    BY <1>1
  <2>2. QED
    BY <1>5, <1>7, <2>1
<1>13. QED
  BY <1>8, <1>9, <1>10, <1>11, <1>12

\* The loop starts with no adverse cycle behind it.
LEMMA RetryInitInv == RetryInit => RetryInv
<1> SUFFICES ASSUME RetryInit PROVE RetryInv
  OBVIOUS
<1>1. RetryTypeOK
  <2>1. 0 \in 0..MaxBacklog /\ 0 \in 0..MaxAdverse /\ 0 \in 0..MaxDelay /\ 0 \in 0..0
    BY RetryAssumption
  <2>2. QED
    BY <2>1, Zenon DEF RetryInit, RetryTypeOK
<1>2. TimingInv
  BY DEF RetryInit, TimingInv
<1>3. PacedInv
  BY DEF RetryInit, PacedInv
<1>4. QED
  BY <1>1, <1>2, <1>3 DEF RetryInv

\* Every step keeps the ranges and the sum of the times.
LEMMA TimingStep ==
  RetryTypeOK /\ TimingInv /\ [RetryNext]_retryVars => RetryTypeOK' /\ TimingInv'
<1> SUFFICES ASSUME RetryTypeOK, TimingInv, [RetryNext]_retryVars PROVE RetryTypeOK' /\ TimingInv'
  OBVIOUS
<1> USE RetryAssumption, ParametersAssumption
<1>1. CASE Commit
  BY <1>1 DEF RetryTypeOK, TimingInv, Commit, timing
<1>2. CASE EnterNextDelay
  BY <1>2 DEF RetryTypeOK, TimingInv, EnterNextDelay, Arm
<1>3. CASE Multiply
  <2>1. delay \in Coefficient..MaxDelay /\ delay \in 0..MaxDelay
    BY <1>3 DEF TimingInv, Multiply
  <2>2. Wrap(delay * Base) \in delay..MaxInt
    BY <2>1, ProductFits
  <2> DEFINE product == Wrap(delay * Base)
  <2>3. product \in Int /\ product >= delay
    BY <2>1, <2>2
  <2>4. IF product >= MaxDelay
        THEN delay' = MaxDelay /\ phase' = "armed" /\ left' = MaxDelay /\ i' = i
        ELSE delay' = product /\ i' = i + 1 /\ phase' = phase /\ left' = left
    BY <1>3 DEF Multiply, Arm
  <2>5. /\ phase = "loop" /\ i < adverseCount
        /\ UNCHANGED <<backlog, adverseCount, fetched, closing, streak, idle, waited>>
    BY <1>3 DEF Multiply
  <2> HIDE DEF product
  <2>6. QED
    BY <2>1, <2>3, <2>4, <2>5 DEF RetryTypeOK, TimingInv
<1>4. CASE ReturnDelay
  BY <1>4 DEF RetryTypeOK, TimingInv, ReturnDelay, Arm
<1>5. CASE Tick
  BY <1>5 DEF RetryTypeOK, TimingInv, Tick
<1>6. CASE Fire
  BY <1>6 DEF RetryTypeOK, TimingInv, Fire, Lesser, timing
<1>7. CASE Close \/ Finish
  BY <1>7 DEF RetryTypeOK, TimingInv, Close, Finish, timing
<1>8. CASE Succeed \/ FindNothing \/ Fail
  BY <1>8 DEF RetryTypeOK, TimingInv, Succeed, FindNothing, Fail, EndCycle, AccumulateAdverse,
              ClearAdverse, OneMore, Lesser
<1>9. CASE UNCHANGED retryVars
  BY <1>9 DEF RetryTypeOK, TimingInv, retryVars
<1>10. QED
  BY <1>1, <1>2, <1>3, <1>4, <1>5, <1>6, <1>7, <1>8, <1>9 DEF RetryNext, Loop

\* Every step keeps the delay on its way.
LEMMA PacedStep == RetryInv /\ [RetryNext]_retryVars => PacedInv'
<1> SUFFICES ASSUME RetryInv, [RetryNext]_retryVars PROVE PacedInv'
  OBVIOUS
<1> USE DEF RetryInv
<1>0. /\ adverseCount = streak /\ streak \in 0..MaxAdverse /\ MaxAdverse \in Nat
      /\ \A n \in 1..MaxAdverse : Reference(n) = Lesser(Uncut(n - 1), MaxDelay)
      /\ Reference(0) = 0
  BY RetryAssumption DEF RetryTypeOK, TimingInv, Reference, Uncut
<1>1. CASE EnterNextDelay
  <2>1. idle' = 0 /\ streak' = streak
    BY <1>1 DEF EnterNextDelay, TimingInv
  <2>2. CASE adverseCount = 0
    BY <1>0, <1>1, <2>1, <2>2 DEF EnterNextDelay, Arm, PacedInv
  <2>3. CASE adverseCount # 0
    <3>1. 1 \in 1..1 /\ 1 \in 1..MaxAdverse
      BY <1>0, <2>3
    <3>2. Uncut(0) = Coefficient
      BY <3>1, PowersGrow
    <3>3. phase' = "loop" /\ i' = 1 /\ delay' = Coefficient
      BY <1>1, <2>3 DEF EnterNextDelay
    <3>4. QED
      BY <3>2, <3>3 DEF PacedInv
  <2>4. QED
    BY <2>2, <2>3
<1>2. CASE Multiply
  <2>1. /\ phase = "loop" /\ i \in 1..adverseCount /\ i < adverseCount /\ idle' = 0
        /\ streak' = streak /\ delay = Uncut(i - 1) /\ delay \in 0..MaxDelay
    BY <1>2, RetryAssumption DEF Multiply, TimingInv, PacedInv
  <2>2. /\ Uncut(i) = delay * Base /\ Uncut(i) \in Int /\ Wrap(delay * Base) = delay * Base
        /\ Uncut(i) <= Uncut(adverseCount - 1)
    <3>1. adverseCount \in 1..MaxAdverse
      BY <1>0, <2>1
    <3>2. QED
      BY <2>1, <3>1, PowersGrow, ProductFits
  <2>3. CASE Uncut(i) >= MaxDelay
    <3>1. left' = MaxDelay /\ phase' = "armed"
      BY <1>2, <2>2, <2>3, RetryAssumption DEF Multiply, Arm
    <3>2. Uncut(adverseCount - 1) \in Int
      BY <1>0, <2>1, PowersGrow
    <3>3. Reference(streak) = MaxDelay
      BY <1>0, <2>1, <2>2, <2>3, <3>2, RetryAssumption DEF Lesser
    <3>4. QED
      BY <2>1, <3>1, <3>3, RetryAssumption DEF PacedInv
  <2>4. CASE ~(Uncut(i) >= MaxDelay)
    <3>1. delay' = Uncut(i) /\ i' = i + 1 /\ phase' = "loop"
      BY <1>2, <2>1, <2>2, <2>4 DEF Multiply
    <3>2. i' - 1 = i
      BY <1>0, <2>1, <3>1
    <3>3. QED
      BY <3>1, <3>2 DEF PacedInv
  <2>5. QED
    BY <2>3, <2>4
<1>3. CASE ReturnDelay
  <2>1. /\ phase = "loop" /\ i \in 1..adverseCount /\ i >= adverseCount /\ idle' = 0
        /\ streak' = streak /\ delay = Uncut(i - 1) /\ delay \in 0..MaxDelay
    BY <1>3, RetryAssumption DEF ReturnDelay, TimingInv, PacedInv
  <2>2. i = streak /\ streak \in 1..MaxAdverse
    BY <1>0, <2>1
  <2>3. Reference(streak) = delay
    BY <1>0, <2>1, <2>2, RetryAssumption DEF Lesser
  <2>4. left' = delay /\ phase' = "armed"
    BY <1>3, <2>1, RetryAssumption DEF ReturnDelay, Arm
  <2>5. QED
    BY <2>1, <2>3, <2>4, RetryAssumption DEF PacedInv
<1>4. CASE Tick
  <2>1. /\ phase = "armed" /\ phase' = "armed" /\ left' = left - 1 /\ idle' = idle + 1
        /\ streak' = streak
    BY <1>4 DEF Tick
  <2>2. idle \in Int /\ left \in Int
    BY RetryAssumption DEF RetryTypeOK
  <2>3. QED
    BY <2>1, <2>2 DEF PacedInv
<1>5. CASE Commit \/ Close \/ UNCHANGED retryVars
  <2>1. UNCHANGED <<phase, i, delay, left, idle, streak>>
    BY <1>5 DEF Commit, Close, timing, retryVars
  <2>2. QED
    BY <2>1 DEF PacedInv
<1>6. CASE Fire \/ Finish \/ Succeed \/ FindNothing \/ Fail
  <2>1. phase' \in {"cycle", "finished", "reset"}
    BY <1>6 DEF Fire, Finish, Succeed, FindNothing, Fail, EndCycle
  <2>2. QED
    BY <2>1 DEF PacedInv
<1>7. QED
  BY <1>1, <1>2, <1>3, <1>4, <1>5, <1>6 DEF RetryNext, Loop

\* Every step keeps the invariant.
LEMMA RetryStepInv == RetryInv /\ [RetryNext]_retryVars => RetryInv'
BY TimingStep, PacedStep DEF RetryInv

\* The invariant holds throughout.
THEOREM RetryInvariance == RetrySpec => []RetryInv
BY RetryInitInv, RetryStepInv, PTL DEF RetrySpec

-----------------------------------------------------------------------------
(* The properties.                                                         *)

\* Counts, delays and times keep their ranges.
THEOREM RetryTypeCorrect == RetrySpec => []RetryTypeOK
<1>1. RetryInv => RetryTypeOK
  BY DEF RetryInv
<1>2. QED
  BY <1>1, RetryInvariance, PTL

\* Each pause is the one that the closed form of the back-off says.
THEOREM PausesAreExact == RetrySpec => Paced
<1>1. RetryInv /\ [RetryNext]_retryVars =>
        [(phase = "armed" /\ phase' = "cycle") => idle = Reference(streak)]_retryVars
  <2> SUFFICES ASSUME RetryInv, [RetryNext]_retryVars, phase = "armed", phase' = "cycle"
               PROVE  idle = Reference(streak)
    OBVIOUS
  <2>1. Fire
    BY DEF RetryNext, Loop, Commit, Close, Finish, EnterNextDelay, Multiply, ReturnDelay, Tick,
           Succeed, FindNothing, Fail, EndCycle, retryVars, Arm
  <2>2. QED
    BY <2>1, RetryAssumption DEF RetryInv, RetryTypeOK, PacedInv, Reference, Fire
<1>2. QED
  BY <1>1, RetryInvariance, PTL DEF RetrySpec, Paced

\* NextDelay computes no product that a Duration cannot hold.
THEOREM ProductsFit == RetrySpec => []NeverWraps
<1>1. RetryInv => NeverWraps
  <2> SUFFICES ASSUME RetryInv, phase = "loop" PROVE delay * Base \in 0..MaxInt
    BY DEF NeverWraps
  <2>1. delay \in 0..MaxDelay
    BY RetryAssumption DEF RetryInv, TimingInv
  <2>2. QED
    BY <2>1, ProductFits
<1>2. QED
  BY <1>1, RetryInvariance, PTL

\* A waiting row is seen by a cycle within the greatest delay.
THEOREM RowsAreSeen == RetrySpec => []SeenInTime
<1>1. RetryInv => SeenInTime
  BY RetryAssumption DEF RetryInv, RetryTypeOK, TimingInv, SeenInTime
<1>2. QED
  BY <1>1, RetryInvariance, PTL

\* The loop neither spins after an adverse cycle nor pauses after a successful one.
THEOREM CyclesAreSpaced == RetrySpec => Spaced
<1>1. RetryInv /\ [RetryNext]_retryVars =>
        [(phase = "armed" /\ phase' = "cycle") =>
           IF streak = 0 THEN idle = 0 ELSE idle \in Coefficient..MaxDelay]_retryVars
  <2> SUFFICES ASSUME RetryInv, [RetryNext]_retryVars, phase = "armed", phase' = "cycle"
               PROVE  IF streak = 0 THEN idle = 0 ELSE idle \in Coefficient..MaxDelay
    OBVIOUS
  <2>1. Fire
    BY DEF RetryNext, Loop, Commit, Close, Finish, EnterNextDelay, Multiply, ReturnDelay, Tick,
           Succeed, FindNothing, Fail, EndCycle, retryVars, Arm
  <2>2. QED
    BY <2>1, RetryAssumption DEF RetryInv, RetryTypeOK, TimingInv, Fire
<1>2. QED
  BY <1>1, RetryInvariance, PTL DEF RetrySpec, Spaced
=============================================================================
