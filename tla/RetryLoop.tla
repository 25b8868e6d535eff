----------------------------- MODULE RetryLoop -----------------------------
(***************************************************************************)
(* The loop of the post events processor in time. A cycle that finds rows  *)
(* and handles them is followed by the next one at once; one that finds    *)
(* nothing or fails is adverse, and the loop waits for the delay that the  *)
(* exponential back-off computes from the number of adverse cycles in a    *)
(* row, or until it is told to close. What a cycle does to the feeds is    *)
(* FeedFanout's matter.                                                    *)
(***************************************************************************)
EXTENDS Integers

CONSTANTS Base,        \* 2
          Coefficient, \* a second
          MaxDelay,    \* thirty seconds
          MaxInt,      \* the greatest time.Duration
          Limit,       \* rows per cycle
          MaxBacklog,  \* bound: rows that wait
          MaxAdverse   \* bound: adverse cycles are counted up to here

ASSUME RetryAssumption ==
    /\ Base \in Nat \ {0}
    /\ Coefficient \in Nat \ {0}
    /\ MaxDelay \in Nat
    /\ MaxInt \in Nat
    /\ Limit \in Nat \ {0}
    /\ MaxBacklog \in Nat
    /\ MaxAdverse \in Nat

\* The parameters in use: the first delay respects the limit, which NextDelay does not
\* check, and no product exceeds a Duration.
ASSUME ParametersAssumption ==
    /\ Coefficient <= MaxDelay
    /\ MaxDelay * Base <= MaxInt

\* What the proofs use of powers: the provers know no more of them than their type.
ASSUME PowersAssumption ==
    /\ Base ^ 0 = 1
    /\ \A n \in 0..MaxAdverse : Base ^ (n + 1) = Base ^ n * Base
    /\ \A m, n \in 0..MaxAdverse : m <= n => Base ^ m <= Base ^ n

VARIABLES
    backlog,      \* committed rows that are not marked
    phase,        \* of the loop
    adverseCount, \* adverse cycles in a row
    i, delay,     \* of NextDelay
    left,         \* time until the timer fires
    fetched,      \* rows of the cycle
    closing,      \* doneChan is closed
    streak,       \* history: adverse cycles since the latest successful one
    idle,         \* history: time since the latest cycle
    waited        \* history: time a row has been waiting since

retryVars == <<backlog, phase, adverseCount, i, delay, left, fetched, closing,
               streak, idle, waited>>
timing == <<adverseCount, i, delay, left, streak, idle, waited>>

-----------------------------------------------------------------------------
\* A product in the width of a Duration, two's complement.
Wrap(x) == ((x + MaxInt + 1) % (2 * (MaxInt + 1))) - (MaxInt + 1)

Lesser(a, b) == IF a < b THEN a ELSE b

RetryInit ==
    /\ backlog = 0
    /\ phase = "reset"
    /\ adverseCount = 0
    /\ i = 0
    /\ delay = 0
    /\ left = 0
    /\ fetched = 0
    /\ closing = FALSE
    /\ streak = 0
    /\ idle = 0
    /\ waited = 0

\* AddPost and RemovePost.
Commit ==
    /\ backlog < MaxBacklog
    /\ backlog' = backlog + 1
    /\ UNCHANGED <<phase, timing, fetched, closing>>

-----------------------------------------------------------------------------
(* timer.Reset(p.backoff.NextDelay()).                                     *)

\* A timer with a negative duration fires at once.
Arm(d) ==
    /\ phase' = "armed"
    /\ left' = IF d < 0 THEN 0 ELSE d

EnterNextDelay ==
    /\ phase = "reset"
    /\ IF adverseCount = 0
       THEN Arm(0) /\ UNCHANGED <<i, delay>>
       ELSE phase' = "loop" /\ i' = 1 /\ delay' = Coefficient /\ UNCHANGED left
    /\ UNCHANGED <<backlog, adverseCount, fetched, closing, streak, idle, waited>>

\* Mutant: the delay is compared before it is multiplied.
MultiplyComparedFirst ==
    /\ phase = "loop"
    /\ i < adverseCount
    /\ IF delay >= MaxDelay
       THEN delay' = MaxDelay /\ Arm(MaxDelay) /\ UNCHANGED i
       ELSE delay' = Wrap(delay * Base) /\ i' = i + 1 /\ UNCHANGED <<phase, left>>
    /\ UNCHANGED <<backlog, adverseCount, fetched, closing, streak, idle, waited>>

Multiply ==
    /\ phase = "loop"
    /\ i < adverseCount
    /\ IF Wrap(delay * Base) >= MaxDelay
       THEN delay' = MaxDelay /\ Arm(MaxDelay) /\ UNCHANGED i
       ELSE delay' = Wrap(delay * Base) /\ i' = i + 1 /\ UNCHANGED <<phase, left>>
    /\ UNCHANGED <<backlog, adverseCount, fetched, closing, streak, idle, waited>>

ReturnDelay ==
    /\ phase = "loop"
    /\ i >= adverseCount
    /\ Arm(delay)
    /\ UNCHANGED <<backlog, adverseCount, i, delay, fetched, closing, streak, idle, waited>>

-----------------------------------------------------------------------------
(* The select.                                                             *)

\* Time passes while neither channel is ready.
Tick ==
    /\ phase = "armed"
    /\ left > 0
    /\ ~closing
    /\ left' = left - 1
    /\ idle' = idle + 1
    /\ waited' = IF backlog > 0 THEN waited + 1 ELSE 0
    /\ UNCHANGED <<backlog, phase, adverseCount, i, delay, fetched, closing, streak>>

\* With both channels ready, select takes either.
Fire ==
    /\ phase = "armed"
    /\ left = 0
    /\ phase' = "cycle"
    /\ fetched' = Lesser(backlog, Limit)
    /\ UNCHANGED <<backlog, timing, closing>>

Close ==
    /\ ~closing
    /\ closing' = TRUE
    /\ UNCHANGED <<backlog, phase, timing, fetched>>

\* Mutant: the timer has precedence over doneChan.
FinishWhenIdle ==
    /\ phase = "armed"
    /\ closing
    /\ left > 0
    /\ phase' = "finished"
    /\ UNCHANGED <<backlog, timing, fetched, closing>>

Finish ==
    /\ phase = "armed"
    /\ closing
    /\ phase' = "finished"
    /\ UNCHANGED <<backlog, timing, fetched, closing>>

-----------------------------------------------------------------------------
(* The end of a cycle.                                                     *)

\* One more adverse cycle, counted up to the bound: once the limit is reached, further ones
\* change no delay.
OneMore(n) == Lesser(n + 1, MaxAdverse)

EndCycle(adverse) ==
    /\ phase = "cycle"
    /\ phase' = "reset"
    /\ fetched' = 0
    /\ streak' = IF adverse THEN OneMore(streak) ELSE 0
    /\ idle' = 0
    /\ waited' = 0
    /\ UNCHANGED <<i, delay, left, closing>>

AccumulateAdverse == adverseCount' = OneMore(adverseCount)

ClearAdverse == adverseCount' = 0

\* Mutant: success does not clear the count.
SucceedWithoutClearing ==
    /\ fetched > 0
    /\ EndCycle(FALSE)
    /\ backlog' = backlog - fetched
    /\ UNCHANGED adverseCount

Succeed ==
    /\ fetched > 0
    /\ EndCycle(FALSE)
    /\ backlog' = backlog - fetched
    /\ ClearAdverse

\* ErrNothingToFetch.
FindNothing ==
    /\ fetched = 0
    /\ EndCycle(TRUE)
    /\ AccumulateAdverse
    /\ UNCHANGED backlog

\* Mutant: an error ends the loop.
FailAndQuit ==
    /\ phase = "cycle"
    /\ phase' = "finished"
    /\ UNCHANGED <<backlog, timing, fetched, closing>>

\* Any call fails; the UPDATE may have had its effect.
Fail ==
    /\ EndCycle(TRUE)
    /\ backlog' \in {backlog, backlog - fetched}
    /\ AccumulateAdverse

-----------------------------------------------------------------------------
Loop ==
    \/ EnterNextDelay \/ Multiply \/ ReturnDelay
    \/ Tick \/ Fire
    \/ Succeed \/ FindNothing \/ Fail

RetryNext == Commit \/ Close \/ Loop \/ Finish

RetrySpec == RetryInit /\ [][RetryNext]_retryVars

\* The goroutine goes on, its calls return, and select is fair to a channel that stays ready.
FairRetrySpec == RetrySpec /\ WF_retryVars(Loop) /\ SF_retryVars(Finish)

-----------------------------------------------------------------------------
(* Properties.                                                             *)

\* Every variable keeps its type; a computed delay is between the first and the greatest.
RetryTypeOK ==
    /\ backlog \in 0..MaxBacklog
    /\ phase \in {"reset", "loop", "armed", "cycle", "finished"}
    /\ adverseCount \in 0..MaxAdverse
    /\ i \in 0..MaxAdverse
    /\ delay \in {0} \cup Coefficient..MaxDelay
    /\ left \in 0..MaxDelay
    /\ fetched \in 0..backlog
    /\ closing \in BOOLEAN
    /\ streak \in 0..MaxAdverse
    /\ idle \in 0..MaxDelay
    /\ waited \in 0..MaxDelay

\* No product leaves the range of a Duration, however many cycles fail in a row: a delay
\* that wraps around would let the loop spin.
NeverWraps == phase = "loop" => delay * Base \in 0..MaxInt

\* After n adverse cycles in a row the next one begins exactly as long after the latest one
\* as the closed form says, and after a successful one at once.
Reference(n) ==
    IF n = 0 THEN 0 ELSE Lesser(Coefficient * Base ^ (n - 1), MaxDelay)

Paced == [][(phase = "armed" /\ phase' = "cycle") => idle = Reference(streak)]_retryVars

\* Adverse cycles never follow one another without a pause, and no pause is longer than the
\* limit.
Spaced ==
    [][(phase = "armed" /\ phase' = "cycle") =>
         IF streak = 0 THEN idle = 0 ELSE idle \in Coefficient..MaxDelay]_retryVars

\* A row that no cycle has read yet waits for one no longer than the greatest delay, however
\* long the table has been empty or the calls have been failing.
SeenInTime == waited + (IF phase = "armed" THEN left ELSE 0) <= MaxDelay

\* The loop survives every error: there is always another cycle, unless it is told to end.
KeepsTrying == []<>(phase = "cycle" \/ closing)

\* Close is answered, also while rows keep coming without a pause.
CloseAnswered == closing ~> phase = "finished"
=============================================================================
