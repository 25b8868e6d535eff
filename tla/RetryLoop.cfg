\* Delays of 1, 2, 4 and then 7 (2 ^ 3 is cut) in a Duration of five bits; cycles of two
\* rows, up to three waiting; more adverse cycles than the delay needs to wrap around.
SPECIFICATION FairRetrySpec
CONSTANTS
    Base = 2
    Coefficient = 1
    MaxDelay = 7
    MaxInt = 15
    Limit = 2
    MaxBacklog = 3
    MaxAdverse = 8
INVARIANTS SeenInTime
PROPERTIES Paced KeepsTrying CloseAnswered
CHECK_DEADLOCK FALSE
