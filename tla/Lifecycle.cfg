\* Two connections and as many removals, which may jam them; another request, a follower
\* list and the processor.
SPECIFICATION FairSpec
CONSTANTS
    Removers = {d1, d2}
    Others = {o1}
    Authors = {a1}
    MaxConns = 2
INVARIANTS HonestExit OnlyRemovalsJam
PROPERTIES ConnectionsCome MainExits
CHECK_DEADLOCK FALSE
