\* Two posts of one author, one user who may follow her (nobody follows himself), two
\* removals at a time, batches of two, one failure.
SPECIFICATION FairSpec
CONSTANTS
    ann = ann
    bob = bob
    p1 = p1
    p2 = p2
    Users = {ann, bob}
    Posts = {p1, p2}
    Author <- OneAuthor
    Removers = {r1, r2}
    NoPost = NoPost
    Limit = 2
    MaxStamp = 3
    MaxFaults = 1
INVARIANTS Delivered Removed
PROPERTIES
    NoResurrection OnlyDeletedPostsLeave ImplementsOutbox
    EveryRowProcessed EventuallyInFeed EventuallyGone
CHECK_DEADLOCK FALSE
