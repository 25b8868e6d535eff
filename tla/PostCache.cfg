\* Two posts, a reader of both, and a removal that races for their documents.
SPECIFICATION FairSpec
CONSTANTS
    Posts = {p1, p2}
    Readers = {a}
    Removers = {r1}
    NoPost = NoPost
INVARIANTS RemovalReachesCache LivePostsReturned DeletedNotServed
PROPERTIES DeletedFadesOut
CHECK_DEADLOCK FALSE
