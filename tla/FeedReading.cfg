\* Two posts of one author within a millisecond, one reader, one removal at a time,
\* rows one by one, pages of one post.
SPECIFICATION ReadingSpec
CONSTANTS
    ann = ann
    bob = bob
    r1 = r1
    Users = {ann, bob}
    Posts = {1, 2}
    Author <- OneAuthor
    Removers = {r1}
    NoPost = NoPost
    Limit = 1
    MaxStamp = 3
    MaxFaults = 1
    Reader = bob
    CreatedAt <- Times
    Milli = 2
    Limits = {1}
INVARIANTS PromisedShown RetractedHidden
PROPERTIES ImplementsPaging
CHECK_DEADLOCK FALSE
