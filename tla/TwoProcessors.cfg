\* Two posts, one reader, one removal at a time, batches of two, two processors.
SPECIFICATION TwoSpec
CONSTANTS
    ann = ann
    bob = bob
    p1 = p1
    p2 = p2
    r1 = r1
    Users = {ann, bob}
    Posts = {p1, p2}
    Author <- OneAuthor
    Removers = {r1}
    NoPost = NoPost
    Limit = 2
    MaxStamp = 3
    MaxFaults = 1
INVARIANTS StillDelivered StillInOrder
PROPERTIES OnlyLateAdditionsReturn
CHECK_DEADLOCK FALSE
