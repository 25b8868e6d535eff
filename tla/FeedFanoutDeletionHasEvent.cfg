\* RemovePost fails after it has set deleted_at.
SPECIFICATION Spec
CONSTANTS
    ann = ann
    bob = bob
    p1 = p1
    p2 = p2
    Users = {ann, bob}
    Posts = {p1}
    Author <- OnePost
    Removers = {r1}
    NoPost = NoPost
    Limit = 2
    MaxStamp = 3
    MaxFaults = 1
INVARIANTS DeletionHasEvent
CHECK_DEADLOCK FALSE
