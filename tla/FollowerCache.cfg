\* Two users, two requests at a time.
SPECIFICATION FairSpec
CONSTANTS
    Users = {u1, u2}
    Calls = {c1, c2}
    NoUser = NoUser
INVARIANTS ListInSync ReadsComplete
PROPERTIES WaitersAnswered
