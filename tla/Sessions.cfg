\* Registrations that race for one email, three tokens, two requests, three instants.
SPECIFICATION TimedSpec
CONSTANTS
    Users = {u1, u2}
    Logins = {l1, l2}
    Emails = {e1}
    Tokens = {t1, t2, t3}
    Requests = {r1, r2}
    NoUser = NoUser
    NoToken = NoToken
    AccessTTL = 1
    RefreshTTL = 2
    MaxTime = 2
SYMMETRY Symmetry
INVARIANTS OneTokenPerSession LogoutIsFinal UnusedStaysUsable LogoutEndsAccess
