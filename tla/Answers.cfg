\* Two requests at a time about one thing of each kind.
SPECIFICATION Spec
SYMMETRY Symmetry
CONSTANTS
    Requests = {r1, r2}
    Follows = {follow, ghost}
    Ghosts = {ghost}
    Names = {name}
    Tokens = {token}
    Posts = {post}
    Others = {other}
    Nothing = Nothing
INVARIANTS SuccessIsDone  RefusalsAreTrue ServerErrorsHaveCauses
