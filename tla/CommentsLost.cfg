CONSTANTS
    Shas = {s1}
    Workers = {w1}
    MaxAttempts = 2
    DbMayRestart = FALSE
    None = None
    Failing = {}
    DbMayFail = FALSE
    ZombiesPossible = FALSE
SPECIFICATION ReviewSpec
INVARIANT CommentsDelivered
