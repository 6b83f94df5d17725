CONSTANTS
    Shas = {s1}
    Workers = {w1, w2}
    MaxAttempts = 2
    DbMayRestart = FALSE
    None = None
    Concurrency = 1
    Stoppable = {w1}
    Killable = {}
    DbMayFail = FALSE
SPECIFICATION PoolSpec
PROPERTY TakesOnlyFromStaleOwner
