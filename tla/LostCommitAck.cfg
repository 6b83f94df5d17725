CONSTANTS
    Shas = {s1}
    Workers = {w1}
    MaxAttempts = 1
    DbMayRestart = FALSE
    None = None
    Concurrency = 1
    Stoppable = {}
    Killable = {}
    DbMayFail = TRUE
SPECIFICATION PoolSpec
PROPERTY CommittedOnce
