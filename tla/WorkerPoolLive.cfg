CONSTANTS
    Shas = {s1}
    Workers = {w1, w2}
    MaxAttempts = 2
    DbMayRestart = TRUE
    None = None
    Concurrency = 1
    Stoppable = {w1}
    Killable = {w1}
    DbMayFail = TRUE
SPECIFICATION FairSpec
PROPERTIES EventuallySettled StopTerminates
