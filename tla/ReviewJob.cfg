CONSTANTS
    Shas = {s1}
    Workers = {w1, w2}
    MaxAttempts = 2
    DbMayRestart = FALSE
    None = None
    Failing = {"token", "check", "fetch", "lookup", "post", "comments", "conclude", "report", "notify"}
    DbMayFail = TRUE
    ZombiesPossible = TRUE
SPECIFICATION ReviewSpec
INVARIANTS ReviewTypeOK SuccessIsVisible
PROPERTY QueueSpec
SYMMETRY Symmetry
