CONSTANTS
    Shas = {s1}
    Workers = {w1}
    MaxAttempts = 3
    DbMayRestart = FALSE
    None = None
    Failing = {"token", "check", "fetch", "post", "comments", "conclude", "report"}
    DbMayFail = FALSE
    ZombiesPossible = FALSE
SPECIFICATION IngestSpec
INVARIANTS IngestTypeOK OneSummary RowNamesOwnRun ExhaustedIsReported
           AnswersTrue OverrideStands
