CONSTANTS
    Shas = {s1, s2}
    Workers = {w1, w2}
    MaxAttempts = 2
    DbMayRestart = TRUE
    None = None
SPECIFICATION Spec
INVARIANTS TypeOK FenceCountsAttempts TokenNamesOneClaim FenceHoldsJob
           HeartbeatNamesOwner FencedCommit RecordMatchesJob
PROPERTIES SettledForGood LifecycleSpec
SYMMETRY Symmetry
