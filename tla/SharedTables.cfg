CONSTANTS
    Callers = {r1, r2}
    Earlier = r0
    TokenLife = 4
    RowLife = 3
    Margin = 1
    MaxTime = 6
    None = None
SPECIFICATION SharedSpec
INVARIANTS SharedTypeOK CachedTokenLasts NoSupersededRows ReferencesHaveSymbols
CHECK_DEADLOCK FALSE
