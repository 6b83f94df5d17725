CONSTANTS
    MaxLines = 5
    MaxChanges = 2
    ContextLines = 1
    MAX_CHUNK_TOKENS = 2
SPECIFICATION Spec
INVARIANTS TypeOK HunksPlaceEdits ScopeExact PackedToBudget AddedIsSeen
CHECK_DEADLOCK FALSE
