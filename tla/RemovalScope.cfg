CONSTANTS
    MaxLines = 3
    MaxChanges = 2
    ContextLines = 1
    MAX_CHUNK_TOKENS = 3
SPECIFICATION Spec
INVARIANT RemovalSelectsNode
CHECK_DEADLOCK FALSE
