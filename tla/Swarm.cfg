SPECIFICATION Spec
CONSTANTS
    FileLists <- MCFileLists
    Answers <- MCAnswers
    Reports <- MCReports
    MaxToolCalls = 2
    AI_CONCURRENCY = 2
    REVIEW_MAX_AGENTS_PER_CHUNK = 2
    REVIEW_MAX_CHUNKS = 2
    MAX_SOURCE_FETCHES = 2
    REVIEW_PROFILE = "assertive"
    REVIEW_MIN_INLINE_SEVERITY = 1
    REVIEW_MAX_INLINE_COMMENTS = 2
    None = None
INVARIANTS TypeOK BestFilesFirst RoutedWell CallsWithinLimit ApprovedAfterReview SelectionSound
PROPERTY AnalysisEnds
CHECK_DEADLOCK FALSE
