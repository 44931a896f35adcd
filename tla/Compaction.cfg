\* Three operations one after the other, each a turn or a compaction.
CONSTANTS
    MaxCalls = 3
    None = None
SPECIFICATION FairSpec
INVARIANTS AnswersAreOwn FreeMeansQuiet
PROPERTY OperationsEnd
\* The number of operations is bounded.
CHECK_DEADLOCK FALSE
