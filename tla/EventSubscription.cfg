\* More events than the backlog holds, a reader of any speed, a hang-up at any time.
CONSTANTS
    Kinds = {"delta", "turn.completed"}
    Capacity = 2
    MaxEvents = 4
SPECIFICATION SubFairSpec
INVARIANT TooSlowIsTrue
PROPERTIES
    ReadersEnd
    ImplementsStream
CHECK_DEADLOCK FALSE
