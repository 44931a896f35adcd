\* The docstring of cancel_after_runtime_closed against the lifespan's finally block.
CONSTANTS
    Keys = {k1}
    Tasks = {t1}
    Limit = 1
    None = None
SPECIFICATION Spec
INVARIANT CancelOnlyAfterClose
CHECK_DEADLOCK FALSE
