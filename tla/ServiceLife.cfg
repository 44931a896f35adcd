\* One life of the process; readiness is too old after three ticks, and the event loop may
\* be a tick late.
CONSTANTS
    MaxAge = 3
    Lag = 1
SPECIFICATION FairSpec
INVARIANTS ReadyIsRecent ProbeIsSilent DownIsClean
PROPERTIES ComesToRest RecoveryShows
