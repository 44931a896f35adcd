\* Three conversations and three tasks on two places.  The process stops at the end.
CONSTANTS
    Keys = {k1, k2, k3}
    Tasks = {t1, t2, t3}
    Limit = 2
    None = None
SPECIFICATION FairSpec
INVARIANTS
    OneLivePerConversation
    AcceptingMeansAccountedFor
    StoppedIsQuiet
PROPERTIES
    ImplementsLease
    EntriesAreFreed
    ShutdownEnds
CHECK_DEADLOCK FALSE
