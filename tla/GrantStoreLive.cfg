\* Lock waits end: two threads on one action, one approver, fair scheduling.
CONSTANTS
    Intents = {i1}
    ExecIds = {x1, x2}
    Callers = {c1, c2}
    Approvers = {a1}
    TTL = 1
    MaxTime = 1
    HostSkew = 0
    None = None
SPECIFICATION FairSpec
PROPERTY TransactionsEnd
