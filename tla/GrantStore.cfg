\* One action asked for by two threads while two approvers decide; the clock passes the TTL.
CONSTANTS
    Intents = {i1}
    ExecIds = {x1, x2}
    Callers = {c1, c2}
    Approvers = {a1, a2}
    TTL = 2
    MaxTime = 3
    HostSkew = 0
    None = None
SYMMETRY Symmetry
SPECIFICATION Spec
INVARIANTS
    OneGrantPerIntent
    AuthorizedIsBacked
    ConsumedInTime
    RulingHonoured
    RefusalExplained
PROPERTY GrantsMoveForward
