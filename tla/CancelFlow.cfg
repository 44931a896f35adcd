\* One action asked for by two overlapping tool calls, one approver; the TTL passes.
CONSTANTS
    Intents = {i1}
    ExecIds = {x1, x2}
    Callers = {c1, c2}
    Approvers = {a1}
    TTL = 1
    MaxTime = 2
    HostSkew = 0
    AdapterSkew = 0
    None = None
SYMMETRY Symmetry
SPECIFICATION FlowSpec
INVARIANTS
    AtMostOnce
PROPERTIES
    ImplementsAuthority
    SentInTime
