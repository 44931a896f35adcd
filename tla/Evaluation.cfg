\* Five kinds of examples, turns of up to three events through a backlog of two, and a
\* client that breaks off anywhere.
CONSTANTS
    Kinds <- MCKinds
    Tools <- MCTools
    Texts <- MCTexts
    CancelOrder = "cancel_order"
    Expectations <- MCExpectations
    OtherRows <- MCOtherRows
    Capacity = 2
    MaxEvents = 3
SPECIFICATION EvalSpec
INVARIANTS
    FreeMeansAtRest
    CleanEndHasVerdict
    VerdictsAgree
    PassedIsTrue
    ApprovalScoreIsTrue
PROPERTY EntryIsFreed
CHECK_DEADLOCK FALSE
