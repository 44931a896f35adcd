\* Four approvals, two of them may share a created_at; pages of one row.
CONSTANTS
    Ids = {1, 2, 3, 4}
    Times = {1, 2}
    limit = 1
    MaxMoves = 2
SPECIFICATION Spec
INVARIANTS ShownOnce NothingSkipped
\* The walk ends and the moves are bounded.
CHECK_DEADLOCK FALSE
