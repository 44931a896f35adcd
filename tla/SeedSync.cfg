\* Two cases, three versions of the file, four example ids and three changes by people
\* around any number of runs.
CONSTANTS
    Cases = {"a", "b"}
    Contents = {1, 2}
    Files <- MCFiles
    Examples = {x1, x2, x3, x4}
    MaxEdits = 3
SYMMETRY Symmetry
SPECIFICATION SeedSpec
INVARIANTS
    NoDuplicates
    FinishedMeansSynced
PROPERTY HumanWorkKept
