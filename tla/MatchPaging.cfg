SPECIFICATION Spec
CONSTANTS
    Torob = 13
    Basalam = 13
    Better = {{}, {2}, {8}, {8, 10}}
    MaxFailures = 2
    PerSource = 1
    Enough = 2
    FetchMin = 6
    FetchMax = 12
INVARIANTS
    TypeOK
    NothingSkipped
    EndMeansExhausted
CHECK_DEADLOCK FALSE
