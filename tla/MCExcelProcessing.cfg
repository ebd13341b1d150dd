SPECIFICATION FairSpec
CONSTANTS
    MaxRows = 5
    MaxFailures = 3
    MaxCrashes = 1
INVARIANTS
    TypeOK
    ReadyIsDecided
    SearchJobSparesTorob
    NothingThrownAway
PROPERTIES
    OutcomesAreFinal
    JobFinishes
CHECK_DEADLOCK FALSE
