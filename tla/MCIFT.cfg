SPECIFICATION FairSpec
CONSTANTS
    MaxSequence = 2
    Amounts = {2}
    InitialSupply = 4
    Limits = {1, 3}
    MaxAdmin = 2
INVARIANTS TypeOK SupplyConserved MintsWithinLimit
PROPERTY TransfersSettle
CHECK_DEADLOCK FALSE
