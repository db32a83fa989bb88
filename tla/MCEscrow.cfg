CONSTANTS
    RATE_LIMIT_PERIOD = 2
    Amounts = {1, 2, 3}
    Limits = {0, 2, 4}
    MaxTimestamp = 3
    MaxNet = 5
SPECIFICATION EscrowSpec
INVARIANTS
    EscrowTypeOK
    NetOutflowWithinLimit
    UsageCoversOutflow
