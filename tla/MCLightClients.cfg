\* Every kind of client, a request and other relayers; crashes, forks and other disturbances in pairs.
SPECIFICATION FairSpec
CONSTANTS
    None = None
    w1 = w1
    w2 = w2
    k1 = k1
    k2 = k2
    s1 = s1
    s2 = s2
    Kinds = {"tendermint", "sp1", "attestation"}
    MaxHeight = 3
    MaxTime = 4
    TrustingPeriod = 3
    MaxClockDrift = 1
    ALLOWED_SP1_CLOCK_DRIFT = 1
    Signers = {s1, s2}
    Faulty = {s1, s2}
    Threshold = 2
    quorum_threshold = 2
    Forks <- MCForks
    Keys = {k1, k2}
    OtherKeys = {k2}
    MaxAccounts = 1
    Scenarios <- MCScenarios
    Workers = {w1}
    Key <- MCKey
    SkipPreVerify = FALSE
    MaxCrashes = 1
INVARIANTS
    TypeOK
    StatesBacked
    FrozenOnlyOnConflict
    LatestIsStored
PROPERTIES
    StatesSettled
    UpdatesArrive
CHECK_DEADLOCK FALSE
