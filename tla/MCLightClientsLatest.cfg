\* The Tendermint client of Solana and two requests, time enough for a state to expire.
SPECIFICATION Spec
CONSTANTS
    None = None
    w1 = w1
    w2 = w2
    k1 = k1
    k2 = k2
    s1 = s1
    s2 = s2
    Kinds = {"tendermint"}
    MaxHeight = 3
    MaxTime = 6
    TrustingPeriod = 3
    MaxClockDrift = 1
    ALLOWED_SP1_CLOCK_DRIFT = 1
    Signers = {s1, s2}
    Faulty = {}
    Threshold = 2
    quorum_threshold = 2
    Forks = {}
    Keys = {k1, k2}
    OtherKeys = {k2}
    MaxAccounts = 1
    Scenarios = {{}}
    Workers = {w1, w2}
    Key <- MCKey
    SkipPreVerify = TRUE
    MaxCrashes = 0
INVARIANT
    ExpiredMeansStale
CHECK_DEADLOCK FALSE
