SPECIFICATION FairSpec
CONSTANTS
    MaxSlot = 5
    slots_per_epoch = 1
    epochs_per_sync_committee_period = 2
    sync_committee_size = 3
    FaultyCounts = {0, 1}
    ElectraEpochs = {0, 2}
    MaxMigrations = 1
    Workers = {w1}
    Forged = Forged
    None = None
INVARIANTS TypeOK StatesBacked FrozenOnlyOnConflict LatestCommittees
PROPERTY UpdatesArrive
CHECK_DEADLOCK FALSE
