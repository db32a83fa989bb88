SPECIFICATION Spec
CONSTANTS
    alice = alice
    council = council
    multisig = multisig
    Managers = {m1, m2}
    Programs = {router}
    Accounts = {alice, council}
    Via <- MCVia
    Direct = Direct
    Roles = {ADMIN_ROLE, RELAYER_ROLE}
    ADMIN_ROLE = ADMIN_ROLE
    MAX_MEMBERS = 2
    MAX_PENDING_TRANSFERS = 1
    None = None
SYMMETRY Symmetry
PROPERTY NoProgramStranded
CHECK_DEADLOCK FALSE
