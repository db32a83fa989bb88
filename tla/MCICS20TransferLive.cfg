CONSTANTS
    A = A
    B = B
    C = C
    Client0 = Client0
    Client1 = Client1
    Good = Good
    Fee = Fee
    User = User
    SupplyA = 2
    Chains = {A, B}
    ClientIds = {Client0}
    Endpoints <- PairEndpoints
    Counterparty <- PairCounterparty
    Tokens = {Good}
    FeeTokens = {}
    Users = {User}
    DelegateSenders = {}
    NoAddress = NoAddress
    Supply <- MCSupply
    Amounts = {1}
    Limits = {0, 1}
    Limited <- HomeLimited
    SequenceNumbers = {1, 2}
    MaxHops = 1
    RATE_LIMIT_PERIOD = 1
SPECIFICATION FairSpec
INVARIANTS
    TypeOK
    EscrowBacksVouchers
PROPERTY
    RefundsArrive
