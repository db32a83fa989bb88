CONSTANTS
    A = A
    B = B
    C = C
    Client0 = Client0
    Client1 = Client1
    Good = Good
    Fee = Fee
    User = User
    SupplyA = 2
    Chains = {A, B, C}
    ClientIds = {Client0, Client1}
    Endpoints <- LineEndpoints
    Counterparty <- LineCounterparty
    Tokens = {Good, Fee}
    FeeTokens = {Fee}
    Users = {User}
    DelegateSenders = {User}
    NoAddress = NoAddress
    Supply <- MCSupply
    Amounts = {1}
    Limits = {}
    Limited <- NothingLimited
    SequenceNumbers = {1}
    MaxHops = 2
    RATE_LIMIT_PERIOD = 1
SPECIFICATION Spec
INVARIANTS
    EscrowBacksVouchers
    RefundOnlyDelayed
