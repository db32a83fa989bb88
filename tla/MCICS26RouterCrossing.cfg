CONSTANTS
    A = A
    B = B
    Client0 = Client0
    Port0 = Port0
    Ack0 = Ack0
    Chains = {A, B}
    ClientIds = {Client0}
    Endpoints <- MCEndpoints
    Counterparty <- MCCounterparty
    Ports = {Port0}
    Apps = {App0}
    Payloads <- MCPayloads
    AppAcks = {Ack0}
    UNIVERSAL_ERROR_ACK = ErrorAck
    None = None
    MAX_TIMEOUT_DURATION = 2
    MaxSequence = 2
    MaxSends <- MCMaxSends
    SendsA = 2
    SendsB = 1
    HeightA = 2
    HeightB = 2
    MaxTimestamp = 1
    MaxHeight <- MCMaxHeight
SPECIFICATION Spec
INVARIANT
    ExecutedAtMostOnce
PROPERTY
    LifecycleSpec
