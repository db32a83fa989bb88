SPECIFICATION FairSpec
CONSTANTS
    C = C
    P = P
    R = R
    Clients = {C}
    Peers = {P}
    PeerClient <- MCPeerClient
    LightClients = {L}
    Relayers = {R}
    LocalPayloads <- MCLocalPayloadsInline
    PeerPayloads <- MCPeerPayloads
    AppAck = AppAck
    UNIVERSAL_ERROR_ACK = UNIVERSAL_ERROR_ACK
    None = None
    Zeroed = Zeroed
    MAX_TIMEOUT_DURATION = 1
    MaxSequence = 1
    MaxTimestamp = 1
    MaxAdmin = 1
    Workers = {w1}
    Key <- MCKey
    MaxCrashes = 1
    PeerAcks = {UNIVERSAL_ERROR_ACK}
PROPERTIES PacketsFollowLifecycle SentIsResolved
CHECK_DEADLOCK FALSE
