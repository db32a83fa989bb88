SPECIFICATION Spec
CONSTANTS
    C = C
    P = P
    R = R
    Clients = {C}
    Peers = {P}
    PeerClient <- MCPeerClient
    LightClients = {L}
    Relayers = {R}
    LocalPayloads <- MCLocalPayloads
    PeerPayloads <- MCPeerPayloads
    AppAck = AppAck
    UNIVERSAL_ERROR_ACK = UNIVERSAL_ERROR_ACK
    None = None
    Zeroed = Zeroed
    MAX_TIMEOUT_DURATION = 1
    MaxSequence = 1
    MaxTimestamp = 1
    MaxAdmin = 0
    Workers = {w1, w2}
    Key <- MCKey
    MaxCrashes = 0
    PeerAcks = {AppAck}
INVARIANTS TypeOK CallbacksMatchPackets
PROPERTY PacketsFollowLifecycle
CHECK_DEADLOCK FALSE
SYMMETRY Symmetry
