------------------------------ MODULE ICS26Router ------------------------------
(***************************************************************************)
(* The packet life cycle of IBC Eureka: the routers of several chains      *)
(* (ICS26Router.sol, with the provable store IBCStoreUpgradeable.sol and   *)
(* the client registry ICS02ClientUpgradeable.sol it inherits), the blocks *)
(* the chains finalise, and the light clients through which each router    *)
(* reads the store of its counterparty.                                    *)
(*                                                                         *)
(* One action is one transaction: the routers are nonReentrant and a       *)
(* transaction that reverts changes nothing, so a revert is an action that *)
(* is not enabled.  Relayers are any callers that hold the relayer role:   *)
(* they submit any packet, any proof height the client knows, in any       *)
(* order, again, or never.                                                 *)
(***************************************************************************)
EXTENDS Integers, Sequences

CONSTANTS
    Chains,              \* the chains that run a router
    ClientIds,           \* client identifiers; two chains may use the same one
    Endpoints,           \* the registered clients, as <<chain, clientId>>
    Counterparty,        \* the endpoint at the other end of an endpoint
    Ports,               \* port identifiers
    Apps,                \* application contracts
    Payloads,            \* packet payloads: [sourcePort, destPort, value]
    AppAcks,             \* the acknowledgements applications return
    UNIVERSAL_ERROR_ACK, \* what the router writes when the application reverts
    None,                \* the zero word: no commitment, no application
    MAX_TIMEOUT_DURATION,
    MaxSequence,         \* bound: the largest sequence, type(uint64).max in the code
    MaxSends,            \* bound: [endpoint]: how many packets it sends
    MaxTimestamp,        \* bound: the largest block timestamp
    MaxHeight            \* bound: [chain]: the largest block height

VARIABLES
    timestamp,           \* [chain]: block.timestamp of the block in progress
    blocks,              \* [chain]: the finalised blocks
    apps,                \* [chain][port]: ICS26RouterStorage._apps
    prevSequenceSends,   \* [endpoint]: IBCStoreStorage.prevSequenceSends
    commitments,         \* [chain][path]: IBCStoreStorage.commitments
    clients,             \* [endpoint]: the light client of the endpoint
    sent,                \* history, [endpoint][sequence]: the packet sent
    callbacks,           \* history, [endpoint][sequence]: callbacks that took effect
    acked                \* history, [endpoint][sequence]: the ack handed to the sender

router == <<apps, prevSequenceSends, commitments>>
chain == <<timestamp, blocks>>
history == <<sent, callbacks, acked>>
vars == <<chain, router, clients, history>>

SequenceNumbers == 1..MaxSequence
Timestamps == 0..MaxTimestamp
Heights == UNION {1..MaxHeight[c] : c \in Chains}
Acks == AppAcks \cup {UNIVERSAL_ERROR_ACK}

Packet == [sequence : SequenceNumbers, sourceClient : ClientIds, destClient : ClientIds,
           timeoutTimestamp : Timestamps, payload : Payloads]

\* An endpoint <<c, id>> is the client `id` registered on chain c; its light
\* client follows the chain of the counterparty endpoint.
Host(e) == e[1]
Id(e) == e[2]

-----------------------------------------------------------------------------
(***************************************************************************)
(* ICS24Host: the paths of the store and the values committed at them.     *)
(* Hashes are injective; the packet commitment leaves out the source       *)
(* client and the sequence, which its path holds.                          *)
(***************************************************************************)
\* Mutant: the packet's path leaves the sequence out.
packetCommitmentPathUnnumbered(clientId, sequence) == <<clientId, 1, 1>>
packetCommitmentPath(clientId, sequence) == <<clientId, 1, sequence>>
\* Mutant: the receipt shares the discriminator of the packet commitment.
packetReceiptCommitmentPathColliding(clientId, sequence) == <<clientId, 1, sequence>>
packetReceiptCommitmentPath(clientId, sequence) == <<clientId, 2, sequence>>
\* Mutant: the acknowledgement path leaves the sequence out.
packetAcknowledgementPathUnnumbered(clientId, sequence) == <<clientId, 3, 1>>
packetAcknowledgementCommitmentPath(clientId, sequence) == <<clientId, 3, sequence>>
Paths == ClientIds \X {1, 2, 3} \X SequenceNumbers

packetCommitmentBytes32(p) ==
    [destClient |-> p.destClient, timeoutTimestamp |-> p.timeoutTimestamp, payload |-> p.payload]
packetReceiptCommitmentBytes32(p) == p
packetAcknowledgementCommitmentBytes32(ack) == [acks |-> <<ack>>]

PacketCommitments ==
    [destClient : ClientIds, timeoutTimestamp : Timestamps, payload : Payloads]
AckCommitments == {packetAcknowledgementCommitmentBytes32(ack) : ack \in Acks}
Commitments == PacketCommitments \cup Packet \cup AckCommitments \cup {None}
Store == [Paths -> Commitments]

ASSUME ConstantsAssumption ==
    /\ Endpoints \subseteq Chains \X ClientIds
    /\ Counterparty \in [Endpoints -> Endpoints]
    /\ \A e \in Endpoints : Counterparty[Counterparty[e]] = e
    /\ \A p \in Payloads : p.sourcePort \in Ports /\ p.destPort \in Ports
    /\ UNIVERSAL_ERROR_ACK \notin AppAcks
    /\ None \notin Apps \cup Acks \cup Packet \cup PacketCommitments \cup AckCommitments
    /\ MAX_TIMEOUT_DURATION \in Nat
    /\ MaxSequence \in Nat /\ MaxSends \in [Endpoints -> 0..MaxSequence]
    /\ MaxTimestamp \in Nat /\ MaxHeight \in [Chains -> Nat \ {0}]

-----------------------------------------------------------------------------
(***************************************************************************)
(* The light client of an endpoint: the heights of the counterparty chain  *)
(* it trusts, and whether it is frozen.  Proofs verify against the store   *)
(* of a finalised block.                                                   *)
(***************************************************************************)
CounterpartyBlock(e, height) == blocks[Host(Counterparty[e])][height]

Verifiable(e, height) == ~clients[e].frozen /\ height \in clients[e].heights

verifyMembership(e, height, path, value) ==
    /\ Verifiable(e, height)
    /\ CounterpartyBlock(e, height).commitments[path] = value

verifyNonMembership(e, height, path) ==
    /\ Verifiable(e, height)
    /\ CounterpartyBlock(e, height).commitments[path] = None

-----------------------------------------------------------------------------
Init ==
    /\ timestamp = [c \in Chains |-> 0]
    /\ blocks = [c \in Chains |-> <<[timestamp |-> 0, commitments |-> [path \in Paths |-> None]]>>]
    /\ apps = [c \in Chains |-> [port \in Ports |-> None]]
    /\ prevSequenceSends = [e \in Endpoints |-> 0]
    /\ commitments = [c \in Chains |-> [path \in Paths |-> None]]
    /\ clients = [e \in Endpoints |-> [frozen |-> FALSE, heights |-> {1}]]
    /\ sent = [e \in Endpoints |-> [s \in SequenceNumbers |-> None]]
    /\ callbacks = [e \in Endpoints |->
                        [s \in SequenceNumbers |-> [recv |-> 0, ack |-> 0, timeout |-> 0]]]
    /\ acked = [e \in Endpoints |-> [s \in SequenceNumbers |-> None]]

\* The chain finalises the block in progress and starts the next one, whose
\* timestamp is not smaller.
FinalizeBlock(c) ==
    /\ Len(blocks[c]) < MaxHeight[c]
    /\ blocks' = [blocks EXCEPT ![c] =
                    Append(@, [timestamp |-> timestamp[c], commitments |-> commitments[c]])]
    /\ \E t \in timestamp[c]..MaxTimestamp : timestamp' = [timestamp EXCEPT ![c] = t]
    /\ UNCHANGED <<router, clients, history>>

-----------------------------------------------------------------------------
(***************************************************************************)
(* ICS02Client: what changes the light client of a registered identifier.  *)
(***************************************************************************)
\* Mutant: the client accepts a header of a block that is not finalised.
updateClientUnfinalised(e) ==
    /\ ~clients[e].frozen
    /\ \E h \in 1..(Len(blocks[Host(Counterparty[e])]) + 1) :
          clients' = [clients EXCEPT ![e].heights = @ \cup {h}]
    /\ UNCHANGED <<chain, router, history>>

updateClient(e) ==
    /\ ~clients[e].frozen
    /\ \E h \in 1..Len(blocks[Host(Counterparty[e])]) :
          clients' = [clients EXCEPT ![e].heights = @ \cup {h}]
    /\ UNCHANGED <<chain, router, history>>

submitMisbehaviour(e) ==
    /\ ~clients[e].frozen
    /\ clients' = [clients EXCEPT ![e].frozen = TRUE]
    /\ UNCHANGED <<chain, router, history>>

\* The administrator replaces the light client by a fresh one for the same
\* counterparty, which is how a frozen client is recovered.
migrateClient(e) ==
    /\ \E h \in 1..Len(blocks[Host(Counterparty[e])]) :
          clients' = [clients EXCEPT ![e] = [frozen |-> FALSE, heights |-> {h}]]
    /\ UNCHANGED <<chain, router, history>>

-----------------------------------------------------------------------------
(***************************************************************************)
(* ICS26Router.                                                            *)
(***************************************************************************)
addIBCApp(c, port, app) ==
    /\ apps[c][port] = None
    /\ apps' = [apps EXCEPT ![c][port] = app]
    /\ UNCHANGED <<chain, prevSequenceSends, commitments, clients, history>>

getIBCApp(c, port) == apps[c][port]

validTimeout(timeoutTimestamp, now) ==
    /\ timeoutTimestamp > now
    /\ timeoutTimestamp - now <= MAX_TIMEOUT_DURATION

\* ++prevSequenceSends[clientId]: the first sequence is 1, and the checked
\* arithmetic reverts at the largest uint64.
nextSequenceSend(e) == prevSequenceSends[e] + 1

commitPacket(c, p) ==
    LET path == packetCommitmentPath(p.sourceClient, p.sequence)
    IN  /\ commitments[c][path] = None
        /\ commitments' = [commitments EXCEPT ![c][path] = packetCommitmentBytes32(p)]

sendPacket(e, app, timeoutTimestamp, payload) ==
    LET c == Host(e)
        packet == [sequence |-> nextSequenceSend(e), sourceClient |-> Id(e),
                   destClient |-> Id(Counterparty[e]),
                   timeoutTimestamp |-> timeoutTimestamp, payload |-> payload]
    IN  /\ getIBCApp(c, payload.sourcePort) = app
        /\ validTimeout(timeoutTimestamp, timestamp[c])
        /\ nextSequenceSend(e) <= MaxSends[e]
        /\ prevSequenceSends' = [prevSequenceSends EXCEPT ![e] = nextSequenceSend(e)]
        /\ commitPacket(c, packet)
        /\ sent' = [sent EXCEPT ![e][nextSequenceSend(e)] = packet]
        /\ UNCHANGED <<chain, apps, clients, callbacks, acked>>

\* Mutant: a packet may still be received at its timeout.
notTimedOutInclusive(p, now) == p.timeoutTimestamp >= now
notTimedOut(p, now) == p.timeoutTimestamp > now

\* The checks of recvPacket up to the no-op check: they precede it.
recvPacketVerified(e, p, height) ==
    /\ Id(e) = p.destClient
    /\ Id(Counterparty[e]) = p.sourceClient
    /\ notTimedOut(p, timestamp[Host(e)])
    /\ verifyMembership(e, height, packetCommitmentPath(p.sourceClient, p.sequence),
                        packetCommitmentBytes32(p))

receiptPath(p) == packetReceiptCommitmentPath(p.destClient, p.sequence)
ackPath(p) == packetAcknowledgementCommitmentPath(p.destClient, p.sequence)
receiptUnset(c, p) == commitments[c][receiptPath(p)] = None
receiptAlreadySet(c, p) == commitments[c][receiptPath(p)] = packetReceiptCommitmentBytes32(p)
ackUnset(c, p) == commitments[c][ackPath(p)] = None

\* The application's onRecvPacket returned `ack`, or reverted with a reason
\* and the router writes the universal error acknowledgement: what the
\* callback did is rolled back, the receipt stays.  A missing application, an
\* empty or universal-error return and an empty revert reason revert it all.
recvPacket(e, p, height, ack) ==
    LET c == Host(e)
    IN  /\ recvPacketVerified(e, p, height)
        /\ receiptUnset(c, p)
        /\ getIBCApp(c, p.payload.destPort) # None
        /\ ackUnset(c, p)
        /\ commitments' = [commitments EXCEPT
              ![c] = [@ EXCEPT ![receiptPath(p)] = packetReceiptCommitmentBytes32(p),
                               ![ackPath(p)] = packetAcknowledgementCommitmentBytes32(ack)]]
        /\ callbacks' = IF ack = UNIVERSAL_ERROR_ACK THEN callbacks
                        ELSE [callbacks EXCEPT ![e][p.sequence].recv = @ + 1]
        /\ UNCHANGED <<chain, apps, prevSequenceSends, clients, sent, acked>>

recvPacketNoop(e, p, height) ==
    /\ recvPacketVerified(e, p, height)
    /\ receiptAlreadySet(Host(e), p)
    /\ UNCHANGED vars

commitmentOf(e, p) == commitments[Host(e)][packetCommitmentPath(p.sourceClient, p.sequence)]
commitmentFound(e, p) == commitmentOf(e, p) = packetCommitmentBytes32(p)
\* Mutant: the commitment is checked and not deleted.
keepPacketCommitment(e, p) == commitments' = commitments
deletePacketCommitment(e, p) ==
    commitments' = [commitments EXCEPT
                        ![Host(e)][packetCommitmentPath(p.sourceClient, p.sequence)] = None]

\* Mutant: some acknowledgement is proved, not the one submitted.
ackPacketUnmatched(e, p, ack, height) ==
    /\ Id(e) = p.sourceClient
    /\ Id(Counterparty[e]) = p.destClient
    /\ \E a \in Acks :
          verifyMembership(e, height, ackPath(p), packetAcknowledgementCommitmentBytes32(a))

ackPacketVerified(e, p, ack, height) ==
    /\ Id(e) = p.sourceClient
    /\ Id(Counterparty[e]) = p.destClient
    /\ verifyMembership(e, height, ackPath(p), packetAcknowledgementCommitmentBytes32(ack))

\* A callback that reverts reverts the transaction, and the commitment stays.
ackPacket(e, p, ack, height) ==
    /\ ackPacketVerified(e, p, ack, height)
    /\ commitmentFound(e, p)
    /\ deletePacketCommitment(e, p)
    /\ getIBCApp(Host(e), p.payload.sourcePort) # None
    /\ callbacks' = [callbacks EXCEPT ![e][p.sequence].ack = @ + 1]
    /\ acked' = [acked EXCEPT ![e][p.sequence] = ack]
    /\ UNCHANGED <<chain, apps, prevSequenceSends, clients, sent>>

ackPacketNoop(e, p, ack, height) ==
    /\ ackPacketVerified(e, p, ack, height)
    /\ commitmentOf(e, p) = None
    /\ UNCHANGED vars

\* Mutant: the proof's timestamp is not compared with the timeout.
timeoutPacketEarly(e, p, height) ==
    /\ Id(e) = p.sourceClient
    /\ Id(Counterparty[e]) = p.destClient
    /\ verifyNonMembership(e, height, receiptPath(p))

\* Mutant: the proof's timestamp must exceed the timeout.
timeoutPacketLate(e, p, height) ==
    /\ timeoutPacketEarly(e, p, height)
    /\ CounterpartyBlock(e, height).timestamp > p.timeoutTimestamp

timeoutPacketVerified(e, p, height) ==
    /\ Id(e) = p.sourceClient
    /\ Id(Counterparty[e]) = p.destClient
    /\ verifyNonMembership(e, height, receiptPath(p))
    /\ CounterpartyBlock(e, height).timestamp >= p.timeoutTimestamp

timeoutPacket(e, p, height) ==
    /\ timeoutPacketVerified(e, p, height)
    /\ commitmentFound(e, p)
    /\ deletePacketCommitment(e, p)
    /\ getIBCApp(Host(e), p.payload.sourcePort) # None
    /\ callbacks' = [callbacks EXCEPT ![e][p.sequence].timeout = @ + 1]
    /\ UNCHANGED <<chain, apps, prevSequenceSends, clients, sent, acked>>

timeoutPacketNoop(e, p, height) ==
    /\ timeoutPacketVerified(e, p, height)
    /\ commitmentOf(e, p) = None
    /\ UNCHANGED vars

-----------------------------------------------------------------------------
RecvPacket(e) ==
    \E p \in Packet, h \in Heights :
        \/ \E ack \in Acks : recvPacket(e, p, h, ack)
        \/ recvPacketNoop(e, p, h)

AckPacket(e, s) ==
    \E p \in Packet, ack \in Acks, h \in Heights :
        p.sequence = s /\ (ackPacket(e, p, ack, h) \/ ackPacketNoop(e, p, ack, h))

TimeoutPacket(e, s) ==
    \E p \in Packet, h \in Heights :
        p.sequence = s /\ (timeoutPacket(e, p, h) \/ timeoutPacketNoop(e, p, h))

Next ==
    \/ \E c \in Chains : FinalizeBlock(c)
    \/ \E c \in Chains, port \in Ports, app \in Apps : addIBCApp(c, port, app)
    \/ \E e \in Endpoints : updateClient(e) \/ submitMisbehaviour(e) \/ migrateClient(e)
    \/ \E e \in Endpoints, app \in Apps, t \in Timestamps, payload \in Payloads :
          sendPacket(e, app, t, payload)
    \/ \E e \in Endpoints : RecvPacket(e)
    \/ \E e \in Endpoints, s \in SequenceNumbers : AckPacket(e, s) \/ TimeoutPacket(e, s)

Spec == Init /\ [][Next]_vars

\* Relayers keep updating clients, and keep relaying acknowledgements and
\* timeouts for as long as the transaction would succeed.  Nobody is assumed to
\* relay the packets themselves, and no chain to produce blocks.
RelayerFairness ==
    /\ \A e \in Endpoints : WF_vars(updateClient(e))
    /\ \A e \in Endpoints, s \in SequenceNumbers :
          WF_vars(AckPacket(e, s)) /\ WF_vars(TimeoutPacket(e, s))

\* A frozen client is eventually replaced for good.
ClientsSettle ==
    \A e \in Endpoints :
        /\ <>[](~clients[e].frozen)
        /\ <>[][clients[e].heights \subseteq clients'[e].heights]_clients

FairSpec == Spec /\ RelayerFairness /\ ClientsSettle

-----------------------------------------------------------------------------
(***************************************************************************)
(* Properties.                                                             *)
(***************************************************************************)
Clients == [frozen : BOOLEAN, heights : SUBSET Nat]

\* The state has the types of the contracts' storage; every height a client
\* trusts is a finalised block of its counterparty.
TypeOK ==
    /\ timestamp \in [Chains -> Timestamps]
    /\ blocks \in [Chains -> Seq([timestamp : Timestamps, commitments : Store])]
    /\ apps \in [Chains -> [Ports -> Apps \cup {None}]]
    /\ prevSequenceSends \in [Endpoints -> 0..MaxSequence]
    /\ commitments \in [Chains -> Store]
    /\ clients \in [Endpoints -> Clients]
    /\ \A e \in Endpoints : clients[e].heights \subseteq 1..Len(blocks[Host(Counterparty[e])])
    /\ sent \in [Endpoints -> [SequenceNumbers -> Packet \cup {None}]]
    /\ callbacks \in [Endpoints -> [SequenceNumbers -> [recv : Nat, ack : Nat, timeout : Nat]]]
    /\ acked \in [Endpoints -> [SequenceNumbers -> Acks \cup {None}]]

committed(e, s) == commitments[Host(e)][packetCommitmentPath(Id(e), s)]
received(e, s) == commitments[Host(e)][packetReceiptCommitmentPath(Id(e), s)]
acknowledged(e, s) == commitments[Host(e)][packetAcknowledgementCommitmentPath(Id(e), s)]

\* However often and at whatever heights relayers submit a packet, the
\* destination application's onRecvPacket takes effect at most once, and only
\* for exactly the packet the counterparty's router sent under that sequence.
ExecutedAtMostOnce ==
    \A e \in Endpoints, s \in SequenceNumbers :
        /\ callbacks[e][s].recv <= 1
        /\ received(e, s) # None => received(e, s) = sent[Counterparty[e]][s]
        /\ callbacks[e][s].recv > 0 => received(e, s) # None

\* The sending application hears of a packet at most once: one
\* onAcknowledgementPacket or one onTimeoutPacket, never both.
ResolvedAtMostOnce ==
    \A e \in Endpoints, s \in SequenceNumbers :
        callbacks[e][s].ack + callbacks[e][s].timeout <= 1

\* A packet whose timeout the sending application was told of has not been
\* received and cannot have been: the two chains' clocks are independent, the
\* proof may be of an old block, and the commitment may still be provable.
TimeoutExcludesReceipt ==
    \A e \in Endpoints, s \in SequenceNumbers :
        callbacks[e][s].timeout > 0 => received(Counterparty[e], s) = None

\* The acknowledgement handed to the sending application is the one the
\* destination wrote, and it is a success exactly when the destination
\* application executed the packet.
AckTellsExecution ==
    \A e \in Endpoints, s \in SequenceNumbers :
        acked[e][s] # None =>
            /\ acknowledged(Counterparty[e], s) = packetAcknowledgementCommitmentBytes32(acked[e][s])
            /\ acked[e][s] \in AppAcks <=> callbacks[Counterparty[e]][s].recv = 1

\* No packet is forgotten and none is resolved behind the application's back:
\* a sent packet's commitment is in the store until the moment its sender is
\* called back, and then it is gone.
CommittedUntilResolved ==
    \A e \in Endpoints, s \in SequenceNumbers :
        IF s <= prevSequenceSends[e] /\ callbacks[e][s].ack + callbacks[e][s].timeout = 0
        THEN sent[e][s] # None /\ committed(e, s) = packetCommitmentBytes32(sent[e][s])
        ELSE committed(e, s) = None

\* The counterparty of e has finalised a block that shows the packet's
\* acknowledgement, or whose timestamp has reached the packet's timeout.
Resolvable(e, s) ==
    /\ committed(e, s) # None
    /\ \E h \in 1..Len(blocks[Host(Counterparty[e])]) :
          LET block == CounterpartyBlock(e, h)
              path == packetAcknowledgementCommitmentPath(Id(Counterparty[e]), s)
          IN  block.commitments[path] # None \/ block.timestamp >= sent[e][s].timeoutTimestamp

\* No packet is stuck: once the counterparty chain has passed the packet's
\* timeout, or acknowledged the packet, the sending application is called back,
\* whatever happened to the packet and to the clients in between.
ResolvableIsResolved ==
    \A e \in Endpoints, s \in SequenceNumbers :
        Resolvable(e, s) ~> callbacks[e][s].ack + callbacks[e][s].timeout = 1

-----------------------------------------------------------------------------
(***************************************************************************)
(* The routers implement PacketLifecycle.  The phase of a packet is read   *)
(* off the two stores alone, without the history variables.                *)
(***************************************************************************)
phaseOf(e, s) ==
    LET ack == acknowledged(Counterparty[e], s)
        outstanding == committed(e, s) # None
    IN  IF s > prevSequenceSends[e] THEN "unsent"
        ELSE IF ack = None
             THEN IF outstanding THEN "sent" ELSE "timedOut"
        ELSE IF ack = packetAcknowledgementCommitmentBytes32(UNIVERSAL_ERROR_ACK)
             THEN IF outstanding THEN "rejected" ELSE "refused"
        ELSE IF outstanding THEN "executed" ELSE "confirmed"

phases == [e \in Endpoints |-> [s \in SequenceNumbers |-> phaseOf(e, s)]]

Lifecycle == INSTANCE PacketLifecycle WITH phase <- phases

\* Every transaction of the two routers is one step of the packet life cycle
\* the applications rely on, or none.
LifecycleSpec == Lifecycle!Spec

=============================================================================
