----------------------------- MODULE SolanaRouter -----------------------------
(***************************************************************************)
(* The ICS26 router program of Solana (ics26-router): its accounts, one    *)
(* action per instruction, and the counterparty chain it exchanges packets *)
(* with.                                                                   *)
(*                                                                         *)
(* A transaction that fails changes nothing: it is an action that is not   *)
(* enabled.  So is one whose application callback fails, because a failed  *)
(* cross-program call aborts the transaction (recv_packet.rs:259-277): on  *)
(* Solana no packet is ever answered with the universal error              *)
(* acknowledgement.  A payload that does not fit into the transaction is   *)
(* uploaded in chunks first, and so is the proof.                          *)
(***************************************************************************)
EXTENDS Integers, Sequences

CONSTANTS
    Clients,         \* client identifiers of the Solana router
    Peers,           \* client identifiers of the counterparty chain
    PeerClient,      \* [peer]: the Solana client it is connected to
    LightClients,    \* light client programs that follow the counterparty chain
    Relayers,        \* keys that hold the relayer role
    LocalPayloads,   \* payloads applications on Solana send: sequences of chunks
    PeerPayloads,    \* payloads the counterparty chain sends
    AppAck,          \* the acknowledgement of an application
    UNIVERSAL_ERROR_ACK,
    None,            \* an account that does not exist, or holds the zero word
    Zeroed,          \* a chunk account whose data was overwritten with zeros
    MAX_TIMEOUT_DURATION,
    MaxSequence,     \* bound: the largest sequence number
    MaxTimestamp,    \* bound: the largest clock value of either chain
    MaxAdmin         \* bound: how many times the administrators act

VARIABLES
    now,             \* the Solana clock
    paused,          \* RouterState.paused
    app,             \* whether the IBCApp account of the port exists
    clients,         \* [client]: the Client account
    frozen,          \* light client programs that are frozen
    commitments,     \* [client][sequence]: packet_commitment account, None if absent
    receipts,        \* [client][sequence]: packet_receipt account
    acks,            \* [client][sequence]: packet_ack account
    chunks,          \* [relayer, client, sequence, slot]: PayloadChunk, ProofChunk
    peer,            \* the counterparty chain: its clock and its store
    sent,            \* history, [endpoint][sequence]: the packet sent
    delivered,       \* history, [client][sequence]: packets handed to the application
    outcome,         \* history, [endpoint][sequence]: what the sender was told
    administered     \* how many times the administrators acted

admin == <<paused, app, clients, frozen, administered>>
accounts == <<commitments, receipts, acks, chunks>>
history == <<sent, delivered, outcome>>
vars == <<now, admin, accounts, peer, history>>

Endpoints == Clients \cup Peers
SequenceNumbers == 1..MaxSequence
Timestamps == 0..MaxTimestamp
ChunkData == UNION {{payload[i] : i \in DOMAIN payload} : payload \in LocalPayloads \cup PeerPayloads}
MaxChunks == CHOOSE n \in {Len(payload) : payload \in LocalPayloads \cup PeerPayloads} :
                \A payload \in LocalPayloads \cup PeerPayloads : Len(payload) <= n

\* The slots a relayer can upload for one client and sequence: the chunks of
\* the (single) payload and the proof, which is one chunk here.
Slots == ({"payload"} \X (1..MaxChunks)) \cup {<<"proof", 1>>}
ChunkAddresses == Relayers \X Clients \X SequenceNumbers \X Slots

\* The two sides have clients of their own, a payload has at least one chunk, and
\* no commitment is the zero word.
ASSUME SolanaAssumption ==
    /\ Clients \cap Peers = {} /\ PeerClient \in [Peers -> Clients]
    /\ MaxSequence \in Nat /\ MaxTimestamp \in Nat /\ MaxChunks \in Nat
    /\ \A payload \in LocalPayloads \cup PeerPayloads :
          payload \in Seq(ChunkData) /\ Len(payload) \in 1..MaxChunks
    /\ \A none \in {None, Zeroed} :
          none \notin Endpoints \X Timestamps \X Seq(ChunkData)
    /\ None \notin [sequence : SequenceNumbers, sourceClient : Endpoints, destClient : Endpoints,
                    timeout : Timestamps, payload : LocalPayloads \cup PeerPayloads]
    /\ None \notin {Zeroed, AppAck}

-----------------------------------------------------------------------------
(***************************************************************************)
(* ics24: the values committed for a packet.  The packet commitment leaves *)
(* out the source client and the sequence, which the path holds.           *)
(***************************************************************************)
\* Mutant: the payload is left out of the packet commitment.
packet_commitment_without_payload(p) == <<p.destClient, p.timeout, <<>> >>
packet_commitment_bytes32(p) == <<p.destClient, p.timeout, p.payload>>

\* The counterparty store and the Merkle paths into it: [path kind][peer client,
\* sequence].
EmptyStore == [peerClient \in Peers |-> [s \in SequenceNumbers |-> None]]

\* A proof of what the block holds, or does not hold, at a path.
Proof(kind, peerClient, s, block) == <<kind, peerClient, s, block>>

-----------------------------------------------------------------------------
(***************************************************************************)
(* utils/chunking.rs.  A message carries its payload inline, or says how   *)
(* many chunks of the submitter hold it; the chunk accounts are addressed  *)
(* by submitter, client, sequence and index, whatever the packet.          *)
(***************************************************************************)
Inline(data) == [inline |-> TRUE, data |-> data]
Chunked(total) == [inline |-> FALSE, data |-> total]

SlotsUsed(data) ==
    {<<"proof", 1>>} \cup (IF data.inline THEN {} ELSE {"payload"} \X (1..data.data))

\* Every chunk account the message names exists and deserialises.
Assemblable(r, c, s, data) ==
    \A slot \in SlotsUsed(data) : chunks[<<r, c, s, slot>>] \notin {None, Zeroed}

assemble_multiple_payloads(r, c, s, data) ==
    IF data.inline THEN data.data
    ELSE [i \in 1..data.data |-> chunks[<<r, c, s, <<"payload", i>>>>]]

validate_and_reconstruct_packet(r, c, msg) ==
    [msg.packet EXCEPT !.payload =
        assemble_multiple_payloads(r, c, msg.packet.sequence, msg.data)]

assemble_proof_chunks(r, c, s) == chunks[<<r, c, s, <<"proof", 1>>>>]

\* The chunks a message consumed are overwritten with zeros; the accounts stay.
cleanup_consumed_chunks(r, c, msg) ==
    chunks' = [a \in ChunkAddresses |->
                 IF /\ <<a[1], a[2], a[3]>> = <<r, c, msg.packet.sequence>>
                    /\ a[4] \in SlotsUsed(msg.data)
                 THEN Zeroed ELSE chunks[a]]

-----------------------------------------------------------------------------
(***************************************************************************)
(* router_cpi/light_client_cpi.rs.  The light client accepts every block   *)
(* of the counterparty chain, however old, until it is frozen.  A block is *)
(* the state the chain was in: messages hold no others.                    *)
(***************************************************************************)
Verifies(c, proof, kind, peerClient, s, block) ==
    /\ clients[c].program \notin frozen
    /\ proof = Proof(kind, peerClient, s, block)

verify_membership(c, proof, kind, peerClient, s, block, value) ==
    /\ Verifies(c, proof, kind, peerClient, s, block)
    /\ block[kind][peerClient][s] = value

verify_non_membership(c, proof, kind, peerClient, s, block) ==
    /\ Verifies(c, proof, kind, peerClient, s, block)
    /\ block[kind][peerClient][s] = None

-----------------------------------------------------------------------------
Init ==
    /\ now = 0 /\ paused = FALSE /\ app = FALSE /\ administered = 0
    /\ clients = [c \in Clients |-> None]
    /\ frozen = {}
    /\ commitments = [c \in Clients |-> [s \in SequenceNumbers |-> None]]
    /\ receipts = commitments /\ acks = commitments
    /\ chunks = [a \in ChunkAddresses |-> None]
    /\ peer = [time |-> 0, commitment |-> EmptyStore, receipt |-> EmptyStore, ack |-> EmptyStore]
    /\ sent = [e \in Endpoints |-> [s \in SequenceNumbers |-> None]]
    /\ delivered = [c \in Clients |-> [s \in SequenceNumbers |-> <<>>]]
    /\ outcome = [e \in Endpoints |-> [s \in SequenceNumbers |-> <<>>]]

Usable(c) == ~paused /\ app /\ clients[c] # None /\ clients[c].active

\* send_packet: the sending application chooses the sequence number; the
\* commitment account must not exist yet, and it is never closed.
Sendable(c, s) == commitments[c][s] = None
send_packet(c, s, timeout, payload) ==
    LET packet == [sequence |-> s, sourceClient |-> c, destClient |-> clients[c].counterparty,
                   timeout |-> timeout, payload |-> payload]
    IN  /\ Usable(c)
        /\ clients[c].program \notin frozen
        /\ timeout > now /\ timeout - now <= MAX_TIMEOUT_DURATION
        /\ Sendable(c, s)
        /\ commitments' = [commitments EXCEPT ![c][s] = packet_commitment_bytes32(packet)]
        /\ sent' = [sent EXCEPT ![c][s] = packet]
        /\ UNCHANGED <<now, admin, receipts, acks, chunks, peer, delivered, outcome>>

\* Mutant: a packet can be received at its timeout, when it can be timed out.
UnexpiredAtTimeout(packet) == packet.timeout >= now
Unexpired(packet) == packet.timeout > now
Unreceived(c, s) == receipts[c][s] = None

\* recv_packet: a packet that has a receipt is a no-op that only consumes the
\* chunks; a receipt of another packet is an error.
recv_packet(r, msg) ==
    LET c == msg.packet.destClient
        s == msg.packet.sequence
        packet == validate_and_reconstruct_packet(r, c, msg)
    IN  /\ Usable(c)
        /\ msg.packet.sourceClient = clients[c].counterparty
        /\ Unexpired(msg.packet)
        /\ Assemblable(r, c, s, msg.data)
        /\ verify_membership(c, assemble_proof_chunks(r, c, s), "commitment",
                packet.sourceClient, s, msg.block, packet_commitment_bytes32(packet))
        /\ cleanup_consumed_chunks(r, c, msg)
        /\ \/ /\ receipts[c][s] = packet
              /\ UNCHANGED <<receipts, acks, delivered>>
           \/ /\ Unreceived(c, s)
              /\ receipts' = [receipts EXCEPT ![c][s] = packet]
              /\ acks' = [acks EXCEPT ![c][s] = AppAck]
              /\ delivered' = [delivered EXCEPT ![c][s] = Append(@, packet)]
        /\ UNCHANGED <<now, admin, commitments, peer, sent, outcome>>

\* What ack_packet and timeout_packet share: the packet is the one committed,
\* the commitment is cleared (the account stays), the application is called.
Committed(c, packet) == commitments[c][packet.sequence] = packet_commitment_bytes32(packet)
clear_commitment(c, packet, told) ==
    /\ Committed(c, packet)
    /\ commitments' = [commitments EXCEPT ![c][packet.sequence] = Zeroed]
    /\ outcome' = [outcome EXCEPT ![c][packet.sequence] = Append(@, <<told, packet>>)]

ack_packet(r, msg) ==
    LET c == msg.packet.sourceClient
        s == msg.packet.sequence
        packet == validate_and_reconstruct_packet(r, c, msg)
    IN  /\ Usable(c)
        /\ msg.packet.destClient = clients[c].counterparty
        /\ Assemblable(r, c, s, msg.data)
        /\ verify_membership(c, assemble_proof_chunks(r, c, s), "ack",
                packet.destClient, s, msg.block, msg.ack)
        /\ cleanup_consumed_chunks(r, c, msg)
        /\ clear_commitment(c, packet, IF msg.ack = UNIVERSAL_ERROR_ACK THEN "refused" ELSE "confirmed")
        /\ UNCHANGED <<now, admin, receipts, acks, peer, sent, delivered>>

\* Mutant: the timeout is compared with the clock of Solana.
ElapsedHere(block, packet) == now >= packet.timeout
Elapsed(block, packet) == block.time >= packet.timeout
timeout_packet(r, msg) ==
    LET c == msg.packet.sourceClient
        s == msg.packet.sequence
        packet == validate_and_reconstruct_packet(r, c, msg)
    IN  /\ Usable(c)
        /\ msg.packet.destClient = clients[c].counterparty
        /\ Assemblable(r, c, s, msg.data)
        /\ verify_non_membership(c, assemble_proof_chunks(r, c, s), "receipt",
                packet.destClient, s, msg.block)
        /\ Elapsed(msg.block, packet)
        /\ cleanup_consumed_chunks(r, c, msg)
        /\ clear_commitment(c, packet, "timedOut")
        /\ UNCHANGED <<now, admin, receipts, acks, peer, sent, delivered>>

-----------------------------------------------------------------------------
(***************************************************************************)
(* upload_payload_chunk, upload_proof_chunk and cleanup_chunks.  The       *)
(* account is created when it does not exist and overwritten when it holds *)
(* a chunk; an account of zeros has lost its type, so the upload fails     *)
(* until cleanup_chunks has closed it.                                     *)
(***************************************************************************)
Uploadable(r, c, s, slot) == chunks[<<r, c, s, slot>>] # Zeroed

upload_chunk(r, c, s, slot, value) ==
    /\ Uploadable(r, c, s, slot)
    /\ chunks' = [chunks EXCEPT ![<<r, c, s, slot>>] = value]
    /\ UNCHANGED <<now, admin, commitments, receipts, acks, peer, history>>

\* Mutant: the rent is kept, so the accounts stay.
cleanup_keeping_accounts(r, c, s, slots) ==
    /\ \A slot \in slots : chunks[<<r, c, s, slot>>] # None
    /\ chunks' = [a \in ChunkAddresses |->
                    IF <<a[1], a[2], a[3]>> = <<r, c, s>> /\ a[4] \in slots THEN Zeroed ELSE chunks[a]]
    /\ UNCHANGED <<now, admin, commitments, receipts, acks, peer, history>>

\* cleanup_chunks closes the accounts it names, which must all exist.
cleanup_chunks(r, c, s, slots) ==
    /\ \A slot \in slots : chunks[<<r, c, s, slot>>] # None
    /\ chunks' = [a \in ChunkAddresses |->
                    IF <<a[1], a[2], a[3]>> = <<r, c, s>> /\ a[4] \in slots THEN None ELSE chunks[a]]
    /\ UNCHANGED <<now, admin, commitments, receipts, acks, peer, history>>

-----------------------------------------------------------------------------
(***************************************************************************)
(* The administrators of the router, and the light client it relies on.    *)
(***************************************************************************)
Administer == administered < MaxAdmin /\ administered' = administered + 1
AdminOnly == UNCHANGED <<now, accounts, peer, history>>

pause == Administer /\ paused' = TRUE /\ UNCHANGED <<app, clients, frozen>> /\ AdminOnly
unpause == paused /\ paused' = FALSE /\ UNCHANGED <<app, clients, frozen, administered>> /\ AdminOnly

add_ibc_app == ~app /\ app' = TRUE /\ UNCHANGED <<paused, clients, frozen, administered>> /\ AdminOnly

add_client(c, program, peerClient) ==
    /\ clients[c] = None
    /\ clients' = [clients EXCEPT ![c] =
                     [program |-> program, counterparty |-> peerClient, active |-> TRUE]]
    /\ UNCHANGED <<paused, app, frozen, administered>> /\ AdminOnly

\* migrate_client replaces the light client program, the counterparty or the
\* active flag.
migrate_client(c, program, peerClient, active) ==
    /\ clients[c] # None
    /\ clients' = [clients EXCEPT ![c] =
                     [program |-> program, counterparty |-> peerClient, active |-> active]]
    /\ Administer
    /\ UNCHANGED <<paused, app, frozen>> /\ AdminOnly

Freeze(program) ==
    /\ program \notin frozen
    /\ frozen' = frozen \cup {program}
    /\ Administer
    /\ UNCHANGED <<paused, app, clients>> /\ AdminOnly

-----------------------------------------------------------------------------
(***************************************************************************)
(* The two clocks, and the counterparty chain: what every IBC router does  *)
(* (see ICS26Router), one transaction per block.  It learns of Solana's    *)
(* state through a light client of its own.                                *)
(***************************************************************************)
Tick ==
    /\ now < MaxTimestamp /\ now' = now + 1
    /\ UNCHANGED <<admin, accounts, peer, history>>

PeerOnly == UNCHANGED <<now, admin, accounts>>

PeerTick ==
    /\ peer.time < MaxTimestamp
    /\ peer' = [peer EXCEPT !.time = @ + 1]
    /\ PeerOnly /\ UNCHANGED history

PeerSend(p, s, timeout, payload) ==
    LET packet == [sequence |-> s, sourceClient |-> p, destClient |-> PeerClient[p],
                   timeout |-> timeout, payload |-> payload]
    IN  /\ sent[p][s] = None /\ \A t \in SequenceNumbers : t < s => sent[p][t] # None
        /\ timeout > peer.time /\ timeout - peer.time <= MAX_TIMEOUT_DURATION
        /\ peer' = [peer EXCEPT !.commitment[p][s] = packet_commitment_bytes32(packet)]
        /\ sent' = [sent EXCEPT ![p][s] = packet]
        /\ PeerOnly /\ UNCHANGED <<delivered, outcome>>

\* A packet once committed on Solana can be proved to the counterparty chain
\* with an old block, so what matters is that it was sent.
PeerRecv(c, s, ack) ==
    LET packet == sent[c][s]
        p == packet.destClient
    IN  /\ packet # None
        /\ packet.timeout > peer.time /\ peer.receipt[p][s] = None /\ PeerClient[p] = c
        /\ peer' = [peer EXCEPT !.receipt[p][s] = packet, !.ack[p][s] = ack]
        /\ PeerOnly /\ UNCHANGED history

PeerResolve(p, s, told) ==
    /\ peer.commitment[p][s] # None
    /\ \/ told = "confirmed" /\ acks[PeerClient[p]][s] = AppAck
       \/ told = "timedOut" /\ receipts[PeerClient[p]][s] = None /\ now >= sent[p][s].timeout
    /\ peer' = [peer EXCEPT !.commitment[p][s] = None]
    /\ outcome' = [outcome EXCEPT ![p][s] = Append(@, <<told, sent[p][s]>>)]
    /\ PeerOnly /\ UNCHANGED <<sent, delivered>>

=============================================================================
