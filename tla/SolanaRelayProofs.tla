--------------------------- MODULE SolanaRelayProofs ---------------------------
(***************************************************************************)
(* Proofs about packets relayed to Solana, for any number of workers,      *)
(* keys, clients, packets and chunks.                                      *)
(*                                                                         *)
(* Applications are handed the packets that were sent (IInv): a commitment *)
(* account is created once and never closed, so a packet, once sent, is    *)
(* the only one that can ever be committed under its client and sequence   *)
(* number, on Solana or in any block of the counterparty chain.  What a    *)
(* worker reassembles from chunks is compared with that commitment.        *)
(*                                                                         *)
(* Packets follow PacketLifecycle (Life): a message is proved against the  *)
(* block its job started with, and what that block says of the packet, an  *)
(* acknowledgement, or no receipt although the timeout has passed, is      *)
(* still so when the transaction is executed.                              *)
(***************************************************************************)
EXTENDS SolanaRelay, TLAPS

Commitments == Endpoints \X Timestamps \X Seq(ChunkData)
Told == {"confirmed", "refused", "timedOut"}
Stores ==
    [time : Timestamps, commitment : [Peers -> [SequenceNumbers -> Commitments \cup {None}]],
     receipt : [Peers -> [SequenceNumbers -> Packets \cup {None}]],
     ack : [Peers -> [SequenceNumbers -> PeerAcks \cup {None}]]]

\* A packet carries the sequence number and the client it was sent under.
SentOK ==
    /\ sent \in [Endpoints -> [SequenceNumbers -> Packets \cup {None}]]
    /\ \A e \in Endpoints, s \in SequenceNumbers : sent[e][s] # None =>
          /\ sent[e][s].sequence = s /\ sent[e][s].sourceClient = e
          /\ e \in Clients => sent[e][s].destClient \in Peers
          /\ e \in Peers => sent[e][s].destClient \in Clients

\* A commitment account exists once the packet was sent, and holds its
\* commitment until it is cleared.
CommitmentsOK ==
    /\ commitments \in [Clients -> [SequenceNumbers -> Commitments \cup {None, Zeroed}]]
    /\ \A c \in Clients, s \in SequenceNumbers :
          /\ commitments[c][s] = None <=> sent[c][s] = None
          /\ commitments[c][s] \notin {None, Zeroed} =>
                commitments[c][s] = packet_commitment_bytes32(sent[c][s])

\* A block of the counterparty chain holds commitments of packets it sent.
BlockOf(b, packets) ==
    \A p \in Peers, s \in SequenceNumbers : b.commitment[p][s] # None =>
        /\ packets[p][s] # None
        /\ b.commitment[p][s] = packet_commitment_bytes32(packets[p][s])

PeerOK == peer \in Stores /\ BlockOf(peer, sent)

\* What a worker has in hand: a packet that was sent and a block there was.
JobOf(j, packets) ==
    /\ j = [kind |-> j.kind, client |-> j.client, msg |-> j.msg, todo |-> j.todo, final |-> j.final]
    /\ j.kind \in Kinds /\ j.msg.packet \in Packets
    /\ j.msg.packet = packets[j.msg.packet.sourceClient][j.msg.packet.sequence]
    /\ j.kind = "recv" <=> j.msg.packet.sourceClient \in Peers
    /\ j.client = LocalClient(j.kind, j.msg.packet) /\ j.client \in Clients
    /\ j.msg.data = delivery(j.msg.packet.payload)
    /\ j.todo \subseteq SlotsUsed(j.msg.data)
    /\ BlockOf(j.msg.block, packets)

JobsOK ==
    /\ job = [w \in Workers |-> job[w]]
    /\ \A w \in Workers : job[w] # None => JobOf(job[w], sent)

\* The accounts of payload chunks hold chunks of payloads.
ChunksOK ==
    /\ chunks = [a \in ChunkAddresses |-> chunks[a]]
    /\ \A a \in ChunkAddresses : a[4][1] = "payload" => chunks[a] \in ChunkData \cup {None, Zeroed}

HistoryOK ==
    /\ delivered \in [Clients -> [SequenceNumbers -> Seq(Packets)]]
    /\ outcome \in [Endpoints -> [SequenceNumbers -> Seq(Told \X Packets)]]
    /\ CallbacksMatchPackets

ClientsOK ==
    clients \in [Clients -> {None} \cup
                    [program : LightClients, counterparty : Peers, active : BOOLEAN]]

IInv ==
    /\ SentOK /\ CommitmentsOK /\ PeerOK /\ JobsOK /\ ChunksOK /\ HistoryOK /\ ClientsOK

-----------------------------------------------------------------------------
(* Facts about packets, blocks and jobs *)

\* A packet sent stays what it is.
Grows(old, new) ==
    \A e \in Endpoints, s \in SequenceNumbers : old[e][s] # None => new[e][s] = old[e][s]

\* Block times are numbers, and in order.
LEMMA Times ==
    /\ \A t \in Timestamps : t \in Nat /\ t <= t
    /\ \A t, u, v \in Timestamps : t <= u /\ u <= v => t <= v
BY ONLY SolanaAssumption, SMTT(40) DEF Timestamps

\* Acknowledgements are proved where the other chain stores them.
LEMMA AckStore == ProvenAt("ack") = "ack"
BY DEF ProvenAt

\* The first callback makes a sequence of one.
LEMMA OneElement ==
    /\ \A x : Append(<<>>, x) = <<x>>
    /\ \A S : \A x \in S : <<x>> \in Seq(S) /\ Len(<<x>>) = 1
BY ONLY TRUE, SMTT(40)

\* What is known of a block stays true while packets are sent.
LEMMA BlockStays ==
    ASSUME NEW b, NEW old, NEW new, Grows(old, new), BlockOf(b, old)
    PROVE  BlockOf(b, new)
BY DEF Grows, BlockOf, Endpoints

\* A job stays sound while packets are sent.
LEMMA JobStays ==
    ASSUME NEW j, NEW old, NEW new, Grows(old, new), JobOf(j, old)
    PROVE  JobOf(j, new)
<1>1. BlockOf(j.msg.block, new)
  BY BlockStays, Zenon DEF JobOf
<1>2. j.msg.packet # None /\ j.msg.packet.sourceClient \in Endpoints
      /\ j.msg.packet.sequence \in SequenceNumbers
  BY SolanaAssumption DEF JobOf, Packets
<1> QED
  BY <1>1, <1>2, Zenon DEF JobOf, Grows

\* What is committed for a packet tells it apart from every other of its client
\* and sequence number.
LEMMA CommitmentBinds ==
    ASSUME NEW packet \in Packets, NEW payload,
           packet_commitment_bytes32([packet EXCEPT !.payload = payload])
              = packet_commitment_bytes32(packet)
    PROVE  [packet EXCEPT !.payload = payload] = packet
BY DEF Packets, packet_commitment_bytes32

\* What is put together from chunks has a commitment.
LEMMA CommitmentType ==
    ASSUME NEW packet \in Packets, NEW payload \in Seq(ChunkData)
    PROVE  packet_commitment_bytes32([packet EXCEPT !.payload = payload]) \in Commitments
BY DEF Packets, packet_commitment_bytes32, Commitments

\* A payload has at least one chunk, and at most MaxChunks.
LEMMA PayloadType == \A packet \in Packets : packet.payload \in Seq(ChunkData) /\ Len(packet.payload) \in 1..MaxChunks
BY SolanaAssumption DEF Packets

\* The slots of a payload are those of its chunks.
LEMMA UsedSlots ==
    ASSUME NEW payload \in Seq(ChunkData), NEW slot \in SlotsUsed(delivery(payload)), slot[1] = "payload"
    PROVE  slot[2] \in DOMAIN payload
BY DEF SlotsUsed, delivery, Inline, Chunked

\* A payload put together from the chunks in the accounts is made of chunks.
LEMMA Reassembly ==
    ASSUME ChunksOK, NEW r \in Relayers, NEW c \in Clients, NEW j, JobOf(j, sent),
           Assemblable(r, c, j.msg.packet.sequence, j.msg.data)
    PROVE  assemble_multiple_payloads(r, c, j.msg.packet.sequence, j.msg.data) \in Seq(ChunkData)
<1> DEFINE s == j.msg.packet.sequence
           payload == j.msg.packet.payload
<1>1. payload \in Seq(ChunkData) /\ Len(payload) \in 1..MaxChunks /\ s \in SequenceNumbers
  BY PayloadType DEF JobOf, Packets
<1>2. CASE Len(payload) = 1
  BY <1>1, <1>2 DEF JobOf, delivery, Inline, assemble_multiple_payloads
<1>3. CASE Len(payload) # 1
  <2>1. j.msg.data = [inline |-> FALSE, data |-> Len(payload)]
    BY <1>3 DEF JobOf, delivery, Chunked
  <2>2. \A i \in 1..Len(payload) :
            /\ <<r, c, s, <<"payload", i>>>> \in ChunkAddresses
            /\ <<"payload", i>> \in SlotsUsed(j.msg.data)
    <3>1. \A i \in 1..Len(payload) : i \in 1..MaxChunks
      BY <1>1, SolanaAssumption
    <3>2. \A i \in 1..Len(payload) : <<"payload", i>> \in Slots
      BY <3>1 DEF Slots
    <3>3. \A i \in 1..Len(payload) : <<r, c, s, <<"payload", i>>>> \in ChunkAddresses
      BY <1>1, <3>2 DEF ChunkAddresses
    <3>4. SlotsUsed(j.msg.data) = {<<"proof", 1>>} \cup ({"payload"} \X (1..Len(payload)))
      BY <2>1 DEF SlotsUsed
    <3> QED
      BY <3>3, <3>4
  <2>3. \A i \in 1..Len(payload) : chunks[<<r, c, s, <<"payload", i>>>>] \in ChunkData
    BY Zenon, <2>2 DEF ChunksOK, Assemblable
  <2>4. assemble_multiple_payloads(r, c, s, j.msg.data)
           = [i \in 1..Len(payload) |-> chunks[<<r, c, s, <<"payload", i>>>>]]
    BY <2>1 DEF assemble_multiple_payloads
  <2> HIDE DEF s, payload
  <2>5. [i \in 1..Len(payload) |-> chunks[<<r, c, s, <<"payload", i>>>>]] \in Seq(ChunkData)
    BY <1>1, <2>3
  <2> QED
    BY <2>4, <2>5 DEF s
<1> QED
  BY <1>2, <1>3

-----------------------------------------------------------------------------
(* Each step keeps the invariant *)

\* Nothing was sent, and no account is in use, at first.
LEMMA InitIInv == RelayInit => IInv
<1> SUFFICES ASSUME RelayInit PROVE IInv
  OBVIOUS
<1> USE DEF RelayInit, Init
<1>1. SentOK
  BY DEF SentOK
<1>2. CommitmentsOK
  BY DEF CommitmentsOK, Endpoints
<1>3. PeerOK
  BY SolanaAssumption DEF PeerOK, Stores, EmptyStore, BlockOf, Timestamps
<1>4. JobsOK
  BY DEF JobsOK
<1>5. ChunksOK
  BY DEF ChunksOK
<1>6. HistoryOK
  BY DEF HistoryOK, CallbacksMatchPackets
<1>7. ClientsOK
  BY DEF ClientsOK
<1> QED
  BY <1>1, <1>2, <1>3, <1>4, <1>5, <1>6, <1>7, Zenon DEF IInv

\* What is said of blocks, jobs and callbacks outlives a step that leaves them
\* alone and only adds packets.
LEMMA OthersStay ==
    ASSUME IInv, Grows(sent, sent')
    PROVE  /\ UNCHANGED peer => PeerOK'
           /\ UNCHANGED job => JobsOK'
           /\ UNCHANGED <<delivered, outcome>> => HistoryOK'
<1>1. ASSUME UNCHANGED peer PROVE PeerOK'
  BY <1>1, BlockStays, Zenon DEF IInv, PeerOK, Stores
<1>2. ASSUME UNCHANGED job PROVE JobsOK'
  BY <1>2, JobStays, Zenon DEF IInv, JobsOK
<1>3. ASSUME UNCHANGED <<delivered, outcome>> PROVE HistoryOK'
  <2>1. ASSUME NEW c \in Clients, NEW s \in SequenceNumbers, NEW i \in DOMAIN delivered[c][s]
        PROVE  \E p \in Peers : delivered[c][s][i] = sent'[p][s]
    <3>1. delivered[c][s][i] \in Packets
      BY <2>1 DEF IInv, HistoryOK
    <3>2. PICK p \in Peers : delivered[c][s][i] = sent[p][s]
      BY <2>1 DEF IInv, HistoryOK, CallbacksMatchPackets
    <3> QED
      BY <3>1, <3>2, SolanaAssumption DEF Grows, Endpoints, Packets
  <2>2. ASSUME NEW e \in Endpoints, NEW s \in SequenceNumbers, NEW i \in DOMAIN outcome[e][s]
        PROVE  outcome[e][s][i][2] = sent'[e][s]
    <3>1. outcome[e][s][i][2] \in Packets
      BY <2>2 DEF IInv, HistoryOK
    <3>2. outcome[e][s][i][2] = sent[e][s]
      BY <2>2 DEF IInv, HistoryOK, CallbacksMatchPackets
    <3> QED
      BY <3>1, <3>2, SolanaAssumption DEF Grows, Packets
  <2> QED
    BY <1>3, <2>1, <2>2 DEF IInv, HistoryOK, CallbacksMatchPackets
<1> QED
  BY <1>1, <1>2, <1>3, Zenon

\* The parts of the invariant depend on the accounts they name only.
LEMMA RestStays ==
    ASSUME IInv
    PROVE  /\ UNCHANGED sent => SentOK'
           /\ UNCHANGED <<sent, commitments>> => CommitmentsOK'
           /\ UNCHANGED chunks => ChunksOK'
           /\ UNCHANGED clients => ClientsOK'
<1>1. UNCHANGED sent => SentOK'
  BY DEF IInv, SentOK
<1>2. UNCHANGED <<sent, commitments>> => CommitmentsOK'
  BY DEF IInv, CommitmentsOK
<1>3. UNCHANGED chunks => ChunksOK'
  BY DEF IInv, ChunksOK
<1>4. UNCHANGED clients => ClientsOK'
  BY DEF IInv, ClientsOK
<1> QED
  BY <1>1, <1>2, <1>3, <1>4, Zenon

\* A step that sends nothing loses nothing.
LEMMA SentUnchanged == UNCHANGED sent => Grows(sent, sent')
BY DEF Grows

\* send_packet keeps the invariant.
LEMMA SendStep ==
    ASSUME IInv, NEW c \in Clients, NEW s \in SequenceNumbers, NEW timeout \in Timestamps,
           NEW payload \in LocalPayloads, send_packet(c, s, timeout, payload), UNCHANGED relay
    PROVE  IInv'
<1> DEFINE packet == [sequence |-> s, sourceClient |-> c, destClient |-> clients[c].counterparty,
                      timeout |-> timeout, payload |-> payload]
<1>1. clients[c].counterparty \in Peers
  BY DEF send_packet, Usable, IInv, ClientsOK
<1>2. packet \in Packets
  BY <1>1 DEF Packets, Endpoints
<1>3. /\ sent' = [sent EXCEPT ![c][s] = packet]
      /\ commitments' = [commitments EXCEPT ![c][s] = packet_commitment_bytes32(packet)]
      /\ commitments[c][s] = None
      /\ UNCHANGED <<clients, chunks, peer, delivered, outcome, job>>
  BY Zenon DEF send_packet, Sendable, relay, admin
<1>4. sent[c][s] = None
  BY <1>3, Zenon DEF IInv, CommitmentsOK
<1>5. packet # None
  BY <1>2, SolanaAssumption, Zenon DEF Packets
<1>6. packet_commitment_bytes32(packet) \in Commitments
  BY Zenon, <1>2, PayloadType DEF packet_commitment_bytes32, Commitments, Packets
<1> HIDE DEF packet
<1>7. Grows(sent, sent')
  BY <1>3, <1>4 DEF Grows, IInv, SentOK
<1>8. SentOK'
  BY <1>1, <1>2, <1>3, SolanaAssumption DEF IInv, SentOK, Endpoints, packet
<1>9. CommitmentsOK'
  BY <1>3, <1>5, <1>6, SolanaAssumption DEF IInv, CommitmentsOK, SentOK, Endpoints, Commitments
<1>10. PeerOK' /\ JobsOK' /\ HistoryOK'
  BY <1>3, <1>7, OthersStay, Zenon
<1>11. ChunksOK' /\ ClientsOK'
  BY <1>3, Zenon DEF IInv, ChunksOK, ClientsOK
<1> QED
  BY <1>8, <1>9, <1>10, <1>11, Zenon DEF IInv

\* So does sending on the other chain.
LEMMA PeerSendStep ==
    ASSUME IInv, NEW q \in Peers, NEW s \in SequenceNumbers, NEW timeout \in Timestamps,
           NEW payload \in PeerPayloads, PeerSend(q, s, timeout, payload), UNCHANGED relay
    PROVE  IInv'
<1> DEFINE packet == [sequence |-> s, sourceClient |-> q, destClient |-> PeerClient[q],
                      timeout |-> timeout, payload |-> payload]
           value == packet_commitment_bytes32(packet)
<1>1. packet \in Packets
  BY SolanaAssumption DEF Packets, Endpoints
<1>2. /\ sent' = [sent EXCEPT ![q][s] = packet]
      /\ peer' = [peer EXCEPT !.commitment[q][s] = value]
      /\ sent[q][s] = None
      /\ UNCHANGED <<clients, commitments, chunks, delivered, outcome, job>>
  BY Zenon DEF PeerSend, PeerOnly, admin, accounts, relay
<1>3. value \in Commitments
  BY Zenon, <1>1, PayloadType DEF packet_commitment_bytes32, Commitments, Packets
<1>4. packet # None
  BY <1>1, SolanaAssumption, Zenon DEF Packets
<1>5. PeerClient[q] \in Clients
  BY SolanaAssumption
<1> HIDE DEF value, packet
<1>6. Grows(sent, sent')
  BY <1>2 DEF Grows, IInv, SentOK
<1>7. SentOK'
  BY <1>1, <1>2, <1>5, SolanaAssumption DEF IInv, SentOK, Endpoints, packet
<1>8. CommitmentsOK'
  BY <1>2, SolanaAssumption DEF IInv, CommitmentsOK, SentOK, Endpoints
<1>9. PeerOK'
  <2>1. BlockOf(peer, sent')
    BY <1>6, BlockStays, Zenon DEF IInv, PeerOK
  <2>2. peer' \in Stores
    BY Zenon, <1>2, <1>3 DEF IInv, PeerOK, Stores
  <2>3. sent'[q][s] = packet
    BY <1>2 DEF IInv, SentOK, Endpoints
  <2>4. \A p \in Peers, t \in SequenceNumbers :
            peer'.commitment[p][t] = IF p = q /\ t = s THEN value ELSE peer.commitment[p][t]
    BY <1>2 DEF IInv, PeerOK, Stores
  <2>5. ASSUME NEW p \in Peers, NEW t \in SequenceNumbers, peer'.commitment[p][t] # None
        PROVE  /\ sent'[p][t] # None
               /\ peer'.commitment[p][t] = packet_commitment_bytes32(sent'[p][t])
    <3>1. CASE p = q /\ t = s
      BY <1>4, <2>3, <2>4, <3>1, Zenon DEF value
    <3>2. CASE ~(p = q /\ t = s)
      <4>1. peer'.commitment[p][t] = peer.commitment[p][t]
        BY <2>4, <3>2, Zenon
      <4> QED
        BY <2>1, <2>5, <4>1, Zenon DEF BlockOf
    <3> QED
      BY <3>1, <3>2, Zenon
  <2>6. BlockOf(peer', sent')
    BY <2>5, Zenon DEF BlockOf
  <2> QED
    BY <2>2, <2>6, Zenon DEF PeerOK, Stores
<1>10. JobsOK' /\ HistoryOK'
  BY <1>2, <1>6, OthersStay, Zenon
<1>11. ChunksOK' /\ ClientsOK'
  BY <1>2, Zenon DEF IInv, ChunksOK, ClientsOK
<1> QED
  BY <1>7, <1>8, <1>9, <1>10, <1>11, Zenon DEF IInv

\* The counterparty chain receives packets and resolves its own.
LEMMA PeerStoreStep ==
    ASSUME IInv, UNCHANGED relay,
           \/ PeerTick
           \/ \E s \in SequenceNumbers, c \in Clients, ack \in PeerAcks : PeerRecv(c, s, ack)
    PROVE  IInv'
<1>1. UNCHANGED <<sent, clients, commitments, chunks, delivered, outcome, job>>
  BY Zenon DEF PeerTick, PeerRecv, PeerOnly, admin, accounts, history, relay
<1>2. peer' \in Stores /\ peer'.commitment = peer.commitment
  <2>1. CASE PeerTick
    <3>1. peer \in Stores /\ peer.time \in 0..MaxTimestamp
      BY DEF IInv, PeerOK, Stores, Timestamps
    <3>2. peer.time + 1 \in Timestamps
      BY SMTT(40), <2>1, <3>1, SolanaAssumption DEF PeerTick, Timestamps
    <3> QED
      BY <2>1, <3>1, <3>2 DEF PeerTick, Stores
  <2>2. ASSUME NEW s \in SequenceNumbers, NEW c \in Clients, NEW ack \in PeerAcks, PeerRecv(c, s, ack)
        PROVE  peer' \in Stores /\ peer'.commitment = peer.commitment
    <3>1. sent[c][s] \in Packets /\ sent[c][s].destClient \in Peers
      <4>1. sent[c][s] # None /\ c \in Endpoints
        BY <2>2, Zenon DEF PeerRecv, Endpoints
      <4> QED
        BY <4>1 DEF IInv, SentOK
    <3> QED
      BY Zenon, <2>2, <3>1 DEF PeerRecv, IInv, PeerOK, Stores
  <2> QED
    BY <2>1, <2>2
<1>3. PeerOK'
  BY <1>1, <1>2 DEF IInv, PeerOK, BlockOf, Stores
<1>4. SentOK' /\ CommitmentsOK' /\ ChunksOK' /\ ClientsOK'
  BY <1>1, RestStays, Zenon
<1>5. JobsOK' /\ HistoryOK'
  BY <1>1, OthersStay, SentUnchanged, Zenon
<1> QED
  BY <1>3, <1>4, <1>5, Zenon DEF IInv

\* A callback about the packet that was sent under its name.
LEMMA ToldOK ==
    ASSUME IInv, UNCHANGED <<sent, delivered>>,
           NEW e \in Endpoints, NEW s \in SequenceNumbers, NEW told \in Told, sent[e][s] # None,
           outcome' = [outcome EXCEPT ![e][s] = Append(@, <<told, sent[e][s]>>)]
    PROVE  HistoryOK'
<1> DEFINE entry == <<told, sent[e][s]>>
<1>1. entry \in Told \X Packets
  BY DEF IInv, SentOK
<1>2. entry[2] = sent[e][s]
  OBVIOUS
<1> HIDE DEF entry
<1>3. outcome \in [Endpoints -> [SequenceNumbers -> Seq(Told \X Packets)]]
      /\ outcome' = [outcome EXCEPT ![e][s] = Append(@, entry)]
  BY DEF IInv, HistoryOK, entry
<1>4. outcome' \in [Endpoints -> [SequenceNumbers -> Seq(Told \X Packets)]]
  BY <1>1, <1>3
<1>5. ASSUME NEW f \in Endpoints, NEW t \in SequenceNumbers, NEW i \in DOMAIN outcome'[f][t]
      PROVE  outcome'[f][t][i][2] = sent[f][t]
  <2>1. CASE f = e /\ t = s
    <3>1. outcome'[f][t] = Append(outcome[e][s], entry)
      BY <1>3, <2>1
    <3>2. outcome[e][s] \in Seq(Told \X Packets)
      BY <1>3
    <3>3. CASE i \in DOMAIN outcome[e][s]
      BY <2>1, <3>1, <3>2, <3>3 DEF IInv, HistoryOK, CallbacksMatchPackets
    <3>4. CASE i \notin DOMAIN outcome[e][s]
      <4>1. outcome'[f][t][i] = entry
        BY <1>1, <1>5, <3>1, <3>2, <3>4
      <4> QED
        BY SMTT(40), <1>2, <2>1, <4>1
    <3> QED
      BY <3>3, <3>4
  <2>2. CASE ~(f = e /\ t = s)
    <3>1. outcome'[f][t] = outcome[f][t]
      BY <1>3, <2>2
    <3> QED
      BY <1>5, <3>1 DEF IInv, HistoryOK, CallbacksMatchPackets
  <2> QED
    BY <2>1, <2>2
<1>6. \A c \in Clients, t \in SequenceNumbers : \A i \in DOMAIN delivered'[c][t] :
          \E p \in Peers : delivered'[c][t][i] = sent'[p][t]
  BY DEF IInv, HistoryOK, CallbacksMatchPackets
<1>7. delivered' \in [Clients -> [SequenceNumbers -> Seq(Packets)]]
  BY DEF IInv, HistoryOK
<1> QED
  BY <1>4, <1>5, <1>6, <1>7 DEF HistoryOK, CallbacksMatchPackets

\* So does the other chain telling the sender of a packet what became of it.
LEMMA PeerResolveStep ==
    ASSUME IInv, UNCHANGED relay, NEW q \in Peers, NEW s \in SequenceNumbers,
           NEW told \in {"confirmed", "timedOut"}, PeerResolve(q, s, told)
    PROVE  IInv'
<1>1. /\ peer' = [peer EXCEPT !.commitment[q][s] = None]
      /\ outcome' = [outcome EXCEPT ![q][s] = Append(@, <<told, sent[q][s]>>)]
      /\ peer.commitment[q][s] # None
      /\ UNCHANGED <<sent, clients, commitments, chunks, delivered, job>>
  BY Zenon DEF PeerResolve, PeerOnly, admin, accounts, relay
<1>2. sent[q][s] # None
  BY <1>1, Zenon DEF IInv, PeerOK, BlockOf
<1>3. HistoryOK'
  BY Zenon, <1>1, <1>2, ToldOK DEF Told, Endpoints
<1>4. PeerOK'
  BY Zenon, <1>1 DEF IInv, PeerOK, BlockOf, Stores
<1>5. SentOK' /\ CommitmentsOK' /\ ChunksOK' /\ ClientsOK'
  BY <1>1, RestStays, Zenon
<1>6. JobsOK'
  BY <1>1, OthersStay, SentUnchanged, Zenon
<1> QED
  BY <1>3, <1>4, <1>5, <1>6, Zenon DEF IInv

\* Clocks and administrators.
LEMMA AdminStep == IInv /\ UNCHANGED relay /\ (Administrators \/ Tick) => IInv'
<1> SUFFICES ASSUME IInv, UNCHANGED relay, Administrators \/ Tick PROVE IInv'
  OBVIOUS
<1>1. UNCHANGED <<sent, commitments, chunks, peer, delivered, outcome, job>>
  BY Zenon DEF Administrators, Tick, pause, unpause, add_ibc_app, Freeze, add_client, migrate_client,
               AdminOnly, accounts, history, relay
<1>2. ClientsOK'
  <2>1. CASE UNCHANGED clients
    BY <2>1, RestStays, Zenon
  <2>2. ASSUME NEW c \in Clients, NEW program \in LightClients, NEW p \in Peers, NEW active \in BOOLEAN,
               clients' = [clients EXCEPT ![c] =
                             [program |-> program, counterparty |-> p, active |-> active]]
        PROVE  ClientsOK'
    BY <2>2 DEF IInv, ClientsOK
  <2> QED
    BY <2>1, <2>2, Zenon DEF Administrators, Tick, pause, unpause, add_ibc_app, Freeze, add_client,
                             migrate_client, admin
<1>3. SentOK' /\ CommitmentsOK' /\ ChunksOK'
  BY <1>1, RestStays, Zenon
<1>4. PeerOK' /\ JobsOK' /\ HistoryOK'
  BY <1>1, OthersStay, SentUnchanged, Zenon
<1> QED
  BY <1>2, <1>3, <1>4, Zenon DEF IInv

\* A request takes up a packet that was sent and the newest block.
LEMMA RelayStep ==
    ASSUME IInv, NEW w \in Workers, NEW kind \in Kinds, NEW e \in Endpoints,
           NEW s \in SequenceNumbers, Relay(w, kind, e, s)
    PROVE  IInv'
<1> DEFINE packet == sent[e][s]
           data == delivery(packet.payload)
           j == [kind |-> kind, client |-> LocalClient(kind, packet),
                 msg |-> [packet |-> packet, data |-> data, block |-> peer,
                          ack |-> peer.ack[PeerOf(kind, packet)][packet.sequence]],
                 todo |-> SlotsUsed(data), final |-> "due"]
<1>1. /\ job' = [job EXCEPT ![w] = j]
      /\ UNCHANGED <<sent, clients, commitments, chunks, peer, delivered, outcome>>
      /\ packet # None /\ Wanted(kind, packet)
  BY ZenonT(40) DEF Relay, ibc_to_solana_packet, vars, admin, accounts, history
<1>2. packet \in Packets /\ packet.sourceClient = e /\ packet.sequence = s
      /\ (e \in Clients => packet.destClient \in Peers) /\ (e \in Peers => packet.destClient \in Clients)
  BY SMTT(40), <1>1 DEF IInv, SentOK
<1>3. (kind = "recv" <=> e \in Peers) /\ (kind # "recv" => e \in Clients)
  BY <1>1, <1>2, SolanaAssumption DEF Wanted, src_events_to_recv_and_ack_msgs,
                                target_events_to_timeout_msgs, Kinds
<1>4. LocalClient(kind, packet) \in Clients
  BY <1>2, <1>3, Zenon DEF LocalClient
<1>5. BlockOf(peer, sent)
  BY ZenonT(40) DEF IInv, PeerOK
<1>6. JobOf(j, sent)
  BY Zenon, <1>2, <1>3, <1>4, <1>5 DEF JobOf
<1> HIDE DEF j
<1>7. JobsOK'
  BY <1>1, <1>6 DEF IInv, JobsOK
<1>8. SentOK' /\ CommitmentsOK' /\ ChunksOK' /\ ClientsOK'
  BY <1>1, RestStays, Zenon
<1>9. PeerOK' /\ HistoryOK'
  BY <1>1, OthersStay, SentUnchanged, Zenon
<1> QED
  BY <1>7, <1>8, <1>9, Zenon DEF IInv

\* Finishing a transaction of a job, or dropping the job, leaves the others be.
LEMMA JobsShrink ==
    ASSUME IInv, UNCHANGED sent, NEW w \in Workers, job[w] # None,
           \/ job' = [job EXCEPT ![w] = None]
           \/ job' = [job EXCEPT ![w].final = "done"]
           \/ \E slot : job' = [job EXCEPT ![w].todo = @ \ {slot}]
    PROVE  JobsOK'
<1>1. job = [v \in Workers |-> job[v]] /\ \A v \in Workers : job[v] # None => JobOf(job[v], sent)
  BY Zenon DEF IInv, JobsOK
<1>2. JobOf(job[w], sent)
  BY <1>1
<1>3. CASE job' = [job EXCEPT ![w] = None]
  BY <1>1, <1>3 DEF JobsOK
<1>4. ASSUME NEW j, job' = [job EXCEPT ![w] = j], JobOf(j, sent) PROVE JobsOK'
  BY Zenon, <1>1, <1>4 DEF JobsOK
<1>5. CASE job' = [job EXCEPT ![w].final = "done"]
  <2> DEFINE j == [job[w] EXCEPT !.final = "done"]
  <2>2. j.kind = job[w].kind /\ j.client = job[w].client /\ j.msg = job[w].msg /\ j.todo = job[w].todo
        /\ j = [kind |-> j.kind, client |-> j.client, msg |-> j.msg, todo |-> j.todo, final |-> j.final]
    BY <1>2 DEF JobOf
  <2> HIDE DEF j
  <2>1. JobOf(j, sent)
    BY <1>2, <2>2, Zenon DEF JobOf
  <2> QED
    BY Zenon, <1>4, <1>5, <2>1 DEF j
<1>6. ASSUME NEW slot, job' = [job EXCEPT ![w].todo = @ \ {slot}] PROVE JobsOK'
  <2> DEFINE j == [job[w] EXCEPT !.todo = @ \ {slot}]
  <2>1. job[w] = [kind |-> job[w].kind, client |-> job[w].client, msg |-> job[w].msg,
                  todo |-> job[w].todo, final |-> job[w].final]
    BY <1>2, Zenon DEF JobOf
  <2>2. j.kind = job[w].kind /\ j.client = job[w].client /\ j.msg = job[w].msg
        /\ j.todo = job[w].todo \ {slot}
        /\ j = [kind |-> j.kind, client |-> j.client, msg |-> j.msg, todo |-> j.todo, final |-> j.final]
    BY ONLY <2>1, SMTT(40)
  <2> HIDE DEF j
  <2>3. JobOf(j, sent)
    BY <1>2, <2>2, Zenon DEF JobOf
  <2> QED
    BY Zenon, <1>4, <1>6, <2>3 DEF j
<1> QED
  BY Zenon, <1>3, <1>5, <1>6

\* Uploads, failures, clean-ups and crashes of a worker keep the invariant.
LEMMA ChunkStep ==
    ASSUME IInv, NEW w \in Workers,
           (\E slot \in Slots : Upload(w, slot)) \/ FinalFails(w) \/ Cleanup(w) \/ Crash(w)
    PROVE  IInv'
<1>1. UNCHANGED <<sent, clients, commitments, peer, delivered, outcome>> /\ job[w] # None
  BY Zenon DEF Upload, FinalFails, Cleanup, Crash, upload_chunk, cleanup_chunks, vars, admin, accounts, history
<1>2. JobsOK'
  BY <1>1, JobsShrink, Zenon DEF Upload, FinalFails, Cleanup, Crash
<1>3. ChunksOK'
  <2>1. CASE UNCHANGED chunks
    BY <2>1, RestStays, Zenon
  <2>2. ASSUME NEW r, NEW c, NEW s, NEW slots, cleanup_chunks(r, c, s, slots)
        PROVE  ChunksOK'
    BY <2>2 DEF cleanup_chunks, IInv, ChunksOK
  <2>3. ASSUME NEW slot \in Slots, slot \in job[w].todo,
               upload_chunk(Key[w], job[w].client, job[w].msg.packet.sequence, slot, ChunkValue(job[w], slot))
        PROVE  ChunksOK'
    <3> DEFINE value == ChunkValue(job[w], slot)
               a == <<Key[w], job[w].client, job[w].msg.packet.sequence, slot>>
               payload == job[w].msg.packet.payload
    <3>1. JobOf(job[w], sent)
      BY <1>1, ZenonT(40) DEF IInv, JobsOK
    <3>2. payload \in Seq(ChunkData) /\ payload \in LocalPayloads \cup PeerPayloads
      BY <3>1, PayloadType DEF JobOf, Packets
    <3>3. slot[1] = "payload" => slot[2] \in DOMAIN payload
      <4>1. slot \in SlotsUsed(delivery(payload))
        BY <2>3, <3>1, Zenon DEF JobOf
      <4> QED
        BY <3>2, <4>1, UsedSlots, Zenon
    <3>4. slot[1] = "payload" => value \in ChunkData
      BY <3>2, <3>3 DEF ChunkValue, ChunkData
    <3> HIDE DEF value
    <3>5. chunks' = [chunks EXCEPT ![a] = value] /\ a[4] = slot
      BY <2>3 DEF upload_chunk, value
    <3> HIDE DEF a
    <3> QED
      BY Zenon, <3>4, <3>5 DEF IInv, ChunksOK
  <2> QED
    BY <2>1, <2>2, <2>3, Zenon DEF Upload, FinalFails, Cleanup, Crash, vars, accounts
<1>4. SentOK' /\ CommitmentsOK' /\ ClientsOK'
  BY <1>1, RestStays, Zenon
<1>5. PeerOK' /\ HistoryOK'
  BY <1>1, OthersStay, SentUnchanged, Zenon
<1> QED
  BY <1>2, <1>3, <1>4, <1>5, Zenon DEF IInv

\* What a final transaction compares with a commitment is the packet sent.
LEMMA Bound ==
    ASSUME IInv, NEW w \in Workers, job[w] # None, NEW c \in Clients,
           Assemblable(Key[w], c, job[w].msg.packet.sequence, job[w].msg.data),
           packet_commitment_bytes32(validate_and_reconstruct_packet(Key[w], c, job[w].msg))
              = packet_commitment_bytes32(job[w].msg.packet)
    PROVE  validate_and_reconstruct_packet(Key[w], c, job[w].msg) = job[w].msg.packet
<1>1. job[w].msg.packet \in Packets
  BY Zenon DEF IInv, JobsOK, JobOf
<1> QED
  BY <1>1, CommitmentBinds, Zenon DEF validate_and_reconstruct_packet

\* The packet of a job and what it is put together again as.
LEMMA Rebuilt ==
    ASSUME IInv, NEW w \in Workers, job[w] # None, NEW c \in Clients,
           Assemblable(Key[w], c, job[w].msg.packet.sequence, job[w].msg.data)
    PROVE  LET msg == job[w].msg
               packet == validate_and_reconstruct_packet(Key[w], c, msg)
           IN  /\ JobOf(job[w], sent)
               /\ msg.packet \in Packets /\ msg.packet # None
               /\ packet.sequence = msg.packet.sequence
               /\ packet.sourceClient = msg.packet.sourceClient
               /\ packet.destClient = msg.packet.destClient
               /\ packet_commitment_bytes32(packet) \in Commitments
               /\ packet_commitment_bytes32(packet) \notin {None, Zeroed}
<1>1. JobOf(job[w], sent) /\ job[w].msg.packet \in Packets
  BY Zenon DEF IInv, JobsOK, JobOf
<1>2. Key[w] \in Relayers
  BY RelayAssumption
<1>3. assemble_multiple_payloads(Key[w], c, job[w].msg.packet.sequence, job[w].msg.data) \in Seq(ChunkData)
  BY <1>1, <1>2, Reassembly, Zenon DEF IInv
<1>4. packet_commitment_bytes32(validate_and_reconstruct_packet(Key[w], c, job[w].msg)) \in Commitments
  BY <1>1, <1>3, CommitmentType, Zenon DEF validate_and_reconstruct_packet
<1>5. job[w].msg.packet # None
  BY <1>1, SolanaAssumption, Zenon DEF Packets
<1>6. packet_commitment_bytes32(validate_and_reconstruct_packet(Key[w], c, job[w].msg)) \notin {None, Zeroed}
  BY <1>4, SolanaAssumption, Zenon DEF Commitments
<1>7. LET packet == validate_and_reconstruct_packet(Key[w], c, job[w].msg)
      IN  /\ packet.sequence = job[w].msg.packet.sequence
          /\ packet.sourceClient = job[w].msg.packet.sourceClient
          /\ packet.destClient = job[w].msg.packet.destClient
  BY <1>1 DEF validate_and_reconstruct_packet, Packets
<1> QED
  BY <1>1, <1>4, <1>5, <1>6, <1>7, Zenon

\* Zeroing the chunk accounts that were used leaves chunk accounts sound.
LEMMA ConsumedOK ==
    ASSUME IInv, NEW r, NEW c, NEW msg, cleanup_consumed_chunks(r, c, msg)
    PROVE  ChunksOK'
BY DEF cleanup_consumed_chunks, IInv, ChunksOK

\* recv_packet: the commitment is found in a block of the sender, so that the
\* packet put together is the one that was sent.
Receives(w, c, q, s) ==
    /\ sent[q][s] # None /\ sent[q][s].destClient = c /\ sent[q][s].timeout > now
    /\ cleanup_consumed_chunks(Key[w], c, job[w].msg)
    /\ UNCHANGED <<now, admin, sent, commitments, peer, outcome>>
    /\ \/ UNCHANGED <<receipts, acks, delivered>>
       \/ /\ receipts[c][s] = None
          /\ receipts' = [receipts EXCEPT ![c][s] = sent[q][s]]
          /\ acks' = [acks EXCEPT ![c][s] = AppAck]
          /\ delivered' = [delivered EXCEPT ![c][s] = Append(@, sent[q][s])]

\* What recv_packet does is described by Receives.
LEMMA RecvEffect ==
    ASSUME IInv, NEW w \in Workers, job[w] # None, job[w].kind = "recv",
           recv_packet(Key[w], job[w].msg)
    PROVE  \E c \in Clients, q \in Peers, s \in SequenceNumbers : Receives(w, c, q, s)
<1> DEFINE msg == job[w].msg
           c == msg.packet.destClient
           s == msg.packet.sequence
           q == msg.packet.sourceClient
           packet == validate_and_reconstruct_packet(Key[w], c, msg)
<1>1. /\ Assemblable(Key[w], c, s, msg.data) /\ msg.packet.timeout > now
      /\ msg.block.commitment[packet.sourceClient][s] = packet_commitment_bytes32(packet)
      /\ cleanup_consumed_chunks(Key[w], c, msg)
      /\ UNCHANGED <<now, admin, sent, commitments, peer, outcome>>
      /\ \/ UNCHANGED <<receipts, acks, delivered>>
         \/ /\ receipts[c][s] = None
            /\ receipts' = [receipts EXCEPT ![c][s] = packet]
            /\ acks' = [acks EXCEPT ![c][s] = AppAck]
            /\ delivered' = [delivered EXCEPT ![c][s] = Append(@, packet)]
  BY Zenon DEF recv_packet, verify_membership, Verifies, Unexpired, Unreceived
<1>2. c \in Clients /\ q \in Peers /\ s \in SequenceNumbers /\ BlockOf(msg.block, sent)
      /\ msg.packet = sent[q][s]
  BY Zenon DEF IInv, JobsOK, JobOf, LocalClient, Packets
<1>3. packet_commitment_bytes32(packet) # None /\ packet.sourceClient = q /\ msg.packet # None
  BY <1>1, <1>2, Rebuilt, Zenon
<1>4. packet_commitment_bytes32(packet) = packet_commitment_bytes32(msg.packet)
  BY <1>1, <1>2, <1>3, ZenonT(40) DEF BlockOf
<1>5. packet = sent[q][s]
  BY <1>1, <1>2, <1>4, Bound, ZenonT(40)
<1>6. sent[q][s].destClient = c /\ sent[q][s].timeout > now /\ sent[q][s] # None
  BY <1>1, <1>2, <1>3, Zenon
<1>7. Receives(w, c, q, s)
  BY <1>1, <1>5, <1>6, Zenon DEF Receives
<1> HIDE DEF c, q, s, packet
<1>8. QED
  BY <1>2, <1>7, Zenon

\* recv_packet keeps the invariant.
LEMMA RecvStep ==
    ASSUME IInv, NEW w \in Workers, job[w] # None, job[w].kind = "recv",
           recv_packet(Key[w], job[w].msg), job' = [job EXCEPT ![w].final = "done"]
    PROVE  IInv'
<1>0. PICK c \in Clients, q \in Peers, s \in SequenceNumbers : Receives(w, c, q, s)
  BY RecvEffect, Zenon
<1>1. /\ sent[q][s] # None
      /\ cleanup_consumed_chunks(Key[w], c, job[w].msg)
      /\ \/ UNCHANGED delivered
         \/ delivered' = [delivered EXCEPT ![c][s] = Append(@, sent[q][s])]
  BY <1>0, Zenon DEF Receives
<1>2. UNCHANGED <<sent, clients, commitments, peer, outcome>>
  BY <1>0, Zenon DEF Receives, admin
<1>3. PICK packet : packet = sent[q][s]
  BY Zenon
<1>6. HistoryOK'
  <2>1. CASE UNCHANGED delivered
    BY <1>2, <2>1, OthersStay, SentUnchanged, Zenon
  <2>2. CASE delivered' = [delivered EXCEPT ![c][s] = Append(@, packet)]
    <3>1. packet \in Packets
      BY <1>1, <1>3 DEF IInv, SentOK, Endpoints
    <3>2. delivered \in [Clients -> [SequenceNumbers -> Seq(Packets)]]
      BY Zenon DEF IInv, HistoryOK
    <3>3. delivered' \in [Clients -> [SequenceNumbers -> Seq(Packets)]]
      BY <2>2, <3>1, <3>2
    <3>4. ASSUME NEW d \in Clients, NEW t \in SequenceNumbers, NEW i \in DOMAIN delivered'[d][t]
          PROVE  \E p \in Peers : delivered'[d][t][i] = sent[p][t]
      <4>1. CASE d = c /\ t = s
        <5>1. delivered'[d][t] = Append(delivered[c][s], packet) /\ delivered[c][s] \in Seq(Packets)
          BY <2>2, <3>2, <4>1
        <5>2. CASE i \in DOMAIN delivered[c][s]
          <6>1. delivered'[d][t][i] = delivered[c][s][i]
            BY <5>1, <5>2
          <6>2. \E p \in Peers : delivered[c][s][i] = sent[p][s]
            BY <5>2, Zenon DEF IInv, HistoryOK, CallbacksMatchPackets
          <6> QED
            BY <4>1, <6>1, <6>2
        <5>3. CASE i \notin DOMAIN delivered[c][s]
          <6>1. delivered'[d][t][i] = packet
            BY <3>1, <3>4, <5>1, <5>3
          <6> QED
            BY <1>3, <4>1, <6>1
        <5> QED
          BY <5>2, <5>3
      <4>2. CASE ~(d = c /\ t = s)
        <5>1. delivered'[d][t] = delivered[d][t]
          BY <2>2, <3>2, <4>2
        <5> QED
          BY <3>4, <5>1 DEF IInv, HistoryOK, CallbacksMatchPackets
      <4> QED
        BY <4>1, <4>2
    <3> QED
      BY <1>2, <3>3, <3>4 DEF IInv, HistoryOK, CallbacksMatchPackets
  <2> QED
    BY <1>1, <1>3, <2>1, <2>2, Zenon
<1>7. JobsOK' /\ ChunksOK'
  BY <1>1, <1>2, JobsShrink, ConsumedOK, Zenon
<1>8. SentOK' /\ CommitmentsOK' /\ ClientsOK'
  BY <1>2, RestStays, Zenon
<1>9. PeerOK'
  BY <1>2, OthersStay, SentUnchanged, Zenon
<1> QED
  BY <1>6, <1>7, <1>8, <1>9, Zenon DEF IInv

\* ack_packet and timeout_packet: the commitment is found in the account, so
\* that the packet put together is the one that was sent; what is told about it
\* is what the block says.
Resolves(w, c, s, told) ==
    /\ sent[c][s] # None /\ commitments[c][s] \notin {None, Zeroed}
    /\ commitments' = [commitments EXCEPT ![c][s] = Zeroed]
    /\ outcome' = [outcome EXCEPT ![c][s] = Append(@, <<told, sent[c][s]>>)]
    /\ cleanup_consumed_chunks(Key[w], c, job[w].msg)
    /\ UNCHANGED <<now, admin, receipts, acks, sent, peer, delivered>>
    /\ \/ /\ job[w].kind = "ack" /\ job[w].msg.block.ack[sent[c][s].destClient][s] = job[w].msg.ack
          /\ told = IF job[w].msg.ack = UNIVERSAL_ERROR_ACK THEN "refused" ELSE "confirmed"
       \/ /\ job[w].msg.block.receipt[sent[c][s].destClient][s] = None
          /\ job[w].msg.block.time >= sent[c][s].timeout /\ told = "timedOut"

\* What ack_packet and timeout_packet do is described by Resolves.
LEMMA ResolveEffect ==
    ASSUME IInv, NEW w \in Workers, job[w] # None,
           \/ job[w].kind = "ack" /\ ack_packet(Key[w], job[w].msg)
           \/ job[w].kind = "timeout" /\ timeout_packet(Key[w], job[w].msg)
    PROVE  \E c \in Clients, s \in SequenceNumbers, told \in Told : Resolves(w, c, s, told)
<1> DEFINE msg == job[w].msg
           c == msg.packet.sourceClient
           s == msg.packet.sequence
           packet == validate_and_reconstruct_packet(Key[w], c, msg)
<1>1. PICK told \in Told :
          /\ Assemblable(Key[w], c, s, msg.data)
          /\ clear_commitment(c, packet, told)
          /\ cleanup_consumed_chunks(Key[w], c, msg)
          /\ UNCHANGED <<now, admin, receipts, acks, sent, peer, delivered>>
          /\ \/ /\ job[w].kind = "ack" /\ msg.block.ack[packet.destClient][s] = msg.ack
                /\ told = IF msg.ack = UNIVERSAL_ERROR_ACK THEN "refused" ELSE "confirmed"
             \/ /\ msg.block.receipt[packet.destClient][s] = None
                /\ msg.block.time >= packet.timeout /\ told = "timedOut"
  <2>1. CASE job[w].kind = "ack" /\ ack_packet(Key[w], msg)
    <3>1. PICK told \in Told : told = IF msg.ack = UNIVERSAL_ERROR_ACK THEN "refused" ELSE "confirmed"
      BY Zenon DEF Told
    <3>2. /\ Assemblable(Key[w], c, s, msg.data)
          /\ clear_commitment(c, packet, told)
          /\ cleanup_consumed_chunks(Key[w], c, msg)
          /\ UNCHANGED <<now, admin, receipts, acks, sent, peer, delivered>>
          /\ msg.block.ack[packet.destClient][s] = msg.ack
      BY <2>1, <3>1, Zenon DEF ack_packet, verify_membership
    <3> QED
      BY <2>1, <3>1, <3>2, Zenon
  <2>2. CASE job[w].kind = "timeout" /\ timeout_packet(Key[w], msg)
    <3>1. /\ Assemblable(Key[w], c, s, msg.data)
          /\ clear_commitment(c, packet, "timedOut")
          /\ cleanup_consumed_chunks(Key[w], c, msg)
          /\ UNCHANGED <<now, admin, receipts, acks, sent, peer, delivered>>
          /\ msg.block.receipt[packet.destClient][s] = None /\ msg.block.time >= packet.timeout
      BY <2>2, Zenon DEF timeout_packet, verify_non_membership, Elapsed
    <3> QED
      BY <3>1, Zenon DEF Told
  <2> QED
    BY Zenon, <2>1, <2>2
<1>2. c \in Clients /\ s \in SequenceNumbers /\ msg.packet = sent[c][s]
  <2>1. job[w].kind # "recv"
    OBVIOUS
  <2> QED
    BY <2>1, Zenon DEF IInv, JobsOK, JobOf, LocalClient, Packets
<1>3. /\ packet_commitment_bytes32(packet) \notin {None, Zeroed} /\ packet.sequence = s
      /\ msg.packet # None
  BY <1>1, <1>2, Rebuilt, Zenon
<1>4. packet_commitment_bytes32(packet) = packet_commitment_bytes32(msg.packet)
      /\ commitments[c][s] \notin {None, Zeroed}
  BY <1>1, <1>2, <1>3, ZenonT(40) DEF clear_commitment, Committed, IInv, CommitmentsOK
<1>5. packet = sent[c][s] /\ sent[c][s] # None
  BY <1>1, <1>2, <1>3, <1>4, Bound, Zenon
<1>6. /\ commitments' = [commitments EXCEPT ![c][s] = Zeroed]
      /\ outcome' = [outcome EXCEPT ![c][s] = Append(@, <<told, sent[c][s]>>)]
  BY Zenon, <1>1, <1>3, <1>5 DEF clear_commitment
<1>7. Resolves(w, c, s, told)
  BY <1>1, <1>4, <1>5, <1>6, Zenon DEF Resolves
<1> HIDE DEF c, s, packet
<1> QED
  BY <1>2, <1>7, ZenonT(40)

\* ack_packet and timeout_packet keep the invariant.
LEMMA ResolveStep ==
    ASSUME IInv, NEW w \in Workers, job[w] # None,
           \/ job[w].kind = "ack" /\ ack_packet(Key[w], job[w].msg)
           \/ job[w].kind = "timeout" /\ timeout_packet(Key[w], job[w].msg),
           job' = [job EXCEPT ![w].final = "done"]
    PROVE  IInv'
<1>0. PICK c \in Clients, s \in SequenceNumbers, told \in Told : Resolves(w, c, s, told)
  BY ResolveEffect, Zenon
<1>1. /\ sent[c][s] # None
      /\ commitments' = [commitments EXCEPT ![c][s] = Zeroed]
      /\ outcome' = [outcome EXCEPT ![c][s] = Append(@, <<told, sent[c][s]>>)]
      /\ cleanup_consumed_chunks(Key[w], c, job[w].msg)
  BY <1>0, Zenon DEF Resolves
<1>2. UNCHANGED <<sent, clients, peer, delivered>>
  BY <1>0, Zenon DEF Resolves, admin
<1>7. HistoryOK'
  BY Zenon, <1>1, <1>2, ToldOK DEF Endpoints
<1>8. CommitmentsOK'
  BY <1>1, <1>2, SolanaAssumption DEF IInv, CommitmentsOK
<1>9. JobsOK' /\ ChunksOK'
  BY <1>1, <1>2, JobsShrink, ConsumedOK, Zenon
<1>10. SentOK' /\ ClientsOK'
  BY <1>2, RestStays, Zenon
<1>11. PeerOK'
  BY <1>2, OthersStay, SentUnchanged, Zenon
<1> QED
  BY <1>7, <1>8, <1>9, <1>10, <1>11, Zenon DEF IInv

\* The invariant depends on the variables only.
LEMMA Stuttering == IInv /\ UNCHANGED allVars => IInv'
<1> SUFFICES ASSUME IInv, UNCHANGED allVars PROVE IInv'
  OBVIOUS
<1>1. UNCHANGED <<sent, clients, commitments, chunks, peer, delivered, outcome, job>>
  BY Zenon DEF allVars, vars, admin, accounts, history, relay
<1>2. SentOK' /\ CommitmentsOK' /\ ChunksOK' /\ ClientsOK'
  BY <1>1, RestStays, Zenon
<1>3. PeerOK' /\ JobsOK' /\ HistoryOK'
  BY <1>1, OthersStay, SentUnchanged, Zenon
<1> QED
  BY <1>2, <1>3, Zenon DEF IInv

\* Every step keeps the invariant.
LEMMA NextIInv == IInv /\ [Next]_allVars => IInv'
<1> SUFFICES ASSUME IInv, [Next]_allVars PROVE IInv'
  OBVIOUS
<1>1. CASE UNCHANGED allVars
  BY <1>1, Stuttering, Zenon
<1>2. ASSUME NEW w \in Workers, NEW kind \in Kinds, NEW e \in Endpoints, NEW s \in SequenceNumbers,
             Relay(w, kind, e, s) \/ Final(w, kind, e, s)
      PROVE  IInv'
  BY <1>2, RelayStep, RecvStep, ResolveStep, Zenon DEF Final
<1>3. ASSUME NEW w \in Workers,
             (\E slot \in Slots : Upload(w, slot)) \/ FinalFails(w) \/ Cleanup(w) \/ Crash(w)
      PROVE  IInv'
  BY <1>3, ChunkStep, Zenon
<1>4. CASE (Administrators \/ Chains) /\ UNCHANGED relay
  <2>1. CASE Administrators \/ Tick
    BY <1>4, <2>1, AdminStep, Zenon
  <2>2. CASE PeerTick
    BY <1>4, <2>2, PeerStoreStep, Zenon
  <2>3. ASSUME NEW s \in SequenceNumbers, NEW timeout \in Timestamps,
               \/ \E c \in Clients, payload \in LocalPayloads : send_packet(c, s, timeout, payload)
               \/ \E p \in Peers, payload \in PeerPayloads : PeerSend(p, s, timeout, payload)
        PROVE  IInv'
    BY <1>4, <2>3, SendStep, PeerSendStep, Zenon
  <2>4. ASSUME NEW s \in SequenceNumbers, NEW c \in Clients, NEW ack \in PeerAcks, PeerRecv(c, s, ack)
        PROVE  IInv'
    BY <1>4, <2>4, PeerStoreStep, Zenon
  <2>5. ASSUME NEW s \in SequenceNumbers, NEW p \in Peers, NEW told \in {"confirmed", "timedOut"},
               PeerResolve(p, s, told)
        PROVE  IInv'
    BY <1>4, <2>5, PeerResolveStep, Zenon
  <2> QED
    BY <1>4, <2>1, <2>2, <2>3, <2>4, <2>5, Zenon DEF Chains
<1> QED
  BY <1>1, <1>2, <1>3, <1>4, Zenon DEF Next, Work

\* Applications are handed packets the other side sent, and told of packets they
\* sent, unchanged, whatever workers that share chunk accounts upload, consume and
\* clean up, and in whatever order (recv_packet.rs:184-203, ack_packet.rs:180-184,
\* timeout_packet.rs:177-181, send_packet.rs:30-43).
THEOREM CallbacksMatch == Spec => []CallbacksMatchPackets
<1>1. RelayInit => IInv
  BY InitIInv
<1>2. IInv /\ [Next]_allVars => IInv'
  BY NextIInv
<1>3. IInv => CallbacksMatchPackets
  BY Zenon DEF IInv, HistoryOK
<1> QED
  BY <1>1, <1>2, <1>3, PTL DEF Spec

-----------------------------------------------------------------------------
(* The life cycle of packets *)

\* No two clients of the counterparty chain are connected to one client here.
OneCounterparty == \A p, q \in Peers : PeerClient[p] = PeerClient[q] => p = q

\* The accounts that TypeOK names besides those of IInv.
AccountsOK ==
    /\ now \in Timestamps /\ paused \in BOOLEAN /\ app \in BOOLEAN /\ frozen \subseteq LightClients
    /\ receipts \in [Clients -> [SequenceNumbers -> {None} \cup Packets]]
    /\ acks \in [Clients -> [SequenceNumbers -> {None, AppAck}]]

\* Packets go back and forth between a client and its counterparty.
Paired ==
    /\ \A c \in Clients : clients[c] # None => PeerClient[clients[c].counterparty] = c
    /\ \A c \in Clients, s \in SequenceNumbers :
          sent[c][s] # None => PeerClient[sent[c][s].destClient] = c /\ sent[c][s].payload \in LocalPayloads
    /\ \A p \in Peers, s \in SequenceNumbers :
          sent[p][s] # None => sent[p][s].destClient = PeerClient[p]

\* A receipt is that of the packet sent, and comes with an acknowledgement and,
\* on Solana, one callback.
PeerReceived(p, s) ==
    IF peer.receipt[p][s] = None THEN peer.ack[p][s] = None
    ELSE peer.ack[p][s] # None /\ peer.receipt[p][s] = sent[PeerClient[p]][s]
Received(p, s) ==
    LET c == PeerClient[p]
    IN  IF receipts[c][s] = None THEN acks[c][s] = None /\ delivered[c][s] = <<>>
        ELSE acks[c][s] = AppAck /\ Len(delivered[c][s]) = 1 /\ sent[p][s] # None

\* The sender is told once, when the commitment goes, and told what is so.
Informed(c, s) ==
    LET p == sent[c][s].destClient
    IN  IF commitments[c][s] # Zeroed THEN Notices(c, s) = <<>>
        ELSE \/ /\ Notices(c, s) = <<"confirmed">>
                /\ peer.receipt[p][s] # None /\ peer.ack[p][s] # UNIVERSAL_ERROR_ACK
             \/ /\ Notices(c, s) = <<"refused">>
                /\ peer.receipt[p][s] # None /\ peer.ack[p][s] = UNIVERSAL_ERROR_ACK
             \/ /\ Notices(c, s) = <<"timedOut">>
                /\ peer.receipt[p][s] = None /\ peer.time >= sent[c][s].timeout
PeerInformed(p, s) ==
    LET c == PeerClient[p]
    IN  IF sent[p][s] = None \/ peer.commitment[p][s] # None THEN Notices(p, s) = <<>>
        ELSE \/ Notices(p, s) = <<"confirmed">> /\ receipts[c][s] # None
             \/ Notices(p, s) = <<"timedOut">> /\ receipts[c][s] = None /\ now >= sent[p][s].timeout

\* What a block of the past says: an acknowledgement stays, and a packet that
\* had not arrived when it timed out never does.
PastOf(b) ==
    /\ b.time \in Timestamps /\ b.time <= peer.time
    /\ \A p \in Peers, s \in SequenceNumbers : b.ack[p][s] # None => peer.ack[p][s] = b.ack[p][s]
    /\ \A c \in Clients, s \in SequenceNumbers :
          LET p == sent[c][s].destClient
          IN  sent[c][s] # None /\ b.time >= sent[c][s].timeout /\ b.receipt[p][s] = None
                => peer.receipt[p][s] = None

JobsPast ==
    \A w \in Workers : job[w] # None =>
        PastOf(job[w].msg.block) /\ (job[w].kind = "ack" => job[w].msg.ack # None)

Story ==
    /\ \A p \in Peers, s \in SequenceNumbers : PeerReceived(p, s) /\ Received(p, s) /\ PeerInformed(p, s)
    /\ \A c \in Clients, s \in SequenceNumbers : Informed(c, s)

Life == AccountsOK /\ Paired /\ JobsPast /\ Story

-----------------------------------------------------------------------------
(* Types of the accounts *)

\* Nothing is sent or received at the start.
LEMMA InitAccounts == RelayInit => AccountsOK /\ Paired
<1> SUFFICES ASSUME RelayInit PROVE AccountsOK /\ Paired
  OBVIOUS
<1>1. now \in Timestamps
  BY SolanaAssumption DEF RelayInit, Init, Timestamps
<1>2. /\ paused \in BOOLEAN /\ app \in BOOLEAN /\ frozen \subseteq LightClients
      /\ receipts \in [Clients -> [SequenceNumbers -> {None} \cup Packets]]
      /\ acks \in [Clients -> [SequenceNumbers -> {None, AppAck}]]
  BY Zenon DEF RelayInit, Init
<1>3. Paired
  BY Zenon DEF RelayInit, Init, Paired, Endpoints
<1> QED
  BY <1>1, <1>2, <1>3, Zenon DEF AccountsOK

\* Administrators connect a client with a counterparty of its own.
LEMMA AdminAccounts ==
    ASSUME IInv, AccountsOK, Paired, Administrators
    PROVE  AccountsOK' /\ Paired'
<1>1. /\ UNCHANGED <<now, sent, receipts, acks>>
      /\ paused' \in BOOLEAN /\ app' \in BOOLEAN /\ frozen' \subseteq LightClients
  BY Zenon DEF Administrators, pause, unpause, add_ibc_app, Freeze, add_client, migrate_client,
               AdminOnly, accounts, history, AccountsOK
<1>2. \A c \in Clients : clients'[c] # None => PeerClient[clients'[c].counterparty] = c
  <2>1. CASE UNCHANGED clients
    BY <2>1, Zenon DEF Paired
  <2>2. ASSUME NEW c \in Clients, NEW program \in LightClients, NEW p \in Peers, NEW active \in BOOLEAN,
               PeerClient[p] = c,
               clients' = [clients EXCEPT ![c] =
                             [program |-> program, counterparty |-> p, active |-> active]]
        PROVE  \A d \in Clients : clients'[d] # None => PeerClient[clients'[d].counterparty] = d
    BY <2>2 DEF IInv, ClientsOK, Paired
  <2>3. ASSUME NEW c \in Clients, NEW program \in LightClients, NEW p \in Peers, PeerClient[p] = c,
               \/ add_client(c, program, p)
               \/ \E active \in BOOLEAN : migrate_client(c, program, p, active)
        PROVE  \A d \in Clients : clients'[d] # None => PeerClient[clients'[d].counterparty] = d
    <3>1. CASE add_client(c, program, p)
      <4>1. TRUE \in BOOLEAN
        BY Zenon
      <4> QED
        BY <2>2, <2>3, <3>1, <4>1, Zenon DEF add_client
    <3>2. ASSUME NEW active \in BOOLEAN, migrate_client(c, program, p, active)
          PROVE  \A d \in Clients : clients'[d] # None => PeerClient[clients'[d].counterparty] = d
      BY <2>2, <2>3, <3>2, Zenon DEF migrate_client
    <3> QED
      BY <2>3, <3>1, <3>2, Zenon
  <2>4. CASE pause \/ unpause \/ add_ibc_app \/ \E program \in LightClients : Freeze(program)
    BY <2>1, <2>4, Zenon DEF pause, unpause, add_ibc_app, Freeze
  <2> QED
    BY <2>3, <2>4, Zenon DEF Administrators
<1> QED
  BY <1>1, <1>2, Zenon DEF AccountsOK, Paired

\* send_packet addresses the counterparty of the client.
LEMMA SendAccounts ==
    ASSUME IInv, AccountsOK, Paired, NEW c \in Clients, NEW s \in SequenceNumbers,
           NEW timeout \in Timestamps, NEW payload \in LocalPayloads, send_packet(c, s, timeout, payload)
    PROVE  AccountsOK' /\ Paired'
<1> DEFINE packet == [sequence |-> s, sourceClient |-> c, destClient |-> clients[c].counterparty,
                      timeout |-> timeout, payload |-> payload]
<1>1. /\ sent' = [sent EXCEPT ![c][s] = packet] /\ clients[c] # None
      /\ UNCHANGED <<now, paused, app, clients, frozen, receipts, acks>>
  BY Zenon DEF send_packet, Usable, admin
<1>2. PeerClient[packet.destClient] = c /\ packet.payload \in LocalPayloads
  BY SMTT(40), <1>1 DEF Paired
<1> HIDE DEF packet
<1>3. /\ sent'[c][s] = packet
      /\ \A e \in Endpoints, t \in SequenceNumbers : ~(e = c /\ t = s) => sent'[e][t] = sent[e][t]
  <2>1. /\ sent \in [Endpoints -> [SequenceNumbers -> Packets \cup {None}]] /\ c \in Endpoints
        /\ sent' = [sent EXCEPT ![c][s] = packet]
    BY <1>1, Zenon DEF IInv, SentOK, Endpoints
  <2> QED
    BY ONLY s \in SequenceNumbers, <2>1, SMTT(40)
<1>4. c \notin Peers
  BY SolanaAssumption
<1>5. \A d \in Clients, t \in SequenceNumbers : sent'[d][t] # None =>
          PeerClient[sent'[d][t].destClient] = d /\ sent'[d][t].payload \in LocalPayloads
  BY SMTT(40), <1>2, <1>3, <1>4 DEF Paired, Endpoints
<1>6. \A p \in Peers, t \in SequenceNumbers :
          sent'[p][t] # None => sent'[p][t].destClient = PeerClient[p]
  BY <1>2, <1>3, <1>4 DEF Paired, Endpoints
<1> QED
  BY <1>1, <1>5, <1>6, Zenon DEF AccountsOK, Paired

\* The counterparty chain addresses the client its own is connected to.
LEMMA PeerSendAccounts ==
    ASSUME IInv, AccountsOK, Paired, NEW q \in Peers, NEW s \in SequenceNumbers,
           NEW timeout \in Timestamps, NEW payload \in PeerPayloads, PeerSend(q, s, timeout, payload)
    PROVE  AccountsOK' /\ Paired'
<1> DEFINE packet == [sequence |-> s, sourceClient |-> q, destClient |-> PeerClient[q],
                      timeout |-> timeout, payload |-> payload]
<1>1. /\ sent' = [sent EXCEPT ![q][s] = packet]
      /\ UNCHANGED <<now, paused, app, clients, frozen, receipts, acks>>
  BY Zenon DEF PeerSend, PeerOnly, admin, accounts
<1>2. packet.destClient = PeerClient[q]
  BY SMTT(40)
<1> HIDE DEF packet
<1>3. /\ sent'[q][s] = packet
      /\ \A e \in Endpoints, t \in SequenceNumbers : ~(e = q /\ t = s) => sent'[e][t] = sent[e][t]
  <2>1. /\ sent \in [Endpoints -> [SequenceNumbers -> Packets \cup {None}]] /\ q \in Endpoints
        /\ sent' = [sent EXCEPT ![q][s] = packet]
    BY <1>1, Zenon DEF IInv, SentOK, Endpoints
  <2> QED
    BY ONLY s \in SequenceNumbers, <2>1, SMTT(40)
<1>4. q \notin Clients
  BY SolanaAssumption
<1>5. \A d \in Clients, t \in SequenceNumbers : sent'[d][t] # None =>
          PeerClient[sent'[d][t].destClient] = d /\ sent'[d][t].payload \in LocalPayloads
  <2>1. \A d \in Clients, t \in SequenceNumbers : sent'[d][t] = sent[d][t]
    BY <1>3, <1>4, Zenon DEF Endpoints
  <2>2. \A d \in Clients, t \in SequenceNumbers : sent[d][t] # None =>
            PeerClient[sent[d][t].destClient] = d /\ sent[d][t].payload \in LocalPayloads
    BY Zenon DEF Paired
  <2> QED
    BY ONLY <2>1, <2>2, SMTT(40)
<1>6. \A p \in Peers, t \in SequenceNumbers :
          sent'[p][t] # None => sent'[p][t].destClient = PeerClient[p]
  <2>1. \A p \in Peers, t \in SequenceNumbers :
            sent[p][t] # None => sent[p][t].destClient = PeerClient[p]
    BY Zenon DEF Paired
  <2> QED
    BY ONLY <1>2, <1>3, <2>1, SMTT(40) DEF Endpoints
<1> QED
  BY <1>1, <1>5, <1>6, Zenon DEF AccountsOK, Paired

\* recv_packet stores a receipt of the packet sent, and an acknowledgement.
LEMMA RecvAccounts ==
    ASSUME IInv, AccountsOK, Paired, NEW w \in Workers, NEW c \in Clients, NEW q \in Peers,
           NEW s \in SequenceNumbers, Receives(w, c, q, s)
    PROVE  AccountsOK' /\ Paired'
<1>1. UNCHANGED <<now, paused, app, clients, frozen, sent>>
  BY Zenon DEF Receives, admin
<1>2. PICK packet : packet = sent[q][s]
  BY Zenon
<1>3. packet \in Packets
  BY <1>2 DEF Receives, IInv, SentOK, Endpoints
<1>4. /\ receipts' \in [Clients -> [SequenceNumbers -> {None} \cup Packets]]
      /\ acks' \in [Clients -> [SequenceNumbers -> {None, AppAck}]]
  <2>1. CASE UNCHANGED <<receipts, acks>>
    BY <2>1, Zenon DEF AccountsOK
  <2>2. CASE receipts' = [receipts EXCEPT ![c][s] = packet] /\ acks' = [acks EXCEPT ![c][s] = AppAck]
    BY <1>3, <2>2 DEF AccountsOK
  <2> QED
    BY <1>2, <2>1, <2>2, Zenon DEF Receives
<1> QED
  BY <1>1, <1>4, Zenon DEF AccountsOK, Paired

\* No other step reaches receipts, acknowledgements or clients.
LEMMA NextAccounts == IInv /\ AccountsOK /\ Paired /\ [Next]_allVars => AccountsOK' /\ Paired'
<1> SUFFICES ASSUME IInv, AccountsOK, Paired, [Next]_allVars PROVE AccountsOK' /\ Paired'
  OBVIOUS
<1>1. ASSUME UNCHANGED <<now, paused, app, clients, frozen, receipts, acks, sent>>
      PROVE  AccountsOK' /\ Paired'
  BY <1>1, Zenon DEF AccountsOK, Paired
<1>2. CASE UNCHANGED allVars
  BY <1>1, <1>2, Zenon DEF allVars, vars, admin, accounts, history
<1>3. ASSUME NEW w \in Workers, NEW kind \in Kinds, NEW e \in Endpoints, NEW s \in SequenceNumbers,
             Relay(w, kind, e, s)
      PROVE  AccountsOK' /\ Paired'
  BY <1>1, <1>3, Zenon DEF Relay, vars, admin, accounts, history
<1>4. ASSUME NEW w \in Workers, NEW kind \in Kinds, NEW e \in Endpoints, NEW s \in SequenceNumbers,
             Final(w, kind, e, s)
      PROVE  AccountsOK' /\ Paired'
  <2>1. CASE recv_packet(Key[w], job[w].msg) /\ kind = "recv"
    <3>1. job[w] # None /\ job[w].kind = "recv"
      BY <1>4, <2>1, Zenon DEF Final
    <3>2. PICK c \in Clients, q \in Peers, t \in SequenceNumbers : Receives(w, c, q, t)
      BY <2>1, <3>1, RecvEffect, Zenon
    <3> QED
      BY <3>2, RecvAccounts, Zenon
  <2>2. CASE ack_packet(Key[w], job[w].msg) \/ timeout_packet(Key[w], job[w].msg)
    BY <1>1, <2>2, Zenon DEF ack_packet, timeout_packet, admin
  <2> QED
    BY <1>4, <2>1, <2>2, Zenon DEF Final
<1>5. ASSUME NEW w \in Workers,
             (\E slot \in Slots : Upload(w, slot)) \/ FinalFails(w) \/ Cleanup(w) \/ Crash(w)
      PROVE  AccountsOK' /\ Paired'
  BY <1>1, <1>5, Zenon DEF Upload, FinalFails, Cleanup, Crash, upload_chunk, cleanup_chunks,
                           vars, admin, accounts, history
<1>6. CASE Administrators
  BY <1>6, AdminAccounts, Zenon
<1>7. CASE Tick
  <2>1. now' \in Timestamps
    BY <1>7, SolanaAssumption DEF Tick, AccountsOK, Timestamps
  <2> QED
    BY <1>7, <2>1, Zenon DEF Tick, AccountsOK, Paired, admin, accounts, history
<1>8. CASE Chains /\ ~Tick
  <2>1. CASE PeerTick
    BY <1>1, <2>1, Zenon DEF PeerTick, PeerOnly, admin, accounts, history
  <2>3. ASSUME NEW s \in SequenceNumbers, NEW c \in Clients, NEW ack \in PeerAcks, PeerRecv(c, s, ack)
        PROVE  AccountsOK' /\ Paired'
    BY <1>1, <2>3, Zenon DEF PeerRecv, PeerOnly, admin, accounts, history
  <2>4. ASSUME NEW s \in SequenceNumbers, NEW p \in Peers, NEW told \in {"confirmed", "timedOut"},
               PeerResolve(p, s, told)
        PROVE  AccountsOK' /\ Paired'
    BY <1>1, <2>4, Zenon DEF PeerResolve, PeerOnly, admin, accounts, history
  <2>2. ASSUME NEW s \in SequenceNumbers, NEW timeout \in Timestamps,
               \/ \E c \in Clients, payload \in LocalPayloads : send_packet(c, s, timeout, payload)
               \/ \E p \in Peers, payload \in PeerPayloads : PeerSend(p, s, timeout, payload)
        PROVE  AccountsOK' /\ Paired'
    BY <2>2, SendAccounts, PeerSendAccounts, Zenon
  <2> QED
    BY <1>8, <2>1, <2>2, <2>3, <2>4, Zenon DEF Chains
<1> QED
  BY <1>2, <1>3, <1>4, <1>5, <1>6, <1>7, <1>8, Zenon DEF Next, Work

\* A commitment is that of the packet sent, and has the type of its fields.
LEMMA AccountTypes == IInv /\ AccountsOK /\ Paired => TypeOK
<1> SUFFICES ASSUME IInv, AccountsOK, Paired PROVE TypeOK
  OBVIOUS
<1>1. peer.time \in Timestamps
  BY DEF IInv, PeerOK, Stores
<1>2. ASSUME NEW c \in Clients, NEW s \in SequenceNumbers
      PROVE  commitments[c][s] \in {None, Zeroed} \cup (Peers \X Timestamps \X LocalPayloads)
  <2>1. CASE commitments[c][s] \notin {None, Zeroed}
    <3>1. commitments[c][s] = packet_commitment_bytes32(sent[c][s]) /\ sent[c][s] # None
      BY <2>1, Zenon DEF IInv, CommitmentsOK
    <3>2. sent[c][s] \in Packets /\ sent[c][s].destClient \in Peers /\ sent[c][s].payload \in LocalPayloads
      <4>1. sent \in [Endpoints -> [SequenceNumbers -> Packets \cup {None}]] /\ c \in Endpoints
        BY Zenon DEF IInv, SentOK, Endpoints
      <4>2. sent[c][s] \in Packets \cup {None}
        BY ONLY s \in SequenceNumbers, <4>1, SMTT(40)
      <4>3. sent[c][s].destClient \in Peers
        BY <3>1, <4>1, Zenon DEF IInv, SentOK
      <4>4. sent[c][s].payload \in LocalPayloads
        BY <3>1, Zenon DEF Paired
      <4> QED
        BY <3>1, <4>2, <4>3, <4>4, Zenon
    <3> QED
      BY <3>1, <3>2 DEF Packets, packet_commitment_bytes32
  <2> QED
    BY <2>1
<1>3. \A c \in Clients, s \in SequenceNumbers :
          /\ clients[c] \in {None} \cup [program : LightClients, counterparty : Peers, active : BOOLEAN]
          /\ receipts[c][s] \in {None} \cup Packets /\ acks[c][s] \in {None, AppAck}
  BY DEF IInv, ClientsOK, AccountsOK
<1> QED
  BY <1>1, <1>2, <1>3, Zenon DEF IInv, ChunksOK, AccountsOK, TypeOK

\* The accounts of the router have their types (state/*.rs): a commitment account
\* holds the commitment of a packet for a counterparty, or has been cleared, and a
\* payload chunk account holds a chunk of a payload or zeros.
THEOREM TypeCorrect == Spec => []TypeOK
<1>1. RelayInit => IInv /\ AccountsOK /\ Paired
  BY InitIInv, InitAccounts
<1>2. IInv /\ AccountsOK /\ Paired /\ [Next]_allVars => (IInv /\ AccountsOK /\ Paired)'
  BY NextIInv, NextAccounts
<1>3. IInv /\ AccountsOK /\ Paired => TypeOK
  BY AccountTypes
<1> QED
  BY <1>1, <1>2, <1>3, PTL DEF Spec

-----------------------------------------------------------------------------
(* What becomes of packets *)

\* Where a packet that was sent goes, and the type of its timeout.
LEMMA SentFacts ==
    ASSUME IInv, Paired
    PROVE  /\ \A c \in Clients, s \in SequenceNumbers : sent[c][s] # None =>
                 /\ sent[c][s].destClient \in Peers /\ PeerClient[sent[c][s].destClient] = c
                 /\ sent[c][s].timeout \in Timestamps
           /\ \A p \in Peers, s \in SequenceNumbers : sent[p][s] # None =>
                 /\ sent[p][s].destClient = PeerClient[p] /\ sent[p][s].timeout \in Timestamps
<1>1. \A e \in Endpoints, s \in SequenceNumbers : sent[e][s] # None => sent[e][s].timeout \in Timestamps
  BY DEF IInv, SentOK, Packets
<1> QED
  BY <1>1, Zenon DEF IInv, SentOK, Paired, Endpoints

\* What has timed out stays so.
LEMMA ClockLater ==
    ASSUME NEW x \in Timestamps, NEW y \in Timestamps, x <= y, NEW t \in Timestamps, x >= t
    PROVE  y >= t
BY SolanaAssumption DEF Timestamps

\* A packet that has not timed out.
LEMMA ClockBefore ==
    ASSUME NEW x \in Timestamps, NEW t \in Timestamps, t > x
    PROVE  ~(x >= t)
BY SolanaAssumption DEF Timestamps

\* A sequence without an index is empty.
LEMMA EmptyDomain ==
    ASSUME NEW S, NEW x \in Seq(S), DOMAIN x = {}
    PROVE  x = <<>>
<1>1. Len(x) \in Nat /\ DOMAIN x = 1..Len(x)
  OBVIOUS
<1>2. Len(x) = 0
  BY <1>1
<1> QED
  BY <1>2

\* A sender that was told nothing had no callback.
LEMMA NoNotice ==
    ASSUME NEW e, NEW s, outcome[e][s] \in Seq(Told \X Packets), Notices(e, s) = <<>>
    PROVE  outcome[e][s] = <<>>
<1>1. DOMAIN Notices(e, s) = DOMAIN outcome[e][s]
  BY Zenon DEF Notices
<1>2. DOMAIN outcome[e][s] = {}
  BY <1>1
<1> QED
  BY <1>2, EmptyDomain, Zenon

\* What a sender was told is read off its callbacks.
LEMMA NoticesFrame ==
    ASSUME NEW e, NEW s, outcome'[e][s] = outcome[e][s]
    PROVE  Notices(e, s)' = Notices(e, s)
BY Zenon DEF Notices

\* The first callback about a packet is all its sender is told; others are not.
LEMMA FirstNotice ==
    ASSUME IInv, NEW e \in Endpoints, NEW s \in SequenceNumbers, NEW told, NEW packet, Notices(e, s) = <<>>,
           outcome' = [outcome EXCEPT ![e][s] = Append(@, <<told, packet>>)]
    PROVE  /\ Notices(e, s)' = <<told>>
           /\ \A f \in Endpoints, t \in SequenceNumbers : ~(f = e /\ t = s) => Notices(f, t)' = Notices(f, t)
<1>1. outcome \in [Endpoints -> [SequenceNumbers -> Seq(Told \X Packets)]]
  BY Zenon DEF IInv, HistoryOK
<1>2. outcome[e][s] = <<>>
  BY <1>1, NoNotice
<1>3. outcome'[e][s] = << <<told, packet>> >>
  BY <1>1, <1>2
<1>4. DOMAIN outcome'[e][s] = 1..1 /\ \A i \in 1..1 : outcome'[e][s][i][1] = told
  BY <1>3
<1>5. Notices(e, s)' = [i \in 1..1 |-> told]
  BY <1>4, Zenon DEF Notices
<1>6. [i \in 1..1 |-> told] = <<told>>
  OBVIOUS
<1>7. \A f \in Endpoints, t \in SequenceNumbers : ~(f = e /\ t = s) => outcome'[f][t] = outcome[f][t]
  BY <1>1
<1>8. \A f \in Endpoints, t \in SequenceNumbers : ~(f = e /\ t = s) => Notices(f, t)' = Notices(f, t)
  BY <1>7, NoticesFrame, Zenon
<1> QED
  BY <1>5, <1>6, <1>8, Zenon

\* What is said of a packet stays so while its own accounts stay as they are.
LEMMA PeerReceivedFrame ==
    ASSUME NEW p, NEW s, PeerReceived(p, s), peer'.receipt[p][s] = peer.receipt[p][s],
           peer'.ack[p][s] = peer.ack[p][s], sent'[PeerClient[p]][s] = sent[PeerClient[p]][s]
    PROVE  PeerReceived(p, s)'
BY Zenon DEF PeerReceived

\* Received(p, s) looks at the accounts and callbacks of that packet only.
LEMMA ReceivedFrame ==
    ASSUME NEW p, NEW s, Received(p, s), receipts'[PeerClient[p]][s] = receipts[PeerClient[p]][s],
           acks'[PeerClient[p]][s] = acks[PeerClient[p]][s], sent'[p][s] = sent[p][s] \/ sent[p][s] = None,
           delivered'[PeerClient[p]][s] = delivered[PeerClient[p]][s]
    PROVE  Received(p, s)'
<1>1. CASE receipts[PeerClient[p]][s] = None
  BY <1>1, Zenon DEF Received
<1>2. CASE receipts[PeerClient[p]][s] # None
  BY <1>2, ZenonT(40) DEF Received
<1> QED
  BY <1>1, <1>2

\* Informed(c, s) looks at that packet, on both chains, only.
LEMMA InformedFrame ==
    ASSUME NEW c, NEW s, Informed(c, s), sent'[c][s] = sent[c][s],
           commitments'[c][s] = commitments[c][s], Notices(c, s)' = Notices(c, s),
           peer'.receipt[sent[c][s].destClient][s] = peer.receipt[sent[c][s].destClient][s],
           peer'.ack[sent[c][s].destClient][s] = peer.ack[sent[c][s].destClient][s],
           peer.time >= sent[c][s].timeout => peer'.time >= sent[c][s].timeout
    PROVE  Informed(c, s)'
<1>1. CASE commitments[c][s] # Zeroed
  BY <1>1, Zenon DEF Informed
<1>2. CASE commitments[c][s] = Zeroed
  BY <1>2, ZenonT(40) DEF Informed
<1> QED
  BY <1>1, <1>2

\* PeerInformed(p, s) looks at that packet, on both chains, only.
LEMMA PeerInformedFrame ==
    ASSUME NEW p, NEW s, PeerInformed(p, s), sent'[p][s] = sent[p][s],
           peer'.commitment[p][s] = peer.commitment[p][s], Notices(p, s)' = Notices(p, s),
           receipts'[PeerClient[p]][s] = receipts[PeerClient[p]][s],
           now >= sent[p][s].timeout => now' >= sent[p][s].timeout
    PROVE  PeerInformed(p, s)'
<1>1. CASE sent[p][s] = None \/ peer.commitment[p][s] # None
  BY <1>1, Zenon DEF PeerInformed
<1>2. CASE ~(sent[p][s] = None \/ peer.commitment[p][s] # None)
  BY <1>2, Zenon DEF PeerInformed
<1> QED
  BY <1>1, <1>2

\* What was executed of a packet, on either side.
LEMMA ClientRunsFrame ==
    ASSUME NEW c \in Clients, NEW s, sent'[c][s] = sent[c][s],
           peer'.receipt[sent[c][s].destClient][s] = peer.receipt[sent[c][s].destClient][s],
           peer'.ack[sent[c][s].destClient][s] = peer.ack[sent[c][s].destClient][s]
    PROVE  Executions(c, s)' = Executions(c, s)
BY Zenon DEF Executions

\* The executions of a packet of the other chain are its callbacks on Solana.
LEMMA PeerRunsFrame ==
    ASSUME NEW p \in Peers, NEW s, delivered'[PeerClient[p]][s] = delivered[PeerClient[p]][s]
    PROVE  Executions(p, s)' = Executions(p, s)
<1>1. p \notin Clients
  BY SolanaAssumption
<1> QED
  BY <1>1, Zenon DEF Executions

\* What a phase depends on.
LEMMA PhaseFrame ==
    ASSUME NEW e, NEW s, sent'[e][s] = sent[e][s], Notices(e, s)' = Notices(e, s),
           Executions(e, s)' = Executions(e, s)
    PROVE  Phase(e, s)' = Phase(e, s)
BY Zenon DEF Phase

\* What is known of an old block depends on the other chain alone.
LEMMA PastFrame ==
    ASSUME NEW b, PastOf(b), sent' = sent, peer'.time = peer.time,
           peer'.receipt = peer.receipt, peer'.ack = peer.ack
    PROVE  PastOf(b)'
<1>1. ASSUME NEW c \in Clients, NEW s \in SequenceNumbers, sent'[c][s] # None,
             b.time >= sent'[c][s].timeout, b.receipt[sent'[c][s].destClient][s] = None
      PROVE  peer'.receipt[sent'[c][s].destClient][s] = None
  <2>1. peer.receipt[sent[c][s].destClient][s] = None
    BY <1>1, Zenon DEF PastOf
  <2> QED
    BY <2>1, Zenon
<1>2. b.time \in Timestamps /\ b.time <= peer'.time
  BY Zenon DEF PastOf
<1>3. \A p \in Peers, s \in SequenceNumbers : b.ack[p][s] # None => peer'.ack[p][s] = b.ack[p][s]
  BY Zenon DEF PastOf
<1> QED
  BY <1>1, <1>2, <1>3, Zenon DEF PastOf

\* Clocks that advance, and steps of workers that reach no account of a packet.
Calm ==
    /\ UNCHANGED <<commitments, receipts, acks, sent, delivered, outcome>>
    /\ peer'.commitment = peer.commitment /\ peer'.receipt = peer.receipt /\ peer'.ack = peer.ack
    /\ peer.time <= peer'.time /\ now <= now'

\* A step that is calm leaves true what is said of every packet.
LEMMA CalmStory ==
    ASSUME IInv, IInv', AccountsOK, AccountsOK', Paired, Story, Calm
    PROVE  Story'
<1>1. peer.time \in Timestamps /\ peer'.time \in Timestamps /\ now \in Timestamps /\ now' \in Timestamps
  BY DEF IInv, PeerOK, Stores, AccountsOK
<1>2. \A t \in Timestamps : (peer.time >= t => peer'.time >= t) /\ (now >= t => now' >= t)
  BY <1>1, ClockLater, Zenon DEF Calm
<1>3. \A e, s : Notices(e, s)' = Notices(e, s)
  BY Zenon DEF Calm, Notices
<1>4. ASSUME NEW p \in Peers, NEW s \in SequenceNumbers
      PROVE  (PeerReceived(p, s) /\ Received(p, s) /\ PeerInformed(p, s))'
  <2>1. PeerReceived(p, s) /\ Received(p, s) /\ PeerInformed(p, s)
    BY Zenon DEF Story
  <2>2. PeerReceived(p, s)' /\ Received(p, s)'
    BY <2>1, PeerReceivedFrame, ReceivedFrame, Zenon DEF Calm
  <2>3. sent[p][s] # None => (now >= sent[p][s].timeout => now' >= sent[p][s].timeout)
    BY <1>2, SentFacts, Zenon
  <2>4. PeerInformed(p, s)'
    <3>1. CASE sent[p][s] = None
      BY <1>3, <2>1, <3>1, Zenon DEF Calm, PeerInformed
    <3>2. CASE sent[p][s] # None
      BY <1>3, <2>1, <2>3, <3>2, PeerInformedFrame, Zenon DEF Calm
    <3> QED
      BY <3>1, <3>2
  <2> QED
    BY <2>2, <2>4
<1>5. ASSUME NEW c \in Clients, NEW s \in SequenceNumbers
      PROVE  Informed(c, s)'
  <2>1. Informed(c, s)
    BY Zenon DEF Story
  <2>2. CASE commitments[c][s] # Zeroed
    BY <1>3, <2>1, <2>2, Zenon DEF Calm, Informed
  <2>3. CASE commitments[c][s] = Zeroed
    <3>1. sent[c][s] # None
      BY <2>3, SolanaAssumption, Zenon DEF IInv, CommitmentsOK
    <3>2. peer.time >= sent[c][s].timeout => peer'.time >= sent[c][s].timeout
      BY <1>2, <3>1, SentFacts, Zenon
    <3> QED
      BY <1>3, <2>1, <3>2, InformedFrame, Zenon DEF Calm
  <2> QED
    BY <2>2, <2>3
<1> QED
  BY <1>4, <1>5, Zenon DEF Story

\* A block of the past stays one.
LEMMA CalmPast ==
    ASSUME IInv, IInv', Calm, NEW b, PastOf(b)
    PROVE  PastOf(b)'
<1>1. b.time \in Timestamps /\ peer.time \in Timestamps /\ peer'.time \in Timestamps
      /\ b.time <= peer.time /\ peer.time <= peer'.time
  <2>1. peer \in Stores /\ peer' \in Stores
    BY Zenon DEF IInv, PeerOK
  <2>2. peer.time \in Timestamps /\ peer'.time \in Timestamps
    BY <2>1, Zenon DEF Stores
  <2> QED
    BY <2>2, Zenon DEF PastOf, Calm
<1>2. b.time <= peer'.time
  BY <1>1, Times, Zenon
<1> QED
  BY <1>1, <1>2, ZenonT(40) DEF PastOf, Calm

\* No packet moves in a calm step.
LEMMA CalmPhases ==
    ASSUME Calm
    PROVE  UNCHANGED phases
<1>1. ASSUME NEW e \in Endpoints, NEW s \in SequenceNumbers
      PROVE  Phase(e, s)' = Phase(e, s)
  <2>1. Notices(e, s)' = Notices(e, s)
    BY Zenon DEF Calm, Notices
  <2>2. Executions(e, s)' = Executions(e, s)
    BY Zenon DEF Calm, Executions
  <2> QED
    BY <2>1, <2>2, PhaseFrame, Zenon DEF Calm
<1> QED
  BY <1>1, Zenon DEF phases

\* The phases a packet can be in.
LEMMA PhaseTable ==
    ASSUME NEW packet, packet # None
    PROVE  /\ PhaseOf(packet, <<>>, <<>>) = "sent"
           /\ PhaseOf(packet, <<"executed">>, <<>>) = "executed"
           /\ PhaseOf(packet, <<"rejected">>, <<>>) = "rejected"
           /\ PhaseOf(packet, <<"executed">>, <<"confirmed">>) = "confirmed"
           /\ PhaseOf(packet, <<"rejected">>, <<"refused">>) = "refused"
           /\ PhaseOf(packet, <<>>, <<"timedOut">>) = "timedOut"
BY DEF PhaseOf

\* One packet moves on, the others stay where they are.
Moves(e, s, from, to) ==
    /\ Phase(e, s) = from /\ Phase(e, s)' = to
    /\ \A f \in Endpoints, t \in SequenceNumbers : ~(f = e /\ t = s) => Phase(f, t)' = Phase(f, t)

\* A move is an Advance of the life cycle.
LEMMA AdvanceAt ==
    ASSUME NEW e \in Endpoints, NEW s \in SequenceNumbers, NEW from, NEW to, Moves(e, s, from, to)
    PROVE  Lifecycle!Advance(e, s, from, to)
<1>1. phases[e][s] = from
  BY Zenon DEF Moves, phases
<1>2. phases' = [f \in Endpoints |-> [t \in SequenceNumbers |->
                    IF f = e /\ t = s THEN to ELSE Phase(f, t)]]
  BY DEF Moves, phases
<1>3. phases' = [phases EXCEPT ![e][s] = to]
  BY Zenon, <1>2 DEF phases
<1> QED
  BY <1>1, <1>3, Zenon DEF Lifecycle!Advance

\* How often a packet of the counterparty chain was executed.
LEMMA RunsNone == [i \in DOMAIN <<>> |-> "executed"] = <<>>
OBVIOUS

\* One callback is one execution.
LEMMA RunsOnce ==
    ASSUME NEW x \in Seq(Packets), Len(x) = 1
    PROVE  [i \in DOMAIN x |-> "executed"] = <<"executed">>
<1>1. DOMAIN x = 1..1
  OBVIOUS
<1>2. [i \in 1..1 |-> "executed"] = <<"executed">>
  OBVIOUS
<1> QED
  BY <1>1, <1>2, Zenon

SendEffect(c, s) ==
    /\ UNCHANGED <<receipts, acks, peer, delivered, outcome, now>>
    /\ sent[c][s] = None /\ commitments[c][s] = None /\ commitments'[c][s] # Zeroed
    /\ sent'[c][s] # None /\ sent'[c][s].destClient \in Peers
    /\ PeerClient[sent'[c][s].destClient] = c
    /\ \A e \in Endpoints, t \in SequenceNumbers : ~(e = c /\ t = s) => sent'[e][t] = sent[e][t]
    /\ \A d \in Clients, t \in SequenceNumbers :
          ~(d = c /\ t = s) => commitments'[d][t] = commitments[d][t]

\* send_packet: nothing is known of the packet on the counterparty chain.
LEMMA SendFacts ==
    ASSUME IInv, Paired, NEW c \in Clients, NEW s \in SequenceNumbers,
           NEW timeout \in Timestamps, NEW payload \in LocalPayloads, send_packet(c, s, timeout, payload)
    PROVE  SendEffect(c, s)
<1> DEFINE packet == [sequence |-> s, sourceClient |-> c, destClient |-> clients[c].counterparty,
                      timeout |-> timeout, payload |-> payload]
           value == packet_commitment_bytes32(packet)
<1>1. /\ sent' = [sent EXCEPT ![c][s] = packet] /\ clients[c] # None
      /\ commitments[c][s] = None /\ commitments' = [commitments EXCEPT ![c][s] = value]
      /\ UNCHANGED <<receipts, acks, peer, delivered, outcome, now>>
  BY Zenon DEF send_packet, Usable, Sendable
<1>2. clients[c].counterparty \in Peers /\ PeerClient[clients[c].counterparty] = c
  BY <1>1, Zenon DEF IInv, ClientsOK, Paired
<1>3. packet \in Packets /\ packet.destClient = clients[c].counterparty /\ packet.payload \in Seq(ChunkData)
  BY <1>2, SolanaAssumption DEF Packets, Endpoints
<1>4. value \in Commitments
  BY <1>3 DEF packet_commitment_bytes32, Commitments, Packets
<1>5. value # Zeroed /\ packet # None
  BY <1>3, <1>4, SolanaAssumption, Zenon DEF Commitments, Packets
<1> HIDE DEF value, packet
<1>6. /\ commitments'[c][s] = value
      /\ \A d \in Clients, t \in SequenceNumbers :
            ~(d = c /\ t = s) => commitments'[d][t] = commitments[d][t]
  <2>1. /\ commitments \in [Clients -> [SequenceNumbers -> Commitments \cup {None, Zeroed}]]
        /\ commitments' = [commitments EXCEPT ![c][s] = value]
    BY <1>1, Zenon DEF IInv, CommitmentsOK
  <2> QED
    BY ONLY c \in Clients, s \in SequenceNumbers, <2>1, SMTT(40)
<1>7. /\ sent'[c][s] = packet
      /\ \A e \in Endpoints, t \in SequenceNumbers : ~(e = c /\ t = s) => sent'[e][t] = sent[e][t]
  <2>1. /\ sent \in [Endpoints -> [SequenceNumbers -> Packets \cup {None}]] /\ c \in Endpoints
        /\ sent' = [sent EXCEPT ![c][s] = packet]
    BY <1>1, Zenon DEF IInv, SentOK, Endpoints
  <2> QED
    BY ONLY s \in SequenceNumbers, <2>1, SMTT(40)
<1>8. sent[c][s] = None
  BY <1>1, Zenon DEF IInv, CommitmentsOK
<1> QED
  BY <1>1, <1>2, <1>3, <1>5, <1>6, <1>7, <1>8, Zenon DEF SendEffect

\* send_packet starts the life of a packet.
LEMMA SendLife ==
    ASSUME IInv, Paired, Story, NEW c \in Clients, NEW s \in SequenceNumbers,
           NEW timeout \in Timestamps, NEW payload \in LocalPayloads, send_packet(c, s, timeout, payload)
    PROVE  Story' /\ LifecycleNext /\ \A b : PastOf(b) => PastOf(b)'
<1>1. /\ UNCHANGED <<receipts, acks, peer, delivered, outcome, now>>
      /\ sent[c][s] = None /\ commitments[c][s] = None /\ commitments'[c][s] # Zeroed
      /\ sent'[c][s] # None /\ sent'[c][s].destClient \in Peers
      /\ PeerClient[sent'[c][s].destClient] = c
      /\ \A e \in Endpoints, t \in SequenceNumbers : ~(e = c /\ t = s) => sent'[e][t] = sent[e][t]
      /\ \A d \in Clients, t \in SequenceNumbers :
            ~(d = c /\ t = s) => commitments'[d][t] = commitments[d][t]
  <2>1. SendEffect(c, s)
    BY SendFacts, Zenon
  <2> QED
    BY <2>1, Zenon DEF SendEffect
<1>2. \A p \in Peers : p # c /\ p \in Endpoints /\ PeerClient[p] \in Clients /\ PeerClient[p] \in Endpoints
  BY SolanaAssumption DEF Endpoints
<1>3. ASSUME NEW p \in Peers, PeerClient[p] = c PROVE peer.receipt[p][s] = None
  <2>1. PeerReceived(p, s) /\ sent[PeerClient[p]][s] = None
    BY <1>1, <1>3, Zenon DEF Story
  <2> QED
    BY <2>1, Zenon DEF PeerReceived
<1>4. \A e, t : Notices(e, t)' = Notices(e, t)
  BY <1>1, NoticesFrame, Zenon
<1>0. UNCHANGED <<receipts, acks, peer, delivered, now>>
  BY <1>1, Zenon
<1>5. ASSUME NEW p \in Peers, NEW t \in SequenceNumbers
      PROVE  (PeerReceived(p, t) /\ Received(p, t) /\ PeerInformed(p, t))'
  <2>1. PeerReceived(p, t) /\ Received(p, t) /\ PeerInformed(p, t)
    BY Zenon DEF Story
  <2>2. sent'[p][t] = sent[p][t]
    BY <1>1, <1>2, Zenon
  <2>3. Received(p, t)'
    BY <1>0, <2>1, <2>2, ReceivedFrame, Zenon
  <2>4. PeerInformed(p, t)'
    BY <1>0, <1>4, <2>1, <2>2, PeerInformedFrame, Zenon
  <2>5. PeerReceived(p, t)'
    <3>1. CASE PeerClient[p] = c /\ t = s
      BY <1>0, <1>3, <2>1, <3>1, Zenon DEF PeerReceived
    <3>2. CASE ~(PeerClient[p] = c /\ t = s)
      <4>1. sent'[PeerClient[p]][t] = sent[PeerClient[p]][t]
        BY <1>1, <1>2, <3>2, Zenon
      <4> QED
        BY <1>0, <2>1, <4>1, PeerReceivedFrame, Zenon
    <3> QED
      BY <3>1, <3>2
  <2> QED
    BY <2>3, <2>4, <2>5
<1>6. Notices(c, s) = <<>>
  <2>1. commitments[c][s] # Zeroed /\ Informed(c, s)
    BY <1>1, SolanaAssumption, Zenon DEF Story
  <2> QED
    BY <2>1, Zenon DEF Informed
<1>7. ASSUME NEW d \in Clients, NEW t \in SequenceNumbers
      PROVE  Informed(d, t)'
  <2>1. CASE d = c /\ t = s
    <3>1. commitments'[c][s] # Zeroed /\ Notices(c, s)' = <<>>
      BY <1>1, <1>4, <1>6, Zenon
    <3> QED
      BY <2>1, <3>1, Zenon DEF Informed
  <2>2. CASE ~(d = c /\ t = s)
    <3>1. sent'[d][t] = sent[d][t] /\ commitments'[d][t] = commitments[d][t] /\ Informed(d, t)
      BY <1>1, <2>2, Zenon DEF Endpoints, Story
    <3> QED
      BY <1>0, <1>4, <3>1, InformedFrame, Zenon
  <2> QED
    BY <2>1, <2>2
<1>8. Story'
  BY <1>5, <1>7, Zenon DEF Story
<1>9. ASSUME NEW b, PastOf(b) PROVE PastOf(b)'
  <2>1. ASSUME NEW d \in Clients, NEW t \in SequenceNumbers,
               b.time >= sent'[d][t].timeout, b.receipt[sent'[d][t].destClient][t] = None,
               sent'[d][t] # None
        PROVE  peer'.receipt[sent'[d][t].destClient][t] = None
    <3>1. CASE d = c /\ t = s
      BY <1>1, <1>3, <3>1, Zenon
    <3>2. CASE ~(d = c /\ t = s)
      <4>1. sent'[d][t] = sent[d][t]
        BY <1>1, <3>2, Zenon DEF Endpoints
      <4>2. peer.receipt[sent[d][t].destClient][t] = None
        BY <1>9, <2>1, <4>1, Zenon DEF PastOf
      <4> QED
        BY <1>0, <4>1, <4>2, Zenon
    <3> QED
      BY <3>1, <3>2
  <2> QED
    BY <1>0, <1>9, <2>1, Zenon DEF PastOf
<1>10. Moves(c, s, "unsent", "sent")
  <2>1. Phase(c, s) = "unsent"
    BY <1>1, Zenon DEF Phase, PhaseOf
  <2>2. Executions(c, s)' = <<>>
    BY <1>1, <1>3, Zenon DEF Executions
  <2>3. PICK x : x = sent'[c][s]
    BY Zenon
  <2>4. Phase(c, s)' = PhaseOf(x, <<>>, <<>>) /\ x # None
    BY <1>1, <1>4, <1>6, <2>2, <2>3, Zenon DEF Phase
  <2>5. Phase(c, s)' = "sent"
    BY <2>4, PhaseTable, Zenon
  <2>6. ASSUME NEW f \in Endpoints, NEW t \in SequenceNumbers, ~(f = c /\ t = s)
        PROVE  Phase(f, t)' = Phase(f, t)
    <3>1. sent'[f][t] = sent[f][t]
      BY <1>1, <2>6, Zenon
    <3>2. Executions(f, t)' = Executions(f, t)
      BY <1>0, <3>1, ClientRunsFrame, PeerRunsFrame, Zenon DEF Endpoints
    <3> QED
      BY <1>4, <3>1, <3>2, PhaseFrame, Zenon
  <2> QED
    BY <2>1, <2>5, <2>6, Zenon DEF Moves
<1>11. LifecycleNext
  BY <1>10, AdvanceAt, Zenon DEF LifecycleNext, Endpoints
<1> QED
  BY <1>8, <1>9, <1>11, Zenon

PeerSendEffect(q, s) ==
    /\ UNCHANGED <<commitments, receipts, acks, delivered, outcome, now>>
    /\ peer'.time = peer.time /\ peer'.receipt = peer.receipt /\ peer'.ack = peer.ack
    /\ sent[q][s] = None /\ sent'[q][s] # None /\ peer'.commitment[q][s] # None
    /\ \A e \in Endpoints, t \in SequenceNumbers : ~(e = q /\ t = s) => sent'[e][t] = sent[e][t]
    /\ \A p \in Peers, t \in SequenceNumbers :
          ~(p = q /\ t = s) => peer'.commitment[p][t] = peer.commitment[p][t]

\* The counterparty chain sends under the next sequence number.
LEMMA PeerSendFacts ==
    ASSUME IInv, NEW q \in Peers, NEW s \in SequenceNumbers,
           NEW timeout \in Timestamps, NEW payload \in PeerPayloads, PeerSend(q, s, timeout, payload)
    PROVE  PeerSendEffect(q, s)
<1> DEFINE packet == [sequence |-> s, sourceClient |-> q, destClient |-> PeerClient[q],
                      timeout |-> timeout, payload |-> payload]
           value == packet_commitment_bytes32(packet)
<1>1. /\ sent' = [sent EXCEPT ![q][s] = packet] /\ sent[q][s] = None
      /\ peer' = [peer EXCEPT !.commitment[q][s] = value]
      /\ UNCHANGED <<commitments, receipts, acks, delivered, outcome, now>>
  BY Zenon DEF PeerSend, PeerOnly, accounts
<1>2. packet \in Packets /\ packet.payload \in Seq(ChunkData)
  <2>1. PeerClient[q] \in Endpoints /\ q \in Endpoints /\ payload \in Seq(ChunkData)
    BY SolanaAssumption, Zenon DEF Endpoints
  <2> QED
    BY ONLY s \in SequenceNumbers, timeout \in Timestamps, payload \in PeerPayloads, <2>1, SMTT(40)
       DEF Packets
<1>3. value \in Commitments
  BY <1>2 DEF packet_commitment_bytes32, Commitments, Packets
<1>4. value # None /\ packet # None
  BY <1>2, <1>3, SolanaAssumption, Zenon DEF Commitments, Packets
<1> HIDE DEF value, packet
<1>5. /\ peer'.time = peer.time /\ peer'.receipt = peer.receipt /\ peer'.ack = peer.ack
      /\ peer'.commitment[q][s] = value
      /\ \A p \in Peers, t \in SequenceNumbers :
            ~(p = q /\ t = s) => peer'.commitment[p][t] = peer.commitment[p][t]
  BY <1>1 DEF IInv, PeerOK, Stores
<1>6. /\ sent'[q][s] = packet
      /\ \A e \in Endpoints, t \in SequenceNumbers : ~(e = q /\ t = s) => sent'[e][t] = sent[e][t]
  <2>1. /\ sent \in [Endpoints -> [SequenceNumbers -> Packets \cup {None}]] /\ q \in Endpoints
        /\ sent' = [sent EXCEPT ![q][s] = packet]
    BY <1>1, Zenon DEF IInv, SentOK, Endpoints
  <2> QED
    BY ONLY s \in SequenceNumbers, <2>1, SMTT(40)
<1> QED
  BY <1>1, <1>4, <1>5, <1>6, Zenon DEF PeerSendEffect

\* It starts the life of that packet, of which Solana knows nothing yet.
LEMMA PeerSendLife ==
    ASSUME IInv, Paired, Story, NEW q \in Peers, NEW s \in SequenceNumbers,
           NEW timeout \in Timestamps, NEW payload \in PeerPayloads, PeerSend(q, s, timeout, payload)
    PROVE  Story' /\ LifecycleNext /\ \A b : PastOf(b) => PastOf(b)'
<1>1. /\ UNCHANGED <<commitments, receipts, acks, delivered, outcome, now>>
      /\ peer'.time = peer.time /\ peer'.receipt = peer.receipt /\ peer'.ack = peer.ack
      /\ sent[q][s] = None /\ sent'[q][s] # None /\ peer'.commitment[q][s] # None
      /\ \A e \in Endpoints, t \in SequenceNumbers : ~(e = q /\ t = s) => sent'[e][t] = sent[e][t]
      /\ \A p \in Peers, t \in SequenceNumbers :
            ~(p = q /\ t = s) => peer'.commitment[p][t] = peer.commitment[p][t]
  <2>1. PeerSendEffect(q, s)
    BY PeerSendFacts, Zenon
  <2> QED
    BY <2>1, Zenon DEF PeerSendEffect
<1>0. /\ UNCHANGED <<commitments, receipts, acks, delivered, now>>
      /\ peer'.time = peer.time /\ peer'.receipt = peer.receipt /\ peer'.ack = peer.ack
  BY <1>1, Zenon
<1>2. q \notin Clients /\ \A p \in Peers : PeerClient[p] \in Clients
  BY SolanaAssumption
<1>3. \A e, t : Notices(e, t)' = Notices(e, t)
  BY <1>1, NoticesFrame, ZenonT(40)
<1>4. \A c \in Clients, t \in SequenceNumbers : sent'[c][t] = sent[c][t]
  BY <1>1, <1>2, Zenon DEF Endpoints
<1>5. Notices(q, s) = <<>> /\ delivered[PeerClient[q]][s] = <<>>
  <2>1. PeerInformed(q, s) /\ Received(q, s)
    BY Zenon DEF Story
  <2>2. Notices(q, s) = <<>>
    BY <1>1, <2>1, Zenon DEF PeerInformed
  <2>3. delivered[PeerClient[q]][s] = <<>>
    BY <1>1, <2>1, Zenon DEF Received
  <2> QED
    BY <2>2, <2>3
<1>6. ASSUME NEW p \in Peers, NEW t \in SequenceNumbers
      PROVE  (PeerReceived(p, t) /\ Received(p, t) /\ PeerInformed(p, t))'
  <2>1. PeerReceived(p, t) /\ Received(p, t) /\ PeerInformed(p, t)
    BY Zenon DEF Story
  <2>2. PeerReceived(p, t)'
    BY <1>0, <1>2, <1>4, <2>1, PeerReceivedFrame, Zenon
  <2>3. Received(p, t)'
    <3>1. sent'[p][t] = sent[p][t] \/ sent[p][t] = None
      BY <1>1, Zenon DEF Endpoints
    <3> QED
      BY <1>0, <2>1, <3>1, ReceivedFrame, Zenon
  <2>4. PeerInformed(p, t)'
    <3>1. CASE p = q /\ t = s
      <4>1. peer'.commitment[q][s] # None /\ Notices(q, s)' = <<>>
        BY <1>1, <1>3, <1>5, Zenon
      <4> QED
        BY <3>1, <4>1, Zenon DEF PeerInformed
    <3>2. CASE ~(p = q /\ t = s)
      <4>1. sent'[p][t] = sent[p][t] /\ peer'.commitment[p][t] = peer.commitment[p][t]
        BY <1>1, <3>2, Zenon DEF Endpoints
      <4> QED
        BY <1>0, <1>3, <2>1, <4>1, PeerInformedFrame, Zenon
    <3> QED
      BY <3>1, <3>2
  <2> QED
    BY <2>2, <2>3, <2>4
<1>7. ASSUME NEW c \in Clients, NEW t \in SequenceNumbers
      PROVE  Informed(c, t)'
  <2>1. Informed(c, t)
    BY Zenon DEF Story
  <2> QED
    BY <1>0, <1>3, <1>4, <2>1, InformedFrame, Zenon
<1>8. Story'
  BY <1>6, <1>7, Zenon DEF Story
<1>9. ASSUME NEW b, PastOf(b) PROVE PastOf(b)'
  <2>1. ASSUME NEW c \in Clients, NEW t \in SequenceNumbers, sent'[c][t] # None,
               b.time >= sent'[c][t].timeout, b.receipt[sent'[c][t].destClient][t] = None
        PROVE  peer'.receipt[sent'[c][t].destClient][t] = None
    <3>1. sent'[c][t] = sent[c][t]
      BY <1>4
    <3>2. peer.receipt[sent[c][t].destClient][t] = None
      BY <1>9, <2>1, <3>1, Zenon DEF PastOf
    <3> QED
      BY <1>0, <3>1, <3>2, Zenon
  <2> QED
    BY <1>0, <1>9, <2>1, ZenonT(40) DEF PastOf
<1>10. Moves(q, s, "unsent", "sent")
  <2>1. Phase(q, s) = "unsent"
    BY <1>1, Zenon DEF Phase, PhaseOf
  <2>2. Executions(q, s)' = <<>>
    BY <1>0, <1>2, <1>5, RunsNone, Zenon DEF Executions
  <2>3. PICK x : x = sent'[q][s]
    BY Zenon
  <2>4. Phase(q, s)' = PhaseOf(x, <<>>, <<>>) /\ x # None
    BY <1>1, <1>3, <1>5, <2>2, <2>3, ZenonT(40) DEF Phase
  <2>5. Phase(q, s)' = "sent"
    BY <2>4, PhaseTable, Zenon
  <2>6. ASSUME NEW f \in Endpoints, NEW t \in SequenceNumbers, ~(f = q /\ t = s)
        PROVE  Phase(f, t)' = Phase(f, t)
    <3>1. sent'[f][t] = sent[f][t]
      BY <1>1, <2>6, Zenon
    <3>2. Executions(f, t)' = Executions(f, t)
      BY <1>0, <3>1, ClientRunsFrame, PeerRunsFrame, Zenon DEF Endpoints
    <3> QED
      BY <1>3, <3>1, <3>2, PhaseFrame, Zenon
  <2> QED
    BY <2>1, <2>5, <2>6, Zenon DEF Moves
<1>11. LifecycleNext
  BY <1>10, AdvanceAt, Zenon DEF LifecycleNext, Endpoints
<1> QED
  BY <1>8, <1>9, <1>11, Zenon

PeerRecvEffect(c, s, p, ack) ==
    /\ UNCHANGED <<commitments, receipts, acks, sent, delivered, outcome, now>>
    /\ peer'.time = peer.time /\ peer'.commitment = peer.commitment
    /\ sent[c][s] # None /\ sent[c][s].timeout > peer.time /\ peer.receipt[p][s] = None
    /\ p \in Peers /\ PeerClient[p] = c
    /\ peer'.receipt[p][s] = sent[c][s] /\ peer'.ack[p][s] = ack
    /\ \A q \in Peers, t \in SequenceNumbers : ~(q = p /\ t = s) =>
          peer'.receipt[q][t] = peer.receipt[q][t] /\ peer'.ack[q][t] = peer.ack[q][t]

\* The counterparty chain receives a packet that has not timed out there.
LEMMA PeerRecvFacts ==
    ASSUME IInv, NEW c \in Clients, NEW s \in SequenceNumbers, NEW ack \in PeerAcks, PeerRecv(c, s, ack),
           NEW p, p = sent[c][s].destClient
    PROVE  PeerRecvEffect(c, s, p, ack)
<1>1. PICK packet : packet = sent[c][s]
  BY Zenon
<1>2. /\ peer' = [peer EXCEPT !.receipt[p][s] = packet, !.ack[p][s] = ack]
      /\ sent[c][s] # None /\ sent[c][s].timeout > peer.time /\ peer.receipt[p][s] = None /\ PeerClient[p] = c
      /\ UNCHANGED <<commitments, receipts, acks, sent, delivered, outcome, now>>
  BY <1>1, Zenon DEF PeerRecv, PeerOnly, accounts, history
<1>3. p \in Peers
  BY <1>2, Zenon DEF IInv, SentOK, Endpoints
<1>4. /\ peer'.time = peer.time /\ peer'.commitment = peer.commitment
      /\ peer'.receipt[p][s] = packet /\ peer'.ack[p][s] = ack
      /\ \A q \in Peers, t \in SequenceNumbers : ~(q = p /\ t = s) =>
            peer'.receipt[q][t] = peer.receipt[q][t] /\ peer'.ack[q][t] = peer.ack[q][t]
  BY <1>2, <1>3, ZenonT(30) DEF IInv, PeerOK, Stores
<1> QED
  BY <1>1, <1>2, <1>3, <1>4, Zenon DEF PeerRecvEffect

\* The packet is executed or rejected; its sender was told nothing, and no block says that it timed out.
LEMMA PeerRecvLife ==
    ASSUME IInv, Paired, Story, NEW c \in Clients, NEW s \in SequenceNumbers, NEW ack \in PeerAcks,
           PeerRecv(c, s, ack)
    PROVE  Story' /\ LifecycleNext /\ \A b : PastOf(b) => PastOf(b)'
<1>1. PICK p : p = sent[c][s].destClient
  BY Zenon
<1>2. /\ UNCHANGED <<commitments, receipts, acks, sent, delivered, outcome, now>>
      /\ peer'.time = peer.time /\ peer'.commitment = peer.commitment
      /\ sent[c][s] # None /\ sent[c][s].timeout > peer.time /\ peer.receipt[p][s] = None
      /\ p \in Peers /\ PeerClient[p] = c
      /\ peer'.receipt[p][s] = sent[c][s] /\ peer'.ack[p][s] = ack
      /\ \A q \in Peers, t \in SequenceNumbers : ~(q = p /\ t = s) =>
            peer'.receipt[q][t] = peer.receipt[q][t] /\ peer'.ack[q][t] = peer.ack[q][t]
  <2>1. PeerRecvEffect(c, s, p, ack)
    BY <1>1, PeerRecvFacts, Zenon
  <2> QED
    BY <2>1, Zenon DEF PeerRecvEffect
<1>0. /\ UNCHANGED <<commitments, receipts, acks, sent, delivered, outcome, now>>
      /\ peer'.time = peer.time /\ peer'.commitment = peer.commitment
  BY <1>2, Zenon
<1>3. ~(peer.time >= sent[c][s].timeout) /\ ack # None
  <2>1. peer.time \in Timestamps /\ sent[c][s].timeout \in Timestamps
    BY <1>2, SentFacts DEF IInv, PeerOK, Stores
  <2> QED
    BY <1>2, <2>1, ClockBefore, RelayAssumption, ZenonT(40)
<1>4. \A e, t : Notices(e, t)' = Notices(e, t)
  BY <1>0, NoticesFrame, Zenon
<1>5. commitments[c][s] # Zeroed /\ Notices(c, s) = <<>>
  <2>1. Informed(c, s)
    BY Zenon DEF Story
  <2> QED
    BY <1>1, <1>2, <1>3, <2>1, Zenon DEF Informed
<1>6. peer.ack[p][s] = None
  <2>1. PeerReceived(p, s)
    BY <1>2, Zenon DEF Story
  <2> QED
    BY <1>2, <2>1, Zenon DEF PeerReceived
<1>7. ASSUME NEW q \in Peers, NEW t \in SequenceNumbers
      PROVE  (PeerReceived(q, t) /\ Received(q, t) /\ PeerInformed(q, t))'
  <2>1. PeerReceived(q, t) /\ Received(q, t) /\ PeerInformed(q, t)
    BY Zenon DEF Story
  <2>2. Received(q, t)' /\ PeerInformed(q, t)'
    BY <1>0, <1>4, <2>1, ReceivedFrame, PeerInformedFrame, Zenon
  <2>3. PeerReceived(q, t)'
    <3>1. CASE q = p /\ t = s
      <4>1. /\ peer'.ack[p][s] # None /\ peer'.receipt[p][s] = sent'[PeerClient[p]][s]
        BY <1>2, <1>3, Zenon
      <4>2. peer'.receipt[p][s] # None
        BY <1>2, Zenon
      <4> QED
        BY <3>1, <4>1, <4>2, Zenon DEF PeerReceived
    <3>2. CASE ~(q = p /\ t = s)
      BY <1>0, <1>2, <2>1, <3>2, PeerReceivedFrame, Zenon
    <3> QED
      BY <3>1, <3>2
  <2> QED
    BY <2>2, <2>3
<1>8. \A d \in Clients, t \in SequenceNumbers : ~(d = c /\ t = s) /\ sent[d][t] # None =>
          /\ peer'.receipt[sent[d][t].destClient][t] = peer.receipt[sent[d][t].destClient][t]
          /\ peer'.ack[sent[d][t].destClient][t] = peer.ack[sent[d][t].destClient][t]
  <2> SUFFICES ASSUME NEW d \in Clients, NEW t \in SequenceNumbers, ~(d = c /\ t = s), sent[d][t] # None
               PROVE  /\ peer'.receipt[sent[d][t].destClient][t] = peer.receipt[sent[d][t].destClient][t]
                      /\ peer'.ack[sent[d][t].destClient][t] = peer.ack[sent[d][t].destClient][t]
    OBVIOUS
  <2>1. sent[d][t].destClient \in Peers /\ PeerClient[sent[d][t].destClient] = d
    BY SentFacts, Zenon
  <2>2. ~(sent[d][t].destClient = p /\ t = s)
    BY <1>2, <2>1, Zenon
  <2> QED
    BY <1>2, <2>1, <2>2, ZenonT(40)
<1>9. ASSUME NEW d \in Clients, NEW t \in SequenceNumbers
      PROVE  Informed(d, t)'
  <2>1. Informed(d, t)
    BY Zenon DEF Story
  <2>2. CASE commitments[d][t] # Zeroed
    BY <1>0, <1>4, <2>1, <2>2, Zenon DEF Informed
  <2>3. CASE commitments[d][t] = Zeroed
    <3>1. sent[d][t] # None
      BY <2>3, SolanaAssumption, Zenon DEF IInv, CommitmentsOK
    <3>2. ~(d = c /\ t = s)
      BY <1>5, <2>3, Zenon
    <3> QED
      BY <1>0, <1>4, <1>8, <2>1, <3>1, <3>2, InformedFrame, Zenon
  <2> QED
    BY <2>2, <2>3
<1>10. Story'
  BY <1>7, <1>9, Zenon DEF Story
<1>11. ASSUME NEW b, PastOf(b) PROVE PastOf(b)'
  <2>1. \A q \in Peers, t \in SequenceNumbers : b.ack[q][t] # None => peer'.ack[q][t] = b.ack[q][t]
    <3> SUFFICES ASSUME NEW q \in Peers, NEW t \in SequenceNumbers, b.ack[q][t] # None
                 PROVE  peer'.ack[q][t] = b.ack[q][t]
      OBVIOUS
    <3>1. peer.ack[q][t] = b.ack[q][t]
      BY <1>11, Zenon DEF PastOf
    <3>2. ~(q = p /\ t = s)
      BY <1>6, <3>1, Zenon
    <3> QED
      BY <1>2, <3>1, <3>2, ZenonT(40)
  <2>2. ~(b.time >= sent[c][s].timeout)
    <3>1. b.time \in Timestamps /\ peer.time \in Timestamps /\ sent[c][s].timeout \in Timestamps
          /\ b.time <= peer.time
      BY <1>2, <1>11, SentFacts, ZenonT(30) DEF IInv, PeerOK, Stores, PastOf
    <3> QED
      BY <1>3, <3>1, ClockLater, ZenonT(40)
  <2>3. ASSUME NEW d \in Clients, NEW t \in SequenceNumbers, sent[d][t] # None,
               b.time >= sent[d][t].timeout, b.receipt[sent[d][t].destClient][t] = None
        PROVE  peer'.receipt[sent[d][t].destClient][t] = None
    <3>1. ~(d = c /\ t = s)
      BY <2>2, <2>3, Zenon
    <3>2. peer.receipt[sent[d][t].destClient][t] = None
      BY <1>11, <2>3, Zenon DEF PastOf
    <3> QED
      BY <1>8, <2>3, <3>1, <3>2, Zenon
  <2> QED
    BY <1>0, <1>11, <2>1, <2>3, Zenon DEF PastOf
<1>12. PICK to \in {"executed", "rejected"} : Moves(c, s, "sent", to)
  <2>1. PICK x : x = sent[c][s]
    BY Zenon
  <2>2. Executions(c, s) = <<>>
    BY <1>1, <1>2, Zenon DEF Executions
  <2>3. Phase(c, s) = "sent"
    <3>1. Phase(c, s) = PhaseOf(x, <<>>, <<>>) /\ x # None
      BY <1>2, <1>5, <2>1, <2>2, Zenon DEF Phase
    <3> QED
      BY <3>1, PhaseTable, Zenon
  <2>4. Executions(c, s)' = <<"executed">> \/ Executions(c, s)' = <<"rejected">>
    BY <1>1, <1>2, Zenon DEF Executions
  <2>5. /\ x # None
        /\ \/ Phase(c, s)' = PhaseOf(x, <<"executed">>, <<>>)
           \/ Phase(c, s)' = PhaseOf(x, <<"rejected">>, <<>>)
    BY <1>2, <1>4, <1>5, <2>1, <2>4, Zenon DEF Phase
  <2>6. Phase(c, s)' = "executed" \/ Phase(c, s)' = "rejected"
    BY <2>5, PhaseTable, Zenon
  <2>7. ASSUME NEW f \in Endpoints, NEW t \in SequenceNumbers, ~(f = c /\ t = s)
        PROVE  Phase(f, t)' = Phase(f, t)
    <3>1. CASE f \in Peers
      BY <1>0, <1>4, <3>1, PeerRunsFrame, PhaseFrame, Zenon
    <3>2. CASE f \in Clients /\ sent[f][t] # None
      <4>1. Executions(f, t)' = Executions(f, t)
        BY <1>0, <1>8, <2>7, <3>2, ClientRunsFrame, Zenon
      <4> QED
        BY <1>0, <1>4, <4>1, PhaseFrame, Zenon
    <3>3. CASE sent[f][t] = None
      BY <1>0, <3>3, Zenon DEF Phase, PhaseOf
    <3> QED
      BY <3>1, <3>2, <3>3, Zenon DEF Endpoints
  <2> QED
    BY <2>3, <2>6, <2>7, Zenon DEF Moves
<1>13. LifecycleNext
  BY <1>12, AdvanceAt, Zenon DEF LifecycleNext, Lifecycle!Receive, Endpoints
<1> QED
  BY <1>10, <1>11, <1>13, Zenon

\* The counterparty chain learns what became of a packet of its own.
LEMMA PeerResolveLife ==
    ASSUME IInv, AccountsOK, Paired, Story, NEW q \in Peers, NEW s \in SequenceNumbers,
           NEW told \in {"confirmed", "timedOut"}, PeerResolve(q, s, told)
    PROVE  Story' /\ LifecycleNext /\ \A b : PastOf(b) => PastOf(b)'
<1>1. /\ peer' = [peer EXCEPT !.commitment[q][s] = None] /\ peer.commitment[q][s] # None
      /\ outcome' = [outcome EXCEPT ![q][s] = Append(@, <<told, sent[q][s]>>)]
      /\ \/ told = "confirmed" /\ acks[PeerClient[q]][s] = AppAck
         \/ told = "timedOut" /\ receipts[PeerClient[q]][s] = None /\ now >= sent[q][s].timeout
      /\ UNCHANGED <<commitments, receipts, acks, sent, delivered, now>>
  BY Zenon DEF PeerResolve, PeerOnly, accounts
<1>2. /\ peer'.time = peer.time /\ peer'.receipt = peer.receipt /\ peer'.ack = peer.ack
      /\ peer'.commitment[q][s] = None
      /\ \A p \in Peers, t \in SequenceNumbers :
            ~(p = q /\ t = s) => peer'.commitment[p][t] = peer.commitment[p][t]
  BY <1>1 DEF IInv, PeerOK, Stores
<1>0. /\ UNCHANGED <<commitments, receipts, acks, sent, delivered, now>>
      /\ peer'.time = peer.time /\ peer'.receipt = peer.receipt /\ peer'.ack = peer.ack
  BY <1>1, <1>2, Zenon
<1>3. q \notin Clients /\ sent[q][s] # None
  BY <1>1, SolanaAssumption DEF IInv, PeerOK, BlockOf
<1>4. PeerInformed(q, s) /\ Received(q, s)
  BY Zenon DEF Story
<1>5. Notices(q, s) = <<>>
  BY <1>1, <1>4, Zenon DEF PeerInformed
<1>6. /\ Notices(q, s)' = <<told>>
      /\ \A f \in Endpoints, t \in SequenceNumbers : ~(f = q /\ t = s) => Notices(f, t)' = Notices(f, t)
  <2>1. PICK packet : packet = sent[q][s]
    BY Zenon
  <2> QED
    BY <1>1, <1>5, <2>1, FirstNotice, Zenon DEF Endpoints
<1>7. \/ /\ told = "confirmed" /\ receipts[PeerClient[q]][s] # None /\ Len(delivered[PeerClient[q]][s]) = 1
      \/ /\ told = "timedOut" /\ receipts[PeerClient[q]][s] = None /\ now >= sent[q][s].timeout
         /\ delivered[PeerClient[q]][s] = <<>>
  <2>1. CASE told = "confirmed" /\ acks[PeerClient[q]][s] = AppAck
    BY <1>4, <2>1, SolanaAssumption, Zenon DEF Received
  <2>2. CASE told = "timedOut" /\ receipts[PeerClient[q]][s] = None /\ now >= sent[q][s].timeout
    BY <1>4, <2>2, Zenon DEF Received
  <2> QED
    BY <1>1, <2>1, <2>2, Zenon
<1>8. ASSUME NEW p \in Peers, NEW t \in SequenceNumbers
      PROVE  (PeerReceived(p, t) /\ Received(p, t) /\ PeerInformed(p, t))'
  <2>1. PeerReceived(p, t) /\ Received(p, t) /\ PeerInformed(p, t)
    BY Zenon DEF Story
  <2>2. PeerReceived(p, t)' /\ Received(p, t)'
    BY <1>0, <2>1, PeerReceivedFrame, ReceivedFrame, Zenon
  <2>3. PeerInformed(p, t)'
    <3>1. CASE p = q /\ t = s
      <4>1. sent'[q][s] # None /\ peer'.commitment[q][s] = None
        BY <1>0, <1>2, <1>3, Zenon
      <4> QED
        BY <1>0, <1>6, <1>7, <3>1, <4>1, Zenon DEF PeerInformed
    <3>2. CASE ~(p = q /\ t = s)
      <4>1. peer'.commitment[p][t] = peer.commitment[p][t] /\ Notices(p, t)' = Notices(p, t)
        BY <1>2, <1>6, <3>2, Zenon DEF Endpoints
      <4> QED
        BY <1>0, <2>1, <4>1, PeerInformedFrame, Zenon
    <3> QED
      BY <3>1, <3>2
  <2> QED
    BY <2>2, <2>3
<1>9. ASSUME NEW c \in Clients, NEW t \in SequenceNumbers
      PROVE  Informed(c, t)'
  <2>1. Informed(c, t) /\ Notices(c, t)' = Notices(c, t)
    BY <1>3, <1>6, Zenon DEF Story, Endpoints
  <2> QED
    BY <1>0, <2>1, InformedFrame, Zenon
<1>10. Story'
  BY <1>8, <1>9, Zenon DEF Story
<1>11. ASSUME NEW b, PastOf(b) PROVE PastOf(b)'
  BY <1>0, <1>11, PastFrame, Zenon
<1>12. \A f \in Endpoints, t \in SequenceNumbers : Executions(f, t)' = Executions(f, t)
  BY <1>0, ClientRunsFrame, PeerRunsFrame, Zenon DEF Endpoints
<1>13. \A f \in Endpoints, t \in SequenceNumbers : ~(f = q /\ t = s) => Phase(f, t)' = Phase(f, t)
  BY <1>0, <1>6, <1>12, PhaseFrame, Zenon
<1>14. PICK x : x = sent[q][s]
  BY Zenon
<1>15. /\ Phase(q, s) = PhaseOf(x, Executions(q, s), <<>>) /\ x # None
       /\ Phase(q, s)' = PhaseOf(x, Executions(q, s), <<told>>)
  <2>1. Executions(q, s)' = Executions(q, s) /\ sent'[q][s] = x
    BY <1>0, <1>12, <1>14, Zenon DEF Endpoints
  <2> QED
    BY <1>3, <1>5, <1>6, <1>14, <2>1, Zenon DEF Phase
<1>16. CASE told = "confirmed"
  <2>1. delivered[PeerClient[q]][s] \in Seq(Packets) /\ Len(delivered[PeerClient[q]][s]) = 1
    <3>1. PeerClient[q] \in Clients
      BY SolanaAssumption, Zenon
    <3>2. told # "timedOut"
      BY <1>16
    <3> QED
      BY <1>7, <3>1, <3>2, Zenon DEF IInv, HistoryOK
  <2>2. Executions(q, s) = <<"executed">>
    BY <1>3, <2>1, RunsOnce, Zenon DEF Executions
  <2>3. Phase(q, s) = "executed" /\ Phase(q, s)' = "confirmed"
    <3>1. /\ Phase(q, s) = PhaseOf(x, <<"executed">>, <<>>)
          /\ Phase(q, s)' = PhaseOf(x, <<"executed">>, <<"confirmed">>)
      BY <1>15, <1>16, <2>2, Zenon
    <3> QED
      BY <1>15, <3>1, PhaseTable, Zenon
  <2>4. Moves(q, s, "executed", "confirmed")
    BY <1>13, <2>3, Zenon DEF Moves
  <2> QED
    BY <1>10, <1>11, <2>4, AdvanceAt, ZenonT(40) DEF LifecycleNext, Lifecycle!Acknowledge, Endpoints
<1>17. CASE told = "timedOut"
  <2>1. delivered[PeerClient[q]][s] = <<>>
    BY <1>7, <1>17
  <2>2. Executions(q, s) = <<>>
    BY <1>3, <2>1, RunsNone, Zenon DEF Executions
  <2>3. Phase(q, s) = "sent" /\ Phase(q, s)' = "timedOut"
    BY <1>15, <1>17, <2>2, PhaseTable, Zenon
  <2>4. Moves(q, s, "sent", "timedOut")
    BY <1>13, <2>3, Zenon DEF Moves
  <2> QED
    BY <1>10, <1>11, <2>4, AdvanceAt, ZenonT(40) DEF LifecycleNext, Lifecycle!TimeOut, Endpoints
<1> QED
  BY <1>16, <1>17

\* recv_packet executes a packet that has not timed out, and has no receipt.
LEMMA RecvLife ==
    ASSUME OneCounterparty, IInv, AccountsOK, Paired, Story, NEW w \in Workers, NEW c \in Clients,
           NEW q \in Peers, NEW s \in SequenceNumbers, Receives(w, c, q, s),
           ~UNCHANGED <<receipts, acks, delivered>>
    PROVE  Story' /\ LifecycleNext /\ \A b : PastOf(b) => PastOf(b)'
<1>1. PICK packet : packet = sent[q][s]
  BY Zenon
<1>2. /\ packet # None /\ packet.destClient = c /\ packet.timeout > now /\ receipts[c][s] = None
      /\ receipts' = [receipts EXCEPT ![c][s] = packet]
      /\ acks' = [acks EXCEPT ![c][s] = AppAck]
      /\ delivered' = [delivered EXCEPT ![c][s] = Append(@, packet)]
      /\ UNCHANGED <<now, sent, commitments, peer, outcome>>
  BY <1>1, Zenon DEF Receives
<1>0. UNCHANGED <<now, sent, commitments, peer, outcome>>
  BY <1>2, Zenon
<1>3. PeerClient[q] = c /\ q \notin Clients /\ \A p \in Peers : PeerClient[p] \in Clients
  <2>1. PeerClient[q] = c
    BY <1>1, <1>2, SentFacts, ZenonT(40)
  <2> QED
    BY <2>1, SolanaAssumption
<1>4. /\ receipts'[c][s] = packet /\ acks'[c][s] = AppAck
      /\ delivered'[c][s] = Append(delivered[c][s], packet)
      /\ \A d \in Clients, t \in SequenceNumbers : ~(d = c /\ t = s) =>
            /\ receipts'[d][t] = receipts[d][t] /\ acks'[d][t] = acks[d][t]
            /\ delivered'[d][t] = delivered[d][t]
  BY <1>2 DEF AccountsOK, IInv, HistoryOK
<1>5. delivered[c][s] = <<>> /\ PeerInformed(q, s)
  <2>1. Received(q, s) /\ PeerInformed(q, s)
    BY Zenon DEF Story
  <2> QED
    BY <1>2, <1>3, <2>1, Zenon DEF Received
<1>6. delivered'[c][s] = <<packet>>
  <2>1. delivered'[c][s] = Append(delivered[c][s], packet) /\ delivered[c][s] = <<>>
    BY <1>4, <1>5, Zenon
  <2> QED
    BY ONLY <2>1, OneElement, ZenonT(40)
<1>7. delivered'[c][s] \in Seq(Packets) /\ Len(delivered'[c][s]) = 1
  <2>1. packet \in Packets
    <3>1. sent \in [Endpoints -> [SequenceNumbers -> Packets \cup {None}]] /\ q \in Endpoints
      BY Zenon DEF IInv, SentOK, Endpoints
    <3>2. sent[q][s] \in Packets \cup {None} /\ packet # None
      BY <1>2, <3>1, Zenon
    <3> QED
      BY <1>1, <3>2, Zenon
  <2> QED
    BY <1>6, <2>1, OneElement, Zenon
<1>8. \A e, t : Notices(e, t)' = Notices(e, t)
  BY <1>0, NoticesFrame, Zenon
<1>9. Notices(q, s) = <<>> /\ peer.commitment[q][s] # None
  <2>1. now \in Timestamps /\ packet.timeout \in Timestamps
    BY <1>1, <1>2, SentFacts DEF AccountsOK
  <2>2. ~(now >= packet.timeout)
    BY <1>2, <2>1, ClockBefore, Zenon
  <2> QED
    BY <1>1, <1>2, <1>3, <1>5, <2>2, ZenonT(40) DEF PeerInformed
<1>10. \A p \in Peers, t \in SequenceNumbers : ~(p = q /\ t = s) =>
           /\ receipts'[PeerClient[p]][t] = receipts[PeerClient[p]][t]
           /\ acks'[PeerClient[p]][t] = acks[PeerClient[p]][t]
           /\ delivered'[PeerClient[p]][t] = delivered[PeerClient[p]][t]
  <2> SUFFICES ASSUME NEW p \in Peers, NEW t \in SequenceNumbers, ~(p = q /\ t = s)
               PROVE  /\ receipts'[PeerClient[p]][t] = receipts[PeerClient[p]][t]
                      /\ acks'[PeerClient[p]][t] = acks[PeerClient[p]][t]
                      /\ delivered'[PeerClient[p]][t] = delivered[PeerClient[p]][t]
    OBVIOUS
  <2>1. ~(PeerClient[p] = c /\ t = s)
    BY <1>3, Zenon DEF OneCounterparty
  <2> QED
    BY <1>3, <1>4, <2>1, ZenonT(40)
<1>11. ASSUME NEW p \in Peers, NEW t \in SequenceNumbers
       PROVE  (PeerReceived(p, t) /\ Received(p, t) /\ PeerInformed(p, t))'
  <2>1. PeerReceived(p, t) /\ Received(p, t) /\ PeerInformed(p, t)
    BY Zenon DEF Story
  <2>2. PeerReceived(p, t)'
    BY <1>0, <2>1, PeerReceivedFrame, Zenon
  <2>3. CASE p = q /\ t = s
    <3>1. Received(q, s)'
      <4>1. receipts'[PeerClient[q]][s] # None /\ acks'[PeerClient[q]][s] = AppAck
            /\ Len(delivered'[PeerClient[q]][s]) = 1 /\ sent'[q][s] # None
        BY <1>0, <1>1, <1>2, <1>3, <1>4, <1>7, Zenon
      <4> QED
        BY <4>1, Zenon DEF Received
    <3>2. PeerInformed(q, s)'
      <4>1. peer'.commitment[q][s] # None /\ Notices(q, s)' = <<>>
        BY <1>0, <1>8, <1>9, Zenon
      <4> QED
        BY <4>1, Zenon DEF PeerInformed
    <3> QED
      BY <2>2, <2>3, <3>1, <3>2, Zenon
  <2>4. CASE ~(p = q /\ t = s)
    <3>1. Received(p, t)'
      BY <1>0, <1>10, <2>1, <2>4, ReceivedFrame, Zenon
    <3>2. PeerInformed(p, t)'
      BY <1>0, <1>8, <1>10, <2>1, <2>4, PeerInformedFrame, Zenon
    <3> QED
      BY <2>2, <3>1, <3>2, Zenon
  <2> QED
    BY <2>3, <2>4
<1>12. ASSUME NEW d \in Clients, NEW t \in SequenceNumbers
       PROVE  Informed(d, t)'
  <2>1. Informed(d, t)
    BY Zenon DEF Story
  <2> QED
    BY <1>0, <1>8, <2>1, InformedFrame, Zenon
<1>13. Story'
  BY <1>11, <1>12, Zenon DEF Story
<1>14. ASSUME NEW b, PastOf(b) PROVE PastOf(b)'
  BY <1>0, <1>14, PastFrame, Zenon
<1>15. Moves(q, s, "sent", "executed")
  <2>1. Executions(q, s) = <<>>
    BY <1>3, <1>5, RunsNone, Zenon DEF Executions
  <2>2. PICK x : x = delivered'[c][s]
    BY Zenon
  <2>3. Executions(q, s)' = [i \in DOMAIN x |-> "executed"]
    BY <1>3, <2>2, Zenon DEF Executions
  <2>4. Executions(q, s)' = <<"executed">>
    BY <1>7, <2>2, <2>3, RunsOnce, Zenon
  <2>5. Phase(q, s) = PhaseOf(packet, <<>>, <<>>) /\ Phase(q, s)' = PhaseOf(packet, <<"executed">>, <<>>)
    BY <1>0, <1>1, <1>8, <1>9, <2>1, <2>4, Zenon DEF Phase
  <2>6. Phase(q, s) = "sent" /\ Phase(q, s)' = "executed"
    BY <1>2, <2>5, PhaseTable, Zenon
  <2>7. ASSUME NEW f \in Endpoints, NEW t \in SequenceNumbers, ~(f = q /\ t = s)
        PROVE  Phase(f, t)' = Phase(f, t)
    <3>1. Executions(f, t)' = Executions(f, t)
      <4>1. CASE f \in Peers
        BY <1>10, <2>7, <4>1, PeerRunsFrame, Zenon
      <4>2. CASE f \in Clients
        BY <1>0, <4>2, ClientRunsFrame, Zenon
      <4> QED
        BY <4>1, <4>2, Zenon DEF Endpoints
    <3> QED
      BY <1>0, <1>8, <3>1, PhaseFrame, Zenon
  <2> QED
    BY <2>6, <2>7, Zenon DEF Moves
<1>16. LifecycleNext
  BY <1>15, AdvanceAt, Zenon DEF LifecycleNext, Lifecycle!Receive, Endpoints
<1> QED
  BY <1>13, <1>14, <1>16, Zenon

\* ack_packet and timeout_packet tell what became of the packet: an old block
\* that holds an acknowledgement, or no receipt after the timeout, is still right.
LEMMA ResolveLife ==
    ASSUME IInv, Paired, Story, JobsPast, NEW w \in Workers, job[w] # None, NEW c \in Clients,
           NEW s \in SequenceNumbers, NEW told \in Told, Resolves(w, c, s, told)
    PROVE  Story' /\ LifecycleNext /\ \A b : PastOf(b) => PastOf(b)'
<1>1. PICK x, p, b, ack : x = sent[c][s] /\ p = sent[c][s].destClient
                          /\ b = job[w].msg.block /\ ack = job[w].msg.ack
  BY Zenon
<1>2. /\ x # None /\ commitments[c][s] \notin {None, Zeroed}
      /\ commitments' = [commitments EXCEPT ![c][s] = Zeroed]
      /\ outcome' = [outcome EXCEPT ![c][s] = Append(@, <<told, x>>)]
      /\ UNCHANGED <<now, receipts, acks, sent, peer, delivered>>
      /\ \/ /\ job[w].kind = "ack" /\ b.ack[p][s] = ack
            /\ told = IF ack = UNIVERSAL_ERROR_ACK THEN "refused" ELSE "confirmed"
         \/ b.receipt[p][s] = None /\ b.time >= x.timeout /\ told = "timedOut"
  BY <1>1, Zenon DEF Resolves
<1>0. UNCHANGED <<now, receipts, acks, sent, peer, delivered>>
  BY <1>2, Zenon
<1>3. p \in Peers /\ PeerClient[p] = c /\ x.timeout \in Timestamps
  BY <1>1, <1>2, SentFacts, Zenon
<1>4. PastOf(b) /\ (job[w].kind = "ack" => ack # None)
  BY <1>1, Zenon DEF JobsPast
<1>5. PeerReceived(p, s) /\ Informed(c, s)
  BY <1>3, Zenon DEF Story
<1>6. Notices(c, s) = <<>>
  BY <1>2, <1>5, Zenon DEF Informed
<1>7. /\ Notices(c, s)' = <<told>>
      /\ \A f \in Endpoints, t \in SequenceNumbers : ~(f = c /\ t = s) => Notices(f, t)' = Notices(f, t)
  BY <1>2, <1>6, FirstNotice, Zenon DEF Endpoints
<1>8. /\ commitments'[c][s] = Zeroed
      /\ \A d \in Clients, t \in SequenceNumbers :
            ~(d = c /\ t = s) => commitments'[d][t] = commitments[d][t]
  BY <1>2 DEF IInv, CommitmentsOK
<1>9. \/ /\ told = "confirmed" /\ peer.receipt[p][s] = x /\ peer.ack[p][s] # UNIVERSAL_ERROR_ACK
      \/ /\ told = "refused" /\ peer.receipt[p][s] = x /\ peer.ack[p][s] = UNIVERSAL_ERROR_ACK
      \/ /\ told = "timedOut" /\ peer.receipt[p][s] = None /\ peer.time >= x.timeout
  <2>1. CASE /\ job[w].kind = "ack" /\ b.ack[p][s] = ack
             /\ told = IF ack = UNIVERSAL_ERROR_ACK THEN "refused" ELSE "confirmed"
    <3>1. peer.ack[p][s] = ack /\ ack # None
      BY <1>3, <1>4, <2>1, Zenon DEF PastOf
    <3>2. peer.receipt[p][s] = x
      BY <1>1, <1>3, <1>5, <3>1, Zenon DEF PeerReceived
    <3> QED
      BY <2>1, <3>1, <3>2, Zenon
  <2>2. CASE b.receipt[p][s] = None /\ b.time >= x.timeout /\ told = "timedOut"
    <3>1. peer.receipt[p][s] = None
      BY <1>1, <1>2, <1>4, <2>2, ZenonT(40) DEF PastOf
    <3>2. b.time \in Timestamps /\ peer.time \in Timestamps /\ b.time <= peer.time
      BY <1>4 DEF PastOf, IInv, PeerOK, Stores
    <3>3. peer.time >= x.timeout
      BY <1>3, <2>2, <3>2, ClockLater, Zenon
    <3> QED
      BY <2>2, <3>1, <3>3, Zenon
  <2> QED
    BY <1>2, <2>1, <2>2, Zenon
<1>10. ASSUME NEW q \in Peers, NEW t \in SequenceNumbers
       PROVE  (PeerReceived(q, t) /\ Received(q, t) /\ PeerInformed(q, t))'
  <2>1. PeerReceived(q, t) /\ Received(q, t) /\ PeerInformed(q, t)
    BY Zenon DEF Story
  <2>2. Notices(q, t)' = Notices(q, t)
    <3>1. q # c
      BY SolanaAssumption
    <3> QED
      BY <1>7, <3>1, ZenonT(40) DEF Endpoints
  <2> QED
    BY <1>0, <2>1, <2>2, PeerReceivedFrame, ReceivedFrame, PeerInformedFrame, Zenon
<1>11. ASSUME NEW d \in Clients, NEW t \in SequenceNumbers
       PROVE  Informed(d, t)'
  <2>1. CASE d = c /\ t = s
    <3>1. /\ commitments'[c][s] = Zeroed /\ Notices(c, s)' = <<told>>
          /\ sent'[c][s].destClient = p /\ sent'[c][s].timeout = x.timeout
      BY <1>0, <1>1, <1>7, <1>8, Zenon
    <3> QED
      BY <1>0, <1>2, <1>9, <2>1, <3>1, Zenon DEF Informed
  <2>2. CASE ~(d = c /\ t = s)
    <3>1. Informed(d, t) /\ commitments'[d][t] = commitments[d][t] /\ Notices(d, t)' = Notices(d, t)
      BY <1>7, <1>8, <2>2, Zenon DEF Story, Endpoints
    <3> QED
      BY <1>0, <3>1, InformedFrame, Zenon
  <2> QED
    BY <2>1, <2>2
<1>12. Story'
  BY <1>10, <1>11, Zenon DEF Story
<1>13. ASSUME NEW a, PastOf(a) PROVE PastOf(a)'
  BY <1>0, <1>13, PastFrame, Zenon
<1>14. \A f \in Endpoints, t \in SequenceNumbers : Executions(f, t)' = Executions(f, t)
  BY <1>0, ClientRunsFrame, PeerRunsFrame, Zenon DEF Endpoints
<1>15. \A f \in Endpoints, t \in SequenceNumbers : ~(f = c /\ t = s) => Phase(f, t)' = Phase(f, t)
  BY <1>0, <1>7, <1>14, PhaseFrame, Zenon
<1>16. /\ Phase(c, s) = PhaseOf(x, Executions(c, s), <<>>)
       /\ Phase(c, s)' = PhaseOf(x, Executions(c, s), <<told>>)
  <2>1. Executions(c, s)' = Executions(c, s) /\ sent'[c][s] = x
    BY <1>0, <1>1, <1>14, Zenon DEF Endpoints
  <2> QED
    BY <1>1, <1>6, <1>7, <2>1, Zenon DEF Phase
<1>17. CASE told = "confirmed"
  <2>1. Executions(c, s) = <<"executed">>
    BY <1>1, <1>9, <1>17, Zenon DEF Executions
  <2>2. /\ Phase(c, s) = PhaseOf(x, <<"executed">>, <<>>)
        /\ Phase(c, s)' = PhaseOf(x, <<"executed">>, <<"confirmed">>)
    BY <1>16, <1>17, <2>1, Zenon
  <2>3. Phase(c, s) = "executed" /\ Phase(c, s)' = "confirmed"
    BY <1>2, <2>2, PhaseTable, Zenon
  <2>4. Moves(c, s, "executed", "confirmed")
    BY <1>15, <2>3, Zenon DEF Moves
  <2> QED
    BY <1>12, <1>13, <2>4, AdvanceAt, Zenon DEF LifecycleNext, Lifecycle!Acknowledge, Endpoints
<1>18. CASE told = "refused"
  <2>1. Executions(c, s) = <<"rejected">>
    BY <1>1, <1>9, <1>18, Zenon DEF Executions
  <2>2. /\ Phase(c, s) = PhaseOf(x, <<"rejected">>, <<>>)
        /\ Phase(c, s)' = PhaseOf(x, <<"rejected">>, <<"refused">>)
    BY <1>16, <1>18, <2>1, Zenon
  <2>3. Phase(c, s) = "rejected" /\ Phase(c, s)' = "refused"
    BY <1>2, <2>2, PhaseTable, Zenon
  <2>4. Moves(c, s, "rejected", "refused")
    BY <1>15, <2>3, Zenon DEF Moves
  <2> QED
    BY <1>12, <1>13, <2>4, AdvanceAt, Zenon DEF LifecycleNext, Lifecycle!Acknowledge, Endpoints
<1>19. CASE told = "timedOut"
  <2>1. Executions(c, s) = <<>>
    BY <1>1, <1>2, <1>9, <1>19, Zenon DEF Executions
  <2>2. /\ Phase(c, s) = PhaseOf(x, <<>>, <<>>)
        /\ Phase(c, s)' = PhaseOf(x, <<>>, <<"timedOut">>)
    BY <1>16, <1>19, <2>1, Zenon
  <2>3. Phase(c, s) = "sent" /\ Phase(c, s)' = "timedOut"
    BY <1>2, <2>2, PhaseTable, Zenon
  <2>4. Moves(c, s, "sent", "timedOut")
    BY <1>15, <2>3, Zenon DEF Moves
  <2> QED
    BY <1>12, <1>13, <2>4, AdvanceAt, Zenon DEF LifecycleNext, Lifecycle!TimeOut, Endpoints
<1> QED
  BY <1>17, <1>18, <1>19, Zenon DEF Told

\* Jobs go on with the message they have.
JobsKept ==
    \A w \in Workers : job'[w] # None =>
        job[w] # None /\ job'[w].kind = job[w].kind /\ job'[w].msg = job[w].msg

\* The transactions of a job change neither its kind nor its message.
LEMMA FewerJobs ==
    ASSUME IInv, NEW w \in Workers, job[w] # None,
           \/ job' = [job EXCEPT ![w] = None]
           \/ job' = [job EXCEPT ![w].final = "done"]
           \/ \E slot : job' = [job EXCEPT ![w].todo = @ \ {slot}]
    PROVE  JobsKept
<1>1. job = [v \in Workers |-> job[v]] /\ JobOf(job[w], sent)
  BY Zenon DEF IInv, JobsOK
<1>2. CASE job' = [job EXCEPT ![w] = None]
  BY <1>1, <1>2 DEF JobsKept
<1>3. ASSUME NEW j, job' = [job EXCEPT ![w] = j], j.kind = job[w].kind, j.msg = job[w].msg
      PROVE  JobsKept
  BY <1>1, <1>3 DEF JobsKept
<1>4. CASE job' = [job EXCEPT ![w].final = "done"]
  <2> DEFINE j == [job[w] EXCEPT !.final = "done"]
  <2>1. j.kind = job[w].kind /\ j.msg = job[w].msg
    BY <1>1 DEF JobOf
  <2> HIDE DEF j
  <2> QED
    BY Zenon, <1>3, <1>4, <2>1 DEF j
<1>5. ASSUME NEW slot, job' = [job EXCEPT ![w].todo = @ \ {slot}] PROVE JobsKept
  <2> DEFINE j == [job[w] EXCEPT !.todo = @ \ {slot}]
  <2>1. j.kind = job[w].kind /\ j.msg = job[w].msg
    BY <1>1 DEF JobOf
  <2> HIDE DEF j
  <2> QED
    BY Zenon, <1>3, <1>5, <2>1 DEF j
<1> QED
  BY Zenon, <1>2, <1>4, <1>5

\* Jobs whose message stays are still about blocks of the past.
LEMMA KeptPast ==
    ASSUME JobsPast, JobsKept, \A b : PastOf(b) => PastOf(b)'
    PROVE  JobsPast'
<1> SUFFICES ASSUME NEW w \in Workers, job'[w] # None
             PROVE  PastOf(job[w].msg.block)' /\ (job'[w].kind = "ack" => job'[w].msg.ack # None)
  BY Zenon DEF JobsPast
<1>1. PICK b : b = job[w].msg.block
  BY Zenon
<1>2. PastOf(b)' /\ b = job'[w].msg.block /\ (job'[w].kind = "ack" => job'[w].msg.ack # None)
  BY <1>1, Zenon DEF JobsPast, JobsKept
<1>3. PastOf(job[w].msg.block)'
  BY <1>2, Zenon DEF PastOf
<1> QED
  BY <1>2, <1>3, Zenon

\* Life holds at the start.
LEMMA InitLife == RelayInit => Life
<1> SUFFICES ASSUME RelayInit PROVE Life
  OBVIOUS
<1>1. AccountsOK /\ Paired
  BY InitAccounts
<1>2. JobsPast
  BY Zenon DEF RelayInit, JobsPast
<1>3. \A p \in Peers : PeerClient[p] \in Clients
  BY SolanaAssumption
<1>4. \A e \in Endpoints, s \in SequenceNumbers : Notices(e, s) = <<>>
  <2> SUFFICES ASSUME NEW e \in Endpoints, NEW s \in SequenceNumbers PROVE Notices(e, s) = <<>>
    OBVIOUS
  <2>1. outcome[e][s] = <<>>
    BY Zenon DEF RelayInit, Init
  <2>2. Notices(e, s) = [i \in DOMAIN <<>> |-> <<>>[i][1]]
    BY <2>1, Zenon DEF Notices
  <2> QED
    BY <2>2
<1>5. \A c \in Clients, s \in SequenceNumbers :
          /\ commitments[c][s] # Zeroed /\ receipts[c][s] = None /\ acks[c][s] = None
          /\ delivered[c][s] = <<>>
  BY SolanaAssumption, Zenon DEF RelayInit, Init
<1>6. \A p \in Peers, s \in SequenceNumbers :
          peer.receipt[p][s] = None /\ peer.ack[p][s] = None /\ sent[p][s] = None
  BY DEF RelayInit, Init, EmptyStore, Endpoints
<1>7. \A p \in Peers, s \in SequenceNumbers : PeerReceived(p, s) /\ Received(p, s) /\ PeerInformed(p, s)
  BY <1>3, <1>4, <1>5, <1>6, Zenon DEF PeerReceived, Received, PeerInformed, Endpoints
<1>8. \A c \in Clients, s \in SequenceNumbers : Informed(c, s)
  BY <1>4, <1>5, Zenon DEF Informed, Endpoints
<1> QED
  BY <1>1, <1>2, <1>7, <1>8, Zenon DEF Life, Story

\* At the start no packet is sent.
LEMMA InitPhases == RelayInit => Lifecycle!Init
<1> SUFFICES ASSUME RelayInit PROVE Lifecycle!Init
  OBVIOUS
<1>1. \A e \in Endpoints, s \in SequenceNumbers : sent[e][s] = None
  BY Zenon DEF RelayInit, Init
<1>2. \A e \in Endpoints, s \in SequenceNumbers : Phase(e, s) = "unsent"
  BY <1>1, Zenon DEF Phase, PhaseOf
<1> QED
  BY <1>2, Zenon DEF phases, Lifecycle!Init

\* A request takes up the newest block.
LEMMA RelayPast ==
    ASSUME IInv, Life, NEW w \in Workers, NEW kind \in Kinds, NEW e \in Endpoints,
           NEW s \in SequenceNumbers, Relay(w, kind, e, s), \A b : PastOf(b) => PastOf(b)'
    PROVE  JobsPast'
<1> DEFINE packet == sent[e][s]
           msg == ibc_to_solana_packet(kind, packet, peer)
           j == [kind |-> kind, client |-> LocalClient(kind, packet), msg |-> msg,
                 todo |-> SlotsUsed(delivery(packet.payload)), final |-> "due"]
<1>1. job' = [job EXCEPT ![w] = j] /\ Provable(kind, packet, peer)
  BY ZenonT(40) DEF Relay
<1>2. kind = "ack" => msg.ack # None
  <2>1. msg.ack = peer.ack[PeerOf(kind, packet)][packet.sequence]
    BY DEF ibc_to_solana_packet
  <2>2. kind = "ack" => peer.ack[PeerOf(kind, packet)][packet.sequence] # None
    <3>1. kind = "ack" => peer[ProvenAt(kind)] = peer.ack /\ kind # "timeout"
      <4> HIDE DEF packet, msg, j
      <4>1. "ack" # "timeout" /\ peer[ProvenAt("ack")] = peer.ack
        BY AckStore, Zenon
      <4> QED
        BY ONLY <4>1, Zenon
    <3>2. (peer[ProvenAt(kind)][PeerOf(kind, packet)][packet.sequence] = None) <=> (kind = "timeout")
      BY <1>1, Zenon DEF Provable, inject_tendermint_proofs
    <3> HIDE DEF packet
    <3> QED
      BY ONLY <3>1, <3>2, Zenon
  <2> HIDE DEF msg, packet
  <2> QED
    BY ONLY <2>1, <2>2, ZenonT(40)
<1>3. PastOf(peer)
  <2>1. peer.time \in Timestamps /\ peer.time <= peer.time
    <3>1. peer \in Stores
      BY Zenon DEF IInv, PeerOK
    <3>2. peer.time \in Timestamps
      BY <3>1, Zenon DEF Stores
    <3> QED
      BY <3>2, Times, Zenon
  <2> QED
    BY <2>1, ZenonT(40) DEF PastOf
<1>4. PICK b : b = peer
  BY Zenon
<1>5. PastOf(b)'
  BY <1>3, <1>4, ZenonT(40)
<1>6. j.msg = msg /\ j.kind = kind /\ msg.block = b
  BY Zenon, <1>4 DEF ibc_to_solana_packet
<1> HIDE DEF j, msg
<1>7. job'[w] = j /\ \A v \in Workers : v # w => job'[v] = job[v]
  <2>1. job = [v \in Workers |-> job[v]] /\ job' = [job EXCEPT ![w] = j]
    BY <1>1, ZenonT(40) DEF IInv, JobsOK
  <2> QED
    BY ONLY w \in Workers, <2>1, SMTT(40)
<1>8. ASSUME NEW v \in Workers, job'[v] # None
      PROVE  PastOf(job[v].msg.block)' /\ (job'[v].kind = "ack" => job'[v].msg.ack # None)
  <2>1. PICK a : a = job'[v].msg.block
    BY Zenon
  <2>2. PastOf(a)' /\ (job'[v].kind = "ack" => job'[v].msg.ack # None)
    <3>1. CASE v = w
      BY <1>2, <1>5, <1>6, <1>7, <2>1, <3>1, Zenon
    <3>2. CASE v # w
      BY <1>7, <1>8, <2>1, <3>2, Zenon DEF Life, JobsPast
    <3> QED
      BY <3>1, <3>2
  <2>3. PastOf(job[v].msg.block)'
    BY <2>1, <2>2, Zenon DEF PastOf
  <2> QED
    BY <2>2, <2>3
<1> QED
  BY <1>8, Zenon DEF JobsPast

\* A step keeps what Life says and takes at most one packet along its life cycle.
LivesOn == JobsPast' /\ Story' /\ (LifecycleNext \/ UNCHANGED phases)

\* A calm step, taken by the clocks or by workers that go on with their jobs.
LEMMA CalmLife ==
    ASSUME IInv, IInv', AccountsOK', Life, Calm, JobsKept
    PROVE  LivesOn
<1>1. Story' /\ UNCHANGED phases
  BY CalmStory, CalmPhases, Zenon DEF Life
<1>2. \A b : PastOf(b) => PastOf(b)'
  BY CalmPast, Zenon
<1>3. JobsPast'
  BY <1>2, KeptPast, Zenon DEF Life
<1> QED
  BY <1>1, <1>3, Zenon DEF LivesOn

\* A step that leaves the accounts of packets alone is calm.
LEMMA StillCalm ==
    ASSUME IInv, AccountsOK, UNCHANGED <<now, commitments, receipts, acks, sent, delivered, outcome, peer>>
    PROVE  Calm
<1>1. peer.time <= peer.time /\ now <= now
  <2>1. peer \in Stores /\ now \in Timestamps
    BY Zenon DEF IInv, PeerOK, AccountsOK
  <2>2. peer.time \in Timestamps
    BY <2>1, Zenon DEF Stores
  <2> QED
    BY <2>1, <2>2, Times, Zenon
<1> QED
  BY <1>1, Zenon DEF Calm

\* Every step, by the action it is.
LEMMA NextLife ==
    ASSUME OneCounterparty, IInv, IInv', AccountsOK', Life, [Next]_allVars
    PROVE  LivesOn
<1>1. UNCHANGED job => JobsKept
  BY Zenon DEF JobsKept
<1>2. ASSUME Story' /\ LifecycleNext /\ (\A b : PastOf(b) => PastOf(b)'), JobsKept PROVE LivesOn
  BY <1>2, KeptPast, Zenon DEF LivesOn, Life
<1>3. AccountsOK /\ Paired /\ JobsPast /\ Story
  BY Zenon DEF Life
<1>4. ASSUME UNCHANGED <<now, commitments, receipts, acks, sent, delivered, outcome, peer>>, JobsKept
      PROVE  LivesOn
  BY <1>3, <1>4, StillCalm, CalmLife, Zenon
<1>5. CASE UNCHANGED allVars
  BY <1>1, <1>4, <1>5, Zenon DEF allVars, vars, accounts, history, relay
<1>6. ASSUME NEW w \in Workers, NEW kind \in Kinds, NEW e \in Endpoints, NEW s \in SequenceNumbers,
             Relay(w, kind, e, s)
      PROVE  LivesOn
  <2>1. Calm
    BY <1>3, <1>6, StillCalm, Zenon DEF Relay, vars, accounts, history
  <2>2. Story' /\ UNCHANGED phases /\ \A b : PastOf(b) => PastOf(b)'
    BY <1>3, <2>1, CalmStory, CalmPhases, CalmPast, Zenon
  <2>3. JobsPast'
    BY <1>6, <2>2, RelayPast, Zenon
  <2> QED
    BY <2>2, <2>3, Zenon DEF LivesOn
<1>7. ASSUME NEW w \in Workers, NEW kind \in Kinds, NEW e \in Endpoints, NEW s \in SequenceNumbers,
             Final(w, kind, e, s)
      PROVE  LivesOn
  <2>1. job[w] # None /\ job[w].kind = kind /\ job' = [job EXCEPT ![w].final = "done"]
    BY <1>7, Zenon DEF Final
  <2>2. JobsKept
    BY <2>1, FewerJobs, Zenon
  <2>3. CASE kind = "recv" /\ recv_packet(Key[w], job[w].msg)
    <3>1. PICK c \in Clients, q \in Peers, t \in SequenceNumbers : Receives(w, c, q, t)
      BY <2>1, <2>3, RecvEffect, Zenon
    <3>2. CASE UNCHANGED <<receipts, acks, delivered>>
      <4>1. UNCHANGED <<now, commitments, receipts, acks, sent, delivered, outcome, peer>>
        BY <3>1, <3>2, Zenon DEF Receives
      <4> QED
        BY <1>4, <2>2, <4>1, Zenon
    <3>3. CASE ~UNCHANGED <<receipts, acks, delivered>>
      BY <1>2, <1>3, <2>2, <3>1, <3>3, RecvLife, Zenon
    <3> QED
      BY <3>2, <3>3
  <2>4. CASE \/ kind = "ack" /\ ack_packet(Key[w], job[w].msg)
             \/ kind = "timeout" /\ timeout_packet(Key[w], job[w].msg)
    <3>1. PICK c \in Clients, t \in SequenceNumbers, told \in Told : Resolves(w, c, t, told)
      BY <2>1, <2>4, ResolveEffect, Zenon
    <3> QED
      BY <1>2, <1>3, <2>1, <2>2, <3>1, ResolveLife, Zenon
  <2> QED
    BY <1>7, <2>3, <2>4, Zenon DEF Final
<1>8. ASSUME NEW w \in Workers,
             (\E slot \in Slots : Upload(w, slot)) \/ FinalFails(w) \/ Cleanup(w) \/ Crash(w)
      PROVE  LivesOn
  <2>1. /\ UNCHANGED <<now, commitments, receipts, acks, sent, delivered, outcome, peer>>
        /\ job[w] # None
    BY <1>8, Zenon DEF Upload, FinalFails, Cleanup, Crash, upload_chunk, cleanup_chunks,
                       vars, accounts, history
  <2>2. JobsKept
    BY <1>8, <2>1, FewerJobs, Zenon DEF Upload, FinalFails, Cleanup, Crash
  <2> QED
    BY <1>4, <2>1, <2>2, Zenon
<1>9. CASE (Administrators \/ Chains) /\ UNCHANGED relay
  <2>1. JobsKept
    BY <1>1, <1>9, Zenon DEF relay
  <2>2. CASE Administrators
    <3>1. UNCHANGED <<now, commitments, receipts, acks, sent, delivered, outcome, peer>>
      BY <2>2, Zenon DEF Administrators, pause, unpause, add_ibc_app, Freeze, add_client,
                         migrate_client, AdminOnly, accounts, history
    <3> QED
      BY <1>4, <2>1, <3>1, Zenon
  <2>3. CASE Tick
    <3>1. now <= now' /\ peer.time <= peer.time
      <4>1. now \in Timestamps /\ peer \in Stores /\ now' = now + 1
        BY <1>3, <2>3, Zenon DEF Tick, AccountsOK, IInv, PeerOK
      <4>2. peer.time \in Timestamps
        BY <4>1, Zenon DEF Stores
      <4>3. now \in Nat /\ peer.time \in Nat
        BY <4>1, <4>2, Times, Zenon
      <4> QED
        BY ONLY <4>1, <4>3, SMTT(60)
    <3>2. Calm
      BY <2>3, <3>1, Zenon DEF Tick, Calm, accounts, history
    <3> QED
      BY <2>1, <3>2, CalmLife, Zenon
  <2>4. CASE PeerTick
    <3>1. now <= now /\ peer.time <= peer'.time /\ peer'.commitment = peer.commitment
          /\ peer'.receipt = peer.receipt /\ peer'.ack = peer.ack
      <4>1. now \in Timestamps /\ peer \in Stores /\ peer' = [peer EXCEPT !.time = peer.time + 1]
        BY <1>3, <2>4, Zenon DEF PeerTick, AccountsOK, IInv, PeerOK
      <4>2. peer.time \in Timestamps
        BY <4>1, Zenon DEF Stores
      <4>3. now \in Nat /\ peer.time \in Nat
        BY <4>1, <4>2, Times, Zenon
      <4> QED
        BY ONLY <4>1, <4>3, SMTT(60) DEF Stores
    <3>2. Calm
      BY <2>4, <3>1, Zenon DEF PeerTick, PeerOnly, Calm, accounts, history
    <3> QED
      BY <2>1, <3>2, CalmLife, Zenon
  <2>5. ASSUME NEW s \in SequenceNumbers, NEW timeout \in Timestamps, NEW c \in Clients,
               NEW payload \in LocalPayloads, send_packet(c, s, timeout, payload)
        PROVE  LivesOn
    BY <1>2, <1>3, <2>1, <2>5, SendLife, Zenon
  <2>6. ASSUME NEW s \in SequenceNumbers, NEW timeout \in Timestamps, NEW p \in Peers,
               NEW payload \in PeerPayloads, PeerSend(p, s, timeout, payload)
        PROVE  LivesOn
    BY <1>2, <1>3, <2>1, <2>6, PeerSendLife, Zenon
  <2>7. ASSUME NEW s \in SequenceNumbers, NEW c \in Clients, NEW ack \in PeerAcks, PeerRecv(c, s, ack)
        PROVE  LivesOn
    BY <1>2, <1>3, <2>1, <2>7, PeerRecvLife, Zenon
  <2>8. ASSUME NEW s \in SequenceNumbers, NEW p \in Peers, NEW told \in {"confirmed", "timedOut"},
               PeerResolve(p, s, told)
        PROVE  LivesOn
    BY <1>2, <1>3, <2>1, <2>8, PeerResolveLife, Zenon
  <2> QED
    BY <1>9, <2>2, <2>3, <2>4, <2>5, <2>6, <2>7, <2>8, Zenon DEF Chains
<1> QED
  BY <1>5, <1>6, <1>7, <1>8, <1>9, Zenon DEF Next, Work

\* Every packet of either side, when no two clients of the counterparty chain are
\* connected to one client of Solana, goes through the life cycle the Solidity
\* routers implement: executed at most once, its sender told once and told what
\* became of it, and never timed out after it was executed, although messages are
\* proved against blocks that may be arbitrarily old (recv_packet.rs:205-282,
\* ack_packet.rs:156-186, timeout_packet.rs:156-183).
THEOREM Refinement ==
    ASSUME OneCounterparty
    PROVE  Spec => PacketsFollowLifecycle
<1>1. RelayInit => IInv /\ Life /\ Lifecycle!Init
  BY InitIInv, InitLife, InitPhases
<1>2. IInv /\ Life /\ [Next]_allVars => (IInv /\ Life)' /\ [LifecycleNext]_phases
  <2> SUFFICES ASSUME IInv, Life, [Next]_allVars
               PROVE  (IInv /\ Life)' /\ (LifecycleNext \/ UNCHANGED phases)
    OBVIOUS
  <2>1. IInv'
    BY NextIInv, Zenon
  <2>2. AccountsOK' /\ Paired'
    BY NextAccounts, Zenon DEF Life
  <2>3. LivesOn
    BY <2>1, <2>2, NextLife, Zenon
  <2> QED
    BY <2>1, <2>2, <2>3, Zenon DEF LivesOn, Life
<1> QED
  BY <1>1, <1>2, PTL DEF Spec, PacketsFollowLifecycle

=============================================================================
