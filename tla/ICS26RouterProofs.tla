------------------------- MODULE ICS26RouterProofs -------------------------
EXTENDS ICS26Router, TLAPS

(***************************************************************************)
(* The types of ICS26Router, what its transactions do to the three         *)
(* commitments of a packet, and the inductive invariant with what can be   *)
(* read off it, for any chains, clients, payloads and bounds.              *)
(***************************************************************************)

Block == [timestamp : Timestamps, commitments : Store]

-----------------------------------------------------------------------------
(* Facts about the constants. *)

\* A registered client has a chain and an identifier, and the two determine it.
LEMMA EndpointFacts ==
    /\ \A e \in Endpoints :
          /\ Host(e) \in Chains /\ Id(e) \in ClientIds
          /\ Counterparty[e] \in Endpoints /\ Counterparty[Counterparty[e]] = e
    /\ \A e, f \in Endpoints : Host(e) = Host(f) /\ Id(e) = Id(f) => e = f
BY ConstantsAssumption DEF Host, Id

\* The three paths of a client's packet are paths of the store.
LEMMA PathFacts ==
    \A id \in ClientIds, s \in SequenceNumbers :
        /\ packetCommitmentPath(id, s) \in Paths
        /\ packetReceiptCommitmentPath(id, s) \in Paths
        /\ packetAcknowledgementCommitmentPath(id, s) \in Paths
BY Zenon DEF packetCommitmentPath, packetReceiptCommitmentPath,
       packetAcknowledgementCommitmentPath, Paths

\* The values the store holds are not the zero word.
LEMMA CommitmentFacts ==
    /\ \A p \in Packet :
          /\ packetCommitmentBytes32(p) \in PacketCommitments
          /\ packetCommitmentBytes32(p) \in Commitments
          /\ packetCommitmentBytes32(p) # None
          /\ packetReceiptCommitmentBytes32(p) \in Commitments
          /\ packetReceiptCommitmentBytes32(p) # None
    /\ \A a \in Acks :
          /\ packetAcknowledgementCommitmentBytes32(a) \in Commitments
          /\ packetAcknowledgementCommitmentBytes32(a) # None
          /\ a # None
    /\ None \in Commitments
<1>1. \A p \in Packet : packetCommitmentBytes32(p) \in PacketCommitments
  BY Zenon DEF Packet, packetCommitmentBytes32, PacketCommitments
<1>2. \A a \in Acks : packetAcknowledgementCommitmentBytes32(a) \in AckCommitments
  BY Zenon DEF AckCommitments
<1>3. QED
  BY Zenon, <1>1, <1>2, ConstantsAssumption DEF Commitments, packetReceiptCommitmentBytes32

-----------------------------------------------------------------------------
(* Type correctness. *)

\* No packet has been sent and no block finalized.
LEMMA TypeInit == Init => TypeOK
<1> SUFFICES ASSUME Init PROVE TypeOK
  OBVIOUS
<1>1. [path \in Paths |-> None] \in Store
  BY Zenon, CommitmentFacts DEF Store
<1>2. 0 \in Timestamps /\ 0 \in 0..MaxSequence
  BY ConstantsAssumption DEF Timestamps
<1>3. \A c \in Chains : blocks[c] \in Seq(Block) /\ Len(blocks[c]) = 1
  <2> DEFINE genesis == [timestamp |-> 0, commitments |-> [path \in Paths |-> None]]
  <2>1. genesis \in Block
    BY Zenon, <1>1, <1>2 DEF Block
  <2> HIDE DEF genesis
  <2>2. <<genesis>> \in Seq(Block) /\ Len(<<genesis>>) = 1
    BY <2>1
  <2>3. QED
    BY Zenon, <2>2 DEF Init, genesis
<1>4. blocks \in [Chains -> Seq(Block)]
  BY Zenon, <1>3 DEF Init
<1>5. QED
  BY <1>1, <1>2, <1>3, <1>4, EndpointFacts DEF Init, TypeOK, Block, Clients, Packet

Callbacks == [recv : Nat, ack : Nat, timeout : Nat]

\* Counting one more callback of one kind for one packet.
LEMMA CountFacts ==
    ASSUME TypeOK, NEW e \in Endpoints, NEW s \in SequenceNumbers
    PROVE  /\ [callbacks EXCEPT ![e][s].recv = @ + 1] \in [Endpoints -> [SequenceNumbers -> Callbacks]]
           /\ [callbacks EXCEPT ![e][s].ack = @ + 1] \in [Endpoints -> [SequenceNumbers -> Callbacks]]
           /\ [callbacks EXCEPT ![e][s].timeout = @ + 1] \in [Endpoints -> [SequenceNumbers -> Callbacks]]
<1>1. callbacks \in [Endpoints -> [SequenceNumbers -> Callbacks]]
  BY Zenon DEF TypeOK, Callbacks
<1> DEFINE r == callbacks[e][s]
<1>2. r \in Callbacks
  BY Zenon, <1>1
<1>3. /\ [r EXCEPT !.recv = @ + 1] \in Callbacks
      /\ [r EXCEPT !.ack = @ + 1] \in Callbacks
      /\ [r EXCEPT !.timeout = @ + 1] \in Callbacks
  BY <1>2 DEF Callbacks
<1>4. \A x \in Callbacks : [callbacks EXCEPT ![e] = [callbacks[e] EXCEPT ![s] = x]]
                                \in [Endpoints -> [SequenceNumbers -> Callbacks]]
  BY Zenon, <1>1
<1>5. QED
  BY Zenon, <1>3, <1>4

\* A block records a time and a store.
LEMMA TypeFinalizeBlock ==
    ASSUME TypeOK, NEW c \in Chains, FinalizeBlock(c)
    PROVE  TypeOK'
<1> DEFINE b == [timestamp |-> timestamp[c], commitments |-> commitments[c]]
<1>1. b \in Block /\ blocks[c] \in Seq(Block)
  BY ZenonT(20) DEF TypeOK, Block
<1> HIDE DEF b
<1>2. Append(blocks[c], b) \in Seq(Block) /\ Len(Append(blocks[c], b)) = Len(blocks[c]) + 1
  BY <1>1
<1>3. blocks' = [blocks EXCEPT ![c] = Append(blocks[c], b)]
  BY Zenon DEF FinalizeBlock, b
<1>4. blocks' \in [Chains -> Seq(Block)]
  BY ZenonT(20), <1>2, <1>3 DEF TypeOK, Block
<1>5. \A d \in Chains : Len(blocks[d]) \in Nat /\ Len(blocks'[d]) \in Nat /\ Len(blocks[d]) <= Len(blocks'[d])
  BY <1>2, <1>3, <1>4 DEF TypeOK, Block
<1>6. timestamp' \in [Chains -> Timestamps]
  BY ConstantsAssumption DEF FinalizeBlock, TypeOK, Timestamps
<1>7. UNCHANGED <<router, clients, history>>
  BY Zenon DEF FinalizeBlock
<1>8. \A e \in Endpoints : clients'[e].heights \subseteq 1..Len(blocks'[Host(Counterparty[e])])
  BY <1>5, <1>7, EndpointFacts DEF TypeOK
<1>9. QED
  BY ZenonT(20), <1>4, <1>6, <1>7, <1>8 DEF TypeOK, Block, router, history

\* updateClient, submitMisbehaviour and migrateClient write one client.
LEMMA TypeClients ==
    ASSUME TypeOK, NEW e \in Endpoints,
           updateClient(e) \/ submitMisbehaviour(e) \/ migrateClient(e)
    PROVE  TypeOK'
<1>1. \A f \in Endpoints : Len(blocks[Host(Counterparty[f])]) \in Nat
  BY EndpointFacts DEF TypeOK
<1>2. UNCHANGED <<chain, router, history>>
  BY Zenon DEF updateClient, submitMisbehaviour, migrateClient
<1>3. /\ clients' \in [Endpoints -> Clients]
      /\ \A f \in Endpoints : clients'[f].heights \subseteq 1..Len(blocks[Host(Counterparty[f])])
  <2>1. CASE updateClient(e)
    <3>1. PICK h \in 1..Len(blocks[Host(Counterparty[e])]) :
                clients' = [clients EXCEPT ![e].heights = @ \cup {h}]
      BY ZenonT(20), <2>1 DEF updateClient
    <3> DEFINE client == [clients[e] EXCEPT !.heights = @ \cup {h}]
    <3>2. client \in Clients /\ client.heights \subseteq 1..Len(blocks[Host(Counterparty[e])])
      <4>1. /\ clients[e] \in Clients /\ h \in Nat
            /\ clients[e].heights \subseteq 1..Len(blocks[Host(Counterparty[e])])
        BY <1>1 DEF TypeOK
      <4>2. QED
        BY Zenon, <4>1 DEF Clients
    <3>3. clients' = [clients EXCEPT ![e] = client]
      BY Zenon, <3>1
    <3> HIDE DEF client
    <3>4. QED
      BY Zenon, <3>2, <3>3 DEF TypeOK
  <2>2. CASE submitMisbehaviour(e)
    BY ZenonT(20), <2>2 DEF TypeOK, Clients, submitMisbehaviour
  <2>3. CASE migrateClient(e)
    <3>1. PICK h \in 1..Len(blocks[Host(Counterparty[e])]) :
                clients' = [clients EXCEPT ![e] = [frozen |-> FALSE, heights |-> {h}]]
      BY ZenonT(20), <2>3 DEF migrateClient
    <3>2. QED
      BY <1>1, <3>1 DEF TypeOK, Clients
  <2>4. QED
    BY Zenon, <2>1, <2>2, <2>3
<1>4. QED
  BY ZenonT(20), <1>2, <1>3 DEF TypeOK, chain, router, history

\* sendPacket makes a packet of the values it is given.
LEMMA TypeSendPacket ==
    ASSUME TypeOK, NEW e \in Endpoints, NEW app \in Apps, NEW t \in Timestamps,
           NEW payload \in Payloads, sendPacket(e, app, t, payload)
    PROVE  TypeOK'
<1> DEFINE n == nextSequenceSend(e)
           packet == [sequence |-> n, sourceClient |-> Id(e), destClient |-> Id(Counterparty[e]),
                      timeoutTimestamp |-> t, payload |-> payload]
<1>1. n \in SequenceNumbers /\ n \in 0..MaxSequence
  <2>1. prevSequenceSends[e] \in 0..MaxSequence /\ MaxSends[e] \in 0..MaxSequence /\ MaxSequence \in Nat
    BY Zenon, ConstantsAssumption DEF TypeOK
  <2>2. n = prevSequenceSends[e] + 1 /\ n <= MaxSends[e]
    BY Zenon DEF sendPacket, nextSequenceSend
  <2>3. QED
    BY <2>1, <2>2 DEF SequenceNumbers
<1>2. packet \in Packet
  BY Zenon, <1>1, EndpointFacts DEF Packet
<1>3. packetCommitmentBytes32(packet) \in Commitments
  BY Zenon, <1>2, CommitmentFacts
<1>4. /\ prevSequenceSends' = [prevSequenceSends EXCEPT ![e] = n]
      /\ commitments' = [commitments EXCEPT ![Host(e)][packetCommitmentPath(Id(e), n)]
                            = packetCommitmentBytes32(packet)]
      /\ sent' = [sent EXCEPT ![e][n] = packet]
      /\ UNCHANGED <<chain, apps, clients, callbacks, acked>>
  BY Zenon DEF sendPacket, commitPacket
<1> HIDE DEF n, packet
<1>5. commitments' \in [Chains -> Store]
  BY ZenonT(20), <1>3, <1>4, EndpointFacts DEF TypeOK, Store
<1>6. sent' \in [Endpoints -> [SequenceNumbers -> Packet \cup {None}]]
  BY ZenonT(20), <1>2, <1>4 DEF TypeOK
<1>7. QED
  BY ZenonT(20), <1>1, <1>4, <1>5, <1>6 DEF TypeOK, chain

\* recvPacket writes a receipt and an acknowledgement commitment.
LEMMA TypeRecvPacket ==
    ASSUME TypeOK, NEW e \in Endpoints, NEW p \in Packet, NEW h \in Heights, NEW ack \in Acks,
           recvPacket(e, p, h, ack)
    PROVE  TypeOK'
<1>1. p.sequence \in SequenceNumbers
  BY Zenon DEF Packet
<1>2. commitments' \in [Chains -> Store]
  <2>1. packetReceiptCommitmentBytes32(p) \in Commitments /\ packetAcknowledgementCommitmentBytes32(ack) \in Commitments
    BY Zenon, CommitmentFacts
  <2>2. commitments' = [commitments EXCEPT
              ![Host(e)] = [@ EXCEPT ![receiptPath(p)] = packetReceiptCommitmentBytes32(p),
                               ![ackPath(p)] = packetAcknowledgementCommitmentBytes32(ack)]]
    BY Zenon DEF recvPacket
  <2>3. QED
    BY ZenonT(20), <2>1, <2>2, EndpointFacts DEF TypeOK, Store
<1>3. callbacks' \in [Endpoints -> [SequenceNumbers -> [recv : Nat, ack : Nat, timeout : Nat]]]
  BY ZenonT(20), <1>1, CountFacts DEF TypeOK, Callbacks, recvPacket
<1>4. UNCHANGED <<chain, apps, prevSequenceSends, clients, sent, acked>>
  BY Zenon DEF recvPacket
<1>5. QED
  BY ZenonT(20), <1>2, <1>3, <1>4 DEF TypeOK, chain

\* Deleting a commitment leaves a store.
LEMMA TypeDelete ==
    ASSUME TypeOK, NEW e \in Endpoints, NEW p \in Packet, deletePacketCommitment(e, p)
    PROVE  (commitments \in [Chains -> Store])'
BY ZenonT(20), CommitmentFacts, EndpointFacts DEF TypeOK, Store, deletePacketCommitment

\* ackPacket counts one callback and keeps the acknowledgement.
LEMMA TypeAckPacket ==
    ASSUME TypeOK, NEW e \in Endpoints, NEW p \in Packet, NEW h \in Heights, NEW ack \in Acks,
           ackPacket(e, p, ack, h)
    PROVE  TypeOK'
<1>1. p.sequence \in SequenceNumbers
  BY Zenon DEF Packet
<1>2. (commitments \in [Chains -> Store])'
  BY Zenon, TypeDelete DEF ackPacket
<1>3. callbacks' \in [Endpoints -> [SequenceNumbers -> [recv : Nat, ack : Nat, timeout : Nat]]]
  BY ZenonT(20), <1>1, CountFacts DEF Callbacks, ackPacket
<1>4. acked' \in [Endpoints -> [SequenceNumbers -> Acks \cup {None}]]
  BY Zenon, <1>1 DEF TypeOK, ackPacket
<1>5. UNCHANGED <<chain, apps, prevSequenceSends, clients, sent>>
  BY Zenon DEF ackPacket
<1>6. QED
  BY ZenonT(20), <1>2, <1>3, <1>4, <1>5 DEF TypeOK, chain

\* timeoutPacket counts one callback.
LEMMA TypeTimeoutPacket ==
    ASSUME TypeOK, NEW e \in Endpoints, NEW p \in Packet, NEW h \in Heights,
           timeoutPacket(e, p, h)
    PROVE  TypeOK'
<1>1. p.sequence \in SequenceNumbers
  BY Zenon DEF Packet
<1>2. (commitments \in [Chains -> Store])'
  BY Zenon, TypeDelete DEF timeoutPacket
<1>3. callbacks' \in [Endpoints -> [SequenceNumbers -> [recv : Nat, ack : Nat, timeout : Nat]]]
  BY ZenonT(20), <1>1, CountFacts DEF Callbacks, timeoutPacket
<1>4. UNCHANGED <<chain, apps, prevSequenceSends, clients, sent, acked>>
  BY Zenon DEF timeoutPacket
<1>5. QED
  BY ZenonT(20), <1>2, <1>3, <1>4 DEF TypeOK, chain

-----------------------------------------------------------------------------
(* What each transaction does to the three commitments of every packet. *)

StoreUnchanged ==
    \A f \in Endpoints, r \in SequenceNumbers :
        /\ committed(f, r)' = committed(f, r)
        /\ received(f, r)' = received(f, r)
        /\ acknowledged(f, r)' = acknowledged(f, r)

\* Whoever leaves the store alone leaves the three commitments of a packet alone.
LEMMA FrameStore ==
    ASSUME UNCHANGED commitments
    PROVE  StoreUnchanged
BY Zenon DEF StoreUnchanged, committed, received, acknowledged

\* Distinct clients and distinct packets have distinct places in the store.
LEMMA PathsDisjoint ==
    ASSUME NEW e \in Endpoints, NEW f \in Endpoints, NEW s \in SequenceNumbers, NEW r \in SequenceNumbers
    PROVE  /\ <<Id(f), 1, r>> # <<Id(e), 2, s>> /\ <<Id(f), 1, r>> # <<Id(e), 3, s>>
           /\ <<Id(f), 2, r>> # <<Id(e), 1, s>> /\ <<Id(f), 2, r>> # <<Id(e), 3, s>>
           /\ <<Id(f), 3, r>> # <<Id(e), 1, s>> /\ <<Id(f), 3, r>> # <<Id(e), 2, s>>
           /\ \A k \in {1, 2, 3} : <<Id(f), k, r>> = <<Id(e), k, s>> <=> Id(f) = Id(e) /\ r = s
OBVIOUS

\* Writing a packet commitment changes that of one packet of one client.
LEMMA WriteCommitment ==
    ASSUME TypeOK, NEW e \in Endpoints, NEW s \in SequenceNumbers, NEW x,
           commitments' = [commitments EXCEPT ![Host(e)][packetCommitmentPath(Id(e), s)] = x]
    PROVE  \A f \in Endpoints, r \in SequenceNumbers :
              /\ committed(f, r)' = IF f = e /\ r = s THEN x ELSE committed(f, r)
              /\ received(f, r)' = received(f, r)
              /\ acknowledged(f, r)' = acknowledged(f, r)
<1> SUFFICES ASSUME NEW f \in Endpoints, NEW r \in SequenceNumbers
             PROVE  /\ committed(f, r)' = IF f = e /\ r = s THEN x ELSE committed(f, r)
                    /\ received(f, r)' = received(f, r)
                    /\ acknowledged(f, r)' = acknowledged(f, r)
  OBVIOUS
<1>1. commitments \in [Chains -> [Paths -> Commitments]]
  BY Zenon DEF TypeOK, Store
<1>2. QED
  BY <1>1, EndpointFacts, PathFacts, PathsDisjoint
     DEF committed, received, acknowledged, packetCommitmentPath, packetReceiptCommitmentPath,
         packetAcknowledgementCommitmentPath

\* The store of e holds a receipt x and an acknowledgement y of packet s, too.
ReceiptWritten(e, s, x, y) ==
    /\ \A c \in Chains : c # Host(e) => commitments'[c] = commitments[c]
    /\ \A path \in Paths :
          commitments'[Host(e)][path] =
              IF path = packetAcknowledgementCommitmentPath(Id(e), s) THEN y
              ELSE IF path = packetReceiptCommitmentPath(Id(e), s) THEN x
              ELSE commitments[Host(e)][path]

\* Writing a receipt and an acknowledgement changes those of one packet.
LEMMA WriteReceipt ==
    ASSUME NEW e \in Endpoints, NEW s \in SequenceNumbers, NEW x, NEW y, ReceiptWritten(e, s, x, y)
    PROVE  \A f \in Endpoints, r \in SequenceNumbers :
              /\ committed(f, r)' = committed(f, r)
              /\ received(f, r)' = IF f = e /\ r = s THEN x ELSE received(f, r)
              /\ acknowledged(f, r)' = IF f = e /\ r = s THEN y ELSE acknowledged(f, r)
<1>0. /\ \A c \in Chains : c # Host(e) => commitments'[c] = commitments[c]
      /\ \A path \in Paths :
            commitments'[Host(e)][path] =
                IF path = packetAcknowledgementCommitmentPath(Id(e), s) THEN y
                ELSE IF path = packetReceiptCommitmentPath(Id(e), s) THEN x
                ELSE commitments[Host(e)][path]
  BY Zenon DEF ReceiptWritten
<1> SUFFICES ASSUME NEW f \in Endpoints, NEW r \in SequenceNumbers
             PROVE  /\ committed(f, r)' = committed(f, r)
                    /\ received(f, r)' = IF f = e /\ r = s THEN x ELSE received(f, r)
                    /\ acknowledged(f, r)' = IF f = e /\ r = s THEN y ELSE acknowledged(f, r)
  OBVIOUS
<1>1. CASE Host(f) # Host(e)
  BY Zenon, <1>0, <1>1, EndpointFacts DEF committed, received, acknowledged
<1>2. CASE Host(f) = Host(e)
  <2> USE DEF packetCommitmentPath, packetReceiptCommitmentPath, packetAcknowledgementCommitmentPath
  <2>1. <<Id(f), 1, r>> \in Paths /\ <<Id(f), 2, r>> \in Paths /\ <<Id(f), 3, r>> \in Paths
    BY Zenon, EndpointFacts, PathFacts
  <2>2. Id(f) = Id(e) <=> f = e
    BY Zenon, <1>2, EndpointFacts
  <2>3. commitments'[Host(e)][<<Id(f), 1, r>>] = commitments[Host(e)][<<Id(f), 1, r>>]
    <3>1. <<Id(f), 1, r>> # <<Id(e), 2, s>> /\ <<Id(f), 1, r>> # <<Id(e), 3, s>>
      OBVIOUS
    <3>2. QED
      BY Zenon, <1>0, <2>1, <3>1
  <2>4. commitments'[Host(e)][<<Id(f), 2, r>>] =
            IF f = e /\ r = s THEN x ELSE commitments[Host(e)][<<Id(f), 2, r>>]
    <3>1. <<Id(f), 2, r>> # <<Id(e), 3, s>> /\ (<<Id(f), 2, r>> = <<Id(e), 2, s>> <=> f = e /\ r = s)
      BY <2>2
    <3>2. QED
      BY Zenon, <1>0, <2>1, <3>1
  <2>5. commitments'[Host(e)][<<Id(f), 3, r>>] =
            IF f = e /\ r = s THEN y ELSE commitments[Host(e)][<<Id(f), 3, r>>]
    <3>1. <<Id(f), 3, r>> = <<Id(e), 3, s>> <=> f = e /\ r = s
      BY <2>2
    <3>2. QED
      BY Zenon, <1>0, <2>1, <3>1
  <2>6. QED
    BY Zenon, <1>2, <2>3, <2>4, <2>5 DEF committed, received, acknowledged
<1>3. QED
  BY Zenon, <1>1, <1>2

-----------------------------------------------------------------------------
(* What the finalised blocks of a client's host chain show of its packets. *)

lastBlock(e) == Len(blocks[Host(e)])
blockTime(e, h) == blocks[Host(e)][h].timestamp
now(e) == timestamp[Host(e)]
committedAt(e, h, s) == blocks[Host(e)][h].commitments[packetCommitmentPath(Id(e), s)]
receivedAt(e, h, s) == blocks[Host(e)][h].commitments[packetReceiptCommitmentPath(Id(e), s)]
acknowledgedAt(e, h, s) == blocks[Host(e)][h].commitments[packetAcknowledgementCommitmentPath(Id(e), s)]

-----------------------------------------------------------------------------
(***************************************************************************)
(* The inductive invariant.                                                *)
(***************************************************************************)
\* The packets sent are numbered without gaps and name the two clients, and
\* no sender is called back for a packet it has not sent.
SentInOrder ==
    \A e \in Endpoints, s \in SequenceNumbers :
        /\ sent[e][s] # None <=> s <= prevSequenceSends[e]
        /\ sent[e][s] = None => callbacks[e][s].ack = 0 /\ callbacks[e][s].timeout = 0
        /\ sent[e][s] # None => /\ sent[e][s].sequence = s
                                /\ sent[e][s].sourceClient = Id(e)
                                /\ sent[e][s].destClient = Id(Counterparty[e])

\* A packet commitment a block shows is that of the packet sent.
CommitmentsAreSent ==
    \A e \in Endpoints, s \in SequenceNumbers : \A h \in 1..lastBlock(e) :
        committedAt(e, h, s) # None =>
            sent[e][s] # None /\ committedAt(e, h, s) = packetCommitmentBytes32(sent[e][s])

\* Receipts and acknowledgements are never changed, and blocks are of the past.
BlocksPersist ==
    \A e \in Endpoints, s \in SequenceNumbers : \A h \in 1..lastBlock(e) :
        /\ receivedAt(e, h, s) # None => receivedAt(e, h, s) = received(e, s)
        /\ acknowledgedAt(e, h, s) # None => acknowledgedAt(e, h, s) = acknowledged(e, s)
        /\ blockTime(e, h) <= now(e)

\* A receipt is of the packet the counterparty sent.
ReceiptsAreSent ==
    \A e \in Endpoints, s \in SequenceNumbers :
        received(e, s) # None => received(e, s) = sent[Counterparty[e]][s]

\* A packet is received before its timeout: every later block shows it.
ReceivedInTime ==
    \A e \in Endpoints, s \in SequenceNumbers : \A h \in 1..lastBlock(e) :
        received(e, s) # None /\ receivedAt(e, h, s) = None =>
            blockTime(e, h) < sent[Counterparty[e]][s].timeoutTimestamp

\* A receipt and an acknowledgement are written together, and the
\* acknowledgement tells whether the callback took effect.
AckedWithReceipt ==
    \A e \in Endpoints, s \in SequenceNumbers :
        \/ /\ received(e, s) = None /\ acknowledged(e, s) = None
           /\ callbacks[e][s].recv = 0
        \/ /\ received(e, s) # None
           /\ acknowledged(e, s) = packetAcknowledgementCommitmentBytes32(UNIVERSAL_ERROR_ACK)
           /\ callbacks[e][s].recv = 0
        \/ /\ received(e, s) # None
           /\ \E ack \in AppAcks : acknowledged(e, s) = packetAcknowledgementCommitmentBytes32(ack)
           /\ callbacks[e][s].recv = 1

\* A timeout was proved by a block past the timeout that shows no receipt.
TimeoutsAreProved ==
    \A e \in Endpoints, s \in SequenceNumbers :
        callbacks[e][s].timeout > 0 =>
            \E h \in 1..lastBlock(Counterparty[e]) :
                /\ receivedAt(Counterparty[e], h, s) = None
                /\ blockTime(Counterparty[e], h) >= sent[e][s].timeoutTimestamp

\* An acknowledgement handed to the sender is the one the receiver wrote.
AcksAreWritten ==
    \A e \in Endpoints, s \in SequenceNumbers :
        /\ callbacks[e][s].ack > 0 => acked[e][s] # None
        /\ acked[e][s] # None =>
            acknowledged(Counterparty[e], s) = packetAcknowledgementCommitmentBytes32(acked[e][s])

IInv ==
    /\ TypeOK
    /\ SentInOrder
    /\ CommitmentsAreSent
    /\ BlocksPersist
    /\ ReceiptsAreSent
    /\ ReceivedInTime
    /\ AckedWithReceipt
    /\ TimeoutsAreProved
    /\ AcksAreWritten
    /\ CommittedUntilResolved
    /\ ResolvedAtMostOnce

-----------------------------------------------------------------------------
(* Reading the invariant. *)

\* No block changes but for the one a chain finalises.
LEMMA FrameBlocks ==
    ASSUME UNCHANGED chain
    PROVE  \A e \in Endpoints :
              /\ lastBlock(e)' = lastBlock(e) /\ now(e)' = now(e)
              /\ \A h \in 1..lastBlock(e) :
                    /\ blockTime(e, h)' = blockTime(e, h)
                    /\ \A s \in SequenceNumbers :
                          /\ committedAt(e, h, s)' = committedAt(e, h, s)
                          /\ receivedAt(e, h, s)' = receivedAt(e, h, s)
                          /\ acknowledgedAt(e, h, s)' = acknowledgedAt(e, h, s)
BY Zenon DEF chain, lastBlock, now, blockTime, committedAt, receivedAt, acknowledgedAt

\* What blocks show stays proved while no chain adds one.
LEMMA KeepCommitments ==
    ASSUME CommitmentsAreSent, UNCHANGED chain, sent' = sent
    PROVE  CommitmentsAreSent'
<1>1. \A e \in Endpoints :
        /\ lastBlock(e)' = lastBlock(e)
        /\ \A s \in SequenceNumbers, h \in 1..lastBlock(e) : committedAt(e, h, s)' = committedAt(e, h, s)
  BY Zenon, FrameBlocks
<1>2. QED
  BY <1>1, ZenonT(40) DEF CommitmentsAreSent

\* The proofs behind timeouts remain.
LEMMA KeepTimeouts ==
    ASSUME TimeoutsAreProved, UNCHANGED chain, sent' = sent,
           \A e \in Endpoints, s \in SequenceNumbers : callbacks'[e][s].timeout = callbacks[e][s].timeout
    PROVE  TimeoutsAreProved'
<1>1. \A e \in Endpoints :
        /\ Counterparty[e] \in Endpoints
        /\ lastBlock(Counterparty[e])' = lastBlock(Counterparty[e])
        /\ \A s \in SequenceNumbers, h \in 1..lastBlock(Counterparty[e]) :
              /\ receivedAt(Counterparty[e], h, s)' = receivedAt(Counterparty[e], h, s)
              /\ blockTime(Counterparty[e], h)' = blockTime(Counterparty[e], h)
  BY Zenon, EndpointFacts, FrameBlocks
<1>2. SUFFICES ASSUME NEW e \in Endpoints, NEW s \in SequenceNumbers, callbacks'[e][s].timeout > 0
               PROVE  \E h \in 1..lastBlock(Counterparty[e])' :
                          /\ receivedAt(Counterparty[e], h, s)' = None
                          /\ blockTime(Counterparty[e], h)' >= sent'[e][s].timeoutTimestamp
  BY Zenon DEF TimeoutsAreProved
<1>3. PICK h \in 1..lastBlock(Counterparty[e]) :
         receivedAt(Counterparty[e], h, s) = None /\ blockTime(Counterparty[e], h) >= sent[e][s].timeoutTimestamp
  <2>1. callbacks[e][s].timeout > 0
    BY Zenon, <1>2
  <2>2. QED
    BY Zenon, <2>1 DEF TimeoutsAreProved
<1>4. QED
  BY Zenon, <1>1, <1>3

\* Two packets with the same identifiers and the same commitment are the same.
LEMMA CommitmentInjective ==
    ASSUME NEW p \in Packet, NEW q \in Packet, p.sequence = q.sequence,
           p.sourceClient = q.sourceClient,
           packetCommitmentBytes32(p) = packetCommitmentBytes32(q)
    PROVE  p = q
<1>1. p.destClient = q.destClient /\ p.timeoutTimestamp = q.timeoutTimestamp /\ p.payload = q.payload
  BY Zenon DEF packetCommitmentBytes32
<1>2. QED
  BY <1>1 DEF Packet

\* What the typing says of one packet.
LEMMA PacketTypes ==
    ASSUME TypeOK, NEW e \in Endpoints, NEW s \in SequenceNumbers
    PROVE  /\ sent[e][s] # None => sent[e][s] \in Packet
           /\ callbacks[e][s].recv \in Nat /\ callbacks[e][s].ack \in Nat /\ callbacks[e][s].timeout \in Nat
           /\ acked[e][s] # None => acked[e][s] \in Acks
           /\ prevSequenceSends[e] \in Nat /\ s \in Nat
           /\ lastBlock(e) \in Nat /\ now(e) \in Timestamps
           /\ \A h \in 1..lastBlock(e) : blockTime(e, h) \in Timestamps
<1>1. Host(e) \in Chains
  BY Zenon, EndpointFacts
<1>2. blocks[Host(e)] \in Seq(Block)
  BY ZenonT(20), <1>1 DEF TypeOK, Block
<1>3. \A h \in 1..Len(blocks[Host(e)]) : blocks[Host(e)][h] \in Block
  BY <1>2
<1>4. \A h \in 1..lastBlock(e) : blockTime(e, h) \in Timestamps
  BY Zenon, <1>3 DEF lastBlock, blockTime, Block
<1>5. lastBlock(e) \in Nat /\ now(e) \in Timestamps
  BY <1>1, <1>2 DEF TypeOK, lastBlock, now
<1>6. callbacks[e][s] \in [recv : Nat, ack : Nat, timeout : Nat]
  BY Zenon DEF TypeOK
<1>7. sent[e][s] \in Packet \cup {None} /\ acked[e][s] \in Acks \cup {None}
  BY Zenon DEF TypeOK
<1>8. prevSequenceSends[e] \in Nat /\ s \in Nat
  BY DEF TypeOK, SequenceNumbers
<1>9. QED
  BY Zenon, <1>4, <1>5, <1>6, <1>7, <1>8

\* A packet that recvPacket verified is the one the counterparty sent.
LEMMA VerifiedIsSent ==
    ASSUME IInv, NEW e \in Endpoints, NEW p \in Packet, NEW h, recvPacketVerified(e, p, h)
    PROVE  /\ p.sequence \in SequenceNumbers
           /\ p = sent[Counterparty[e]][p.sequence]
           /\ now(e) < p.timeoutTimestamp
<1> DEFINE f == Counterparty[e]
           s == p.sequence
<1>1. f \in Endpoints /\ s \in SequenceNumbers
  BY Zenon, EndpointFacts DEF Packet
<1>2. h \in 1..lastBlock(f) /\ committedAt(f, h, s) = packetCommitmentBytes32(p)
  BY Zenon DEF recvPacketVerified, verifyMembership, Verifiable, CounterpartyBlock, IInv, TypeOK,
         lastBlock, committedAt
<1>3. sent[f][s] # None /\ packetCommitmentBytes32(sent[f][s]) = packetCommitmentBytes32(p)
  BY Zenon, <1>1, <1>2, CommitmentFacts DEF IInv, CommitmentsAreSent
<1>4. sent[f][s] \in Packet /\ sent[f][s].sequence = s /\ sent[f][s].sourceClient = p.sourceClient
  BY Zenon, <1>1, <1>3, PacketTypes DEF IInv, SentInOrder, recvPacketVerified
<1>5. p = sent[f][s]
  BY Zenon, <1>3, <1>4, CommitmentInjective
<1>6. now(e) < p.timeoutTimestamp
  <2>1. now(e) \in Timestamps /\ p.timeoutTimestamp \in Timestamps
    BY Zenon, <1>1, PacketTypes DEF IInv, Packet
  <2>2. QED
    BY Zenon, <2>1 DEF recvPacketVerified, notTimedOut, now, Timestamps
<1>7. QED
  BY Zenon, <1>1, <1>5, <1>6

-----------------------------------------------------------------------------
(* It holds initially and finalising a block preserves it. *)

\* Nothing was sent, received or called back at first.
LEMMA InvInit == Init => IInv
<1> SUFFICES ASSUME Init PROVE IInv
  OBVIOUS
<1>1. TypeOK
  BY Zenon, TypeInit
<1>2. \A e \in Endpoints, s \in SequenceNumbers :
        /\ committed(e, s) = None /\ received(e, s) = None /\ acknowledged(e, s) = None
        /\ sent[e][s] = None /\ acked[e][s] = None /\ prevSequenceSends[e] = 0
        /\ callbacks[e][s] = [recv |-> 0, ack |-> 0, timeout |-> 0]
  BY Zenon, EndpointFacts, PathFacts DEF Init, committed, received, acknowledged
<1>3. \A e \in Endpoints : \A h \in 1..lastBlock(e) :
        /\ blockTime(e, h) = 0 /\ now(e) = 0
        /\ \A s \in SequenceNumbers :
              committedAt(e, h, s) = None /\ receivedAt(e, h, s) = None /\ acknowledgedAt(e, h, s) = None
  <2> SUFFICES ASSUME NEW e \in Endpoints, NEW h \in 1..lastBlock(e)
               PROVE  /\ blockTime(e, h) = 0 /\ now(e) = 0
                      /\ \A s \in SequenceNumbers : /\ committedAt(e, h, s) = None
                                                    /\ receivedAt(e, h, s) = None
                                                    /\ acknowledgedAt(e, h, s) = None
    OBVIOUS
  <2>1. blocks[Host(e)] = <<[timestamp |-> 0, commitments |-> [path \in Paths |-> None]]>> /\ now(e) = 0
    BY Zenon, EndpointFacts DEF Init, now
  <2>2. h = 1
    BY <2>1 DEF lastBlock
  <2>3. QED
    BY <2>1, <2>2, EndpointFacts, PathFacts DEF blockTime, committedAt, receivedAt, acknowledgedAt
<1>4. SentInOrder /\ CommittedUntilResolved /\ ResolvedAtMostOnce
  BY <1>2 DEF SentInOrder, CommittedUntilResolved, ResolvedAtMostOnce, SequenceNumbers
<1>5. CommitmentsAreSent /\ BlocksPersist /\ ReceiptsAreSent /\ ReceivedInTime
  BY <1>2, <1>3 DEF CommitmentsAreSent, BlocksPersist, ReceiptsAreSent, ReceivedInTime
<1>6. AckedWithReceipt /\ TimeoutsAreProved /\ AcksAreWritten
  BY <1>2 DEF AckedWithReceipt, TimeoutsAreProved, AcksAreWritten
<1>7. QED
  BY Zenon, <1>1, <1>4, <1>5, <1>6 DEF IInv

\* The client operations, a new application, and the no-ops leave alone
\* everything the invariant speaks of.
LEMMA InvUntouched ==
    ASSUME IInv, TypeOK', UNCHANGED <<chain, prevSequenceSends, commitments, history>>
    PROVE  IInv'
<1>1. StoreUnchanged
  BY Zenon, FrameStore
<1> USE FrameBlocks, <1>1 DEF history, StoreUnchanged
<1>2. SentInOrder' /\ CommittedUntilResolved' /\ ResolvedAtMostOnce'
  BY DEF IInv, SentInOrder, CommittedUntilResolved, ResolvedAtMostOnce
<1>3. CommitmentsAreSent' /\ BlocksPersist'
  <2>1. CommitmentsAreSent /\ BlocksPersist
    BY Zenon DEF IInv
  <2>2. CommitmentsAreSent'
    BY Zenon, <2>1, KeepCommitments
  <2>3. BlocksPersist'
    <3> SUFFICES ASSUME NEW e \in Endpoints, NEW s \in SequenceNumbers, NEW h \in 1..lastBlock(e)'
                 PROVE  /\ receivedAt(e, h, s)' # None => receivedAt(e, h, s)' = received(e, s)'
                        /\ acknowledgedAt(e, h, s)' # None => acknowledgedAt(e, h, s)' = acknowledged(e, s)'
                        /\ blockTime(e, h)' <= now(e)'
      BY Zenon DEF BlocksPersist
    <3>1. h \in 1..lastBlock(e)
      BY Zenon
    <3>2. /\ receivedAt(e, h, s)' = receivedAt(e, h, s) /\ acknowledgedAt(e, h, s)' = acknowledgedAt(e, h, s)
          /\ blockTime(e, h)' = blockTime(e, h) /\ now(e)' = now(e)
          /\ received(e, s)' = received(e, s) /\ acknowledged(e, s)' = acknowledged(e, s)
      BY Zenon, <3>1
    <3> QED
      BY Zenon, <2>1, <3>1, <3>2 DEF BlocksPersist
  <2>4. QED
    BY Zenon, <2>2, <2>3
<1>4. ReceiptsAreSent' /\ ReceivedInTime'
  BY SMTT(40), EndpointFacts DEF IInv, ReceiptsAreSent, ReceivedInTime
<1>5. AckedWithReceipt' /\ AcksAreWritten'
  BY EndpointFacts DEF IInv, AckedWithReceipt, AcksAreWritten
<1>6. TimeoutsAreProved'
  BY EndpointFacts DEF IInv, TimeoutsAreProved
<1>7. QED
  BY Zenon, <1>2, <1>3, <1>4, <1>5, <1>6 DEF IInv

\* The block a chain finalises shows its store; the others stay.
LEMMA BlockEffect ==
    ASSUME TypeOK, NEW c \in Chains, FinalizeBlock(c), NEW e \in Endpoints
    PROVE  /\ lastBlock(e) \in Nat /\ lastBlock(e)' \in Nat /\ lastBlock(e) <= lastBlock(e)'
           /\ now(e)' >= now(e)
           /\ \A h \in 1..lastBlock(e) :
                 /\ blockTime(e, h)' = blockTime(e, h)
                 /\ \A s \in SequenceNumbers :
                       /\ committedAt(e, h, s)' = committedAt(e, h, s)
                       /\ receivedAt(e, h, s)' = receivedAt(e, h, s)
                       /\ acknowledgedAt(e, h, s)' = acknowledgedAt(e, h, s)
           /\ \A h \in (1..lastBlock(e)') \ (1..lastBlock(e)) :
                 /\ blockTime(e, h)' = now(e)
                 /\ \A s \in SequenceNumbers :
                       /\ committedAt(e, h, s)' = committed(e, s)
                       /\ receivedAt(e, h, s)' = received(e, s)
                       /\ acknowledgedAt(e, h, s)' = acknowledged(e, s)
<1> DEFINE b == [timestamp |-> timestamp[c], commitments |-> commitments[c]]
<1>1. Host(e) \in Chains /\ blocks[Host(e)] \in Seq(Block) /\ blocks[c] \in Seq(Block) /\ b \in Block
  BY ZenonT(20), EndpointFacts DEF TypeOK, Block
<1>2. blocks' = [blocks EXCEPT ![c] = Append(blocks[c], b)]
  BY Zenon DEF FinalizeBlock
<1>3. timestamp'[Host(e)] >= timestamp[Host(e)]
  <2>1. PICK t \in timestamp[c]..MaxTimestamp : timestamp' = [timestamp EXCEPT ![c] = t]
    BY ZenonT(20) DEF FinalizeBlock
  <2>2. timestamp[c] \in Int /\ timestamp[Host(e)] \in Int
    BY <1>1 DEF TypeOK, Timestamps
  <2>3. t \in Int /\ t >= timestamp[c]
    BY SMTT(40), <2>2, ConstantsAssumption
  <2>4. QED
    BY <1>1, <2>1, <2>2, <2>3 DEF TypeOK
<1> HIDE DEF b
<1>4. CASE Host(e) # c
  <2>1. blocks'[Host(e)] = blocks[Host(e)]
    BY Zenon, <1>1, <1>2, <1>4 DEF TypeOK
  <2>2. Len(blocks[Host(e)]) \in Nat
    BY <1>1
  <2>3. QED
    BY <1>3, <2>1, <2>2 DEF lastBlock, now, blockTime, committedAt, receivedAt, acknowledgedAt
<1>5. CASE Host(e) = c
  <2>1. blocks'[Host(e)] = Append(blocks[Host(e)], b)
    BY Zenon, <1>1, <1>2, <1>5 DEF TypeOK
  <2>2. /\ Len(blocks[Host(e)]) \in Nat /\ Len(blocks'[Host(e)]) = Len(blocks[Host(e)]) + 1
        /\ \A h \in 1..Len(blocks[Host(e)]) : blocks'[Host(e)][h] = blocks[Host(e)][h]
        /\ blocks'[Host(e)][Len(blocks[Host(e)]) + 1] = b
    BY <1>1, <2>1
  <2>3. \A h \in (1..lastBlock(e)') \ (1..lastBlock(e)) : blocks'[Host(e)][h] = b
    BY <2>2 DEF lastBlock
  <2>4. b.timestamp = timestamp[Host(e)] /\ b.commitments = commitments[Host(e)]
    BY Zenon, <1>5 DEF b
  <2>5. lastBlock(e) \in Nat /\ lastBlock(e)' \in Nat /\ lastBlock(e) <= lastBlock(e)' /\ now(e)' >= now(e)
    BY <1>3, <2>2 DEF lastBlock, now
  <2>6. \A h \in 1..lastBlock(e) : blocks'[Host(e)][h] = blocks[Host(e)][h]
    BY Zenon, <2>2 DEF lastBlock
  <2>7. QED
    BY Zenon, <2>3, <2>4, <2>5, <2>6
       DEF now, blockTime, committedAt, receivedAt, acknowledgedAt, committed, received, acknowledged
<1>6. QED
  BY Zenon, <1>4, <1>5

\* A new block shows the store and the time of now.
LEMMA InvFinalizeBlock ==
    ASSUME IInv, NEW c \in Chains, FinalizeBlock(c)
    PROVE  IInv'
<1>1. TypeOK /\ TypeOK'
  BY Zenon, TypeFinalizeBlock DEF IInv
<1>2. UNCHANGED <<prevSequenceSends, commitments, sent, callbacks, acked>> /\ StoreUnchanged
  BY Zenon, FrameStore DEF FinalizeBlock, router, history
<1>3. SentInOrder' /\ CommittedUntilResolved' /\ ResolvedAtMostOnce'
  BY SMTT(40), <1>2 DEF IInv, SentInOrder, CommittedUntilResolved, ResolvedAtMostOnce, StoreUnchanged
<1>4. ReceiptsAreSent' /\ AckedWithReceipt' /\ AcksAreWritten'
  BY <1>2, EndpointFacts
     DEF IInv, ReceiptsAreSent, AckedWithReceipt, AcksAreWritten, StoreUnchanged
<1>5. CommitmentsAreSent'
  <2> SUFFICES ASSUME NEW e \in Endpoints, NEW s \in SequenceNumbers, NEW h \in 1..lastBlock(e)',
                      committedAt(e, h, s)' # None
               PROVE  sent[e][s] # None /\ committedAt(e, h, s)' = packetCommitmentBytes32(sent[e][s])
    BY Zenon, <1>2 DEF CommitmentsAreSent
  <2>1. CASE h \in 1..lastBlock(e)
    BY Zenon, <1>1, <2>1, BlockEffect DEF IInv, CommitmentsAreSent
  <2>2. CASE h \notin 1..lastBlock(e)
    BY Zenon, <1>1, <2>2, BlockEffect DEF IInv, CommittedUntilResolved
  <2>3. QED
    BY Zenon, <2>1, <2>2
<1>6. BlocksPersist'
  <2> SUFFICES ASSUME NEW e \in Endpoints, NEW s \in SequenceNumbers, NEW h \in 1..lastBlock(e)'
               PROVE  /\ receivedAt(e, h, s)' # None => receivedAt(e, h, s)' = received(e, s)
                      /\ acknowledgedAt(e, h, s)' # None => acknowledgedAt(e, h, s)' = acknowledged(e, s)
                      /\ blockTime(e, h)' <= now(e)'
    BY Zenon, <1>2 DEF BlocksPersist, StoreUnchanged
  <2>1. now(e) \in Int /\ now(e)' \in Int /\ now(e)' >= now(e)
    <3>1. now(e) \in Timestamps /\ now(e)' \in Timestamps
      BY Zenon, <1>1, EndpointFacts DEF TypeOK, now
    <3>2. QED
      BY <1>1, <3>1, BlockEffect DEF Timestamps
  <2>2. CASE h \in 1..lastBlock(e)
    <3>1. blockTime(e, h) \in Int /\ blockTime(e, h) <= now(e)
      BY <1>1, <2>2, PacketTypes DEF IInv, BlocksPersist, Timestamps
    <3>2. QED
      BY SMTT(40), <1>1, <2>1, <2>2, <3>1, BlockEffect DEF IInv, BlocksPersist
  <2>3. CASE h \notin 1..lastBlock(e)
    BY Zenon, <1>1, <2>1, <2>3, BlockEffect
  <2>4. QED
    BY Zenon, <2>2, <2>3
<1>7. ReceivedInTime'
  <2> SUFFICES ASSUME NEW e \in Endpoints, NEW s \in SequenceNumbers, NEW h \in 1..lastBlock(e)',
                      received(e, s) # None, receivedAt(e, h, s)' = None
               PROVE  blockTime(e, h)' < sent[Counterparty[e]][s].timeoutTimestamp
    BY Zenon, <1>2 DEF ReceivedInTime, StoreUnchanged
  <2>1. h \in 1..lastBlock(e)
    BY Zenon, <1>1, BlockEffect
  <2>2. QED
    BY Zenon, <1>1, <2>1, BlockEffect DEF IInv, ReceivedInTime
<1>8. TimeoutsAreProved'
  <2> SUFFICES ASSUME NEW e \in Endpoints, NEW s \in SequenceNumbers, callbacks[e][s].timeout > 0
               PROVE  \E h \in 1..lastBlock(Counterparty[e])' :
                          /\ receivedAt(Counterparty[e], h, s)' = None
                          /\ blockTime(Counterparty[e], h)' >= sent[e][s].timeoutTimestamp
    BY Zenon, <1>2 DEF TimeoutsAreProved
  <2> DEFINE f == Counterparty[e]
  <2>1. f \in Endpoints
    BY Zenon, EndpointFacts
  <2>2. PICK h \in 1..lastBlock(f) :
            receivedAt(f, h, s) = None /\ blockTime(f, h) >= sent[e][s].timeoutTimestamp
    BY Zenon DEF IInv, TimeoutsAreProved
  <2>3. h \in 1..lastBlock(f)' /\ receivedAt(f, h, s)' = receivedAt(f, h, s) /\ blockTime(f, h)' = blockTime(f, h)
    BY <1>1, <2>1, BlockEffect
  <2>4. QED
    BY Zenon, <2>2, <2>3
<1>9. QED
  BY Zenon, <1>1, <1>3, <1>4, <1>5, <1>6, <1>7, <1>8 DEF IInv


(***************************************************************************)
(* sendPacket and recvPacket preserve the inductive invariant.             *)
(***************************************************************************)

\* The packet sendPacket sends.
packetOf(e, t, payload) ==
    [sequence |-> nextSequenceSend(e), sourceClient |-> Id(e), destClient |-> Id(Counterparty[e]),
     timeoutTimestamp |-> t, payload |-> payload]

\* What sendPacket does: the packet is new in every respect.
Sending(e, n, packet) ==
    /\ UNCHANGED <<chain, callbacks, acked>>
    /\ n \in SequenceNumbers /\ packet \in Packet
    /\ prevSequenceSends[e] \in Nat /\ n = prevSequenceSends[e] + 1
    /\ \A f \in Endpoints : prevSequenceSends'[f] = IF f = e THEN n ELSE prevSequenceSends[f]
    /\ \A f \in Endpoints, r \in SequenceNumbers :
          /\ committed(f, r)' = IF f = e /\ r = n THEN packetCommitmentBytes32(packet)
                                ELSE committed(f, r)
          /\ received(f, r)' = received(f, r)
          /\ acknowledged(f, r)' = acknowledged(f, r)
          /\ sent'[f][r] = IF f = e /\ r = n THEN packet ELSE sent[f][r]
    /\ packet # None /\ packetCommitmentBytes32(packet) # None /\ sent[e][n] = None
    /\ received(Counterparty[e], n) = None /\ acknowledged(Counterparty[e], n) = None
    /\ callbacks[e][n].ack = 0 /\ callbacks[e][n].timeout = 0

\* sendPacket sends a packet nobody has seen.
LEMMA SendEffect ==
    ASSUME IInv, NEW e \in Endpoints, NEW app \in Apps, NEW t \in Timestamps,
           NEW payload \in Payloads, sendPacket(e, app, t, payload),
           NEW n, n = nextSequenceSend(e), NEW packet, packet = packetOf(e, t, payload)
    PROVE  Sending(e, n, packet)
<1>1. TypeOK
  BY Zenon DEF IInv
<1>2. /\ UNCHANGED <<chain, callbacks, acked>>
      /\ prevSequenceSends' = [prevSequenceSends EXCEPT ![e] = n]
      /\ n = prevSequenceSends[e] + 1 /\ n <= MaxSends[e]
      /\ commitments' = [commitments EXCEPT ![Host(e)][packetCommitmentPath(Id(e), n)]
                            = packetCommitmentBytes32(packet)]
      /\ sent' = [sent EXCEPT ![e][n] = packet]
  BY Zenon DEF sendPacket, commitPacket, nextSequenceSend, packetOf
<1>3. n \in SequenceNumbers /\ prevSequenceSends[e] \in Nat
  <2>1. prevSequenceSends[e] \in 0..MaxSequence /\ MaxSends[e] \in 0..MaxSequence /\ MaxSequence \in Nat
    BY Zenon, <1>1, ConstantsAssumption DEF TypeOK
  <2>2. QED
    BY <1>2, <2>1 DEF SequenceNumbers
<1>4. packet \in Packet /\ packet # None /\ packetCommitmentBytes32(packet) # None
  <2>1. packet \in Packet
    BY Zenon, <1>3, EndpointFacts DEF packetOf, Packet
  <2>2. QED
    BY Zenon, <2>1, ConstantsAssumption, CommitmentFacts
<1>5. \A f \in Endpoints, r \in SequenceNumbers :
        /\ committed(f, r)' = IF f = e /\ r = n THEN packetCommitmentBytes32(packet) ELSE committed(f, r)
        /\ received(f, r)' = received(f, r)
        /\ acknowledged(f, r)' = acknowledged(f, r)
  BY ZenonT(20), <1>1, <1>2, <1>3, WriteCommitment
<1>6. \A f \in Endpoints, r \in SequenceNumbers :
        sent'[f][r] = IF f = e /\ r = n THEN packet ELSE sent[f][r]
  BY Zenon, <1>1, <1>2, <1>3 DEF TypeOK
<1>7. \A f \in Endpoints : prevSequenceSends'[f] = IF f = e THEN n ELSE prevSequenceSends[f]
  BY Zenon, <1>1, <1>2 DEF TypeOK
<1>8. sent[e][n] = None
  <2>1. sent[e][n] # None <=> n <= prevSequenceSends[e]
    BY Zenon, <1>3 DEF IInv, SentInOrder
  <2>2. n = prevSequenceSends[e] + 1
    BY Zenon, <1>2
  <2>3. QED
    BY ONLY <1>3, <2>1, <2>2
<1>9. received(Counterparty[e], n) = None
  BY <1>3, <1>8, EndpointFacts DEF IInv, ReceiptsAreSent
<1>10. acknowledged(Counterparty[e], n) = None
  BY Zenon, <1>3, <1>9, EndpointFacts DEF IInv, AckedWithReceipt
<1>11. callbacks[e][n].ack = 0 /\ callbacks[e][n].timeout = 0
  BY Zenon, <1>3, <1>8 DEF IInv, SentInOrder
<1>12. QED
  BY Zenon, <1>2, <1>3, <1>4, <1>5, <1>6, <1>7, <1>8, <1>9, <1>10, <1>11 DEF Sending

\* A packet is sent under the next sequence number.
LEMMA InvSendPacket ==
    ASSUME IInv, NEW e \in Endpoints, NEW app \in Apps, NEW t \in Timestamps,
           NEW payload \in Payloads, sendPacket(e, app, t, payload)
    PROVE  IInv'
<1> DEFINE n == nextSequenceSend(e)
           packet == packetOf(e, t, payload)
<1>0. Sending(e, n, packet)
  BY SendEffect, Zenon
<1>1. TypeOK /\ TypeOK'
  BY ZenonT(40), TypeSendPacket DEF IInv
<1>2. /\ UNCHANGED <<chain, callbacks, acked>>
      /\ n \in SequenceNumbers /\ n = prevSequenceSends[e] + 1
      /\ \A f \in Endpoints : prevSequenceSends'[f] = IF f = e THEN n ELSE prevSequenceSends[f]
  BY <1>0, Zenon DEF Sending
<1>3. \A f \in Endpoints, r \in SequenceNumbers :
        /\ committed(f, r)' = IF f = e /\ r = n THEN packetCommitmentBytes32(packet) ELSE committed(f, r)
        /\ received(f, r)' = received(f, r)
        /\ acknowledged(f, r)' = acknowledged(f, r)
  BY <1>0, Zenon DEF Sending
<1>4. \A f \in Endpoints, r \in SequenceNumbers :
        sent'[f][r] = IF f = e /\ r = n THEN packet ELSE sent[f][r]
  BY <1>0, Zenon DEF Sending
<1>5. packet.sequence = n /\ packet.sourceClient = Id(e) /\ packet.destClient = Id(Counterparty[e])
  BY Zenon DEF packetOf
<1>6. /\ packet # None /\ sent[e][n] = None /\ received(Counterparty[e], n) = None
      /\ callbacks[e][n].ack = 0 /\ callbacks[e][n].timeout = 0
  BY <1>0, Zenon DEF Sending
<1> HIDE DEF n, packet
<1>7. SentInOrder'
  <2> SUFFICES ASSUME NEW f \in Endpoints, NEW r \in SequenceNumbers
               PROVE  /\ sent'[f][r] # None <=> r <= prevSequenceSends'[f]
                      /\ sent'[f][r] = None => callbacks[f][r].ack = 0 /\ callbacks[f][r].timeout = 0
                      /\ sent'[f][r] # None => /\ sent'[f][r].sequence = r
                                               /\ sent'[f][r].sourceClient = Id(f)
                                               /\ sent'[f][r].destClient = Id(Counterparty[f])
    BY ZenonT(40), <1>2 DEF SentInOrder
  <2>1. prevSequenceSends[f] \in Nat /\ r \in Nat
    BY Zenon, <1>1, PacketTypes
  <2>2. QED
    BY SMTT(30), <1>2, <1>4, <1>5, <1>6, <2>1 DEF IInv, SentInOrder
<1>8. CommittedUntilResolved'
  <2> SUFFICES ASSUME NEW f \in Endpoints, NEW r \in SequenceNumbers
               PROVE  IF r <= prevSequenceSends'[f] /\ callbacks[f][r].ack + callbacks[f][r].timeout = 0
                      THEN sent'[f][r] # None /\ committed(f, r)' = packetCommitmentBytes32(sent'[f][r])
                      ELSE committed(f, r)' = None
    BY Zenon, <1>2 DEF CommittedUntilResolved
  <2>1. prevSequenceSends[f] \in Nat /\ r \in Nat
    BY Zenon, <1>1, PacketTypes
  <2>2. QED
    BY <1>2, <1>3, <1>4, <1>6, <2>1 DEF IInv, CommittedUntilResolved
<1>9. /\ SentInOrder /\ CommitmentsAreSent /\ BlocksPersist /\ ReceiptsAreSent /\ ReceivedInTime
      /\ AckedWithReceipt /\ AcksAreWritten /\ ResolvedAtMostOnce /\ TimeoutsAreProved
  BY Zenon DEF IInv
<1>10. CommitmentsAreSent' /\ BlocksPersist'
  <2> SUFFICES ASSUME NEW f \in Endpoints, NEW r \in SequenceNumbers, NEW h \in 1..lastBlock(f)
               PROVE  /\ committedAt(f, h, r) # None =>
                            /\ sent'[f][r] # None
                            /\ committedAt(f, h, r) = packetCommitmentBytes32(sent'[f][r])
                      /\ receivedAt(f, h, r) # None => receivedAt(f, h, r) = received(f, r)
                      /\ acknowledgedAt(f, h, r) # None => acknowledgedAt(f, h, r) = acknowledged(f, r)
                      /\ blockTime(f, h) <= now(f)
    BY <1>2, <1>3, FrameBlocks DEF CommitmentsAreSent, BlocksPersist
  <2>1. sent[f][r] # None => sent'[f][r] = sent[f][r]
    BY ZenonT(40), <1>4, <1>6
  <2>2. QED
    BY Zenon, <1>9, <2>1 DEF CommitmentsAreSent, BlocksPersist
<1>11. ReceiptsAreSent'
  BY SMTT(30), <1>3, <1>4, <1>6, <1>9, EndpointFacts DEF ReceiptsAreSent
<1>12. ReceivedInTime'
  <2> SUFFICES ASSUME NEW f \in Endpoints, NEW r \in SequenceNumbers, NEW h \in 1..lastBlock(f),
                      received(f, r) # None, receivedAt(f, h, r) = None
               PROVE  blockTime(f, h) < sent'[Counterparty[f]][r].timeoutTimestamp
    BY <1>2, <1>3, FrameBlocks DEF ReceivedInTime
  <2>1. sent'[Counterparty[f]][r] = sent[Counterparty[f]][r]
    BY ZenonT(40), <1>4, <1>6, EndpointFacts
  <2>2. QED
    BY Zenon, <1>9, <2>1 DEF ReceivedInTime
<1>13. AckedWithReceipt' /\ AcksAreWritten' /\ ResolvedAtMostOnce'
  BY SMTT(30), <1>2, <1>3, <1>9, EndpointFacts DEF AckedWithReceipt, AcksAreWritten, ResolvedAtMostOnce
<1>14. TimeoutsAreProved'
  <2>1. ASSUME NEW f \in Endpoints, NEW r \in SequenceNumbers, callbacks'[f][r].timeout > 0
        PROVE  \E h \in 1..lastBlock(Counterparty[f])' :
                   /\ receivedAt(Counterparty[f], h, r)' = None
                   /\ blockTime(Counterparty[f], h)' >= sent'[f][r].timeoutTimestamp
    <3>1. callbacks[f][r].timeout > 0 /\ sent'[f][r] = sent[f][r]
      BY <1>2, <1>4, <1>6, <2>1
    <3>2. PICK h \in 1..lastBlock(Counterparty[f]) :
              /\ receivedAt(Counterparty[f], h, r) = None
              /\ blockTime(Counterparty[f], h) >= sent[f][r].timeoutTimestamp
      BY Zenon, <1>9, <3>1 DEF TimeoutsAreProved
    <3>3. /\ lastBlock(Counterparty[f])' = lastBlock(Counterparty[f])
          /\ receivedAt(Counterparty[f], h, r)' = receivedAt(Counterparty[f], h, r)
          /\ blockTime(Counterparty[f], h)' = blockTime(Counterparty[f], h)
      BY Zenon, <1>2, EndpointFacts, FrameBlocks
    <3>4. QED
      BY Zenon, <3>1, <3>2, <3>3
  <2>2. QED
    BY Zenon, <2>1 DEF TimeoutsAreProved
<1>15. QED
  BY Zenon, <1>1, <1>7, <1>8, <1>9, <1>10, <1>11, <1>12, <1>13, <1>14 DEF IInv

\* What recvPacket does: it is the first time, and before the timeout.
Receiving(e, p, s, ack, ackCommitment) ==
    /\ UNCHANGED <<chain, prevSequenceSends, sent, acked>>
    /\ s \in SequenceNumbers /\ p = sent[Counterparty[e]][s]
    /\ now(e) < p.timeoutTimestamp
    /\ \A f \in Endpoints, r \in SequenceNumbers :
          /\ committed(f, r)' = committed(f, r)
          /\ received(f, r)' = IF f = e /\ r = s THEN p ELSE received(f, r)
          /\ acknowledged(f, r)' = IF f = e /\ r = s THEN ackCommitment ELSE acknowledged(f, r)
          /\ callbacks'[f][r].ack = callbacks[f][r].ack
          /\ callbacks'[f][r].timeout = callbacks[f][r].timeout
          /\ callbacks'[f][r].recv = IF f = e /\ r = s /\ ack # UNIVERSAL_ERROR_ACK THEN 1
                                     ELSE callbacks[f][r].recv
    /\ received(e, s) = None /\ acknowledged(e, s) = None
    /\ callbacks[e][s].recv = 0 /\ p # None /\ ackCommitment # None

\* recvPacket receives a packet in time that was sent and not yet received.
LEMMA RecvEffect ==
    ASSUME IInv, NEW e \in Endpoints, NEW p \in Packet, NEW h \in Heights, NEW ack \in Acks,
           recvPacket(e, p, h, ack), NEW s, s = p.sequence,
           NEW ackCommitment, ackCommitment = packetAcknowledgementCommitmentBytes32(ack)
    PROVE  Receiving(e, p, s, ack, ackCommitment)
<1>1. TypeOK
  BY Zenon DEF IInv
<1>2. UNCHANGED <<chain, prevSequenceSends, sent, acked>>
  BY Zenon DEF recvPacket
<1>3. /\ s \in SequenceNumbers /\ p = sent[Counterparty[e]][s]
      /\ now(e) < p.timeoutTimestamp /\ Id(e) = p.destClient
  BY Zenon, VerifiedIsSent DEF recvPacket, recvPacketVerified
<1>4. \A f \in Endpoints, r \in SequenceNumbers :
        /\ committed(f, r)' = committed(f, r)
        /\ received(f, r)' = IF f = e /\ r = s THEN p ELSE received(f, r)
        /\ acknowledged(f, r)' = IF f = e /\ r = s THEN ackCommitment ELSE acknowledged(f, r)
  <2>1. commitments' = [commitments EXCEPT
            ![Host(e)] = [@ EXCEPT ![packetReceiptCommitmentPath(Id(e), s)] = p,
                                   ![packetAcknowledgementCommitmentPath(Id(e), s)] = ackCommitment]]
    BY ZenonT(20), <1>3 DEF recvPacket, receiptPath, ackPath, packetReceiptCommitmentBytes32
  <2>2. commitments \in [Chains -> [Paths -> Commitments]]
    BY Zenon, <1>1 DEF TypeOK, Store
  <2>3. /\ \A c \in Chains : c # Host(e) => commitments'[c] = commitments[c]
        /\ \A path \in Paths :
              commitments'[Host(e)][path] =
                  IF path = packetAcknowledgementCommitmentPath(Id(e), s) THEN ackCommitment
                  ELSE IF path = packetReceiptCommitmentPath(Id(e), s) THEN p
                  ELSE commitments[Host(e)][path]
    BY Zenon, <2>1, <2>2, EndpointFacts
  <2>4. QED
    <3>1. ReceiptWritten(e, s, p, ackCommitment)
      BY Zenon, <2>3 DEF ReceiptWritten
    <3>2. QED
      BY <1>3, <3>1, WriteReceipt
<1>5. received(e, s) = None /\ acknowledged(e, s) = None /\ callbacks[e][s].recv = 0
  <2>1. received(e, s) = None
    BY ZenonT(20), <1>3 DEF recvPacket, receiptUnset, receiptPath, received
  <2>2. QED
    BY ZenonT(20), <1>3, <2>1 DEF IInv, AckedWithReceipt
<1>6. p # None /\ ackCommitment # None
  BY Zenon, CommitmentFacts DEF packetReceiptCommitmentBytes32
<1>7. \A f \in Endpoints, r \in SequenceNumbers :
        /\ callbacks'[f][r].ack = callbacks[f][r].ack
        /\ callbacks'[f][r].timeout = callbacks[f][r].timeout
        /\ callbacks'[f][r].recv = IF f = e /\ r = s /\ ack # UNIVERSAL_ERROR_ACK THEN 1
                                   ELSE callbacks[f][r].recv
  <2>1. CASE ack = UNIVERSAL_ERROR_ACK
    BY Zenon, <2>1 DEF recvPacket
  <2>2. CASE ack # UNIVERSAL_ERROR_ACK
    <3>1. callbacks' = [callbacks EXCEPT ![e][s].recv = @ + 1]
      BY Zenon, <2>2 DEF recvPacket
    <3>2. callbacks \in [Endpoints -> [SequenceNumbers -> Callbacks]]
      BY Zenon, <1>1 DEF TypeOK, Callbacks
    <3>3. \A f \in Endpoints, r \in SequenceNumbers :
            callbacks'[f][r] = IF f = e /\ r = s THEN [callbacks[e][s] EXCEPT !.recv = @ + 1]
                               ELSE callbacks[f][r]
      BY ZenonT(20), <1>3, <3>1, <3>2
    <3>4. callbacks[e][s] \in Callbacks
      BY Zenon, <1>3, <3>2
    <3>5. QED
      BY <1>5, <2>2, <3>3, <3>4 DEF Callbacks
  <2>3. QED
    BY Zenon, <2>1, <2>2
<1>8. QED
  BY ZenonT(20), <1>2, <1>3, <1>4, <1>5, <1>6, <1>7 DEF Receiving

\* A packet is received once, in time, and acknowledged at once.
LEMMA InvRecvPacket ==
    ASSUME IInv, NEW e \in Endpoints, NEW p \in Packet, NEW h \in Heights, NEW ack \in Acks,
           recvPacket(e, p, h, ack)
    PROVE  IInv'
<1> DEFINE s == p.sequence
           ackCommitment == packetAcknowledgementCommitmentBytes32(ack)
<1>0. Receiving(e, p, s, ack, ackCommitment)
  BY RecvEffect, Zenon
<1>1. TypeOK /\ TypeOK'
  BY Zenon, TypeRecvPacket DEF IInv
<1>2. UNCHANGED <<chain, prevSequenceSends, sent, acked>>
  BY Zenon DEF recvPacket
<1>3. s \in SequenceNumbers /\ p = sent[Counterparty[e]][s] /\ now(e) < p.timeoutTimestamp
  BY <1>0, Zenon DEF Receiving
<1>4. \A f \in Endpoints, r \in SequenceNumbers :
        /\ committed(f, r)' = committed(f, r)
        /\ received(f, r)' = IF f = e /\ r = s THEN p ELSE received(f, r)
        /\ acknowledged(f, r)' = IF f = e /\ r = s THEN ackCommitment ELSE acknowledged(f, r)
  BY <1>0, Zenon DEF Receiving
<1>5. /\ received(e, s) = None /\ acknowledged(e, s) = None
      /\ callbacks[e][s].recv = 0 /\ p # None /\ ackCommitment # None
  BY <1>0, Zenon DEF Receiving
<1>6. \A f \in Endpoints, r \in SequenceNumbers :
        /\ callbacks'[f][r].ack = callbacks[f][r].ack
        /\ callbacks'[f][r].timeout = callbacks[f][r].timeout
        /\ callbacks'[f][r].recv = IF f = e /\ r = s /\ ack # UNIVERSAL_ERROR_ACK THEN 1
                                   ELSE callbacks[f][r].recv
  BY <1>0, ZenonT(40) DEF Receiving
<1> HIDE DEF s, ackCommitment
<1>7. SentInOrder' /\ CommittedUntilResolved' /\ ResolvedAtMostOnce'
  BY <1>2, <1>4, <1>6 DEF IInv, SentInOrder, CommittedUntilResolved, ResolvedAtMostOnce
<1>8. CommitmentsAreSent'
  <2>1. CommitmentsAreSent
    BY Zenon DEF IInv
  <2>2. QED
    BY Zenon, <1>2, <2>1, KeepCommitments
<1>9. BlocksPersist'
  BY <1>2, <1>4, <1>5, FrameBlocks DEF IInv, BlocksPersist
<1>10. ReceiptsAreSent'
  BY Zenon, <1>2, <1>3, <1>4 DEF IInv, ReceiptsAreSent
<1>11. ReceivedInTime'
  <2> SUFFICES ASSUME NEW f \in Endpoints, NEW r \in SequenceNumbers, NEW k \in 1..lastBlock(f),
                      received(f, r)' # None, receivedAt(f, k, r) = None
               PROVE  blockTime(f, k) < sent[Counterparty[f]][r].timeoutTimestamp
    <3>1. sent' = sent /\ \A f \in Endpoints : lastBlock(f)' = lastBlock(f)
      BY Zenon, <1>2, FrameBlocks
    <3>2. \A f \in Endpoints, r \in SequenceNumbers : \A k \in 1..lastBlock(f) :
             blockTime(f, k)' = blockTime(f, k) /\ receivedAt(f, k, r)' = receivedAt(f, k, r)
      BY Zenon, <1>2, FrameBlocks
    <3>3. SUFFICES ASSUME NEW f \in Endpoints, NEW r \in SequenceNumbers, NEW k \in 1..lastBlock(f),
                          received(f, r)' # None, receivedAt(f, k, r)' = None
                   PROVE  blockTime(f, k)' < sent'[Counterparty[f]][r].timeoutTimestamp
      BY Zenon, <3>1 DEF ReceivedInTime
    <3>4. QED
      BY Zenon, <3>1, <3>2, <3>3
  <2>1. CASE f = e /\ r = s
    <3>1. blockTime(e, k) <= now(e)
      BY Zenon, <2>1 DEF IInv, BlocksPersist
    <3>2. /\ blockTime(e, k) \in Timestamps /\ now(e) \in Timestamps
          /\ p.timeoutTimestamp \in Timestamps
      BY Zenon, <1>1, <2>1, PacketTypes DEF Packet
    <3>3. QED
      BY <1>3, <2>1, <3>1, <3>2 DEF Timestamps
  <2>2. CASE ~(f = e /\ r = s)
    BY Zenon, <1>4, <2>2 DEF IInv, ReceivedInTime
  <2>3. QED
    BY Zenon, <2>1, <2>2
<1>12. AckedWithReceipt'
  <2> SUFFICES ASSUME NEW f \in Endpoints, NEW r \in SequenceNumbers
               PROVE  \/ /\ received(f, r)' = None /\ acknowledged(f, r)' = None
                         /\ callbacks'[f][r].recv = 0
                      \/ /\ received(f, r)' # None
                         /\ acknowledged(f, r)' = packetAcknowledgementCommitmentBytes32(UNIVERSAL_ERROR_ACK)
                         /\ callbacks'[f][r].recv = 0
                      \/ /\ received(f, r)' # None
                         /\ \E a \in AppAcks : acknowledged(f, r)' = packetAcknowledgementCommitmentBytes32(a)
                         /\ callbacks'[f][r].recv = 1
    BY Zenon DEF AckedWithReceipt
  <2>1. CASE f = e /\ r = s
    BY Zenon, <1>4, <1>5, <1>6, <1>6, <2>1 DEF Acks, ackCommitment
  <2>2. CASE ~(f = e /\ r = s)
    <3>1. \/ received(f, r) = None /\ acknowledged(f, r) = None /\ callbacks[f][r].recv = 0
          \/ /\ received(f, r) # None
             /\ acknowledged(f, r) = packetAcknowledgementCommitmentBytes32(UNIVERSAL_ERROR_ACK)
             /\ callbacks[f][r].recv = 0
          \/ /\ received(f, r) # None
             /\ \E a \in AppAcks : acknowledged(f, r) = packetAcknowledgementCommitmentBytes32(a)
             /\ callbacks[f][r].recv = 1
      BY Zenon DEF IInv, AckedWithReceipt
    <3>2. /\ received(f, r)' = received(f, r) /\ acknowledged(f, r)' = acknowledged(f, r)
          /\ callbacks'[f][r].recv = callbacks[f][r].recv
      BY Zenon, <1>4, <1>6, <2>2
    <3>3. QED
      BY Zenon, <3>1, <3>2
  <2>3. QED
    BY Zenon, <2>1, <2>2
<1>13. TimeoutsAreProved'
  <2>1. TimeoutsAreProved
    BY ZenonT(40) DEF IInv
  <2>2. QED
    BY Zenon, <1>2, <1>6, <2>1, KeepTimeouts
<1>14. AcksAreWritten'
  <2> SUFFICES ASSUME NEW f \in Endpoints, NEW r \in SequenceNumbers
               PROVE  /\ callbacks'[f][r].ack > 0 => acked[f][r] # None
                      /\ acked[f][r] # None =>
                            acknowledged(Counterparty[f], r)' = packetAcknowledgementCommitmentBytes32(acked[f][r])
    BY Zenon, <1>2 DEF AcksAreWritten
  <2>1. acked[f][r] # None => acknowledged(Counterparty[f], r) # None
    BY Zenon, <1>1, PacketTypes, CommitmentFacts DEF IInv, AcksAreWritten
  <2>2. QED
    BY <1>4, <1>5, <1>6, <2>1, EndpointFacts DEF IInv, AcksAreWritten
<1>15. QED
  BY Zenon, <1>1, <1>7, <1>8, <1>9, <1>10, <1>11, <1>12, <1>13, <1>14 DEF IInv


(***************************************************************************)
(* ackPacket and timeoutPacket preserve the inductive invariant, hence so  *)
(* does every step; the theorems about ICS26Router, for any chains,        *)
(* clients, counterparties, payloads and bounds.                           *)
(***************************************************************************)

\* A packet whose commitment the sender's store holds is one it sent and has
\* not been called back for.
LEMMA FoundIsOutstanding ==
    ASSUME IInv, NEW e \in Endpoints, NEW p \in Packet, Id(e) = p.sourceClient, commitmentFound(e, p)
    PROVE  /\ p.sequence \in SequenceNumbers
           /\ p = sent[e][p.sequence]
           /\ callbacks[e][p.sequence].ack = 0 /\ callbacks[e][p.sequence].timeout = 0
<1> DEFINE s == p.sequence
<1>1. s \in SequenceNumbers
  BY Zenon DEF Packet
<1>2. committed(e, s) = packetCommitmentBytes32(p) /\ committed(e, s) # None
  BY Zenon, CommitmentFacts DEF commitmentFound, commitmentOf, committed
<1>3. /\ callbacks[e][s].ack + callbacks[e][s].timeout = 0
      /\ sent[e][s] # None /\ packetCommitmentBytes32(sent[e][s]) = packetCommitmentBytes32(p)
  BY ZenonT(40), <1>1, <1>2 DEF IInv, CommittedUntilResolved
<1>4. callbacks[e][s].ack = 0 /\ callbacks[e][s].timeout = 0
  BY <1>1, <1>3, PacketTypes DEF IInv
<1>5. p = sent[e][s]
  <2>1. sent[e][s].sequence = s /\ sent[e][s].sourceClient = Id(e)
    BY Zenon, <1>1, <1>3 DEF IInv, SentInOrder
  <2>2. PICK q : q = sent[e][s]
    OBVIOUS
  <2>3. q \in Packet
    BY Zenon, <1>1, <1>3, <2>2, PacketTypes DEF IInv
  <2>4. QED
    BY Zenon, <1>3, <2>1, <2>2, <2>3, CommitmentInjective
<1>6. QED
  BY Zenon, <1>1, <1>4, <1>5

\* Deleting the commitment of an outstanding packet and calling its sender
\* back once, for an acknowledgement or for a timeout.
LEMMA InvResolve ==
    ASSUME IInv, TypeOK', NEW e \in Endpoints, NEW p \in Packet,
           Id(e) = p.sourceClient, commitmentFound(e, p), deletePacketCommitment(e, p),
           UNCHANGED <<chain, prevSequenceSends, sent>>,
           \A f \in Endpoints, r \in SequenceNumbers :
              /\ callbacks'[f][r].recv = callbacks[f][r].recv
              /\ ~(f = e /\ r = p.sequence) => /\ callbacks'[f][r].ack = callbacks[f][r].ack
                                               /\ callbacks'[f][r].timeout = callbacks[f][r].timeout,
           callbacks'[e][p.sequence].ack + callbacks'[e][p.sequence].timeout = 1,
           AcksAreWritten', TimeoutsAreProved'
    PROVE  IInv'
<1> DEFINE s == p.sequence
<1>1. TypeOK /\ TypeOK'
  BY Zenon DEF IInv
<1>2. s \in SequenceNumbers /\ p = sent[e][s] /\ sent[e][s] # None
  BY Zenon, FoundIsOutstanding, CommitmentFacts DEF packetReceiptCommitmentBytes32
<1>3. \A f \in Endpoints, r \in SequenceNumbers :
        /\ committed(f, r)' = IF f = e /\ r = s THEN None ELSE committed(f, r)
        /\ received(f, r)' = received(f, r)
        /\ acknowledged(f, r)' = acknowledged(f, r)
  BY ZenonT(20), <1>1, <1>2, WriteCommitment DEF deletePacketCommitment
<1>a. ASSUME NEW f \in Endpoints, NEW r \in SequenceNumbers, ~(f = e /\ r = s)
      PROVE  callbacks'[f][r].ack = callbacks[f][r].ack /\ callbacks'[f][r].timeout = callbacks[f][r].timeout
  BY Zenon, <1>a
<1>b. callbacks'[e][s].ack + callbacks'[e][s].timeout = 1
  BY Zenon
<1>c. sent' = sent /\ prevSequenceSends' = prevSequenceSends
  BY Zenon
<1> HIDE DEF s
<1>4. SentInOrder'
  <2> SUFFICES ASSUME NEW f \in Endpoints, NEW r \in SequenceNumbers
               PROVE  /\ sent'[f][r] # None <=> r <= prevSequenceSends'[f]
                      /\ sent'[f][r] = None => callbacks'[f][r].ack = 0 /\ callbacks'[f][r].timeout = 0
                      /\ sent'[f][r] # None => /\ sent'[f][r].sequence = r
                                               /\ sent'[f][r].sourceClient = Id(f)
                                               /\ sent'[f][r].destClient = Id(Counterparty[f])
    BY Zenon DEF SentInOrder
  <2>1. SentInOrder
    BY Zenon DEF IInv
  <2>2. /\ sent[f][r] # None <=> r <= prevSequenceSends[f]
        /\ sent[f][r] = None => callbacks[f][r].ack = 0 /\ callbacks[f][r].timeout = 0
        /\ sent[f][r] # None => /\ sent[f][r].sequence = r
                                /\ sent[f][r].sourceClient = Id(f)
                                /\ sent[f][r].destClient = Id(Counterparty[f])
    BY ONLY Zenon, <2>1, f \in Endpoints, r \in SequenceNumbers DEF SentInOrder
  <2>3. sent[f][r] = None => ~(f = e /\ r = s)
    BY ONLY Zenon, <1>2
  <2>4. sent[f][r] = None => callbacks'[f][r].ack = 0 /\ callbacks'[f][r].timeout = 0
    BY Zenon, <1>a, <2>2, <2>3
  <2>5. QED
    BY ONLY Zenon, <1>c, <2>2, <2>4
<1>5. CommittedUntilResolved'
  <2> SUFFICES ASSUME NEW f \in Endpoints, NEW r \in SequenceNumbers
               PROVE  IF r <= prevSequenceSends'[f] /\ callbacks'[f][r].ack + callbacks'[f][r].timeout = 0
                      THEN sent'[f][r] # None /\ committed(f, r)' = packetCommitmentBytes32(sent'[f][r])
                      ELSE committed(f, r)' = None
    BY Zenon DEF CommittedUntilResolved
  <2>1. CommittedUntilResolved
    BY Zenon DEF IInv
  <2>2. CASE f = e /\ r = s
    <3>1. callbacks'[f][r].ack + callbacks'[f][r].timeout # 0
      BY ONLY <1>b, <2>2
    <3>2. QED
      BY Zenon, <1>3, <2>2, <3>1
  <2>3. CASE ~(f = e /\ r = s)
    <3>1. committed(f, r)' = committed(f, r)
      BY Zenon, <1>3, <2>3
    <3>2. IF r <= prevSequenceSends[f] /\ callbacks[f][r].ack + callbacks[f][r].timeout = 0
          THEN sent[f][r] # None /\ committed(f, r) = packetCommitmentBytes32(sent[f][r])
          ELSE committed(f, r) = None
      BY ONLY Zenon, <2>1, f \in Endpoints, r \in SequenceNumbers DEF CommittedUntilResolved
    <3>3. callbacks'[f][r].ack = callbacks[f][r].ack /\ callbacks'[f][r].timeout = callbacks[f][r].timeout
      BY Zenon, <1>a, <2>3
    <3>4. QED
      BY ONLY Zenon, <1>c, <3>1, <3>2, <3>3
  <2>4. QED
    BY Zenon, <2>2, <2>3
<1>6. ResolvedAtMostOnce'
  <2> SUFFICES ASSUME NEW f \in Endpoints, NEW r \in SequenceNumbers
               PROVE  callbacks'[f][r].ack + callbacks'[f][r].timeout <= 1
    BY Zenon DEF ResolvedAtMostOnce
  <2>1. callbacks[f][r].ack + callbacks[f][r].timeout <= 1
    BY Zenon DEF IInv, ResolvedAtMostOnce
  <2>2. CASE f = e /\ r = s
    BY ONLY <1>b, <2>2
  <2>3. CASE ~(f = e /\ r = s)
    BY Zenon, <1>a, <2>1, <2>3
  <2>4. QED
    BY Zenon, <2>2, <2>3
<1>d. CommitmentsAreSent /\ BlocksPersist /\ ReceiptsAreSent
  BY Zenon DEF IInv
<1>e. /\ \A f \in Endpoints : lastBlock(f)' = lastBlock(f) /\ now(f)' = now(f)
      /\ \A f \in Endpoints, r \in SequenceNumbers : \A h \in 1..lastBlock(f) :
            /\ committedAt(f, h, r)' = committedAt(f, h, r)
            /\ receivedAt(f, h, r)' = receivedAt(f, h, r)
            /\ acknowledgedAt(f, h, r)' = acknowledgedAt(f, h, r)
            /\ blockTime(f, h)' = blockTime(f, h)
  BY ZenonT(40), FrameBlocks
<1>7. CommitmentsAreSent'
  BY ONLY SMTT(40), <1>c, <1>d, <1>e DEF CommitmentsAreSent
<1>8. BlocksPersist'
  BY ONLY SMTT(40), <1>3, <1>d, <1>e DEF BlocksPersist
<1>9. ReceiptsAreSent'
  BY ONLY ZenonT(40), <1>3, <1>c, <1>d DEF ReceiptsAreSent
<1>10. ReceivedInTime'
  <2> SUFFICES ASSUME NEW f \in Endpoints, NEW r \in SequenceNumbers, NEW k \in 1..lastBlock(f),
                      received(f, r)' # None, receivedAt(f, k, r)' = None
               PROVE  blockTime(f, k)' < sent'[Counterparty[f]][r].timeoutTimestamp
    <3>1. \A f \in Endpoints : lastBlock(f)' = lastBlock(f)
      BY Zenon, FrameBlocks
    <3>2. QED
      BY Zenon, <3>1 DEF ReceivedInTime
  <2>1. blockTime(f, k)' = blockTime(f, k) /\ receivedAt(f, k, r)' = receivedAt(f, k, r) /\ sent' = sent
    BY Zenon, FrameBlocks
  <2>2. received(f, r)' = received(f, r)
    BY ZenonT(40), <1>3
  <2>3. QED
    BY Zenon, <2>1, <2>2 DEF IInv, ReceivedInTime
<1>11. AckedWithReceipt'
  <2>1. AckedWithReceipt
    BY Zenon DEF IInv
  <2>2. \A f \in Endpoints, r \in SequenceNumbers : callbacks'[f][r].recv = callbacks[f][r].recv
    BY Zenon
  <2>3. QED
    BY ONLY SMTT(40), <1>3, <2>1, <2>2 DEF AckedWithReceipt
<1>12. QED
  BY Zenon, <1>4, <1>5, <1>6, <1>7, <1>8, <1>9, <1>10, <1>11 DEF IInv

\* An acknowledgement that reaches the sender is the one that was written.
LEMMA InvAckPacket ==
    ASSUME IInv, NEW e \in Endpoints, NEW p \in Packet, NEW h \in Heights, NEW ack \in Acks,
           ackPacket(e, p, ack, h)
    PROVE  IInv'
<1> DEFINE s == p.sequence
           f == Counterparty[e]
<1>1. TypeOK /\ TypeOK'
  BY Zenon, TypeAckPacket DEF IInv
<1>2. /\ s \in SequenceNumbers /\ f \in Endpoints
      /\ callbacks[e][s].ack = 0 /\ callbacks[e][s].timeout = 0
  BY Zenon, FoundIsOutstanding, EndpointFacts DEF ackPacket, ackPacketVerified
<1>3. acknowledged(f, s) = packetAcknowledgementCommitmentBytes32(ack)
  <2>1. /\ h \in 1..lastBlock(f)
        /\ acknowledgedAt(f, h, s) = packetAcknowledgementCommitmentBytes32(ack)
    BY Zenon DEF ackPacket, ackPacketVerified, ackPath, verifyMembership, Verifiable, CounterpartyBlock, IInv,
           TypeOK, lastBlock, acknowledgedAt
  <2>2. QED
    BY Zenon, <1>2, <2>1, CommitmentFacts DEF IInv, BlocksPersist
<1>4. \A g \in Endpoints, r \in SequenceNumbers :
        /\ callbacks'[g][r].recv = callbacks[g][r].recv
        /\ callbacks'[g][r].timeout = callbacks[g][r].timeout
        /\ callbacks'[g][r].ack = IF g = e /\ r = s THEN 1 ELSE callbacks[g][r].ack
        /\ acked'[g][r] = IF g = e /\ r = s THEN ack ELSE acked[g][r]
  <2>1. /\ callbacks' = [callbacks EXCEPT ![e][s].ack = @ + 1]
        /\ acked' = [acked EXCEPT ![e][s] = ack]
    BY Zenon DEF ackPacket
  <2>2. callbacks \in [Endpoints -> [SequenceNumbers -> Callbacks]]
    BY Zenon, <1>1 DEF TypeOK, Callbacks
  <2>3. \A g \in Endpoints, r \in SequenceNumbers :
            acked'[g][r] = IF g = e /\ r = s THEN ack ELSE acked[g][r]
    BY Zenon, <1>1, <1>2, <2>1 DEF TypeOK
  <2>4. \A g \in Endpoints, r \in SequenceNumbers :
            /\ callbacks'[g][r].recv = callbacks[g][r].recv
            /\ callbacks'[g][r].timeout = callbacks[g][r].timeout
            /\ callbacks'[g][r].ack = IF g = e /\ r = s THEN 1 ELSE callbacks[g][r].ack
    BY <1>2, <2>1, <2>2 DEF Callbacks
  <2>5. QED
    BY ZenonT(40), <2>3, <2>4
<1>5. \A g \in Endpoints, r \in SequenceNumbers : acknowledged(g, r)' = acknowledged(g, r)
  BY ZenonT(20), <1>1, <1>2, WriteCommitment DEF ackPacket, ackPacketVerified, deletePacketCommitment
<1>6. AcksAreWritten'
  <2> SUFFICES ASSUME NEW g \in Endpoints, NEW r \in SequenceNumbers
               PROVE  /\ callbacks'[g][r].ack > 0 => acked'[g][r] # None
                      /\ acked'[g][r] # None =>
                           acknowledged(Counterparty[g], r)' = packetAcknowledgementCommitmentBytes32(acked'[g][r])
    BY Zenon DEF AcksAreWritten
  <2>1. acknowledged(Counterparty[g], r)' = acknowledged(Counterparty[g], r)
    BY Zenon, <1>5, EndpointFacts
  <2>2. CASE g = e /\ r = s
    <3>1. acked'[g][r] = ack
      BY Zenon, <1>4, <2>2
    <3>2. ack # None
      BY Zenon, CommitmentFacts
    <3>3. QED
      BY Zenon, <1>3, <2>1, <2>2, <3>1, <3>2
  <2>3. CASE ~(g = e /\ r = s)
    <3>1. acked'[g][r] = acked[g][r] /\ callbacks'[g][r].ack = callbacks[g][r].ack
      BY Zenon, <1>4, <2>3
    <3>2. QED
      BY Zenon, <2>1, <3>1 DEF IInv, AcksAreWritten
  <2>4. QED
    BY Zenon, <2>2, <2>3
<1>7. TimeoutsAreProved'
  <2>1. TimeoutsAreProved /\ UNCHANGED chain /\ sent' = sent
    BY Zenon DEF IInv, ackPacket
  <2>2. QED
    BY Zenon, <1>4, <2>1, KeepTimeouts
<1>8. QED
  BY <1>1, <1>2, <1>4, <1>6, <1>7, InvResolve DEF ackPacket, ackPacketVerified

\* A timeout is shown by a late block without a receipt.
LEMMA InvTimeoutPacket ==
    ASSUME IInv, NEW e \in Endpoints, NEW p \in Packet, NEW h \in Heights, timeoutPacket(e, p, h)
    PROVE  IInv'
<1> DEFINE s == p.sequence
           f == Counterparty[e]
<1>1. TypeOK /\ TypeOK'
  BY Zenon, TypeTimeoutPacket DEF IInv
<1>2. /\ s \in SequenceNumbers /\ f \in Endpoints /\ p = sent[e][s]
      /\ callbacks[e][s].ack = 0 /\ callbacks[e][s].timeout = 0
  BY Zenon, FoundIsOutstanding, EndpointFacts DEF timeoutPacket, timeoutPacketVerified
<1>3. /\ h \in 1..lastBlock(f) /\ receivedAt(f, h, s) = None
      /\ blockTime(f, h) >= sent[e][s].timeoutTimestamp
  BY Zenon, <1>2 DEF timeoutPacket, timeoutPacketVerified, verifyNonMembership, Verifiable,
         CounterpartyBlock, receiptPath, IInv, TypeOK, lastBlock, receivedAt, blockTime
<1>4. \A g \in Endpoints, r \in SequenceNumbers :
        /\ callbacks'[g][r].recv = callbacks[g][r].recv
        /\ callbacks'[g][r].ack = callbacks[g][r].ack
        /\ callbacks'[g][r].timeout = IF g = e /\ r = s THEN 1 ELSE callbacks[g][r].timeout
  <2>1. callbacks' = [callbacks EXCEPT ![e][s].timeout = @ + 1]
    BY Zenon DEF timeoutPacket
  <2>2. callbacks \in [Endpoints -> [SequenceNumbers -> Callbacks]]
    BY Zenon, <1>1 DEF TypeOK, Callbacks
  <2>3. QED
    BY <1>2, <2>1, <2>2 DEF Callbacks
<1>5. UNCHANGED <<chain, sent, acked, prevSequenceSends>>
  BY Zenon DEF timeoutPacket
<1>6. \A g \in Endpoints, r \in SequenceNumbers : acknowledged(g, r)' = acknowledged(g, r)
  BY ZenonT(20), <1>1, <1>2, WriteCommitment DEF timeoutPacket, timeoutPacketVerified, deletePacketCommitment
<1>7. AcksAreWritten'
  <2> SUFFICES ASSUME NEW g \in Endpoints, NEW r \in SequenceNumbers
               PROVE  /\ callbacks'[g][r].ack > 0 => acked'[g][r] # None
                      /\ acked'[g][r] # None =>
                           acknowledged(Counterparty[g], r)' = packetAcknowledgementCommitmentBytes32(acked'[g][r])
    BY Zenon DEF AcksAreWritten
  <2>1. acknowledged(Counterparty[g], r)' = acknowledged(Counterparty[g], r)
    BY Zenon, <1>6, EndpointFacts
  <2>2. acked'[g][r] = acked[g][r] /\ callbacks'[g][r].ack = callbacks[g][r].ack
    BY Zenon, <1>4, <1>5
  <2>3. QED
    BY Zenon, <2>1, <2>2 DEF IInv, AcksAreWritten
<1>8. TimeoutsAreProved'
  <2> SUFFICES ASSUME NEW g \in Endpoints, NEW r \in SequenceNumbers, callbacks'[g][r].timeout > 0
               PROVE  \E k \in 1..lastBlock(Counterparty[g]) :
                          /\ receivedAt(Counterparty[g], k, r) = None
                          /\ blockTime(Counterparty[g], k) >= sent[g][r].timeoutTimestamp
    <3>1. \A g \in Endpoints :
            /\ Counterparty[g] \in Endpoints
            /\ lastBlock(Counterparty[g])' = lastBlock(Counterparty[g])
            /\ \A k \in 1..lastBlock(Counterparty[g]), r \in SequenceNumbers :
                  /\ receivedAt(Counterparty[g], k, r)' = receivedAt(Counterparty[g], k, r)
                  /\ blockTime(Counterparty[g], k)' = blockTime(Counterparty[g], k)
      BY Zenon, <1>5, EndpointFacts, FrameBlocks
    <3>2. QED
      BY SMTT(60), <1>5, <3>1 DEF TimeoutsAreProved
  <2>1. CASE g = e /\ r = s
    BY Zenon, <1>3, <2>1
  <2>2. CASE ~(g = e /\ r = s)
    BY Zenon, <1>4, <2>2 DEF IInv, TimeoutsAreProved
  <2>3. QED
    BY Zenon, <2>1, <2>2
<1>9. QED
  BY <1>1, <1>2, <1>4, <1>5, <1>7, <1>8, InvResolve DEF timeoutPacket, timeoutPacketVerified

\* Every transaction preserves the invariant.
LEMMA InvNext == IInv /\ [Next]_vars => IInv'
<1> SUFFICES ASSUME IInv, [Next]_vars PROVE IInv'
  OBVIOUS
<1>1. TypeOK
  BY Zenon DEF IInv
<1>2. CASE UNCHANGED vars
  <2>1. TypeOK'
    BY ZenonT(20), <1>1, <1>2 DEF TypeOK, vars, chain, router, history
  <2>2. QED
    BY Zenon, <1>2, <2>1, InvUntouched DEF vars, router
<1>3. CASE \E c \in Chains : FinalizeBlock(c)
  BY Zenon, <1>3, InvFinalizeBlock
<1>4. ASSUME NEW c \in Chains, NEW port \in Ports, NEW app \in Apps, addIBCApp(c, port, app)
      PROVE  IInv'
  <2>1. TypeOK'
    BY ZenonT(20), <1>1, <1>4 DEF TypeOK, addIBCApp, chain, history
  <2>2. QED
    BY Zenon, <1>4, <2>1, InvUntouched DEF addIBCApp
<1>5. ASSUME NEW e \in Endpoints, updateClient(e) \/ submitMisbehaviour(e) \/ migrateClient(e)
      PROVE  IInv'
  <2>1. TypeOK'
    BY Zenon, <1>1, <1>5, TypeClients
  <2>2. QED
    BY Zenon, <1>5, <2>1, InvUntouched DEF updateClient, submitMisbehaviour, migrateClient, router
<1>6. ASSUME NEW e \in Endpoints, NEW app \in Apps, NEW t \in Timestamps, NEW payload \in Payloads,
             sendPacket(e, app, t, payload)
      PROVE  IInv'
  BY Zenon, <1>6, InvSendPacket
<1>7. ASSUME NEW e \in Endpoints, RecvPacket(e)
      PROVE  IInv'
  BY Zenon, <1>2, <1>7, InvRecvPacket DEF RecvPacket, recvPacketNoop
<1>8. ASSUME NEW e \in Endpoints, NEW s \in SequenceNumbers, AckPacket(e, s)
      PROVE  IInv'
  BY Zenon, <1>2, <1>8, InvAckPacket DEF AckPacket, ackPacketNoop
<1>9. ASSUME NEW e \in Endpoints, NEW s \in SequenceNumbers, TimeoutPacket(e, s)
      PROVE  IInv'
  BY Zenon, <1>2, <1>9, InvTimeoutPacket DEF TimeoutPacket, timeoutPacketNoop
<1>10. QED
  BY Zenon, <1>2, <1>3, <1>4, <1>5, <1>6, <1>7, <1>8, <1>9 DEF Next

\* The block that proved a timeout is past it and shows no receipt, but every
\* block past its timeout shows a packet that was received.
LEMMA TimeoutExcludes == IInv => TimeoutExcludesReceipt
<1> SUFFICES ASSUME IInv, NEW e \in Endpoints, NEW s \in SequenceNumbers,
                    callbacks[e][s].timeout > 0, received(Counterparty[e], s) # None
             PROVE  FALSE
  BY Zenon DEF TimeoutExcludesReceipt
<1> DEFINE f == Counterparty[e]
<1>1. f \in Endpoints /\ Counterparty[f] = e
  BY Zenon, EndpointFacts
<1>2. PICK h \in 1..lastBlock(f) :
          receivedAt(f, h, s) = None /\ blockTime(f, h) >= sent[e][s].timeoutTimestamp
  BY Zenon DEF IInv, TimeoutsAreProved
<1>3. blockTime(f, h) < sent[e][s].timeoutTimestamp
  BY Zenon, <1>1, <1>2 DEF IInv, ReceivedInTime
<1>4. blockTime(f, h) \in Int /\ sent[e][s].timeoutTimestamp \in Int
  <2>1. sent[e][s] \in Packet
    BY Zenon, <1>1, PacketTypes DEF IInv, ReceiptsAreSent
  <2>2. blockTime(f, h) \in Timestamps
    BY Zenon, <1>1, PacketTypes DEF IInv
  <2>3. QED
    BY <2>1, <2>2 DEF Packet, Timestamps
<1>5. QED
  BY <1>2, <1>3, <1>4

-----------------------------------------------------------------------------
(* The theorems. *)

\* The inductive invariant holds in every reachable state of the routers.
THEOREM Invariance == Spec => []IInv
BY InvInit, InvNext, PTL DEF Spec

\* The storage keeps its types, and clients only trust finalised blocks.
THEOREM TypeCorrectness == Spec => []TypeOK
<1>1. IInv => TypeOK
  BY ZenonT(40) DEF IInv
<1>2. QED
  BY <1>1, Invariance, PTL

\* recvPacket: a packet is executed at most once, and only if it was sent.
THEOREM ExactlyOnceReceipt == Spec => []ExecutedAtMostOnce
<1>1. IInv => ExecutedAtMostOnce
  BY DEF IInv, ExecutedAtMostOnce, AckedWithReceipt, ReceiptsAreSent
<1>2. QED
  BY <1>1, Invariance, PTL

\* ackPacket and timeoutPacket: the sender is called back at most once.
THEOREM SingleResolution == Spec => []ResolvedAtMostOnce
<1>1. IInv => ResolvedAtMostOnce
  BY DEF IInv
<1>2. QED
  BY <1>1, Invariance, PTL

\* ackPacket and timeoutPacket: a commitment is dropped only with a callback.
THEOREM NoLostPacket == Spec => []CommittedUntilResolved
<1>1. IInv => CommittedUntilResolved
  BY DEF IInv
<1>2. QED
  BY <1>1, Invariance, PTL

\* timeoutPacket: a packet that timed out was not and will not be received.
THEOREM TimeoutSafety == Spec => []TimeoutExcludesReceipt
BY TimeoutExcludes, Invariance, PTL

\* ackPacket: the acknowledgement the sender gets is the receiver's, and is a
\* success exactly when the receiving application executed the packet.
THEOREM AckSafety == Spec => []AckTellsExecution
<1>1. IInv => AckTellsExecution
  <2> SUFFICES ASSUME IInv, NEW e \in Endpoints, NEW s \in SequenceNumbers, acked[e][s] # None
               PROVE  /\ acknowledged(Counterparty[e], s) = packetAcknowledgementCommitmentBytes32(acked[e][s])
                      /\ acked[e][s] \in AppAcks <=> callbacks[Counterparty[e]][s].recv = 1
    BY Zenon DEF AckTellsExecution
  <2>1. Counterparty[e] \in Endpoints /\ acked[e][s] \in Acks
    BY Zenon, EndpointFacts, PacketTypes DEF IInv
  <2>2. acknowledged(Counterparty[e], s) = packetAcknowledgementCommitmentBytes32(acked[e][s])
    BY Zenon DEF IInv, AcksAreWritten
  <2>3. \A a, b \in Acks : packetAcknowledgementCommitmentBytes32(a) = packetAcknowledgementCommitmentBytes32(b) => a = b
    BY Zenon DEF packetAcknowledgementCommitmentBytes32
  <2>4. acknowledged(Counterparty[e], s) # None
    BY Zenon, <2>1, <2>2, CommitmentFacts
  <2>5. QED
    BY SMTT(30), <2>1, <2>2, <2>3, <2>4, ConstantsAssumption DEF IInv, AckedWithReceipt, Acks
<1>2. QED
  BY <1>1, Invariance, PTL


(***************************************************************************)
(* The routers implement PacketLifecycle, for any chains, clients and      *)
(* bounds: every transaction moves at most one packet one phase on.        *)
(***************************************************************************)

\* A packet none of whose three determinants changes keeps its phase.
LEMMA PhaseFrame ==
    ASSUME NEW e \in Endpoints, NEW s \in SequenceNumbers,
           prevSequenceSends'[e] = prevSequenceSends[e],
           committed(e, s)' = committed(e, s),
           acknowledged(Counterparty[e], s)' = acknowledged(Counterparty[e], s)
    PROVE  phaseOf(e, s)' = phaseOf(e, s)
BY Zenon DEF phaseOf

\* One packet changes phase.
LEMMA PhaseChange ==
    ASSUME NEW e \in Endpoints, NEW s \in SequenceNumbers, NEW to,
           phaseOf(e, s)' = to,
           \A f \in Endpoints, r \in SequenceNumbers :
              ~(f = e /\ r = s) => phaseOf(f, r)' = phaseOf(f, r)
    PROVE  phases' = [phases EXCEPT ![e][s] = to]
BY ZenonT(20) DEF phases

-----------------------------------------------------------------------------
(* Every transaction is a step of PacketLifecycle, or none. *)

\* Every packet is unsent at first.
LEMMA RefineInit == Init => Lifecycle!Init
<1> SUFFICES ASSUME Init
             PROVE  phases = [e \in Endpoints |-> [s \in SequenceNumbers |-> "unsent"]]
  BY Zenon DEF Lifecycle!Init
<1>1. ASSUME NEW e \in Endpoints, NEW s \in SequenceNumbers
      PROVE  phaseOf(e, s) = "unsent"
  <2>1. prevSequenceSends[e] = 0 /\ s > 0
    BY DEF Init, SequenceNumbers
  <2>2. QED
    BY Zenon, <2>1 DEF phaseOf
<1>2. QED
  BY Zenon, <1>1 DEF phases

\* Whatever leaves commitments and callbacks alone leaves the phases alone.
LEMMA RefineUntouched ==
    ASSUME UNCHANGED <<prevSequenceSends, commitments>>
    PROVE  UNCHANGED phases
<1>1. \A e \in Endpoints, s \in SequenceNumbers : phaseOf(e, s)' = phaseOf(e, s)
  BY Zenon, FrameStore, PhaseFrame, EndpointFacts DEF StoreUnchanged
<1>2. QED
  BY Zenon, <1>1 DEF phases

\* sendPacket is the step of a packet from unsent to sent.
LEMMA RefineSendPacket ==
    ASSUME IInv, NEW e \in Endpoints, NEW app \in Apps, NEW t \in Timestamps,
           NEW payload \in Payloads, sendPacket(e, app, t, payload),
           NEW n, n = nextSequenceSend(e), NEW packet, packet = packetOf(e, t, payload)
    PROVE  Lifecycle!Next
<1>0. Sending(e, n, packet)
  BY SendEffect, Zenon
<1>1. /\ n = prevSequenceSends[e] + 1 /\ prevSequenceSends[e] \in Nat /\ n \in SequenceNumbers
      /\ \A f \in Endpoints : prevSequenceSends'[f] = IF f = e THEN n ELSE prevSequenceSends[f]
  BY <1>0, Zenon DEF Sending
<1>2. \A f \in Endpoints, r \in SequenceNumbers :
        /\ committed(f, r)' = IF f = e /\ r = n THEN packetCommitmentBytes32(packet) ELSE committed(f, r)
        /\ acknowledged(f, r)' = acknowledged(f, r)
  BY <1>0, ZenonT(40) DEF Sending
<1>3. acknowledged(Counterparty[e], n) = None /\ packetCommitmentBytes32(packet) # None
  BY <1>0, Zenon DEF Sending
<1>4. phaseOf(e, n) = "unsent"
  BY <1>1 DEF phaseOf
<1>5. phaseOf(e, n)' = "sent"
  <2>1. ~(n > prevSequenceSends'[e])
    BY <1>1
  <2>2. acknowledged(Counterparty[e], n)' = None /\ committed(e, n)' # None
    BY Zenon, <1>1, <1>2, <1>3, EndpointFacts
  <2>3. QED
    BY ZenonT(40), <2>1, <2>2 DEF phaseOf
<1>6. ASSUME NEW f \in Endpoints, NEW r \in SequenceNumbers, ~(f = e /\ r = n)
      PROVE  phaseOf(f, r)' = phaseOf(f, r)
  <2>1. /\ committed(f, r)' = committed(f, r)
        /\ acknowledged(Counterparty[f], r)' = acknowledged(Counterparty[f], r)
    BY ZenonT(40), <1>2, <1>6, EndpointFacts
  <2>2. r > prevSequenceSends'[f] <=> r > prevSequenceSends[f]
    BY <1>1, <1>6 DEF SequenceNumbers
  <2>3. QED
    BY Zenon, <2>1, <2>2 DEF phaseOf
<1>7. phases' = [phases EXCEPT ![e][n] = "sent"]
  BY ZenonT(40), <1>1, <1>5, <1>6, PhaseChange
<1>8. ASSUME NEW r \in SequenceNumbers, r < n
       PROVE  phases[e][r] # "unsent"
  <2>1. ~(r > prevSequenceSends[e])
    BY <1>1, <1>8 DEF SequenceNumbers
  <2>2. phaseOf(e, r) # "unsent"
    BY Zenon, <2>1 DEF phaseOf
  <2>3. QED
    BY Zenon, <2>2 DEF phases
<1>9. phases[e][n] = "unsent"
  BY Zenon, <1>1, <1>4 DEF phases
<1>10. QED
  BY ZenonT(20), <1>1, <1>7, <1>8, <1>9 DEF Lifecycle!Next, Lifecycle!Send, Lifecycle!Advance

\* recvPacket executes or rejects a packet that is still outstanding.
LEMMA RefineRecvPacket ==
    ASSUME IInv, NEW g \in Endpoints, NEW p \in Packet, NEW h \in Heights, NEW ack \in Acks,
           recvPacket(g, p, h, ack)
    PROVE  Lifecycle!Next
<1> DEFINE s == p.sequence
           e == Counterparty[g]
           ackCommitment == packetAcknowledgementCommitmentBytes32(ack)
<1>0. Receiving(g, p, s, ack, ackCommitment)
  BY RecvEffect, Zenon
<1>1. e \in Endpoints /\ Counterparty[e] = g /\ s \in SequenceNumbers
  BY ZenonT(40), EndpointFacts DEF Packet
<1>2. /\ \A f \in Endpoints, r \in SequenceNumbers :
            /\ committed(f, r)' = committed(f, r)
            /\ acknowledged(f, r)' = IF f = g /\ r = s THEN ackCommitment ELSE acknowledged(f, r)
      /\ acknowledged(g, s) = None /\ ackCommitment # None /\ received(g, s)' # None
      /\ p = sent[e][s] /\ p # None
      /\ prevSequenceSends' = prevSequenceSends /\ callbacks'[e][s].timeout = callbacks[e][s].timeout
  <2>1. \A f \in Endpoints, r \in SequenceNumbers :
          /\ committed(f, r)' = committed(f, r)
          /\ acknowledged(f, r)' = IF f = g /\ r = s THEN ackCommitment ELSE acknowledged(f, r)
    BY <1>0, Zenon DEF Receiving
  <2>2. \A f \in Endpoints, r \in SequenceNumbers :
          /\ received(f, r)' = IF f = g /\ r = s THEN p ELSE received(f, r)
          /\ callbacks'[f][r].timeout = callbacks[f][r].timeout
    BY <1>0, Zenon DEF Receiving
  <2>3. acknowledged(g, s) = None /\ ackCommitment # None /\ p # None
    BY <1>0, Zenon DEF Receiving
  <2>4. p = sent[e][s] /\ prevSequenceSends' = prevSequenceSends
    BY <1>0, Zenon DEF Receiving
  <2> HIDE DEF s, e, ackCommitment
  <2>5. received(g, s)' = p /\ callbacks'[e][s].timeout = callbacks[e][s].timeout
    BY Zenon, <1>1, <2>2
  <2>6. QED
    BY Zenon, <2>1, <2>3, <2>4, <2>5
<1>3. committed(e, s) # None /\ ~(s > prevSequenceSends[e])
  <2>1. IInv' /\ TypeOK
    BY ZenonT(40), InvRecvPacket DEF IInv
  <2>2. callbacks[e][s].timeout = 0
    <3>1. TimeoutExcludesReceipt'
      BY <2>1, TimeoutExcludes, PTL
    <3>2. ~(callbacks[e][s].timeout > 0)
      BY ZenonT(40), <1>1, <1>2, <3>1 DEF TimeoutExcludesReceipt
    <3>3. callbacks[e][s].timeout \in Nat
      BY Zenon, <1>1, <2>1, PacketTypes
    <3>4. QED
      BY ONLY <3>2, <3>3
  <2>3. callbacks[e][s].ack = 0
    <3>1. acked[e][s] = None
      BY ZenonT(40), <1>1, <1>2, <2>1, PacketTypes, CommitmentFacts DEF IInv, AcksAreWritten
    <3>2. ~(callbacks[e][s].ack > 0)
      BY Zenon, <1>1, <3>1 DEF IInv, AcksAreWritten
    <3>3. callbacks[e][s].ack \in Nat
      BY Zenon, <1>1, <2>1, PacketTypes
    <3>4. QED
      BY ONLY <3>2, <3>3
  <2>4. s <= prevSequenceSends[e] /\ s \in Nat /\ prevSequenceSends[e] \in Nat
    BY Zenon, <1>1, <1>2, <2>1, PacketTypes DEF IInv, SentInOrder
  <2>5. committed(e, s) = packetCommitmentBytes32(p)
    <3>1. callbacks[e][s].ack + callbacks[e][s].timeout = 0
      BY ONLY <2>2, <2>3
    <3>2. QED
      BY Zenon, <1>1, <1>2, <2>4, <3>1 DEF IInv, CommittedUntilResolved
  <2>6. QED
    BY <2>4, <2>5, CommitmentFacts
<1>4. phaseOf(e, s) = "sent"
  BY Zenon, <1>1, <1>2, <1>3 DEF phaseOf
<1> DEFINE to == IF ack = UNIVERSAL_ERROR_ACK THEN "rejected" ELSE "executed"
<1>5. phaseOf(e, s)' = to
  <2>1. ackCommitment = packetAcknowledgementCommitmentBytes32(UNIVERSAL_ERROR_ACK) <=> ack = UNIVERSAL_ERROR_ACK
    BY Zenon DEF packetAcknowledgementCommitmentBytes32
  <2>2. acknowledged(Counterparty[e], s)' = ackCommitment /\ committed(e, s)' # None
    BY Zenon, <1>1, <1>2, <1>3
  <2>3. QED
    BY Zenon, <1>2, <1>3, <2>1, <2>2 DEF phaseOf
<1>6. \A f \in Endpoints, r \in SequenceNumbers :
        ~(f = e /\ r = s) => phaseOf(f, r)' = phaseOf(f, r)
  <2> SUFFICES ASSUME NEW f \in Endpoints, NEW r \in SequenceNumbers, ~(f = e /\ r = s)
               PROVE  phaseOf(f, r)' = phaseOf(f, r)
    OBVIOUS
  <2>1. Counterparty[f] \in Endpoints /\ ~(Counterparty[f] = g /\ r = s)
    BY Zenon, EndpointFacts
  <2>2. acknowledged(Counterparty[f], r)' = acknowledged(Counterparty[f], r)
    BY Zenon, <1>2, <2>1
  <2>3. committed(f, r)' = committed(f, r) /\ prevSequenceSends'[f] = prevSequenceSends[f]
    BY Zenon, <1>2
  <2>4. QED
    BY ZenonT(40), <2>2, <2>3, PhaseFrame
<1> HIDE DEF to
<1>7. phases' = [phases EXCEPT ![e][s] = to]
  BY <1>1, <1>5, <1>6, PhaseChange
<1>8. phases[e][s] = "sent" /\ to \in {"rejected", "executed"}
  BY Zenon, <1>1, <1>4 DEF phases, to
<1>9. QED
  BY ZenonT(20), <1>1, <1>7, <1>8 DEF Lifecycle!Next, Lifecycle!Receive, Lifecycle!Advance

\* ackPacket and timeoutPacket delete the commitment of an outstanding packet
\* and change nothing else a phase depends on.
LEMMA RefineDelete ==
    ASSUME IInv, NEW e \in Endpoints, NEW p \in Packet,
           Id(e) = p.sourceClient, commitmentFound(e, p), deletePacketCommitment(e, p),
           UNCHANGED prevSequenceSends
    PROVE  /\ p.sequence \in SequenceNumbers /\ ~(p.sequence > prevSequenceSends[e])
           /\ committed(e, p.sequence) # None /\ committed(e, p.sequence)' = None
           /\ \A f \in Endpoints, r \in SequenceNumbers : acknowledged(f, r)' = acknowledged(f, r)
           /\ \A f \in Endpoints, r \in SequenceNumbers :
                 ~(f = e /\ r = p.sequence) => phaseOf(f, r)' = phaseOf(f, r)
<1> DEFINE s == p.sequence
<1>1. TypeOK /\ s \in SequenceNumbers /\ p = sent[e][s]
  BY Zenon, FoundIsOutstanding DEF IInv
<1>2. \A f \in Endpoints, r \in SequenceNumbers :
        /\ committed(f, r)' = IF f = e /\ r = s THEN None ELSE committed(f, r)
        /\ received(f, r)' = received(f, r)
        /\ acknowledged(f, r)' = acknowledged(f, r)
  BY ZenonT(20), <1>1, WriteCommitment DEF deletePacketCommitment
<1>3. committed(e, s) # None
  BY Zenon, CommitmentFacts DEF commitmentFound, commitmentOf, committed
<1>4. ~(s > prevSequenceSends[e])
  <2>1. s <= prevSequenceSends[e] /\ s \in Nat /\ prevSequenceSends[e] \in Nat
    BY Zenon, <1>1, <1>3, PacketTypes DEF IInv, CommittedUntilResolved
  <2>2. QED
    BY <2>1
<1>5. \A f \in Endpoints, r \in SequenceNumbers :
        ~(f = e /\ r = s) => phaseOf(f, r)' = phaseOf(f, r)
  <2> SUFFICES ASSUME NEW f \in Endpoints, NEW r \in SequenceNumbers, ~(f = e /\ r = s)
               PROVE  phaseOf(f, r)' = phaseOf(f, r)
    OBVIOUS
  <2>1. /\ committed(f, r)' = committed(f, r) /\ prevSequenceSends'[f] = prevSequenceSends[f]
        /\ acknowledged(Counterparty[f], r)' = acknowledged(Counterparty[f], r)
    BY Zenon, <1>2, EndpointFacts
  <2>2. QED
    BY Zenon, <2>1, PhaseFrame
<1>6. QED
  BY Zenon, <1>1, <1>2, <1>3, <1>4, <1>5

\* ackPacket confirms an executed packet or refuses a rejected one.
LEMMA RefineAckPacket ==
    ASSUME IInv, NEW e \in Endpoints, NEW p \in Packet, NEW h \in Heights, NEW ack \in Acks,
           ackPacket(e, p, ack, h), NEW s, s = p.sequence
    PROVE  Lifecycle!Next
<1> DEFINE from == IF ack = UNIVERSAL_ERROR_ACK THEN "rejected" ELSE "executed"
           to == IF ack = UNIVERSAL_ERROR_ACK THEN "refused" ELSE "confirmed"
           ackCommitment == packetAcknowledgementCommitmentBytes32(ack)
<1>1. /\ s \in SequenceNumbers /\ ~(s > prevSequenceSends[e])
      /\ committed(e, s) # None /\ committed(e, s)' = None
      /\ \A f \in Endpoints, r \in SequenceNumbers : acknowledged(f, r)' = acknowledged(f, r)
      /\ \A f \in Endpoints, r \in SequenceNumbers :
            ~(f = e /\ r = s) => phaseOf(f, r)' = phaseOf(f, r)
  BY Zenon, RefineDelete DEF ackPacket, ackPacketVerified
<1>2. acknowledged(Counterparty[e], s) = ackCommitment /\ ackCommitment # None
  <2>1. /\ h \in 1..lastBlock(Counterparty[e])
        /\ acknowledgedAt(Counterparty[e], h, s) = ackCommitment
    BY Zenon DEF ackPacket, ackPacketVerified, ackPath, verifyMembership, Verifiable, CounterpartyBlock, IInv,
           TypeOK, lastBlock, acknowledgedAt
  <2>2. QED
    BY Zenon, <1>1, <2>1, EndpointFacts, CommitmentFacts DEF IInv, BlocksPersist
<1>3. ackCommitment = packetAcknowledgementCommitmentBytes32(UNIVERSAL_ERROR_ACK) <=> ack = UNIVERSAL_ERROR_ACK
  BY Zenon DEF packetAcknowledgementCommitmentBytes32
<1>4. phaseOf(e, s) = from
  BY Zenon, <1>1, <1>2, <1>3 DEF phaseOf
<1>5. phaseOf(e, s)' = to
  <2>1. acknowledged(Counterparty[e], s)' = ackCommitment /\ prevSequenceSends' = prevSequenceSends
    BY Zenon, <1>1, <1>2, EndpointFacts DEF ackPacket
  <2>2. QED
    BY Zenon, <1>1, <1>2, <1>3, <2>1 DEF phaseOf
<1> HIDE DEF from, to
<1>6. phases' = [phases EXCEPT ![e][s] = to] /\ phases[e][s] = from
  <2>1. phases' = [phases EXCEPT ![e][s] = to]
    BY <1>1, <1>5, PhaseChange
  <2>2. phases[e][s] = from
    BY Zenon, <1>1, <1>4 DEF phases
  <2>3. QED
    BY Zenon, <2>1, <2>2
<1>7. (from = "rejected" /\ to = "refused") \/ (from = "executed" /\ to = "confirmed")
  BY Zenon DEF from, to
<1>8. QED
  BY ZenonT(20), <1>1, <1>6, <1>7 DEF Lifecycle!Next, Lifecycle!Acknowledge, Lifecycle!Advance

\* timeoutPacket times out a packet that was neither executed nor rejected.
LEMMA RefineTimeoutPacket ==
    ASSUME IInv, NEW e \in Endpoints, NEW p \in Packet, NEW h \in Heights, timeoutPacket(e, p, h),
           NEW s, s = p.sequence
    PROVE  Lifecycle!Next
<1>1. /\ s \in SequenceNumbers /\ ~(s > prevSequenceSends[e])
      /\ committed(e, s) # None /\ committed(e, s)' = None
      /\ \A f \in Endpoints, r \in SequenceNumbers : acknowledged(f, r)' = acknowledged(f, r)
      /\ \A f \in Endpoints, r \in SequenceNumbers :
            ~(f = e /\ r = s) => phaseOf(f, r)' = phaseOf(f, r)
  BY Zenon, RefineDelete DEF timeoutPacket, timeoutPacketVerified
<1>2. acknowledged(Counterparty[e], s)' = None
  <2>1. IInv' /\ TypeOK
    BY InvTimeoutPacket DEF IInv
  <2>2. TimeoutExcludesReceipt'
    BY <2>1, TimeoutExcludes, PTL
  <2>3. callbacks'[e][s].timeout > 0
    <3>1. callbacks \in [Endpoints -> [SequenceNumbers -> Callbacks]]
      BY Zenon, <2>1 DEF TypeOK, Callbacks
    <3>2. callbacks[e][s] \in Callbacks
      BY Zenon, <1>1, <3>1
    <3>3. callbacks'[e][s] = [callbacks[e][s] EXCEPT !.timeout = @ + 1]
      BY Zenon, <1>1, <3>1 DEF timeoutPacket
    <3>4. QED
      BY <3>2, <3>3 DEF Callbacks
  <2>4. received(Counterparty[e], s)' = None
    BY Zenon, <1>1, <2>2, <2>3 DEF TimeoutExcludesReceipt
  <2>5. QED
    BY Zenon, <1>1, <2>1, <2>4, EndpointFacts DEF IInv, AckedWithReceipt
<1>3. phaseOf(e, s) = "sent" /\ phaseOf(e, s)' = "timedOut"
  <2>1. acknowledged(Counterparty[e], s) = None /\ prevSequenceSends' = prevSequenceSends
    BY Zenon, <1>1, <1>2, EndpointFacts DEF timeoutPacket
  <2>2. QED
    BY Zenon, <1>1, <1>2, <2>1 DEF phaseOf
<1>4. phases' = [phases EXCEPT ![e][s] = "timedOut"] /\ phases[e][s] = "sent"
  <2>1. phases' = [phases EXCEPT ![e][s] = "timedOut"]
    BY <1>1, <1>3, PhaseChange
  <2>2. phases[e][s] = "sent"
    BY Zenon, <1>1, <1>3 DEF phases
  <2>3. QED
    BY Zenon, <2>1, <2>2
<1>5. QED
  BY ZenonT(20), <1>1, <1>4 DEF Lifecycle!Next, Lifecycle!TimeOut, Lifecycle!Advance

\* Every transaction takes one packet one step along, or none.
LEMMA RefineNext == IInv /\ [Next]_vars => [Lifecycle!Next]_phases
<1> SUFFICES ASSUME IInv, [Next]_vars PROVE Lifecycle!Next \/ UNCHANGED phases
  OBVIOUS
<1>1. CASE UNCHANGED vars
  BY Zenon, <1>1, RefineUntouched DEF vars, router
<1>2. CASE \E c \in Chains : FinalizeBlock(c)
  BY Zenon, <1>2, RefineUntouched DEF FinalizeBlock, router
<1>3. CASE \E c \in Chains, port \in Ports, app \in Apps : addIBCApp(c, port, app)
  BY Zenon, <1>3, RefineUntouched DEF addIBCApp
<1>4. CASE \E e \in Endpoints : updateClient(e) \/ submitMisbehaviour(e) \/ migrateClient(e)
  BY Zenon, <1>4, RefineUntouched DEF updateClient, submitMisbehaviour, migrateClient, router
<1>5. CASE \E e \in Endpoints, app \in Apps, t \in Timestamps, payload \in Payloads :
              sendPacket(e, app, t, payload)
  BY Zenon, <1>5, RefineSendPacket
<1>6. CASE \E e \in Endpoints : RecvPacket(e)
  BY Zenon, <1>1, <1>6, RefineRecvPacket DEF RecvPacket, recvPacketNoop
<1>7. CASE \E e \in Endpoints, s \in SequenceNumbers : AckPacket(e, s)
  BY Zenon, <1>1, <1>7, RefineAckPacket DEF AckPacket, ackPacketNoop
<1>8. CASE \E e \in Endpoints, s \in SequenceNumbers : TimeoutPacket(e, s)
  BY Zenon, <1>1, <1>8, RefineTimeoutPacket DEF TimeoutPacket, timeoutPacketNoop
<1>9. QED
  BY Zenon, <1>1, <1>2, <1>3, <1>4, <1>5, <1>6, <1>7, <1>8 DEF Next

-----------------------------------------------------------------------------
\* The routers of the connected chains implement the packet life cycle.
THEOREM Refinement == Spec => LifecycleSpec
BY RefineInit, RefineNext, Invariance, PTL DEF Spec, LifecycleSpec, Lifecycle!Spec


=============================================================================
