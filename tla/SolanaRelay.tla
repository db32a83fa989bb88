------------------------------ MODULE SolanaRelay ------------------------------
(***************************************************************************)
(* Packets relayed to Solana by the proof API (cosmos-to-solana): from the *)
(* events of the two chains it builds, for one packet at a time, chunk     *)
(* uploads, a final transaction and a clean-up, which a worker submits in  *)
(* that order.  Workers that sign with the same key share the chunk        *)
(* accounts, and so do the packets a client receives and sends under the   *)
(* same sequence number.                                                   *)
(***************************************************************************)
EXTENDS SolanaRouter

CONSTANTS
    Workers,       \* the processes that submit transactions
    Key,           \* [worker]: the relayer key it signs with
    PeerAcks,      \* the acknowledgements the counterparty chain may write
    MaxCrashes     \* bound: how many jobs are abandoned half-way

VARIABLES
    job,           \* [worker]: the transactions it is submitting
    crashes

relay == <<job, crashes>>
allVars == <<vars, relay>>

\* An acknowledgement is committed as a hash, never as nothing.
ASSUME RelayAssumption == Key \in [Workers -> Relayers] /\ None \notin PeerAcks

Kinds == {"recv", "ack", "timeout"}

\* A payload of one chunk travels in the message (INLINE_THRESHOLD).
delivery(payload) == IF Len(payload) = 1 THEN Inline(payload) ELSE Chunked(Len(payload))

\* The client a message is addressed to on Solana.
LocalClient(kind, packet) == IF kind = "recv" THEN packet.destClient ELSE packet.sourceClient
PeerOf(kind, packet) == IF kind = "recv" THEN packet.sourceClient ELSE packet.destClient
ProvenAt(kind) ==
    [recv |-> "commitment", ack |-> "ack", timeout |-> "receipt"][kind]

\* Which events of a packet become a message.  The proof API's own clock is
\* taken to be the one of Solana.
src_events_to_recv_and_ack_msgs(kind, packet) ==
    \/ kind = "recv" /\ packet.sourceClient \in Peers /\ packet.timeout > now
    \/ kind = "ack" /\ packet.sourceClient \in Clients
target_events_to_timeout_msgs(kind, packet) ==
    kind = "timeout" /\ packet.sourceClient \in Clients /\ now >= packet.timeout

Wanted(kind, packet) ==
    src_events_to_recv_and_ack_msgs(kind, packet) \/ target_events_to_timeout_msgs(kind, packet)

\* The newest block, to which the client is brought first, is the one proved
\* against; it must be late enough for a timeout.
needs_update_client(kind, packet, block) == kind = "timeout" /\ ~Elapsed(block, packet)

\* The value to prove is there, or absent.
inject_tendermint_proofs(kind, packet, block) ==
    (block[ProvenAt(kind)][PeerOf(kind, packet)][packet.sequence] = None) <=> (kind = "timeout")

Provable(kind, packet, block) ==
    ~needs_update_client(kind, packet, block) /\ inject_tendermint_proofs(kind, packet, block)

\* The message for the router.
ibc_to_solana_packet(kind, packet, block) ==
    [packet |-> packet, data |-> delivery(packet.payload), block |-> block,
     ack |-> block.ack[PeerOf(kind, packet)][packet.sequence]]

\* relay_events_chunked: the transactions for one packet.
Relay(w, kind, e, s) ==
    LET packet == sent[e][s]
    IN  /\ job[w] = None
        /\ packet # None /\ Wanted(kind, packet) /\ Provable(kind, packet, peer)
        /\ job' = [job EXCEPT ![w] =
                     [kind |-> kind, client |-> LocalClient(kind, packet),
                      msg |-> ibc_to_solana_packet(kind, packet, peer),
                      todo |-> SlotsUsed(delivery(packet.payload)), final |-> "due"]]
        /\ UNCHANGED <<vars, crashes>>

ChunkValue(j, slot) ==
    IF slot[1] = "payload" THEN j.msg.packet.payload[slot[2]]
    ELSE Proof(ProvenAt(j.kind), PeerOf(j.kind, j.msg.packet), j.msg.packet.sequence, j.msg.block)

\* Chunks are submitted in any order; a chunk account of zeros refuses one.
Upload(w, slot) ==
    LET j == job[w]
        s == j.msg.packet.sequence
    IN  /\ j # None /\ slot \in j.todo
        /\ job' = [job EXCEPT ![w].todo = @ \ {slot}]
        /\ UNCHANGED crashes
        /\ \/ upload_chunk(Key[w], j.client, s, slot, ChunkValue(j, slot))
           \/ ~Uploadable(Key[w], j.client, s, slot) /\ UNCHANGED vars

\* The final transaction, which may fail; the clean-up follows either way.
Final(w, kind, e, s) ==
    LET j == job[w]
    IN  /\ j # None /\ j.todo = {} /\ j.final = "due"
        /\ j.kind = kind /\ j.msg.packet = sent[e][s]
        /\ \/ kind = "recv" /\ recv_packet(Key[w], j.msg)
           \/ kind = "ack" /\ ack_packet(Key[w], j.msg)
           \/ kind = "timeout" /\ timeout_packet(Key[w], j.msg)
        /\ job' = [job EXCEPT ![w].final = "done"]
        /\ UNCHANGED crashes

FinalFails(w) ==
    /\ job[w] # None /\ job[w].todo = {} /\ job[w].final = "due"
    /\ job' = [job EXCEPT ![w].final = "done"]
    /\ UNCHANGED <<vars, crashes>>

Cleanup(w) ==
    LET j == job[w]
        s == j.msg.packet.sequence
        slots == SlotsUsed(j.msg.data)
    IN  /\ j # None /\ j.final = "done"
        /\ job' = [job EXCEPT ![w] = None]
        /\ UNCHANGED crashes
        /\ \/ cleanup_chunks(Key[w], j.client, s, slots)
           \/ /\ \E slot \in slots : chunks[<<Key[w], j.client, s, slot>>] = None
              /\ UNCHANGED vars

\* The worker stops between two transactions and forgets its job.
Crash(w) ==
    /\ job[w] # None /\ crashes < MaxCrashes
    /\ job' = [job EXCEPT ![w] = None]
    /\ crashes' = crashes + 1
    /\ UNCHANGED vars

-----------------------------------------------------------------------------
RelayInit ==
    /\ Init
    /\ job = [w \in Workers |-> None]
    /\ crashes = 0

Work(w) ==
    \/ \E slot \in Slots : Upload(w, slot)
    \/ \E kind \in Kinds, e \in Endpoints, s \in SequenceNumbers : Final(w, kind, e, s)
    \/ FinalFails(w) \/ Cleanup(w)

Administrators ==
    \/ pause \/ unpause \/ add_ibc_app
    \/ \E program \in LightClients : Freeze(program)
    \/ \E c \in Clients, program \in LightClients, p \in Peers :
           /\ PeerClient[p] = c
           /\ \/ add_client(c, program, p)
              \/ \E active \in BOOLEAN : migrate_client(c, program, p, active)

Chains ==
    \/ Tick \/ PeerTick
    \/ \E s \in SequenceNumbers, timeout \in Timestamps :
           \/ \E c \in Clients, payload \in LocalPayloads : send_packet(c, s, timeout, payload)
           \/ \E p \in Peers, payload \in PeerPayloads : PeerSend(p, s, timeout, payload)
    \/ \E s \in SequenceNumbers :
           \/ \E c \in Clients, ack \in PeerAcks : PeerRecv(c, s, ack)
           \/ \E p \in Peers, told \in {"confirmed", "timedOut"} : PeerResolve(p, s, told)

Next ==
    \/ \E w \in Workers, kind \in Kinds, e \in Endpoints, s \in SequenceNumbers :
           Relay(w, kind, e, s)
    \/ \E w \in Workers : Work(w) \/ Crash(w)
    \/ (Administrators \/ Chains) /\ UNCHANGED relay

Spec == RelayInit /\ [][Next]_allVars

\* Clocks advance, a pause ends, a worker goes on with its job, every packet is asked for
\* again until it is resolved, and a final transaction that can succeed again
\* and again is not dropped every time.
FairSpec ==
    /\ Spec
    /\ WF_allVars((Tick \/ PeerTick \/ unpause) /\ UNCHANGED relay)
    /\ \A w \in Workers : WF_allVars(Work(w))
    /\ \A kind \in {"ack", "timeout"}, c \in Clients, s \in SequenceNumbers :
           /\ SF_allVars(\E w \in Workers : Relay(w, kind, c, s))
           /\ SF_allVars(\E w \in Workers : Final(w, kind, c, s))

-----------------------------------------------------------------------------
Packets ==
    [sequence : SequenceNumbers, sourceClient : Endpoints, destClient : Endpoints,
     timeout : Timestamps, payload : LocalPayloads \cup PeerPayloads]

\* Type correctness of the accounts of the router.
TypeOK ==
    /\ now \in Timestamps /\ peer.time \in Timestamps
    /\ paused \in BOOLEAN /\ app \in BOOLEAN /\ frozen \subseteq LightClients
    /\ \A c \in Clients, s \in SequenceNumbers :
           /\ clients[c] \in {None} \cup
                [program : LightClients, counterparty : Peers, active : BOOLEAN]
           /\ commitments[c][s] \in
                {None, Zeroed} \cup (Peers \X Timestamps \X LocalPayloads)
           /\ receipts[c][s] \in {None} \cup Packets
           /\ acks[c][s] \in {None, AppAck}
    /\ \A a \in ChunkAddresses :
           a[4][1] = "payload" => chunks[a] \in ChunkData \cup {None, Zeroed}

\* An application is only ever handed packets that the other side sent, and
\* told about packets it sent, unchanged: whatever two workers wrote into the
\* chunk accounts they share, a payload put together from the chunks of two
\* packets does not get past the commitment check (recv_packet.rs:184-203,
\* ack_packet.rs:180-184, timeout_packet.rs:177-181).
CallbacksMatchPackets ==
    /\ \A c \in Clients, s \in SequenceNumbers : \A i \in DOMAIN delivered[c][s] :
           \E p \in Peers : delivered[c][s][i] = sent[p][s]
    /\ \A e \in Endpoints, s \in SequenceNumbers : \A i \in DOMAIN outcome[e][s] :
           outcome[e][s][i][2] = sent[e][s]

\* How far a packet has come, in the terms of PacketLifecycle.
Executions(e, s) ==
    IF e \in Clients
    THEN LET p == sent[e][s].destClient
         IN  IF peer.receipt[p][s] # sent[e][s] THEN <<>>
             ELSE IF peer.ack[p][s] = UNIVERSAL_ERROR_ACK THEN <<"rejected">> ELSE <<"executed">>
    ELSE [i \in DOMAIN delivered[PeerClient[e]][s] |-> "executed"]

Notices(e, s) == [i \in DOMAIN outcome[e][s] |-> outcome[e][s][i][1]]

PhaseOf(packet, done, told) ==
    IF packet = None THEN "unsent"
    ELSE CASE done = <<>> /\ told = <<>> -> "sent"
           [] Len(done) = 1 /\ told = <<>> -> done[1]
           [] done = <<"executed">> /\ told = <<"confirmed">> -> "confirmed"
           [] done = <<"rejected">> /\ told = <<"refused">> -> "refused"
           [] done = <<>> /\ told = <<"timedOut">> -> "timedOut"
           [] OTHER -> "corrupt"

Phase(e, s) == PhaseOf(sent[e][s], Executions(e, s), Notices(e, s))

phases == [e \in Endpoints |-> [s \in SequenceNumbers |-> Phase(e, s)]]

Lifecycle == INSTANCE PacketLifecycle WITH phase <- phases

LifecycleNext ==
    \E e \in Endpoints, s \in SequenceNumbers :
        \/ Lifecycle!Advance(e, s, "unsent", "sent")
        \/ Lifecycle!Receive(e, s)
        \/ Lifecycle!Acknowledge(e, s)
        \/ Lifecycle!TimeOut(e, s)

\* Every packet of either side goes through the life cycle the Solidity routers
\* implement: executed at most once, its sender told once and truthfully, never
\* timed out after it was executed.  Only the order of sending is given up:
\* on Solana the application picks the sequence number (send_packet.rs:112).
PacketsFollowLifecycle == Lifecycle!Init /\ [][LifecycleNext]_phases

Serving(c) == clients[c] # None /\ clients[c].active /\ clients[c].program \notin frozen

\* Every packet sent from Solana is resolved in the end, unless its client was
\* deactivated or frozen, although a worker may crash at any point and leave
\* behind chunk accounts of zeros, which refuse uploads, or half of its chunks
\* (chunking.rs:312-316, cleanup_chunks.rs:39-128).
SentIsResolved ==
    \A c \in Clients, s \in SequenceNumbers :
        sent[c][s] # None ~> outcome[c][s] # <<>> \/ ~Serving(c)

=============================================================================
