# IBC Eureka in TLA+

A verification development for `solidity-ibc-eureka`: TLA+ models of the packet
protocol on Ethereum and Solana, of the token applications on top of it, of the
light clients below it and of the service that feeds them; TLC runs on small
instances; and TLAPS proofs that hold for every instance.

## The system

| Part | Where | Modelled |
|---|---|---|
| ICS26 router, provable store, ICS-24 paths | `contracts/ICS26Router.sol`, `utils/IBCStoreUpgradeable.sol`, `utils/ICS24Host.sol` | `ICS26Router` |
| ICS02 client registry | `contracts/utils/ICS02ClientUpgradeable.sol` | `ICS26Router`, in part |
| ICS20 transfer, vouchers | `contracts/ICS20Transfer.sol`, `utils/IBCERC20.sol` | `ICS20Transfer` |
| Escrow and rate limit | `contracts/utils/Escrow.sol`, `RateLimitUpgradeable.sol` | `RateLimit`, `Escrow` |
| SP1 ICS07 Tendermint and attestation clients | `contracts/light-clients` | `LightClients` |
| ICS27 GMP and interchain fungible tokens (IFT) | `contracts/ICS27GMP.sol`, `utils/IFTBaseUpgradeable.sol` | `IFT` |
| Solana router and chunk uploads | `programs/solana/programs/ics26-router` | `SolanaRouter` |
| Solana ICS07 Tendermint and attestation clients | `.../ics07-tendermint`, `.../attestation` | `LightClients` |
| Solana access manager | `.../access-manager` | `AccessManager` |
| Solana GMP and IFT | `.../ics27-gmp`, `.../ift` | `IFT` |
| Ethereum light client and its CosmWasm contract | `packages/ethereum/light-client`, `ibc-solidity/programs/cw-ics08-wasm-eth` | `EthereumLightClient` |
| Proof API: packets to Solana, client updates | `packages/proof-api` | `SolanaRelay`, `LightClientUpdates`, `EthereumLightClient` |
| Precompile wrapper, SP1 programs, tries and hashing, operator, generated code | `contracts`, `packages`, `programs` | no |

`contracts/` is `ibc-solidity/contracts/`. `PROJECT.json` lists every part with
what is left out of it, the source lines of every definition, and the hazards
the properties are aimed at.

How the parts interact: an application calls the router's `sendPacket`, which
commits to the packet in the store. A relayer proves that commitment to the
other router's light client, which lets that router write a receipt, call the
destination application and commit to its acknowledgement. The acknowledgement,
or the absence of a receipt in a block at or past the timeout, is proved back to
the first router, which deletes the commitment and calls the sending
application. ICS20 is such an application; IFT is one above GMP. The proof API
reads both chains and builds the transactions a relayer submits, one per packet
or client update on most chains and several on Solana, whose transactions are
too small for a payload, a proof or a header.

## Modules

| Module | Contents |
|---|---|
| `PacketLifecycle` | What the routers promise an application about a packet: the seven phases |
| `ICS26Router`, `MCICS26Router` | The Solidity routers, stores, blocks and clients of several chains; properties; refinement mapping |
| `ICS26RouterProofs` | Their proofs: types, packets and blocks, the inductive invariant, the refinement |
| `RateLimit`, `Escrow` | The rate limit; one escrow and one token over the days |
| `ICS20Transfer`, `MCICS20Transfer`, `ICS20TransferProofs` | Transfers over `PacketLifecycle`; proofs, those about `Escrow` included |
| `SolanaRouter` | The Solana router and its accounts, chunks included, and the chain at the other end |
| `SolanaRelay`, `MCSolanaRelay`, `SolanaRelayProofs` | The proof API's workers in front of it; properties; proofs |
| `AccessManager`, `MCAccessManager`, `AccessManagerProofs` | Roles and the two-step transfers; proofs |
| `IFT`, `IFTProofs` | Interchain fungible tokens on both chains, over `PacketLifecycle`; proofs |
| `Sums` | Lemmas about sums over finite sets, for the proofs about tokens |
| `LightClients` | The Tendermint client of Solana, the SP1 client and the attestation clients |
| `LightClientUpdates`, `MCLightClients`, `LightClientProofs` | The proof API's updates and other relayers; properties; proofs |
| `EthereumLightClient`, `EthereumLightClientProofs` | The Ethereum client of a Cosmos chain, the beacon chain, the proof API's updates; proofs |

Operators whose comment begins with "Mutant" are deliberately wrong variants of
the definition that follows them. Each property has one that makes it fail.

### ICS26Router

One action is one transaction. The routers are `nonReentrant` and a transaction
that reverts changes nothing, so a revert is an action that is not enabled and a
no-op branch is an action that changes nothing. The state is the contracts'
storage (`apps`, `prevSequenceSends`, `commitments`), the clock and the finalised
blocks of each chain, and for each registered client the heights it trusts and
whether it is frozen. History variables record the packets sent, the callbacks
that took effect and the acknowledgements handed over; no guard reads them.

- Relayers are any callers: they submit any packet, acknowledgement and trusted
  height, in any order, again, or never. The packet is compared with what is
  proved, as the code does, so altered packets are among those submitted.
- The two clocks are independent. The receiver compares the timeout with its own
  `block.timestamp`, the sender with the timestamp of the proved block.
- The application's `onRecvPacket` returns an acknowledgement or fails. Where it
  fails, its effects are rolled back and the universal error acknowledgement is
  written, but the receipt stays.
- Paths and hashes keep what they cover: `packetCommitmentBytes32` leaves out the
  source client and the sequence, as in `ICS24Host.sol`. Hashes are injective.
- Clients may be updated to any finalised block in any order, frozen, and
  replaced by `migrateClient` by a fresh client of the same counterparty.
- `MaxSequence` stands for the largest `uint64`; the checked increment of
  `nextSequenceSend` reverts there. `MaxSends`, `MaxHeight` and `MaxTimestamp`
  only bound the instance.

### Escrow and RateLimit

`Escrow` follows one token: deposits reduce the day's usage, withdrawals add to
it if the limit admits them, and the rate limiter sets, changes or lifts the
limit at any time. `outflow` and `lowest` record the net outflow since the day began or
the limit was set, and its lowest value; `outflow - lowest` is then the largest net
outflow of any stretch that ends now.

### ICS20Transfer

Each action is the router's transaction with the callback it makes, and takes
one step of `PacketLifecycle`; that the routers implement it is the theorem
`Refinement`. A denomination is the sequence of hops followed by an address, so
that undoing a hop, adding one, and telling an address from a voucher path are
what the code does with prefixes. Balances are kept per chain, denomination and
holder, the escrow of a client being a holder. Receivers may be users, escrows,
or not an address at all. Tokens in `FeeTokens` deliver less than was asked for.
A payment that the rate limit or the pause refuses makes `onRecvPacket` fail,
which the router answers with an error acknowledgement, and makes a refund
revert, which leaves the packet to be acknowledged later. The usage kept here is
that of the current day's key.

### SolanaRouter and SolanaRelay

A commitment, a receipt, an acknowledgement and a chunk are accounts: absent
(`None`), holding a value, or filled with zeros (`Zeroed`). `send_packet` takes
the sequence number from the caller and fails if the commitment account exists;
the account is cleared but never closed. An application that fails aborts the
transaction, so Solana never writes an error acknowledgement. A payload is inline
or a sequence of chunks, each uploaded by a transaction of its own into an
account addressed by relayer, client, sequence and index. `recv_packet`,
`ack_packet` and `timeout_packet` put the payload together, check it against the
commitment and fill the used chunks with zeros; only `cleanup_chunks` closes them,
and an account of zeros refuses uploads until then.

`SolanaRelay` adds the workers: a request chooses a packet by its events, builds
the messages from one block, uploads the chunks in any order, sends the final
transaction, and cleans up. A worker may find that its final transaction fails,
or crash between any two transactions. Workers may share a key and so the chunk
accounts.

### AccessManager

Several managers, the programs they govern, accounts that sign and multisigs
that call through a program. One action per instruction; `claim_upgrade_authority`
is the acceptance by another manager. `upgrade_program` replaces code only.
The deployer, who holds a program's upgrade authority first, names any address as
its access manager, once (`initialize`), and as the next authority (`HandOver`);
nothing checks that there is a manager with an administrator behind it, and if
there is none the program is stranded from the start. `NoProgramStranded` is about what happens afterwards: a program or
authority once in the hands of an administered manager never leaves such hands,
except to a key that accepts the authority.

### IFT

Sending burns and opens a pending transfer, receiving mints. On the EVM chain the
acknowledgement or timeout settles the pending transfer at once. On Solana it
leaves a result account, and `finalize_transfer`, which anyone may send, settles
it later: it mints the refund through the same daily limit as other mints, and
needs the program not to be paused. `net` and `issued` are history variables.

### LightClients and LightClientUpdates

`kind` says which client is modelled. A block is a height, a root and a time, and
is signed when `Threshold` signers have signed it; a fork is a second block at a
height. A header for the Tendermint client of Solana arrives in chunks, and
whether its signatures are valid is read from accounts that `pre_verify_signature`
made earlier. An account for a signature may be made by any relayer (`OtherKeys`),
before anyone needs it, and also with the result false for a good signature; an
update that passes the account is then refused, with no second check, and only
the maker can close the account. Other programs may also use a request's key and
overwrite its chunks (`Mix`). The SP1 client
gets a proof about a time that may differ from its clock. The attestation clients
check signatures for distinct signers and a quorum. The proof API's aggregator
keeps the first quorum of a height in its cache. Other relayers submit whatever
is signed, from any trusted height, in any order. The ibc-rs verifier that the
Tendermint packages call is taken as specified: a header of a signed block, later
than the trusted one, within the trusting period and the clock drift.

### EthereumLightClient

A sync committee is named by its period. Verification follows the package:
participants, slots, signature period, which committee signs, finality and next
committee. As in the contract, a header is verified against the state it names
and applied to the latest one. A request of the proof API reads the client,
collects one update per period and a finality update, and submits all headers in
one transaction. Other relayers submit any header of the chain with any
admissible signature slot, and headers that only the faulty members of a
committee sign. Assumed: a block and an update in every slot, one fork version,
a Cosmos clock within a slot of the beacon chain, and a governance that restarts
the client no earlier than where it stands.

## Runs

| Run | Instance | Properties | Result |
|---|---|---|---|
| `packet_deep` | one packet, three receiving blocks, fairness | `TypeOK`, `ResolvedAtMostOnce`, `TimeoutExcludesReceipt`, `AckTellsExecution`, `CommittedUntilResolved`, `ResolvableIsResolved` | hold, 10,568 states |
| `packet_crossing` | two packets one way, one the other, equal client identifiers | `ExecutedAtMostOnce`, `LifecycleSpec` | hold, 34,104 states |
| `escrow_limit` | two days, limits 0, 2, 4, amounts 1 to 3 | `EscrowTypeOK`, `NetOutflowWithinLimit`, `UsageCoversOutflow` | hold, 4,164 states |
| `transfer_line` | three chains, four escrows, a good token and one with a fee | `EscrowBacksVouchers`, `RefundOnlyDelayed` | hold, 112,104 states |
| `transfer_liveness` | two chains, two transfers each way, a limit at one end, fairness | `TypeOK`, `EscrowBacksVouchers`, `RefundsArrive` | hold, 96,980 states |
| `solana_relay` | two workers with one key, a packet each way, payloads of two chunks | `TypeOK`, `CallbacksMatchPackets`, `PacketsFollowLifecycle` | hold, 305,521 states |
| `solana_liveness` | one worker, one crash, one administrative action, inline and chunked payloads, fairness | `PacketsFollowLifecycle`, `SentIsResolved` | hold, 111,005 states |
| `access_manager` | two managers, one program, a signer and a multisig | `NoProgramStranded` | holds, 206,125 states |
| `ift` | two transfers each way, limits 1 and 3, two administrative actions, fairness | `TypeOK`, `SupplyConserved`, `MintsWithinLimit`, `TransfersSettle` | hold, 133,689 states |
| `light_clients` | three kinds of client, three heights, two signers, a request, another relayer, disturbances in pairs, fairness | `TypeOK`, `StatesBacked`, `FrozenOnlyOnConflict`, `LatestIsStored`, `StatesSettled`, `UpdatesArrive` | hold, 184,878 states |
| `light_client_latest` | the Tendermint client of Solana, three heights, no fork | `ExpiredMeansStale` | violated, see Findings |
| `ethereum_client` | three periods of two slots, committees of three with at most one faulty member, fairness | `TypeOK`, `StatesBacked`, `FrozenOnlyOnConflict`, `LatestCommittees`, `UpdatesArrive` | hold, 36,583 states |

Larger instances checked outside these runs, because they take too long to be
repeated at every change; all hold:

- the safety invariants of `ICS26Router` with a second timeout value
  (`MaxTimestamp = 2`, 50,200 states);
- the same and `LifecycleSpec` with a packet each way and a third block of the
  receiving chain, so that packets that cross also time out (63,172 states);
- `TypeOK` and `EscrowBacksVouchers` of `ICS20Transfer` with limits at both ends
  (365,556 states);
- all properties of `light_clients` with a crash, accounts of others and a fork in
  one behaviour (395,342 states).

Why the bounds are enough. A packet interferes with another only through a
shared path, so one packet suffices for depth (three blocks, so that a proof can
be older or newer than the receipt) and three crossing packets for confusion
between directions and sequences. Three chains in a line are the shortest route
on which a voucher is itself escrowed; client identifiers repeat on purpose. Two
transfers each way let one exhaust the allowance that another needs. On Solana,
two workers and a packet each way under one client and sequence are the least
with which chunks of different packets meet in one account; the payloads differ
in both chunks. Two managers are what a hand-over needs. Three heights allow an
update that arrives late, and a fork that conflicts with the block of its height
and, by its time, with the one below. What
disturbs the requests of `light_clients` is drawn at the start (`scenario`): a crash
and accounts of others, a crash and a fork, accounts and a fork, reports and a fork,
overwritten chunks and a fork. Pairs keep the instance small; the proofs of the
safety properties allow all together. One
account of another relayer at a time (`MaxAccounts`) suffices to refuse a block. One
request and a program with its key stand for requests that share a key: all they
can do to each other is to overwrite or close chunks, which `Mix` does with any data
at any time. Three periods make a client lag by more
than one period.

Deadlock is checked in the router, escrow and transfer runs. It is off where the
system may really stop: all packets resolved and clocks at their bound
(`solana_*`, `ift`), a frozen client or a chain at its last block
(`light_client*`, `ethereum_client`), no action left to bounded administrators
(`access_manager`). Symmetry is used among workers and among managers, in runs
without liveness.

Fairness.

- `packet_deep`: relayers keep updating clients and keep submitting
  acknowledgements and timeouts that would succeed (weak), and a frozen client is
  in the end replaced for good, which the repository's README describes as the
  task of its Security Council. Nobody is assumed to relay the packet itself and
  no chain to go on.
- `transfer_liveness`: days pass, operators do not leave a contract paused or a
  limit below a pending amount, and strong fairness of each error
  acknowledgement: refunds share the allowance with other payments, so a relayer
  may find it used up on any number of days and must keep trying.
- `solana_liveness`: clocks advance, a pause ends, a worker goes on with its job
  (weak); a packet is asked for again, and its final transaction is not dropped
  every time (strong). `SentIsResolved` excepts clients frozen or deactivated.
- `ift`: packets are delivered or time out and senders are told, days pass,
  pauses end, someone sends `finalize_transfer` (weak). `TransfersSettle` is about
  transfers from Solana, and excepts a mint authority that was given away and a
  limit below the amount, after which the code cannot refund.
- `light_clients`: the client's clock reaches the time of the newest block (weak),
  but nothing makes it run further, so that no client is excused because it must
  expire; requests are repeated and carried on, and an update the client would keep
  accepting is not lost every time (strong). `UpdatesArrive` excepts frozen and
  expired clients and two things that others may do for ever: keep an account that
  says that the signatures of the newest block are bad (`Refused`), and overwrite the
  chunks of a request whose key they use (`Overwritten`). The code has no remedy for
  either, and the property fails without either exception. A proof API whose
  `skip_pre_verify_threshold` covers the header passes no accounts for signatures, and
  `Refused` does not apply.
- `ethereum_client`: time passes, requests are repeated, updates are not lost every
  time (strong). `UpdatesArrive` asks that every period showed a slot of its own finalised in time
  (`Healthy`). A period without finality leaves the client unable to follow.

## Findings

`light_client_latest`: `assemble_and_update_client.rs:209` sets `latest_height`
after every stored header without comparing heights. Headers stored out of order
move it back, and `client_status` then reports `Expired` by the older state while
a newer one is within the trusting period. `types.rs:36` calls the field "the
latest verified height" and the program's `README.md:206` bases `Expired` on "the
latest consensus state timestamp". The SP1 contract and the attestation program
compare heights first.

Other places where a document and the code differ, met while modelling; the
models follow the code and no run is about them:

- `ift/src/state.rs:124` and `docs/adr/solana/solana-ift-architecture.md:196`: a
  pause blocks "mint and transfer, not refunds". `finalize_transfer.rs:34` refuses
  refunds too, and a test (`finalize_transfer.rs:543`) expects that. Line 214 of
  the same document exempts refunds from the daily limit; the code applies it.
- `light-clients/attestation/IBC_ATTESTOR_DESIGN.md:91`: `latestHeight` is set
  "even if it decreases". The contract compares heights.
- `cw-ics08-wasm-eth/README.md:9` speaks of historical updates;
  `ethereum/light-client/src/update.rs:14` says that they are not allowed. They
  are accepted, and the state stored for the older slot carries the committees of
  the latest one. `LatestCommittees` shows that the latest state is not harmed.
- `ics07-tendermint/README.md:29` promises automatic clean-up of chunks; lines 163
  and 285 of it say that relayers must clean up.
- `programs/solana/README.md:591` warns "Be careful not to revoke the last admin, as
  this would lock you out of admin operations". The code does not let it happen:
  `revoke_role` and `renounce_role` refuse to remove the last administrator
  (`access-manager/src/state.rs:104-134`), which `NoProgramStranded` relies on.
- `ics26-router/src/utils/sequence.rs:20-23` says that applications sharing a
  client "cannot produce colliding sequences"; `send_packet` does not use that
  function and takes the caller's number.

## Proofs

For any constants that satisfy the named assumptions:

| Theorem | Statement |
|---|---|
| `ICS26RouterProofs!TypeCorrectness` | `Spec => []TypeOK` |
| `ICS26RouterProofs!ExactlyOnceReceipt` | `Spec => []ExecutedAtMostOnce` |
| `ICS26RouterProofs!SingleResolution` | `Spec => []ResolvedAtMostOnce` |
| `ICS26RouterProofs!NoLostPacket` | `Spec => []CommittedUntilResolved` |
| `ICS26RouterProofs!TimeoutSafety` | `Spec => []TimeoutExcludesReceipt` |
| `ICS26RouterProofs!AckSafety` | `Spec => []AckTellsExecution` |
| `ICS26RouterProofs!Refinement` | `Spec => LifecycleSpec` |
| `ICS20TransferProofs!EscrowTypeCorrect`, `CounterCovers`, `DailyLimitHolds` | `EscrowSpec => []EscrowTypeOK`, `[]UsageCoversOutflow`, `[]NetOutflowWithinLimit` |
| `ICS20TransferProofs!TypeCorrect`, `FullyBacked`, `AlwaysRefundable` | `Spec => []TypeOK`, `[]EscrowBacksVouchers`, `[]RefundOnlyDelayed` |
| `IFTProofs!TypeCorrect`, `Conservation`, `LimitHolds` | `Spec => []TypeOK`, `[]SupplyConserved`, `[]MintsWithinLimit` |
| `SolanaRelayProofs!TypeCorrect`, `CallbacksMatch` | `Spec => []TypeOK`, `[]CallbacksMatchPackets` |
| `SolanaRelayProofs!Refinement` | `Spec => PacketsFollowLifecycle`, assuming `OneCounterparty` |
| `AccessManagerProofs!NeverStranded` | `Spec => NoProgramStranded` |
| `LightClientProofs!TypeCorrect`, `AlwaysBacked`, `FreezesOnConflict`, `LatestAlwaysStored`, `Settled` | `Spec => []TypeOK`, `[]StatesBacked`, `[]FrozenOnlyOnConflict`, `[]LatestIsStored`, `StatesSettled` |
| `EthereumLightClientProofs!TypeCorrect`, `Backed`, `FreezeJustified`, `CommitteesFollow` | `Spec => []TypeOK`, `[]StatesBacked`, `[]FrozenOnlyOnConflict`, `[]LatestCommittees` |

Assumptions on the constants, named in the module that declares them:

- `ConstantsAssumption`: counterparties are mutual, the error acknowledgement is
  not one an application returns, the zero word is no hash.
- `PeriodAssumption`, `EscrowAssumption`, `AccessAssumption`, `IFTAssumption`:
  types, amounts above zero.
- `TransferAssumption`: counterparties are mutual, an address is not a client
  identifier, a user is not an escrow, and there are finitely many holders and
  sequence numbers, so that balances and packets can be added up. Nothing is
  assumed of the shape of the network, and client identifiers may repeat.
- `SolanaAssumption`, `RelayAssumption`: the two sides have clients of their own,
  a payload has a chunk, an absent account is told from every value an account
  can hold, and a packet's commitment from an account of zeros.
- `LightClientAssumption`: finitely many signers, a threshold within their number.
  `UpdatesAssumption`: the aggregator's quorum is at least the client's threshold;
  no code compares the two.
- `EthereumAssumption`: a chain, epochs, periods and committees that are not empty,
  and markers for a forged committee and an absent value that are told apart from
  committees, slots and states.

`OneCounterparty` is a hypothesis of one theorem and not an assumption of its
module: no two clients of the other chain have the same Solana client as their
counterparty. Receipts and acknowledgements on Solana are stored under the
Solana client and the sequence, so with two such clients the one packet numbered
`s` from each would share a receipt, and the acknowledgement of the first would
be proved for the second. The IBC protocol asks for this when clients are
paired; the router program cannot see it. The other theorems about Solana do not
need it.

The argument for the router. None of its invariants is inductive alone, because
what one chain does depends on what it can prove about an older state of the
other. The inductive invariant `IInv` therefore relates
every finalised block to the present: blocks show only packets that were sent,
receipts and acknowledgements once written stay as they are, so a block shows
them or was finalised before they were written, and timestamps of blocks do not
exceed the present clock. It adds that every receipt was written before the
packet's timeout on the receiver's clock, and that behind every timeout there is
a block at or past the timeout that shows no receipt. The last two contradict
each other for one packet, because the receiver refuses packets from the timeout
on and the block is not later than its clock: that is `TimeoutSafety`. The
refinement reads the phase of a packet off the two stores alone and uses `IInv`
to show that each transaction moves one packet by one step, or none.

The argument for the escrow. The limit bounds the counter, so it suffices that
the counter covers the net outflow of every stretch (`UsageCoversOutflow`). A
deposit clears the counter at zero and no further; that is where `lowest`
falls as far as `outflow`, and the stretch starts afresh.

The argument for ICS20. `EscrowBacksVouchers` is an equation between an escrow's
balance and a sum over all holders and packets. Each action changes the sum's
terms in at most three places: a total supply, the packets in flight, and what an
escrow holds. The proof computes the three changes for each action (`Supplies`,
`Flights`, `Nets`) and shows that they cancel for every escrow and denomination.
Cancelling needs to know which escrow a voucher belongs to, and this is what the
invariant adds: whatever someone holds was minted by a rule of `onRecvPacket`
(`Held`, `Genuine`: the voucher is registered, its token charges no fee, and it
is not the image of a token sent straight back), and whatever a packet carries
was so held when it was sent (`Carried`). `RefundOnlyDelayed` follows: the packet
itself is one of the terms that its escrow covers.

The argument for IFT. `SupplyConserved` is again a sum over packets, of which an
action changes one term. `Linked` adds that Solana's result account says what
became of the packet, so that a refund is given only for a packet not executed,
and that a packet on its way carries the amount of its pending transfer. For the
limit, `Counted` adds that the counter covers the net amount once it is today's,
as in `Escrow`.

Sums are the recursive folds of the community modules. What they need is proved in
`Sums` by induction on finite sets, in the form of a smallest counterexample:
adding an element adds its term, and changing a term changes the sum by as much.

The argument for Solana. A commitment account is created once and never closed,
so the packet sent under a client and sequence is the only one ever committed
there, on Solana or in any block of the other chain. What a worker puts together
from chunks, whoever wrote them, is compared with that commitment. The inductive
invariant `IInv` adds to `CallbacksMatchPackets` that commitments are those of
packets sent (`CommitmentsOK`, `PeerOK`), that jobs hold packets sent and blocks
there were (`JobsOK`), and types.

For the refinement this is not enough: a worker proves its message against the
block its job began with, and meanwhile other workers, other relayers and the
other chain go on. `Life` adds what may be said of such a block now (`JobsPast`):
it is not later than the other chain's clock; an acknowledgement in it is the one
there is; and if it shows no receipt although its time is past the
timeout, there is none now and never will be. It also ties the accounts to the
story of the packet (`Story`): receipt, acknowledgement, callbacks and deadline
of each packet agree on both sides. Each step then moves the phase of one packet
by one step of `PacketLifecycle`, or moves none. `Life` was first checked as an
invariant of both Solana runs.

The argument for the access manager. The property is about steps, and the
inductive invariant is the type invariant. Membership shrinks only in
`remove_member`, which `is_last_admin` guards, so a manager that has an
administrator keeps one (`AdministeredStays`). A program's access manager and an
upgrade authority that a manager holds move only when the receiver accepts, and
an acceptance by a manager is signed by one of its administrators
(`ManagerKeeps`, `AuthorityKeeps`). The property counts
administrators, as the code does. Whether one can still call, when they act
through a program that is no longer whitelisted, is not claimed.

The argument for the light clients. Every step leaves the client alone, stores a
signed block at a free height, or freezes it on a conflict (`StoreStep`). This
needs `SigsSound`: an account that says that signatures are valid is right,
whoever made it. Nothing is assumed of who holds which key, so the theorems cover
any number of requests with shared keys. The
invariants follow, since signatures are only ever added.

`TypeCorrect` of the light clients rests on the same invariant: a request reads
its trusted height from the store, which has one in range because the latest
height always has a state (`LatestIsStored`).

The argument for the Ethereum client. `Good` says of a storage that the latest
state is there and is the newest, and, while fewer than two thirds of a committee
are faulty, that every state in it was finalised and names no forged committee
(`Honest`) and that the latest one names the committees of its period and the
next (`Named`). `StatesBacked` alone is not inductive: whether a header is of the
chain depends on the committee that the trusted state names. `LatestCommittees`
needs both: a header is verified against the state it names and applied to the
latest one, so the periods of three slots have to be related
(`VerifiedPeriods`). A transaction carries several headers, each verified against
the storage the one before it left. `ExecuteGood` therefore goes along the
transaction: the good storages are closed under `updateClient`. The same
induction shows that the headers the proof API collects over several periods are
headers of the chain (`HeadersType`), which the invariant says of every pending
job. What the chain shows finalised only grows, so all this stays true while
requests are pending.

Only model-checked: the liveness properties (`ResolvableIsResolved`,
`RefundsArrive`, `SentIsResolved`, `TransfersSettle`, `UpdatesArrive`), which are
out of the prover's reach.

## Not modelled

The map covers about a tenth of the repository's Rust lines. Most of the rest is
tests kept in the source files, generated SDK code, conversions between wire
formats and command-line tools.

- The attested packet path: packet attestations of the aggregator and the
  membership checks of the attestation clients. The clients' updates are modelled.
- Other directions of the proof API: they keep nothing between requests, and the
  relayers of `ICS26Router` already submit any packet with any proof. Batches:
  `SolanaRelay` handles a packet at a time, while the code proves all packets of a
  request or none.
- Membership proofs, Merkle tries, tree hashing, BLS, SP1 proofs and the ibc-rs
  verifier: taken by what they prove.
- The transient cache of the SP1 client: it ends with its transaction.
- Migration of a client to another counterparty on the EVM, and `addClient` while
  packets are in flight. On Solana the proof allows any counterparty, the runs one.
- Several payloads per packet: the contracts refuse them.
- `setCustomERC20`: the registered token mints and burns by rules of its own.
- Callbacks to sender contracts: one that fails reverts the transaction, which is
  the same as the relayer not having submitted it.
- IFT: the two-step change of administrator, creation of a token, the mint of the
  owner on the EVM chain. GMP: calls other than those of IFT.
- Roles and upgrades on the EVM: only the callers act that the code lets act.
- Encodings, identifiers' syntax, fees, address lookup tables.
