---------------------------- MODULE ICS20Transfer ----------------------------
(***************************************************************************)
(* Token transfers between chains: ICS20Transfer.sol with its escrows      *)
(* (Escrow.sol) and vouchers (IBCERC20.sol), on top of the packet life     *)
(* cycle that the routers implement.  An action is the router transaction  *)
(* with the callback it makes, so each one takes one step of the life      *)
(* cycle.                                                                  *)
(*                                                                         *)
(* A denomination is the sequence of hops a token has made, the last one   *)
(* first, and then its address on its home chain: <<T>> is the ERC20 at    *)
(* address T, <<client, T>> the voucher of the counterparty's T.           *)
(***************************************************************************)
EXTENDS RateLimit, Sequences, FiniteSetsExt

CONSTANTS
    Chains,           \* the chains that run the contracts
    ClientIds,        \* client identifiers; two chains may use the same one
    Endpoints,        \* the registered clients, as <<chain, clientId>>
    Counterparty,     \* the endpoint at the other end of an endpoint
    Tokens,           \* addresses of ERC20 contracts; two chains may use the same one
    FeeTokens,        \* the tokens that deliver less than was sent
    Users,            \* accounts
    DelegateSenders,  \* the accounts that may send on behalf of others
    NoAddress,        \* a receiver that does not parse as an address
    Supply,           \* [chain][token][user]: what a user holds at first
    Limited,          \* bound: [endpoint]: the denoms whose limit is set at its escrow
    SequenceNumbers,  \* bound: the sequence numbers of an endpoint
    MaxHops           \* bound: the most hops a token makes

VARIABLES
    phase,      \* [endpoint][sequence]: how far the packet has come
    packets,    \* [endpoint][sequence]: the packet data sent
    balance,    \* [chain][denom][holder]: balanceOf of the ERC20 contracts
    contracts,  \* [chain]: the denoms that _ibcERC20Contracts maps to a voucher
    escrows,    \* the endpoints whose escrow was created
    paused,     \* [chain]
    rateLimit,  \* [endpoint][denom]: _rateLimits of the escrow
    usage,      \* [endpoint][denom]: _dailyUsage of the escrow under today's key
    gifts       \* history, [endpoint][denom]: transfers addressed to the escrow itself

tokens == <<balance, contracts, escrows, usage, gifts>>
settings == <<paused, rateLimit>>
vars == <<phase, packets, tokens, settings>>

Lifecycle == INSTANCE PacketLifecycle

Host(e) == e[1]
Id(e) == e[2]
Holders == Users \cup Endpoints  \* an endpoint stands for the address of its escrow
HoldersOn(c) == Users \cup {e \in Endpoints : Host(e) = c}
Paths == UNION {[1..n -> ClientIds] : n \in 0..MaxHops}
Denoms == UNION {{hops \o <<t>> : t \in Tokens} : hops \in Paths}
NoPacket == [denom |-> <<>>, amount |-> 0, sender |-> NoAddress, receiver |-> NoAddress]

ASSUME TransferAssumption ==
    /\ Endpoints \subseteq Chains \X ClientIds
    /\ Counterparty \in [Endpoints -> Endpoints]
    /\ \A e \in Endpoints : Counterparty[Counterparty[e]] = e
    /\ Tokens \cap ClientIds = {} /\ FeeTokens \subseteq Tokens
    /\ DelegateSenders \subseteq Users /\ NoAddress \notin Users \cup Endpoints
    /\ Users \cap Endpoints = {} /\ IsFiniteSet(Users \cup Endpoints) /\ IsFiniteSet(SequenceNumbers)
    /\ Supply \in [Chains -> [Tokens -> [Users -> Nat]]]
    /\ Limited \in [Endpoints -> SUBSET Denoms]
    /\ Amounts \subseteq Nat \ {0} /\ Limits \subseteq Nat /\ MaxHops \in Nat

hasPrefix(denom, clientId) == Head(denom) = clientId
voucher(e, denom) == <<Id(e)>> \o denom

\* Under which denomination the counterparty of e knows the token that e calls
\* `denom`: the first hop is undone, or another one is added.
\* Mutant: the prefix looked for is the one the receiver would have added.
receivedDenomOwnPrefix(e, denom) ==
    IF hasPrefix(denom, Id(Counterparty[e])) THEN Tail(denom) ELSE voucher(Counterparty[e], denom)
receivedDenom(e, denom) ==
    IF hasPrefix(denom, Id(e)) THEN Tail(denom) ELSE voucher(Counterparty[e], denom)

\* The token's address is in the denomination, or in the voucher mapping.
found(c, denom) == Len(denom) = 1 \/ denom \in contracts[c]

Init ==
    /\ phase = [e \in Endpoints |-> [s \in SequenceNumbers |-> "unsent"]]
    /\ packets = [e \in Endpoints |-> [s \in SequenceNumbers |-> NoPacket]]
    /\ balance = [c \in Chains |-> [d \in Denoms |-> [h \in Holders |->
                    IF Len(d) = 1 /\ h \in Users THEN Supply[c][d[1]][h] ELSE 0]]]
    /\ contracts = [c \in Chains |-> {}]
    /\ escrows = {}
    /\ paused = [c \in Chains |-> FALSE]
    /\ rateLimit = [e \in Endpoints |-> [d \in Denoms |-> 0]]
    /\ usage = [e \in Endpoints |-> [d \in Denoms |-> 0]]
    /\ gifts = [e \in Endpoints |-> [d \in Denoms |-> 0]]

\* What a holder receives when `amount` is sent.
delivered(denom, amount) == IF denom[1] \in FeeTokens THEN amount - 1 ELSE amount

\* An ERC20 transfer, with what is minted before it or burned after it.
transfer(c, denom, from, lost, to, gained) ==
    LET paid == [balance EXCEPT ![c][denom][from] = @ - lost]
    IN  balance' = [paid EXCEPT ![c][denom][to] = @ + gained]

-----------------------------------------------------------------------------
\* Mutant: the escrow's balance is not compared with what was asked for.
_transferFromUnchecked(c, caller, denom, amount) == balance[c][denom][caller] >= amount
_transferFrom(c, caller, denom, amount) ==
    /\ balance[c][denom][caller] >= amount
    /\ delivered(denom, amount) = amount

\* Mutant: a voucher is escrowed, also where it goes back to its origin.
burnedNever(e, denom, amount) == 0
burned(e, denom, amount) == IF hasPrefix(denom, Id(e)) THEN amount ELSE 0

_getOrCreateEscrow(e) == escrows' = escrows \cup {e}
_getOrCreateIBCERC20(c, denom) == contracts' = [contracts EXCEPT ![c] = @ \cup {denom}]

\* sendTransfer and sendTransferWithPermit2, where the caller is the sender,
\* and sendTransferWithSender, where a delegate names whom to refund.
sendTransfer(e, s, caller, sender, denom, amount, receiver) ==
    LET c == Host(e)
    IN  /\ ~paused[c]
        /\ sender = caller \/ caller \in DelegateSenders
        /\ _transferFrom(c, caller, denom, amount)
        /\ receivedDenom(e, denom) \in Denoms
        /\ transfer(c, denom, caller, amount, e, delivered(denom, amount) - burned(e, denom, amount))
        /\ _getOrCreateEscrow(e)
        /\ usage' = [usage EXCEPT ![e][denom] = _reduceDailyUsage(rateLimit[e][denom], @, amount)]
        /\ packets' = [packets EXCEPT ![e][s] = [denom |-> denom, amount |-> amount,
                                                 sender |-> sender, receiver |-> receiver]]
        /\ Lifecycle!Send(e, s)
        /\ UNCHANGED <<contracts, gifts, settings>>

-----------------------------------------------------------------------------
(***************************************************************************)
(* Payment out of the escrow of e, minted first or held there: Escrow.send *)
(* and, for vouchers of e, IBCERC20.mint.                                  *)
(***************************************************************************)
canSend(e, denom, minted, amount) ==
    /\ withinRateLimit(rateLimit[e][denom], usage[e][denom], amount)
    /\ balance[Host(e)][denom][e] + minted >= amount

send(e, denom, minted, to, amount) ==
    /\ transfer(Host(e), denom, e, amount - minted, to, delivered(denom, amount))
    /\ usage' = [usage EXCEPT
                    ![e][denom] = _assertAndUpdateRateLimit(rateLimit[e][denom], @, amount)]
    /\ gifts' = IF to \in Endpoints THEN [gifts EXCEPT ![to][denom] = @ + amount] ELSE gifts

\* The callback succeeds; otherwise it reverts with a reason, and the router
\* answers with the universal error acknowledgement.
onRecvPacketSucceeds(e, p) ==
    LET f == Counterparty[e]
        denom == receivedDenom(e, p.denom)
        returningToOrigin == hasPrefix(p.denom, Id(e))
    IN  /\ ~paused[Host(f)]
        /\ p.receiver # NoAddress
        /\ returningToOrigin => found(Host(f), denom)
        /\ canSend(f, denom, IF returningToOrigin THEN 0 ELSE p.amount, p.amount)

\* Counterparty[e] receives packet s of e.
onRecvPacket(e, s) ==
    LET f == Counterparty[e]
        p == packets[e][s]
        denom == receivedDenom(e, p.denom)
        returningToOrigin == hasPrefix(p.denom, Id(e))
    IN  /\ onRecvPacketSucceeds(e, p)
        /\ send(f, denom, IF returningToOrigin THEN 0 ELSE p.amount, p.receiver, p.amount)
        /\ IF returningToOrigin THEN UNCHANGED contracts ELSE _getOrCreateIBCERC20(Host(f), denom)
        /\ _getOrCreateEscrow(f)
        /\ Lifecycle!Advance(e, s, "sent", "executed")
        /\ UNCHANGED <<packets, settings>>

onRecvPacketReverts(e, s) ==
    /\ phase[e][s] = "sent"
    /\ ~onRecvPacketSucceeds(e, packets[e][s])
    /\ Lifecycle!Advance(e, s, "sent", "rejected")
    /\ UNCHANGED <<packets, tokens, settings>>

_refundTokens(e, p) ==
    LET minted == IF hasPrefix(p.denom, Id(e)) THEN p.amount ELSE 0
    IN  /\ e \in escrows
        /\ found(Host(e), p.denom)
        /\ canSend(e, p.denom, minted, p.amount)
        /\ send(e, p.denom, minted, p.sender, p.amount)
        /\ UNCHANGED <<contracts, escrows>>

onAcknowledgementPacketSuccess(e, s) ==
    /\ ~paused[Host(e)]
    /\ Lifecycle!Advance(e, s, "executed", "confirmed")
    /\ UNCHANGED <<packets, tokens, settings>>

onAcknowledgementPacketError(e, s) ==
    /\ ~paused[Host(e)]
    /\ Lifecycle!Advance(e, s, "rejected", "refused")
    /\ _refundTokens(e, packets[e][s])
    /\ UNCHANGED <<packets, settings>>

onTimeoutPacket(e, s) ==
    /\ ~paused[Host(e)]
    /\ Lifecycle!Advance(e, s, "sent", "timedOut")
    /\ _refundTokens(e, packets[e][s])
    /\ UNCHANGED <<packets, settings>>

-----------------------------------------------------------------------------
pause(c) ==
    /\ ~paused[c]
    /\ paused' = [paused EXCEPT ![c] = TRUE]
    /\ UNCHANGED <<phase, packets, tokens, rateLimit>>

unpause(c) ==
    /\ paused[c]
    /\ paused' = [paused EXCEPT ![c] = FALSE]
    /\ UNCHANGED <<phase, packets, tokens, rateLimit>>

\* The escrow must exist for its limit to be set.
setRateLimit(e, denom, limit) ==
    /\ e \in escrows
    /\ rateLimit' = [rateLimit EXCEPT ![e][denom] = limit]
    /\ UNCHANGED <<phase, packets, tokens, paused>>

\* Mutant: the key of the usage does not change with the day.
NextDayKeepsKey == UNCHANGED vars
\* Midnight: today's usage is kept under a key not used before.
NextDay ==
    /\ usage' = [e \in Endpoints |-> [d \in Denoms |-> 0]]
    /\ UNCHANGED <<phase, packets, balance, contracts, escrows, gifts, settings>>

SendTransfer(e, s) ==
    \E caller \in Users, denom \in Denoms, amount \in Amounts :
    \E sender \in HoldersOn(Host(e)), receiver \in HoldersOn(Host(Counterparty[e])) \cup {NoAddress} :
        sendTransfer(e, s, caller, sender, denom, amount, receiver)

Next ==
    \/ \E e \in Endpoints, s \in SequenceNumbers :
          \/ SendTransfer(e, s)
          \/ onRecvPacket(e, s)
          \/ onRecvPacketReverts(e, s)
          \/ onAcknowledgementPacketSuccess(e, s)
          \/ onAcknowledgementPacketError(e, s)
          \/ onTimeoutPacket(e, s)
    \/ \E c \in Chains : pause(c) \/ unpause(c)
    \/ \E e \in Endpoints, limit \in Limits : \E d \in Limited[e] : setRateLimit(e, d, limit)
    \/ NextDay

Spec == Init /\ [][Next]_vars

\* Days pass, and relayers submit an error acknowledgement again and again: one
\* that would succeed on infinitely many days succeeds on one of them.
Fairness ==
    /\ WF_vars(NextDay)
    /\ \A e \in Endpoints, s \in SequenceNumbers : SF_vars(onAcknowledgementPacketError(e, s))

\* The operators do not leave a contract paused, or a limit below an amount
\* that is to be refunded.
OperatorsRelent ==
    /\ \A c \in Chains : <>[](~paused[c])
    /\ \A e \in Endpoints, d \in Denoms :
          <>[](\A a \in Amounts : withinRateLimit(rateLimit[e][d], 0, a))

FairSpec == Spec /\ Fairness /\ OperatorsRelent

-----------------------------------------------------------------------------
PacketData == [denom : Denoms, amount : Amounts, sender : Holders, receiver : Holders \cup {NoAddress}]

\* The state has the types of the contracts' storage: no balance and no usage
\* goes below zero.
TypeOK ==
    /\ phase \in [Endpoints -> [SequenceNumbers -> Lifecycle!Phases]]
    /\ packets \in [Endpoints -> [SequenceNumbers -> PacketData \cup {NoPacket}]]
    /\ balance \in [Chains -> [Denoms -> [Holders -> Nat]]]
    /\ contracts \in [Chains -> SUBSET Denoms]
    /\ escrows \subseteq Endpoints
    /\ paused \in [Chains -> BOOLEAN]
    /\ rateLimit \in [Endpoints -> [Denoms -> Limits \cup {0}]]
    /\ usage \in [Endpoints -> [Denoms -> Nat]]
    /\ gifts \in [Endpoints -> [Denoms -> Nat]]

totalSupply(c, denom) == IF denom \in Denoms THEN SumFunction(balance[c][denom]) ELSE 0

\* The receiver has not been paid, and the sender not been refunded.
Pending(e, s) == phase[e][s] \in {"sent", "rejected"}
owing(e, denom, s) ==
    IF Pending(e, s) /\ packets[e][s].denom = denom THEN packets[e][s].amount ELSE 0
inFlight(e, denom) == SumFunction([s \in SequenceNumbers |-> owing(e, denom, s)])

owed(e, denom) ==
    LET f == Counterparty[e]
    IN  IF hasPrefix(denom, Id(e)) THEN 0
        ELSE totalSupply(Host(f), voucher(f, denom)) + inFlight(e, denom)
               + inFlight(f, voucher(f, denom))

\* Every escrow holds exactly what it owes: the vouchers of its tokens that
\* exist on the other chain, the transfers on their way there, and the burned
\* vouchers on their way back, besides what was addressed to the escrow itself.
\* Of the vouchers it mints and burns it holds nothing else.
EscrowBacksVouchers ==
    \A e \in Endpoints, d \in Denoms :
        balance[Host(e)][d][e] = owed(e, d) + gifts[e][d]

\* A transfer that was neither paid nor refunded can be refunded: pausing and
\* the rate limit can delay _refundTokens, but it never runs into a missing
\* escrow, a missing voucher contract or an escrow that lacks the funds.
RefundOnlyDelayed ==
    \A e \in Endpoints, s \in SequenceNumbers :
        Pending(e, s) =>
            LET p == packets[e][s]
            IN  /\ e \in escrows
                /\ found(Host(e), p.denom)
                /\ hasPrefix(p.denom, Id(e)) \/ balance[Host(e)][p.denom][e] >= p.amount

\* A rejected transfer is refunded, although refunds leave through the same
\* rate limit as other payments and share its daily allowance.
RefundsArrive ==
    \A e \in Endpoints, s \in SequenceNumbers : phase[e][s] = "rejected" ~> phase[e][s] = "refused"

=============================================================================
