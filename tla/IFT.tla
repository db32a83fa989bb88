---------------------------------- MODULE IFT ----------------------------------
(***************************************************************************)
(* A token issued through IFT on Solana (program ift) and on an EVM chain  *)
(* (IFTBaseUpgradeable), and moved between them by general message passing *)
(* (ics27-gmp, ICS27GMP): the sender burns, the receiver mints, and what   *)
(* was burnt for a packet that failed is minted back.  Packets obey        *)
(* PacketLifecycle, which ICS26Router and SolanaRelay implement.           *)
(*                                                                         *)
(* On Solana the acknowledgement or timeout only leaves a result account   *)
(* behind; a later transaction, finalize_transfer, settles the transfer.   *)
(* A mint that fails aborts the delivery on Solana, and is answered with   *)
(* an error acknowledgement on the EVM chain.                              *)
(***************************************************************************)
EXTENDS Integers, FiniteSetsExt

CONSTANTS
    MaxSequence,     \* bound: packets sent from each chain
    Amounts,         \* amounts transferred or minted by the administrator
    InitialSupply,   \* tokens on each chain at the start
    Limits,          \* the daily mint limits the administrator may set
    MaxAdmin         \* bound: how many times administrators act

\* Both contracts refuse to transfer nothing.
ASSUME IFTAssumption ==
    /\ MaxSequence \in Nat /\ Amounts \subseteq Nat \ {0}
    /\ InitialSupply \in Nat /\ Limits \subseteq Nat /\ MaxAdmin \in Nat

Chains == {"solana", "evm"}
SequenceNumbers == 1..MaxSequence

VARIABLES
    phase,           \* [chain][sequence]: life of the packets sent from it
    amount,          \* [chain][sequence]: what the mint call asks for
    supply,          \* [chain]: tokens in circulation
    pending,         \* [chain][sequence]: amount of the PendingTransfer, 0 if none
    result,          \* [sequence]: status of the GMPCallResultAccount on Solana
    mint_state,      \* IFTAppMintState, or Revoked
    paused,          \* IFTAppState.paused
    gmp_paused,      \* [chain]: whether GMP is paused
    bridge,          \* [chain]: whether the bridge is registered
    issued,          \* history: what the administrator minted
    net,             \* history: minted less sent away for good, today, under this limit
    administered

tokens == <<supply, pending, amount>>
switches == <<paused, gmp_paused, bridge, administered>>
vars == <<phase, tokens, result, mint_state, switches, issued, net>>

Lifecycle == INSTANCE PacketLifecycle WITH Endpoints <- Chains

Revoked == [limit |-> 0, usage |-> 0, today |-> FALSE, held |-> FALSE]
Fresh == [Revoked EXCEPT !.held = TRUE]

Init ==
    /\ Lifecycle!Init
    /\ amount = [c \in Chains |-> [s \in SequenceNumbers |-> 0]]
    /\ supply = [c \in Chains |-> InitialSupply]
    /\ pending = amount
    /\ result = [s \in SequenceNumbers |-> "none"]
    /\ mint_state = Fresh
    /\ paused = FALSE /\ gmp_paused = [c \in Chains |-> FALSE] /\ bridge = [c \in Chains |-> TRUE]
    /\ issued = 0 /\ net = 0 /\ administered = 0

-----------------------------------------------------------------------------
(***************************************************************************)
(* helpers.rs.  The day of the last use only matters as the question       *)
(* whether it is today; a limit of zero means no limit.                    *)
(***************************************************************************)
\* Mutant: yesterday's usage is carried over.
keep_usage(m) == [m EXCEPT !.today = TRUE]
maybe_reset_day(m) == IF m.today THEN m ELSE [m EXCEPT !.today = TRUE, !.usage = 0]

check_and_update_mint_rate_limit(m, a) ==
    IF m.limit = 0 THEN m ELSE [maybe_reset_day(m) EXCEPT !.usage = @ + a]

WithinLimit(m) == m.limit = 0 \/ m.usage <= m.limit

\* Mutant: the refund of a failed transfer is minted without counting it.
mint_uncounted(a) ==
    /\ mint_state.held
    /\ net' = net + a
    /\ UNCHANGED mint_state
mint_to_account(a) ==
    LET m == check_and_update_mint_rate_limit(mint_state, a)
    IN  /\ mint_state.held /\ WithinLimit(m)
        /\ mint_state' = m
        /\ net' = net + a

\* Mutant: the subtraction does not saturate.
reduce_below_zero(a) ==
    LET m == maybe_reset_day(mint_state)
    IN  /\ mint_state.held
        /\ mint_state' = IF mint_state.limit = 0 THEN mint_state ELSE [m EXCEPT !.usage = @ - a]
        /\ net' = net - a
reduce_mint_rate_limit_usage(a) ==
    LET m == maybe_reset_day(mint_state)
    IN  /\ mint_state.held
        /\ mint_state' = IF mint_state.limit = 0 THEN mint_state
                         ELSE [m EXCEPT !.usage = Max({0, @ - a})]
        /\ net' = net - a

-----------------------------------------------------------------------------
(***************************************************************************)
(* Solana: ift_transfer and GMP's send_call_cpi, on_recv_packet with       *)
(* ift_mint, on_acknowledgement_packet, on_timeout_packet and              *)
(* finalize_transfer.                                                      *)
(***************************************************************************)
\* The call the packet carries: mint so much for the receiver, in the encoding
\* the other chain expects.
construct_mint_call(c, s, a) == amount' = [amount EXCEPT ![c][s] = a]

Burn(c, s, a) ==
    /\ supply[c] >= a
    /\ supply' = [supply EXCEPT ![c] = @ - a]
    /\ pending' = [pending EXCEPT ![c][s] = a]

\* GMP hands the call to the router, which commits to a packet.
send_call(s) == ~gmp_paused["solana"] /\ Lifecycle!Advance("solana", s, "unsent", "sent")

ift_transfer(s, a) ==
    /\ ~paused /\ mint_state.held /\ bridge["solana"]
    /\ pending["solana"][s] = 0
    /\ Burn("solana", s, a) /\ construct_mint_call("solana", s, a)
    /\ send_call(s)
    /\ UNCHANGED <<result, mint_state, switches, issued, net>>

ift_mint(a) ==
    /\ ~paused /\ bridge["solana"]
    /\ mint_to_account(a)
    /\ supply' = [supply EXCEPT !["solana"] = @ + a]
    /\ UNCHANGED <<pending, amount, paused, bridge, issued>>

\* GMP executes the call the packet carries; if it fails, so does the delivery.
on_recv_packet(s) ==
    /\ ~gmp_paused["solana"]
    /\ Lifecycle!Advance("evm", s, "sent", "executed")
    /\ ift_mint(amount["evm"][s])
    /\ UNCHANGED <<result, gmp_paused, administered>>

\* The account of the result is created, once.
init_acknowledged(s, status) == result[s] = "none" /\ result' = [result EXCEPT ![s] = status]
init_timed_out(s) == result[s] = "none" /\ result' = [result EXCEPT ![s] = "timeout"]

on_acknowledgement_packet(s) ==
    /\ ~gmp_paused["solana"]
    /\ \/ Lifecycle!Advance("solana", s, "executed", "confirmed") /\ init_acknowledged(s, "success")
       \/ Lifecycle!Advance("solana", s, "rejected", "refused") /\ init_acknowledged(s, "error")
    /\ UNCHANGED <<tokens, mint_state, switches, issued, net>>

on_timeout_packet(s) ==
    /\ ~gmp_paused["solana"]
    /\ Lifecycle!Advance("solana", s, "sent", "timedOut") /\ init_timed_out(s)
    /\ UNCHANGED <<tokens, mint_state, switches, issued, net>>

\* Mutant: the account of the transfer is not closed.
keep_pending(s) == UNCHANGED pending
close_pending(s) == pending' = [pending EXCEPT !["solana"][s] = 0]

Settleable(s) == pending["solana"][s] # 0 /\ result[s] # "none"

finalize_transfer(s) ==
    LET a == pending["solana"][s]
    IN  /\ ~paused /\ Settleable(s)
        /\ \/ /\ result[s] \in {"timeout", "error"}
              /\ mint_to_account(a)
              /\ supply' = [supply EXCEPT !["solana"] = @ + a]
           \/ /\ result[s] = "success"
              /\ reduce_mint_rate_limit_usage(a)
              /\ UNCHANGED supply
        /\ close_pending(s)
        /\ UNCHANGED <<phase, amount, result, switches, issued>>

-----------------------------------------------------------------------------
(***************************************************************************)
(* EVM: IFTBaseUpgradeable behind ICS27GMP.  A packet from the EVM chain   *)
(* never comes back with an error, because Solana answers none.            *)
(***************************************************************************)
iftTransfer(s, a) ==
    /\ bridge["evm"] /\ ~gmp_paused["evm"]
    /\ Lifecycle!Send("evm", s)
    /\ Burn("evm", s, a) /\ construct_mint_call("evm", s, a)
    /\ UNCHANGED <<result, mint_state, switches, issued, net>>

MintPossible == bridge["evm"] /\ ~gmp_paused["evm"]

onRecvPacket(s) ==
    /\ \/ /\ MintPossible
          /\ Lifecycle!Advance("solana", s, "sent", "executed")
          /\ supply' = [supply EXCEPT !["evm"] = @ + amount["solana"][s]]
       \/ /\ ~MintPossible
          /\ Lifecycle!Advance("solana", s, "sent", "rejected")
          /\ UNCHANGED supply
    /\ UNCHANGED <<pending, amount, result, mint_state, switches, issued, net>>

onAckPacket(s) ==
    /\ ~gmp_paused["evm"] /\ pending["evm"][s] > 0
    /\ Lifecycle!Advance("evm", s, "executed", "confirmed")
    /\ pending' = [pending EXCEPT !["evm"][s] = 0]
    /\ UNCHANGED <<amount, supply, result, mint_state, switches, issued, net>>

onTimeoutPacket(s) ==
    /\ ~gmp_paused["evm"] /\ pending["evm"][s] > 0
    /\ Lifecycle!Advance("evm", s, "sent", "timedOut")
    /\ supply' = [supply EXCEPT !["evm"] = @ + pending["evm"][s]]
    /\ pending' = [pending EXCEPT !["evm"][s] = 0]
    /\ UNCHANGED <<amount, result, mint_state, switches, issued, net>>

-----------------------------------------------------------------------------
(***************************************************************************)
(* The administrators.                                                     *)
(***************************************************************************)
Administer == administered < MaxAdmin /\ administered' = administered + 1
Elsewhere == UNCHANGED <<phase, tokens, result, issued>>

set_paused == Administer /\ paused' = TRUE /\ UNCHANGED <<gmp_paused, bridge, mint_state, net>> /\ Elsewhere
set_unpaused ==
    paused /\ paused' = FALSE /\ UNCHANGED <<gmp_paused, bridge, administered, mint_state, net>> /\ Elsewhere

pause_app(c) ==
    /\ Administer /\ ~gmp_paused[c] /\ gmp_paused' = [gmp_paused EXCEPT ![c] = TRUE]
    /\ UNCHANGED <<paused, bridge, mint_state, net>> /\ Elsewhere
unpause_app(c) ==
    /\ gmp_paused[c] /\ gmp_paused' = [gmp_paused EXCEPT ![c] = FALSE]
    /\ UNCHANGED <<paused, bridge, administered, mint_state, net>> /\ Elsewhere

\* On Solana both need the account of the mint; a bridge is registered once.
remove_ift_bridge(c) ==
    /\ Administer /\ bridge[c] /\ (c = "solana" => mint_state.held)
    /\ bridge' = [bridge EXCEPT ![c] = FALSE]
    /\ UNCHANGED <<paused, gmp_paused, mint_state, net>> /\ Elsewhere
register_ift_bridge(c) ==
    /\ ~bridge[c] /\ (c = "solana" => mint_state.held)
    /\ bridge' = [bridge EXCEPT ![c] = TRUE]
    /\ UNCHANGED <<paused, gmp_paused, administered, mint_state, net>> /\ Elsewhere

set_mint_rate_limit(limit) ==
    /\ Administer /\ mint_state.held /\ mint_state.limit # limit
    /\ mint_state' = [mint_state EXCEPT !.limit = limit]
    /\ net' = 0
    /\ UNCHANGED <<paused, gmp_paused, bridge>> /\ Elsewhere

\* The account of the mint is closed, and can be created again when the
\* authority over the mint is handed back.
revoke_mint_authority ==
    /\ Administer /\ mint_state.held
    /\ mint_state' = Revoked /\ net' = 0
    /\ UNCHANGED <<paused, gmp_paused, bridge>> /\ Elsewhere
initialize_existing_token ==
    /\ ~mint_state.held
    /\ mint_state' = Fresh /\ net' = 0
    /\ UNCHANGED switches /\ Elsewhere

admin_mint(a) ==
    /\ Administer /\ ~paused
    /\ mint_to_account(a)
    /\ supply' = [supply EXCEPT !["solana"] = @ + a]
    /\ issued' = issued + a
    /\ UNCHANGED <<phase, pending, amount, result, paused, gmp_paused, bridge>>

NextDay ==
    /\ mint_state.today
    /\ mint_state' = [mint_state EXCEPT !.today = FALSE] /\ net' = 0
    /\ UNCHANGED switches /\ Elsewhere

-----------------------------------------------------------------------------
Transfers ==
    \E s \in SequenceNumbers :
        \/ \E a \in Amounts : ift_transfer(s, a) \/ iftTransfer(s, a)
        \/ on_recv_packet(s) \/ on_acknowledgement_packet(s) \/ on_timeout_packet(s)
        \/ finalize_transfer(s)
        \/ onRecvPacket(s) \/ onAckPacket(s) \/ onTimeoutPacket(s)

Administrators ==
    \/ set_paused \/ set_unpaused
    \/ \E c \in Chains :
           pause_app(c) \/ unpause_app(c) \/ remove_ift_bridge(c) \/ register_ift_bridge(c)
    \/ \E limit \in Limits : set_mint_rate_limit(limit)
    \/ revoke_mint_authority \/ initialize_existing_token
    \/ \E a \in Amounts : admin_mint(a)

Next == Transfers \/ Administrators \/ NextDay

Spec == Init /\ [][Next]_vars

\* A packet is delivered or times out and its sender is told, pauses end, days
\* pass, and someone sends finalize_transfer, which anyone may do.
FairSpec ==
    /\ Spec
    /\ WF_vars(NextDay) /\ WF_vars(set_unpaused) /\ WF_vars(unpause_app("solana"))
    /\ \A s \in SequenceNumbers :
           /\ WF_vars(onRecvPacket(s) \/ on_timeout_packet(s))
           /\ WF_vars(on_acknowledgement_packet(s))
           /\ WF_vars(finalize_transfer(s))

-----------------------------------------------------------------------------
\* Type correctness; amounts are unsigned.
TypeOK ==
    /\ phase \in [Chains -> [SequenceNumbers -> Lifecycle!Phases]]
    /\ supply \in [Chains -> Nat]
    /\ amount \in [Chains -> [SequenceNumbers -> Nat]]
    /\ pending \in [Chains -> [SequenceNumbers -> Nat]]
    /\ result \in [SequenceNumbers -> {"none", "timeout", "error", "success"}]
    /\ mint_state \in [limit : Nat, usage : Nat, today : BOOLEAN, held : BOOLEAN]
    /\ paused \in BOOLEAN /\ gmp_paused \in [Chains -> BOOLEAN] /\ bridge \in [Chains -> BOOLEAN]
    /\ issued \in Nat /\ net \in Int /\ administered \in Nat

\* Burnt for a packet that has not been executed, and not minted back.
InFlight(c, s) ==
    IF phase[c][s] \in {"executed", "confirmed"} THEN 0 ELSE pending[c][s]
Flying == SumFunction([x \in Chains \X SequenceNumbers |-> InFlight(x[1], x[2])])

\* No token is lost or minted twice: what circulates on the two chains, with
\* what is in flight between them, is what there was at the start and what the
\* administrator minted.  On Solana two separate transactions, in any order
\* with pauses, revocations and other transfers, take part in a refund
\* (finalize_transfer.rs:117-206, ift_mint.rs:92-126,
\* IFTBaseUpgradeable.sol:178-276).
SupplyConserved == supply["solana"] + supply["evm"] + Flying = 2 * InitialSupply + issued

\* Within a day and under one limit, what is minted on Solana in any way
\* (received, refunded, minted by the administrator), less what left for good,
\* stays within the limit (helpers.rs:14-103).
MintsWithinLimit == mint_state.limit # 0 => net <= mint_state.limit

Unrefundable(s) ==
    \/ ~mint_state.held
    \/ mint_state.limit # 0 /\ pending["solana"][s] > mint_state.limit

\* Every transfer from Solana is settled in the end: confirmed, or refunded even
\* if the limit of the day was used up, unless the authority over the mint was
\* given away or a limit smaller than the transfer was set
\* (finalize_transfer.rs:143-185).
TransfersSettle ==
    \A s \in SequenceNumbers :
        pending["solana"][s] # 0 ~> pending["solana"][s] = 0 \/ Unrefundable(s)

=============================================================================
