------------------------------- MODULE IFTProofs -------------------------------
(***************************************************************************)
(* The token of IFT is conserved and its daily mint limit holds, for any   *)
(* amounts, limits and number of packets.                                  *)
(***************************************************************************)
EXTENDS IFT, Sums, FiniteSetTheorems

Keys == Chains \X SequenceNumbers
MintStates == [limit : Nat, usage : Nat, today : BOOLEAN, held : BOOLEAN]

\* What the result account says of a packet from Solana.
Told(p) ==
    CASE p = "confirmed" -> "success" [] p = "refused" -> "error" [] p = "timedOut" -> "timeout"
      [] OTHER -> "none"

\* The result account follows the packet; a packet not sent has no pending
\* transfer, and one on its way carries the amount of its pending transfer.
Linked ==
    /\ \A s \in SequenceNumbers : result[s] = Told(phase["solana"][s])
    /\ \A c \in Chains, s \in SequenceNumbers :
          /\ phase[c][s] = "unsent" => pending[c][s] = 0
          /\ phase[c][s] = "sent" => pending[c][s] = amount[c][s]

\* The counter covers the net amount, once it is today's.
Counted ==
    mint_state.limit # 0 =>
        /\ net <= mint_state.limit
        /\ mint_state.today => net <= mint_state.usage
        /\ ~mint_state.today => net <= 0

IInv == TypeOK /\ Linked /\ SupplyConserved /\ Counted

-----------------------------------------------------------------------------
(* The counter of the mint limit. *)

\* The fields of a mint state.
LEMMA MintFields ==
    ASSUME NEW m \in MintStates
    PROVE  m.limit \in Nat /\ m.usage \in Nat /\ m.today \in BOOLEAN /\ m.held \in BOOLEAN
BY DEF MintStates

\* max(0, x) is a natural that is at least x.
LEMMA MaxZero ==
    ASSUME NEW x \in Int
    PROVE  Max({0, x}) \in Nat /\ x <= Max({0, x})
<1>1. \E m \in {0, x} : \A y \in {0, x} : m >= y
  <2>1. CASE x >= 0
    BY <2>1
  <2>2. CASE ~(x >= 0)
    BY <2>2
  <2>3. QED
    BY <2>1, <2>2
<1>2. QED
  BY <1>1 DEF Max

\* maybe_reset_day makes the counter that of today.
LEMMA ResetDay ==
    ASSUME NEW m \in MintStates
    PROVE  /\ maybe_reset_day(m) \in MintStates
           /\ maybe_reset_day(m).today
           /\ maybe_reset_day(m).limit = m.limit
           /\ maybe_reset_day(m).usage = IF m.today THEN m.usage ELSE 0
BY Zenon DEF maybe_reset_day, MintStates

\* A mint adds the same amount to the counter and to the net amount.
LEMMA MintStep ==
    ASSUME mint_state \in MintStates, net \in Int, Counted, NEW a \in Nat, mint_to_account(a)
    PROVE  mint_state' \in MintStates /\ net' \in Int /\ Counted'
<1> DEFINE m == maybe_reset_day(mint_state)
<1>1. /\ m \in MintStates /\ m.today /\ m.limit = mint_state.limit
      /\ m.usage = IF mint_state.today THEN mint_state.usage ELSE 0
  BY ResetDay
<1>2. CASE mint_state.limit = 0
  BY <1>2 DEF mint_to_account, check_and_update_mint_rate_limit, Counted
<1>3. CASE mint_state.limit # 0
  <2> HIDE DEF m
  <2>1. mint_state' = [m EXCEPT !.usage = @ + a] /\ net' = net + a /\ WithinLimit(mint_state')
    BY <1>3 DEF mint_to_account, check_and_update_mint_rate_limit, m
  <2>2. m.usage \in Nat /\ m.limit \in Nat
    BY <1>1, MintFields
  <2>3. /\ mint_state' \in MintStates /\ mint_state'.today
        /\ mint_state'.limit = m.limit /\ mint_state'.usage = m.usage + a
    BY <1>1, <2>1, <2>2 DEF MintStates
  <2>4. net <= m.usage
    BY <1>1, <1>3 DEF Counted
  <2>5. m.usage + a <= m.limit
    BY <1>1, <1>3, <2>1, <2>3 DEF WithinLimit
  <2>6. QED
    BY <2>1, <2>2, <2>3, <2>4, <2>5 DEF Counted
<1>4. QED
  BY <1>2, <1>3

\* A confirmed transfer takes no more off the counter than off the net amount.
LEMMA ReduceStep ==
    ASSUME mint_state \in MintStates, net \in Int, Counted, NEW a \in Nat,
           reduce_mint_rate_limit_usage(a)
    PROVE  mint_state' \in MintStates /\ net' \in Int /\ Counted'
<1> DEFINE m == maybe_reset_day(mint_state)
<1>1. /\ m \in MintStates /\ m.today /\ m.limit = mint_state.limit
      /\ m.usage = IF mint_state.today THEN mint_state.usage ELSE 0
  BY ResetDay
<1>2. CASE mint_state.limit = 0
  BY <1>2 DEF reduce_mint_rate_limit_usage, Counted
<1>3. CASE mint_state.limit # 0
  <2> HIDE DEF m
  <2>1. mint_state' = [m EXCEPT !.usage = Max({0, @ - a})] /\ net' = net - a
    BY <1>3 DEF reduce_mint_rate_limit_usage, m
  <2>2. m.usage \in Nat /\ m.limit \in Nat /\ mint_state.limit \in Nat
    BY <1>1, MintFields
  <2>3. Max({0, m.usage - a}) \in Nat /\ m.usage - a <= Max({0, m.usage - a})
    BY <2>2, MaxZero
  <2>4. /\ mint_state' \in MintStates /\ mint_state'.today
        /\ mint_state'.limit = m.limit /\ mint_state'.usage = Max({0, m.usage - a})
    BY <1>1, <2>1, <2>3 DEF MintStates
  <2>5. net <= m.usage /\ net <= m.limit
    BY <1>1, <1>3 DEF Counted
  <2>6. QED
    BY <2>1, <2>2, <2>3, <2>4, <2>5 DEF Counted
<1>4. QED
  BY <1>2, <1>3

-----------------------------------------------------------------------------
(* What is in flight. *)

\* There are finitely many packets.
LEMMA KeysFinite == IsFiniteSet(Keys)
<1>1. IsFiniteSet(Chains)
  <2>1. IsFiniteSet({"solana"})
    BY FS_Singleton
  <2>2. IsFiniteSet({"solana"} \cup {"evm"})
    BY <2>1, FS_AddElement
  <2>3. Chains = {"solana"} \cup {"evm"}
    BY DEF Chains
  <2>4. QED
    BY <2>2, <2>3
<1>2. IsFiniteSet(SequenceNumbers)
  BY FS_Interval, IFTAssumption DEF SequenceNumbers
<1>3. QED
  BY <1>1, <1>2, FS_Product DEF Keys

\* One packet and its pending transfer change.
LEMMA OneKey ==
    ASSUME TypeOK, NEW c \in Chains, NEW s \in SequenceNumbers,
           NEW p \in Lifecycle!Phases, NEW a \in Nat,
           phase' = [phase EXCEPT ![c][s] = p], pending' = [pending EXCEPT ![c][s] = a]
    PROVE  /\ phase' \in [Chains -> [SequenceNumbers -> Lifecycle!Phases]]
           /\ pending' \in [Chains -> [SequenceNumbers -> Nat]]
           /\ phase'[c][s] = p /\ pending'[c][s] = a
           /\ \A d \in Chains, r \in SequenceNumbers :
                 d # c \/ r # s => phase'[d][r] = phase[d][r] /\ pending'[d][r] = pending[d][r]
BY DEF TypeOK

\* What is in flight is a number.
LEMMA FlyingType ==
    ASSUME TypeOK
    PROVE  Flying \in Int /\ \A c \in Chains, s \in SequenceNumbers : InFlight(c, s) \in Nat
<1> DEFINE f == [x \in Keys |-> InFlight(x[1], x[2])]
<1>1. \A c \in Chains, s \in SequenceNumbers : InFlight(c, s) \in Nat
  BY DEF TypeOK, InFlight
<1>2. \A x \in Keys : f[x] \in Int
  BY <1>1 DEF Keys
<1>3. DOMAIN f = Keys /\ Flying = SumFunctionOnSet(f, DOMAIN f)
  BY DEF Flying, SumFunction, Keys
<1> HIDE DEF f
<1>4. SumFunctionOnSet(f, Keys) \in Int
  BY <1>2, KeysFinite, SumInt
<1>5. QED
  BY <1>1, <1>3, <1>4

\* One packet changes: what is in flight changes by as much.
LEMMA FlyingStep ==
    ASSUME TypeOK, NEW c \in Chains, NEW s \in SequenceNumbers,
           NEW p \in Lifecycle!Phases, NEW a \in Nat,
           phase' = [phase EXCEPT ![c][s] = p], pending' = [pending EXCEPT ![c][s] = a]
    PROVE  /\ Flying' = Flying - InFlight(c, s) + InFlight(c, s)'
           /\ InFlight(c, s)' \in Nat
           /\ InFlight(c, s)' = IF p \in {"executed", "confirmed"} THEN 0 ELSE a
<1> DEFINE f == [x \in Keys |-> InFlight(x[1], x[2])]
           g == [x \in Keys |-> InFlight(x[1], x[2])']
           k == <<c, s>>
<1>1. \A d \in Chains, r \in SequenceNumbers :
         /\ InFlight(d, r) \in Int /\ InFlight(d, r)' \in Int
         /\ d # c \/ r # s => InFlight(d, r)' = InFlight(d, r)
  BY OneKey DEF TypeOK, InFlight
<1>2. InFlight(c, s)' = IF p \in {"executed", "confirmed"} THEN 0 ELSE a
  <2>1. phase'[c][s] = p /\ pending'[c][s] = a
    BY DEF TypeOK
  <2>2. QED
    BY <2>1 DEF InFlight
<1>3. /\ k \in Keys /\ f[k] = InFlight(c, s) /\ g[k] = InFlight(c, s)'
      /\ \A x \in Keys : f[x] \in Int /\ g[x] \in Int
      /\ \A x \in Keys \ {k} : f[x] = g[x]
  <2>1. \A x \in Keys : x[1] \in Chains /\ x[2] \in SequenceNumbers /\ x = <<x[1], x[2]>>
    BY DEF Keys
  <2>2. k \in Keys /\ k[1] = c /\ k[2] = s
    BY DEF Keys
  <2>3. QED
    BY <1>1, <2>1, <2>2
<1>4. DOMAIN f = Keys /\ DOMAIN g = Keys
  OBVIOUS
<1>5. Flying = SumFunctionOnSet(f, DOMAIN f) /\ Flying' = SumFunctionOnSet(g, DOMAIN g)
  BY DEF Flying, SumFunction, Keys
<1> HIDE DEF f, g, k
<1>6. SumFunctionOnSet(g, Keys) = SumFunctionOnSet(f, Keys) - f[k] + g[k]
  <2>1. k \in Keys /\ IsFiniteSet(Keys)
    BY <1>3, KeysFinite
  <2>2. \A x \in Keys : f[x] \in Int /\ g[x] \in Int
    BY <1>3
  <2>3. \A x \in Keys \ {k} : f[x] = g[x]
    BY <1>3
  <2>4. QED
    BY ONLY <2>1, <2>2, <2>3, SumChange
<1>7. QED
  BY SMTT(40), <1>2, <1>3, <1>4, <1>5, <1>6

\* No packet and no pending transfer changes, and neither does what is in flight.
LEMMA FlyingSame ==
    ASSUME UNCHANGED <<phase, pending>>
    PROVE  Flying' = Flying
<1> DEFINE f == [x \in Keys |-> InFlight(x[1], x[2])]
           g == [x \in Keys |-> InFlight(x[1], x[2])']
<1>1. f = g
  BY DEF InFlight
<1>2. Flying = SumFunction(f) /\ Flying' = SumFunction(g)
  BY DEF Flying, Keys
<1>3. QED
  BY <1>1, <1>2

-----------------------------------------------------------------------------
(* Every step preserves the invariant. *)

\* The numbers that a step has to balance.
LEMMA Sums0 ==
    ASSUME IInv
    PROVE  /\ TypeOK /\ supply["solana"] \in Nat /\ supply["evm"] \in Nat
           /\ Flying \in Int /\ issued \in Nat /\ InitialSupply \in Nat
           /\ supply["solana"] + supply["evm"] + Flying = 2 * InitialSupply + issued
           /\ mint_state \in MintStates /\ net \in Int /\ Counted
BY FlyingType, IFTAssumption DEF IInv, TypeOK, SupplyConserved, Chains, MintStates

\* Every other packet keeps its links when one packet and its transfer change.
LEMMA LinksStay ==
    ASSUME TypeOK, Linked, NEW c \in Chains, NEW s \in SequenceNumbers,
           NEW p \in Lifecycle!Phases, NEW a \in Nat,
           phase' = [phase EXCEPT ![c][s] = p], pending' = [pending EXCEPT ![c][s] = a],
           \A d \in Chains, r \in SequenceNumbers : d # c \/ r # s => amount'[d][r] = amount[d][r],
           \A r \in SequenceNumbers : c # "solana" \/ r # s => result'[r] = result[r],
           c = "solana" => result'[s] = Told(p),
           p # "unsent", p = "sent" => a = amount'[c][s]
    PROVE  Linked'
<1>1. /\ phase'[c][s] = p /\ pending'[c][s] = a
      /\ \A d \in Chains, r \in SequenceNumbers :
            d # c \/ r # s => phase'[d][r] = phase[d][r] /\ pending'[d][r] = pending[d][r]
  BY DEF TypeOK
<1>2. "solana" \in Chains
  BY DEF Chains
<1>3. \A r \in SequenceNumbers : result'[r] = Told(phase'["solana"][r])
  BY <1>1, <1>2, Zenon DEF Linked
<1>4. \A d \in Chains, r \in SequenceNumbers :
         /\ phase'[d][r] = "unsent" => pending'[d][r] = 0
         /\ phase'[d][r] = "sent" => pending'[d][r] = amount'[d][r]
  <2> SUFFICES ASSUME NEW d \in Chains, NEW r \in SequenceNumbers
               PROVE  /\ phase'[d][r] = "unsent" => pending'[d][r] = 0
                      /\ phase'[d][r] = "sent" => pending'[d][r] = amount'[d][r]
    OBVIOUS
  <2>1. CASE d = c /\ r = s
    BY <1>1, <2>1
  <2>2. CASE d # c \/ r # s
    BY <1>1, <2>2 DEF Linked
  <2>3. QED
    BY <2>1, <2>2
<1>5. QED
  BY <1>3, <1>4 DEF Linked

\* ift_transfer and iftTransfer: burn, and send.
LEMMA SendStep ==
    ASSUME IInv, NEW c \in Chains, NEW s \in SequenceNumbers, NEW a \in Amounts,
           Lifecycle!Advance(c, s, "unsent", "sent"), Burn(c, s, a), construct_mint_call(c, s, a),
           UNCHANGED <<result, mint_state, switches, issued, net>>
    PROVE  IInv'
<1>1. a \in Nat /\ TypeOK /\ Linked
  BY IFTAssumption DEF IInv
<1>2. /\ phase[c][s] = "unsent" /\ phase' = [phase EXCEPT ![c][s] = "sent"]
      /\ pending' = [pending EXCEPT ![c][s] = a] /\ amount' = [amount EXCEPT ![c][s] = a]
      /\ supply' = [supply EXCEPT ![c] = @ - a] /\ supply[c] >= a
  BY DEF Lifecycle!Advance, Burn, construct_mint_call
<1>3. "sent" \in Lifecycle!Phases
  BY DEF Lifecycle!Phases
<1>4. TypeOK'
  BY <1>1, <1>2, <1>3 DEF TypeOK, switches
<1>5. Linked'
  <2>1. /\ \A d \in Chains, r \in SequenceNumbers : d # c \/ r # s => amount'[d][r] = amount[d][r]
        /\ amount'[c][s] = a
    BY <1>1, <1>2 DEF TypeOK
  <2>2. /\ \A r \in SequenceNumbers : c # "solana" \/ r # s => result'[r] = result[r]
        /\ c = "solana" => result'[s] = Told("sent")
    BY <1>1, <1>2 DEF Linked, Told
  <2>3. "sent" # "unsent" /\ ("sent" = "sent" => a = amount'[c][s])
    BY <2>1
  <2>4. QED
    BY <1>1, <1>2, <1>3, <2>1, <2>2, <2>3, LinksStay, Zenon
<1>6. SupplyConserved'
  <2>1. InFlight(c, s) = 0
    BY <1>1, <1>2 DEF Linked, InFlight
  <2>2. Flying' = Flying - 0 + a
    <3>1. InFlight(c, s)' = a /\ Flying' = Flying - InFlight(c, s) + InFlight(c, s)'
      BY Zenon, <1>1, <1>2, <1>3, FlyingStep
    <3>2. QED
      BY <2>1, <3>1
  <2>3. supply'["solana"] + supply'["evm"] = supply["solana"] + supply["evm"] - a
    BY <1>1, <1>2, Sums0 DEF TypeOK, Chains
  <2>4. QED
    BY <1>1, <2>2, <2>3, Sums0 DEF SupplyConserved
<1>7. Counted'
  BY DEF IInv, Counted
<1>8. QED
  BY <1>4, <1>5, <1>6, <1>7 DEF IInv

\* What a step does to the packet s of c and to its transfer, to the result
\* account, to the tokens and to the counter of the mint limit.
Moved(c, s, p, a) ==
    phase' = [phase EXCEPT ![c][s] = p] /\ pending' = [pending EXCEPT ![c][s] = a]
Informed(c, s, p) ==
    /\ result' \in [SequenceNumbers -> {"none", "timeout", "error", "success"}]
    /\ \A r \in SequenceNumbers : c # "solana" \/ r # s => result'[r] = result[r]
    /\ c = "solana" => result'[s] = Told(p)
Balanced(c, s) ==
    /\ supply' \in [Chains -> Nat]
    /\ supply'["solana"] + supply'["evm"] + InFlight(c, s)'
          = supply["solana"] + supply["evm"] + InFlight(c, s)
Recounted == mint_state' \in MintStates /\ net' \in Int /\ Counted'

\* A packet that was sent moves on, or its transfer is settled: what leaves the
\* flight enters circulation.
LEMMA PacketStep ==
    ASSUME IInv, NEW c \in Chains, NEW s \in SequenceNumbers,
           NEW p \in Lifecycle!Phases \ {"unsent", "sent"}, NEW a \in Nat,
           Moved(c, s, p, a), Informed(c, s, p), Balanced(c, s), Recounted,
           UNCHANGED <<amount, switches, issued>>
    PROVE  IInv'
<1>1. /\ TypeOK /\ Linked /\ p \in Lifecycle!Phases
      /\ phase' = [phase EXCEPT ![c][s] = p] /\ pending' = [pending EXCEPT ![c][s] = a]
  BY DEF IInv, Moved
<1>2. TypeOK'
  BY <1>1 DEF TypeOK, switches, MintStates, Informed, Balanced, Recounted
<1>3. Linked'
  <2>1. /\ \A d \in Chains, r \in SequenceNumbers : d # c \/ r # s => amount'[d][r] = amount[d][r]
        /\ p # "unsent" /\ (p = "sent" => a = amount'[c][s])
    OBVIOUS
  <2>2. QED
    BY <1>1, <2>1, LinksStay, Zenon DEF Informed
<1>4. SupplyConserved'
  <2>1. Flying' = Flying - InFlight(c, s) + InFlight(c, s)' /\ InFlight(c, s)' \in Nat
    BY Zenon, <1>1, FlyingStep
  <2>2. supply'["solana"] \in Nat /\ supply'["evm"] \in Nat /\ InFlight(c, s) \in Nat
    BY <1>1, FlyingType DEF Chains, Balanced
  <2>3. QED
    BY <2>1, <2>2, Sums0 DEF SupplyConserved, Balanced
<1>5. QED
  BY <1>2, <1>3, <1>4 DEF IInv, Recounted

\* A step that leaves packets and tokens alone.
LEMMA QuietStep ==
    ASSUME IInv, UNCHANGED <<phase, tokens, result, issued>>,
           Recounted, paused' \in BOOLEAN, gmp_paused' \in [Chains -> BOOLEAN], bridge' \in [Chains -> BOOLEAN],
           administered' \in Nat
    PROVE  IInv'
<1>1. TypeOK'
  BY DEF IInv, TypeOK, tokens, MintStates, Recounted
<1>2. Linked'
  BY DEF IInv, Linked, tokens
<1>3. Flying' = Flying
  BY FlyingSame DEF tokens
<1>4. SupplyConserved'
  BY <1>3 DEF IInv, SupplyConserved, tokens
<1>5. QED
  BY <1>1, <1>2, <1>4 DEF IInv, Recounted

\* Ways to write a transfer or a packet that stays as it is.
LEMMA Unmoved ==
    ASSUME TypeOK, NEW c \in Chains, NEW s \in SequenceNumbers
    PROVE  /\ pending' = pending => pending' = [pending EXCEPT ![c][s] = pending[c][s]]
           /\ phase' = phase => phase' = [phase EXCEPT ![c][s] = phase[c][s]]
           /\ pending[c][s] \in Nat /\ phase[c][s] \in Lifecycle!Phases
BY DEF TypeOK

\* A packet that enters a phase counts as in flight or does not.
LEMMA InFlightStep ==
    ASSUME TypeOK, NEW c \in Chains, NEW s \in SequenceNumbers, NEW p,
           phase' = [phase EXCEPT ![c][s] = p]
    PROVE  InFlight(c, s)' = IF p \in {"executed", "confirmed"} THEN 0 ELSE pending'[c][s]
<1>1. phase'[c][s] = p
  BY DEF TypeOK
<1>2. QED
  BY <1>1 DEF InFlight

\* on_recv_packet mints within the limit, or the packet is refused.
LEMMA SolanaReceives ==
    ASSUME IInv, NEW s \in SequenceNumbers, on_recv_packet(s)
    PROVE  IInv'
<1> DEFINE a == pending["evm"][s]
<1>1. TypeOK /\ Linked /\ "evm" \in Chains /\ "executed" \in Lifecycle!Phases \ {"unsent", "sent"}
  BY DEF IInv, Chains, Lifecycle!Phases
<1>2. phase["evm"][s] = "sent" /\ phase' = [phase EXCEPT !["evm"][s] = "executed"]
  BY DEF on_recv_packet, Lifecycle!Advance
<1>3. a \in Nat /\ amount["evm"][s] = a
  BY <1>1, <1>2 DEF TypeOK, Linked
<1>4. /\ supply' = [supply EXCEPT !["solana"] = @ + a] /\ mint_to_account(a)
      /\ UNCHANGED <<pending, amount, switches, issued, result>>
  BY <1>3 DEF on_recv_packet, ift_mint, switches
<1>5. Recounted
  BY <1>3, <1>4, MintStep, Sums0 DEF Recounted
<1>6. Moved("evm", s, "executed", a)
  BY Zenon, <1>1, <1>2, <1>4, Unmoved DEF Moved
<1>7. Balanced("evm", s)
  <2>1. InFlight("evm", s) = a /\ InFlight("evm", s)' = 0
    BY Zenon, <1>1, <1>2, InFlightStep DEF InFlight
  <2>2. QED
    BY <1>1, <1>3, <1>4, <2>1, Sums0 DEF TypeOK, Chains, Balanced
<1>8. Informed("evm", s, "executed")
  BY <1>1, <1>4 DEF TypeOK, Informed
<1>9. QED
  BY <1>1, <1>3, <1>4, <1>5, <1>6, <1>7, <1>8, PacketStep

\* onRecvPacket mints, or the packet is refused.
LEMMA EvmReceives ==
    ASSUME IInv, NEW s \in SequenceNumbers, onRecvPacket(s)
    PROVE  IInv'
<1> DEFINE a == pending["solana"][s]
<1>1. /\ TypeOK /\ Linked /\ "solana" \in Chains
      /\ {"executed", "rejected"} \subseteq Lifecycle!Phases \ {"unsent", "sent"}
  BY DEF IInv, Chains, Lifecycle!Phases
<1>2. phase["solana"][s] = "sent"
  BY DEF onRecvPacket, Lifecycle!Advance
<1>3. a \in Nat /\ amount["solana"][s] = a /\ InFlight("solana", s) = a
  BY <1>1, <1>2 DEF TypeOK, Linked, InFlight
<1>4. UNCHANGED <<pending, amount, switches, issued, result, mint_state, net>>
  BY DEF onRecvPacket
<1>5. Recounted
  BY <1>4, Sums0 DEF Recounted, Counted
<1>6. result[s] = "none" /\ Told("executed") = "none" /\ Told("rejected") = "none"
  BY <1>1, <1>2 DEF Linked, Told
<1>7. Informed("solana", s, "executed") /\ Informed("solana", s, "rejected")
  BY <1>1, <1>4, <1>6 DEF TypeOK, Informed
<1>8. CASE /\ phase' = [phase EXCEPT !["solana"][s] = "executed"]
           /\ supply' = [supply EXCEPT !["evm"] = @ + amount["solana"][s]]
  <2>1. Moved("solana", s, "executed", a)
    BY Zenon, <1>1, <1>4, <1>8, Unmoved DEF Moved
  <2>2. InFlight("solana", s)' = 0
    BY Zenon, <1>1, <1>8, InFlightStep
  <2>3. Balanced("solana", s)
    BY <1>1, <1>3, <1>8, <2>2, Sums0 DEF TypeOK, Chains, Balanced
  <2>4. QED
    BY SMTT(40), <1>1, <1>3, <1>4, <1>5, <1>7, <2>1, <2>3, PacketStep
<1>9. CASE phase' = [phase EXCEPT !["solana"][s] = "rejected"] /\ supply' = supply
  <2>1. Moved("solana", s, "rejected", a)
    BY Zenon, <1>1, <1>4, <1>9, Unmoved DEF Moved
  <2>2. InFlight("solana", s)' = a
    BY ZenonT(40), <1>1, <1>4, <1>9, InFlightStep
  <2>3. Balanced("solana", s)
    BY <1>1, <1>3, <1>9, <2>2 DEF TypeOK, Chains, Balanced
  <2>4. QED
    BY SMTT(40), <1>1, <1>3, <1>4, <1>5, <1>7, <2>1, <2>3, PacketStep
<1>10. QED
  BY <1>8, <1>9 DEF onRecvPacket, Lifecycle!Advance

\* Solana is told what became of its packet: only the result account changes.
LEMMA SolanaTold ==
    ASSUME IInv, NEW s \in SequenceNumbers, NEW from, NEW p \in {"confirmed", "refused", "timedOut"},
           Lifecycle!Advance("solana", s, from, p), from = "executed" <=> p = "confirmed",
           from # "confirmed", result' = [result EXCEPT ![s] = Told(p)],
           UNCHANGED <<tokens, mint_state, switches, issued, net>>
    PROVE  IInv'
<1> DEFINE a == pending["solana"][s]
<1>1. TypeOK /\ "solana" \in Chains /\ p \in Lifecycle!Phases \ {"unsent", "sent"}
  BY DEF IInv, Chains, Lifecycle!Phases
<1>2. phase["solana"][s] = from /\ phase' = [phase EXCEPT !["solana"][s] = p]
  BY DEF Lifecycle!Advance
<1>3. a \in Nat
  BY <1>1 DEF TypeOK
<1>4. UNCHANGED <<pending, amount, supply, switches, issued>>
  BY DEF tokens
<1>5. Recounted
  BY Sums0 DEF Recounted, Counted
<1>6. Moved("solana", s, p, a)
  BY Zenon, <1>1, <1>2, <1>4, Unmoved DEF Moved
<1>7. Told(p) \in {"none", "timeout", "error", "success"}
  BY DEF Told
<1>8. Informed("solana", s, p)
  BY <1>1, <1>7 DEF TypeOK, Informed
<1>9. InFlight("solana", s)' = InFlight("solana", s)
  BY <1>1, <1>2, <1>4, InFlightStep DEF InFlight
<1>10. Balanced("solana", s)
  BY <1>1, <1>4, <1>9 DEF TypeOK, Balanced
<1>11. QED
  BY <1>1, <1>3, <1>4, <1>5, <1>6, <1>8, <1>10, PacketStep

\* Acknowledgements and timeouts on Solana fill in the result account.
LEMMA AcknowledgedStep ==
    ASSUME IInv, NEW s \in SequenceNumbers, on_acknowledgement_packet(s) \/ on_timeout_packet(s)
    PROVE  IInv'
<1>1. Told("confirmed") = "success" /\ Told("refused") = "error" /\ Told("timedOut") = "timeout"
  BY DEF Told
<1>2. CASE Lifecycle!Advance("solana", s, "executed", "confirmed") /\ result' = [result EXCEPT ![s] = "success"]
  BY Zenon, <1>1, <1>2, SolanaTold DEF on_acknowledgement_packet, on_timeout_packet
<1>3. CASE Lifecycle!Advance("solana", s, "rejected", "refused") /\ result' = [result EXCEPT ![s] = "error"]
  BY Zenon, <1>1, <1>3, SolanaTold DEF on_acknowledgement_packet, on_timeout_packet
<1>4. CASE Lifecycle!Advance("solana", s, "sent", "timedOut") /\ result' = [result EXCEPT ![s] = "timeout"]
  BY Zenon, <1>1, <1>4, SolanaTold DEF on_acknowledgement_packet, on_timeout_packet
<1>5. QED
  BY <1>2, <1>3, <1>4 DEF on_acknowledgement_packet, on_timeout_packet, init_acknowledged, init_timed_out

\* A transfer is settled on Solana: refunded if its packet failed, and only
\* then still in flight.
LEMMA FinalizeStep ==
    ASSUME IInv, NEW s \in SequenceNumbers, finalize_transfer(s)
    PROVE  IInv'
<1> DEFINE a == pending["solana"][s]
           p == phase["solana"][s]
<1>1. /\ TypeOK /\ "solana" \in Chains /\ p \in Lifecycle!Phases /\ a \in Nat
      /\ result[s] = Told(p) /\ result[s] # "none"
  BY DEF IInv, TypeOK, Linked, Chains, finalize_transfer, Settleable
<1>2. p \in {"confirmed", "refused", "timedOut"}
  BY <1>1 DEF Told
<1>3. p \in Lifecycle!Phases \ {"unsent", "sent"}
  BY <1>1, <1>2
<1>4. UNCHANGED <<phase, amount, switches, issued, result>> /\ pending' = [pending EXCEPT !["solana"][s] = 0]
  BY DEF finalize_transfer, close_pending
<1>5. Moved("solana", s, p, 0)
  BY Zenon, <1>1, <1>4, Unmoved DEF Moved
<1>6. Informed("solana", s, p)
  BY <1>1, <1>4 DEF TypeOK, Informed
<1>7. InFlight("solana", s)' = 0
  BY <1>1, <1>4 DEF InFlight, TypeOK
<1>8. CASE /\ result[s] \in {"timeout", "error"} /\ mint_to_account(a)
           /\ supply' = [supply EXCEPT !["solana"] = @ + a]
  <2>1. InFlight("solana", s) = a
    BY <1>1, <1>2, <1>8 DEF InFlight, Told
  <2>2. Balanced("solana", s)
    BY <1>1, <1>7, <1>8, <2>1, Sums0 DEF TypeOK, Chains, Balanced
  <2>3. Recounted
    BY SMTT(40), <1>1, <1>8, MintStep, Sums0 DEF Recounted
  <2>4. QED
    BY <1>1, <1>3, <1>4, <1>5, <1>6, <2>2, <2>3, PacketStep
<1>9. CASE result[s] = "success" /\ reduce_mint_rate_limit_usage(a) /\ supply' = supply
  <2>1. InFlight("solana", s) = 0
    BY SMTT(40), <1>1, <1>2, <1>9 DEF InFlight, Told
  <2>2. Balanced("solana", s)
    BY SMTT(40), <1>1, <1>7, <1>9, <2>1 DEF TypeOK, Balanced
  <2>3. Recounted
    BY SMTT(40), <1>1, <1>9, ReduceStep, Sums0 DEF Recounted
  <2>4. QED
    BY <1>1, <1>3, <1>4, <1>5, <1>6, <2>2, <2>3, PacketStep
<1>10. QED
  BY <1>8, <1>9 DEF finalize_transfer

\* The EVM chain settles a transfer as soon as it is told.
LEMMA EvmToldStep ==
    ASSUME IInv, NEW s \in SequenceNumbers, onAckPacket(s) \/ onTimeoutPacket(s)
    PROVE  IInv'
<1> DEFINE a == pending["evm"][s]
<1>1. /\ TypeOK /\ "evm" \in Chains /\ a \in Nat
      /\ {"confirmed", "timedOut"} \subseteq Lifecycle!Phases \ {"unsent", "sent"}
  BY DEF IInv, TypeOK, Chains, Lifecycle!Phases
<1>2. /\ UNCHANGED <<amount, switches, issued, result, mint_state, net>>
      /\ pending' = [pending EXCEPT !["evm"][s] = 0]
  BY DEF onAckPacket, onTimeoutPacket
<1>3. Recounted
  BY <1>2, Sums0 DEF Recounted, Counted
<1>4. Informed("evm", s, "confirmed") /\ Informed("evm", s, "timedOut")
  BY <1>1, <1>2 DEF TypeOK, Informed
<1>5. pending'["evm"][s] = 0
  BY <1>1, <1>2 DEF TypeOK
<1>6. CASE /\ phase["evm"][s] = "executed" /\ supply' = supply
           /\ phase' = [phase EXCEPT !["evm"][s] = "confirmed"]
  <2>1. Moved("evm", s, "confirmed", 0)
    BY <1>2, <1>6 DEF Moved
  <2>2. InFlight("evm", s) = 0 /\ InFlight("evm", s)' = 0
    BY <1>1, <1>6, InFlightStep DEF InFlight
  <2>3. Balanced("evm", s)
    BY <1>1, <1>6, <2>2 DEF TypeOK, Balanced
  <2>4. QED
    BY SMTT(40), <1>1, <1>2, <1>3, <1>4, <2>1, <2>3, PacketStep
<1>7. CASE /\ phase["evm"][s] = "sent" /\ supply' = [supply EXCEPT !["evm"] = @ + a]
           /\ phase' = [phase EXCEPT !["evm"][s] = "timedOut"]
  <2>1. Moved("evm", s, "timedOut", 0)
    BY <1>2, <1>7 DEF Moved
  <2>2. InFlight("evm", s) = a /\ InFlight("evm", s)' = 0
    BY <1>1, <1>5, <1>7, InFlightStep DEF InFlight
  <2>3. Balanced("evm", s)
    BY <1>1, <1>7, <2>2, Sums0 DEF TypeOK, Chains, Balanced
  <2>4. QED
    BY SMTT(40), <1>1, <1>2, <1>3, <1>4, <2>1, <2>3, PacketStep
<1>8. QED
  BY <1>6, <1>7 DEF onAckPacket, onTimeoutPacket, Lifecycle!Advance

\* What the administrator mints is added to what was issued.
LEMMA AdminMintStep ==
    ASSUME IInv, NEW a \in Amounts, admin_mint(a)
    PROVE  IInv'
<1>1. a \in Nat /\ TypeOK /\ Linked
  BY IFTAssumption DEF IInv
<1>2. /\ supply' = [supply EXCEPT !["solana"] = @ + a] /\ issued' = issued + a
      /\ UNCHANGED <<phase, pending, amount, result, paused, gmp_paused, bridge>>
      /\ administered' = administered + 1
  BY DEF admin_mint, Administer
<1>3. Recounted
  <2>1. mint_to_account(a)
    BY DEF admin_mint
  <2>2. QED
    BY <1>1, <2>1, MintStep, Sums0 DEF Recounted
<1>4. TypeOK'
  <2>1. supply' \in [Chains -> Nat] /\ issued' \in Nat /\ administered' \in Nat
    BY <1>1, <1>2, Sums0 DEF TypeOK, Chains
  <2>2. QED
    BY <1>1, <1>2, <1>3, <2>1, Zenon DEF TypeOK, Recounted, MintStates
<1>5. Linked'
  BY <1>1, <1>2 DEF Linked
<1>6. Flying' = Flying
  BY <1>2, FlyingSame
<1>7. supply'["solana"] = supply["solana"] + a /\ supply'["evm"] = supply["evm"]
  BY <1>1, <1>2 DEF TypeOK, Chains
<1>8. SupplyConserved'
  BY <1>1, <1>2, <1>6, <1>7, Sums0 DEF SupplyConserved
<1>9. QED
  BY <1>3, <1>4, <1>5, <1>8 DEF IInv, Recounted

\* Pauses, bridges, the limit, the authority over the mint, and midnight.
LEMMA SwitchStep ==
    ASSUME IInv,
           \/ set_paused \/ set_unpaused
           \/ \E c \in Chains :
                  pause_app(c) \/ unpause_app(c) \/ remove_ift_bridge(c) \/ register_ift_bridge(c)
    PROVE  IInv'
<1>1. UNCHANGED <<phase, tokens, result, issued, mint_state, net>>
  BY DEF Elsewhere, set_paused, set_unpaused, pause_app, unpause_app, remove_ift_bridge, register_ift_bridge
<1>2. Recounted
  BY <1>1, Sums0 DEF Recounted, Counted
<1>3. /\ paused' \in BOOLEAN /\ gmp_paused' \in [Chains -> BOOLEAN] /\ bridge' \in [Chains -> BOOLEAN]
      /\ administered' \in Nat
  <2>1. /\ paused \in BOOLEAN /\ gmp_paused \in [Chains -> BOOLEAN] /\ bridge \in [Chains -> BOOLEAN]
        /\ administered \in Nat
    BY Sums0 DEF TypeOK
  <2>2. administered' \in Nat
    BY <2>1 DEF Administer, set_paused, set_unpaused, pause_app, unpause_app, remove_ift_bridge,
       register_ift_bridge
  <2>3. paused' \in BOOLEAN
    BY <2>1, Zenon DEF set_paused, set_unpaused, pause_app, unpause_app, remove_ift_bridge,
       register_ift_bridge
  <2>4. gmp_paused' \in [Chains -> BOOLEAN]
    <3>1. CASE \E c \in Chains : pause_app(c) \/ unpause_app(c)
      BY Zenon, <2>1, <3>1 DEF pause_app, unpause_app
    <3>2. CASE ~ \E c \in Chains : pause_app(c) \/ unpause_app(c)
      BY <2>1, <3>2, Zenon DEF set_paused, set_unpaused, remove_ift_bridge, register_ift_bridge
    <3>3. QED
      BY <3>1, <3>2
  <2>5. bridge' \in [Chains -> BOOLEAN]
    <3>1. CASE \E c \in Chains : remove_ift_bridge(c) \/ register_ift_bridge(c)
      BY Zenon, <2>1, <3>1 DEF remove_ift_bridge, register_ift_bridge
    <3>2. CASE ~ \E c \in Chains : remove_ift_bridge(c) \/ register_ift_bridge(c)
      BY <2>1, <3>2, Zenon DEF set_paused, set_unpaused, pause_app, unpause_app
    <3>3. QED
      BY <3>1, <3>2
  <2>6. QED
    BY <2>2, <2>3, <2>4, <2>5
<1>4. QED
  BY <1>1, <1>2, <1>3, QuietStep

\* The limit is set, the mint changes hands, or the day ends.
LEMMA LimitStep ==
    ASSUME IInv,
           \/ \E limit \in Limits : set_mint_rate_limit(limit)
           \/ revoke_mint_authority \/ initialize_existing_token \/ NextDay
    PROVE  IInv'
<1>1. UNCHANGED <<phase, tokens, result, issued, paused, gmp_paused, bridge>>
  BY DEF Elsewhere, switches, set_mint_rate_limit, revoke_mint_authority, initialize_existing_token, NextDay
<1>2. administered' \in Nat
  BY Sums0 DEF TypeOK, Administer, switches, set_mint_rate_limit, revoke_mint_authority,
     initialize_existing_token, NextDay
<1>3. mint_state \in MintStates /\ mint_state.usage \in Nat
  BY Sums0, MintFields
<1>4. mint_state' \in MintStates /\ net' = 0
  <2>1. CASE \E limit \in Limits : set_mint_rate_limit(limit)
    BY <1>3, <2>1, IFTAssumption DEF MintStates, set_mint_rate_limit
  <2>2. CASE revoke_mint_authority \/ initialize_existing_token
    <3>1. Revoked \in MintStates
      BY DEF MintStates, Revoked
    <3>2. Fresh \in MintStates
      BY Zenon, <3>1 DEF MintStates, Fresh
    <3>3. QED
      BY <2>2, <3>1, <3>2 DEF revoke_mint_authority, initialize_existing_token
  <2>3. CASE NextDay
    BY Zenon, <1>3, <2>3 DEF MintStates, NextDay
  <2>4. QED
    BY <2>1, <2>2, <2>3
<1>5. mint_state'.usage \in Nat /\ mint_state'.limit \in Nat
  BY <1>4, MintFields
<1>6. Recounted
  BY <1>4, <1>5 DEF Recounted, Counted
<1>7. QED
  BY <1>1, <1>2, <1>6, Sums0, QuietStep DEF TypeOK

\* Every step preserves the invariant.
LEMMA NextIInv ==
    ASSUME IInv, [Next]_vars
    PROVE  IInv'
<1>1. CASE Transfers
  <2>1. PICK s \in SequenceNumbers :
            \/ \E a \in Amounts : ift_transfer(s, a) \/ iftTransfer(s, a)
            \/ on_recv_packet(s) \/ on_acknowledgement_packet(s) \/ on_timeout_packet(s)
            \/ finalize_transfer(s)
            \/ onRecvPacket(s) \/ onAckPacket(s) \/ onTimeoutPacket(s)
    BY <1>1 DEF Transfers
  <2>2. CASE \E a \in Amounts : ift_transfer(s, a)
    BY <2>2, SendStep DEF ift_transfer, send_call, Chains
  <2>3. CASE \E a \in Amounts : iftTransfer(s, a)
    BY <2>3, SendStep DEF iftTransfer, Lifecycle!Send, Chains
  <2>4. QED
    BY SMTT(40), <2>1, <2>2, <2>3, SolanaReceives, EvmReceives, AcknowledgedStep, FinalizeStep, EvmToldStep
<1>2. CASE Administrators
  BY <1>2, SwitchStep, LimitStep, AdminMintStep DEF Administrators
<1>3. CASE NextDay
  BY <1>3, LimitStep
<1>4. CASE UNCHANGED vars
  <2>1. Recounted
    BY <1>4, Sums0 DEF vars, Recounted, Counted
  <2>2. QED
    BY <1>4, <2>1, Sums0, QuietStep DEF vars, switches, TypeOK
<1>5. QED
  BY SMTT(40), <1>1, <1>2, <1>3, <1>4 DEF Next

\* Nothing is in flight at first.
LEMMA InitIInv == Init => IInv
<1> SUFFICES ASSUME Init PROVE IInv
  OBVIOUS
<1>1. TypeOK
  <2>1. Fresh \in MintStates
    BY Zenon DEF MintStates, Fresh, Revoked
  <2>2. phase \in [Chains -> [SequenceNumbers -> Lifecycle!Phases]]
    BY DEF Init, Lifecycle!Init, Lifecycle!Phases
  <2>3. /\ supply \in [Chains -> Nat]
        /\ amount \in [Chains -> [SequenceNumbers -> Nat]]
        /\ pending \in [Chains -> [SequenceNumbers -> Nat]]
        /\ result \in [SequenceNumbers -> {"none", "timeout", "error", "success"}]
        /\ issued \in Nat /\ net \in Int /\ administered \in Nat
    BY IFTAssumption DEF Init
  <2>4. paused \in BOOLEAN /\ gmp_paused \in [Chains -> BOOLEAN] /\ bridge \in [Chains -> BOOLEAN]
    BY Zenon DEF Init
  <2>5. mint_state \in MintStates
    BY <2>1 DEF Init
  <2>6. QED
    BY <2>2, <2>3, <2>4, <2>5, Zenon DEF TypeOK, MintStates
<1>2. \A c \in Chains, s \in SequenceNumbers : phase[c][s] = "unsent" /\ pending[c][s] = 0
  BY DEF Init, Lifecycle!Init
<1>3. Linked
  BY <1>2 DEF Init, Linked, Told, Chains
<1>4. Counted
  BY DEF Init, Counted, Fresh, Revoked
<1>5. SupplyConserved
  <2> DEFINE f == [x \in Keys |-> InFlight(x[1], x[2])]
  <2>1. \A x \in Keys : f[x] = 0
    BY <1>2 DEF InFlight, Keys
  <2>2. Flying = SumFunctionOnSet(f, Keys)
    BY DEF Flying, SumFunction, Keys
  <2>3. SumFunctionOnSet(f, Keys) = 0
    <3> HIDE DEF f
    <3> QED BY <2>1, KeysFinite, SumZero
  <2>4. QED
    BY SMTT(40), <2>2, <2>3, IFTAssumption DEF SupplyConserved, Init, Chains
<1>6. QED
  BY <1>1, <1>3, <1>4, <1>5 DEF IInv

-----------------------------------------------------------------------------
\* The invariant holds in every state.
LEMMA Inductive == Spec => []IInv
BY InitIInv, NextIInv, PTL DEF Spec

\* Amounts never go below zero, whatever is transferred, refunded or limited.
THEOREM TypeCorrect == Spec => []TypeOK
<1>1. IInv => TypeOK
  BY DEF IInv
<1>2. QED
  BY <1>1, Inductive, PTL

\* Burning, minting, refunds and pauses in any order neither lose nor create a
\* token, for any number of packets and any amounts.
THEOREM Conservation == Spec => []SupplyConserved
<1>1. IInv => SupplyConserved
  BY DEF IInv
<1>2. QED
  BY <1>1, Inductive, PTL

\* The daily mint limit holds for any limits and amounts, although refunds and
\* confirmations move the same counter.
THEOREM LimitHolds == Spec => []MintsWithinLimit
<1>1. IInv => MintsWithinLimit
  BY DEF IInv, Counted, MintsWithinLimit
<1>2. QED
  BY <1>1, Inductive, PTL

=============================================================================
