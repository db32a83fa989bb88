------------------------- MODULE ICS20TransferProofs -------------------------
(***************************************************************************)
(* Escrows back vouchers, and refunds can be paid, for any chains, clients,*)
(* tokens, users and amounts, and for denominations of any length.         *)
(*                                                                         *)
(* owed(e, d) adds up balances and packets, so it is followed as a sum: a  *)
(* step changes one total supply, one escrow and one packet, and each of   *)
(* them counts for one pair of an escrow and a denomination.               *)
(*                                                                         *)
(* The daily limit of an escrow (Escrow) holds for any amounts, limits,    *)
(* period and number of days; its proof is at the end.                     *)
(***************************************************************************)
EXTENDS ICS20Transfer, Escrow, Sums

Hop == ClientIds \cup Tokens
Balances == [Chains -> [Denoms -> [Holders -> Nat]]]
origin(denom) == denom[Len(denom)]

\* What an escrow holds besides gifts, and the voucher it backs with a token.
net(e, d) == balance[Host(e)][d][e] - gifts[e][d]
backing(e, d) == voucher(Counterparty[e], d)

\* A denomination that the contracts of chain c let a holder have: a voucher is
\* in their mapping, its token charges no fee, and it was not minted for a token
\* that came back to where it had come from.
Genuine(c, d) ==
    Len(d) > 1 =>
        /\ d \in contracts[c]
        /\ origin(d) \notin FeeTokens
        /\ \A x \in Endpoints :
              Host(x) = c /\ hasPrefix(d, Id(x)) => ~hasPrefix(Tail(d), Id(Counterparty[x]))

Held ==
    \A c \in Chains, d \in Denoms : \A h \in Holders : balance[c][d][h] > 0 => Genuine(c, d)

\* A packet p that e sent can be received and refunded.
Sound(e, p) ==
    /\ p \in PacketData
    /\ p.sender \in HoldersOn(Host(e))
    /\ p.receiver \in HoldersOn(Host(Counterparty[e])) \cup {NoAddress}
    /\ receivedDenom(e, p.denom) \in Denoms
    /\ origin(p.denom) \notin FeeTokens
    /\ Genuine(Host(e), p.denom)
    /\ e \in escrows

Carried ==
    \A e \in Endpoints, s \in SequenceNumbers : phase[e][s] # "unsent" => Sound(e, packets[e][s])

\* EscrowBacksVouchers, with the gifts on the other side.
Backed == \A x \in Endpoints, y \in Denoms : net(x, y) = owed(x, y)

IInv == TypeOK /\ Held /\ Carried /\ Backed

\* The terms of owed are numbers.
Counts ==
    /\ \A x \in Chains : \A y : totalSupply(x, y) \in Nat
    /\ \A x \in Endpoints : \A y : inFlight(x, y) \in Nat

\* What a step adds to the supplies, to what is in flight, and to what the
\* escrows hold besides gifts: k, at one place.
Supplies(c, d, k) ==
    \A x \in Chains : \A y : totalSupply(x, y)' = totalSupply(x, y) + IF x = c /\ y = d THEN k ELSE 0
Flights(e, d, k) ==
    \A x \in Endpoints : \A y : inFlight(x, y)' = inFlight(x, y) + IF x = e /\ y = d THEN k ELSE 0
Nets(e, d, k) ==
    \A x \in Endpoints, y \in Denoms : net(x, y)' = net(x, y) + IF x = e /\ y = d THEN k ELSE 0

-----------------------------------------------------------------------------
(* Denominations. *)

\* Sequences: a function on 1..n is one, the entries of two determine whether they are equal,
\* and what concatenation and Tail make of them.
LEMMA Listed ==
    ASSUME NEW S, NEW n \in Nat, NEW f \in [1..n -> S]
    PROVE  f \in Seq(S) /\ Len(f) = n
OBVIOUS

\* Sequences with the same entries are equal.
LEMMA SameList ==
    ASSUME NEW S, NEW s \in Seq(S), NEW t \in Seq(S),
           Len(s) = Len(t), \A i \in 1..Len(s) : s[i] = t[i]
    PROVE  s = t
OBVIOUS

\* The entries of a concatenation.
LEMMA Joined ==
    ASSUME NEW S, NEW s \in Seq(S), NEW t \in Seq(S)
    PROVE  /\ s \o t \in Seq(S) /\ Len(s \o t) = Len(s) + Len(t)
           /\ \A i \in 1..(Len(s) + Len(t)) :
                 (s \o t)[i] = IF i <= Len(s) THEN s[i] ELSE t[i - Len(s)]
OBVIOUS

\* The entries of the tail.
LEMMA Rest ==
    ASSUME NEW S, NEW s \in Seq(S), s # << >>
    PROVE  /\ Tail(s) \in Seq(S) /\ Len(Tail(s)) = Len(s) - 1
           /\ \A i \in 1..Len(Tail(s)) : Tail(s)[i] = s[i + 1]
OBVIOUS

\* A denomination is a number of client identifiers and then a token.
LEMMA DenomShape ==
    ASSUME NEW d
    PROVE  d \in Denoms <=>
             /\ d \in Seq(Hop) /\ Len(d) \in 1..(MaxHops + 1) /\ d[Len(d)] \in Tokens
             /\ \A i \in 1..(Len(d) - 1) : d[i] \in ClientIds
<1>0. MaxHops \in Nat
  BY TransferAssumption, Zenon 
<1>1. ASSUME d \in Denoms
      PROVE  /\ d \in Seq(Hop) /\ Len(d) \in 1..(MaxHops + 1) /\ d[Len(d)] \in Tokens
             /\ \A i \in 1..(Len(d) - 1) : d[i] \in ClientIds
  <2>0. PICK hops \in Paths, t \in Tokens : d = hops \o <<t>>
    BY <1>1, Zenon DEF Denoms
  <2>1. PICK n \in 0..MaxHops : hops \in [1..n -> ClientIds]
    BY Zenon DEF Paths
  <2>2. n \in Nat /\ hops \in Seq(Hop) /\ Len(hops) = n /\ \A i \in 1..n : hops[i] \in ClientIds
    BY <1>0, <2>1, Listed DEF Hop
  <2>3. <<t>> \in Seq(Hop) /\ Len(<<t>>) = 1 /\ <<t>>[1] = t
    BY DEF Hop
  <2>4. /\ d \in Seq(Hop) /\ Len(d) = n + 1
        /\ \A i \in 1..(n + 1) : d[i] = IF i <= n THEN hops[i] ELSE <<t>>[i - n]
    <3> HIDE <2>0
    <3> DEFINE u == <<t>>
    <3>1. u \in Seq(Hop) /\ Len(u) = 1
      BY <2>3, Zenon 
    <3> HIDE DEF u
    <3>2. /\ hops \o u \in Seq(Hop) /\ Len(hops \o u) = Len(hops) + Len(u)
          /\ \A i \in 1..(Len(hops) + Len(u)) :
                (hops \o u)[i] = IF i <= Len(hops) THEN hops[i] ELSE u[i - Len(hops)]
      BY <2>2, <3>1, Joined, Zenon 
    <3>3. QED
      BY <2>0, <2>1, <2>2, <3>1, <3>2, Zenon DEF u
  <2>5. d[n + 1] = t
    BY <2>2, <2>3, <2>4
  <2>6. \A i \in 1..n : d[i] \in ClientIds
    BY <2>2, <2>4
  <2>7. QED
    BY <1>0, <2>1, <2>2, <2>4, <2>5, <2>6
<1>2. ASSUME d \in Seq(Hop), Len(d) \in 1..(MaxHops + 1), d[Len(d)] \in Tokens,
             \A i \in 1..(Len(d) - 1) : d[i] \in ClientIds
      PROVE  d \in Denoms
  <2> DEFINE n == Len(d) - 1
             hops == [i \in 1..n |-> d[i]]
             u == <<d[Len(d)]>>
  <2>1. n \in 0..MaxHops /\ n \in Nat /\ Len(d) = n + 1
    BY <1>0, <1>2
  <2>2. hops \in Paths
    BY <1>2, <2>1 DEF Paths
  <2>3. hops \in Seq(Hop) /\ Len(hops) = n /\ \A i \in 1..n : hops[i] = d[i]
    <3>1. \A i \in 1..n : d[i] \in Hop
      BY <1>2, Zenon DEF Hop
    <3>2. hops \in Seq(Hop)
      BY <2>1, <3>1, Listed
    <3>3. QED
      BY <2>1, <3>2
  <2>4. u \in Seq(Hop) /\ Len(u) = 1 /\ u[1] = d[Len(d)]
    BY <1>2 DEF Hop
  <2>5. d = hops \o u
    <3> HIDE DEF hops, u, n
    <3>1. /\ hops \o u \in Seq(Hop) /\ Len(hops \o u) = Len(hops) + Len(u)
          /\ \A i \in 1..(Len(hops) + Len(u)) :
                (hops \o u)[i] = IF i <= Len(hops) THEN hops[i] ELSE u[i - Len(hops)]
      BY <2>3, <2>4, Joined, Zenon 
    <3>2. \A i \in 1..Len(d) : d[i] = (hops \o u)[i]
      BY <2>1, <2>3, <2>4, <3>1
    <3>3. Len(d) = Len(hops \o u)
      BY <2>1, <2>3, <2>4, <3>1, Zenon 
    <3>4. QED
      BY <1>2, <3>1, <3>2, <3>3, SameList, Zenon 
  <2>6. d \in {hops \o <<t>> : t \in Tokens}
    BY <1>2, <2>5, Zenon 
  <2>7. QED
    <3> HIDE DEF hops
    <3> QED BY <2>2, <2>6, Zenon DEF Denoms
<1>3. QED
  BY <1>1, <1>2, Zenon 

\* What is used of a denomination.
LEMMA DenomFacts ==
    ASSUME NEW d \in Denoms
    PROVE  /\ Len(d) \in Nat /\ Len(d) >= 1 /\ Head(d) = d[1]
           /\ Len(d) = 1 => d[1] = origin(d) /\ Head(d) \notin ClientIds
           /\ Len(d) > 1 => Head(d) \in ClientIds /\ Head(d) \notin Tokens
           /\ Len(d) > 1 => Tail(d) \in Denoms /\ origin(Tail(d)) = origin(d)
<1>1. /\ d \in Seq(Hop) /\ Len(d) \in 1..(MaxHops + 1) /\ d[Len(d)] \in Tokens
      /\ \A i \in 1..(Len(d) - 1) : d[i] \in ClientIds
  BY DenomShape, Zenon 
<1>2. MaxHops \in Nat /\ Tokens \cap ClientIds = {}
  BY TransferAssumption, Zenon 
<1>3. Len(d) \in Nat /\ Len(d) >= 1 /\ Head(d) = d[1]
  BY <1>1, <1>2
<1>4. Len(d) = 1 => d[1] = origin(d) /\ Head(d) \notin ClientIds
  BY <1>1, <1>2, <1>3, Zenon DEF origin
<1>5. Len(d) > 1 => Head(d) \in ClientIds /\ Head(d) \notin Tokens
  BY <1>1, <1>2, <1>3
<1>6. ASSUME Len(d) > 1 PROVE Tail(d) \in Denoms /\ origin(Tail(d)) = origin(d)
  <2>1. d # << >>
    BY <1>3
  <2>2. /\ Tail(d) \in Seq(Hop) /\ Len(Tail(d)) = Len(d) - 1
        /\ \A i \in 1..Len(Tail(d)) : Tail(d)[i] = d[i + 1]
    BY <1>1, <2>1, Rest, Zenon 
  <2>3. Len(Tail(d)) \in 1..(MaxHops + 1)
    BY <1>1, <1>2, <1>6, <2>2
  <2>4. Tail(d)[Len(Tail(d))] = d[Len(d)]
    BY <1>3, <1>6, <2>2
  <2>5. \A i \in 1..(Len(Tail(d)) - 1) : Tail(d)[i] \in ClientIds
    BY <1>1, <1>3, <2>2
  <2>6. QED
    BY <1>1, <2>2, <2>3, <2>4, <2>5, DenomShape, Zenon DEF origin
<1>7. QED
  BY <1>3, <1>4, <1>5, <1>6, Zenon 

\* A voucher adds one hop, which the sender of the voucher undoes.
LEMMA VoucherFacts ==
    ASSUME NEW d \in Denoms, NEW e \in Endpoints
    PROVE  /\ Head(voucher(e, d)) = Id(e) /\ Tail(voucher(e, d)) = d
           /\ Len(voucher(e, d)) > 1 /\ origin(voucher(e, d)) = origin(d)
<1>1. d \in Seq(Hop) /\ Len(d) \in Nat /\ Len(d) >= 1
  BY DenomShape, DenomFacts, Zenon 
<1>2. Id(e) \in Hop
  BY TransferAssumption, Zenon DEF Id, Hop
<1> DEFINE u == <<Id(e)>>
<1>3. u \in Seq(Hop) /\ Len(u) = 1 /\ u[1] = Id(e)
  BY <1>2
<1>4. voucher(e, d) = u \o d
  BY Zenon DEF voucher
<1> HIDE DEF u
<1>5. /\ u \o d \in Seq(Hop) /\ Len(u \o d) = 1 + Len(d)
      /\ \A i \in 1..(1 + Len(d)) : (u \o d)[i] = IF i <= 1 THEN u[i] ELSE d[i - 1]
  <2>1. /\ u \o d \in Seq(Hop) /\ Len(u \o d) = Len(u) + Len(d)
        /\ \A i \in 1..(Len(u) + Len(d)) : (u \o d)[i] = IF i <= Len(u) THEN u[i] ELSE d[i - Len(u)]
    BY <1>1, <1>3, Joined, Zenon 
  <2>2. QED
    BY <1>3, <2>1, Zenon 
<1> DEFINE v == u \o d
<1> HIDE DEF v
<1>6. /\ v \in Seq(Hop) /\ Len(v) = 1 + Len(d)
      /\ \A i \in 1..(1 + Len(d)) : v[i] = IF i <= 1 THEN u[i] ELSE d[i - 1]
  BY <1>5, Zenon DEF v
<1>7. Head(v) = Id(e)
  BY <1>1, <1>3, <1>6
<1>8. v # << >> /\ Len(v) > 1
  BY <1>1, <1>6
<1>9. /\ Tail(v) \in Seq(Hop) /\ Len(Tail(v)) = Len(v) - 1
      /\ \A i \in 1..Len(Tail(v)) : Tail(v)[i] = v[i + 1]
  BY <1>6, <1>8, Rest, Zenon 
<1>10. Tail(v) = d
  <2>1. Len(Tail(v)) = Len(d) /\ \A i \in 1..Len(Tail(v)) : Tail(v)[i] = d[i]
    BY <1>1, <1>6, <1>9
  <2>2. QED
    BY <1>1, <1>9, <2>1, SameList, Zenon 
<1>11. v[Len(v)] = d[Len(d)]
  BY <1>1, <1>6
<1>12. QED
  BY <1>4, <1>7, <1>8, <1>10, <1>11, Zenon DEF v, origin

\* A denomination that starts with the client of e is a voucher of e.
LEMMA PrefixFacts ==
    ASSUME NEW d \in Denoms, NEW e \in Endpoints, hasPrefix(d, Id(e))
    PROVE  Len(d) > 1 /\ Tail(d) \in Denoms /\ d = voucher(e, Tail(d))
<1>1. Head(d) \in ClientIds /\ Head(d) = Id(e)
  BY TransferAssumption DEF Id, hasPrefix
<1>2. Len(d) > 1 /\ Tail(d) \in Denoms
  <2>1. /\ Len(d) \in Nat /\ Len(d) >= 1 /\ Len(d) # 1
        /\ Len(d) > 1 => Tail(d) \in Denoms
    BY <1>1, DenomFacts, Zenon
  <2> DEFINE n == Len(d)
  <2> HIDE DEF n
  <2>2. n \in Nat /\ n >= 1 /\ n # 1
    BY <2>1, Zenon DEF n
  <2>3. n > 1
    BY ONLY <2>2
  <2>4. QED
    BY <2>1, <2>3, Zenon DEF n
<1>3. d \in Seq(Hop) /\ Tail(d) \in Seq(Hop)
  BY <1>2, DenomShape, Zenon 
<1> DEFINE t == Tail(d)
<1>4. /\ Head(voucher(e, t)) = Head(d) /\ Tail(voucher(e, t)) = Tail(d)
  BY <1>1, <1>2, VoucherFacts, Zenon 
<1>5. d = <<Head(d)>> \o Tail(d)
  <2>1. d # << >>
    BY <1>2
  <2>2. QED
    BY <1>3, <2>1
<1>6. QED
  BY <1>1, <1>2, <1>5, Zenon DEF voucher

-----------------------------------------------------------------------------
(* The terms of owed, and what a transfer does to them. *)

\* A chain and an identifier determine a client.
LEMMA SameEndpoint ==
    ASSUME NEW e \in Endpoints, NEW f \in Endpoints, Host(e) = Host(f), Id(e) = Id(f)
    PROVE  e = f
BY TransferAssumption DEF Host, Id

\* A client is on a chain, and so is its counterparty, whose escrow holds tokens.
LEMMA EndpointFacts ==
    ASSUME NEW e \in Endpoints
    PROVE  /\ Host(e) \in Chains /\ Id(e) \in ClientIds /\ Counterparty[e] \in Endpoints
           /\ Counterparty[Counterparty[e]] = e /\ e \in HoldersOn(Host(e)) /\ e \in Holders
BY TransferAssumption, Zenon DEF Host, Id, HoldersOn, Holders

\* What a transfer does to every balance.
LEMMA Transfer ==
    ASSUME balance \in [Chains -> [Denoms -> [Holders -> Nat]]],
           NEW c \in Chains, NEW d \in Denoms, NEW h \in Holders, NEW k \in Holders,
           NEW a \in Int, NEW b \in Int, transfer(c, d, h, a, k, b)
    PROVE  /\ balance' \in [Chains -> [Denoms -> [Holders -> Int]]]
           /\ \A x \in Chains, y \in Denoms : \A z \in Holders :
                balance'[x][y][z] = balance[x][y][z] +
                  IF x = c /\ y = d THEN (IF z = h THEN 0 - a ELSE 0) + (IF z = k THEN b ELSE 0) ELSE 0
<1> DEFINE b1 == [balance EXCEPT ![c][d][h] = @ - a]
<1>1. b1 \in [Chains -> [Denoms -> [Holders -> Int]]]
  OBVIOUS
<1>2. \A x \in Chains, y \in Denoms : \A z \in Holders :
        b1[x][y][z] = IF x = c /\ y = d /\ z = h THEN balance[c][d][h] - a ELSE balance[x][y][z]
  BY Zenon
<1>3. balance' = [b1 EXCEPT ![c][d][k] = @ + b]
  BY Zenon DEF transfer
<1> HIDE DEF b1
<1>4. balance' \in [Chains -> [Denoms -> [Holders -> Int]]]
  BY <1>1, <1>3
<1>5. \A x \in Chains, y \in Denoms : \A z \in Holders :
        balance'[x][y][z] = IF x = c /\ y = d /\ z = k THEN b1[c][d][k] + b ELSE b1[x][y][z]
  BY <1>1, <1>3
<1>6. ASSUME NEW x \in Chains, NEW y \in Denoms, NEW z \in Holders
      PROVE  balance'[x][y][z] = balance[x][y][z] +
               IF x = c /\ y = d THEN (IF z = h THEN 0 - a ELSE 0) + (IF z = k THEN b ELSE 0) ELSE 0
  <2>1. balance[x][y][z] \in Int
    OBVIOUS
  <2>2. balance'[x][y][z] = IF x = c /\ y = d /\ z = k THEN b1[x][y][z] + b ELSE b1[x][y][z]
    BY <1>5, Zenon 
  <2>3. b1[x][y][z] = IF x = c /\ y = d /\ z = h THEN balance[x][y][z] - a ELSE balance[x][y][z]
    BY <1>2, Zenon 
  <2> QED
    BY ONLY <2>1, <2>2, <2>3, a \in Int, b \in Int
<1>7. QED
  BY <1>4, <1>6, Zenon 

\* A total supply is a number.
LEMMA SupplyNat ==
    ASSUME balance \in Balances, NEW x \in Chains, NEW y
    PROVE  totalSupply(x, y) \in Nat
<1>1. CASE y \in Denoms
  <2> DEFINE f == balance[x][y]
  <2>1. f \in [Holders -> Nat]
    BY <1>1, Zenon DEF Balances
  <2>2. IsFiniteSet(Holders)
    BY TransferAssumption, Zenon DEF Holders
  <2>3. totalSupply(x, y) = SumFunctionOnSet(f, DOMAIN f)
    BY <1>1, Zenon DEF totalSupply, SumFunction
  <2> HIDE DEF f
  <2>4. DOMAIN f = Holders /\ \A h \in Holders : f[h] \in Nat
    BY <2>1, Zenon 
  <2>5. SumFunctionOnSet(f, Holders) \in Nat
    BY ONLY <2>2, <2>4, SumNat, Zenon 
  <2>6. QED
    BY <2>3, <2>4, <2>5, Zenon 
<1>2. CASE y \notin Denoms
  BY <1>2, Zenon DEF totalSupply
<1>3. QED
  BY <1>1, <1>2, Zenon 

\* A mint, a burn or a transfer changes one total supply.
LEMMA SupplyStep ==
    ASSUME balance \in Balances,
           NEW c \in Chains, NEW d \in Denoms, NEW h \in Holders, NEW k \in Holders,
           NEW a \in Int, NEW b \in Int, transfer(c, d, h, a, k, b)
    PROVE  Supplies(c, d, b - a)
<1>1. /\ balance' \in [Chains -> [Denoms -> [Holders -> Int]]]
      /\ \A x \in Chains, y \in Denoms : \A z \in Holders :
           balance'[x][y][z] = balance[x][y][z] +
             IF x = c /\ y = d THEN (IF z = h THEN 0 - a ELSE 0) + (IF z = k THEN b ELSE 0) ELSE 0
  BY Transfer DEF Balances
<1>2. SUFFICES ASSUME NEW x \in Chains, NEW y
               PROVE  totalSupply(x, y)' = totalSupply(x, y) + IF x = c /\ y = d THEN b - a ELSE 0
  BY Zenon DEF Supplies
<1>3. CASE y \notin Denoms
  BY <1>3 DEF totalSupply
<1>4. CASE y \in Denoms
  <2> DEFINE f == balance[x][y]
             g == balance'[x][y]
  <2>1. f \in [Holders -> Nat] /\ g \in [Holders -> Int]
    BY <1>1, <1>4, ZenonT(40) DEF Balances
  <2>2. IsFiniteSet(Holders)
    BY TransferAssumption, Zenon DEF Holders
  <2>3. totalSupply(x, y) = SumFunctionOnSet(f, DOMAIN f) /\ totalSupply(x, y)' = SumFunctionOnSet(g, DOMAIN g)
    BY <1>4, Zenon DEF totalSupply, SumFunction
  <2>4. \A z \in Holders : g[z] = f[z] +
             IF x = c /\ y = d THEN (IF z = h THEN 0 - a ELSE 0) + (IF z = k THEN b ELSE 0) ELSE 0
    BY <1>1, <1>4, Zenon 
  <2> HIDE DEF f, g
  <2>5. DOMAIN f = Holders /\ DOMAIN g = Holders /\ \A z \in Holders : f[z] \in Int /\ g[z] \in Int
    BY ONLY <2>1, SMTT(40)
  <2>6. SumFunctionOnSet(f, Holders) \in Int
    BY ONLY <2>2, <2>5, SumInt, Zenon 
  <2>7. CASE x = c /\ y = d
    <3>1. \A z \in Holders \ {h, k} : f[z] = g[z]
      BY ONLY <2>4, <2>5, SMTT(40)
    <3>2. g[h] + g[k] = f[h] + f[k] + (IF h = k THEN 2 * (b - a) ELSE b - a)
      BY ONLY h \in Holders, k \in Holders, a \in Int, b \in Int, <2>4, <2>5, <2>7, SMTT(40)
    <3> DEFINE m == b - a
    <3>3. m \in Int /\ g[h] + g[k] = f[h] + f[k] + (IF h = k THEN 2 * m ELSE m)
      BY <3>2
    <3> HIDE DEF m
    <3>4. SumFunctionOnSet(g, Holders) = SumFunctionOnSet(f, Holders) + m
      BY ONLY SMTT(40), <2>2, <2>5, <3>1, <3>3, h \in Holders, k \in Holders, SumShift
    <3>5. QED
      BY <2>3, <2>5, <2>7, <3>4, Zenon DEF m
  <2>8. CASE ~(x = c /\ y = d)
    <3>1. \A z \in Holders : f[z] = g[z]
      BY SMTT(40), <2>4, <2>5, <2>8
    <3>2. SumFunctionOnSet(f, Holders) = SumFunctionOnSet(g, Holders)
      BY ONLY <2>2, <3>1, SumSame, Zenon 
    <3>3. QED
      BY SMTT(40), <2>3, <2>5, <2>6, <2>8, <3>2
  <2>9. QED
    BY <2>7, <2>8, Zenon 
<1>5. QED
  BY <1>3, <1>4, Zenon 

\* A transfer in flight has an amount.
LEMMA OwingNat ==
    ASSUME TypeOK, NEW x \in Endpoints, NEW y, NEW r \in SequenceNumbers
    PROVE  owing(x, y, r) \in Nat
<1>1. packets[x][r] \in PacketData \cup {NoPacket}
  BY DEF TypeOK
<1>2. packets[x][r].amount \in Nat
  <2>1. CASE packets[x][r] \in PacketData
    <3>1. packets[x][r].amount \in Amounts
      BY <2>1, Zenon DEF PacketData
    <3>2. QED
      BY <3>1, TransferAssumption, Zenon 
  <2>2. CASE packets[x][r] = NoPacket
    BY <2>2 DEF NoPacket
  <2>3. QED
    BY <1>1, <2>1, <2>2, Zenon 
<1>3. QED
  BY <1>2, Zenon DEF owing

\* What is in flight is a number, at least that of each packet.
LEMMA FlightNat ==
    ASSUME TypeOK, NEW x \in Endpoints, NEW y
    PROVE  inFlight(x, y) \in Nat /\ \A r \in SequenceNumbers : owing(x, y, r) <= inFlight(x, y)
<1> DEFINE f == [s \in SequenceNumbers |-> owing(x, y, s)]
<1>1. IsFiniteSet(SequenceNumbers)
  BY TransferAssumption, Zenon 
<1>2. DOMAIN f = SequenceNumbers /\ \A s \in SequenceNumbers : f[s] \in Nat /\ f[s] = owing(x, y, s)
  BY OwingNat, Zenon 
<1>3. inFlight(x, y) = SumFunctionOnSet(f, DOMAIN f)
  BY Zenon DEF inFlight, SumFunction
<1> HIDE DEF f
<1>4. SumFunctionOnSet(f, SequenceNumbers) \in Nat
  BY ONLY <1>1, <1>2, SumNat, Zenon 
<1>5. \A s \in SequenceNumbers : f[s] <= SumFunctionOnSet(f, SequenceNumbers)
  BY ONLY <1>1, <1>2, SumMember, Zenon 
<1>6. QED
  BY <1>2, <1>3, <1>4, <1>5, Zenon 

\* One packet begins or ceases to be owing.
LEMMA FlightStep ==
    ASSUME TypeOK, NEW e \in Endpoints, NEW d, NEW s \in SequenceNumbers, NEW k \in Int,
           \A x \in Endpoints, r \in SequenceNumbers : \A y :
              owing(x, y, r)' = owing(x, y, r) + IF x = e /\ y = d /\ r = s THEN k ELSE 0
    PROVE  Flights(e, d, k)
<1>1. SUFFICES ASSUME NEW x \in Endpoints, NEW y
               PROVE  inFlight(x, y)' = inFlight(x, y) + IF x = e /\ y = d THEN k ELSE 0
  BY Zenon DEF Flights
<1> DEFINE f == [r \in SequenceNumbers |-> owing(x, y, r)]
           g == [r \in SequenceNumbers |-> owing(x, y, r)']
<1>2. IsFiniteSet(SequenceNumbers)
  BY TransferAssumption, Zenon 
<1>3. inFlight(x, y) = SumFunctionOnSet(f, DOMAIN f) /\ inFlight(x, y)' = SumFunctionOnSet(g, DOMAIN g)
  BY Zenon DEF inFlight, SumFunction
<1>4. \A r \in SequenceNumbers : f[r] \in Nat /\ g[r] = f[r] + IF x = e /\ y = d /\ r = s THEN k ELSE 0
  BY OwingNat, Zenon 
<1>5. DOMAIN f = SequenceNumbers /\ DOMAIN g = SequenceNumbers
  BY Zenon
<1> HIDE DEF f, g
<1>6. \A r \in SequenceNumbers : f[r] \in Int /\ g[r] \in Int
  BY <1>4
<1>7. SumFunctionOnSet(f, SequenceNumbers) \in Int
  BY ONLY <1>2, <1>6, SumInt, Zenon 
<1>8. \A r \in SequenceNumbers \ {s} : f[r] = g[r]
  BY <1>4
<1>9. SumFunctionOnSet(g, SequenceNumbers) = SumFunctionOnSet(f, SequenceNumbers) - f[s] + g[s]
  BY ONLY SMTT(40), <1>2, <1>6, <1>8, s \in SequenceNumbers, SumChange
<1>10. f[s] \in Int /\ g[s] = f[s] + IF x = e /\ y = d THEN k ELSE 0
  BY <1>4
<1>11. QED
  BY SMTT(40), <1>3, <1>5, <1>7, <1>9, <1>10

-----------------------------------------------------------------------------
(* The ways in which a step changes several terms and keeps escrows backed. *)

\* The cases of owed.
LEMMA OwedIs ==
    ASSUME NEW x \in Endpoints, NEW y
    PROVE  /\ owed(x, y) = IF hasPrefix(y, Id(x)) THEN 0
              ELSE totalSupply(Host(Counterparty[x]), backing(x, y)) + inFlight(x, y)
                     + inFlight(Counterparty[x], backing(x, y))
           /\ owed(x, y)' = IF hasPrefix(y, Id(x)) THEN 0
              ELSE totalSupply(Host(Counterparty[x]), backing(x, y))' + inFlight(x, y)'
                     + inFlight(Counterparty[x], backing(x, y))'
BY Zenon DEF owed, backing

\* An escrow backs one voucher with each denomination.
LEMMA BackingFacts ==
    ASSUME NEW x \in Endpoints, NEW y \in Denoms, NEW e \in Endpoints, NEW d \in Denoms
    PROVE  /\ Host(Counterparty[x]) = Host(Counterparty[e]) /\ backing(x, y) = backing(e, d) => x = e /\ y = d
           /\ Counterparty[x] = e /\ backing(x, y) = d => hasPrefix(d, Id(e)) /\ y = Tail(d)
           /\ Host(Counterparty[x]) = Host(e) /\ hasPrefix(d, Id(e)) /\ backing(x, y) = d => Counterparty[x] = e
<1>1. /\ Head(backing(x, y)) = Id(Counterparty[x]) /\ Tail(backing(x, y)) = y
      /\ Head(backing(e, d)) = Id(Counterparty[e]) /\ Tail(backing(e, d)) = d
  BY EndpointFacts, VoucherFacts, Zenon DEF backing
<1>2. Counterparty[x] \in Endpoints /\ Counterparty[e] \in Endpoints
  BY EndpointFacts, Zenon 
<1>3. Host(Counterparty[x]) = Host(Counterparty[e]) /\ backing(x, y) = backing(e, d) => x = e /\ y = d
  <2> SUFFICES ASSUME Host(Counterparty[x]) = Host(Counterparty[e]), backing(x, y) = backing(e, d)
               PROVE  x = e /\ y = d
    BY Zenon
  <2>1. Id(Counterparty[x]) = Id(Counterparty[e]) /\ y = d
    BY <1>1, Zenon 
  <2>2. Counterparty[x] = Counterparty[e]
    BY <1>2, <2>1, SameEndpoint, Zenon 
  <2>3. QED
    BY <2>1, <2>2, EndpointFacts, Zenon 
<1>4. Counterparty[x] = e /\ backing(x, y) = d => hasPrefix(d, Id(e)) /\ y = Tail(d)
  BY <1>1, Zenon DEF hasPrefix
<1>5. Host(Counterparty[x]) = Host(e) /\ hasPrefix(d, Id(e)) /\ backing(x, y) = d => Counterparty[x] = e
  BY <1>1, <1>2, SameEndpoint, Zenon DEF hasPrefix
<1>6. QED
  BY <1>3, <1>4, <1>5, Zenon 

\* The escrow of e takes in (k > 0) or pays back (k < 0) tokens of a packet that it sends.
LEMMA Escrowed ==
    ASSUME Backed, Counts, NEW e \in Endpoints, NEW d \in Denoms, NEW k \in Int, ~hasPrefix(d, Id(e)),
           Nets(e, d, k), Supplies(Host(e), d, 0), Flights(e, d, k)
    PROVE  Backed'
<1>1. SUFFICES ASSUME NEW x \in Endpoints, NEW y \in Denoms
               PROVE  net(x, y)' = owed(x, y)'
  BY Zenon DEF Backed
<1> DEFINE f == Counterparty[x]
           v == backing(x, y)
<1>2. f \in Endpoints /\ Host(f) \in Chains
  BY EndpointFacts, Zenon 
<1>3. ~(f = e /\ v = d)
  BY BackingFacts, Zenon 
<1>4. /\ net(x, y) = owed(x, y)
      /\ net(x, y)' = net(x, y) + IF x = e /\ y = d THEN k ELSE 0
  BY Zenon DEF Backed, Nets
<1>5. /\ totalSupply(Host(f), v) \in Nat /\ inFlight(x, y) \in Nat /\ inFlight(f, v) \in Nat
  BY <1>2, Zenon DEF Counts
<1>6. totalSupply(Host(f), v)' = totalSupply(Host(f), v)
  BY <1>2, <1>5 DEF Supplies
<1>7. /\ inFlight(x, y)' = inFlight(x, y) + IF x = e /\ y = d THEN k ELSE 0
      /\ inFlight(f, v)' = inFlight(f, v)
  BY SMTT(40), <1>2, <1>3, <1>5 DEF Flights
<1>8. /\ owed(x, y) = IF hasPrefix(y, Id(x)) THEN 0
             ELSE totalSupply(Host(f), v) + inFlight(x, y) + inFlight(f, v)
      /\ owed(x, y)' = IF hasPrefix(y, Id(x)) THEN 0
             ELSE totalSupply(Host(f), v)' + inFlight(x, y)' + inFlight(f, v)'
  BY OwedIs, Zenon
<1>9. QED
  BY ONLY k \in Int, ~hasPrefix(d, Id(e)), <1>4, <1>5, <1>6, <1>7, <1>8, SMTT(40)

\* Vouchers of e are burned (k > 0) or minted back (k < 0) for a packet that e sends.
LEMMA Burned ==
    ASSUME Backed, Counts, NEW e \in Endpoints, NEW d \in Denoms, NEW k \in Int, hasPrefix(d, Id(e)),
           Nets(e, d, 0), Supplies(Host(e), d, 0 - k), Flights(e, d, k)
    PROVE  Backed'
<1>1. SUFFICES ASSUME NEW x \in Endpoints, NEW y \in Denoms
               PROVE  net(x, y)' = owed(x, y)'
  BY Zenon DEF Backed
<1> DEFINE f == Counterparty[x]
           v == backing(x, y)
<1>2. f \in Endpoints /\ Host(f) \in Chains
  BY EndpointFacts, Zenon 
<1>3. (Host(f) = Host(e) /\ v = d) <=> (f = e /\ v = d)
  BY BackingFacts, Zenon 
<1>4. /\ net(x, y) = owed(x, y) /\ owed(x, y) \in Nat
      /\ net(x, y)' = net(x, y) + IF x = e /\ y = d THEN 0 ELSE 0
  BY <1>2, OwedIs DEF Backed, Nets, Counts
<1>5. /\ totalSupply(Host(f), v) \in Nat /\ inFlight(x, y) \in Nat /\ inFlight(f, v) \in Nat
  BY <1>2, Zenon DEF Counts
<1>6. totalSupply(Host(f), v)' = totalSupply(Host(f), v) + IF Host(f) = Host(e) /\ v = d THEN 0 - k ELSE 0
  BY <1>2, Zenon DEF Supplies
<1>7. /\ inFlight(x, y)' = inFlight(x, y) + IF x = e /\ y = d THEN k ELSE 0
      /\ inFlight(f, v)' = inFlight(f, v) + IF f = e /\ v = d THEN k ELSE 0
  BY <1>2, Zenon DEF Flights
<1>8. /\ owed(x, y) = IF hasPrefix(y, Id(x)) THEN 0
             ELSE totalSupply(Host(f), v) + inFlight(x, y) + inFlight(f, v)
      /\ owed(x, y)' = IF hasPrefix(y, Id(x)) THEN 0
             ELSE totalSupply(Host(f), v)' + inFlight(x, y)' + inFlight(f, v)'
  BY OwedIs, Zenon
<1>9. QED
  BY ONLY k \in Int, hasPrefix(d, Id(e)), <1>3, <1>4, <1>5, <1>6, <1>7, <1>8, SMTT(40)

\* A packet of e is received by its counterparty, and its vouchers are minted there.
LEMMA Minted ==
    ASSUME Backed, Counts, NEW e \in Endpoints, NEW d \in Denoms, NEW k \in Int, ~hasPrefix(d, Id(e)),
           Nets(Counterparty[e], backing(e, d), 0), Supplies(Host(Counterparty[e]), backing(e, d), k),
           Flights(e, d, 0 - k)
    PROVE  Backed'
<1>1. SUFFICES ASSUME NEW x \in Endpoints, NEW y \in Denoms
               PROVE  net(x, y)' = owed(x, y)'
  BY Zenon DEF Backed
<1> DEFINE f == Counterparty[x]
           v == backing(x, y)
           u == backing(e, d)
           g == Counterparty[e]
<1>2. f \in Endpoints /\ Host(f) \in Chains
  BY EndpointFacts, Zenon 
<1>3. /\ (Host(f) = Host(g) /\ v = u) <=> (x = e /\ y = d)
      /\ ~(f = e /\ v = d)
  <2>1. Host(f) = Host(g) /\ v = u => x = e /\ y = d
    BY ONLY x \in Endpoints, y \in Denoms, e \in Endpoints, d \in Denoms, BackingFacts, SMTT(40)
  <2>2. x = e /\ y = d => Host(f) = Host(g) /\ v = u
    BY Zenon
  <2>3. ~(f = e /\ v = d)
    BY BackingFacts, Zenon
  <2> HIDE DEF f, v, u, g
  <2> QED
    BY <2>1, <2>2, <2>3, Zenon
<1>4. /\ net(x, y) = owed(x, y) /\ owed(x, y) \in Nat
      /\ net(x, y)' = net(x, y) + IF x = g /\ y = u THEN 0 ELSE 0
  BY <1>2, OwedIs DEF Backed, Nets, Counts
<1>5. /\ totalSupply(Host(f), v) \in Nat /\ inFlight(x, y) \in Nat /\ inFlight(f, v) \in Nat
  BY <1>2, Zenon DEF Counts
<1>6. totalSupply(Host(f), v)' = totalSupply(Host(f), v) + IF Host(f) = Host(g) /\ v = u THEN k ELSE 0
  BY <1>2, Zenon DEF Supplies
<1>7. /\ inFlight(x, y)' = inFlight(x, y) + IF x = e /\ y = d THEN 0 - k ELSE 0
      /\ inFlight(f, v)' = inFlight(f, v) + IF f = e /\ v = d THEN 0 - k ELSE 0
  BY <1>2, Zenon DEF Flights
<1>8. /\ owed(x, y) = IF hasPrefix(y, Id(x)) THEN 0
             ELSE totalSupply(Host(f), v) + inFlight(x, y) + inFlight(f, v)
      /\ owed(x, y)' = IF hasPrefix(y, Id(x)) THEN 0
             ELSE totalSupply(Host(f), v)' + inFlight(x, y)' + inFlight(f, v)'
  BY OwedIs, Zenon
<1>9. QED
  BY ONLY k \in Int, ~hasPrefix(d, Id(e)), <1>3, <1>4, <1>5, <1>6, <1>7, <1>8, SMTT(40)

\* A packet of e brings vouchers back, and its counterparty pays from its escrow.
LEMMA Released ==
    ASSUME Backed, Counts, NEW e \in Endpoints, NEW d \in Denoms, NEW k \in Int,
           hasPrefix(d, Id(e)), ~hasPrefix(Tail(d), Id(Counterparty[e])),
           Nets(Counterparty[e], Tail(d), 0 - k), Supplies(Host(Counterparty[e]), Tail(d), 0),
           Flights(e, d, 0 - k)
    PROVE  Backed'
<1>1. SUFFICES ASSUME NEW x \in Endpoints, NEW y \in Denoms
               PROVE  net(x, y)' = owed(x, y)'
  BY Zenon DEF Backed
<1> DEFINE f == Counterparty[x]
           v == backing(x, y)
           g == Counterparty[e]
           t == Tail(d)
<1>2. f \in Endpoints /\ Host(f) \in Chains /\ g \in Endpoints /\ Counterparty[f] = x /\ Counterparty[g] = e
  BY EndpointFacts, Zenon 
<1>3. t \in Denoms /\ d = backing(g, t)
  <2>1. t \in Denoms /\ d = voucher(e, t)
    BY PrefixFacts, Zenon 
  <2>2. QED
    BY <1>2, <2>1, Zenon DEF backing
<1>4. (f = e /\ v = d) <=> (x = g /\ y = t)
  <2>1. ASSUME f = e, v = d PROVE x = g /\ y = t
    BY <1>2, <2>1, BackingFacts
  <2>2. ASSUME x = g, y = t PROVE f = e /\ v = d
    BY <1>2, <1>3, <2>2, Zenon 
  <2>3. QED
    BY <2>1, <2>2, Zenon 
<1>5. /\ net(x, y) = owed(x, y) /\ owed(x, y) \in Nat
      /\ net(x, y)' = net(x, y) + IF x = g /\ y = t THEN 0 - k ELSE 0
  <2>1. net(x, y) = owed(x, y)
    BY Zenon DEF Backed
  <2>2. owed(x, y) \in Nat
    BY <1>2, OwedIs DEF Counts
  <2>3. net(x, y)' = net(x, y) + IF x = g /\ y = t THEN 0 - k ELSE 0
    BY Zenon DEF Nets
  <2>4. QED
    BY <2>1, <2>2, <2>3, Zenon 
<1>6. /\ totalSupply(Host(f), v) \in Nat /\ inFlight(x, y) \in Nat /\ inFlight(f, v) \in Nat
  BY <1>2, Zenon DEF Counts
<1>7. totalSupply(Host(f), v)' = totalSupply(Host(f), v)
  BY <1>2, <1>6 DEF Supplies
<1>8. /\ inFlight(x, y)' = inFlight(x, y) + IF x = e /\ y = d THEN 0 - k ELSE 0
      /\ inFlight(f, v)' = inFlight(f, v) + IF f = e /\ v = d THEN 0 - k ELSE 0
  BY <1>2, Zenon DEF Flights
<1>9. /\ x = g /\ y = t => ~hasPrefix(y, Id(x))
      /\ x = e /\ y = d => hasPrefix(y, Id(x))
  BY Zenon
<1>10. /\ owed(x, y) = IF hasPrefix(y, Id(x)) THEN 0
              ELSE totalSupply(Host(f), v) + inFlight(x, y) + inFlight(f, v)
       /\ owed(x, y)' = IF hasPrefix(y, Id(x)) THEN 0
              ELSE totalSupply(Host(f), v)' + inFlight(x, y)' + inFlight(f, v)'
  BY OwedIs, Zenon 
<1> HIDE DEF f, v, g, t
<1>11. CASE hasPrefix(y, Id(x))
  BY SMTT(40), <1>5, <1>9, <1>10, <1>11
<1>12. CASE ~hasPrefix(y, Id(x))
  BY SMTT(40), <1>4, <1>5, <1>6, <1>7, <1>8, <1>9, <1>10, <1>12
<1>13. QED
  BY <1>11, <1>12, Zenon 

-----------------------------------------------------------------------------
(* Payments, deposits and packets. *)

\* The counter of the rate limit never goes below zero.
LEMMA RateTypes ==
    ASSUME NEW l \in Nat, NEW u \in Nat, NEW a \in Nat
    PROVE  _reduceDailyUsage(l, u, a) \in Nat /\ _assertAndUpdateRateLimit(l, u, a) \in Nat
BY DEF _reduceDailyUsage, _assertAndUpdateRateLimit

\* The numbers kept for an escrow and a denomination.
LEMMA UsageTypes ==
    ASSUME TypeOK, NEW e \in Endpoints, NEW d \in Denoms
    PROVE  /\ rateLimit[e][d] \in Nat /\ usage[e][d] \in Nat /\ gifts[e][d] \in Nat
           /\ \A h \in Holders, c \in Chains : balance[c][d][h] \in Nat
<1>1. rateLimit[e][d] \in Limits \cup {0}
  BY DEF TypeOK
<1>2. rateLimit[e][d] \in Nat
  <2>1. Limits \subseteq Nat
    BY Zenon, TransferAssumption
  <2>2. rateLimit[e][d] \in Limits \/ rateLimit[e][d] = 0
    BY <1>1, Zenon 
  <2>3. QED
    <3>1. CASE rateLimit[e][d] \in Limits
      BY <2>1, <3>1, Zenon
    <3>2. CASE rateLimit[e][d] = 0
      BY <3>2
    <3>3. QED
      BY <2>2, <3>1, <3>2, Zenon 
<1>3. usage[e][d] \in Nat /\ gifts[e][d] \in Nat
  BY Zenon DEF TypeOK
<1>4. \A h \in Holders, c \in Chains : balance[c][d][h] \in Nat
  BY DEF TypeOK
<1>5. QED
  BY <1>2, <1>3, <1>4, Zenon 

\* The escrow of e pays.
LEMMA Payment ==
    ASSUME TypeOK, NEW e \in Endpoints, NEW d \in Denoms, NEW a \in Nat, NEW m \in Nat, m <= a,
           NEW to \in HoldersOn(Host(e)), delivered(d, a) = a, canSend(e, d, m, a), send(e, d, m, to, a)
    PROVE  /\ balance' \in Balances
           /\ usage' \in [Endpoints -> [Denoms -> Nat]]
           /\ gifts' \in [Endpoints -> [Denoms -> Nat]]
           /\ Nets(e, d, m - a) /\ Supplies(Host(e), d, m)
           /\ \A x \in Chains, y \in Denoms : x # Host(e) \/ y # d => balance'[x][y] = balance[x][y]
<1> DEFINE c == Host(e)
<1>1. c \in Chains /\ e \in Holders /\ to \in Holders
  BY EndpointFacts, Zenon DEF HoldersOn, Holders
<1>2. balance \in Balances /\ balance[c][d][e] \in Nat
  BY <1>1 DEF TypeOK, Balances
<1>3. transfer(c, d, e, a - m, to, a)
  BY Zenon DEF send
<1>4. /\ balance' \in [Chains -> [Denoms -> [Holders -> Int]]]
      /\ \A x \in Chains, y \in Denoms : \A z \in Holders :
           balance'[x][y][z] = balance[x][y][z] +
             IF x = c /\ y = d THEN (IF z = e THEN 0 - (a - m) ELSE 0) + (IF z = to THEN a ELSE 0) ELSE 0
  <2> DEFINE b == a - m
  <2>1. b \in Int /\ a \in Int
    OBVIOUS
  <2> HIDE DEF b, c
  <2>2. transfer(c, d, e, b, to, a)
    BY <1>3, Zenon DEF b
  <2>3. /\ balance' \in [Chains -> [Denoms -> [Holders -> Int]]]
      /\ \A x \in Chains, y \in Denoms : \A z \in Holders :
           balance'[x][y][z] = balance[x][y][z] +
             IF x = c /\ y = d THEN (IF z = e THEN 0 - b ELSE 0) + (IF z = to THEN a ELSE 0) ELSE 0
    BY SMTT(40), <1>1, <1>2, <2>1, <2>2, Transfer DEF Balances
  <2>4. QED
    BY <2>3, Zenon DEF b
<1>5. balance[c][d][e] + m >= a
  BY Zenon DEF canSend
<1>6. balance' \in Balances
  <2>1. ASSUME NEW x \in Chains, NEW y \in Denoms, NEW z \in Holders
        PROVE  balance'[x][y][z] \in Nat
    <3>1. balance[x][y][z] \in Nat
      BY <1>2 DEF Balances
    <3>2. balance'[x][y][z] = balance[x][y][z] +
             IF x = c /\ y = d THEN (IF z = e THEN 0 - (a - m) ELSE 0) + (IF z = to THEN a ELSE 0) ELSE 0
      BY <1>4, Zenon 
    <3>3. CASE x = c /\ y = d /\ z = e
      BY SMTT(40), <1>5, <3>1, <3>2, <3>3
    <3>4. CASE ~(x = c /\ y = d /\ z = e)
      BY SMTT(40), <3>1, <3>2, <3>4
    <3>5. QED
      BY <3>3, <3>4, Zenon 
  <2>2. QED
    BY <1>4, <2>1 DEF Balances
<1>7. usage' \in [Endpoints -> [Denoms -> Nat]]
  <2>1. usage' = [usage EXCEPT ![e][d] = _assertAndUpdateRateLimit(rateLimit[e][d], usage[e][d], a)]
    BY Zenon DEF send
  <2>2. _assertAndUpdateRateLimit(rateLimit[e][d], usage[e][d], a) \in Nat
    BY UsageTypes, RateTypes, Zenon 
  <2>3. QED
    BY <2>1, <2>2, Zenon DEF TypeOK
<1>8. /\ gifts' \in [Endpoints -> [Denoms -> Nat]]
      /\ \A x \in Endpoints, y \in Denoms : gifts'[x][y] = gifts[x][y] + IF x = to /\ y = d THEN a ELSE 0
  <2>1. gifts \in [Endpoints -> [Denoms -> Nat]]
    BY Zenon DEF TypeOK
  <2>2. gifts' = IF to \in Endpoints THEN [gifts EXCEPT ![to][d] = gifts[to][d] + a] ELSE gifts
    BY ZenonT(40) DEF send
  <2>3. QED
    BY <2>1, <2>2
<1>9. Nets(e, d, m - a)
  <2> SUFFICES ASSUME NEW x \in Endpoints, NEW y \in Denoms
               PROVE  net(x, y)' = net(x, y) + IF x = e /\ y = d THEN m - a ELSE 0
    BY Zenon DEF Nets
  <2>1. Host(x) \in Chains /\ x \in Holders
    BY EndpointFacts, Zenon 
  <2>2. x = to => Host(x) = c
    BY EndpointFacts, TransferAssumption DEF HoldersOn
  <2>3. balance[Host(x)][y][x] \in Nat /\ gifts[x][y] \in Nat
    BY <2>1, UsageTypes, Zenon 
  <2>4. balance'[Host(x)][y][x] = balance[Host(x)][y][x] +
            IF Host(x) = c /\ y = d THEN (IF x = e THEN 0 - (a - m) ELSE 0) + (IF x = to THEN a ELSE 0) ELSE 0
    BY <1>4, <2>1, Zenon 
  <2>5. gifts'[x][y] = gifts[x][y] + IF x = to /\ y = d THEN a ELSE 0
    BY <1>8, Zenon 
  <2>6. /\ net(x, y) = balance[Host(x)][y][x] - gifts[x][y]
        /\ net(x, y)' = balance'[Host(x)][y][x] - gifts'[x][y]
    BY Zenon DEF net
  <2> DEFINE bx == balance[Host(x)][y][x]
             gx == gifts[x][y]
  <2> HIDE DEF c
  <2>7. a \in Int /\ m \in Int
    OBVIOUS
  <2>8. x = e => Host(x) = c
    BY Zenon DEF c
  <2>9. QED
    BY ONLY <2>2, <2>3, <2>4, <2>5, <2>6, <2>7, <2>8, SMTT(40)
<1>10. Supplies(c, d, m)
  <2> DEFINE b == a - m
  <2>1. b \in Int /\ a \in Int /\ a - b = m
    OBVIOUS
  <2> HIDE DEF b, c
  <2>2. transfer(c, d, e, b, to, a)
    BY <1>3, Zenon DEF b
  <2>3. Supplies(c, d, a - b)
    BY <1>1, <1>2, <2>1, <2>2, SupplyStep, ZenonT(40) 
  <2>4. QED
    BY <2>1, <2>3, Zenon 
<1>11. ASSUME NEW x \in Chains, NEW y \in Denoms, x # Host(e) \/ y # d
       PROVE  balance'[x][y] = balance[x][y]
  <2>1. balance[x][y] \in [Holders -> Nat] /\ balance'[x][y] \in [Holders -> Nat]
    BY <1>2, <1>6, Zenon DEF Balances
  <2>2. \A z \in Holders : balance'[x][y][z] = balance[x][y][z]
    BY SMTT(40), <1>4, <1>11, <2>1
  <2>3. QED
    BY ONLY <2>1, <2>2, SMTT(40)
<1>12. QED
  BY <1>6, <1>7, <1>8, <1>9, <1>10, <1>11, Zenon 

\* The tokens of a packet leave the caller for the escrow of e.
LEMMA Deposit ==
    ASSUME TypeOK, NEW e \in Endpoints, NEW d \in Denoms, NEW a \in Nat, NEW m \in Nat, m <= a,
           NEW caller \in Users, balance[Host(e)][d][caller] >= a,
           transfer(Host(e), d, caller, a, e, a - m), UNCHANGED gifts
    PROVE  /\ balance' \in Balances
           /\ Nets(e, d, a - m) /\ Supplies(Host(e), d, 0 - m)
           /\ \A x \in Chains, y \in Denoms : x # Host(e) \/ y # d => balance'[x][y] = balance[x][y]
<1> DEFINE c == Host(e)
           b == a - m
<1>1. c \in Chains /\ e \in Holders /\ caller \in Holders /\ caller \notin Endpoints
  BY EndpointFacts, TransferAssumption, Zenon DEF Holders
<1>2. balance \in Balances /\ balance[c][d][caller] \in Nat
  BY <1>1 DEF TypeOK, Balances
<1>3. b \in Nat /\ a \in Int /\ b \in Int /\ b - a = 0 - m
  OBVIOUS
<1>4. transfer(c, d, caller, a, e, b) /\ balance[c][d][caller] >= a
  BY Zenon
<1> HIDE DEF c, b
<1>5. /\ balance' \in [Chains -> [Denoms -> [Holders -> Int]]]
      /\ \A x \in Chains, y \in Denoms : \A z \in Holders :
           balance'[x][y][z] = balance[x][y][z] +
             IF x = c /\ y = d THEN (IF z = caller THEN 0 - a ELSE 0) + (IF z = e THEN b ELSE 0) ELSE 0
  BY SMTT(40), <1>1, <1>2, <1>3, <1>4, Transfer DEF Balances
<1>6. balance' \in Balances
  <2>1. ASSUME NEW x \in Chains, NEW y \in Denoms, NEW z \in Holders
        PROVE  balance'[x][y][z] \in Nat
    <3>1. balance[x][y][z] \in Nat
      BY <1>2 DEF Balances
    <3>2. balance'[x][y][z] = balance[x][y][z] +
             IF x = c /\ y = d THEN (IF z = caller THEN 0 - a ELSE 0) + (IF z = e THEN b ELSE 0) ELSE 0
      BY <1>5, Zenon 
    <3>3. CASE x = c /\ y = d /\ z = caller
      BY SMTT(40), <1>1, <1>3, <1>4, <3>1, <3>2, <3>3
    <3>4. CASE ~(x = c /\ y = d /\ z = caller)
      BY SMTT(40), <1>3, <3>1, <3>2, <3>4
    <3>5. QED
      BY <3>3, <3>4, Zenon 
  <2>2. QED
    BY <1>5, <2>1 DEF Balances
<1>7. Nets(e, d, b)
  <2> SUFFICES ASSUME NEW x \in Endpoints, NEW y \in Denoms
               PROVE  net(x, y)' = net(x, y) + IF x = e /\ y = d THEN b ELSE 0
    BY Zenon DEF Nets
  <2>1. Host(x) \in Chains /\ x \in Holders /\ x # caller /\ (x = e => Host(x) = c)
    BY <1>1, EndpointFacts, Zenon DEF c
  <2>2. balance[Host(x)][y][x] \in Nat /\ gifts[x][y] \in Nat
    BY <2>1, UsageTypes, Zenon 
  <2>3. balance'[Host(x)][y][x] = balance[Host(x)][y][x] +
            IF Host(x) = c /\ y = d THEN (IF x = caller THEN 0 - a ELSE 0) + (IF x = e THEN b ELSE 0) ELSE 0
    BY <1>5, <2>1, Zenon 
  <2>4. /\ net(x, y) = balance[Host(x)][y][x] - gifts[x][y]
        /\ net(x, y)' = balance'[Host(x)][y][x] - gifts[x][y]
    BY Zenon DEF net
  <2>5. QED
    BY ONLY <1>3, <2>1, <2>2, <2>3, <2>4, SMTT(40)
<1>8. Supplies(c, d, b - a)
  BY <1>1, <1>2, <1>3, <1>4, SupplyStep, ZenonT(40) 
<1>9. ASSUME NEW x \in Chains, NEW y \in Denoms, x # c \/ y # d
      PROVE  balance'[x][y] = balance[x][y]
  <2>1. balance[x][y] \in [Holders -> Nat] /\ balance'[x][y] \in [Holders -> Nat]
    BY <1>2, <1>6, Zenon DEF Balances
  <2>2. \A z \in Holders : balance'[x][y][z] = balance[x][y][z]
    BY SMTT(40), <1>5, <1>9, <2>1
  <2>3. QED
    BY <2>1, <2>2
<1>10. QED
  BY <1>3, <1>6, <1>7, <1>8, <1>9, Zenon DEF c, b

\* The terms of owed are numbers in every state.
LEMMA CountsOK == ASSUME TypeOK PROVE Counts
BY SupplyNat, FlightNat, Zenon DEF Counts, TypeOK, Balances

\* One packet changes its phase.
LEMMA OnePhase ==
    ASSUME TypeOK, NEW e \in Endpoints, NEW s \in SequenceNumbers, NEW p \in Lifecycle!Phases,
           phase' = [phase EXCEPT ![e][s] = p]
    PROVE  /\ phase' \in [Endpoints -> [SequenceNumbers -> Lifecycle!Phases]]
           /\ phase'[e][s] = p
           /\ \A x \in Endpoints, r \in SequenceNumbers : x # e \/ r # s => phase'[x][r] = phase[x][r]
BY Zenon DEF TypeOK

\* A packet of e is paid or refunded.
LEMMA FlightEnds ==
    ASSUME TypeOK, NEW e \in Endpoints, NEW s \in SequenceNumbers, Pending(e, s),
           NEW p \in {"executed", "refused", "timedOut"}, phase' = [phase EXCEPT ![e][s] = p],
           UNCHANGED packets
    PROVE  Flights(e, packets[e][s].denom, 0 - packets[e][s].amount)
<1> DEFINE d == packets[e][s].denom
           k == 0 - packets[e][s].amount
<1>1. /\ phase'[e][s] = p
      /\ \A x \in Endpoints, r \in SequenceNumbers : x # e \/ r # s => phase'[x][r] = phase[x][r]
  BY Zenon DEF TypeOK
<1>2. owing(e, d, s) = packets[e][s].amount /\ owing(e, d, s) \in Nat
  <2>1. owing(e, d, s) \in Nat
    <3> HIDE DEF d
    <3> QED BY OwingNat, Zenon 
  <2>2. QED
    BY <2>1, Zenon DEF owing
<1>3. k \in Int
  BY <1>2
<1>4. ASSUME NEW x \in Endpoints, NEW r \in SequenceNumbers, NEW y
      PROVE  owing(x, y, r)' = owing(x, y, r) + IF x = e /\ y = d /\ r = s THEN k ELSE 0
  <2>1. owing(x, y, r) \in Nat
    BY OwingNat, Zenon 
  <2>2. CASE x = e /\ r = s
    <3>1. owing(x, y, r)' = 0
      BY <1>1, <2>2, Zenon DEF owing, Pending
    <3>2. owing(x, y, r) = IF y = d THEN packets[e][s].amount ELSE 0
      BY <2>2, Zenon DEF owing
    <3>3. QED
      BY SMTT(40), <1>2, <2>2, <3>1, <3>2
  <2>3. CASE x # e \/ r # s
    <3>1. owing(x, y, r)' = owing(x, y, r)
      BY <1>1, <2>3, Zenon DEF owing, Pending
    <3>2. QED
      BY <2>1, <2>3, <3>1
  <2>4. QED
    BY <2>2, <2>3, Zenon 
<1>5. QED
  <2> HIDE DEF d, k
  <2>1. Flights(e, d, k)
    BY <1>3, <1>4, FlightStep, Zenon 
  <2>2. QED
    BY <2>1, Zenon DEF d, k

\* A packet of e is sent.
LEMMA FlightBegins ==
    ASSUME TypeOK, NEW e \in Endpoints, NEW s \in SequenceNumbers, phase[e][s] = "unsent",
           phase' = [phase EXCEPT ![e][s] = "sent"], NEW p \in PacketData,
           packets' = [packets EXCEPT ![e][s] = p]
    PROVE  Flights(e, p.denom, p.amount)
<1> DEFINE d == p.denom
           k == p.amount
<1>1. /\ phase'[e][s] = "sent"
      /\ \A x \in Endpoints, r \in SequenceNumbers : x # e \/ r # s => phase'[x][r] = phase[x][r]
  BY OnePhase, Zenon DEF Lifecycle!Phases
<1>2. /\ packets'[e][s] = p
      /\ \A x \in Endpoints, r \in SequenceNumbers : x # e \/ r # s => packets'[x][r] = packets[x][r]
  BY Zenon DEF TypeOK
<1>3. k \in Amounts
  BY Zenon DEF PacketData
<1>4. k \in Int
  BY SMTT(40), <1>3, TransferAssumption
<1>5. ASSUME NEW x \in Endpoints, NEW r \in SequenceNumbers, NEW y
      PROVE  owing(x, y, r)' = owing(x, y, r) + IF x = e /\ y = d /\ r = s THEN k ELSE 0
  <2>1. owing(x, y, r) \in Nat
    BY OwingNat, Zenon 
  <2>2. CASE x = e /\ r = s
    <3>1. owing(x, y, r) = 0
      BY <2>2, Zenon DEF owing, Pending
    <3>2. owing(x, y, r)' = IF d = y THEN k ELSE 0
      BY SMTT(40), <1>1, <1>2, <2>2 DEF owing, Pending
    <3>3. QED
      BY SMTT(40), <1>4, <2>2, <3>1, <3>2
  <2>3. CASE x # e \/ r # s
    <3>1. owing(x, y, r)' = owing(x, y, r)
      BY SMTT(40), <1>1, <1>2, <2>3 DEF owing, Pending
    <3>2. QED
      BY SMTT(40), <2>1, <2>3, <3>1
  <2>4. QED
    BY <2>2, <2>3, Zenon 
<1>6. QED
  <2> HIDE DEF d, k
  <2>1. Flights(e, d, k)
    BY <1>4, <1>5, FlightStep, Zenon 
  <2>2. QED
    BY <2>1, Zenon DEF d, k

\* Nothing moves.
LEMMA FlightSame ==
    ASSUME Backed, UNCHANGED <<balance, gifts, packets>>, 
           \A x \in Endpoints, r \in SequenceNumbers : Pending(x, r)' <=> Pending(x, r)
    PROVE  Backed'
<1>1. \A x \in Endpoints : \A y : inFlight(x, y)' = inFlight(x, y)
  <2> SUFFICES ASSUME NEW x \in Endpoints, NEW y
               PROVE  inFlight(x, y)' = inFlight(x, y)
    BY Zenon
  <2> DEFINE f == [r \in SequenceNumbers |-> owing(x, y, r)]
             g == [r \in SequenceNumbers |-> owing(x, y, r)']
  <2>1. \A r \in SequenceNumbers : owing(x, y, r)' = owing(x, y, r)
    BY Zenon DEF owing
  <2>2. f = g
    BY <2>1, Zenon 
  <2>3. inFlight(x, y) = SumFunction(f) /\ inFlight(x, y)' = SumFunction(g)
    BY Zenon DEF inFlight
  <2>4. QED
    BY <2>2, <2>3, Zenon 
<1>2. \A x \in Chains : \A y : totalSupply(x, y)' = totalSupply(x, y)
  BY Zenon DEF totalSupply
<1>3. ASSUME NEW x \in Endpoints, NEW y \in Denoms PROVE net(x, y)' = owed(x, y)'
  <2>1. Counterparty[x] \in Endpoints /\ Host(Counterparty[x]) \in Chains
    BY EndpointFacts, ZenonT(40) 
  <2>2. owed(x, y)' = owed(x, y)
    BY SMTT(40), <1>1, <1>2, <2>1, OwedIs
  <2>3. net(x, y)' = net(x, y)
    BY Zenon DEF net
  <2>4. QED
    BY <2>2, <2>3, Zenon DEF Backed
<1>4. QED
  BY <1>3, Zenon DEF Backed

\* A packet carries a positive amount.
LEMMA AmountFacts ==
    ASSUME NEW a \in Amounts
    PROVE  a \in Nat /\ a > 0
<1>1. Amounts \subseteq Nat \ {0}
  BY Zenon, TransferAssumption
<1>2. a \in Nat \ {0}
  BY <1>1, Zenon 
<1>3. QED
  BY <1>2

\* A token without a fee delivers what is sent, any other token delivers less.
LEMMA DeliveredInFull ==
    ASSUME NEW d \in Denoms, NEW a \in Nat, a > 0
    PROVE  /\ origin(d) \notin FeeTokens => delivered(d, a) = a
           /\ delivered(d, a) = a /\ Len(d) = 1 => origin(d) \notin FeeTokens
<1>1. FeeTokens \subseteq Tokens
  BY Zenon, TransferAssumption
<1>2. /\ Len(d) \in Nat /\ Len(d) >= 1 /\ Head(d) = d[1] /\ (Len(d) = 1 => d[1] = origin(d))
      /\ Len(d) > 1 => Head(d) \notin Tokens
  BY DenomFacts, Zenon 
<1>3. origin(d) \notin FeeTokens => d[1] \notin FeeTokens
  <2>1. CASE Len(d) = 1
    BY <1>2, <2>1, Zenon
  <2>2. CASE Len(d) > 1
    <3>1. d[1] \notin Tokens
      BY <1>2, <2>2, Zenon 
    <3>2. QED
      BY <1>1, <3>1, Zenon 
  <2>3. Len(d) = 1 \/ Len(d) > 1
    <3> DEFINE n == Len(d)
    <3>1. n \in Nat /\ n >= 1
      BY <1>2, Zenon 
    <3> HIDE DEF n
    <3>2. n = 1 \/ n > 1
      BY <3>1
    <3>3. QED
      BY <3>2, Zenon DEF n
  <2>4. QED
    BY <2>1, <2>2, <2>3, Zenon 
<1>4. a - 1 # a
  OBVIOUS
<1>5. QED
  BY <1>2, <1>3, <1>4, Zenon DEF delivered

\* Contracts are never forgotten, so a denomination stays genuine.
LEMMA GenuineStays ==
    ASSUME NEW x, NEW y, contracts[x] \subseteq contracts'[x], Genuine(x, y)
    PROVE  Genuine(x, y)'
BY Zenon DEF Genuine

\* A step gives holders more of at most one denomination, a genuine one.
LEMMA HeldStep ==
    ASSUME Held, NEW c \in Chains, NEW d \in Denoms, Genuine(c, d)',
           \A x \in Chains : contracts[x] \subseteq contracts'[x],
           \A x \in Chains, y \in Denoms : x # c \/ y # d => balance'[x][y] = balance[x][y]
    PROVE  Held'
<1> SUFFICES ASSUME NEW x \in Chains, NEW y \in Denoms, NEW h \in Holders, balance'[x][y][h] > 0
             PROVE  Genuine(x, y)'
  BY Zenon DEF Held
<1>1. CASE x = c /\ y = d
  BY <1>1, Zenon 
<1>2. CASE x # c \/ y # d
  <2>1. balance[x][y][h] > 0
    BY <1>2, Zenon 
  <2>2. Genuine(x, y)
    BY <2>1, Zenon DEF Held
  <2>3. QED
    BY <2>2, GenuineStays, Zenon 
<1>3. QED
  BY <1>1, <1>2, Zenon 

\* A step sends at most one packet, a sound one.
LEMMA CarriedStep ==
    ASSUME Carried, escrows \subseteq escrows',
           \A x \in Chains : contracts[x] \subseteq contracts'[x],
           \A x \in Endpoints, r \in SequenceNumbers : phase'[x][r] # "unsent" =>
              \/ phase[x][r] # "unsent" /\ packets'[x][r] = packets[x][r]
              \/ Sound(x, packets[x][r])'
    PROVE  Carried'
<1> SUFFICES ASSUME NEW x \in Endpoints, NEW r \in SequenceNumbers, phase'[x][r] # "unsent"
             PROVE  Sound(x, packets[x][r])'
  BY Zenon DEF Carried
<1>1. Host(x) \in Chains
  BY EndpointFacts, Zenon 
<1>2. CASE phase[x][r] # "unsent" /\ packets'[x][r] = packets[x][r]
  <2> DEFINE p == packets[x][r]
  <2>1. Sound(x, p)
    BY <1>2, Zenon DEF Carried
  <2>2. Genuine(Host(x), p.denom)'
    <3>1. Genuine(Host(x), p.denom)
      BY <2>1, Zenon DEF Sound
    <3> DEFINE y == p.denom
    <3>2. QED
      BY <1>1, <1>2, <3>1, Zenon DEF Genuine
  <2>3. QED
    BY <1>2, <2>1, <2>2, Zenon DEF Sound
<1>3. CASE Sound(x, packets[x][r])'
  BY <1>3, Zenon 
<1>4. QED
  BY <1>2, <1>3, Zenon 

-----------------------------------------------------------------------------
(* Every step preserves the invariant. *)

\* The hypotheses of a step on packet s of e.
LEMMA SoundFacts ==
    ASSUME IInv, NEW e \in Endpoints, NEW s \in SequenceNumbers, phase[e][s] # "unsent"
    PROVE  /\ Sound(e, packets[e][s])
           /\ packets[e][s].denom \in Denoms /\ packets[e][s].amount \in Nat /\ packets[e][s].amount > 0
<1>1. Sound(e, packets[e][s])
  BY Zenon DEF IInv, Carried
<1>2. packets[e][s].denom \in Denoms /\ packets[e][s].amount \in Amounts
  BY <1>1, Zenon DEF Sound, PacketData
<1>3. QED
  BY <1>1, <1>2, AmountFacts, Zenon 

\* _refundTokens gives back what the packet took.
LEMMA RefundStep ==
    ASSUME IInv, NEW e \in Endpoints, NEW s \in SequenceNumbers, Pending(e, s),
           NEW p \in {"refused", "timedOut"}, phase' = [phase EXCEPT ![e][s] = p],
           _refundTokens(e, packets[e][s]), UNCHANGED <<packets, settings>>
    PROVE  IInv'
<1>0. PICK q : q = packets[e][s]
  BY Zenon
<1> DEFINE d == q.denom
           a == q.amount
           m == IF hasPrefix(d, Id(e)) THEN a ELSE 0
<1>1. TypeOK /\ Held /\ Carried /\ Backed /\ Counts /\ phase[e][s] # "unsent"
  BY CountsOK, Zenon DEF IInv, Pending
<1>2. Sound(e, q) /\ d \in Denoms /\ a \in Nat /\ a > 0
  BY <1>0, <1>1, SoundFacts, Zenon 
<1>3. q.sender \in HoldersOn(Host(e)) /\ origin(d) \notin FeeTokens /\ Genuine(Host(e), d)
  BY <1>2, Zenon DEF Sound
<1>4. m \in Nat /\ m <= a
  BY <1>2
<1>5. canSend(e, d, m, a) /\ send(e, d, m, q.sender, a) /\ UNCHANGED <<contracts, escrows>>
  BY <1>0, Zenon DEF _refundTokens
<1>6. Flights(e, d, 0 - a)
  BY <1>0, <1>1, FlightEnds, Zenon 
<1>7. /\ phase' \in [Endpoints -> [SequenceNumbers -> Lifecycle!Phases]]
      /\ \A x \in Endpoints, r \in SequenceNumbers : phase'[x][r] # "unsent" => phase[x][r] # "unsent"
  <2>1. p \in Lifecycle!Phases
    BY Zenon DEF Lifecycle!Phases
  <2>2. phase \in [Endpoints -> [SequenceNumbers -> Lifecycle!Phases]]
    BY <1>1, Zenon DEF TypeOK
  <2>3. QED
    BY <1>1, <2>1, <2>2, Zenon 
<1>8. UNCHANGED <<packets, paused, rateLimit>>
  BY Zenon DEF settings
<1> HIDE DEF d, a, m
<1>9. delivered(d, a) = a
  BY <1>2, <1>3, DeliveredInFull, Zenon 
<1>10. /\ balance' \in Balances
       /\ usage' \in [Endpoints -> [Denoms -> Nat]]
       /\ gifts' \in [Endpoints -> [Denoms -> Nat]]
       /\ Nets(e, d, m - a) /\ Supplies(Host(e), d, m)
       /\ \A x \in Chains, y \in Denoms : x # Host(e) \/ y # d => balance'[x][y] = balance[x][y]
  <2> DEFINE t == q.sender
  <2>1. t \in HoldersOn(Host(e)) /\ send(e, d, m, t, a)
    BY <1>3, <1>5, Zenon 
  <2> HIDE DEF t
  <2>2. QED
    BY <1>1, <1>2, <1>4, <1>5, <1>9, <2>1, Payment, ZenonT(40) 
<1>11. TypeOK'
  BY <1>1, <1>5, <1>7, <1>8, <1>10, Zenon DEF TypeOK, Balances
<1>12. Host(e) \in Chains /\ Genuine(Host(e), d)'
  <2>1. Host(e) \in Chains
    BY EndpointFacts, Zenon 
  <2>2. QED
    BY <1>3, <1>5, <2>1, Zenon DEF Genuine, d
<1>13. Held'
  BY <1>1, <1>2, <1>5, <1>10, <1>12, HeldStep, Zenon 
<1>14. Carried'
  <2>1. escrows \subseteq escrows' /\ \A x \in Chains : contracts[x] \subseteq contracts'[x]
    BY <1>5, Zenon 
  <2>2. \A x \in Endpoints, r \in SequenceNumbers : phase'[x][r] # "unsent" =>
              phase[x][r] # "unsent" /\ packets'[x][r] = packets[x][r]
    BY <1>7, <1>8, Zenon 
  <2>3. QED
    BY ONLY <1>1, <2>1, <2>2, CarriedStep, Zenon 
<1>15. Backed'
  <2> DEFINE k == 0 - a
  <2>1. k \in Int
    BY <1>2
  <2>2. CASE hasPrefix(d, Id(e))
    <3>1. m = 0 - k /\ m - a = 0
      BY <1>2, <2>2 DEF m, d, a
    <3> HIDE DEF k
    <3>2. Nets(e, d, 0) /\ Supplies(Host(e), d, 0 - k) /\ Flights(e, d, k)
      BY <1>6, <1>10, <3>1, Zenon DEF k
    <3>3. QED
      BY <1>1, <1>2, <2>1, <2>2, <3>2, Burned, ZenonT(40) 
  <2>3. CASE ~hasPrefix(d, Id(e))
    <3>1. m = 0 /\ m - a = k
      BY <1>2, <2>3, Zenon DEF m, d, a
    <3> HIDE DEF k
    <3>2. Nets(e, d, k) /\ Supplies(Host(e), d, 0) /\ Flights(e, d, k)
      BY <1>6, <1>10, <3>1, Zenon DEF k
    <3>3. QED
      BY <1>1, <1>2, <2>1, <2>3, <3>2, Escrowed, ZenonT(40) 
  <2>4. QED
    BY <2>2, <2>3, Zenon 
<1>16. QED
  BY <1>11, <1>13, <1>14, <1>15, Zenon DEF IInv

\* onRecvPacket pays out of the escrow, or mints, what the packet took.
LEMMA ReceiveStep ==
    ASSUME IInv, NEW e \in Endpoints, NEW s \in SequenceNumbers, onRecvPacket(e, s)
    PROVE  IInv'
<1>0. PICK q : q = packets[e][s]
  BY Zenon
<1> DEFINE d == q.denom
           a == q.amount
           f == Counterparty[e]
           v == receivedDenom(e, d)
           m == IF hasPrefix(d, Id(e)) THEN 0 ELSE a
<1>1. /\ phase[e][s] = "sent" /\ phase' = [phase EXCEPT ![e][s] = "executed"]
      /\ q.receiver # NoAddress /\ canSend(f, v, m, a) /\ send(f, v, m, q.receiver, a)
      /\ contracts' = IF hasPrefix(d, Id(e)) THEN contracts
                      ELSE [contracts EXCEPT ![Host(f)] = @ \cup {v}]
      /\ escrows' = escrows \cup {f}
      /\ UNCHANGED <<packets, paused, rateLimit>>
  BY <1>0, Zenon DEF onRecvPacket, onRecvPacketSucceeds, Lifecycle!Advance, _getOrCreateIBCERC20,
              _getOrCreateEscrow, settings
<1>2. TypeOK /\ Held /\ Carried /\ Backed /\ Counts /\ phase[e][s] # "unsent" /\ Pending(e, s)
  BY <1>1, CountsOK, Zenon DEF IInv, Pending
<1>3. Sound(e, q) /\ d \in Denoms /\ a \in Nat /\ a > 0
  BY <1>0, <1>2, SoundFacts, Zenon 
<1>4. /\ q.receiver \in HoldersOn(Host(f)) /\ v \in Denoms
      /\ origin(d) \notin FeeTokens /\ Genuine(Host(e), d)
  BY <1>1, <1>3, Zenon DEF Sound
<1>5. m \in Nat /\ m <= a
  BY <1>3
<1>6. Flights(e, d, 0 - a)
  <2>1. Flights(e, packets[e][s].denom, 0 - packets[e][s].amount)
    BY <1>1, <1>2, FlightEnds, Zenon 
  <2>2. QED
    BY <1>0, <2>1, Zenon 
<1>7. /\ phase' \in [Endpoints -> [SequenceNumbers -> Lifecycle!Phases]]
      /\ \A x \in Endpoints, r \in SequenceNumbers : phase'[x][r] # "unsent" => phase[x][r] # "unsent"
  <2>1. "executed" \in Lifecycle!Phases
    BY Zenon DEF Lifecycle!Phases
  <2>2. phase \in [Endpoints -> [SequenceNumbers -> Lifecycle!Phases]]
    BY <1>2, Zenon DEF TypeOK
  <2>3. QED
    BY <1>1, <1>2, <2>1, <2>2, Zenon 
<1>8. f \in Endpoints /\ Host(f) \in Chains /\ Counterparty[f] = e
  BY EndpointFacts, Zenon 
<1>9. /\ v = IF hasPrefix(d, Id(e)) THEN Tail(d) ELSE voucher(f, d)
      /\ v = IF hasPrefix(d, Id(e)) THEN Tail(d) ELSE backing(e, d)
  BY Zenon DEF receivedDenom, backing
<1>10. origin(v) = origin(d)
  <2>1. CASE hasPrefix(d, Id(e))
    <3>1. Len(d) > 1
      BY <1>3, <2>1, PrefixFacts, Zenon 
    <3>2. QED
      BY <1>3, <1>9, <2>1, <3>1, DenomFacts, Zenon 
  <2>2. CASE ~hasPrefix(d, Id(e))
    BY <1>3, <1>8, <1>9, <2>2, VoucherFacts, Zenon 
  <2>3. QED
    BY <2>1, <2>2, Zenon 
<1>11. /\ contracts' \in [Chains -> SUBSET Denoms]
       /\ \A x \in Chains : contracts[x] \subseteq contracts'[x]
       /\ ~hasPrefix(d, Id(e)) => v \in contracts'[Host(f)]
  <2>1. contracts \in [Chains -> SUBSET Denoms]
    BY <1>2, Zenon DEF TypeOK
  <2> HIDE DEF v, f, d
  <2>2. QED
    BY <1>1, <1>4, <1>8, <2>1, Zenon 
<1> HIDE DEF d, a, m, f, v
<1>12. delivered(v, a) = a
  BY <1>3, <1>4, <1>10, DeliveredInFull, Zenon 
<1>13. /\ balance' \in Balances
       /\ usage' \in [Endpoints -> [Denoms -> Nat]]
       /\ gifts' \in [Endpoints -> [Denoms -> Nat]]
       /\ Nets(f, v, m - a) /\ Supplies(Host(f), v, m)
       /\ \A x \in Chains, y \in Denoms : x # Host(f) \/ y # v => balance'[x][y] = balance[x][y]
  <2> DEFINE t == q.receiver
  <2>1. t \in HoldersOn(Host(f)) /\ send(f, v, m, t, a)
    BY <1>1, <1>4, Zenon 
  <2> HIDE DEF t
  <2>2. QED
    BY <1>1, <1>2, <1>3, <1>4, <1>5, <1>8, <1>12, <2>1, Payment, ZenonT(40) 
<1>14. TypeOK'
  <2>1. escrows' \subseteq Endpoints
    BY <1>1, <1>2, <1>8, Zenon DEF TypeOK
  <2>2. QED
    BY <1>1, <1>2, <1>7, <1>11, <1>13, <2>1, ZenonT(40) DEF TypeOK, Balances
<1>15. Genuine(Host(f), v)'
  <2>1. CASE hasPrefix(d, Id(e))
    <3>1. balance[Host(f)][v][f] >= a /\ balance[Host(f)][v][f] \in Nat /\ f \in Holders
      <4>1. f \in Holders
        BY <1>8, EndpointFacts, Zenon 
      <4>2. balance[Host(f)][v][f] \in Nat
        BY <1>2, <1>4, <1>8, <4>1, UsageTypes, ZenonT(40) 
      <4>3. balance[Host(f)][v][f] + m >= a /\ m = 0
        BY <1>1, <2>1, Zenon DEF canSend, m
      <4>4. QED
        BY SMTT(40), <4>1, <4>2, <4>3
    <3>2. balance[Host(f)][v][f] > 0
      BY SMTT(40), <1>3, <3>1
    <3>3. Genuine(Host(f), v)
      BY <1>2, <1>4, <1>8, <3>1, <3>2, ZenonT(40) DEF Held
    <3>4. QED
      BY <1>8, <1>11, <3>3, GenuineStays, ZenonT(40) 
  <2>2. CASE ~hasPrefix(d, Id(e))
    <3>1. Head(v) = Id(f) /\ Tail(v) = d
      BY <1>3, <1>8, <1>9, <2>2, VoucherFacts, Zenon 
    <3>2. ASSUME NEW x \in Endpoints, Host(x) = Host(f), hasPrefix(v, Id(x))
          PROVE  ~hasPrefix(Tail(v), Id(Counterparty[x]))
      <4>1. x = f
        BY <1>8, <3>1, <3>2, SameEndpoint, Zenon DEF hasPrefix
      <4>2. QED
        BY <1>8, <2>2, <3>1, <4>1, Zenon 
    <3>3. origin(v) \notin FeeTokens /\ v \in contracts'[Host(f)]
      BY <1>4, <1>10, <1>11, <2>2, Zenon 
    <3>4. QED
      BY <3>2, <3>3, Zenon DEF Genuine
  <2>3. QED
    BY <2>1, <2>2, Zenon 
<1>16. Held'
  BY <1>2, <1>4, <1>8, <1>11, <1>13, <1>15, HeldStep, ZenonT(40) 
<1>17. Carried'
  <2>1. escrows \subseteq escrows'
    BY <1>1, Zenon 
  <2>2. \A x \in Endpoints, r \in SequenceNumbers : phase'[x][r] # "unsent" =>
              phase[x][r] # "unsent" /\ packets'[x][r] = packets[x][r]
    BY <1>1, <1>7, Zenon 
  <2>3. QED
    BY ONLY <1>2, <1>11, <2>1, <2>2, CarriedStep, Zenon 
<1>18. Backed'
  <2>0. a \in Int
    BY ONLY <1>3, SMTT(40)
  <2>1. CASE hasPrefix(d, Id(e))
    <3>1. m = 0 /\ m - a = 0 - a /\ v = Tail(d)
      BY <1>3, <1>9, <2>1, Zenon DEF m
    <3>2. ~hasPrefix(Tail(d), Id(Counterparty[e]))
      <4>1. Len(d) > 1
        BY <1>3, <2>1, PrefixFacts, Zenon 
      <4>2. QED
        BY <1>4, <2>1, <4>1, Zenon DEF Genuine
    <3>3. /\ Nets(Counterparty[e], Tail(d), 0 - a) /\ Supplies(Host(Counterparty[e]), Tail(d), 0)
      BY <1>13, <3>1, ZenonT(40) DEF f
    <3>4. QED
      BY <1>2, <1>3, <1>6, <2>0, <2>1, <3>2, <3>3, Released, ZenonT(40)
  <2>2. CASE ~hasPrefix(d, Id(e))
    <3>1. m = a /\ m - a = 0 /\ v = backing(e, d)
      BY SMTT(40), <1>3, <1>9, <2>2 DEF m
    <3>2. /\ Nets(Counterparty[e], backing(e, d), 0) /\ Supplies(Host(Counterparty[e]), backing(e, d), a)
      BY <1>13, <3>1, Zenon DEF f
    <3>3. QED
      BY <1>2, <1>3, <1>6, <2>0, <2>2, <3>2, Minted, ZenonT(40)
  <2>3. QED
    BY <2>1, <2>2, ZenonT(40) 
<1>19. QED
  BY <1>14, <1>16, <1>17, <1>18, ZenonT(40) DEF IInv

\* sendTransfer takes from the caller what the packet carries.
LEMMA SendStep ==
    ASSUME IInv, NEW e \in Endpoints, NEW s \in SequenceNumbers, NEW caller \in Users,
           NEW sender \in HoldersOn(Host(e)), NEW d \in Denoms, NEW a \in Amounts,
           NEW receiver \in HoldersOn(Host(Counterparty[e])) \cup {NoAddress},
           sendTransfer(e, s, caller, sender, d, a, receiver)
    PROVE  IInv'
<1> DEFINE q == [denom |-> d, amount |-> a, sender |-> sender, receiver |-> receiver]
           m == burned(e, d, a)
<1>1. /\ phase[e][s] = "unsent" /\ phase' = [phase EXCEPT ![e][s] = "sent"]
      /\ balance[Host(e)][d][caller] >= a /\ delivered(d, a) = a /\ receivedDenom(e, d) \in Denoms
      /\ transfer(Host(e), d, caller, a, e, delivered(d, a) - m)
      /\ escrows' = escrows \cup {e}
      /\ usage' = [usage EXCEPT ![e][d] = _reduceDailyUsage(rateLimit[e][d], usage[e][d], a)]
      /\ packets' = [packets EXCEPT ![e][s] = q]
      /\ UNCHANGED <<contracts, gifts, paused, rateLimit>>
  BY Zenon DEF sendTransfer, _transferFrom, _getOrCreateEscrow, Lifecycle!Send, Lifecycle!Advance, settings
<1>2. TypeOK /\ Held /\ Carried /\ Backed /\ Counts
  BY CountsOK, Zenon DEF IInv
<1>3. a \in Nat /\ a > 0
  BY AmountFacts, Zenon 
<1>4. m \in Nat /\ m <= a /\ m = IF hasPrefix(d, Id(e)) THEN a ELSE 0
  BY <1>3 DEF burned
<1>5. sender \in Holders /\ receiver \in Holders \cup {NoAddress}
  BY Zenon DEF HoldersOn, Holders
<1>6. q \in PacketData /\ q.denom = d /\ q.amount = a /\ q.sender = sender /\ q.receiver = receiver
  BY <1>5, Zenon DEF PacketData
<1> HIDE DEF q, m
<1>7. Flights(e, d, a)
  <2>1. Flights(e, q.denom, q.amount)
    BY <1>1, <1>2, <1>6, FlightBegins, Zenon 
  <2>2. QED
    BY <1>6, <2>1, Zenon 
<1>8. /\ balance' \in Balances
      /\ Nets(e, d, a - m) /\ Supplies(Host(e), d, 0 - m)
      /\ \A x \in Chains, y \in Denoms : x # Host(e) \/ y # d => balance'[x][y] = balance[x][y]
  BY <1>1, <1>2, <1>3, <1>4, Deposit, ZenonT(40) 
<1>9. phase' \in [Endpoints -> [SequenceNumbers -> Lifecycle!Phases]]
  <2>1. "sent" \in Lifecycle!Phases
    BY Zenon DEF Lifecycle!Phases
  <2>2. phase \in [Endpoints -> [SequenceNumbers -> Lifecycle!Phases]]
    BY <1>2, Zenon DEF TypeOK
  <2>3. QED
    BY <1>1, <2>1, <2>2, Zenon 
<1>10. packets' \in [Endpoints -> [SequenceNumbers -> PacketData \cup {NoPacket}]]
  BY <1>1, <1>2, <1>6, Zenon DEF TypeOK
<1>11. usage' \in [Endpoints -> [Denoms -> Nat]]
  <2>1. _reduceDailyUsage(rateLimit[e][d], usage[e][d], a) \in Nat
    BY <1>2, <1>3, UsageTypes, RateTypes, ZenonT(40) 
  <2>2. QED
    BY <1>1, <1>2, <2>1, Zenon DEF TypeOK
<1>12. TypeOK'
  <2>1. escrows' \subseteq Endpoints
    BY <1>1, <1>2, Zenon DEF TypeOK
  <2>2. QED
    BY <1>1, <1>2, <1>8, <1>9, <1>10, <1>11, <2>1, ZenonT(40) DEF TypeOK, Balances
<1>13. Host(e) \in Chains /\ caller \in Holders
  BY EndpointFacts, Zenon DEF Holders
<1>14. Genuine(Host(e), d) /\ Genuine(Host(e), d)'
  <2>1. balance[Host(e)][d][caller] \in Nat
    BY <1>2, <1>13, UsageTypes, ZenonT(40) 
  <2>2. balance[Host(e)][d][caller] > 0
    BY SMTT(40), <1>1, <1>3, <2>1
  <2>3. Genuine(Host(e), d)
    BY <1>2, <1>13, <2>2, Zenon DEF Held
  <2>4. QED
    BY <1>1, <2>3, GenuineStays, Zenon 
<1>15. origin(d) \notin FeeTokens
  <2>1. Len(d) \in Nat /\ Len(d) >= 1
    BY DenomFacts, Zenon 
  <2>2. CASE Len(d) = 1
    BY <1>1, <1>3, <2>2, DeliveredInFull, ZenonT(40) 
  <2>3. CASE Len(d) > 1
    BY <1>14, <2>3, Zenon DEF Genuine
  <2>4. QED
    <3> DEFINE n == Len(d)
    <3>1. n \in Nat /\ n >= 1
      BY <2>1, Zenon 
    <3> HIDE DEF n
    <3>2. n = 1 \/ n > 1
      BY <3>1
    <3>3. QED
      BY <2>2, <2>3, <3>2, Zenon DEF n
<1>16. Held'
  BY <1>1, <1>2, <1>8, <1>13, <1>14, HeldStep, ZenonT(40) 
<1>17. Carried'
  <2>1. escrows \subseteq escrows' /\ e \in escrows' /\ \A x \in Chains : contracts[x] \subseteq contracts'[x]
    BY <1>1, Zenon 
  <2>2. /\ packets'[e][s] = q
        /\ \A x \in Endpoints, r \in SequenceNumbers :
              x # e \/ r # s => packets'[x][r] = packets[x][r] /\ phase'[x][r] = phase[x][r]
    BY <1>1, <1>2, ZenonT(40) DEF TypeOK
  <2>3. Sound(e, q)'
    BY <1>1, <1>6, <1>14, <1>15, <2>1, ZenonT(40) DEF Sound
  <2>4. Sound(e, packets[e][s])'
    BY <2>2, <2>3, Zenon DEF Sound, Genuine
  <2>5. \A x \in Endpoints, r \in SequenceNumbers : phase'[x][r] # "unsent" =>
              \/ phase[x][r] # "unsent" /\ packets'[x][r] = packets[x][r]
              \/ Sound(x, packets[x][r])'
    <3> SUFFICES ASSUME NEW x \in Endpoints, NEW r \in SequenceNumbers, phase'[x][r] # "unsent"
                 PROVE  \/ phase[x][r] # "unsent" /\ packets'[x][r] = packets[x][r]
                        \/ Sound(x, packets[x][r])'
      BY Zenon
    <3>1. CASE x = e /\ r = s
      BY <2>4, <3>1, Zenon 
    <3>2. CASE x # e \/ r # s
      BY <2>2, <3>2, Zenon 
    <3>3. QED
      BY <3>1, <3>2, Zenon 
  <2>6. QED
    BY ONLY <1>2, <2>1, <2>5, CarriedStep, ZenonT(40) 
<1>18. Backed'
  <2>1. CASE hasPrefix(d, Id(e))
    <3>1. m = a /\ a - m = 0
      BY SMTT(40), <1>3, <1>4, <2>1
    <3>2. Nets(e, d, 0) /\ Supplies(Host(e), d, 0 - a)
      BY <1>8, <3>1, ZenonT(40) 
    <3>3. QED
      BY SMTT(40), <1>2, <1>3, <1>7, <2>1, <3>2, Burned
  <2>2. CASE ~hasPrefix(d, Id(e))
    <3>1. m = 0 /\ a - m = a /\ 0 - m = 0
      BY SMTT(40), <1>3, <1>4, <2>2
    <3>2. Nets(e, d, a) /\ Supplies(Host(e), d, 0)
      BY <1>8, <3>1, Zenon 
    <3>3. QED
      BY SMTT(40), <1>2, <1>3, <1>7, <2>2, <3>2, Escrowed
  <2>3. QED
    BY <2>1, <2>2, ZenonT(40) 
<1>19. QED
  BY <1>12, <1>16, <1>17, <1>18, Zenon DEF IInv

\* A packet advances, and no token moves.
LEMMA QuietStep ==
    ASSUME IInv, NEW e \in Endpoints, NEW s \in SequenceNumbers,
           \/ phase[e][s] = "sent" /\ phase' = [phase EXCEPT ![e][s] = "rejected"]
           \/ phase[e][s] = "executed" /\ phase' = [phase EXCEPT ![e][s] = "confirmed"],
           UNCHANGED <<packets, tokens, settings>>
    PROVE  IInv'
<1>1. TypeOK /\ Held /\ Carried /\ Backed
  BY Zenon DEF IInv
<1>0. PICK p, q : /\ (p = "sent" /\ q = "rejected") \/ (p = "executed" /\ q = "confirmed")
                  /\ phase[e][s] = p /\ phase' = [phase EXCEPT ![e][s] = q]
  BY Zenon
<1>2. /\ p # "unsent" /\ q # "unsent" /\ q \in Lifecycle!Phases
      /\ p \in {"sent", "rejected"} <=> q \in {"sent", "rejected"}
  BY <1>0, Zenon DEF Lifecycle!Phases
<1>3. UNCHANGED <<packets, balance, contracts, escrows, usage, gifts, paused, rateLimit>>
  BY Zenon DEF tokens, settings
<1>4. /\ phase' \in [Endpoints -> [SequenceNumbers -> Lifecycle!Phases]]
      /\ phase'[e][s] = q
      /\ \A x \in Endpoints, r \in SequenceNumbers : x # e \/ r # s => phase'[x][r] = phase[x][r]
  <2>1. phase \in [Endpoints -> [SequenceNumbers -> Lifecycle!Phases]]
    BY <1>1, Zenon DEF TypeOK
  <2>2. QED
    BY <1>0, <1>2, <2>1, Zenon 
<1>5. TypeOK'
  BY <1>1, <1>3, <1>4, Zenon DEF TypeOK
<1>6. Held'
  BY <1>1, <1>3, Zenon DEF Held, Genuine
<1>7. Carried'
  <2>1. escrows \subseteq escrows' /\ \A x \in Chains : contracts[x] \subseteq contracts'[x]
    BY <1>3, Zenon 
  <2>2. \A x \in Endpoints, r \in SequenceNumbers : phase'[x][r] # "unsent" =>
              phase[x][r] # "unsent" /\ packets'[x][r] = packets[x][r]
    BY <1>0, <1>2, <1>3, <1>4, Zenon 
  <2>3. QED
    BY ONLY <1>1, <2>1, <2>2, CarriedStep, Zenon 
<1>8. Backed'
  <2>1. \A x \in Endpoints, r \in SequenceNumbers : Pending(x, r)' <=> Pending(x, r)
    BY <1>0, <1>2, <1>4, Zenon DEF Pending
  <2>2. QED
    BY <1>1, <1>3, <2>1, FlightSame, Zenon 
<1>9. QED
  BY <1>5, <1>6, <1>7, <1>8, ZenonT(40) DEF IInv

\* No packet and no token moves.
LEMMA SettingsStep ==
    ASSUME IInv, UNCHANGED <<phase, packets, balance, contracts, escrows, gifts>>,
           paused' \in [Chains -> BOOLEAN],
           rateLimit' \in [Endpoints -> [Denoms -> Limits \cup {0}]],
           usage' \in [Endpoints -> [Denoms -> Nat]]
    PROVE  IInv'
<1>1. TypeOK /\ Held /\ Carried /\ Backed
  BY Zenon DEF IInv
<1>2. TypeOK'
  BY <1>1, Zenon DEF TypeOK
<1>3. Held'
  BY <1>1, Zenon DEF Held, Genuine
<1>4. Carried'
  BY <1>1, ZenonT(40) DEF Carried, Sound, Genuine
<1>5. Backed'
  <2>1. \A x \in Endpoints, r \in SequenceNumbers : Pending(x, r)' <=> Pending(x, r)
    BY Zenon DEF Pending
  <2>2. QED
    BY <1>1, <2>1, FlightSame, Zenon 
<1>6. QED
  BY <1>2, <1>3, <1>4, <1>5, Zenon DEF IInv

\* Every step on a packet preserves the invariant.
LEMMA PacketStep ==
    ASSUME IInv, NEW e \in Endpoints, NEW s \in SequenceNumbers,
           \/ SendTransfer(e, s)
           \/ onRecvPacket(e, s)
           \/ onRecvPacketReverts(e, s)
           \/ onAcknowledgementPacketSuccess(e, s)
           \/ onAcknowledgementPacketError(e, s)
           \/ onTimeoutPacket(e, s)
    PROVE  IInv'
<1>1. CASE SendTransfer(e, s)
  BY <1>1, SendStep, Zenon DEF SendTransfer
<1>2. CASE onRecvPacket(e, s)
  BY <1>2, ReceiveStep, Zenon 
<1>3. CASE onRecvPacketReverts(e, s)
  <2>1. /\ phase[e][s] = "sent" /\ phase' = [phase EXCEPT ![e][s] = "rejected"]
        /\ UNCHANGED <<packets, tokens, settings>>
    BY <1>3, Zenon DEF onRecvPacketReverts, Lifecycle!Advance
  <2>2. QED
    BY <2>1, QuietStep, Zenon 
<1>4. CASE onAcknowledgementPacketSuccess(e, s)
  <2>1. /\ phase[e][s] = "executed" /\ phase' = [phase EXCEPT ![e][s] = "confirmed"]
        /\ UNCHANGED <<packets, tokens, settings>>
    BY <1>4, Zenon DEF onAcknowledgementPacketSuccess, Lifecycle!Advance
  <2>2. QED
    BY <2>1, QuietStep, Zenon 
<1>5. CASE onAcknowledgementPacketError(e, s)
  <2>1. /\ Pending(e, s) /\ phase' = [phase EXCEPT ![e][s] = "refused"]
        /\ _refundTokens(e, packets[e][s]) /\ UNCHANGED <<packets, settings>>
    BY <1>5, Zenon DEF onAcknowledgementPacketError, Lifecycle!Advance, Pending
  <2>2. QED
    BY <2>1, RefundStep, Zenon 
<1>6. CASE onTimeoutPacket(e, s)
  <2>1. /\ Pending(e, s) /\ phase' = [phase EXCEPT ![e][s] = "timedOut"]
        /\ _refundTokens(e, packets[e][s]) /\ UNCHANGED <<packets, settings>>
    BY <1>6, Zenon DEF onTimeoutPacket, Lifecycle!Advance, Pending
  <2>2. QED
    BY <2>1, RefundStep, Zenon 
<1>7. QED
  BY <1>1, <1>2, <1>3, <1>4, <1>5, <1>6, Zenon 

\* Every step preserves the invariant.
LEMMA NextIInv == ASSUME IInv, [Next]_vars PROVE IInv'
<1>0. TypeOK
  BY Zenon DEF IInv
<1>1. CASE UNCHANGED vars
  <2>1. UNCHANGED <<phase, packets, balance, contracts, escrows, gifts, paused, rateLimit, usage>>
    BY <1>1, Zenon DEF vars, tokens, settings
  <2>2. QED
    BY <1>0, <2>1, SettingsStep, Zenon DEF TypeOK
<1>2. ASSUME NEW e \in Endpoints, NEW s \in SequenceNumbers,
             \/ SendTransfer(e, s)
             \/ onRecvPacket(e, s)
             \/ onRecvPacketReverts(e, s)
             \/ onAcknowledgementPacketSuccess(e, s)
             \/ onAcknowledgementPacketError(e, s)
             \/ onTimeoutPacket(e, s)
      PROVE  IInv'
  BY <1>2, PacketStep, Zenon 
<1>3. ASSUME NEW c \in Chains, pause(c) \/ unpause(c) PROVE IInv'
  <2>1. /\ UNCHANGED <<phase, packets, balance, contracts, escrows, gifts, rateLimit, usage>>
        /\ paused' = [paused EXCEPT ![c] = TRUE] \/ paused' = [paused EXCEPT ![c] = FALSE]
    BY <1>3, Zenon DEF pause, unpause, tokens
  <2>2. paused' \in [Chains -> BOOLEAN]
    BY <1>0, <2>1, Zenon DEF TypeOK
  <2>3. QED
    BY <1>0, <2>1, <2>2, SettingsStep, ZenonT(40) DEF TypeOK
<1>4. ASSUME NEW e \in Endpoints, NEW limit \in Limits, NEW d \in Limited[e], setRateLimit(e, d, limit)
      PROVE  IInv'
  <2>1. /\ UNCHANGED <<phase, packets, balance, contracts, escrows, gifts, paused, usage>>
        /\ rateLimit' = [rateLimit EXCEPT ![e][d] = limit]
    BY <1>4, Zenon DEF setRateLimit, tokens
  <2>2. d \in Denoms
    BY TransferAssumption, Zenon 
  <2>3. rateLimit' \in [Endpoints -> [Denoms -> Limits \cup {0}]]
    BY <1>0, <2>1, <2>2, ZenonT(40) DEF TypeOK
  <2>4. QED
    BY <1>0, <2>1, <2>3, SettingsStep, ZenonT(40) DEF TypeOK
<1>5. CASE NextDay
  <2>1. /\ UNCHANGED <<phase, packets, balance, contracts, escrows, gifts, paused, rateLimit>>
        /\ usage' = [e \in Endpoints |-> [d \in Denoms |-> 0]]
    BY <1>5, Zenon DEF NextDay, settings
  <2>2. usage' \in [Endpoints -> [Denoms -> Nat]]
    BY <2>1, Zenon 
  <2>3. QED
    BY <1>0, <2>1, <2>2, SettingsStep, ZenonT(40) DEF TypeOK
<1>6. QED
  BY <1>1, <1>2, <1>3, <1>4, <1>5, ZenonT(40) DEF Next

\* There are no vouchers, no escrows and no packets at first.
LEMMA InitIInv == ASSUME Init PROVE IInv
<1>1. ASSUME NEW d \in Denoms, Len(d) = 1 PROVE d[1] \in Tokens
  BY <1>1, DenomShape, Zenon 
<1>2. ASSUME NEW c \in Chains, NEW d \in Denoms, NEW h \in Holders
      PROVE  /\ balance[c][d][h] \in Nat
             /\ Len(d) > 1 => balance[c][d][h] = 0
             /\ h \in Endpoints => balance[c][d][h] = 0
  <2>1. balance[c][d][h] = IF Len(d) = 1 /\ h \in Users THEN Supply[c][d[1]][h] ELSE 0
    BY Zenon DEF Init
  <2>2. Users \cap Endpoints = {} /\ Supply \in [Chains -> [Tokens -> [Users -> Nat]]]
    BY Zenon, TransferAssumption
  <2>3. Len(d) = 1 /\ h \in Users => Supply[c][d[1]][h] \in Nat
    BY <1>1, <2>2
  <2>4. Len(d) > 1 => ~(Len(d) = 1)
    <3> DEFINE n == Len(d)
    <3>1. n \in Nat
      BY DenomFacts, Zenon 
    <3> HIDE DEF n
    <3>2. n > 1 => ~(n = 1)
      BY <3>1
    <3>3. QED
      BY <3>2, Zenon DEF n
  <2>5. h \in Endpoints => h \notin Users
    BY <2>2, Zenon 
  <2>6. CASE Len(d) = 1 /\ h \in Users
    BY <2>1, <2>3, <2>4, <2>5, <2>6, ZenonT(40) 
  <2>7. CASE ~(Len(d) = 1 /\ h \in Users)
    <3>1. balance[c][d][h] = 0
      BY <2>1, <2>7, Zenon 
    <3>2. QED
      BY <3>1
  <2>8. QED
    BY <2>6, <2>7, Zenon 
<1>3. balance \in Balances
  <2>1. balance = [c \in Chains |-> [d \in Denoms |-> [h \in Holders |-> balance[c][d][h]]]]
    BY Zenon DEF Init
  <2>2. QED
    BY SMTT(40), <1>2, <2>1 DEF Balances
<1>4. TypeOK
  <2>1. phase \in [Endpoints -> [SequenceNumbers -> Lifecycle!Phases]]
    BY Zenon DEF Init, Lifecycle!Phases
  <2>2. packets \in [Endpoints -> [SequenceNumbers -> PacketData \cup {NoPacket}]]
    BY Zenon DEF Init
  <2>3. /\ contracts \in [Chains -> SUBSET Denoms] /\ escrows \subseteq Endpoints
        /\ rateLimit \in [Endpoints -> [Denoms -> Limits \cup {0}]]
        /\ usage \in [Endpoints -> [Denoms -> Nat]]
        /\ gifts \in [Endpoints -> [Denoms -> Nat]]
    BY Zenon DEF Init
  <2>4. paused \in [Chains -> BOOLEAN]
    BY Zenon DEF Init
  <2>5. QED
    BY <1>3, <2>1, <2>2, <2>3, <2>4, ZenonT(40) DEF TypeOK, Balances
<1>5. Held
  BY <1>2 DEF Held, Genuine
<1>6. Carried
  BY Zenon DEF Carried, Init
<1>7. Backed
  <2>1. ASSUME NEW x \in Endpoints, NEW y PROVE inFlight(x, y) = 0
    <3> DEFINE f == [r \in SequenceNumbers |-> owing(x, y, r)]
    <3>1. DOMAIN f = SequenceNumbers /\ \A r \in SequenceNumbers : f[r] = 0
      BY Zenon DEF owing, Pending, Init
    <3>2. inFlight(x, y) = SumFunctionOnSet(f, DOMAIN f)
      BY Zenon DEF inFlight, SumFunction
    <3>3. IsFiniteSet(SequenceNumbers)
      BY TransferAssumption, Zenon 
    <3> HIDE DEF f
    <3>4. SumFunctionOnSet(f, SequenceNumbers) = 0
      BY ONLY <3>1, <3>3, SumZero, Zenon 
    <3>5. QED
      BY <3>1, <3>2, <3>4, Zenon 
  <2>2. ASSUME NEW c \in Chains, NEW y, Len(y) > 1 PROVE totalSupply(c, y) = 0
    <3>1. CASE y \in Denoms
      <4> DEFINE f == balance[c][y]
      <4>1. DOMAIN f = Holders /\ \A h \in Holders : f[h] = 0
        BY <1>2, <1>3, <2>2, <3>1, ZenonT(40) DEF Balances
      <4>2. totalSupply(c, y) = SumFunctionOnSet(f, DOMAIN f)
        BY <3>1, Zenon DEF totalSupply, SumFunction
      <4>3. IsFiniteSet(Holders)
        BY TransferAssumption, Zenon DEF Holders
      <4> HIDE DEF f
      <4>4. SumFunctionOnSet(f, Holders) = 0
        BY ONLY <4>1, <4>3, SumZero, Zenon 
      <4>5. QED
        BY <4>1, <4>2, <4>4, Zenon 
    <3>2. CASE y \notin Denoms
      BY <3>2, Zenon DEF totalSupply
    <3>3. QED
      BY <3>1, <3>2, Zenon 
  <2>3. ASSUME NEW x \in Endpoints, NEW y \in Denoms PROVE net(x, y) = owed(x, y)
    <3>1. /\ Counterparty[x] \in Endpoints /\ Host(Counterparty[x]) \in Chains
          /\ Host(x) \in Chains /\ x \in Holders
      BY EndpointFacts, Zenon 
    <3>2. Len(backing(x, y)) > 1
      BY <3>1, VoucherFacts, ZenonT(40) DEF backing
    <3>3. owed(x, y) = 0
      BY SMTT(40), <2>1, <2>2, <3>1, <3>2, OwedIs
    <3>4. balance[Host(x)][y][x] = 0 /\ gifts[x][y] = 0
      BY <1>2, <3>1, Zenon DEF Init
    <3>5. QED
      BY SMTT(40), <3>3, <3>4 DEF net
  <2>4. QED
    BY <2>3, Zenon DEF Backed
<1>8. QED
  BY <1>4, <1>5, <1>6, <1>7, Zenon DEF IInv

\* Type correctness, what holders can have, what packets can carry and what
\* escrows hold are preserved together by every callback, transfer and setting.
THEOREM Inductive == Spec => []IInv
<1>1. Init => IInv
  BY InitIInv, Zenon 
<1>2. IInv /\ [Next]_vars => IInv'
  BY NextIInv, Zenon 
<1>3. QED
  BY <1>1, <1>2, PTL DEF Spec

\* No balance, usage or gift goes below zero in any transfer, burn, refund or
\* rate limit, and every minted denomination is one that can be named.
THEOREM TypeCorrect == Spec => []TypeOK
<1>1. IInv => TypeOK
  BY Zenon DEF IInv
<1>2. QED
  BY <1>1, Inductive, PTL

\* Each escrow holds exactly the tokens of the vouchers that circulate on the
\* other side and of its transfers in flight, plus what it was given, whatever
\* is sent, received, refunded or lost, for any topology of chains.
THEOREM FullyBacked == Spec => []EscrowBacksVouchers
<1>1. ASSUME IInv PROVE EscrowBacksVouchers
  <2> SUFFICES ASSUME NEW e \in Endpoints, NEW d \in Denoms
               PROVE  balance[Host(e)][d][e] = owed(e, d) + gifts[e][d]
    BY Zenon DEF EscrowBacksVouchers
  <2>1. Host(e) \in Chains /\ e \in Holders /\ TypeOK
    BY <1>1, EndpointFacts, Zenon DEF IInv
  <2>2. balance[Host(e)][d][e] \in Nat /\ gifts[e][d] \in Nat
    BY <2>1, UsageTypes, Zenon 
  <2>3. owed(e, d) = balance[Host(e)][d][e] - gifts[e][d]
    BY <1>1, ZenonT(40) DEF IInv, Backed, net
  <2>4. QED
    BY SMTT(40), <2>2, <2>3
<1>2. QED
  BY <1>1, Inductive, PTL

\* A pending transfer can be refunded: _refundTokens finds the escrow, the
\* contract of the token and enough tokens, so only the daily limit delays it.
THEOREM AlwaysRefundable == Spec => []RefundOnlyDelayed
<1>1. ASSUME IInv PROVE RefundOnlyDelayed
  <2> SUFFICES ASSUME NEW e \in Endpoints, NEW s \in SequenceNumbers, Pending(e, s)
               PROVE  /\ e \in escrows
                      /\ found(Host(e), packets[e][s].denom)
                      /\ \/ hasPrefix(packets[e][s].denom, Id(e))
                         \/ balance[Host(e)][packets[e][s].denom][e] >= packets[e][s].amount
    BY Zenon DEF RefundOnlyDelayed
  <2>1. PICK q : q = packets[e][s]
    BY Zenon
  <2> DEFINE d == q.denom
  <2>2. phase[e][s] # "unsent" /\ TypeOK /\ Counts
    BY <1>1, CountsOK, Zenon DEF Pending, IInv
  <2>3. Sound(e, q) /\ d \in Denoms /\ q.amount \in Nat
    BY <1>1, <2>1, <2>2, SoundFacts, Zenon 
  <2>4. e \in escrows /\ found(Host(e), d)
    <3>1. e \in escrows /\ Genuine(Host(e), d)
      BY <2>3, Zenon DEF Sound
    <3>2. Len(d) = 1 \/ Len(d) > 1
      <4>1. Len(d) \in Nat /\ Len(d) >= 1
        BY <2>3, DenomFacts, Zenon 
      <4> DEFINE n == Len(d)
      <4>2. n \in Nat /\ n >= 1
        BY <4>1, Zenon 
      <4> HIDE DEF n
      <4>3. n = 1 \/ n > 1
        BY SMTT(40), <4>2
      <4>4. QED
        BY <4>3, Zenon DEF n
    <3>3. QED
      BY <3>1, <3>2, Zenon DEF Genuine, found
  <2>5. ASSUME ~hasPrefix(d, Id(e)) PROVE balance[Host(e)][d][e] >= q.amount
    <3>1. /\ Host(e) \in Chains /\ e \in Holders
          /\ Counterparty[e] \in Endpoints /\ Host(Counterparty[e]) \in Chains
      BY EndpointFacts, Zenon 
    <3>2. owing(e, d, s) = q.amount
      BY <2>1, Zenon DEF owing
    <3>3. inFlight(e, d) >= q.amount /\ inFlight(e, d) \in Nat
      <4> HIDE DEF d
      <4>1. owing(e, d, s) <= inFlight(e, d) /\ inFlight(e, d) \in Nat
        BY <2>2, FlightNat, Zenon 
      <4>2. QED
        BY <2>3, <3>2, <4>1, Zenon 
    <3>4. /\ totalSupply(Host(Counterparty[e]), backing(e, d)) \in Nat
          /\ inFlight(Counterparty[e], backing(e, d)) \in Nat
      BY <2>2, <3>1, Zenon DEF Counts
    <3>5. owed(e, d) = totalSupply(Host(Counterparty[e]), backing(e, d)) + inFlight(e, d)
                         + inFlight(Counterparty[e], backing(e, d))
      BY <2>5, OwedIs, Zenon 
    <3>6. balance[Host(e)][d][e] \in Nat /\ gifts[e][d] \in Nat
      BY <2>2, <2>3, <3>1, UsageTypes, Zenon 
    <3>7. balance[Host(e)][d][e] - gifts[e][d] = owed(e, d)
      BY <1>1, <2>3, Zenon DEF IInv, Backed, net
    <3> HIDE DEF d
    <3>8. QED
      BY SMTT(40), <2>3, <3>3, <3>4, <3>5, <3>6, <3>7
  <2>6. QED
    BY <2>1, <2>4, <2>5, Zenon 
<1>2. QED
  BY <1>1, Inductive, PTL

-----------------------------------------------------------------------------
(* One escrow and one token over the days: the daily limit *)

DailyInv == EscrowTypeOK /\ UsageCoversOutflow

\* There is a counter for today.
LEMMA DailyToday == EscrowTypeOK => today \in Days /\ dailyUsage[today] \in Nat
BY DEF EscrowTypeOK, today, Days

\* At midnight the history starts afresh; until then nothing moves.
LEMMA DailyTick ==
    ASSUME DailyInv, EscrowTick
    PROVE  DailyInv'
<1>1. EscrowTypeOK /\ UsageCoversOutflow /\ MaxTimestamp \in Nat
  BY EscrowAssumption DEF DailyInv
<1>2. timestamp' \in 0..MaxTimestamp
  BY <1>1 DEF EscrowTypeOK, EscrowTick
<1>3. EscrowTypeOK'
  BY <1>1, <1>2 DEF EscrowTypeOK, EscrowTick
<1>4. dailyUsage'[today'] \in Nat
  BY <1>3 DEF EscrowTypeOK, today, Days
<1>5. CASE today' = today
  BY <1>1, <1>3, <1>5 DEF DailyInv, UsageCoversOutflow, EscrowTick, today
<1>6. CASE today' # today
  <2>1. outflow' = 0 /\ lowest' = 0
    BY <1>6 DEF EscrowTick, today
  <2>2. QED
    BY <1>3, <1>4, <2>1 DEF DailyInv, UsageCoversOutflow
<1>7. QED
  BY <1>5, <1>6

\* setRateLimit starts a new stretch, whatever the usage.
LEMMA DailySetLimit ==
    ASSUME DailyInv, NEW limit \in Limits, escrowSetRateLimit(limit)
    PROVE  DailyInv'
<1>1. EscrowTypeOK'
  BY DEF DailyInv, EscrowTypeOK, escrowSetRateLimit
<1>2. dailyUsage'[today'] \in Nat
  BY <1>1 DEF EscrowTypeOK, today, Days
<1>3. QED
  BY <1>1, <1>2 DEF DailyInv, UsageCoversOutflow, escrowSetRateLimit

\* A withdrawal adds the same amount to the net outflow and to the counter.
LEMMA DailySend ==
    ASSUME DailyInv, NEW amount \in Amounts, escrowSend(amount)
    PROVE  DailyInv'
<1> DEFINE used == dailyUsage[today]
<1>1. EscrowTypeOK /\ UsageCoversOutflow /\ amount \in Nat /\ dailyLimit \in Nat
  BY EscrowAssumption DEF DailyInv, EscrowTypeOK
<1>2. today \in Days /\ used \in Nat
  BY <1>1, DailyToday
<1>3. /\ dailyLimit' = dailyLimit /\ timestamp' = timestamp /\ outflow' = outflow + amount /\ lowest' = lowest
      /\ dailyLimit = 0 \/ used + amount <= dailyLimit
      /\ dailyUsage' = [dailyUsage EXCEPT ![today] = IF dailyLimit = 0 THEN @ ELSE @ + amount]
  BY DEF escrowSend, withinRateLimit, _assertAndUpdateRateLimit
<1>4. dailyUsage' \in [Days -> Nat] /\ dailyUsage'[today] = IF dailyLimit = 0 THEN used ELSE used + amount
  BY <1>1, <1>2, <1>3 DEF EscrowTypeOK
<1>5. EscrowTypeOK'
  BY <1>1, <1>3, <1>4 DEF EscrowTypeOK
<1>6. today' = today
  BY <1>3 DEF today
<1> HIDE DEF used
<1>7. UsageCoversOutflow'
  <2>1. dailyLimit # 0 => outflow - lowest <= used
    BY <1>1 DEF UsageCoversOutflow, used
  <2>2. outflow \in Int /\ lowest \in Int
    BY <1>1 DEF EscrowTypeOK
  <2>3. QED
    BY <1>1, <1>2, <1>3, <1>4, <1>6, <2>1, <2>2 DEF UsageCoversOutflow
<1>8. QED
  BY <1>5, <1>7 DEF DailyInv

\* A deposit takes as much from both, unless the net outflow reaches a new low.
LEMMA DailyRecvCallback ==
    ASSUME DailyInv, NEW amount \in Amounts, escrowRecvCallback(amount)
    PROVE  DailyInv'
<1> DEFINE used == dailyUsage[today]
           reduced == _reduceDailyUsage(dailyLimit, used, amount)
<1>1. /\ EscrowTypeOK /\ UsageCoversOutflow /\ amount \in Nat /\ dailyLimit \in Nat
      /\ outflow \in Int /\ lowest \in Int /\ lowest <= outflow
  BY EscrowAssumption DEF DailyInv, EscrowTypeOK
<1>2. today \in Days /\ used \in Nat
  BY <1>1, DailyToday
<1>3. /\ reduced \in Nat
      /\ dailyLimit # 0 => reduced <= used /\ used - amount <= reduced
  BY <1>1, <1>2 DEF _reduceDailyUsage
<1>4. /\ dailyLimit' = dailyLimit /\ timestamp' = timestamp /\ outflow' = outflow - amount
      /\ lowest' = IF lowest < outflow - amount THEN lowest ELSE outflow - amount
      /\ dailyUsage' = [dailyUsage EXCEPT ![today] = reduced]
  BY DEF escrowRecvCallback, Smaller
<1> HIDE DEF reduced
<1>5. dailyUsage' \in [Days -> Nat] /\ dailyUsage'[today] = reduced
  BY <1>1, <1>2, <1>3, <1>4 DEF EscrowTypeOK
<1>6. EscrowTypeOK'
  BY <1>1, <1>4, <1>5 DEF EscrowTypeOK
<1>7. today' = today
  BY <1>4 DEF today
<1> HIDE DEF used
<1>8. UsageCoversOutflow'
  <2>1. dailyLimit # 0 => outflow - lowest <= used /\ (outflow > lowest => used <= dailyLimit)
    BY <1>1 DEF UsageCoversOutflow, used
  <2>2. QED
    BY <1>1, <1>2, <1>3, <1>4, <1>5, <1>7, <2>1 DEF UsageCoversOutflow
<1>9. QED
  BY <1>6, <1>8 DEF DailyInv

\* Every step keeps the invariant.
LEMMA DailyNext == DailyInv /\ [EscrowNext]_escrowVars => DailyInv'
<1> SUFFICES ASSUME DailyInv, [EscrowNext]_escrowVars PROVE DailyInv'
  OBVIOUS
<1>1. CASE UNCHANGED escrowVars
  BY <1>1 DEF escrowVars, DailyInv, EscrowTypeOK, UsageCoversOutflow, today
<1>2. CASE EscrowNext
  BY <1>2, DailyTick, DailySetLimit, DailySend, DailyRecvCallback DEF EscrowNext
<1>3. QED
  BY <1>1, <1>2

\* A new escrow has sent nothing.
LEMMA DailyInit == EscrowInit => DailyInv
<1> SUFFICES ASSUME EscrowInit PROVE DailyInv
  OBVIOUS
<1>1. dayOf(0) \in Days
  BY EscrowAssumption DEF Days
<1>2. EscrowTypeOK
  BY EscrowAssumption DEF EscrowInit, EscrowTypeOK
<1>3. QED
  BY <1>2 DEF EscrowInit, DailyInv, UsageCoversOutflow

\* The invariant always holds.
LEMMA DailyInvariance == EscrowSpec => []DailyInv
BY DailyInit, DailyNext, PTL DEF EscrowSpec

\* The counter of the day covers the net outflow of every stretch of the day,
\* although deposits make room under the limit (RateLimitUpgradeable.sol:72-91).
THEOREM CounterCovers == EscrowSpec => []UsageCoversOutflow
<1>1. DailyInv => UsageCoversOutflow
  BY Zenon DEF DailyInv
<1> QED
  BY <1>1, DailyInvariance, PTL

\* The usage of a day never falls below zero, whatever is deposited
\* (RateLimitUpgradeable.sol:84-90).
THEOREM EscrowTypeCorrect == EscrowSpec => []EscrowTypeOK
<1>1. DailyInv => EscrowTypeOK
  BY Zenon DEF DailyInv
<1> QED
  BY <1>1, DailyInvariance, PTL

\* While a limit stands and within one day, the net outflow of every stretch
\* of time is at most the limit, for any period, limits and amounts.
THEOREM DailyLimitHolds == EscrowSpec => []NetOutflowWithinLimit
<1>1. DailyInv => NetOutflowWithinLimit
  <2> SUFFICES ASSUME DailyInv, dailyLimit # 0 PROVE outflow - lowest <= dailyLimit
    BY DEF NetOutflowWithinLimit
  <2>1. outflow \in Int /\ lowest \in Int /\ lowest <= outflow /\ dailyLimit \in Nat /\ dailyUsage[today] \in Nat
    BY EscrowAssumption, DailyToday DEF DailyInv, EscrowTypeOK
  <2>2. outflow - lowest <= dailyUsage[today] /\ (outflow > lowest => dailyUsage[today] <= dailyLimit)
    BY DEF DailyInv, UsageCoversOutflow
  <2>3. QED
    BY <2>1, <2>2
<1>2. QED
  BY <1>1, DailyInvariance, PTL

=============================================================================
