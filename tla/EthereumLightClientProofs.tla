----------------------- MODULE EthereumLightClientProofs -----------------------
(***************************************************************************)
(* The Ethereum light client follows the beacon chain for any length of    *)
(* the chain, size and number of committees, number of faulty members,     *)
(* requests and migrations.                                                *)
(*                                                                         *)
(* A transaction applies one header after the other, each verified against *)
(* the storage the previous one left.  What holds of the storage after all *)
(* of them is shown by induction along the transaction: the set of good    *)
(* storages is closed under updateClient.                                  *)
(***************************************************************************)
EXTENDS EthereumLightClient, WellFoundedInduction, TLAPS

-----------------------------------------------------------------------------
(* Induction along an interval, and functions defined along it *)

\* A set of natural numbers that is not empty has a smallest one.
LEMMA Smallest ==
    ASSUME NEW B, B \subseteq Nat, B # {}
    PROVE  \E m \in B : \A k \in B : ~(k < m)
<1>1. PICK m \in B : \A k \in B : ~(<<k, m>> \in OpToRel(<, Nat))
  BY NatLessThanWellFounded, WFMin, Zenon
<1> QED
  BY <1>1, Zenon DEF OpToRel

\* A set that holds the first number and the successor of each holds them all.
LEMMA Along ==
    ASSUME NEW a \in Int, NEW b \in Int, NEW c, c = a + 1, NEW S, a \in S,
           \A n \in c..b : n - 1 \in S => n \in S
    PROVE  \A n \in a..b : n \in S
<1> DEFINE B == {k \in Nat : a + k <= b /\ a + k \notin S}
<1>1. SUFFICES ASSUME NEW n \in a..b, n \notin S PROVE FALSE
  BY Zenon
<1>2. n - a \in B
  <2>1. n - a \in Nat /\ a + (n - a) = n /\ n <= b
    OBVIOUS
  <2> QED
    BY <1>1, <2>1, Zenon
<1>3. PICK m \in B : \A k \in B : ~(k < m)
  <2>1. B \subseteq Nat /\ B # {}
    BY <1>2, Zenon
  <2> HIDE DEF B
  <2> QED
    BY <2>1, Smallest, Zenon
<1>4. m \in Nat /\ a + m <= b /\ a + m \notin S
  BY Zenon
<1>5. m # 0
  <2>1. m = 0 => a + m = a
    BY <1>4
  <2> QED
    BY <1>4, <2>1, Zenon
<1>6. m - 1 \in Nat /\ m - 1 < m /\ a + (m - 1) <= b
  BY <1>4, <1>5
<1>7. a + (m - 1) \in S
  BY <1>3, <1>6, Zenon
<1>8. a + m \in c..b /\ (a + m) - 1 = a + (m - 1)
  BY <1>4, <1>5
<1> QED
  BY <1>4, <1>7, <1>8, Zenon

\* A function defined along an interval, each value from the one before.
Runs(g, a, b, base, F) == g = [n \in a..b |-> IF n = a THEN base ELSE F[n][g[n - 1]]]

\* Such a function exists: LET ... IN in get_update_headers and Execute defines one.
LEMMA RunsExist ==
    ASSUME NEW a \in Int, NEW b \in Int, a <= b, NEW base, NEW F
    PROVE  \E g : Runs(g, a, b, base, F)
<1> DEFINE S == {k \in Int : \E g : Runs(g, a, k, base, F)}
<1>1. a \in S
  <2>1. Runs([n \in a..a |-> base], a, a, base, F)
    BY DEF Runs
  <2> QED
    BY <2>1, Zenon
<1>2. ASSUME NEW k \in (a + 1)..b, k - 1 \in S
      PROVE  k \in S
  <2>1. PICK g : Runs(g, a, k - 1, base, F)
    BY <1>2, Zenon
  <2> DEFINE h == [n \in a..k |-> IF n < k THEN g[n] ELSE F[k][g[k - 1]]]
  <2>2. ASSUME NEW n \in a..k
        PROVE  h[n] = IF n = a THEN base ELSE F[n][h[n - 1]]
    <3>1. CASE n = a
      <4>1. n \in a..(k - 1) /\ n < k
        BY <3>1
      <4> QED
        BY <2>1, <3>1, <4>1 DEF Runs
    <3>2. CASE n > a /\ n < k
      <4>1. n \in a..(k - 1) /\ n # a /\ n - 1 \in a..k /\ n - 1 < k
        BY <3>2
      <4>2. g[n] = F[n][g[n - 1]]
        BY <2>1, <4>1, Zenon DEF Runs
      <4> QED
        BY <3>2, <4>1, <4>2
    <3>3. CASE n = k
      <4>1. n # a /\ n - 1 \in a..k /\ n - 1 < k
        BY <3>3
      <4> QED
        BY <3>3, <4>1
    <3> QED
      BY <3>1, <3>2, <3>3
  <2>3. Runs(h, a, k, base, F)
    <3>1. h = [n \in a..k |-> h[n]]
      OBVIOUS
    <3> HIDE DEF h
    <3> QED
      BY <2>2, <3>1, Zenon DEF Runs
  <2>4. k \in Int
    OBVIOUS
  <2> QED
    BY <2>3, <2>4, Zenon
<1>3. b \in a..b
  OBVIOUS
<1>4. b \in S
  <2> HIDE DEF S
  <2> QED
    BY <1>1, <1>2, <1>3, Along
<1> QED
  BY <1>4, Zenon

-----------------------------------------------------------------------------
(* The inductive invariant *)

\* What the chain shows finalised only grows, and lags behind what is signed.
ChainOK ==
    /\ slot \in Slots /\ clock \in 0..(slot + 1) /\ faulty \in 0..sync_committee_size
    /\ finality \in [1..MaxSlot -> Slots \cup {None}]
    /\ \A s \in Published : finality[s] \in 0..(s - 1)
    /\ \A s, t \in Published : s <= t => finality[s] <= finality[t]

\* The latest state is there, and it is the newest.
Stores == [client : ClientStates, consensus : [Slots -> ConsensusStates \cup {None}]]
Kept(st) ==
    /\ st \in Stores /\ st.consensus[st.client.latest_slot] # None
    /\ \A s \in Slots : st.consensus[s] # None => s <= st.client.latest_slot

\* Too few members of a committee are faulty to sign for it.
FewFaulty == faulty * 3 < sync_committee_size * 2
Honest(st) ==
    \A s \in Slots : st.consensus[s] # None =>
        /\ st.consensus[s].root = "canonical" /\ s \in Finalized
        /\ st.consensus[s].current_sync_committee # Forged
        /\ st.consensus[s].next_sync_committee # Forged
Named(st) ==
    LET s == st.client.latest_slot
    IN  /\ st.consensus[s].current_sync_committee = Period(s)
        /\ st.consensus[s].next_sync_committee = Period(s) + 1
Good(st) == Kept(st) /\ (FewFaulty => Honest(st) /\ Named(st))

\* An update of the chain, whatever signature slot it claims.
Genuine(u) ==
    \E s \in Published :
        /\ u.attested = s - 1 /\ u.finalized = finality[s] /\ u.root = "canonical"
        /\ u.next_sync_committee \in {None, Period(s - 1) + 1}
Sourced == {h \in Headers : Genuine(h.update)}

IInv ==
    /\ ChainOK
    /\ Good(store)
    /\ FrozenOnlyOnConflict
    /\ job \in [Workers -> Seq(Sourced)]

-----------------------------------------------------------------------------
(* Periods *)

\* Quotient and remainder.
LEMMA Division ==
    ASSUME NEW d \in Nat \ {0}, NEW a \in Nat
    PROVE  a \div d \in Nat /\ d * (a \div d) <= a /\ a < d * (a \div d) + d
OBVIOUS

\* Below the next multiple of d, a multiple of d has no larger factor.
LEMMA Quotients ==
    ASSUME NEW d \in Nat \ {0}, NEW p \in Nat, NEW q \in Nat, d * p < d * q + d
    PROVE  p <= q
<1>1. SUFFICES ASSUME p >= q + 1 PROVE FALSE
  OBVIOUS
<1>2. PICK k \in Nat : p = q + 1 + k
  <2>1. p - q - 1 \in Nat /\ p = q + 1 + (p - q - 1)
    BY <1>1
  <2> QED
    BY <2>1
<1>3. d * k \in Nat
  OBVIOUS
<1>4. d * p = d * q + d + d * k
  BY <1>2
<1> QED
  BY <1>3, <1>4

\* Division keeps the order.
LEMMA DivisionOrder ==
    ASSUME NEW d \in Nat \ {0}, NEW a \in Nat, NEW b \in Nat, a <= b
    PROVE  a \div d <= b \div d
<1> DEFINE p == a \div d
           q == b \div d
<1>1. p \in Nat /\ d * p <= a
  BY Division
<1>2. q \in Nat /\ b < d * q + d
  BY Division
<1> HIDE DEF p, q
<1>3. d * p \in Int /\ d * q \in Int
  BY <1>1, <1>2
<1>4. d * p < d * q + d
  BY <1>1, <1>2, <1>3
<1>5. p <= q
  BY <1>1, <1>2, <1>4, Quotients
<1> QED
  BY <1>5 DEF p, q

\* A slot has a period.
LEMMA PeriodNat ==
    ASSUME NEW s \in Nat
    PROVE  Period(s) \in Nat
<1>1. s \div slots_per_epoch \in Nat
  BY EthereumAssumption, Division
<1>2. (s \div slots_per_epoch) \div epochs_per_sync_committee_period \in Nat
  BY <1>1, EthereumAssumption, Division
<1> QED
  BY <1>2 DEF Period, compute_sync_committee_period_at_slot, compute_epoch_at_slot

\* Later slots are of later periods, or of the same.
LEMMA PeriodOrder ==
    ASSUME NEW s \in Nat, NEW t \in Nat, s <= t
    PROVE  Period(s) <= Period(t)
<1> DEFINE a == s \div slots_per_epoch
           b == t \div slots_per_epoch
<1>1. a \in Nat /\ b \in Nat
  BY EthereumAssumption, Division
<1>2. a <= b
  BY EthereumAssumption, DivisionOrder
<1> HIDE DEF a, b
<1>3. a \div epochs_per_sync_committee_period <= b \div epochs_per_sync_committee_period
  BY <1>1, <1>2, EthereumAssumption, DivisionOrder
<1> QED
  BY <1>3 DEF a, b, Period, compute_sync_committee_period_at_slot, compute_epoch_at_slot

\* The committees of a slot are among those of the chain, and not forged.
LEMMA PeriodOfSlot ==
    ASSUME NEW s \in Slots
    PROVE  /\ s \in Nat /\ Period(s) \in Nat
           /\ Period(s) \in Committees /\ Period(s) + 1 \in Committees
           /\ Period(s) # Forged /\ Period(s) + 1 # Forged
           /\ Period(s) # None /\ Period(s) + 1 # None
<1>1. s \in Nat /\ MaxSlot \in Nat /\ s <= MaxSlot
  BY EthereumAssumption DEF Slots
<1>2. Period(s) \in Nat /\ Period(MaxSlot) \in Nat /\ Period(s) <= Period(MaxSlot)
  BY <1>1, PeriodNat, PeriodOrder
<1>3. Period(s) \in Periods /\ Period(s) + 1 \in Periods
  BY <1>2 DEF Periods
<1> QED
  BY <1>1, <1>2, <1>3, EthereumAssumption DEF Committees

-----------------------------------------------------------------------------
(* One header *)

\* A published update shows an earlier slot finalised.
LEMMA PublishedSlot ==
    ASSUME ChainOK, NEW s \in Published
    PROVE  /\ s \in Nat /\ s >= 1 /\ s \in Slots /\ s - 1 \in Slots
           /\ finality[s] \in Slots /\ finality[s] \in Nat /\ finality[s] <= s - 1
           /\ finality[s] \in Finalized
<1>1. slot \in Nat /\ MaxSlot \in Nat /\ slot <= MaxSlot
  BY EthereumAssumption DEF ChainOK, Slots
<1>2. s \in Nat /\ s >= 1 /\ s <= slot
  BY <1>1 DEF Published
<1>3. finality[s] \in 0..(s - 1)
  BY Zenon DEF ChainOK
<1>4. finality[s] \in Finalized
  BY Zenon DEF Finalized
<1> QED
  BY <1>1, <1>2, <1>3, <1>4 DEF Slots

\* What the chain finalised are slots.
LEMMA FinalizedSlots == ChainOK => Finalized \subseteq Slots
<1>1. 0 \in Slots
  BY EthereumAssumption DEF Slots
<1> QED
  BY <1>1, PublishedSlot, Zenon DEF Finalized

\* What an update must be for the contract to store what it says.
Typed(u) ==
    /\ u.finalized \in Slots /\ u.attested \in Slots /\ u.signature_slot \in Nat
    /\ u.root \in {"canonical", "fork"} /\ u.next_sync_committee \in Committees \cup {None}

\* An update of the chain names a finalised slot and no forged committee.
LEMMA GenuineUpdate ==
    ASSUME ChainOK, NEW u, Genuine(u)
    PROVE  /\ u.finalized \in Slots /\ u.attested \in Slots /\ u.finalized <= u.attested
           /\ u.finalized \in Finalized /\ u.root = "canonical"
           /\ u.next_sync_committee \in {None, Period(u.attested) + 1}
           /\ u.next_sync_committee \in Committees \cup {None}
           /\ u.next_sync_committee # Forged
<1>1. PICK s \in Published :
          /\ u.attested = s - 1 /\ u.finalized = finality[s] /\ u.root = "canonical"
          /\ u.next_sync_committee \in {None, Period(s - 1) + 1}
  BY Zenon DEF Genuine
<1>2. /\ s - 1 \in Slots /\ finality[s] \in Slots /\ finality[s] \in Nat /\ finality[s] <= s - 1
      /\ finality[s] \in Finalized
  BY PublishedSlot, Zenon
<1>3. Period(s - 1) + 1 \in Committees /\ Period(s - 1) + 1 # Forged
  BY <1>2, PeriodOfSlot, Zenon
<1>4. None # Forged
  BY EthereumAssumption, Zenon DEF Committees
<1> QED
  BY <1>1, <1>2, <1>3, <1>4, Zenon

\* The storage after an update: the newest slot, and a state at the finalised one.
LEMMA NewState ==
    ASSUME NEW st, Kept(st), NEW u, Typed(u)
    PROVE  LET latest == st.consensus[st.client.latest_slot]
           IN  /\ latest \in ConsensusStates /\ st.client.latest_slot \in Slots
               /\ update_consensus_state(latest, Period(st.client.latest_slot), u)
                     \in ConsensusStates
<1> DEFINE latest == st.consensus[st.client.latest_slot]
<1>1. st.client \in ClientStates /\ st.consensus \in [Slots -> ConsensusStates \cup {None}]
  BY DEF Kept, Stores
<1>2. st.client.latest_slot \in Slots
  BY <1>1 DEF ClientStates
<1>3. latest \in ConsensusStates
  BY <1>1, <1>2 DEF Kept
<1> HIDE DEF latest
<1>4. ASSUME NEW period
      PROVE  update_consensus_state(latest, period, u) \in ConsensusStates
  <2>1. /\ latest.next_sync_committee # None => latest.next_sync_committee \in Committees
        /\ latest = [root |-> latest.root, current_sync_committee |-> latest.current_sync_committee,
                     next_sync_committee |-> latest.next_sync_committee]
        /\ latest.current_sync_committee \in Committees
        /\ latest.next_sync_committee \in Committees \cup {None}
    BY <1>3 DEF ConsensusStates
  <2>2. u.root \in {"canonical", "fork"} /\ u.next_sync_committee \in Committees \cup {None}
    BY DEF Typed
  <2>3. CASE latest.next_sync_committee = None
    BY <2>1, <2>2, <2>3, Zenon DEF update_consensus_state, ConsensusStates
  <2>4. CASE latest.next_sync_committee # None /\ Rotates(period, u)
    BY <2>1, <2>2, <2>4 DEF update_consensus_state, ConsensusStates
  <2>5. CASE latest.next_sync_committee # None /\ ~Rotates(period, u)
    BY <2>1, <2>2, <2>5 DEF update_consensus_state, ConsensusStates
  <2> QED
    BY <2>3, <2>4, <2>5
<1> QED
  BY <1>2, <1>3, <1>4 DEF latest

\* Where the fields of the new state come from.
LEMMA NewFields ==
    ASSUME NEW latest \in ConsensusStates, NEW period, NEW u
    PROVE  LET cs == update_consensus_state(latest, period, u)
           IN  /\ cs.root = u.root
               /\ cs.current_sync_committee = latest.current_sync_committee
                  \/ /\ latest.next_sync_committee # None
                     /\ cs.current_sync_committee = latest.next_sync_committee
               /\ cs.next_sync_committee \in {latest.next_sync_committee, u.next_sync_committee}
               /\ latest.next_sync_committee # None /\ Rotates(period, u) =>
                     /\ cs.current_sync_committee = latest.next_sync_committee
                     /\ cs.next_sync_committee = u.next_sync_committee
               /\ latest.next_sync_committee # None /\ ~Rotates(period, u) =>
                     /\ cs.current_sync_committee = latest.current_sync_committee
                     /\ cs.next_sync_committee = latest.next_sync_committee
<1>1. CASE latest.next_sync_committee = None
  BY <1>1, Zenon DEF update_consensus_state, ConsensusStates
<1>2. CASE latest.next_sync_committee # None /\ Rotates(period, u)
  BY <1>2 DEF update_consensus_state, ConsensusStates
<1>3. CASE latest.next_sync_committee # None /\ ~Rotates(period, u)
  BY <1>3 DEF update_consensus_state, ConsensusStates
<1> QED
  BY <1>1, <1>2, <1>3

\* What update_state writes: one state, and the latest slot if that is newer.
LEMMA Written ==
    ASSUME NEW st, Kept(st), NEW h, Typed(h.update), update_state(st, h) # None
    PROVE  LET f == h.update.finalized
               l == st.client.latest_slot
               new == update_state(st, h)
           IN  /\ new \in Stores /\ new.client.is_frozen = st.client.is_frozen
               /\ new.client.latest_slot = IF f > l THEN f ELSE l
               /\ \A s \in Slots : s # f => new.consensus[s] = st.consensus[s]
               /\ new.consensus[f] = update_consensus_state(st.consensus[l], Period(l), h.update)
               /\ new.consensus[f] # None
<1> DEFINE f == h.update.finalized
           l == st.client.latest_slot
           n == IF f > l THEN f ELSE l
           cs == update_consensus_state(st.consensus[l], Period(l), h.update)
           new == [client |-> [st.client EXCEPT !.latest_slot = n],
                   consensus |-> [st.consensus EXCEPT ![f] = cs]]
<1>1. update_state(st, h) = new
  BY DEF update_state, latest_slot
<1>2. cs \in ConsensusStates /\ l \in Slots
  BY NewState
<1>3. cs # None
  BY <1>2, EthereumAssumption, Zenon
<1>4. f \in Slots
  BY DEF Typed
<1>5. st.client \in ClientStates /\ st.consensus \in [Slots -> ConsensusStates \cup {None}]
  BY DEF Kept, Stores
<1>6. n \in Slots
  BY <1>2, <1>4
<1> HIDE DEF f, n, cs
<1>7. [st.client EXCEPT !.latest_slot = n] \in ClientStates
  BY <1>5, <1>6 DEF ClientStates
<1>8. [st.consensus EXCEPT ![f] = cs] \in [Slots -> ConsensusStates \cup {None}]
  BY <1>2, <1>4, <1>5
<1>9. new \in Stores
  BY <1>7, <1>8 DEF Stores
<1>10. /\ new.client.is_frozen = st.client.is_frozen /\ new.client.latest_slot = n
       /\ \A s \in Slots : s # f => new.consensus[s] = st.consensus[s]
       /\ new.consensus[f] = cs
  BY <1>4, <1>5 DEF ClientStates
<1> QED
  BY <1>1, <1>3, <1>9, <1>10 DEF f, n, cs

\* update_state keeps the latest state the newest.
LEMMA UpdateKept ==
    ASSUME NEW st, Kept(st), NEW h, Typed(h.update), update_state(st, h) # None
    PROVE  Kept(update_state(st, h))
<1> DEFINE f == h.update.finalized
           l == st.client.latest_slot
<1>1. PICK new : new = update_state(st, h)
  BY Zenon
<1>2. /\ new \in Stores /\ new.client.latest_slot = IF f > l THEN f ELSE l
      /\ \A s \in Slots : s # f => new.consensus[s] = st.consensus[s]
      /\ new.consensus[f] # None
  BY <1>1, Written
<1>3. l \in Slots /\ f \in Slots /\ Slots \subseteq Int
  BY NewState, EthereumAssumption DEF Typed, Slots
<1>4. st.consensus[l] # None /\ \A s \in Slots : st.consensus[s] # None => s <= l
  BY DEF Kept
<1> HIDE DEF f, l
<1>5. new.consensus[new.client.latest_slot] # None
  BY <1>2, <1>3, <1>4
<1>6. ASSUME NEW s \in Slots, new.consensus[s] # None
      PROVE  s <= new.client.latest_slot
  BY <1>2, <1>3, <1>4, <1>6
<1> QED
  BY <1>1, <1>2, <1>5, <1>6 DEF Kept

\* A genuine update leaves only states of the chain.
LEMMA UpdateHonest ==
    ASSUME ChainOK, NEW st, Kept(st), Honest(st), NEW h, Typed(h.update), Genuine(h.update),
           update_state(st, h) # None
    PROVE  Honest(update_state(st, h))
<1> DEFINE f == h.update.finalized
           l == st.client.latest_slot
<1>1. PICK new : new = update_state(st, h)
  BY Zenon
<1>2. PICK latest : latest = st.consensus[l]
  BY Zenon
<1>3. /\ \A s \in Slots : s # f => new.consensus[s] = st.consensus[s]
      /\ new.consensus[f] = update_consensus_state(latest, Period(l), h.update)
  BY <1>1, <1>2, Written
<1>4. /\ latest \in ConsensusStates /\ l \in Slots /\ latest # None
  BY <1>2, NewState DEF Kept
<1>5. /\ latest.current_sync_committee # Forged /\ latest.next_sync_committee # Forged
  BY <1>2, <1>4, Zenon DEF Honest
<1>6. /\ f \in Finalized /\ h.update.root = "canonical" /\ h.update.next_sync_committee # Forged
  BY GenuineUpdate, Zenon
<1>7. /\ new.consensus[f].root = "canonical"
      /\ new.consensus[f].current_sync_committee # Forged
      /\ new.consensus[f].next_sync_committee # Forged
  BY <1>3, <1>4, <1>5, <1>6, NewFields
<1> HIDE DEF f, l
<1>8. ASSUME NEW s \in Slots, new.consensus[s] # None
      PROVE  /\ new.consensus[s].root = "canonical" /\ s \in Finalized
             /\ new.consensus[s].current_sync_committee # Forged
             /\ new.consensus[s].next_sync_committee # Forged
  <2>1. CASE s = f
    BY <1>6, <1>7, <2>1, Zenon DEF f
  <2>2. CASE s # f
    <3>1. new.consensus[s] = st.consensus[s]
      BY <1>3, <2>2, Zenon
    <3> QED
      BY <1>8, <3>1, Zenon DEF Honest
  <2> QED
    BY <2>1, <2>2
<1> QED
  BY <1>1, <1>8, Zenon DEF Honest

\* An update someone can show the client, signed for committee c: one of the
\* chain, or one that the faulty members alone sign.
Plausible(u, c) == Genuine(u) \/ (c # Forged => u.participants = faulty)

\* The committees the client knows are not forged, so a supermajority of one of
\* them has honest members.
LEMMA VerifiedGenuine ==
    ASSUME ChainOK, FewFaulty, NEW st, Honest(st), NEW h, h.trusted_slot \in Slots,
           verify_header(st, h), Plausible(h.update, h.committee)
    PROVE  Genuine(h.update)
<1>1. PICK trusted : trusted = st.consensus[h.trusted_slot]
  BY Zenon
<1>2. trusted # None /\ h.committee \in {trusted.current_sync_committee, trusted.next_sync_committee}
  BY <1>1, Zenon DEF verify_header, TrustedConsensusState
<1>3. trusted.current_sync_committee # Forged /\ trusted.next_sync_committee # Forged
  BY <1>1, <1>2, Zenon DEF Honest
<1>4. h.committee # Forged
  BY <1>2, <1>3, Zenon
<1>5. h.update.participants # faulty
  <2>1. h.update.participants * 3 >= sync_committee_size * 2
    BY Zenon DEF verify_header, validate_signature_supermajority
  <2>2. faulty \in Int /\ sync_committee_size \in Int /\ faulty * 3 < sync_committee_size * 2
    BY EthereumAssumption DEF ChainOK, FewFaulty
  <2> QED
    BY ONLY <2>1, <2>2
<1> QED
  BY <1>4, <1>5, Zenon DEF Plausible

\* The update's periods: it is signed, attested and finalised at most one period
\* after the latest state.
LEMMA VerifiedPeriods ==
    ASSUME NEW st, Kept(st), NEW h, h.trusted_slot \in Slots, Typed(h.update), verify_header(st, h)
    PROVE  LET u == h.update
               l == st.client.latest_slot
           IN  /\ Period(u.finalized) <= Period(u.attested)
               /\ Period(u.attested) <= Period(l) + 1
               /\ Period(h.trusted_slot) <= Period(l)
<1> DEFINE u == h.update
           l == st.client.latest_slot
           t == h.trusted_slot
<1>1. st.consensus[t] # None
  BY Zenon DEF verify_header, TrustedConsensusState
<1>2. t <= l /\ l \in Slots
  BY <1>1, NewState DEF Kept
<1>3. /\ u.signature_slot > u.attested /\ u.attested >= u.finalized
      /\ SignaturePeriod(Period(t), Period(u.signature_slot), h.active)
  BY Zenon DEF verify_header, validate_light_client_update
<1>4. /\ u.finalized \in Nat /\ u.attested \in Nat /\ u.signature_slot \in Nat
      /\ t \in Nat /\ l \in Nat
  BY <1>2, EthereumAssumption DEF Typed, Slots
<1> HIDE DEF u, l, t
<1>5. /\ Period(u.finalized) \in Nat /\ Period(u.attested) \in Nat /\ Period(u.signature_slot) \in Nat
      /\ Period(t) \in Nat /\ Period(l) \in Nat
  BY <1>4, PeriodNat
<1>6. Period(u.finalized) <= Period(u.attested)
  BY <1>3, <1>4, PeriodOrder
<1>7. Period(u.attested) <= Period(u.signature_slot)
  <2>1. u.attested <= u.signature_slot
    BY <1>3, <1>4
  <2> QED
    BY <1>4, <2>1, PeriodOrder
<1>8. Period(t) <= Period(l)
  BY <1>2, <1>4, PeriodOrder
<1>9. Period(u.signature_slot) <= Period(t) + 1
  BY <1>3, <1>5 DEF SignaturePeriod
<1>10. Period(u.attested) <= Period(l) + 1
  BY ONLY <1>5, <1>7, <1>8, <1>9
<1> QED
  BY <1>6, <1>8, <1>10 DEF u, l, t

\* The header moves the client to the next period only with the committee after
\* that, and the latest state goes on naming its committees.
LEMMA UpdateNamed ==
    ASSUME ChainOK, NEW st, Kept(st), Named(st), NEW h, h.trusted_slot \in Slots, Typed(h.update),
           Genuine(h.update), verify_header(st, h), update_state(st, h) # None
    PROVE  Named(update_state(st, h))
<1> DEFINE u == h.update
           f == u.finalized
           l == st.client.latest_slot
           t == h.trusted_slot
<1>1. PICK new : new = update_state(st, h)
  BY Zenon
<1>2. PICK latest : latest = st.consensus[l]
  BY Zenon
<1>3. /\ new.client.latest_slot = IF f > l THEN f ELSE l
      /\ \A s \in Slots : s # f => new.consensus[s] = st.consensus[s]
      /\ new.consensus[f] = update_consensus_state(latest, Period(l), u)
  BY <1>1, <1>2, Written
<1>4. latest \in ConsensusStates /\ l \in Slots /\ f \in Slots /\ u.attested \in Slots
  BY <1>2, NewState DEF Typed
<1>5. latest.current_sync_committee = Period(l) /\ latest.next_sync_committee = Period(l) + 1
  BY <1>2, Zenon DEF Named
<1>6. latest.next_sync_committee # None
  BY <1>4, <1>5, PeriodOfSlot
<1>7. /\ Period(f) <= Period(u.attested) /\ Period(u.attested) <= Period(l) + 1 /\ Period(t) <= Period(l)
  BY VerifiedPeriods, Zenon
<1>8. /\ Period(f) \in Nat /\ Period(u.attested) \in Nat /\ Period(l) \in Nat /\ Period(t) \in Nat
      /\ f \in Nat /\ l \in Nat
  BY <1>4, PeriodOfSlot
<1>9. u.next_sync_committee \in {None, Period(u.attested) + 1}
  BY GenuineUpdate, Zenon
<1>10. Period(f) > Period(t) => u.next_sync_committee # None
  BY Zenon DEF verify_header, NextCommitteeKnown
<1>11. Rotates(Period(l), u) <=> Period(f) = Period(l) + 1
  BY Zenon DEF Rotates
<1>12. /\ Rotates(Period(l), u) =>
             /\ new.consensus[f].current_sync_committee = latest.next_sync_committee
             /\ new.consensus[f].next_sync_committee = u.next_sync_committee
       /\ ~Rotates(Period(l), u) =>
             /\ new.consensus[f].current_sync_committee = latest.current_sync_committee
             /\ new.consensus[f].next_sync_committee = latest.next_sync_committee
  BY <1>3, <1>4, <1>6, NewFields
<1> HIDE DEF u, f, l, t
<1>13. CASE f > l
  <2>1. Period(l) <= Period(f)
    BY <1>8, <1>13, PeriodOrder
  <2>2. CASE Period(f) = Period(l) + 1
    <3>1. Period(u.attested) = Period(f) /\ Period(f) > Period(t)
      BY ONLY <1>7, <1>8, <2>2
    <3>2. u.next_sync_committee = Period(f) + 1
      BY <1>9, <1>10, <3>1, Zenon
    <3> QED
      BY <1>1, <1>3, <1>5, <1>11, <1>12, <1>13, <2>2, <3>2 DEF Named
  <2>3. CASE Period(f) = Period(l)
    <3>1. ~Rotates(Period(l), u)
      BY <1>8, <1>11, <2>3
    <3> QED
      BY <1>1, <1>3, <1>5, <1>12, <1>13, <2>3, <3>1 DEF Named
  <2> QED
    BY <1>7, <1>8, <2>1, <2>2, <2>3
<1>14. CASE ~(f > l)
  <2>1. Period(f) <= Period(l)
    BY <1>8, <1>14, PeriodOrder
  <2>2. ~Rotates(Period(l), u)
    BY <1>8, <1>11, <2>1
  <2>3. new.client.latest_slot = l
    BY <1>3, <1>14
  <2>4. /\ new.consensus[l].current_sync_committee = latest.current_sync_committee
        /\ new.consensus[l].next_sync_committee = latest.next_sync_committee
    <3>1. CASE l = f
      BY <1>12, <2>2, <3>1, Zenon
    <3>2. CASE l # f
      <4>1. new.consensus[l] = latest
        BY <1>2, <1>3, <1>4, <3>2, Zenon DEF l
      <4> QED
        BY <4>1, Zenon
    <3> QED
      BY <3>1, <3>2
  <2> QED
    BY <1>1, <1>5, <2>3, <2>4, Zenon DEF Named
<1> QED
  BY <1>13, <1>14

\* A header that is verified leaves a good storage good.
LEMMA UpdateGood ==
    ASSUME ChainOK, NEW st, Good(st), NEW h, h.trusted_slot \in Slots, Typed(h.update),
           Plausible(h.update, h.committee), verify_header(st, h), update_state(st, h) # None
    PROVE  Good(update_state(st, h))
<1>1. Kept(st) /\ Kept(update_state(st, h))
  BY UpdateKept, Zenon DEF Good
<1>2. ASSUME FewFaulty
      PROVE  Honest(update_state(st, h)) /\ Named(update_state(st, h))
  <2>1. Honest(st) /\ Named(st)
    BY <1>2, Zenon DEF Good
  <2>2. Genuine(h.update)
    BY <1>2, <2>1, VerifiedGenuine, Zenon
  <2> QED
    BY <1>1, <2>1, <2>2, UpdateHonest, UpdateNamed, Zenon
<1> QED
  BY <1>1, <1>2, Zenon DEF Good

-----------------------------------------------------------------------------
(* The headers of a transaction *)

\* The headers of the chain are well typed, and need no assumption on who signed.
LEMMA SourcedHeader ==
    ASSUME NEW h \in Sourced
    PROVE  /\ h.trusted_slot \in Slots /\ Typed(h.update)
           /\ Genuine(h.update) /\ Plausible(h.update, h.committee)
<1>1. h \in Headers /\ Genuine(h.update)
  BY Zenon DEF Sourced
<1>2. h.trusted_slot \in Slots /\ h.update \in Updates
  BY <1>1 DEF Headers
<1>3. Typed(h.update)
  BY <1>2, EthereumAssumption DEF Updates, Typed, Slots
<1> QED
  BY <1>1, <1>2, <1>3, Zenon DEF Plausible

\* What a message can leave: nothing, or a good storage, frozen if it was before.
After(frozen) == {st \in Stores : Good(st) /\ st.client.is_frozen = frozen} \cup {None}

\* One message of a transaction: verify_client_message, then update_state.
LEMMA UpdateClient ==
    ASSUME ChainOK, NEW frozen, NEW st \in After(frozen), NEW h \in Sourced
    PROVE  updateClient(st, h) \in After(frozen)
<1>1. SUFFICES ASSUME updateClient(st, h) # None
               PROVE  updateClient(st, h) \in After(frozen)
  BY Zenon DEF After
<1>2. st # None /\ verify_header(st, h) /\ updateClient(st, h) = update_state(st, h)
  BY <1>1, Zenon DEF updateClient
<1>3. Good(st) /\ st.client.is_frozen = frozen
  BY <1>2, Zenon DEF After
<1>4. Good(update_state(st, h))
  BY <1>1, <1>2, <1>3, SourcedHeader, UpdateGood, Zenon
<1>5. Kept(st) /\ Typed(h.update) /\ update_state(st, h) # None
  BY <1>1, <1>2, <1>3, SourcedHeader, Zenon DEF Good
<1>6. update_state(st, h) \in Stores /\ update_state(st, h).client.is_frozen = frozen
  BY <1>3, <1>5, Written, Zenon
<1> QED
  BY <1>2, <1>4, <1>6, Zenon DEF After

\* A transaction that succeeds leaves a good storage: each header is verified
\* against what the headers before it left.
LEMMA ExecuteGood ==
    ASSUME ChainOK, NEW frozen, NEW st \in After(frozen), NEW headers \in Seq(Sourced)
    PROVE  Execute(st, headers) \in After(frozen)
<1> DEFINE N == Len(headers)
           D == After(frozen)
           F == [n \in 1..N |-> [x \in D |-> updateClient(x, headers[n])]]
           Eq(x) == x = [n \in 0..N |-> IF n = 0 THEN st ELSE updateClient(x[n - 1], headers[n])]
<1>1. N \in Nat /\ \A n \in 1..N : headers[n] \in Sourced
  OBVIOUS
<1>2. \A n \in 1..N, x \in D : updateClient(x, headers[n]) \in D
  BY <1>1, UpdateClient, Zenon
<1>3. Execute(st, headers) = (CHOOSE x : Eq(x))[N]
  BY DEF Execute
<1>4. PICK g : Runs(g, 0, N, st, F)
  <2> HIDE DEF N, F
  <2> QED
    BY <1>1, RunsExist
<1> HIDE DEF N, D
<1>5. g[0] = st /\ \A n \in 1..N : g[n] = F[n][g[n - 1]]
  <2> HIDE DEF F
  <2>1. g = [n \in 0..N |-> IF n = 0 THEN st ELSE F[n][g[n - 1]]]
    BY <1>4, Zenon DEF Runs
  <2> QED
    BY <1>1, <2>1
<1>6. \A n \in 0..N : g[n] \in D
  <2> DEFINE S == {n \in 0..N : g[n] \in D}
  <2>1. 0 \in S
    BY <1>1, <1>5 DEF D
  <2>2. ASSUME NEW n \in 1..N, n - 1 \in S
        PROVE  n \in S
    <3>1. g[n] = updateClient(g[n - 1], headers[n])
      BY <1>5, <2>2, Zenon
    <3>2. n \in 0..N /\ g[n - 1] \in D
      BY <1>1, <2>2
    <3> QED
      BY <1>2, <3>1, <3>2, Zenon
  <2>3. \A n \in 0..N : n \in S
    <3> HIDE DEF S
    <3>1. 0 \in Int /\ N \in Int /\ 1 = 0 + 1
      BY <1>1
    <3> QED
      BY <2>1, <2>2, <3>1, Along, Zenon
  <2> QED
    BY <2>3
<1>7. Eq(g)
  <2>1. ASSUME NEW n \in 1..N
        PROVE  g[n] = updateClient(g[n - 1], headers[n])
    <3>1. n - 1 \in 0..N
      BY <1>1
    <3> QED
      BY <1>5, <1>6, <3>1, Zenon
  <2>2. g = [n \in 0..N |-> g[n]]
    <3> HIDE DEF F
    <3> QED
      BY <1>4 DEF Runs
  <2>3. \A n \in 0..N : n # 0 => n \in 1..N
    BY <1>1
  <2>4. \A n \in 0..N : g[n] = IF n = 0 THEN st ELSE updateClient(g[n - 1], headers[n])
    BY <1>5, <2>1, <2>3, Zenon
  <2> QED
    BY <2>2, <2>4, Zenon
<1>8. PICK r : r = (CHOOSE x : Eq(x))
  BY Zenon
<1>9. Eq(r)
  BY <1>7, <1>8, Zenon
<1>10. r[N] \in D
  <2> DEFINE S == {n \in 0..N : r[n] \in D}
  <2>1. 0 \in S
    <3>1. 0 \in 0..N
      BY <1>1
    <3>2. r[0] = st
      BY <1>9, <3>1
    <3> QED
      BY <3>1, <3>2 DEF D
  <2>2. ASSUME NEW n \in 1..N, n - 1 \in S
        PROVE  n \in S
    <3>1. n \in 0..N /\ n # 0 /\ r[n - 1] \in D
      BY <1>1, <2>2
    <3>2. r[n] = updateClient(r[n - 1], headers[n])
      BY <1>9, <3>1, Zenon
    <3> QED
      BY <1>2, <3>1, <3>2, Zenon
  <2>3. \A n \in 0..N : n \in S
    <3> HIDE DEF S
    <3>1. 0 \in Int /\ N \in Int /\ 1 = 0 + 1
      BY <1>1
    <3> QED
      BY <2>1, <2>2, <3>1, Along, Zenon
  <2> QED
    BY <1>1, <2>3
<1> QED
  BY <1>3, <1>8, <1>10, Zenon DEF D

\* The updates the proof API reads from a node.
LEMMA ServedHeader ==
    ASSUME ChainOK, NEW s \in Published, NEW next \in {None, Period(s - 1) + 1},
           NEW active \in {"Current", "Next"}, NEW committee \in Committees, NEW t \in Slots
    PROVE  [active |-> active, committee |-> committee, update |-> Update(s, next),
            trusted_slot |-> t] \in Sourced
<1> DEFINE u == Update(s, next)
           h == [active |-> active, committee |-> committee, update |-> u, trusted_slot |-> t]
<1>1. s \in Slots /\ s - 1 \in Slots /\ finality[s] \in Slots
  BY PublishedSlot, Zenon
<1>2. Period(s - 1) + 1 \in Committees /\ Period(s) \in Committees
  BY <1>1, PeriodOfSlot, Zenon
<1>3. sync_committee_size \in 0..sync_committee_size
  BY EthereumAssumption
<1>4. u \in Updates
  <2>1. next \in Committees \cup {None}
    BY <1>2, Zenon
  <2> QED
    BY <1>1, <1>2, <1>3, <2>1 DEF Update, Updates
<1>5. Genuine(u)
  BY Zenon DEF Genuine, Update
<1> HIDE DEF u
<1>6. h \in Headers /\ h.update = u
  BY <1>4 DEF Headers
<1> QED
  BY <1>5, <1>6, Zenon DEF Sourced, u

\* The loop of get_update_headers collects such headers, each trusting the slot
\* that the one before finalises.
Collected == [headers : Seq(Sourced), trusted_slot : Slots]

\* The update of a period adds a header of the chain.
LEMMA AddHeaderType ==
    ASSUME ChainOK, NEW acc \in Collected, NEW s \in Published
    PROVE  AddHeader(acc, s) \in Collected
<1> DEFINE f == finality[s]
           h == [active |-> "Next", committee |-> Period(f), update |-> LightClientUpdate(s),
                 trusted_slot |-> acc.trusted_slot]
<1>1. acc.headers \in Seq(Sourced) /\ acc.trusted_slot \in Slots
  BY DEF Collected
<1>2. f \in Slots
  BY PublishedSlot, Zenon
<1>3. h \in Sourced
  <2>1. Period(f) \in Committees
    BY <1>2, PeriodOfSlot, Zenon
  <2>2. LightClientUpdate(s) = Update(s, Period(s - 1) + 1)
    BY Zenon DEF LightClientUpdate
  <2> QED
    BY <1>1, <2>1, <2>2, ServedHeader
<1>4. AddHeader(acc, s) = acc \/
      AddHeader(acc, s) = [headers |-> Append(acc.headers, h), trusted_slot |-> f]
  BY Zenon DEF AddHeader
<1> HIDE DEF h, f
<1>5. Append(acc.headers, h) \in Seq(Sourced)
  BY <1>1, <1>3
<1>6. [headers |-> Append(acc.headers, h), trusted_slot |-> f] \in Collected
  BY <1>2, <1>5 DEF Collected
<1> QED
  BY <1>4, <1>6, Zenon

\* get_update_headers collects headers of the chain, over however many periods.
LEMMA HeadersType ==
    ASSUME ChainOK, NEW latest \in Slots, slot > 0, finality[slot] > latest,
           NEW periods, NEW best \in [periods -> Published]
    PROVE  get_update_headers(latest, best) \in Seq(Sourced)
<1> DEFINE first == Period(latest)
           last == Period(finality[slot])
           base == [headers |-> <<>>, trusted_slot |-> latest]
           Step(p, acc) == IF p \in DOMAIN best THEN AddHeader(acc, best[p]) ELSE acc
           F == [p \in first..last |-> [acc \in Collected |-> Step(p, acc)]]
           Eq(x) == x = [p \in (first - 1)..last |->
                            IF p < first THEN base
                            ELSE IF p \in DOMAIN best THEN AddHeader(x[p - 1], best[p])
                            ELSE x[p - 1]]
           acc == (CHOOSE x : Eq(x))[last]
<1>1. slot \in Published
  BY DEF ChainOK, Published, Slots
<1>2. /\ finality[slot] \in Slots /\ finality[slot] \in Nat /\ slot - 1 \in Slots
  BY <1>1, PublishedSlot, Zenon
<1>3. first \in Nat /\ last \in Nat /\ first <= last
  <2>1. latest \in Nat /\ latest <= finality[slot]
    BY <1>2 DEF Slots
  <2> QED
    BY <1>2, <2>1, PeriodNat, PeriodOrder
<1>4. base \in Collected
  <2>1. <<>> \in Seq(Sourced)
    OBVIOUS
  <2> QED
    BY <2>1 DEF Collected
<1>5. \A p \in first..last, x \in Collected : Step(p, x) \in Collected
  BY AddHeaderType
<1>6. get_update_headers(latest, best) =
        IF acc.headers # <<>> /\ acc.trusted_slot >= finality[slot] THEN acc.headers
        ELSE Append(acc.headers,
                 [active |-> "Current", committee |-> Period(slot - 1),
                  update |-> FinalityUpdate(slot), trusted_slot |-> acc.trusted_slot])
  BY DEF get_update_headers
<1>7. PICK g : Runs(g, first - 1, last, base, F)
  <2>1. first - 1 \in Int /\ last \in Int /\ first - 1 <= last
    BY <1>3
  <2> HIDE DEF first, last, base, F
  <2> QED
    BY <2>1, RunsExist, Zenon
<1> HIDE DEF first, last, base
<1>8. /\ g[first - 1] = base /\ \A p \in first..last : g[p] = F[p][g[p - 1]]
      /\ g = [p \in (first - 1)..last |-> g[p]]
  <2> HIDE DEF F
  <2>1. g = [p \in (first - 1)..last |-> IF p = first - 1 THEN base ELSE F[p][g[p - 1]]]
    BY <1>7, Zenon DEF Runs
  <2>2. /\ first - 1 \in (first - 1)..last
        /\ \A p \in first..last : p \in (first - 1)..last /\ p # first - 1
    BY ONLY <1>3
  <2>3. g[first - 1] = base /\ \A p \in first..last : g[p] = F[p][g[p - 1]]
    BY <2>1, <2>2, Zenon
  <2>4. g = [p \in (first - 1)..last |-> g[p]]
    BY ONLY <2>1
  <2> QED
    BY <2>3, <2>4, Zenon
<1>9. \A p \in (first - 1)..last : g[p] \in Collected
  <2> DEFINE S == {p \in (first - 1)..last : g[p] \in Collected}
  <2>1. first - 1 \in S
    BY <1>3, <1>4, <1>8
  <2>2. ASSUME NEW p \in first..last, p - 1 \in S
        PROVE  p \in S
    <3>1. p \in (first - 1)..last /\ g[p - 1] \in Collected
      BY <1>3, <2>2
    <3>2. g[p] = Step(p, g[p - 1])
      BY <1>8, <2>2, <3>1, Zenon
    <3> HIDE DEF Step
    <3> QED
      BY <1>5, <3>1, <3>2, Zenon
  <2>3. \A p \in (first - 1)..last : p \in S
    <3> HIDE DEF S
    <3>1. first - 1 \in Int /\ last \in Int /\ first = first - 1 + 1
      BY <1>3
    <3> QED
      BY <2>1, <2>2, <3>1, Along, Zenon
  <2> QED
    BY <2>3, Zenon
<1>10. Eq(g)
  <2>1. ASSUME NEW p \in (first - 1)..last
        PROVE  g[p] = IF p < first THEN base ELSE Step(p, g[p - 1])
    <3>1. CASE p < first
      <4>1. p = first - 1
        BY <1>3, <3>1
      <4> QED
        BY <1>8, <3>1, <4>1, Zenon
    <3>2. CASE ~(p < first)
      <4>1. p \in first..last /\ p - 1 \in (first - 1)..last
        BY <1>3, <3>2
      <4> QED
        BY <1>8, <1>9, <3>2, <4>1, Zenon
    <3> QED
      BY <3>1, <3>2
  <2> QED
    BY <1>8, <2>1, Zenon
<1>11. PICK r : r = (CHOOSE x : Eq(x))
  BY Zenon
<1>12. Eq(r)
  BY <1>10, <1>11, Zenon
<1>13. acc \in Collected
  <2> DEFINE S == {p \in (first - 1)..last : r[p] \in Collected}
  <2>1. first - 1 \in S
    <3>1. first - 1 \in (first - 1)..last /\ first - 1 < first
      BY <1>3
    <3>2. r[first - 1] = base
      BY <1>12, <3>1, Zenon
    <3> QED
      BY <1>4, <3>1, <3>2, Zenon
  <2>2. ASSUME NEW p \in first..last, p - 1 \in S
        PROVE  p \in S
    <3>1. p \in (first - 1)..last /\ ~(p < first) /\ r[p - 1] \in Collected
      BY <1>3, <2>2
    <3>2. r[p] = Step(p, r[p - 1])
      BY <1>12, <3>1, Zenon
    <3> HIDE DEF Step
    <3> QED
      BY <1>5, <3>1, <3>2, Zenon
  <2>3. \A p \in (first - 1)..last : p \in S
    <3> HIDE DEF S
    <3>1. first - 1 \in Int /\ last \in Int /\ first = first - 1 + 1
      BY <1>3
    <3> QED
      BY <2>1, <2>2, <3>1, Along, Zenon
  <2>4. last \in (first - 1)..last
    BY <1>3
  <2> QED
    BY <1>11, <2>3, <2>4, Zenon
<1> HIDE DEF acc
<1>14. acc.headers \in Seq(Sourced) /\ acc.trusted_slot \in Slots
  BY <1>13 DEF Collected
<1>15. [active |-> "Current", committee |-> Period(slot - 1), update |-> FinalityUpdate(slot),
        trusted_slot |-> acc.trusted_slot] \in Sourced
  <2>1. Period(slot - 1) \in Committees
    BY <1>2, PeriodOfSlot, Zenon
  <2>2. FinalityUpdate(slot) = Update(slot, None)
    BY Zenon DEF FinalityUpdate
  <2> QED
    BY <1>1, <1>14, <2>1, <2>2, ServedHeader
<1> QED
  BY <1>6, <1>14, <1>15

-----------------------------------------------------------------------------
(* Steps *)

\* The chain has a latest finalised slot.
LEMMA MaxFinalized ==
    ASSUME ChainOK
    PROVE  Max(Finalized) \in Finalized /\ \A x \in Finalized : x <= Max(Finalized)
<1>1. PICK m \in Finalized : \A x \in Finalized : m >= x
  <2>1. slot \in Nat /\ Published = 1..slot
    BY EthereumAssumption DEF ChainOK, Slots, Published
  <2>2. CASE slot = 0
    <3>1. Published = {}
      BY <2>1, <2>2
    <3>2. Finalized = {0}
      BY <3>1, Zenon DEF Finalized
    <3> QED
      BY <3>2
  <2>3. CASE slot # 0
    <3>1. slot \in Published /\ \A s \in Published : s <= slot
      BY <2>1, <2>3
    <3>2. \A s \in Published : finality[s] <= finality[slot]
      BY <3>1, Zenon DEF ChainOK
    <3>3. \A s \in Published : finality[s] \in Nat /\ finality[s] \in Finalized
      BY PublishedSlot, Zenon
    <3>4. \A s \in Published : finality[slot] >= finality[s]
      BY <3>1, <3>2, <3>3
    <3>5. finality[slot] >= 0
      BY <3>1, <3>3
    <3> QED
      BY <3>1, <3>3, <3>4, <3>5, Zenon DEF Finalized
  <2> QED
    BY <2>2, <2>3
<1>2. Max(Finalized) \in Finalized /\ \A x \in Finalized : Max(Finalized) >= x
  BY <1>1, Zenon DEF Max
<1>3. Finalized \subseteq Int
  BY FinalizedSlots, EthereumAssumption DEF Slots
<1> QED
  BY <1>2, <1>3

\* What the chain showed stays, and so does what rests on it.
Grows == Published \subseteq Published' /\ faulty' = faulty /\ \A s \in Published : finality'[s] = finality[s]

\* Updates of the chain remain updates of the chain.
LEMMA GenuineStays ==
    ASSUME Grows
    PROVE  Finalized \subseteq Finalized' /\ Sourced \subseteq Sourced'
<1>1. Finalized \subseteq Finalized'
  BY Zenon DEF Grows, Finalized
<1>2. ASSUME NEW h \in Headers, Genuine(h.update)
      PROVE  Genuine(h.update)'
  BY <1>2, Zenon DEF Grows, Genuine
<1> QED
  BY <1>1, <1>2, Zenon DEF Sourced

\* A storage stays good while the chain grows.
LEMMA GoodStays ==
    ASSUME Grows, NEW st, Good(st), store' = st
    PROVE  Good(store)'
<1>1. Kept(store)'
  BY Zenon DEF Good, Kept
<1>2. ASSUME FewFaulty'
      PROVE  Honest(store)' /\ Named(store)'
  <2>1. FewFaulty
    BY <1>2, Zenon DEF FewFaulty, Grows
  <2>2. Honest(st) /\ Named(st)
    BY <2>1, Zenon DEF Good
  <2>3. Honest(store)'
    BY <2>2, GenuineStays, Zenon DEF Honest
  <2>4. Named(store)'
    BY <2>2, Zenon DEF Named
  <2> QED
    BY <2>3, <2>4
<1> QED
  BY <1>1, <1>2, Zenon DEF Good

\* Transactions made of headers of the chain stay so.
LEMMA JobsStay ==
    ASSUME Grows
    PROVE  Seq(Sourced) \subseteq Seq(Sourced')
<1>1. PICK A, B : A = Sourced /\ B = Sourced'
  BY Zenon
<1>2. A \subseteq B
  BY <1>1, GenuineStays, Zenon
<1>3. Seq(A) \subseteq Seq(B)
  BY ONLY <1>2
<1> QED
  BY <1>1, <1>3, Zenon

\* Most steps leave the chain alone.
LEMMA ChainStays ==
    ASSUME ChainOK, UNCHANGED <<slot, finality, clock, faulty>>
    PROVE  ChainOK' /\ Grows
BY Zenon DEF ChainOK, Grows, Published

\* A transaction on the client: the storage changes, or a request ends.
LEMMA InvStore ==
    ASSUME IInv, UNCHANGED <<slot, finality, clock, faulty>>, job' \in [Workers -> Seq(Sourced')],
           NEW st, Good(st), st.client.is_frozen => faulty >= min_sync_committee_participants,
           store' = st
    PROVE  IInv'
<1>1. ChainOK' /\ Grows
  BY ChainStays, Zenon DEF IInv
<1>2. Good(store)'
  BY <1>1, GoodStays, Zenon
<1>3. FrozenOnlyOnConflict'
  BY Zenon DEF FrozenOnlyOnConflict, min_sync_committee_participants
<1> QED
  BY <1>1, <1>2, <1>3, Zenon DEF IInv

\* A step that touches neither the chain nor the workers keeps their jobs sound.
LEMMA SameJobs ==
    ASSUME IInv, UNCHANGED <<slot, finality, clock, faulty, job>>
    PROVE  job' \in [Workers -> Seq(Sourced')]
<1>1. Seq(Sourced) \subseteq Seq(Sourced')
  BY ChainStays, JobsStay, Zenon DEF IInv
<1> QED
  BY <1>1, Zenon DEF IInv

\* A worker that takes up or ends a transaction leaves every job sound.
LEMMA OtherJob ==
    ASSUME IInv, UNCHANGED <<slot, finality, clock, faulty>>, NEW w \in Workers,
           NEW headers \in Seq(Sourced), job' = [job EXCEPT ![w] = headers]
    PROVE  job' \in [Workers -> Seq(Sourced')]
<1>1. Seq(Sourced) \subseteq Seq(Sourced')
  BY ChainStays, JobsStay, Zenon DEF IInv
<1>2. job' \in [Workers -> Seq(Sourced)]
  BY Zenon DEF IInv
<1> QED
  BY <1>1, <1>2, Zenon

\* What a block shows finalised is not less than what the blocks before showed.
LEMMA InvNextSlot ==
    ASSUME IInv, NextSlot
    PROVE  IInv'
<1>1. PICK f \in Max(Finalized)..slot : finality' = [finality EXCEPT ![slot + 1] = f]
  BY Zenon DEF NextSlot
<1>2. /\ slot' = slot + 1 /\ slot < MaxSlot /\ slot \in Nat /\ MaxSlot \in Nat
      /\ clock' = clock /\ faulty' = faulty /\ store' = store /\ job' = job
  BY EthereumAssumption DEF NextSlot, IInv, ChainOK, Slots
<1>3. ChainOK
  BY Zenon DEF IInv
<1>4. f \in 0..slot /\ \A s \in Published : finality[s] <= f
  <2>1. Max(Finalized) \in Slots /\ \A x \in Finalized : x <= Max(Finalized)
    BY <1>3, MaxFinalized, FinalizedSlots, Zenon
  <2>2. Max(Finalized) \in Nat /\ f \in Int /\ Max(Finalized) <= f /\ f <= slot
    BY <1>2, <2>1 DEF Slots
  <2>3. ASSUME NEW s \in Published
        PROVE  finality[s] <= f
    <3>1. finality[s] \in Nat /\ finality[s] <= Max(Finalized)
      BY <1>3, <2>1, PublishedSlot, Zenon
    <3> QED
      BY ONLY <2>2, <3>1
  <2> QED
    BY <1>2, <2>2, <2>3
<1>5. slot + 1 \in 1..MaxSlot /\ Published' = Published \cup {slot + 1}
  BY <1>2 DEF Published
<1>6. finality' \in [1..MaxSlot -> Slots \cup {None}] /\ finality'[slot + 1] = f
  <2>1. f \in Slots
    BY <1>2, <1>4 DEF Slots
  <2> QED
    BY <1>1, <1>3, <1>5, <2>1, Zenon DEF ChainOK
<1>7. \A s \in Published : s # slot + 1 /\ s \in 1..MaxSlot /\ s <= slot /\ s \in Int
  BY <1>2 DEF Published
<1>8. \A s \in Published : finality'[s] = finality[s]
  BY <1>1, <1>3, <1>7, Zenon DEF ChainOK
<1>9. Grows
  BY <1>2, <1>5, <1>8, Zenon DEF Grows
<1>10. ChainOK'
  <2>1. slot' \in Slots' /\ clock' \in 0..(slot' + 1) /\ faulty' \in 0..sync_committee_size
    BY <1>2, <1>3 DEF ChainOK, Slots
  <2>2. ASSUME NEW s \in Published'
        PROVE  finality'[s] \in 0..(s - 1)
    <3>1. CASE s \in Published
      BY <1>3, <1>8, <3>1, Zenon DEF ChainOK
    <3>2. CASE s = slot + 1
      <4>1. (slot + 1) - 1 = slot
        BY <1>2
      <4> QED
        BY <1>4, <1>6, <3>2, <4>1, Zenon
    <3> QED
      BY <1>5, <3>1, <3>2, Zenon
  <2>3. ASSUME NEW s \in Published', NEW t \in Published', s <= t
        PROVE  finality'[s] <= finality'[t]
    <3>1. CASE s \in Published /\ t \in Published
      BY <1>3, <1>8, <2>3, <3>1, Zenon DEF ChainOK
    <3>2. CASE s \in Published /\ t = slot + 1
      BY <1>4, <1>6, <1>8, <3>2, Zenon
    <3>3. CASE s = slot + 1 /\ t = slot + 1
      <4>1. f <= f
        BY <1>4
      <4> QED
        BY <1>6, <3>3, <4>1, Zenon
    <3>4. CASE s = slot + 1 /\ t \in Published
      <4>1. t <= slot /\ t \in Int
        BY <1>7, <3>4, Zenon
      <4> QED
        BY ONLY <1>2, <2>3, <3>4, <4>1
    <3> QED
      BY <1>5, <3>1, <3>2, <3>3, <3>4, Zenon
  <2> QED
    BY <1>6, <2>1, <2>2, <2>3, Zenon DEF ChainOK
<1>11. PICK st : st = store
  BY Zenon
<1>12. Good(store)'
  BY <1>2, <1>9, <1>11, GoodStays, Zenon DEF IInv
<1>13. job' \in [Workers -> Seq(Sourced')]
  <2>1. Seq(Sourced) \subseteq Seq(Sourced')
    BY <1>9, JobsStay, Zenon
  <2> QED
    BY <1>2, <2>1, Zenon DEF IInv
<1>14. FrozenOnlyOnConflict'
  BY <1>2, Zenon DEF IInv, FrozenOnlyOnConflict, min_sync_committee_participants
<1> QED
  BY <1>10, <1>12, <1>13, <1>14, Zenon DEF IInv

\* The clock of the Cosmos chain advances.
LEMMA InvTick ==
    ASSUME IInv, Tick
    PROVE  IInv'
<1>1. /\ slot' = slot /\ finality' = finality /\ store' = store /\ faulty' = faulty /\ job' = job
      /\ clock <= slot /\ clock' = clock + 1 /\ ChainOK
  BY Zenon DEF Tick, IInv
<1>2. clock' \in 0..(slot + 1)
  BY <1>1, EthereumAssumption DEF ChainOK, Slots
<1>3. ChainOK' /\ Grows
  BY <1>1, <1>2, Zenon DEF ChainOK, Grows, Published
<1>4. PICK st : st = store
  BY Zenon
<1>5. Good(store)'
  BY <1>1, <1>3, <1>4, GoodStays, Zenon DEF IInv
<1>6. job' \in [Workers -> Seq(Sourced')]
  <2>1. Seq(Sourced) \subseteq Seq(Sourced')
    BY <1>3, JobsStay, Zenon
  <2> QED
    BY <1>1, <2>1, Zenon DEF IInv
<1>7. FrozenOnlyOnConflict'
  BY <1>1, Zenon DEF IInv, FrozenOnlyOnConflict, min_sync_committee_participants
<1> QED
  BY <1>3, <1>5, <1>6, <1>7, Zenon DEF IInv

\* The request builds headers from what the node served.
LEMMA InvUpdateClient ==
    ASSUME IInv, NEW w \in Workers, update_client(w)
    PROVE  IInv'
<1>1. PICK latest : latest = store.client.latest_slot
  BY Zenon
<1>2. PICK st : st = store
  BY Zenon
<1>3. /\ slot' = slot /\ finality' = finality /\ clock' = clock /\ faulty' = faulty
      /\ store' = st /\ slot > 0 /\ finality[slot] > latest
  BY <1>1, <1>2, Zenon DEF update_client
<1>4. PICK periods, best :
          /\ best \in [periods -> Published]
          /\ job' = [job EXCEPT ![w] = get_update_headers(latest, best)]
  BY <1>1, Zenon DEF update_client
<1>5. Good(st) /\ (st.client.is_frozen => faulty >= min_sync_committee_participants) /\ ChainOK
  BY <1>2, Zenon DEF IInv, FrozenOnlyOnConflict
<1>6. latest \in Slots
  BY <1>1, <1>2, <1>5 DEF Good, Kept, Stores, ClientStates
<1>7. PICK headers : headers = get_update_headers(latest, best)
  BY Zenon
<1>8. headers \in Seq(Sourced)
  BY <1>3, <1>4, <1>5, <1>6, <1>7, HeadersType, Zenon
<1>9. job' \in [Workers -> Seq(Sourced')]
  BY <1>3, <1>4, <1>7, <1>8, OtherJob, Zenon
<1> QED
  BY <1>3, <1>5, <1>9, InvStore, Zenon

\* A worker's transaction is executed, as a whole or not at all.
LEMMA InvSubmit ==
    ASSUME IInv, NEW w \in Workers, Submit(w)
    PROVE  IInv'
<1>1. PICK st : st = IF Execute(store, job[w]) = None THEN store ELSE Execute(store, job[w])
  BY Zenon
<1>2. /\ slot' = slot /\ finality' = finality /\ clock' = clock /\ faulty' = faulty
      /\ store' = st /\ job' = [job EXCEPT ![w] = <<>>]
  BY <1>1, Zenon DEF Submit
<1>3. PICK frozen : frozen = store.client.is_frozen
  BY Zenon
<1>4. Good(store) /\ ChainOK /\ job[w] \in Seq(Sourced)
  BY Zenon DEF IInv
<1>5. store \in After(frozen)
  BY <1>3, <1>4, Zenon DEF After, Good, Kept
<1>6. Execute(store, job[w]) \in After(frozen)
  BY <1>4, <1>5, ExecuteGood, Zenon
<1>7. Good(st) /\ st.client.is_frozen = frozen
  BY <1>1, <1>3, <1>4, <1>6, Zenon DEF After
<1>8. st.client.is_frozen => faulty >= min_sync_committee_participants
  BY <1>3, <1>7, Zenon DEF IInv, FrozenOnlyOnConflict
<1>9. PICK none : none = <<>>
  BY Zenon
<1>10. none \in Seq(Sourced)
  BY <1>9
<1>11. job' \in [Workers -> Seq(Sourced')]
  BY <1>2, <1>9, <1>10, OtherJob, Zenon
<1> QED
  BY <1>2, <1>7, <1>8, <1>11, InvStore, Zenon

\* A worker's transaction is lost.
LEMMA InvAbandon ==
    ASSUME IInv, NEW w \in Workers, Abandon(w)
    PROVE  IInv'
<1>1. PICK st : st = store
  BY Zenon
<1>2. /\ slot' = slot /\ finality' = finality /\ clock' = clock /\ faulty' = faulty
      /\ store' = st /\ job' = [job EXCEPT ![w] = <<>>]
  BY <1>1, Zenon DEF Abandon
<1>3. Good(st) /\ (st.client.is_frozen => faulty >= min_sync_committee_participants)
  BY <1>1, Zenon DEF IInv, FrozenOnlyOnConflict
<1>4. PICK none : none = <<>>
  BY Zenon
<1>5. none \in Seq(Sourced)
  BY <1>4
<1>6. job' \in [Workers -> Seq(Sourced')]
  BY <1>2, <1>4, <1>5, OtherJob, Zenon
<1> QED
  BY <1>2, <1>3, <1>6, InvStore, Zenon

\* What other relayers can show: an update of the chain under any later signature
\* slot, or one that faulty members sign.
LEMMA CanonicalUpdate ==
    ASSUME ChainOK, NEW u \in Canonical
    PROVE  Typed(u) /\ Genuine(u)
<1>0. PICK s \in Published :
          \E next \in {None, Period(s - 1) + 1}, i \in s..clock :
              u = [Update(s, next) EXCEPT !.signature_slot = i]
  BY DEF Canonical
<1>1. PICK next \in {None, Period(s - 1) + 1}, i \in s..clock :
          u = [Update(s, next) EXCEPT !.signature_slot = i]
  BY <1>0, Zenon
<1>2. /\ u.signature_slot = i /\ u.attested = s - 1 /\ u.finalized = finality[s]
      /\ u.root = "canonical" /\ u.next_sync_committee = next
  BY <1>1 DEF Update
<1>3. i \in Nat
  <2>1. s \in Nat
    BY PublishedSlot, Zenon
  <2>2. clock \in Nat
    BY EthereumAssumption DEF ChainOK, Slots
  <2> QED
    BY <2>1, <2>2
<1>4. Genuine(u)
  BY <1>2, Zenon DEF Genuine
<1>5. Typed(u)
  BY <1>2, <1>3, <1>4, GenuineUpdate, Zenon DEF Typed
<1> QED
  BY <1>4, <1>5

\* An update that the chain did not make is signed by the faulty members alone,
\* unless its committee is forged.
LEMMA InventedUpdate ==
    ASSUME ChainOK, NEW c, NEW u \in Invented(c)
    PROVE  Typed(u) /\ (c # Forged => u.participants = faulty)
<1>0. PICK i \in 1..clock :
          u \in {[signature_slot |-> i, attested |-> a, finalized |-> a, root |-> "fork",
                  next_sync_committee |-> next, signer |-> c,
                  participants |-> IF c = Forged THEN sync_committee_size ELSE faulty] :
                     a \in 0..(i - 1), next \in {None, Forged}}
  BY DEF Invented
<1>1. PICK a \in 0..(i - 1), next \in {None, Forged} :
          u = [signature_slot |-> i, attested |-> a, finalized |-> a, root |-> "fork",
               next_sync_committee |-> next, signer |-> c,
               participants |-> IF c = Forged THEN sync_committee_size ELSE faulty]
  BY <1>0
<1>2. i \in Nat /\ a \in Slots
  BY EthereumAssumption DEF ChainOK, Slots
<1>3. next \in Committees \cup {None}
  BY Zenon DEF Committees
<1>4. /\ u.signature_slot = i /\ u.attested = a /\ u.finalized = a /\ u.root = "fork"
      /\ u.next_sync_committee = next /\ (c # Forged => u.participants = faulty)
  BY ONLY <1>1
<1> QED
  BY <1>2, <1>3, <1>4, Zenon DEF Typed

\* Two headers of one slot: honest members signed the one of the chain, so the
\* faulty ones are enough for the other.
LEMMA Conflict ==
    ASSUME ChainOK, NEW t, NEW active, NEW c, NEW u, u.attested + 1 \in Published,
           u \in Canonical \/ u \in Invented(c),
           verify_misbehaviour(store, t, active, c, FinalityUpdate(u.attested + 1), u)
    PROVE  faulty >= min_sync_committee_participants
<1> DEFINE s == u.attested + 1
<1>1. PICK u1 : u1 = FinalityUpdate(s)
  BY Zenon
<1>2. u1.root = "canonical" /\ u1.signer = Period(s)
  BY <1>1 DEF FinalityUpdate, Update
<1>3. u.root # "canonical"
  BY <1>1, <1>2, Zenon DEF verify_misbehaviour, Conflicting
<1>4. u \in Invented(c)
  <2>1. u \in Canonical => u.root = "canonical"
    BY CanonicalUpdate, GenuineUpdate, Zenon
  <2> QED
    BY <1>3, <2>1, Zenon
<1>5. c = Period(s)
  BY <1>1, <1>2, Zenon DEF verify_misbehaviour, validate_light_client_update, Signed
<1>6. c # Forged
  <2>1. s \in Slots
    BY PublishedSlot, Zenon
  <2> QED
    BY <1>5, <2>1, PeriodOfSlot, Zenon
<1>7. u.participants = faulty
  BY <1>4, <1>6, InventedUpdate, Zenon
<1> QED
  BY <1>7, Zenon DEF verify_misbehaviour, validate_light_client_update

\* Other relayers submit headers and misbehaviour.
LEMMA InvElsewhere ==
    ASSUME IInv, NEW t \in Slots, NEW active \in {"Current", "Next"}, Elsewhere(t, active)
    PROVE  IInv'
<1>1. PICK c : c = CommitteeOf(t, active)
  BY Zenon
<1>2. PICK u : (u \in Canonical \/ u \in Invented(c)) /\ Others(t, active, u)
  BY <1>1, Zenon DEF Elsewhere
<1>3. PICK h : h = [active |-> active, committee |-> c, update |-> u, trusted_slot |-> t]
  BY Zenon
<1>4. h.active = active /\ h.committee = c /\ h.update = u /\ h.trusted_slot = t
  BY ONLY <1>3
<1>5. ChainOK /\ Good(store) /\ FrozenOnlyOnConflict
  BY Zenon DEF IInv
<1>6. Typed(u) /\ Plausible(u, c)
  BY <1>2, <1>5, CanonicalUpdate, InventedUpdate, Zenon DEF Plausible
<1>7. CASE /\ updateClient(store, h) # None
           /\ store' = update_state(store, [update |-> u])
           /\ UNCHANGED <<slot, finality, clock, faulty, migrations, job>>
  <2>1. update_state(store, [update |-> u]) = update_state(store, h)
    BY <1>4 DEF update_state
  <2>2. verify_header(store, h) /\ update_state(store, h) # None /\ ~store.client.is_frozen
    BY <1>7, Zenon DEF updateClient
  <2>3. PICK st : st = update_state(store, h)
    BY Zenon
  <2>4. Good(st)
    BY <1>4, <1>5, <1>6, <2>2, <2>3, UpdateGood, Zenon
  <2>5. ~st.client.is_frozen
    <3>1. Kept(store) /\ Typed(h.update)
      BY <1>4, <1>5, <1>6, Zenon DEF Good
    <3>2. update_state(store, h).client.is_frozen = store.client.is_frozen
      BY <2>2, <3>1, Written
    <3> QED
      BY <2>2, <2>3, <3>2, Zenon
  <2>6. job' \in [Workers -> Seq(Sourced')]
    BY <1>7, SameJobs, Zenon
  <2> QED
    BY <1>7, <2>1, <2>3, <2>4, <2>5, <2>6, InvStore, Zenon
<1>8. CASE /\ u.attested + 1 \in Published
           /\ misbehaviour(t, active, c, FinalityUpdate(u.attested + 1), u)
  <2>1. faulty >= min_sync_committee_participants
    BY <1>2, <1>5, <1>8, Conflict, Zenon DEF misbehaviour
  <2>2. PICK st : st = [store EXCEPT !.client.is_frozen = TRUE]
    BY Zenon
  <2>3. /\ slot' = slot /\ finality' = finality /\ clock' = clock /\ faulty' = faulty
        /\ store' = st /\ job' = job
    BY <1>8, <2>2, Zenon DEF misbehaviour
  <2>4. store \in Stores
    BY <1>5, Zenon DEF Good, Kept
  <2>5. /\ st \in Stores /\ st.consensus = store.consensus
        /\ st.client.latest_slot = store.client.latest_slot
    BY <2>2, <2>4, Zenon DEF Stores, ClientStates
  <2>6. Good(st)
    BY <1>5, <2>5, Zenon DEF Good, Kept, Honest, Named
  <2>7. job' \in [Workers -> Seq(Sourced')]
    BY <2>3, SameJobs, Zenon
  <2> QED
    BY <2>1, <2>3, <2>6, <2>7, InvStore, Zenon
<1> QED
  BY <1>1, <1>2, <1>3, <1>7, <1>8, Zenon DEF Others

\* Governance starts the client again from a finalised slot.
LEMMA InvReinstantiate ==
    ASSUME IInv, NEW s \in Slots, NEW electra \in ElectraEpochs, Reinstantiate(s, electra)
    PROVE  IInv'
<1>1. PICK st : st = [client |-> [latest_slot |-> s, is_frozen |-> FALSE, electra |-> electra],
                      consensus |-> [store.consensus EXCEPT ![s] = Trusted(s)]]
  BY Zenon
<1>2. /\ slot' = slot /\ finality' = finality /\ clock' = clock /\ faulty' = faulty
      /\ store' = st /\ job' = job /\ s \in Finalized /\ s >= store.client.latest_slot
  BY <1>1, Zenon DEF Reinstantiate
<1>3. Good(store) /\ Kept(store)
  BY Zenon DEF IInv, Good
<1>4. /\ store.client.latest_slot \in Slots /\ Slots \subseteq Int
      /\ store.consensus \in [Slots -> ConsensusStates \cup {None}]
  BY <1>3, EthereumAssumption DEF Kept, Stores, ClientStates, Slots
<1>5. /\ Trusted(s) \in ConsensusStates /\ Trusted(s) # None
      /\ Trusted(s).root = "canonical"
      /\ Trusted(s).current_sync_committee = Period(s)
      /\ Trusted(s).next_sync_committee = Period(s) + 1
  <2>1. Trusted(s) \in ConsensusStates
    BY PeriodOfSlot DEF Trusted, ConsensusStates
  <2>2. Trusted(s) # None
    BY <2>1, EthereumAssumption, Zenon
  <2> QED
    BY <2>1, <2>2 DEF Trusted
<1>6. /\ st.client.latest_slot = s /\ st.client.is_frozen = FALSE /\ st \in Stores
      /\ st.consensus[s] = Trusted(s)
      /\ \A x \in Slots : x # s => st.consensus[x] = store.consensus[x]
  <2> HIDE DEF Trusted
  <2> QED
    BY <1>1, <1>4, <1>5 DEF Stores, ClientStates
<1>7. ASSUME NEW x \in Slots, st.consensus[x] # None
      PROVE  x <= s
  <2>1. CASE x = s
    BY <1>4, <2>1
  <2>2. CASE x # s
    <3>1. x <= store.client.latest_slot
      BY <1>3, <1>6, <1>7, <2>2, Zenon DEF Kept
    <3> QED
      BY <1>2, <1>4, <3>1
  <2> QED
    BY <2>1, <2>2
<1>8. Kept(st)
  BY <1>5, <1>6, <1>7, Zenon DEF Kept
<1>9. FewFaulty => Honest(st)
  BY <1>2, <1>3, <1>5, <1>6, PeriodOfSlot, Zenon DEF Good, Honest
<1>10. Named(st)
  BY <1>5, <1>6, Zenon DEF Named
<1>11. Good(st) /\ ~st.client.is_frozen
  BY <1>6, <1>8, <1>9, <1>10, Zenon DEF Good
<1>12. job' \in [Workers -> Seq(Sourced')]
  BY <1>2, SameJobs, Zenon
<1> QED
  BY <1>2, <1>11, <1>12, InvStore, Zenon

\* Governance sets other fork parameters.
LEMMA InvUpdateForkParameters ==
    ASSUME IInv, NEW electra \in ElectraEpochs, UpdateForkParameters(electra)
    PROVE  IInv'
<1>1. PICK st : st = [store EXCEPT !.client.electra = electra]
  BY Zenon
<1>2. /\ slot' = slot /\ finality' = finality /\ clock' = clock /\ faulty' = faulty
      /\ store' = st /\ job' = job
  BY <1>1, Zenon DEF UpdateForkParameters
<1>3. Good(store) /\ store \in Stores
  BY Zenon DEF IInv, Good, Kept
<1>4. /\ st \in Stores /\ st.consensus = store.consensus
      /\ st.client.latest_slot = store.client.latest_slot
      /\ st.client.is_frozen = store.client.is_frozen
  BY <1>1, <1>3 DEF Stores, ClientStates
<1>5. Good(st)
  BY <1>3, <1>4, Zenon DEF Good, Kept, Honest, Named
<1>6. st.client.is_frozen => faulty >= min_sync_committee_participants
  BY <1>4, Zenon DEF IInv, FrozenOnlyOnConflict
<1>7. job' \in [Workers -> Seq(Sourced')]
  BY <1>2, SameJobs, Zenon
<1> QED
  BY <1>2, <1>5, <1>6, <1>7, InvStore, Zenon

\* Every step keeps the invariant.
LEMMA InvNext == IInv /\ [Next]_vars => IInv'
<1> SUFFICES ASSUME IInv, [Next]_vars PROVE IInv'
  BY Zenon
<1>1. CASE UNCHANGED vars
  <2>1. PICK st : st = store
    BY Zenon
  <2>2. /\ slot' = slot /\ finality' = finality /\ clock' = clock /\ faulty' = faulty
        /\ store' = st /\ job' = job
    BY <1>1, <2>1, Zenon DEF vars
  <2>3. Good(st) /\ (st.client.is_frozen => faulty >= min_sync_committee_participants)
    BY <2>1, Zenon DEF IInv, FrozenOnlyOnConflict
  <2>4. job' \in [Workers -> Seq(Sourced')]
    BY <2>2, SameJobs, Zenon
  <2> QED
    BY <2>2, <2>3, <2>4, InvStore, Zenon
<1>2. CASE Next
  BY <1>2, InvNextSlot, InvTick, InvUpdateClient, InvSubmit, InvAbandon, InvElsewhere,
     InvReinstantiate, InvUpdateForkParameters, Zenon DEF Next
<1> QED
  BY <1>1, <1>2, Zenon

\* The client starts from a state of the chain.
LEMMA InvInit == Init => IInv
<1> SUFFICES ASSUME Init PROVE IInv
  BY Zenon
<1>1. 0 \in Slots /\ 0 \in Finalized /\ Slots \subseteq Int /\ 0 <= 0
  BY EthereumAssumption DEF Slots, Finalized
<1>2. ChainOK
  <2>1. slot = 0 /\ clock = 0 /\ faulty \in 0..sync_committee_size /\ clock \in 0..(slot + 1)
    BY EthereumAssumption DEF Init
  <2>2. Published = {}
    BY <2>1 DEF Published
  <2>3. finality \in [1..MaxSlot -> Slots \cup {None}]
    BY Zenon DEF Init
  <2> QED
    BY <1>1, <2>1, <2>2, <2>3, Zenon DEF ChainOK
<1>3. /\ Trusted(0) \in ConsensusStates
      /\ Trusted(0).root = "canonical"
      /\ Trusted(0).current_sync_committee = Period(0)
      /\ Trusted(0).next_sync_committee = Period(0) + 1
  BY <1>1, PeriodOfSlot DEF Trusted, ConsensusStates
<1>4. Trusted(0) # None
  BY <1>3, EthereumAssumption, Zenon
<1>5. /\ store.client.latest_slot = 0 /\ store.client.is_frozen = FALSE /\ store \in Stores
      /\ store.consensus[0] = Trusted(0)
      /\ \A x \in Slots : x # 0 => store.consensus[x] = None
  BY <1>1, <1>3, EthereumAssumption DEF Init, Stores, ClientStates
<1>6. Kept(store)
  BY <1>1, <1>4, <1>5, Zenon DEF Kept
<1>7. Honest(store)
  BY <1>1, <1>3, <1>5, PeriodOfSlot, Zenon DEF Honest
<1>8. Named(store)
  BY <1>3, <1>5, Zenon DEF Named
<1>9. job \in [Workers -> Seq(Sourced)]
  <2>1. <<>> \in Seq(Sourced)
    OBVIOUS
  <2> QED
    BY <2>1, Zenon DEF Init
<1>10. FrozenOnlyOnConflict
  BY <1>5, Zenon DEF FrozenOnlyOnConflict
<1> QED
  BY <1>2, <1>6, <1>7, <1>8, <1>9, <1>10, Zenon DEF IInv, Good

\* The invariant always holds.
LEMMA Invariance == Spec => []IInv
BY InvInit, InvNext, PTL DEF Spec

-----------------------------------------------------------------------------
(* Theorems *)

\* The storage keeps its types, the latest slot has a consensus state, and the
\* headers the proof API puts together are ones the chain finalised
\* (sudo.rs:84-133, tx_builder.rs:193-282).
THEOREM TypeCorrect == Spec => []TypeOK
<1>1. IInv => TypeOK
  <2> SUFFICES ASSUME IInv PROVE TypeOK
    BY Zenon
  <2>1. ChainOK /\ Kept(store) /\ job \in [Workers -> Seq(Sourced)]
    BY Zenon DEF IInv, Good
  <2>2. store.client \in ClientStates /\ store.consensus \in [Slots -> ConsensusStates \cup {None}]
    BY <2>1 DEF Kept, Stores
  <2>3. ASSUME NEW w \in Workers, NEW i \in DOMAIN job[w]
        PROVE  job[w][i] \in Headers /\ job[w][i].update.finalized \in Finalized
    <3>1. PICK headers, set : headers = job[w] /\ set = Sourced
      BY Zenon
    <3>2. headers \in Seq(set) /\ i \in DOMAIN headers
      BY <2>1, <2>3, <3>1, Zenon
    <3>3. headers[i] \in set
      BY ONLY <3>2
    <3>4. job[w][i] \in Sourced
      BY <3>1, <3>3, Zenon
    <3> QED
      BY <2>1, <3>4, GenuineUpdate, Zenon DEF Sourced
  <2> QED
    BY <2>1, <2>2, <2>3, Zenon DEF TypeOK, Kept
<1> QED
  BY <1>1, Invariance, PTL

\* With fewer faulty members than a supermajority, every stored state is one the
\* chain finalised, whichever state it was verified against (verify.rs:47-114,
\* update.rs:8-81).
THEOREM Backed == Spec => []StatesBacked
<1>1. IInv => StatesBacked
  BY Zenon DEF IInv, Good, FewFaulty, Honest, StatesBacked
<1> QED
  BY <1>1, Invariance, PTL

\* The client freezes only when as many members of a committee as
\* verify_misbehaviour asks for signed two headers of a slot (misbehaviour.rs:13-87).
THEOREM FreezeJustified == Spec => []FrozenOnlyOnConflict
<1>1. IInv => FrozenOnlyOnConflict
  BY Zenon DEF IInv
<1> QED
  BY <1>1, Invariance, PTL

\* With fewer faulty members than a supermajority, the latest state names the
\* committees of its own period and of the next, although a header is verified
\* against one state and applied to another (update.rs:41-79).
THEOREM CommitteesFollow == Spec => []LatestCommittees
<1>1. IInv => LatestCommittees
  BY Zenon DEF IInv, Good, FewFaulty, Named, LatestCommittees
<1> QED
  BY <1>1, Invariance, PTL

=============================================================================
