-------------------------- MODULE EthereumLightClient --------------------------
(***************************************************************************)
(* The Ethereum light client on a Cosmos chain (the 08-wasm contract and   *)
(* the package it calls), the beacon chain it follows, the proof API that  *)
(* builds its updates, and other relayers.                                 *)
(*                                                                         *)
(* A sync committee is named by its period; Forged is one that an invented *)
(* header announces.  Trees and their branches are abstracted to what they *)
(* prove: which header an attested header finalised, and which committee   *)
(* follows.  A consensus state keeps root and committees; its slot is its  *)
(* key, its timestamp a function of the slot.                              *)
(***************************************************************************)
EXTENDS Integers, Sequences, FiniteSetsExt

CONSTANTS
    MaxSlot,                           \* bound: slots of the beacon chain
    slots_per_epoch,
    epochs_per_sync_committee_period,
    sync_committee_size,
    FaultyCounts,                      \* how many members of a committee sign anything
    ElectraEpochs,                     \* of the fork parameters governance may set
    MaxMigrations,                     \* bound: newer versions of the contract
    Workers,                           \* concurrent requests to the proof API
    Forged, None

VARIABLES
    slot,        \* of the beacon chain
    finality,    \* [signature slot]: the slot the update shows finalised, or None
    clock,       \* the slot at the Cosmos chain's block time
    store,       \* the contract's storage
    faulty,      \* faulty members in each committee
    migrations,
    job          \* [worker]: the headers of the transaction it will submit

vars == <<slot, finality, clock, store, faulty, migrations, job>>

Slots == 0..MaxSlot
compute_epoch_at_slot(s) == s \div slots_per_epoch
compute_sync_committee_period_at_slot(s) ==
    compute_epoch_at_slot(s) \div epochs_per_sync_committee_period
Period(s) == compute_sync_committee_period_at_slot(s)
Periods == 0..(Period(MaxSlot) + 1)
Committees == Periods \cup {Forged}

ConsensusStates ==
    [root : {"canonical", "fork"}, current_sync_committee : Committees,
     next_sync_committee : Committees \cup {None}]
ClientStates == [latest_slot : Slots, is_frozen : BOOLEAN, electra : ElectraEpochs]
Updates ==
    [signature_slot : Slots, attested : Slots, finalized : Slots, root : {"canonical", "fork"},
     next_sync_committee : Committees \cup {None}, signer : Committees,
     participants : 0..sync_committee_size]
Headers ==
    [active : {"Current", "Next"}, committee : Committees, update : Updates, trusted_slot : Slots]

\* The signature slots of the updates so far, and what they show finalised.
Published == 1..slot
Finalized == {finality[s] : s \in Published} \cup {0}

ASSUME EthereumAssumption ==
    /\ MaxSlot \in Nat \ {0} /\ slots_per_epoch \in Nat \ {0}
    /\ epochs_per_sync_committee_period \in Nat \ {0} /\ sync_committee_size \in Nat \ {0}
    /\ FaultyCounts \subseteq 0..sync_committee_size /\ ElectraEpochs \subseteq Nat
    /\ 0 \in ElectraEpochs /\ MaxMigrations \in Nat
    /\ Forged \notin Periods /\ None \notin Committees \cup Slots \cup ConsensusStates

-----------------------------------------------------------------------------
(* The package: verification of an update against a trusted state *)

\* create_client of the proof API: a third of the committee, rounded up.
min_sync_committee_participants == (sync_committee_size + 2) \div 3
\* Mutant: any number of signers will do.
any_signature(u) == TRUE
validate_signature_supermajority(u) == u.participants * 3 >= sync_committee_size * 2

verify_supported_fork(c, s) == compute_epoch_at_slot(s) >= c.electra

\* The committee submitted must be the one the trusted state names.
TrustedConsensusState(trusted, active, committee) ==
    /\ trusted # None
    /\ committee = IF active = "Current" THEN trusted.current_sync_committee
                   ELSE trusted.next_sync_committee

\* Mutant: the signature must be of the period of the trusted state.
SignaturePeriodSame(stored, signature, active) == active = "Current" /\ signature = stored
\* A Next committee admits a signature of either period, and is then looked for
\* under the period of the signature: only the period it is for remains.
SignaturePeriod(stored, signature, active) ==
    IF active = "Current" THEN signature = stored ELSE signature = stored + 1

\* The finality branch and the branch of the next sync committee.
Proved(u) ==
    \/ u.root = "fork"
    \/ /\ u.attested + 1 \in DOMAIN finality
       /\ u.finalized = finality[u.attested + 1]
       /\ u.next_sync_committee \in {None, Period(u.attested) + 1}

\* fast_aggregate_verify: the signature slot is not signed, the header is.
Signed(u, committee) == u.signer = committee

validate_light_client_update(c, trusted_slot, active, committee, u) ==
    LET stored == Period(trusted_slot)
    IN  /\ Signed(u, committee)
        /\ u.participants >= min_sync_committee_participants
        /\ verify_supported_fork(c, u.attested) /\ verify_supported_fork(c, u.finalized)
        /\ u.finalized # 0
        /\ clock >= u.signature_slot
        /\ u.signature_slot > u.attested /\ u.attested >= u.finalized
        /\ SignaturePeriod(stored, Period(u.signature_slot), active)
        /\ \/ u.attested > trusted_slot
           \/ active = "Current" /\ u.next_sync_committee # None /\ Period(u.attested) = stored
        /\ Proved(u)
        /\ u.next_sync_committee # None /\ Period(u.attested) = stored /\ active = "Next"
              => u.next_sync_committee = committee

\* Mutant: a header may enter a period without naming the next committee.
NextCommitteeOptional(trusted_slot, u) == TRUE
NextCommitteeKnown(trusted_slot, u) ==
    Period(u.finalized) > Period(trusted_slot) => u.next_sync_committee # None

verify_header(st, h) ==
    LET u == h.update
    IN  /\ TrustedConsensusState(st.consensus[h.trusted_slot], h.active, h.committee)
        /\ validate_light_client_update(st.client, h.trusted_slot, h.active, h.committee, u)
        /\ validate_signature_supermajority(u)
        /\ u.finalized > h.trusted_slot
        /\ NextCommitteeKnown(h.trusted_slot, u)

\* Mutant: two updates of one slot are enough.
SameSlot(u1, u2) == u1.attested = u2.attested
Conflicting(u1, u2) == u1.attested = u2.attested /\ u1.root # u2.root

verify_misbehaviour(st, trusted_slot, active, committee, u1, u2) ==
    /\ TrustedConsensusState(st.consensus[trusted_slot], active, committee)
    /\ Conflicting(u1, u2)
    /\ validate_light_client_update(st.client, trusted_slot, active, committee, u1)
    /\ validate_light_client_update(st.client, trusted_slot, active, committee, u2)

-----------------------------------------------------------------------------
(* The contract, as 02-client calls it *)

\* What may be applied to the latest state, whatever state it was verified
\* against: without a next committee the client cannot leave its period.
Updatable(latest, period, u) == latest.next_sync_committee = None => Period(u.finalized) = period

Rotates(period, u) == Period(u.finalized) = period + 1

\* update_consensus_state: the latest state, moved to the finalised slot.
update_consensus_state(latest, period, u) ==
    CASE latest.next_sync_committee = None ->
           [latest EXCEPT !.root = u.root, !.next_sync_committee = u.next_sync_committee]
      [] latest.next_sync_committee # None /\ Rotates(period, u) ->
           [root |-> u.root, current_sync_committee |-> latest.next_sync_committee,
            next_sync_committee |-> u.next_sync_committee]
      [] OTHER -> [latest EXCEPT !.root = u.root]

\* Mutant: the client moves to the attested slot.
latest_slot_attested(c, u) == IF u.finalized > c.latest_slot THEN u.attested ELSE c.latest_slot
latest_slot(c, u) == IF u.finalized > c.latest_slot THEN u.finalized ELSE c.latest_slot

update_state(st, h) ==
    LET u == h.update
        latest == st.consensus[st.client.latest_slot]
        period == Period(st.client.latest_slot)
    IN  IF ~Updatable(latest, period, u) THEN None
        ELSE [client |-> [st.client EXCEPT !.latest_slot = latest_slot(st.client, u)],
              consensus |-> [st.consensus EXCEPT
                                ![u.finalized] = update_consensus_state(latest, period, u)]]

\* MsgUpdateClient: status, verify_client_message, update_state.
updateClient(st, h) ==
    IF st # None /\ ~st.client.is_frozen /\ verify_header(st, h) THEN update_state(st, h) ELSE None

misbehaviour(trusted_slot, active, committee, u1, u2) ==
    /\ ~store.client.is_frozen
    /\ verify_misbehaviour(store, trusted_slot, active, committee, u1, u2)
    /\ store' = [store EXCEPT !.client.is_frozen = TRUE]
    /\ UNCHANGED <<slot, finality, clock, faulty, migrations, job>>

\* instantiate and create_client: a finalised slot and both its committees.
Trusted(s) ==
    [root |-> "canonical", current_sync_committee |-> Period(s), next_sync_committee |-> Period(s) + 1]

\* migrate; a migration of the code only changes nothing here.  Governance is
\* assumed to restart the client no earlier than where it stands: the states it
\* stored remain, newer ones too.
Reinstantiate(s, electra) ==
    /\ migrations < MaxMigrations /\ migrations' = migrations + 1
    /\ s \in Finalized /\ s >= store.client.latest_slot
    /\ compute_epoch_at_slot(s) >= electra
    /\ store' = [client |-> [latest_slot |-> s, is_frozen |-> FALSE, electra |-> electra],
                 consensus |-> [store.consensus EXCEPT ![s] = Trusted(s)]]
    /\ UNCHANGED <<slot, finality, clock, faulty, job>>

UpdateForkParameters(electra) ==
    /\ migrations < MaxMigrations /\ migrations' = migrations + 1
    /\ store' = [store EXCEPT !.client.electra = electra]
    /\ UNCHANGED <<slot, finality, clock, faulty, job>>

-----------------------------------------------------------------------------
(* The beacon chain *)

\* A block, signed by the next one, that may show more finalised than before.
NextSlot ==
    /\ slot < MaxSlot /\ slot <= clock
    /\ slot' = slot + 1
    /\ \E f \in Max(Finalized)..slot : finality' = [finality EXCEPT ![slot + 1] = f]
    /\ UNCHANGED <<clock, store, faulty, migrations, job>>

\* The block time of the Cosmos chain.  Bound: a slot behind or ahead.
Tick ==
    /\ clock <= slot
    /\ clock' = clock + 1
    /\ UNCHANGED <<slot, finality, store, faulty, migrations, job>>

\* The update signed at slot s, as a node serves it, with the next committee or without.
Update(s, next) ==
    [signature_slot |-> s, attested |-> s - 1, finalized |-> finality[s], root |-> "canonical",
     next_sync_committee |-> next, signer |-> Period(s), participants |-> sync_committee_size]
LightClientUpdate(s) == Update(s, Period(s - 1) + 1)
FinalityUpdate(s) == Update(s, None)

-----------------------------------------------------------------------------
(* The proof API: update_client and the updates of relay_events *)

\* The updates a node may hold as the best one of a period.
InPeriod(p) == {s \in Published : Period(s - 1) = p /\ Period(s) = p}
BestUpdates(p) ==
    LET finalising == {s \in InPeriod(p) : Period(finality[s]) = p}
    IN  IF finalising # {} THEN finalising ELSE InPeriod(p)

\* One turn of the loop of get_update_headers: a header into a new period.
AddHeader(acc, s) ==
    LET f == finality[s]
    IN  IF f <= acc.trusted_slot \/ Period(f) = Period(acc.trusted_slot) THEN acc
        ELSE [headers |-> Append(acc.headers,
                  [active |-> "Next", committee |-> Period(f), update |-> LightClientUpdate(s),
                   trusted_slot |-> acc.trusted_slot]),
              trusted_slot |-> f]

\* `best`: by period, the signature slot of the update the node served.
get_update_headers(latest, best) ==
    LET first == Period(latest)
        last == Period(finality[slot])
        loop[p \in (first - 1)..last] ==
            IF p < first THEN [headers |-> <<>>, trusted_slot |-> latest]
            ELSE IF p \in DOMAIN best THEN AddHeader(loop[p - 1], best[p])
            ELSE loop[p - 1]
        acc == loop[last]
    IN  IF acc.headers # <<>> /\ acc.trusted_slot >= finality[slot] THEN acc.headers
        ELSE Append(acc.headers,
                 [active |-> "Current", committee |-> Period(slot - 1),
                  update |-> FinalityUpdate(slot), trusted_slot |-> acc.trusted_slot])

update_client(w) ==
    LET latest == store.client.latest_slot
    IN  /\ job[w] = <<>>
        /\ slot > 0 /\ finality[slot] > latest
        /\ LET periods == {p \in Period(latest)..Period(finality[slot]) : InPeriod(p) # {}}
           IN  \E best \in [periods -> Published] :
                  /\ \A p \in periods : best[p] \in BestUpdates(p)
                  /\ job' = [job EXCEPT ![w] = get_update_headers(latest, best)]
        /\ UNCHANGED <<slot, finality, clock, store, faulty, migrations>>

\* The storage after the messages of a transaction, one after the other.
Execute(st, headers) ==
    LET after[n \in 0..Len(headers)] ==
            IF n = 0 THEN st ELSE updateClient(after[n - 1], headers[n])
    IN  after[Len(headers)]

\* One transaction carries all headers; one that fails undoes the others.
Submit(w) ==
    /\ job[w] # <<>>
    /\ clock > job[w][Len(job[w])].update.signature_slot
    /\ LET st == Execute(store, job[w])
       IN  store' = IF st = None THEN store ELSE st
    /\ job' = [job EXCEPT ![w] = <<>>]
    /\ UNCHANGED <<slot, finality, clock, faulty, migrations>>

\* wait_for_cosmos_chain_to_catch_up gave up, or the transaction was lost.
Abandon(w) ==
    /\ job[w] # <<>>
    /\ job' = [job EXCEPT ![w] = <<>>]
    /\ UNCHANGED <<slot, finality, clock, store, faulty, migrations>>

-----------------------------------------------------------------------------
(* Other relayers, who may submit any header that is signed *)

Canonical ==
    UNION {{[Update(s, next) EXCEPT !.signature_slot = i] :
                next \in {None, Period(s - 1) + 1}, i \in s..clock} : s \in Published}

\* A header that only the faulty members of a committee sign, which claims to
\* be final itself.
Invented(committee) ==
    UNION {{[signature_slot |-> i, attested |-> a, finalized |-> a, root |-> "fork",
             next_sync_committee |-> next, signer |-> committee,
             participants |-> IF committee = Forged THEN sync_committee_size ELSE faulty] :
                a \in 0..(i - 1), next \in {None, Forged}} : i \in 1..clock}

CommitteeOf(t, active) ==
    IF active = "Current" THEN store.consensus[t].current_sync_committee
    ELSE store.consensus[t].next_sync_committee

Others(t, active, u) ==
    LET c == CommitteeOf(t, active)
    IN  \/ /\ updateClient(store, [active |-> active, committee |-> c, update |-> u,
                                  trusted_slot |-> t]) # None
           /\ store' = update_state(store, [update |-> u])
           /\ UNCHANGED <<slot, finality, clock, faulty, migrations, job>>
        \/ /\ u.attested + 1 \in Published
           /\ misbehaviour(t, active, c, FinalityUpdate(u.attested + 1), u)

Elsewhere(t, active) ==
    /\ ~store.client.is_frozen /\ store.consensus[t] # None
    /\ \/ \E u \in Canonical : Others(t, active, u)
       \/ \E u \in Invented(CommitteeOf(t, active)) : Others(t, active, u)

-----------------------------------------------------------------------------
Init ==
    /\ slot = 0 /\ clock = 0
    /\ finality = [s \in 1..MaxSlot |-> None]
    /\ store = [client |-> [latest_slot |-> 0, is_frozen |-> FALSE, electra |-> 0],
                consensus |-> [s \in Slots |-> IF s = 0 THEN Trusted(0) ELSE None]]
    /\ faulty \in FaultyCounts
    /\ migrations = 0
    /\ job = [w \in Workers |-> <<>>]

Next ==
    \/ NextSlot \/ Tick
    \/ \E w \in Workers : update_client(w) \/ Submit(w) \/ Abandon(w)
    \/ \E t \in Slots, active \in {"Current", "Next"} : Elsewhere(t, active)
    \/ \E s \in Slots, electra \in ElectraEpochs : Reinstantiate(s, electra)
    \/ \E electra \in ElectraEpochs : UpdateForkParameters(electra)

Spec == Init /\ [][Next]_vars

\* Time passes on the Cosmos chain, and a worker keeps asking for updates and
\* submitting them.
FairSpec ==
    /\ Spec /\ WF_vars(Tick)
    /\ \A w \in Workers : WF_vars(update_client(w)) /\ SF_vars(Submit(w))

-----------------------------------------------------------------------------
(* Properties *)

\* Storage keeps its types, the latest slot has a consensus state, and the
\* proof API never builds a header beyond what the chain finalised.
TypeOK ==
    /\ store.client \in ClientStates
    /\ store.consensus \in [Slots -> ConsensusStates \cup {None}]
    /\ store.consensus[store.client.latest_slot] # None
    /\ \A w \in Workers : \A i \in DOMAIN job[w] :
          job[w][i] \in Headers /\ job[w][i].update.finalized \in Finalized

\* Fewer than two thirds of a committee cannot bring in a state: whatever the
\* client stores was finalised by the chain, whichever stored state, old or
\* overwritten, it was verified against.
StatesBacked ==
    faulty * 3 < sync_committee_size * 2 =>
        \A s \in Slots : store.consensus[s] # None =>
            store.consensus[s].root = "canonical" /\ s \in Finalized

\* The client freezes only if members of a committee signed two headers of a
\* slot, a third of it at least: verify_misbehaviour asks for no more.
FrozenOnlyOnConflict ==
    store.client.is_frozen => faulty >= min_sync_committee_participants

\* The latest state names the committees of its period, whatever was verified
\* against which older state: update_state applies a header to the latest state,
\* verify_client_message checked it against the trusted one.
LatestCommittees ==
    faulty * 3 < sync_committee_size * 2 =>
        LET s == store.client.latest_slot
        IN  /\ store.consensus[s].current_sync_committee = Period(s)
            /\ store.consensus[s].next_sync_committee = Period(s) + 1

\* Every period so far showed a slot of its own finalised, signed in the same
\* period, and so did the newest update.
Healthy ==
    /\ Period(slot) = Period(finality[slot])
    /\ \A p \in 0..Period(slot) : \E s \in InPeriod(p) : Period(finality[s]) = p

\* A client that lags behind, by one period or by several, reaches the slot the
\* chain finalised, although other relayers move it between the request's reading
\* of its state and the transaction, unless it is frozen.
UpdatesArrive ==
    (slot = MaxSlot /\ Healthy) ~>
        (store.client.latest_slot = Max(Finalized) \/ store.client.is_frozen)

=============================================================================
