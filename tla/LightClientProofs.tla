--------------------------- MODULE LightClientProofs ---------------------------
(***************************************************************************)
(* The light clients for every number of signers, requests, blocks and     *)
(* forks: what they store was signed by enough signers, they freeze only   *)
(* on a conflict, and what they have settled stays.                        *)
(*                                                                         *)
(* Every step does one of three things to a client (StoreStep): it leaves  *)
(* it alone, stores a signed block at a free height, or freezes it on a    *)
(* conflict.  This needs SigsSound: an account that says that signatures   *)
(* are valid is right.  The invariants follow from that and from votes     *)
(* only being added (Grows).                                               *)
(***************************************************************************)
EXTENDS LightClientUpdates, FiniteSetTheorems, TLAPS

\* Accounts made by pre_verify_signature tell the truth about good signatures.
SigsSound == \A b \in Blocks : sigs[b] # None /\ sigs[b].is_valid => Signed(b)

\* Each stored state is that of one signed block.
StoredSigned ==
    \A h \in Heights : consensus[h] # None =>
        \E b \in Blocks : b.height = h /\ StateOf(b) = consensus[h] /\ Signed(b)

Shape ==
    /\ tip \in Heights /\ votes \in [Signers -> SUBSET Blocks]
    /\ consensus = [h \in Heights |-> consensus[h]]
    /\ sigs = [b \in Blocks |-> sigs[b]]
    /\ latest \in Nat /\ frozen \in BOOLEAN

IInv == Shape /\ SigsSound /\ StoredSigned /\ FrozenOnlyOnConflict /\ LatestIsStored

Grows == \A s \in Signers : votes[s] \subseteq votes'[s]

StoreBlock(b) ==
    /\ ~frozen /\ frozen' = frozen
    /\ Signed(b) /\ consensus[b.height] = None
    /\ consensus' = [consensus EXCEPT ![b.height] = StateOf(b)]
    /\ latest' \in {b.height, _raiseLatest(b.height)}
    /\ kind # "tendermint" => latest' = _raiseLatest(b.height)

Froze ==
    /\ ~frozen /\ frozen' = TRUE /\ consensus' = consensus /\ latest' = latest
    /\ \E b, c \in Blocks : Signed(b) /\ Signed(c) /\ Conflict(b, c)

StoreStep == UNCHANGED store \/ (\E b \in Blocks : StoreBlock(b)) \/ Froze

SigsStep ==
    /\ sigs' = [b \in Blocks |-> sigs'[b]]
    /\ \A b \in Blocks : sigs'[b] # None /\ sigs'[b].is_valid =>
            (sigs[b] # None /\ sigs[b].is_valid) \/ Signed(b)

VotesStep == tip' \in Heights /\ votes' \in [Signers -> SUBSET Blocks] /\ Grows

-----------------------------------------------------------------------------
\* What is known of a block: its height and time are numbers in range.
LEMMA BlockType ==
    ASSUME NEW b \in Blocks
    PROVE  /\ b.height \in Heights /\ b.time \in Times
           /\ StateOf(b) \in States /\ StateOf(b) # None
           /\ b.height \in Nat /\ b.time \in Nat
  <1>1. b.height \in Heights /\ b.time \in Times /\ b.root \in {"true", "fork"}
    BY LightClientAssumption DEF Blocks, Canonical, Heights, Times
  <1>2. StateOf(b) \in States
    BY <1>1 DEF StateOf, States
  <1> QED
    BY <1>1, <1>2, LightClientAssumption DEF Heights, Times

\* The signers that vote for a block are finitely many.
LEMMA SignersFinite ==
    ASSUME NEW S \in SUBSET Signers
    PROVE  IsFiniteSet(S) /\ Cardinality(S) \in Nat
  BY LightClientAssumption, FS_Subset, FS_CardinalityType

\* A block stays signed when votes are added.
LEMMA SignedStays ==
    ASSUME Grows, NEW b, Signed(b)
    PROVE  Signed(b)'
  <1> DEFINE S == {s \in Signers : b \in votes[s]}
             T == {s \in Signers : b \in votes'[s]}
  <1>1. S \subseteq T /\ T \subseteq Signers
    BY DEF Grows
  <1>2. Cardinality(S) <= Cardinality(T) /\ Cardinality(S) \in Nat /\ Cardinality(T) \in Nat
    BY <1>1, SignersFinite, FS_Subset
  <1>3. Cardinality(S) >= Threshold
    BY DEF Signed
  <1>4. Cardinality(T) >= Threshold
    <2> HIDE DEF S, T
    <2> QED BY <1>2, <1>3, LightClientAssumption
  <1> QED
    BY <1>4 DEF Signed

\* Distinct attestors that signed a block, as many as the threshold, are a quorum.
LEMMA AttestedSigned ==
    ASSUME NEW n \in Nat, NEW A, NEW signatures \in [1..n -> A], NEW b,
           verify_attestation(b, signatures)
    PROVE  Signed(b) /\ \E s \in Signers : b \in votes[s]
  <1> DEFINE S == {s \in Signers : b \in votes[s]}
  <1>1. DOMAIN signatures = 1..n
    OBVIOUS
  <1>2. signatures \in Injection(1..n, S)
    BY <1>1 DEF verify_attestation, Injection, IsInjective
  <1>3. IsFiniteSet(S) /\ Cardinality(S) \in Nat
    BY SignersFinite
  <1>4. Cardinality(1..n) <= Cardinality(S)
    BY <1>2, <1>3, FS_Injection
  <1>5. Cardinality(1..n) >= Threshold /\ Cardinality(1..n) \in Nat
    BY SMTT(40), <1>1, FS_Interval DEF verify_attestation
  <1>6. Cardinality(S) >= Threshold
    <2> HIDE DEF S
    <2> QED BY <1>3, <1>4, <1>5, LightClientAssumption
  <1>7. 1 \in 1..n
    BY <1>5, FS_Interval, LightClientAssumption
  <1> QED
    BY <1>1, <1>6, <1>7 DEF Signed, verify_attestation

-----------------------------------------------------------------------------
\* Signatures that the Solana client accepts are good, whether it reads their
\* accounts or verifies them itself.
LEMMA VerifiedSigned ==
    ASSUME SigsSound, NEW b \in Blocks, NEW passed, verify(b, passed)
    PROVE  Signed(b)
  BY Zenon DEF SigsSound, verify

\* The time of a stored state is a number.
LEMMA StoredTime ==
    ASSUME StoredSigned, NEW h \in Heights, consensus[h] # None
    PROVE  consensus[h].time \in Nat
  <1>1. PICK b \in Blocks : StateOf(b) = consensus[h]
    BY Zenon DEF StoredSigned
  <1> QED
    BY <1>1, BlockType DEF StateOf

\* A signed block for a known height changes nothing or freezes the client on
\* the conflict with the stored block.
LEMMA KnownHeight ==
    ASSUME IInv, NEW b \in Blocks, Signed(b), ~frozen, consensus[b.height] # None,
           frozen' = (consensus[b.height] # StateOf(b)), UNCHANGED <<consensus, latest>>
    PROVE  StoreStep
  <1>1. CASE consensus[b.height] = StateOf(b)
    <2>1. frozen' = FALSE /\ frozen = FALSE
      BY <1>1, Zenon DEF IInv, Shape
    <2> QED
      BY <2>1, Zenon DEF StoreStep, store
  <1>2. CASE consensus[b.height] # StateOf(b)
    <2>1. PICK c \in Blocks : c.height = b.height /\ StateOf(c) = consensus[b.height] /\ Signed(c)
      BY BlockType, Zenon DEF IInv, StoredSigned
    <2>2. Conflict(b, c)
      BY <1>2, <2>1, Zenon DEF Conflict
    <2>3. frozen' = TRUE
      BY <1>2, Zenon
    <2> QED
      BY <2>1, <2>2, <2>3, Zenon DEF StoreStep, Froze
  <1> QED
    BY <1>1, <1>2

\* The test on times that the Tendermint clients repeat has been made by the
\* verifier, so that it decides nothing.
LEMMA TimesIncrease ==
    ASSUME IInv, NEW b \in Blocks, NEW t \in Heights, consensus[t] # None,
           b.time > consensus[t].time
    PROVE  ~(consensus[t].time >= b.time)
  <1>1. consensus[t].time \in Nat
    BY StoredTime, Zenon DEF IInv
  <1>2. b.time \in Nat
    BY BlockType, Zenon
  <1> QED
    BY <1>1, <1>2

\* store_consensus_state takes a verified header as StoreStep says.
LEMMA TendermintStore ==
    ASSUME IInv, NEW b \in Blocks, NEW t \in Heights, consensus[t] # None,
           b.time > consensus[t].time, Signed(b), ~frozen, kind = "tendermint",
           store_consensus_state(b, consensus[t])
    PROVE  StoreStep
  <1>1. CASE consensus[b.height] = None
    BY <1>1 DEF store_consensus_state, StoreStep, StoreBlock
  <1>2. CASE consensus[b.height] # None
    <2>1. ~(consensus[t].time >= b.time)
      BY TimesIncrease, Zenon
    <2>2. frozen' = (consensus[b.height] # StateOf(b)) /\ UNCHANGED <<consensus, latest>>
      BY <1>2, <2>1, Zenon DEF store_consensus_state
    <2> QED
      BY <1>2, <2>2, KnownHeight, Zenon
  <1> QED
    BY <1>1, <1>2

\* So does updateClient of the SP1 client.
LEMMA SP1Store ==
    ASSUME IInv, NEW header, NEW at, NEW withMembership,
           updateClient(header, at, withMembership)
    PROVE  StoreStep
  <1> DEFINE b == header.block
             t == header.trusted
  <1>1. /\ b \in Blocks /\ t \in Heights /\ consensus[t] # None
        /\ b.time > consensus[t].time /\ Signed(b)
    BY Zenon DEF updateClient, verify_header, verify_misbehaviour_header
  <1>2. ~frozen /\ kind = "sp1"
    BY Zenon DEF updateClient
  <1>3. CASE consensus[b.height] = None
    <2>1. /\ consensus' = [consensus EXCEPT ![b.height] = StateOf(b)]
          /\ latest' = _raiseLatest(b.height) /\ frozen' = frozen
      BY <1>3, Zenon DEF updateClient
    <2> QED
      BY <1>1, <1>2, <1>3, <2>1, Zenon DEF StoreStep, StoreBlock
  <1>4. CASE consensus[b.height] # None
    <2>1. ~(consensus[t].time >= b.time)
      BY <1>1, TimesIncrease, Zenon
    <2>2. frozen' = (consensus[b.height] # StateOf(b)) /\ UNCHANGED <<consensus, latest>>
      BY <1>4, <2>1, Zenon DEF updateClient
    <2> QED
      BY <1>1, <1>2, <1>4, <2>2, KnownHeight, Zenon
  <1> QED
    BY <1>3, <1>4

\* And update_client of the attestation clients.
LEMMA AttestationStore ==
    ASSUME IInv, NEW b, NEW n \in Nat, NEW A, NEW signatures \in [1..n -> A],
           update_client(b, signatures)
    PROVE  StoreStep
  <1>0. verify_attestation(b, signatures) /\ ~frozen
    BY Zenon DEF update_client
  <1>1. Signed(b) /\ ~frozen /\ b \in Blocks
    <2>1. Signed(b) /\ \E s \in Signers : b \in votes[s]
      BY Zenon, <1>0, AttestedSigned
    <2> QED
      BY <1>0, <2>1 DEF IInv, Shape
  <1>2. CASE consensus[b.height] = None
    <2>1. /\ consensus' = [consensus EXCEPT ![b.height] = StateOf(b)]
          /\ latest' = _raiseLatest(b.height) /\ frozen' = frozen
      BY <1>2, Zenon DEF update_client
    <2> QED
      BY <1>1, <1>2, <2>1, Zenon DEF StoreStep, StoreBlock
  <1>3. CASE consensus[b.height] # None
    <2>1. frozen' = (consensus[b.height] # StateOf(b)) /\ UNCHANGED <<consensus, latest>>
      BY <1>3, Zenon DEF update_client
    <2> QED
      BY <1>1, <1>3, <2>1, KnownHeight, Zenon
  <1> QED
    BY <1>2, <1>3

-----------------------------------------------------------------------------
\* Confirmed misbehaviour is a conflict of two signed blocks.
LEMMA MisbehaviourFreezes ==
    ASSUME IInv, ~frozen, frozen' = TRUE, UNCHANGED <<consensus, latest>>,
           NEW header1, NEW header2, NEW at, NEW commit1, NEW commit2,
           check_for_misbehaviour(header1, header2, at, commit1, commit2),
           commit1 /\ header1.block \in Blocks => Signed(header1.block),
           commit2 /\ header2.block \in Blocks => Signed(header2.block)
    PROVE  StoreStep
  <1>1. /\ header1.block \in Blocks /\ header2.block \in Blocks /\ commit1 /\ commit2
        /\ Conflict(header1.block, header2.block)
    BY Zenon DEF check_for_misbehaviour, verify_misbehaviour_header
  <1> QED
    BY <1>1, Zenon DEF StoreStep, Froze

\* The last transaction of a request does to the client what StoreStep says.
LEMMA SubmitStep ==
    ASSUME IInv, NEW w \in Workers, Submit(w)
    PROVE  StoreStep /\ UNCHANGED <<kind, source, sigs>>
  <1> DEFINE b == job[w].block
             header == [block |-> b, trusted |-> job[w].trusted]
  <1>1. CASE assemble_and_update_client(Key[w], b.height, job[w].trusted, ~SkipPreVerify)
    <2> DEFINE h == [p \in HeaderParts |-> chunks[<<Key[w], b.height, p>>]]
               t == job[w].trusted
    <2>1. /\ kind = "tendermint" /\ ~frozen /\ h.trusted = t
          /\ verify_header(h, now, verify(h.block, ~SkipPreVerify))
          /\ store_consensus_state(h.block, consensus[t])
          /\ UNCHANGED <<kind, now, source, accounts>>
      BY <1>1, Zenon DEF assemble_and_update_client
    <2>2. /\ h.block \in Blocks /\ t \in Heights /\ consensus[t] # None
          /\ h.block.time > consensus[t].time /\ verify(h.block, ~SkipPreVerify)
      <3> HIDE DEF h
      <3> QED BY <2>1, Zenon DEF verify_header, verify_misbehaviour_header
    <2>3. Signed(h.block)
      <3> HIDE DEF h
      <3> QED BY <2>2, VerifiedSigned, Zenon DEF IInv
    <2>4. StoreStep
      <3> HIDE DEF h, t
      <3> QED BY <2>1, <2>2, <2>3, TendermintStore, Zenon
    <2> QED
      BY <2>1, <2>4 DEF source, accounts
  <1>2. CASE \E withMembership \in BOOLEAN : updateClient(header, job[w].at, withMembership)
    <2> HIDE DEF header
    <2>1. PICK withMembership \in BOOLEAN : updateClient(header, job[w].at, withMembership)
      BY <1>2, Zenon
    <2>2. StoreStep
      BY <2>1, SP1Store, Zenon
    <2> QED
      BY <2>1, <2>2 DEF updateClient, source, accounts
  <1>3. CASE \E signatures \in build_solana_membership_proof(cache[b.height]) : update_client(b, signatures)
    <2>1. PICK signatures \in [1..Threshold -> cache[b.height].signers] : update_client(b, signatures)
      BY <1>3, Zenon DEF build_solana_membership_proof, Injection
    <2>2. Threshold \in Nat
      BY LightClientAssumption, SignersFinite
    <2>3. StoreStep
      BY <2>1, <2>2, AttestationStore, Zenon
    <2> QED
      BY <2>1, <2>3 DEF update_client, source, accounts
  <1> QED
    BY <1>1, <1>2, <1>3, Zenon DEF Submit

\* pre_verify_signature records no bad signature as good.
LEMMA PreVerifyStep ==
    ASSUME Shape, NEW k, NEW b, NEW verified, pre_verify_signature(k, b, verified)
    PROVE  SigsStep
  <1> DEFINE account == [is_valid |-> verified, submitter |-> k]
  <1>1. sigs' = [sigs EXCEPT ![b] = account] /\ (verified => Signed(b))
    BY Zenon DEF pre_verify_signature
  <1>2. account.is_valid = verified
    OBVIOUS
  <1> HIDE DEF account
  <1>3. sigs = [c \in Blocks |-> sigs[c]]
    BY Zenon DEF Shape
  <1>4. sigs' = [c \in Blocks |-> sigs'[c]]
    BY <1>1, <1>3
  <1>5. ASSUME NEW c \in Blocks PROVE sigs'[c] = IF c = b THEN account ELSE sigs[c]
    BY <1>1, <1>3
  <1>6. ASSUME NEW c \in Blocks, sigs'[c] # None, sigs'[c].is_valid
        PROVE  (sigs[c] # None /\ sigs[c].is_valid) \/ Signed(c)
    <2>1. CASE c = b
      <3>1. sigs'[c] = account
        BY <1>5, <2>1, Zenon
      <3>2. verified
        BY <1>6, <1>2, <3>1, Zenon
      <3> QED
        BY <1>1, <2>1, <3>2, Zenon
    <2>2. CASE c # b
      BY <1>5, <1>6, <2>2, Zenon
    <2> QED
      BY <2>1, <2>2
  <1> QED
    BY <1>4, <1>6, Zenon DEF SigsStep

\* Closing accounts records nothing.
LEMMA CleanupStep ==
    ASSUME Shape, NEW k, NEW target, NEW passed,
           cleanup_incomplete_upload(k, target, passed)
    PROVE  SigsStep
  <1>1. sigs' = [c \in Blocks |-> IF c \in passed /\ sigs[c] # None /\ sigs[c].submitter = k
                                  THEN None ELSE sigs[c]]
    BY Zenon DEF cleanup_incomplete_upload
  <1>2. sigs' = [c \in Blocks |-> sigs'[c]]
    BY <1>1
  <1>3. ASSUME NEW c \in Blocks PROVE sigs'[c] \in {sigs[c], None}
    BY <1>1
  <1> QED
    BY <1>2, <1>3, Zenon DEF SigsStep

\* Neither does a step that leaves the accounts and the votes alone.
LEMMA SameSigs ==
    ASSUME Shape, sigs' = sigs
    PROVE  SigsStep
  BY Zenon DEF Shape, SigsStep

\* The other chain doing nothing is a step of its voters.
LEMMA SameVotes ==
    ASSUME Shape, UNCHANGED source
    PROVE  VotesStep
  BY Zenon DEF Shape, VotesStep, Grows, source

\* The other chain and its faulty signers only add votes.
LEMMA VotesAdded ==
    ASSUME Shape,
           Decide \/ \E s \in Faulty, b \in Forks : SignFork(s, b)
    PROVE  VotesStep
  <1>1. CASE Decide
    <2>1. votes' = [s \in Signers |-> votes[s] \cup {Canonical(tip + 1)}]
      BY <1>1, Zenon DEF Decide
    <2>2. tip' = tip + 1 /\ tip + 1 \in Heights
      BY <1>1, LightClientAssumption DEF Decide, Shape, Heights
    <2>3. Canonical(tip + 1) \in Blocks
      BY <2>2, Zenon DEF Blocks
    <2> QED
      BY <2>1, <2>2, <2>3, Zenon DEF VotesStep, Grows, Shape
  <1>2. ASSUME NEW s \in Faulty, NEW b \in Forks, SignFork(s, b) PROVE VotesStep
    <2>1. votes' = [votes EXCEPT ![s] = @ \cup {b}] /\ b \in Blocks /\ s \in Signers /\ tip' = tip
      BY <1>2, LightClientAssumption, Zenon DEF SignFork, Blocks
    <2> QED
      BY <2>1 DEF VotesStep, Grows, Shape
  <1> QED
    BY <1>1, <1>2

-----------------------------------------------------------------------------
ClientStep == StoreStep /\ kind' = kind /\ VotesStep /\ SigsStep

\* A step that changes nothing of the client and its signers.
LEMMA Idle ==
    ASSUME IInv, UNCHANGED <<kind, source, store, sigs>>
    PROVE  ClientStep
  <1>1. UNCHANGED source /\ sigs' = sigs /\ Shape
    BY Zenon DEF IInv
  <1> QED
    BY <1>1, SameVotes, SameSigs, Zenon DEF ClientStep, StoreStep

\* A step that changes nothing is a step of the client.
LEMMA AllIdle ==
    ASSUME IInv, UNCHANGED vars
    PROVE  ClientStep
  <1>1. UNCHANGED <<kind, source, store, sigs>>
    BY DEF vars, accounts
  <1> QED
    BY <1>1, Idle, Zenon

\* Requests: only the last transaction touches the client's states.
LEMMA WorkerStep ==
    ASSUME IInv, NEW w \in Workers,
           Request(w) \/ Prepare(w) \/ Submit(w) \/ Finish(w) \/ Crash(w)
    PROVE  ClientStep
  <1>0. Shape
    BY Zenon DEF IInv
  <1>1. CASE Request(w)
    <2>1. PICK b : Build(w, b)
      BY <1>1, Zenon DEF Request
    <2> QED
      BY <2>1, AllIdle, Zenon DEF Build
  <1>2. ASSUME NEW part \in HeaderParts, Upload(w, part) PROVE ClientStep
    BY <1>2, Idle DEF Upload, upload_header_chunk
  <1>3. CASE PreVerify(w)
    <2>1. CASE pre_verify_signature(Key[w], job[w].block, Signed(job[w].block))
      <3>1. UNCHANGED <<kind, source, store>>
        BY <2>1, Zenon DEF pre_verify_signature
      <3> QED
        BY <1>0, <2>1, <3>1, PreVerifyStep, SameVotes, Zenon DEF ClientStep, StoreStep
    <2>2. CASE UNCHANGED vars
      BY <2>2, AllIdle, Zenon
    <2> QED
      BY <1>3, <2>1, <2>2, Zenon DEF PreVerify
  <1>4. CASE Submit(w)
    <2>1. StoreStep /\ UNCHANGED <<kind, source, sigs>>
      BY <1>4, SubmitStep, Zenon
    <2> QED
      BY <1>0, <2>1, SameVotes, SameSigs, Zenon DEF ClientStep
  <1>5. CASE Finish(w)
    <2>1. ASSUME NEW passed, cleanup_incomplete_upload(Key[w], job[w].block.height, passed)
          PROVE  ClientStep
      <3>1. UNCHANGED <<kind, source, store>>
        BY <2>1, Zenon DEF cleanup_incomplete_upload
      <3> QED
        BY <1>0, <2>1, <3>1, CleanupStep, SameVotes, Zenon DEF ClientStep, StoreStep
    <2>2. CASE UNCHANGED vars
      BY <2>2, AllIdle, Zenon
    <2> QED
      BY <1>5, <2>1, <2>2, Zenon DEF Finish
  <1>6. CASE Crash(w)
    BY <1>6, AllIdle, Zenon DEF Crash
  <1> QED
    BY <1>1, <1>2, <1>3, <1>4, <1>5, <1>6, Zenon DEF Prepare

\* Reports of misbehaviour freeze the client on a conflict or leave it alone.
LEMMA ReportStep ==
    ASSUME IInv, NEW k, Report(k)
    PROVE  ClientStep
  <1>0. Shape /\ SigsSound
    BY Zenon DEF IInv
  <1>1. ASSUME NEW part, NEW header, upload_misbehaviour_chunk(k, part, header) PROVE ClientStep
    BY <1>1, Idle DEF upload_misbehaviour_chunk
  <1>2. CASE assemble_and_submit_misbehaviour(k, TRUE)
    <2> DEFINE headers == [p \in EvidenceParts |-> evidence[<<k, p>>]]
    <2>1. /\ ~frozen /\ frozen' = TRUE
          /\ check_for_misbehaviour(headers[1], headers[2], now,
                                    verify(headers[1].block, TRUE), verify(headers[2].block, TRUE))
          /\ UNCHANGED <<kind, now, source, consensus, latest, chunks, sigs>>
      BY <1>2, Zenon DEF assemble_and_submit_misbehaviour
    <2>2. StoreStep
      <3> HIDE DEF headers
      <3>1. \A h : verify(h.block, TRUE) /\ h.block \in Blocks => Signed(h.block)
        <4>1. ASSUME NEW h, verify(h.block, TRUE), h.block \in Blocks PROVE Signed(h.block)
          BY <1>0, <4>1, VerifiedSigned, Zenon
        <4> QED
          BY <4>1, Zenon
      <3>2. /\ verify(headers[1].block, TRUE) /\ headers[1].block \in Blocks => Signed(headers[1].block)
            /\ verify(headers[2].block, TRUE) /\ headers[2].block \in Blocks => Signed(headers[2].block)
        BY <3>1, Zenon
      <3>3. UNCHANGED <<consensus, latest>>
        BY <2>1, Zenon
      <3> QED
        BY <2>1, <3>2, <3>3, MisbehaviourFreezes, Zenon
    <2>3. UNCHANGED source /\ sigs' = sigs /\ kind' = kind
      BY <2>1, Zenon
    <2> QED
      BY <1>0, <2>2, <2>3, SameVotes, SameSigs, Zenon DEF ClientStep
  <1>3. CASE cleanup_incomplete_misbehaviour(k)
    BY <1>3, Idle DEF cleanup_incomplete_misbehaviour
  <1>4. ASSUME NEW h1, NEW h2, NEW at, misbehaviour(h1, h2, at) PROVE ClientStep
    <2>1. /\ ~frozen /\ frozen' = TRUE
          /\ check_for_misbehaviour(h1, h2, at, Signed(h1.block), Signed(h2.block))
          /\ UNCHANGED <<kind, now, source, consensus, latest, accounts>>
      BY <1>4, Zenon DEF misbehaviour
    <2>2. UNCHANGED <<consensus, latest>> /\ UNCHANGED source /\ sigs' = sigs /\ kind' = kind
      BY <2>1, Zenon DEF accounts
    <2>3. StoreStep
      BY <2>1, <2>2, MisbehaviourFreezes, Zenon
    <2> QED
      BY <1>0, <2>2, <2>3, SameVotes, SameSigs, Zenon DEF ClientStep
  <1> QED
    BY <1>1, <1>2, <1>3, <1>4, Zenon DEF Report

\* Submissions that the proof API did not build are checked the same way.
LEMMA UnaidedStep ==
    ASSUME IInv, Unaided
    PROVE  ClientStep
  <1>0. Shape
    BY Zenon DEF IInv
  <1>1. ASSUME NEW header, Elsewhere(header) PROVE ClientStep
    <2> DEFINE b == header.block
               t == header.trusted
    <2>1. /\ kind = "tendermint" /\ ~frozen
          /\ verify_header(header, now, Signed(b))
          /\ store_consensus_state(b, consensus[t])
          /\ UNCHANGED <<kind, now, source, accounts>>
      BY <1>1, Zenon DEF Elsewhere
    <2>2. /\ b \in Blocks /\ t \in Heights /\ consensus[t] # None
          /\ b.time > consensus[t].time /\ Signed(b)
      BY <2>1, Zenon DEF verify_header, verify_misbehaviour_header
    <2>3. StoreStep
      BY <2>1, <2>2, TendermintStore, Zenon
    <2>4. UNCHANGED source /\ sigs' = sigs /\ kind' = kind
      BY <2>1, Zenon DEF accounts
    <2> QED
      BY <1>0, <2>3, <2>4, SameVotes, SameSigs, Zenon DEF ClientStep
  <1>2. ASSUME NEW header, NEW at, NEW withMembership, updateClient(header, at, withMembership)
        PROVE  ClientStep
    <2>1. StoreStep
      BY <1>2, SP1Store, Zenon
    <2>2. UNCHANGED source /\ sigs' = sigs /\ kind' = kind
      BY <1>2, Zenon DEF updateClient, accounts
    <2> QED
      BY <1>0, <2>1, <2>2, SameVotes, SameSigs, Zenon DEF ClientStep
  <1>3. ASSUME NEW b, NEW n \in 1..Threshold, NEW signatures \in [1..n -> Signers],
               update_client(b, signatures)
        PROVE  ClientStep
    <2>1. n \in Nat
      BY LightClientAssumption, SignersFinite
    <2>2. StoreStep
      BY <1>3, <2>1, AttestationStore, Zenon
    <2>3. UNCHANGED source /\ sigs' = sigs /\ kind' = kind
      BY <1>3, Zenon DEF update_client, accounts
    <2> QED
      BY <1>0, <2>2, <2>3, SameVotes, SameSigs, Zenon DEF ClientStep
  <1>4. ASSUME NEW k, NEW b, NEW verified, pre_verify_signature(k, b, verified) PROVE ClientStep
    <2>1. UNCHANGED <<kind, source, store>>
      BY <1>4, Zenon DEF pre_verify_signature
    <2> QED
      BY <1>0, <1>4, <2>1, PreVerifyStep, SameVotes, Zenon DEF ClientStep, StoreStep
  <1>5. ASSUME NEW k, NEW target, NEW passed, cleanup_incomplete_upload(k, target, passed)
        PROVE  ClientStep
    <2>1. UNCHANGED <<kind, source, store>>
      BY <1>5, Zenon DEF cleanup_incomplete_upload
    <2> QED
      BY <1>0, <1>5, <2>1, CleanupStep, SameVotes, Zenon DEF ClientStep, StoreStep
  <1>6. ASSUME NEW w, Mix(w) PROVE ClientStep
    <2>1. ASSUME NEW k, NEW target, NEW part, NEW data, upload_header_chunk(k, target, part, data)
          PROVE  ClientStep
      BY <2>1, Idle DEF upload_header_chunk
    <2> QED
      BY <1>5, <1>6, <2>1, Zenon DEF Mix
  <1> QED
    BY <1>1, <1>2, <1>3, <1>4, <1>5, <1>6, Zenon DEF Unaided

\* Every step of the system, on the client.
LEMMA NextStep ==
    ASSUME IInv, [Next]_allVars
    PROVE  ClientStep
  <1>0. Shape
    BY Zenon DEF IInv
  <1>1. ASSUME NEW w \in Workers,
               Request(w) \/ Prepare(w) \/ Submit(w) \/ Finish(w) \/ Crash(w)
        PROVE  ClientStep
    BY <1>1, WorkerStep, Zenon
  <1>2. ASSUME NEW k \in OtherKeys, Report(k) PROVE ClientStep
    BY <1>2, ReportStep, Zenon
  <1>3. CASE Unaided
    BY <1>3, UnaidedStep, Zenon
  <1>4. CASE Tick
    BY <1>4, Idle DEF Tick, accounts
  <1>5. CASE Decide \/ \E s \in Faulty, b \in Forks : SignFork(s, b)
    <2>1. VotesStep
      BY <1>0, <1>5, VotesAdded, Zenon
    <2>2. UNCHANGED <<kind, store, accounts>>
      BY <1>5, Zenon DEF Decide, SignFork
    <2>3. kind' = kind /\ UNCHANGED store /\ sigs' = sigs
      BY <2>2, Zenon DEF accounts
    <2> QED
      BY <1>0, <2>1, <2>3, SameSigs, Zenon DEF ClientStep, StoreStep
  <1>6. CASE UNCHANGED allVars
    BY <1>6, AllIdle, Zenon DEF allVars
  <1> QED
    BY <1>1, <1>2, <1>3, <1>4, <1>5, <1>6, Zenon DEF Next, Others

-----------------------------------------------------------------------------
\* What an account says of signatures stays right.
LEMMA SigsKeep ==
    ASSUME IInv, ClientStep
    PROVE  SigsSound'
  <1>1. ASSUME NEW b \in Blocks, sigs'[b] # None, sigs'[b].is_valid PROVE Signed(b)'
    <2>1. Signed(b)
      BY <1>1, Zenon DEF IInv, SigsSound, ClientStep, SigsStep
    <2> QED
      BY <2>1, SignedStays, Zenon DEF ClientStep, VotesStep
  <1> QED
    BY <1>1, Zenon DEF SigsSound

\* What a client keeps of a block does not depend on the state.
LEMMA SameStateOf ==
    ASSUME kind' = kind, NEW b
    PROVE  StateOf(b)' = StateOf(b)
  BY Zenon DEF StateOf

\* Stored states stay signed.
LEMMA StoredKeep ==
    ASSUME IInv, ClientStep
    PROVE  StoredSigned'
  <1>0. Grows /\ kind' = kind
    BY Zenon DEF ClientStep, VotesStep
  <1>1. ASSUME NEW h \in Heights, consensus'[h] # None
        PROVE  \E b \in Blocks : b.height = h /\ StateOf(b)' = consensus'[h] /\ Signed(b)'
    <2>1. \E b \in Blocks : b.height = h /\ StateOf(b) = consensus'[h] /\ Signed(b)
      <3>1. CASE consensus' = consensus
        BY <1>1, <3>1, Zenon DEF IInv, StoredSigned
      <3>2. ASSUME NEW b \in Blocks, StoreBlock(b)
            PROVE  \E c \in Blocks : c.height = h /\ StateOf(c) = consensus'[h] /\ Signed(c)
        <4>1. consensus' = [consensus EXCEPT ![b.height] = StateOf(b)] /\ Signed(b)
          BY <3>2, Zenon DEF StoreBlock
        <4>2. consensus = [g \in Heights |-> consensus[g]]
          BY Zenon DEF IInv, Shape
        <4>3. consensus'[h] = IF h = b.height THEN StateOf(b) ELSE consensus[h]
          BY <4>1, <4>2
        <4>4. CASE h = b.height
          BY <4>1, <4>3, <4>4, Zenon
        <4>5. CASE h # b.height
          BY <1>1, <4>3, <4>5, Zenon DEF IInv, StoredSigned
        <4> QED
          BY <4>4, <4>5
      <3> QED
        BY <3>1, <3>2, Zenon DEF ClientStep, StoreStep, Froze, store
    <2> QED
      BY <1>0, <2>1, SignedStays, SameStateOf, Zenon
  <1> QED
    BY <1>1, Zenon DEF StoredSigned

\* A freeze needs a conflict, and a conflict stays one.
LEMMA FrozenKeep ==
    ASSUME IInv, ClientStep
    PROVE  FrozenOnlyOnConflict'
  <1>0. Grows /\ kind' = kind
    BY Zenon DEF ClientStep, VotesStep
  <1>1. ASSUME frozen'
        PROVE  \E b, c \in Blocks : Signed(b) /\ Signed(c) /\ Conflict(b, c)
    <2>1. CASE frozen
      BY <2>1, Zenon DEF IInv, FrozenOnlyOnConflict
    <2>2. CASE ~frozen
      BY <1>1, <2>2, Zenon DEF ClientStep, StoreStep, StoreBlock, Froze, store
    <2> QED
      BY <2>1, <2>2
  <1>2. ASSUME NEW b, NEW c, Conflict(b, c) PROVE Conflict(b, c)'
    BY <1>0, <1>2, SameStateOf, Zenon DEF Conflict
  <1> QED
    BY <1>0, <1>1, <1>2, SignedStays, Zenon DEF FrozenOnlyOnConflict

\* The stores keep their shape.
LEMMA ShapeKeep ==
    ASSUME IInv, ClientStep
    PROVE  Shape'
  <1>1. tip' \in Heights /\ votes' \in [Signers -> SUBSET Blocks] /\ sigs' = [b \in Blocks |-> sigs'[b]]
    BY Zenon DEF ClientStep, VotesStep, SigsStep
  <1>2. /\ consensus = [h \in Heights |-> consensus[h]]
        /\ latest \in Nat /\ frozen \in BOOLEAN
    BY Zenon DEF IInv, Shape
  <1>3. consensus' = [h \in Heights |-> consensus'[h]] /\ latest' \in Nat /\ frozen' \in BOOLEAN
    <2>1. CASE UNCHANGED store
      BY <1>2, <2>1, Zenon DEF store
    <2>2. ASSUME NEW b \in Blocks, StoreBlock(b)
          PROVE  consensus' = [h \in Heights |-> consensus'[h]] /\ latest' \in Nat /\ frozen' \in BOOLEAN
      <3>1. consensus' = [consensus EXCEPT ![b.height] = StateOf(b)] /\ frozen' = frozen
        BY <2>2, Zenon DEF StoreBlock
      <3>2. latest' \in {b.height, latest}
        BY <2>2, Zenon DEF StoreBlock, _raiseLatest
      <3>3. b.height \in Nat
        BY BlockType, Zenon
      <3>4. consensus' = [h \in Heights |-> consensus'[h]]
        BY <1>2, <3>1
      <3> QED
        BY <1>2, <3>1, <3>2, <3>3, <3>4, Zenon
    <2>3. CASE Froze
      BY <1>2, <2>3, Zenon DEF Froze
    <2> QED
      BY <2>1, <2>2, <2>3, Zenon DEF ClientStep, StoreStep
  <1> QED
    BY <1>1, <1>3, Zenon DEF Shape

\* The latest height keeps its state.
LEMMA LatestKeeps ==
    ASSUME IInv, ClientStep
    PROVE  LatestIsStored'
  <1>1. CASE consensus' = consensus /\ latest' = latest
    BY <1>1, Zenon DEF IInv, LatestIsStored, ClientStep
  <1>2. ASSUME NEW b \in Blocks, StoreBlock(b) PROVE LatestIsStored'
    <2> DEFINE stored == {h \in Heights : consensus[h] # None}
               h0 == b.height
    <2>1. /\ consensus' = [consensus EXCEPT ![h0] = StateOf(b)]
          /\ latest' \in {h0, _raiseLatest(h0)}
          /\ kind # "tendermint" => latest' = _raiseLatest(h0)
      BY <1>2, Zenon DEF StoreBlock
    <2>2. consensus = [h \in Heights |-> consensus[h]]
      BY Zenon DEF IInv, Shape
    <2>3. h0 \in Heights /\ StateOf(b) # None /\ h0 \in Nat
      BY BlockType, Zenon
    <2>4. {h \in Heights : consensus'[h] # None} = stored \cup {h0}
      BY <2>1, <2>2, <2>3
    <2>5. /\ stored = {} => latest = 0
          /\ stored # {} => latest \in stored /\ (kind # "tendermint" => \A h \in stored : h <= latest)
      BY Zenon DEF IInv, LatestIsStored
    <2>6. latest \in Nat /\ stored \subseteq Nat
      BY DEF IInv, Shape, Heights
    <2> HIDE DEF stored, h0
    <2>7. latest' \in stored \cup {h0}
      BY <2>1, <2>3, <2>5, <2>6 DEF _raiseLatest
    <2>8. kind # "tendermint" => \A h \in stored \cup {h0} : h <= latest'
      BY <2>1, <2>3, <2>5, <2>6 DEF _raiseLatest
    <2>9. kind' = kind
      BY Zenon DEF ClientStep
    <2> QED
      BY <2>4, <2>7, <2>8, <2>9, Zenon DEF LatestIsStored
  <1> QED
    BY <1>1, <1>2, Zenon DEF ClientStep, StoreStep, Froze, store

\* The client starts from a signed state.
LEMMA InitInv ==
    ASSUME UpdatesInit
    PROVE  IInv
  <1>1. Init
    BY Zenon DEF UpdatesInit
  <1>2. 1 \in Heights /\ 1 \in Nat /\ 0 \in Nat /\ Canonical(1) \in Blocks
    BY LightClientAssumption DEF Heights, Blocks
  <1>3. Shape
    BY Zenon, <1>1, <1>2 DEF Init, Shape
  <1>4. SigsSound
    BY <1>1 DEF Init, SigsSound
  <1>5. Signed(Canonical(1))
    <2>1. {s \in Signers : Canonical(1) \in votes[s]} = Signers
      BY <1>1 DEF Init
    <2>2. Cardinality(Signers) >= Threshold
      BY LightClientAssumption, SignersFinite
    <2> QED
      BY <2>1, <2>2, Zenon DEF Signed
  <1>6. StoredSigned /\ LatestIsStored
    <2>1. CASE latest = 1 /\ consensus = [h \in Heights |-> IF h = 1 THEN StateOf(Canonical(1)) ELSE None]
      <3>1. StateOf(Canonical(1)) # None
        BY <1>2, BlockType, Zenon
      <3>2. Canonical(1).height = 1
        BY DEF Canonical
      <3>3. \A h \in Heights : consensus[h] # None <=> h = 1
        BY <2>1, <3>1
      <3>4. consensus[1] = StateOf(Canonical(1))
        BY <1>2, <2>1
      <3>5. StoredSigned
        BY <1>2, <1>5, <3>2, <3>3, <3>4, Zenon DEF StoredSigned
      <3>6. {h \in Heights : consensus[h] # None} = {1}
        BY <1>2, <3>3
      <3>7. LatestIsStored
        BY <2>1, <3>6 DEF LatestIsStored
      <3> QED
        BY <3>5, <3>7
    <2>2. CASE latest = 0 /\ consensus = [h \in Heights |-> None]
      <3>1. {h \in Heights : consensus[h] # None} = {}
        BY <2>2
      <3> QED
        BY <2>2, <3>1 DEF StoredSigned, LatestIsStored
    <2> QED
      BY <1>1, <2>1, <2>2, Zenon DEF Init
  <1>7. FrozenOnlyOnConflict
    BY <1>1 DEF Init, FrozenOnlyOnConflict
  <1> QED
    BY <1>3, <1>4, <1>6, <1>7, Zenon DEF IInv

\* Every step keeps the invariant.
LEMMA Inductive == IInv /\ [Next]_allVars => IInv'
  <1> SUFFICES ASSUME IInv, [Next]_allVars PROVE IInv'
    OBVIOUS
  <1>1. ClientStep
    BY NextStep, Zenon
  <1> QED
    BY <1>1, SigsKeep, StoredKeep, FrozenKeep, ShapeKeep, LatestKeeps, Zenon DEF IInv

\* The invariant always holds.
LEMMA Invariant == Spec => []IInv
  <1>1. UpdatesInit => IInv
    BY InitInv
  <1> QED
    BY <1>1, Inductive, PTL DEF Spec

-----------------------------------------------------------------------------
\* Every stored consensus state was signed by enough signers, for any number
\* of them, of concurrent requests and of forks (assemble_chunks,
\* pre_verify_signature, verify_attestation).
THEOREM AlwaysBacked == Spec => []StatesBacked
  <1>1. IInv => StatesBacked
    <2> SUFFICES ASSUME IInv, NEW h \in Heights, consensus[h] # None
                 PROVE  Cardinality(Backers(h, consensus[h])) >= Threshold
      BY Zenon DEF StatesBacked
    <2>1. PICK b \in Blocks : b.height = h /\ StateOf(b) = consensus[h] /\ Signed(b)
      BY Zenon DEF IInv, StoredSigned
    <2> DEFINE S == {s \in Signers : b \in votes[s]}
               T == Backers(h, consensus[h])
    <2>2. S \subseteq T /\ T \subseteq Signers
      BY <2>1, Zenon DEF Backers
    <2>3. Cardinality(S) <= Cardinality(T) /\ Cardinality(S) \in Nat /\ Cardinality(T) \in Nat
      BY <2>2, SignersFinite, FS_Subset
    <2>4. Cardinality(S) >= Threshold
      BY <2>1, Zenon DEF Signed
    <2> HIDE DEF S, T
    <2>5. Cardinality(T) >= Threshold
      BY <2>3, <2>4, LightClientAssumption
    <2> QED
      BY <2>5, Zenon DEF T
  <1> QED
    BY <1>1, Invariant, PTL

\* A client freezes only on a conflict between two signed blocks
\* (store_consensus_state, _checkUpdateResult, check_for_misbehaviour).
THEOREM FreezesOnConflict == Spec => []FrozenOnlyOnConflict
  <1>1. IInv => FrozenOnlyOnConflict
    BY Zenon DEF IInv
  <1> QED
    BY <1>1, Invariant, PTL

\* The latest height always has a consensus state, and in the clients that
\* guard it is the highest one (updateClient, update_client).
THEOREM LatestAlwaysStored == Spec => []LatestIsStored
  <1>1. IInv => LatestIsStored
    BY Zenon DEF IInv
  <1> QED
    BY <1>1, Invariant, PTL

\* No step changes a stored consensus state or anything of a frozen client.
THEOREM Settled == Spec => StatesSettled
  <1>1. ASSUME IInv, [Next]_allVars
        PROVE  /\ \A h \in Heights : consensus[h] # None => consensus'[h] = consensus[h]
               /\ frozen => UNCHANGED store
    <2>1. StoreStep
      BY <1>1, NextStep, Zenon DEF ClientStep
    <2>2. CASE UNCHANGED store
      BY <2>2, Zenon DEF store
    <2>3. ASSUME NEW b \in Blocks, StoreBlock(b)
          PROVE  /\ \A h \in Heights : consensus[h] # None => consensus'[h] = consensus[h]
                 /\ ~frozen
      <3>1. /\ consensus' = [consensus EXCEPT ![b.height] = StateOf(b)]
            /\ ~frozen /\ consensus[b.height] = None
        BY <2>3, Zenon DEF StoreBlock
      <3>2. consensus = [h \in Heights |-> consensus[h]]
        BY <1>1, Zenon DEF IInv, Shape
      <3> QED
        BY <3>1, <3>2
    <2>4. CASE Froze
      BY <2>4, Zenon DEF Froze
    <2> QED
      BY <2>1, <2>2, <2>3, <2>4, Zenon DEF StoreStep
  <1>2. IInv /\ [Next]_allVars =>
          [/\ \A h \in Heights : consensus[h] # None => consensus'[h] = consensus[h]
           /\ frozen => UNCHANGED store]_allVars
    BY <1>1, Zenon
  <1> QED
    BY <1>2, Invariant, PTL DEF Spec, StatesSettled

-----------------------------------------------------------------------------
\* The latest height is that of a stored state, or 0.
LEMMA LatestInRange ==
    ASSUME IInv
    PROVE  latest \in 0..MaxHeight
  <1>1. latest = 0 \/ latest \in Heights
    BY Zenon DEF IInv, LatestIsStored
  <1> QED
    BY <1>1, LightClientAssumption DEF Heights

\* What the steps do to the clock, to the requests and to the counter of crashes.
Typed ==
    /\ kind \in Kinds /\ now \in Times
    /\ job \in [Workers -> Jobs \cup {None}]
    /\ crashes \in 0..MaxCrashes

\* A request is built with a signed block and the steps of an update.
LEMMA BuildTyped ==
    ASSUME IInv, Typed, NEW w \in Workers, Request(w)
    PROVE  Typed'
  <1>1. PICK b \in {Canonical(tip)} \cup Forks : Build(w, b)
    BY Zenon DEF Request
  <1> DEFINE at == IF kind = "sp1" THEN now ELSE 0
             new == [block |-> b, trusted |-> latest, at |-> at, todo |-> Preparation]
  <1>2. b \in Blocks
    BY <1>1, Zenon DEF IInv, Shape, Blocks
  <1>3. latest \in 0..MaxHeight
    BY LatestInRange, Zenon
  <1>4. at \in 0..MaxTime
    BY LightClientAssumption DEF Typed, Times
  <1>5. Preparation \subseteq Steps
    BY DEF Preparation, Steps
  <1>6. new \in Jobs
    <2> HIDE DEF at
    <2> QED BY <1>2, <1>3, <1>4, <1>5 DEF Jobs
  <1>7. job' = [job EXCEPT ![w] = new] /\ UNCHANGED vars /\ crashes' = crashes
    BY <1>1, Zenon DEF Build
  <1>8. kind' = kind /\ now' = now
    BY <1>7, Zenon DEF vars
  <1> HIDE DEF new
  <1>9. job' \in [Workers -> Jobs \cup {None}]
    BY <1>6, <1>7, Zenon DEF Typed
  <1> QED
    BY <1>7, <1>8, <1>9, Zenon DEF Typed

\* A request that loses a step, or keeps only its cleanup, or ends, stays one.
LEMMA JobTyped ==
    ASSUME Typed, kind' = kind, now' = now, crashes' \in 0..MaxCrashes,
           NEW w \in Workers, job[w] # None,
           \/ \E step : job' = [job EXCEPT ![w].todo = @ \ {step}]
           \/ job' = [job EXCEPT ![w].todo = {"cleanup"}]
           \/ job' = [job EXCEPT ![w] = None]
    PROVE  Typed'
  <1>1. job[w] \in Jobs
    BY Zenon DEF Typed
  <1>2. PICK q : q = job[w]
    BY Zenon
  <1>3. \A todo \in SUBSET Steps : [q EXCEPT !.todo = todo] \in Jobs
    BY <1>1, <1>2 DEF Jobs
  <1>4. \A step : q.todo \ {step} \in SUBSET Steps
    BY <1>1, <1>2 DEF Jobs
  <1>5. {"cleanup"} \in SUBSET Steps
    BY DEF Steps
  <1>6. \E new \in Jobs \cup {None} : job' = [job EXCEPT ![w] = new]
    <2>1. ASSUME NEW step, job' = [job EXCEPT ![w].todo = @ \ {step}]
          PROVE  \E new \in Jobs \cup {None} : job' = [job EXCEPT ![w] = new]
      <3>1. job' = [job EXCEPT ![w] = [q EXCEPT !.todo = q.todo \ {step}]]
        BY <1>2, <2>1
      <3> QED
        BY <1>3, <1>4, <3>1, Zenon
    <2>2. CASE job' = [job EXCEPT ![w].todo = {"cleanup"}]
      <3>1. job' = [job EXCEPT ![w] = [q EXCEPT !.todo = {"cleanup"}]]
        BY <1>2, <2>2
      <3> QED
        BY <1>3, <1>5, <3>1, Zenon
    <2> QED
      BY <2>1, <2>2, Zenon
  <1>7. job' \in [Workers -> Jobs \cup {None}]
    BY <1>6, Zenon DEF Typed
  <1> QED
    BY <1>7, Zenon DEF Typed

\* The steps of a request.
LEMMA WorkerTyped ==
    ASSUME IInv, Typed, NEW w \in Workers,
           Request(w) \/ Prepare(w) \/ Submit(w) \/ Finish(w) \/ Crash(w)
    PROVE  Typed'
  <1>0. crashes \in 0..MaxCrashes
    BY Zenon DEF Typed
  <1>1. CASE Request(w)
    BY <1>1, BuildTyped, Zenon
  <1>2. ASSUME NEW part \in HeaderParts, Upload(w, part) PROVE Typed'
    <2>1. job[w] # None /\ Done(w, part) /\ kind' = kind /\ now' = now
      BY <1>2, Zenon DEF Upload, upload_header_chunk
    <2> QED
      BY <1>0, <2>1, JobTyped, Zenon DEF Done
  <1>3. CASE PreVerify(w)
    <2>1. job[w] # None /\ Done(w, "sig") /\ kind' = kind /\ now' = now
      BY <1>3, Zenon DEF PreVerify, pre_verify_signature, vars
    <2> QED
      BY <1>0, <2>1, JobTyped, Zenon DEF Done
  <1>4. CASE Submit(w)
    <2>1. kind' = kind /\ now' = now
      BY <1>4, Zenon DEF Submit, assemble_and_update_client, updateClient, update_client
    <2>2. /\ job[w] # None /\ crashes' = crashes
          /\ job' = [job EXCEPT ![w].todo = {"cleanup"}] \/ job' = [job EXCEPT ![w] = None]
      BY <1>4, Zenon DEF Submit, Drop
    <2> QED
      BY <1>0, <2>1, <2>2, JobTyped, Zenon
  <1>5. CASE Finish(w)
    <2>1. job[w] # None /\ Drop(w) /\ crashes' = crashes /\ kind' = kind /\ now' = now
      BY <1>5, Zenon DEF Finish, cleanup_incomplete_upload, vars
    <2> QED
      BY <1>0, <2>1, JobTyped, Zenon DEF Drop
  <1>6. CASE Crash(w)
    <2>1. job[w] # None /\ Drop(w) /\ kind' = kind /\ now' = now
      BY <1>6, Zenon DEF Crash, vars
    <2>2. crashes' \in 0..MaxCrashes
      BY <1>0, <1>6, UpdatesAssumption DEF Crash
    <2> QED
      BY <2>1, <2>2, JobTyped, Zenon DEF Drop
  <1> QED
    BY <1>1, <1>2, <1>3, <1>4, <1>5, <1>6, Zenon DEF Prepare

\* The other steps: only Tick moves the clock.
LEMMA OthersTyped ==
    ASSUME Typed, Others
    PROVE  Typed'
  <1>1. UNCHANGED relay
    BY Zenon DEF Others
  <1>2. kind' = kind /\ now' \in Times
    <2>0. kind = kind /\ now \in Times
      BY Zenon DEF Typed
    <2>1. ASSUME NEW k \in OtherKeys, Report(k) PROVE kind' = kind /\ now' = now
      BY <2>1, Zenon DEF Report, upload_misbehaviour_chunk, assemble_and_submit_misbehaviour,
         cleanup_incomplete_misbehaviour, misbehaviour
    <2>2. CASE Unaided
      <3>1. kind' = kind /\ now' = now
        BY <2>2, ZenonT(40) DEF Unaided, Elsewhere, updateClient, update_client, pre_verify_signature,
           cleanup_incomplete_upload, Mix, upload_header_chunk
      <3> QED
        BY <2>0, <3>1, Zenon
    <2>3. CASE Tick
      BY <2>0, <2>3, LightClientAssumption DEF Tick, Times
    <2>4. CASE Decide \/ \E s \in Faulty, b \in Forks : SignFork(s, b)
      BY <2>0, <2>4, Zenon DEF Decide, SignFork
    <2> QED
      BY <2>0, <2>1, <2>2, <2>3, <2>4, Zenon DEF Others
  <1> QED
    BY <1>1, <1>2, Zenon DEF Typed, relay

\* Heights, clocks, stored states, requests and crashes keep to their types,
\* whatever requests, relayers and the other chain do (Tick, update_client).
THEOREM TypeCorrect == Spec => []TypeOK
  <1>1. UpdatesInit => Typed
    <2> SUFFICES ASSUME UpdatesInit PROVE Typed
      OBVIOUS
    <2>1. kind \in Kinds /\ now = 1 /\ job = [w \in Workers |-> None] /\ crashes = 0
      BY Zenon DEF UpdatesInit, Init
    <2>2. now \in Times /\ crashes \in 0..MaxCrashes
      BY <2>1, LightClientAssumption, UpdatesAssumption DEF Times
    <2>3. job \in [Workers -> Jobs \cup {None}]
      BY <2>1, Zenon
    <2> QED
      BY <2>1, <2>2, <2>3, Zenon DEF Typed
  <1>2. IInv /\ Typed /\ [Next]_allVars => Typed'
    <2> SUFFICES ASSUME IInv, Typed, [Next]_allVars PROVE Typed'
      OBVIOUS
    <2>1. CASE UNCHANGED allVars
      BY <2>1, Zenon DEF Typed, allVars, vars, relay
    <2> QED
      BY <2>1, WorkerTyped, OthersTyped, Zenon DEF Next
  <1>3. IInv /\ Typed => TypeOK
    <2> SUFFICES ASSUME IInv, Typed PROVE TypeOK
      OBVIOUS
    <2>1. latest \in 0..MaxHeight
      BY LatestInRange, Zenon
    <2>2. DOMAIN consensus = Heights
      BY DEF IInv, Shape
    <2>3. \A h \in Heights : consensus[h] \in States \cup {None}
      BY BlockType, Zenon DEF IInv, StoredSigned
    <2>4. /\ tip \in Heights /\ votes \in [Signers -> SUBSET Blocks] /\ frozen \in BOOLEAN
      BY Zenon DEF IInv, Shape
    <2>5. \A w \in Workers : job[w] = None \/ job[w] \in Jobs
      BY Zenon DEF Typed
    <2>6. kind \in Kinds /\ now \in Times /\ crashes \in 0..MaxCrashes
      BY Zenon DEF Typed
    <2> QED
      BY <2>1, <2>2, <2>3, <2>4, <2>5, <2>6, Zenon DEF TypeOK
  <1> QED
    BY <1>1, <1>2, <1>3, Invariant, PTL DEF Spec

=============================================================================
