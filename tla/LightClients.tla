----------------------------- MODULE LightClients -----------------------------
(***************************************************************************)
(* The light clients the routers ask about the other chain: the Tendermint *)
(* client of Solana (ics07-tendermint), the SP1 Tendermint client of the   *)
(* EVM (SP1ICS07Tendermint.sol) and the attestation client of both.  Each  *)
(* keeps one consensus state per height, the latest height and whether it  *)
(* is frozen; they differ in what they ask of an update.  A behaviour is   *)
(* about one client, of the kind drawn in Init.                            *)
(***************************************************************************)
EXTENDS Integers, FiniteSetsExt, Functions

CONSTANTS
    Kinds,                   \* subset of {"tendermint", "sp1", "attestation"}
    MaxHeight, MaxTime,      \* bounds: blocks of the other chain, seconds
    TrustingPeriod, MaxClockDrift,
    ALLOWED_SP1_CLOCK_DRIFT,
    Signers, Faulty,         \* validators or attestors; those that may sign forks
    Threshold,               \* how many signatures an update needs
    Forks,                   \* the blocks the faulty signers may sign
    Keys,                    \* the relayers' keys on Solana
    None

Heights == 1..MaxHeight
Times == 1..MaxTime
States == [root : {"true", "fork", None}, time : Times]
HeaderParts == {"block", "trusted"}     \* the chunks of a header
EvidenceParts == {1, 2}                 \* the chunks of a misbehaviour: its two headers

\* The block the other chain decides at a height: a block a second.
Canonical(h) == [height |-> h, root |-> "true", time |-> h]

Blocks == {Canonical(h) : h \in Heights} \cup Forks

ASSUME LightClientAssumption ==
    /\ MaxHeight \in Nat \ {0} /\ MaxTime \in Nat /\ MaxHeight <= MaxTime
    /\ TrustingPeriod \in Nat \ {0} /\ MaxClockDrift \in Nat \ {0}
    /\ ALLOWED_SP1_CLOCK_DRIFT \in Nat
    /\ IsFiniteSet(Signers) /\ Faulty \subseteq Signers
    /\ Threshold \in 1..Cardinality(Signers)
    /\ Forks \subseteq [height : Heights, root : {"fork"}, time : Times]
    /\ None \notin States
    /\ Kinds \subseteq {"tendermint", "sp1", "attestation"}

VARIABLES
    kind,
    now,          \* the clock of the client's chain
    tip,          \* the height of the other chain
    votes,        \* [signer]: the blocks it signed
    consensus,    \* [height]: the stored consensus state, or None
    latest,       \* latest_height
    frozen,
    chunks,       \* [key, target height, part]: HeaderChunk accounts
    sigs,         \* [block]: SignatureVerification account of its commit
    evidence      \* [key, part]: MisbehaviourChunk accounts

store == <<consensus, latest, frozen>>
accounts == <<chunks, sigs, evidence>>
source == <<tip, votes>>
vars == <<kind, now, source, store, accounts>>

\* What a client keeps of a block: the attestation client only its time.
StateOf(b) == [root |-> IF kind = "attestation" THEN None ELSE b.root, time |-> b.time]

Signed(b) == Cardinality({s \in Signers : b \in votes[s]}) >= Threshold

\* Two blocks that the other chain cannot both have decided.
Conflict(b, c) ==
    \/ b.height = c.height /\ StateOf(b) # StateOf(c)
    \/ b.height > c.height /\ b.time <= c.time

-----------------------------------------------------------------------------
(* The verifier of ibc-rs and tendermint-rs, at the time the client passes.  A     *)
(* header is a block and the height of the state it is verified against.           *)

verify_misbehaviour_header(header, at, commit) ==
    /\ header.block \in Blocks
    /\ header.trusted \in Heights /\ consensus[header.trusted] # None
    /\ header.block.height > header.trusted
    /\ header.block.time > consensus[header.trusted].time
    /\ at < consensus[header.trusted].time + TrustingPeriod
    /\ commit

verify_header(header, at, commit) ==
    /\ verify_misbehaviour_header(header, at, commit)
    /\ header.block.time < at + MaxClockDrift

\* Mutant: a signature without an account counts as bad.
verify_accounts_only(b, passed) == IF passed THEN sigs[b] # None /\ sigs[b].is_valid ELSE Signed(b)

\* Mutant: the accounts of any block of the height will do.
verify_height(b, passed) ==
    Signed(b) \/ (passed /\ \E c \in Blocks : c.height = b.height /\ sigs[c] # None /\ sigs[c].is_valid)

\* SolanaSignatureVerifier: the outcome recorded for the signatures if their
\* accounts are passed and exist, and else the signatures themselves.
verify(b, passed) == IF passed /\ sigs[b] # None THEN sigs[b].is_valid ELSE Signed(b)

-----------------------------------------------------------------------------
(* ics07-tendermint *)

upload_header_chunk(k, target, part, data) ==
    /\ kind = "tendermint" /\ ~frozen
    /\ chunks' = [chunks EXCEPT ![<<k, target, part>>] = data]
    /\ UNCHANGED <<kind, now, source, store, sigs, evidence>>

\* verify_ed25519_from_sysvar: whether the transaction starts with the runtime's
\* own verification of exactly these signatures, which fails it if they are bad.
pre_verify_signature(k, b, verified) ==
    /\ kind = "tendermint" /\ sigs[b] = None
    /\ verified => Signed(b)
    /\ sigs' = [sigs EXCEPT ![b] = [is_valid |-> verified, submitter |-> k]]
    /\ UNCHANGED <<kind, now, source, store, chunks, evidence>>

\* Mutant: submitting a known header again counts as misbehaviour.
store_consensus_state_no_repeat(b, trusted) ==
    IF consensus[b.height] = None
    THEN /\ consensus' = [consensus EXCEPT ![b.height] = StateOf(b)]
         /\ latest' = b.height
         /\ UNCHANGED frozen
    ELSE frozen' = TRUE /\ UNCHANGED <<consensus, latest>>

\* Mutant: a header for a known height replaces what is stored.
store_consensus_state_anew(b, trusted) ==
    /\ consensus' = [consensus EXCEPT ![b.height] = StateOf(b)]
    /\ latest' = b.height
    /\ UNCHANGED frozen

\* A new height is stored and becomes the latest one; a known one freezes the
\* client or changes nothing.
store_consensus_state(b, trusted) ==
    IF consensus[b.height] = None
    THEN /\ consensus' = [consensus EXCEPT ![b.height] = StateOf(b)]
         /\ latest' = b.height
         /\ UNCHANGED frozen
    ELSE /\ frozen' = (consensus[b.height] # StateOf(b) \/ trusted.time >= b.time)
         /\ UNCHANGED <<consensus, latest>>

assemble_and_update_client(k, target, trusted, passed) ==
    LET header == [p \in HeaderParts |-> chunks[<<k, target, p>>]]
    IN  /\ kind = "tendermint" /\ ~frozen
        /\ \A p \in HeaderParts : header[p] # None
        /\ header.trusted = trusted
        /\ verify_header(header, now, verify(header.block, passed))
        /\ header.block.height = target
        /\ store_consensus_state(header.block, consensus[trusted])
        /\ UNCHANGED <<kind, now, source, accounts>>

\* Closes the chunks for a height and the accounts passed for signatures, those
\* that the key made.
cleanup_incomplete_upload(k, target, passed) ==
    /\ kind = "tendermint"
    /\ chunks' = [a \in DOMAIN chunks |->
                    IF a[1] = k /\ a[2] = target THEN None ELSE chunks[a]]
    /\ sigs' = [b \in Blocks |->
                  IF b \in passed /\ sigs[b] # None /\ sigs[b].submitter = k THEN None ELSE sigs[b]]
    /\ UNCHANGED <<kind, now, source, store, evidence>>

upload_misbehaviour_chunk(k, part, header) ==
    /\ kind = "tendermint" /\ ~frozen
    /\ evidence' = [evidence EXCEPT ![<<k, part>>] = header]
    /\ UNCHANGED <<kind, now, source, store, chunks, sigs>>

check_for_misbehaviour(header1, header2, at, commit1, commit2) ==
    /\ verify_misbehaviour_header(header1, at, commit1)
    /\ verify_misbehaviour_header(header2, at, commit2)
    /\ header1.block.height >= header2.block.height
    /\ Conflict(header1.block, header2.block)

NoEvidence(k) ==
    evidence' = [a \in DOMAIN evidence |-> IF a[1] = k THEN None ELSE evidence[a]]

assemble_and_submit_misbehaviour(k, passed) ==
    LET headers == [p \in EvidenceParts |-> evidence[<<k, p>>]]
    IN  /\ kind = "tendermint" /\ ~frozen
        /\ \A p \in EvidenceParts : headers[p] # None
        /\ check_for_misbehaviour(headers[1], headers[2], now,
                                  verify(headers[1].block, passed),
                                  verify(headers[2].block, passed))
        /\ frozen' = TRUE /\ NoEvidence(k)
        /\ UNCHANGED <<kind, now, source, consensus, latest, chunks, sigs>>

cleanup_incomplete_misbehaviour(k) ==
    /\ kind = "tendermint" /\ NoEvidence(k)
    /\ UNCHANGED <<kind, now, source, store, chunks, sigs>>

\* The status the router asks for before it sends a packet.
client_status ==
    CASE frozen -> "Frozen"
      [] ~frozen /\ kind # "attestation" /\ now - consensus[latest].time > TrustingPeriod -> "Expired"
      [] OTHER -> "Active"

-----------------------------------------------------------------------------
(* SP1ICS07Tendermint.sol: the header was verified by an SP1 program at the time   *)
(* `at', against a client state and a trusted state that the contract knows.       *)

_validateClientStateAndTime(at) == at <= now /\ now - at <= ALLOWED_SP1_CLOCK_DRIFT

\* Mutant: every update moves the latest height.
_raiseLatestAlways(h) == h

\* Mutant: the latest height is the next one to come.
_raiseLatestPast(h) == IF h > latest THEN h + 1 ELSE latest

_raiseLatest(h) == IF h > latest THEN h ELSE latest

\* updateClient and, without a conflict, the update half of a membership proof.
updateClient(header, at, withMembership) ==
    LET b == header.block
    IN  /\ kind = "sp1" /\ ~frozen
        /\ _validateClientStateAndTime(at)
        /\ verify_header(header, at, Signed(b))
        /\ IF consensus[b.height] = None
           THEN /\ consensus' = [consensus EXCEPT ![b.height] = StateOf(b)]
                /\ latest' = _raiseLatest(b.height)
                /\ UNCHANGED frozen
           ELSE LET differs == \/ consensus[b.height] # StateOf(b)
                               \/ consensus[header.trusted].time >= b.time
                IN  /\ ~(differs /\ withMembership)
                    /\ frozen' = differs
                    /\ UNCHANGED <<consensus, latest>>
        /\ UNCHANGED <<kind, now, source, accounts>>

misbehaviour(header1, header2, at) ==
    /\ kind = "sp1" /\ ~frozen
    /\ _validateClientStateAndTime(at)
    /\ check_for_misbehaviour(header1, header2, at, Signed(header1.block), Signed(header2.block))
    /\ frozen' = TRUE
    /\ UNCHANGED <<kind, now, source, consensus, latest, accounts>>

-----------------------------------------------------------------------------
(* The attestation client of Solana and AttestationLightClient.sol *)

verify_attestation(b, signatures) ==
    /\ Cardinality(DOMAIN signatures) >= Threshold
    /\ \A i \in DOMAIN signatures : signatures[i] \in Signers /\ b \in votes[signatures[i]]
    /\ IsInjective(signatures)

update_client(b, signatures) ==
    /\ kind = "attestation" /\ ~frozen
    /\ verify_attestation(b, signatures)
    /\ IF consensus[b.height] = None
       THEN /\ consensus' = [consensus EXCEPT ![b.height] = StateOf(b)]
            /\ latest' = _raiseLatest(b.height)
            /\ UNCHANGED frozen
       ELSE /\ frozen' = (consensus[b.height] # StateOf(b))
            /\ UNCHANGED <<consensus, latest>>
    /\ UNCHANGED <<kind, now, source, accounts>>

-----------------------------------------------------------------------------
\* The clients are created at height 1; the attestation client of Solana
\* starts without a consensus state.
Init ==
    /\ kind \in Kinds
    /\ now = 1 /\ tip = 1
    /\ votes = [s \in Signers |-> {Canonical(1)}]
    /\ \/ /\ latest = 1
          /\ consensus = [h \in Heights |-> IF h = 1 THEN StateOf(Canonical(1)) ELSE None]
       \/ /\ kind = "attestation" /\ latest = 0
          /\ consensus = [h \in Heights |-> None]
    /\ frozen = FALSE
    /\ chunks = [a \in Keys \X Heights \X HeaderParts |-> None]
    /\ sigs = [b \in Blocks |-> None]
    /\ evidence = [a \in Keys \X EvidenceParts |-> None]

Tick ==
    /\ now < MaxTime
    /\ now' = now + 1
    /\ UNCHANGED <<kind, source, store, accounts>>

\* The other chain decides a block; its clock runs a second ahead at most.
Decide ==
    /\ tip < MaxHeight /\ tip <= now
    /\ tip' = tip + 1
    /\ votes' = [s \in Signers |-> votes[s] \cup {Canonical(tip + 1)}]
    /\ UNCHANGED <<kind, now, store, accounts>>

SignFork(s, b) ==
    /\ s \in Faulty /\ b \in Forks \ votes[s]
    /\ votes' = [votes EXCEPT ![s] = @ \cup {b}]
    /\ UNCHANGED <<kind, now, tip, store, accounts>>

=============================================================================
