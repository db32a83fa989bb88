-------------------------- MODULE LightClientUpdates --------------------------
(***************************************************************************)
(* The light clients and those that update them: requests to the proof     *)
(* API, which reads the client and the other chain, builds the             *)
(* transactions and hands them to a submitter, while other requests do the *)
(* same; and the relayers that report misbehaviour.                        *)
(***************************************************************************)
EXTENDS LightClients

CONSTANTS
    Workers,                 \* concurrent requests
    Key,                     \* [Workers -> Keys]: the fee payer of a request
    OtherKeys,               \* of relayers that do not use the proof API
    SkipPreVerify,           \* whether skip_pre_verify_threshold covers the headers
    quorum_threshold,        \* of the attestation aggregator
    MaxCrashes,              \* bound: requests whose submitter dies
    MaxAccounts,             \* bound: accounts of signatures that others hold at a time
    Scenarios                \* bound: the sets of disturbances that meet in a behaviour

VARIABLES
    job,          \* [worker]: the transactions it has still to submit, or None
    cache,        \* [height]: the aggregator's state_cache
    crashes,
    scenario      \* the disturbances of this behaviour

relay == <<job, cache, crashes, scenario>>
allVars == <<vars, relay>>

ASSUME UpdatesAssumption ==
    /\ Key \in [Workers -> Keys] /\ OtherKeys \subseteq Keys /\ SkipPreVerify \in BOOLEAN
    /\ quorum_threshold \in Threshold..Cardinality(Signers) /\ MaxCrashes \in Nat /\ MaxAccounts \in Nat
    /\ Scenarios \subseteq SUBSET {"crash", "accounts", "chunks", "fork", "report"}

Steps == HeaderParts \cup {"sig", "cleanup"}
Jobs == [block : Blocks, trusted : 0..MaxHeight, at : 0..MaxTime, todo : SUBSET Steps]

-----------------------------------------------------------------------------
(* The proof API *)

\* The attestors that answer in time with an attestation of a block.
query_attestations(b) == SUBSET {s \in Signers : b \in votes[s]}

agg_quorumed_attestations(answers) == Cardinality(answers) >= quorum_threshold

\* Enough attestors answer with the same data, unless an earlier answer for the
\* height is cached.
get_state_attestation(b) ==
    \/ cache[b.height] # None /\ cache[b.height].block = b /\ UNCHANGED cache
    \/ /\ cache[b.height] = None
       /\ \E answers \in query_attestations(b) :
            /\ agg_quorumed_attestations(answers)
            /\ cache' = [cache EXCEPT ![b.height] = [block |-> b, signers |-> answers]]

\* As many of the signatures as the client asks for.
build_solana_membership_proof(attestation) == Injection(1..Threshold, attestation.signers)

\* What is left to submit before the update itself.
Preparation ==
    IF kind # "tendermint" THEN {}
    ELSE HeaderParts \cup IF SkipPreVerify THEN {} ELSE {"sig"}

\* update_client of the transaction builders: the header from the latest height
\* of the client to a block that a node, or a quorum of attestors, serves.
Build(w, b) ==
    /\ job[w] = None
    /\ Signed(b) /\ b.height > latest
    /\ job' = [job EXCEPT ![w] = [block |-> b, trusted |-> latest,
                                  at |-> IF kind = "sp1" THEN now ELSE 0,
                                  todo |-> Preparation]]
    /\ IF kind = "attestation" THEN get_state_attestation(b) ELSE UNCHANGED cache
    /\ UNCHANGED <<vars, crashes, scenario>>

Done(w, step) == job' = [job EXCEPT ![w].todo = @ \ {step}] /\ UNCHANGED <<cache, crashes, scenario>>
Drop(w) == job' = [job EXCEPT ![w] = None] /\ UNCHANGED <<cache, scenario>>

\* What a request uploads to the account of a part of its header.
Part(w, part) == IF part = "block" THEN job[w].block ELSE job[w].trusted

Upload(w, part) ==
    /\ job[w] # None /\ part \in job[w].todo
    /\ upload_header_chunk(Key[w], job[w].block.height, part, Part(w, part))
    /\ Done(w, part)

\* The transaction fails when another request has created the account.
PreVerify(w) ==
    /\ job[w] # None /\ "sig" \in job[w].todo
    /\ \/ pre_verify_signature(Key[w], job[w].block, Signed(job[w].block))
       \/ sigs[job[w].block] # None /\ UNCHANGED vars
    /\ Done(w, "sig")

\* The last transaction of an update.
Submit(w) ==
    /\ job[w] # None /\ job[w].todo = {}
    /\ LET b == job[w].block
           header == [block |-> b, trusted |-> job[w].trusted]
       IN  \/ /\ assemble_and_update_client(Key[w], b.height, job[w].trusted, ~SkipPreVerify)
              /\ job' = [job EXCEPT ![w].todo = {"cleanup"}] /\ UNCHANGED <<cache, scenario>>
           \/ \E withMembership \in BOOLEAN : updateClient(header, job[w].at, withMembership) /\ Drop(w)
           \/ /\ kind = "attestation" /\ Drop(w)
              /\ \E signatures \in build_solana_membership_proof(cache[b.height]) :
                    update_client(b, signatures)
    /\ UNCHANGED crashes

\* The end of a request, its update accepted, refused or lost.
Finish(w) ==
    /\ job[w] # None /\ job[w].todo \in {{}, {"cleanup"}}
    /\ \/ cleanup_incomplete_upload(Key[w], job[w].block.height, IF SkipPreVerify THEN {} ELSE {job[w].block})
       \/ kind # "tendermint" /\ UNCHANGED vars
    /\ Drop(w) /\ UNCHANGED crashes

Crash(w) ==
    /\ "crash" \in scenario
    /\ job[w] # None /\ crashes < MaxCrashes
    /\ crashes' = crashes + 1
    /\ Drop(w) /\ UNCHANGED vars

-----------------------------------------------------------------------------
(* Relayers that submit what the proof API does not build *)

\* A header of the fork and the newest one of the chain, the higher one first.
Evidence ==
    {e \in (Forks \X {Canonical(tip)}) \cup ({Canonical(tip)} \X Forks) :
        e[1].height >= e[2].height /\ Conflict(e[1], e[2]) /\ Signed(e[1])}

Header(b) == [block |-> b, trusted |-> 1]

Report(k) ==
    \/ \E e \in Evidence : \E part \in EvidenceParts :
            upload_misbehaviour_chunk(k, part, Header(e[part]))
    \/ assemble_and_submit_misbehaviour(k, TRUE)
    \/ cleanup_incomplete_misbehaviour(k)
    \/ \E e \in Evidence, at \in Times : misbehaviour(Header(e[1]), Header(e[2]), at)

\* The update of another relayer of the Tendermint client, from any height it
\* trusted: its accounts are its own, so that only its last step is seen.
Elsewhere(header) ==
    /\ kind = "tendermint" /\ ~frozen
    /\ verify_header(header, now, Signed(header.block))
    /\ store_consensus_state(header.block, consensus[header.trusted])
    /\ UNCHANGED <<kind, now, source, accounts>>

\* Other programs that use the key of a request upload chunks of any header to
\* the accounts of its target height, or close them.
Mix(w) ==
    /\ job[w] # None
    /\ \/ \E part \in HeaderParts : \E data \in IF part = "block" THEN Blocks ELSE Heights :
             upload_header_chunk(Key[w], job[w].block.height, part, data)
       \/ cleanup_incomplete_upload(Key[w], job[w].block.height, {})

\* Submissions of other making: headers from any trusted height, signatures of
\* attestors in any order and number, and accounts for the signatures of a block
\* that record false where the transaction does not verify them.
Unaided ==
    \/ \E b \in UNION {votes[s] : s \in Signers}, t \in Heights, at \in Times :
          LET header == [block |-> b, trusted |-> t]
          IN  \/ at = now /\ Elsewhere(header)
              \/ \E withMembership \in BOOLEAN : updateClient(header, at, withMembership)
    \/ \E b \in UNION {votes[s] : s \in Signers} :
          \E n \in 1..Threshold : \E signatures \in [1..n -> Signers] : update_client(b, signatures)
    \/ /\ "accounts" \in scenario
       /\ \E k \in OtherKeys, b \in UNION {votes[s] : s \in Signers} :
             \/ /\ Cardinality({c \in Blocks : sigs[c] # None /\ sigs[c].submitter \in OtherKeys}) < MaxAccounts
                /\ \E verified \in BOOLEAN : pre_verify_signature(k, b, verified)
             \/ cleanup_incomplete_upload(k, b.height, {b})
    \/ "chunks" \in scenario /\ \E w \in Workers : Mix(w)

-----------------------------------------------------------------------------
UpdatesInit ==
    /\ Init
    /\ job = [w \in Workers |-> None]
    /\ cache = [h \in Heights |-> None]
    /\ crashes = 0
    /\ scenario \in Scenarios

Request(w) == \E b \in {Canonical(tip)} \cup Forks : Build(w, b)

\* What requests keep getting: the newest block, from a node that follows the
\* chain or from what the aggregator has cached.
Served(b) == b.height = tip /\ (kind = "attestation" \/ b = Canonical(tip))

Prepare(w) == (\E part \in HeaderParts : Upload(w, part)) \/ PreVerify(w)

Others ==
    /\ \/ "report" \in scenario /\ \E k \in OtherKeys : Report(k)
       \/ Unaided
       \/ Tick
       \/ Decide
       \/ "fork" \in scenario /\ \E s \in Faulty, b \in Forks : SignFork(s, b)
    /\ UNCHANGED relay

Next ==
    \/ \E w \in Workers : Request(w) \/ Prepare(w) \/ Submit(w) \/ Finish(w) \/ Crash(w)
    \/ Others

Spec == UpdatesInit /\ [][Next]_allVars

\* The client's clock reaches the time of the newest block, though nothing makes
\* it run on until a state expires; requests are made again and again and their
\* transactions submitted; an update the client keeps accepting is not lost every
\* time.
FairSpec ==
    /\ Spec
    /\ WF_allVars(now < tip /\ Tick /\ UNCHANGED relay)
    /\ \A w \in Workers :
        /\ SF_allVars(\E b \in Blocks : Served(b) /\ Build(w, b))
        /\ WF_allVars(Prepare(w))
        /\ SF_allVars(Submit(w))
        /\ WF_allVars(Finish(w))

-----------------------------------------------------------------------------
\* Types; a request only ever holds the steps of its update.
TypeOK ==
    /\ kind \in Kinds /\ now \in Times /\ tip \in Heights
    /\ votes \in [Signers -> SUBSET Blocks]
    /\ DOMAIN consensus = Heights /\ \A h \in Heights : consensus[h] \in States \cup {None}
    /\ latest \in 0..MaxHeight /\ frozen \in BOOLEAN
    /\ \A w \in Workers : job[w] = None \/ job[w] \in Jobs
    /\ crashes \in 0..MaxCrashes

\* The signers that vouched for a state at a height.
Backers(h, state) ==
    {s \in Signers : \E b \in votes[s] : b.height = h /\ StateOf(b) = state}

\* Every consensus state a client stores was signed by enough of its signers,
\* although the chunks of a header may come from different requests
\* (assemble_chunks), its signatures from accounts made earlier by others
\* (pre_verify_signature) and attestations from a cache (state_cache).
StatesBacked ==
    \A h \in Heights : consensus[h] # None => Cardinality(Backers(h, consensus[h])) >= Threshold

\* A client freezes only when two blocks that enough signers signed contradict
\* each other: no repeated, late or mixed submission freezes it
\* (store_consensus_state, _checkUpdateResult, check_for_misbehaviour).
FrozenOnlyOnConflict ==
    frozen => \E b, c \in Blocks : Signed(b) /\ Signed(c) /\ Conflict(b, c)

\* A consensus state never changes once stored, and a frozen client stores
\* nothing, moves nowhere and stays frozen, whatever was in flight when it froze.
StatesSettled ==
    [][/\ \A h \in Heights : consensus[h] # None => consensus'[h] = consensus[h]
       /\ frozen => UNCHANGED store]_allVars

\* The latest height has a consensus state, so that client_status and the
\* relayers find one; in the SP1 and attestation clients it is the highest.
LatestIsStored ==
    LET stored == {h \in Heights : consensus[h] # None}
    IN  IF stored = {} THEN latest = 0
        ELSE latest \in stored /\ (kind # "tendermint" => \A h \in stored : h <= latest)

\* The latest state is too old to verify a header against.
Expired == kind # "attestation" /\ now >= consensus[latest].time + TrustingPeriod

Stored(h) == \E g \in h..MaxHeight : consensus[g] # None

\* An account says that the signatures of a block are bad.  The verifier then
\* refuses the header from a request that passes the account, and only the key
\* that made the account can close it.
Refused(b) == ~SkipPreVerify /\ sigs[b] # None /\ ~sigs[b].is_valid

\* Another program with its key changed the chunks of a request that is ready.
Overwritten ==
    /\ kind = "tendermint"
    /\ \E w \in Workers :
          /\ job[w] # None /\ job[w].todo = {}
          /\ \E part \in HeaderParts :
                chunks[<<Key[w], job[w].block.height, part>>] # Part(w, part)

\* Again and again the client has the newest block of the other chain, unless it
\* freezes or expires, or the newest block is refused, or chunks are overwritten,
\* again and again.  So crashed requests, and accounts and chunks of others that
\* come to an end, leave nothing behind that keeps later requests from updating
\* (init_if_needed, init; SolanaSignatureVerifier::verify).
UpdatesArrive ==
    []<>(Stored(tip) \/ frozen \/ Expired \/ Refused(Canonical(tip)) \/ Overwritten)

\* The Tendermint client reports itself expired only once its newest consensus
\* state is too old (client_status).
ExpiredMeansStale ==
    client_status = "Expired" =>
        \A h \in Heights : consensus[h] # None => now - consensus[h].time > TrustingPeriod

=============================================================================
