---------------------------- MODULE MCSolanaRelay ----------------------------
(***************************************************************************)
(* Instances of SolanaRelay for TLC: one client of the router, connected   *)
(* to one client of the counterparty chain, and workers that sign with one *)
(* relayer key.                                                            *)
(***************************************************************************)
EXTENDS SolanaRelay, TLC

CONSTANTS C, P, R

MCPeerClient == P :> C
Symmetry == Permutations(Workers)
MCKey == [w \in Workers |-> R]
\* Chunks of the two payloads differ at both places, so they can be mixed.
MCLocalPayloads == {<<"b", "a">>}
MCLocalPayloadsInline == {<<"b", "a">>, <<"c">>}
MCPeerPayloads == {<<"a", "b">>}

=============================================================================
