--------------------------- MODULE MCAccessManager ---------------------------
(***************************************************************************)
(* Two access managers and one program for TLC; one administrator signs    *)
(* for themselves, the other account is a multisig that calls through its  *)
(* own program.                                                            *)
(***************************************************************************)
EXTENDS AccessManager, TLC

CONSTANTS alice, council, multisig

MCVia == alice :> Direct @@ council :> multisig
Symmetry == Permutations(Managers)

=============================================================================
