--------------------------- MODULE MCICS20Transfer ---------------------------
(***************************************************************************)
(* Instances of ICS20Transfer for TLC: a line of three chains, and one of  *)
(* two.  Every chain calls its first client Client0.                       *)
(***************************************************************************)
EXTENDS ICS20Transfer, TLC

CONSTANTS A, B, C, Client0, Client1, Good, Fee, User, SupplyA

AtoB == <<A, Client0>>
BtoA == <<B, Client0>>
BtoC == <<B, Client1>>
CtoB == <<C, Client0>>

LineEndpoints == {AtoB, BtoA, BtoC, CtoB}
LineCounterparty == AtoB :> BtoA @@ BtoA :> AtoB @@ BtoC :> CtoB @@ CtoB :> BtoC
PairEndpoints == {AtoB, BtoA}
PairCounterparty == AtoB :> BtoA @@ BtoA :> AtoB

MCSupply ==
    [c \in Chains |-> [t \in Tokens |-> [u \in Users |-> IF c = A THEN SupplyA ELSE 0]]]

\* A limit at the end where the token is escrowed.
HomeLimited == AtoB :> {<<Good>>} @@ BtoA :> {}
NothingLimited == [e \in Endpoints |-> {}]

=============================================================================
