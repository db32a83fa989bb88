---------------------------- MODULE MCICS26Router ----------------------------
(***************************************************************************)
(* Instances of ICS26Router for TLC: two chains, each with one client of   *)
(* the other, both registered under the identifier every router hands out  *)
(* first.                                                                  *)
(***************************************************************************)
EXTENDS ICS26Router, TLC

CONSTANTS A, B, Client0, Port0, Ack0, SendsA, SendsB, HeightA, HeightB

MCEndpoints == {<<A, Client0>>, <<B, Client0>>}
MCCounterparty == <<A, Client0>> :> <<B, Client0>> @@ <<B, Client0>> :> <<A, Client0>>
MCPayloads == {[sourcePort |-> Port0, destPort |-> Port0, value |-> "v"]}
MCMaxSends == <<A, Client0>> :> SendsA @@ <<B, Client0>> :> SendsB
MCMaxHeight == A :> HeightA @@ B :> HeightB

=============================================================================
