---------------------------- MODULE MCLightClients ----------------------------
(* Instances of LightClientUpdates for TLC. *)
EXTENDS LightClientUpdates

CONSTANTS w1, w2, k1, k2, s1, s2

MCKey == [w \in Workers |-> k1]

\* A second block 3, dated like block 2: it conflicts with both.
MCForks == {[height |-> 3, root |-> "fork", time |-> 2]}

\* Disturbances that meet in a behaviour.
MCScenarios ==
    {{"crash", "accounts"}, {"crash", "fork"}, {"accounts", "fork"},
     {"report", "fork"}, {"chunks", "fork"}}

=============================================================================
