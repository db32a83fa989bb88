--------------------------- MODULE PacketLifecycle ---------------------------
(***************************************************************************)
(* What the routers of two connected chains promise the applications about *)
(* a packet, with no store, proof, block, clock or light client in sight.  *)
(*                                                                         *)
(*            unsent -> sent -+-> executed -> confirmed                    *)
(*                            +-> rejected -> refused                      *)
(*                            +-> timedOut                                 *)
(*                                                                         *)
(* The receiver executes a packet, or rejects it, once; the sender learns  *)
(* which of the two it was (confirmed, refused), or that neither happened  *)
(* and neither ever will (timedOut).                                       *)
(***************************************************************************)
EXTENDS Integers

CONSTANTS
    Endpoints,       \* the ends packets are sent from
    SequenceNumbers  \* the sequence numbers of an end

VARIABLE phase       \* [endpoint][sequence]: how far the packet has come

Phases == {"unsent", "sent", "executed", "rejected", "confirmed", "refused", "timedOut"}

Init == phase = [e \in Endpoints |-> [s \in SequenceNumbers |-> "unsent"]]

Advance(e, s, from, to) ==
    /\ phase[e][s] = from
    /\ phase' = [phase EXCEPT ![e][s] = to]

\* Packets of one end are sent in the order of their sequence numbers.
Send(e, s) ==
    /\ \A r \in SequenceNumbers : r < s => phase[e][r] # "unsent"
    /\ Advance(e, s, "unsent", "sent")

Receive(e, s) == Advance(e, s, "sent", "executed") \/ Advance(e, s, "sent", "rejected")
Acknowledge(e, s) ==
    Advance(e, s, "executed", "confirmed") \/ Advance(e, s, "rejected", "refused")
TimeOut(e, s) == Advance(e, s, "sent", "timedOut")

Next ==
    \E e \in Endpoints, s \in SequenceNumbers :
        Send(e, s) \/ Receive(e, s) \/ Acknowledge(e, s) \/ TimeOut(e, s)

Spec == Init /\ [][Next]_phase

=============================================================================
