--------------------------- MODULE MCControlPlane ---------------------------
(* Instances of ControlPlane for TLC. *)
EXTENDS ControlPlane

CONSTANTS alice, bob
TwoPilots == {alice, bob}

\* Everything may happen to alice; bob competes for her slot.
Rivals == [t \in TwoPilots |->
             IF t = alice THEN Ops ELSE {"start", "stop"}]
=============================================================================
