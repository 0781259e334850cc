------------------------------ MODULE MCPcf8574 ------------------------------
(* Instances of Pcf8574 for TLC. *)
EXTENDS Pcf8574, TLC

CONSTANTS c1, c2, p1, p2, p3

\* Two consumers with a pin each, and a pin that nobody has requested.
TwoOwners == c1 :> {p1} @@ c2 :> {p2}

\* One consumer that owns two pins out of three.
OneOwner == c1 :> {p1, p2}
=============================================================================
