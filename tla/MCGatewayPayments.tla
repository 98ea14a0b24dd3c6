-------------------------- MODULE MCGatewayPayments --------------------------
(* The instance of GatewayPayments for TLC: the names of its model values. *)
EXTENDS GatewayPayments

CONSTANTS r1, h1, h2
=============================================================================
