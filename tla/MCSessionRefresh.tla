-------------------------- MODULE MCSessionRefresh --------------------------
(* Instances of SessionRefresh, and the properties checked of it.          *)
EXTENDS SessionRefresh, TLC

CONSTANTS t1, t2, r1, r2, r3

MCTabOf == (r1 :> t1) @@ (r2 :> t1) @@ (r3 :> t2)
=============================================================================
