---------------------------- MODULE MCWorkOrders ----------------------------
EXTENDS WorkOrders, TLC

(* Request handlers are interchangeable.                                   *)
Symmetry == Permutations(Workers)
=============================================================================
