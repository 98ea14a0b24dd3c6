-------------------------- MODULE MCStockTransfers --------------------------
(* Small instances of StockTransfers for TLC.                              *)
EXTENDS StockTransfers, TLC

(* Primary keys, users and handlers are only compared for equality.        *)
Symmetry == Permutations(Users) \cup Permutations(Workers) \cup Permutations(Parts)
=============================================================================
