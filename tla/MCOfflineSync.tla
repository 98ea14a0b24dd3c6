--------------------------- MODULE MCOfflineSync ---------------------------
(* An instance of OfflineSync for TLC: the names of its model values.      *)
EXTENDS OfflineSync, TLC

CONSTANTS t1, p1, n1, l1, f1
=============================================================================
