---------------------------- MODULE MCReceivables ----------------------------
EXTENDS Receivables, TLC

(* Primary keys and handlers are interchangeable, except that Idle names   *)
(* one key of each kind: symmetry is taken over the handlers only.         *)
Symmetry == Permutations(Workers)
=============================================================================
