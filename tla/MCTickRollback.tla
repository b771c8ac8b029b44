--------------------------- MODULE MCTickRollback ---------------------------
(* TLC instances of TickRollback. *)
EXTENDS TickRollback, TLC

(* Bundle types are interchangeable: no definition tells one from another. *)
KindSymmetry == Permutations(Kind)
=============================================================================
