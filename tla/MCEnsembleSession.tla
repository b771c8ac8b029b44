-------------------------- MODULE MCEnsembleSession --------------------------
(* Instances of EnsembleSession for TLC. *)
EXTENDS EnsembleSession, TLC

Symmetry == Permutations(Client)
==============================================================================
