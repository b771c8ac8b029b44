-------------------------- MODULE MCChecksumExchange --------------------------
(* Instances of ChecksumExchange for TLC. *)
EXTENDS ChecksumExchange, TLC

Symmetry == Permutations(Client)
===============================================================================
