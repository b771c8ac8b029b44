-------------------------- MODULE MCLockstepMigration --------------------------
(* LockstepMigration on a small instance; the bounds are given in the .cfg files. *)
EXTENDS LockstepMigration, TLC

(* The survivors but the new host are interchangeable. *)
SurvivorSymmetry == Permutations(Survivor)
=================================================================================
