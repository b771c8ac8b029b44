------------------------------ MODULE MCLockstep ------------------------------
(* TLC instances of Lockstep. *)
EXTENDS Lockstep, TLC

(* Clients are interchangeable: no definition tells one from another.        *)
ClientSymmetry == Permutations(Client)

(* How often each peer acts.                                                 *)
Nobody   == [p \in Peer |-> 0]
OnceEach == [p \in Peer |-> 1]
===============================================================================
