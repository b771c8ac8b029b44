----------------------------- MODULE MCRegistries -----------------------------
(* TLC instances of Registries. *)
EXTENDS Registries

Components == {"Body", "Kind", "Aim"}
Resources  == {"Allocator", "Round", "Contacts"}

HostBuild ==
  <<Local("Allocator"), AsNetworked("Kind", 2), AsNetworked("Body", 1),
    AsNetworked("Allocator", 2), Local("Aim"), AsNetworked("Round", 1)>>

(* The same names in another order, with a type of its own; and other names. *)
SameNames ==
  <<AsNetworked("Body", 1), Local("Aim"), Kept("Contacts"), AsNetworked("Round", 1),
    AsNetworked("Kind", 2), AsNetworked("Allocator", 2)>>
OtherNames ==
  <<AsNetworked("Body", 1), AsNetworked("Kind", 2), AsNetworked("Round", 3),
    AsNetworked("Allocator", 2)>>

TheBuilds == [p \in Peer |-> IF p = Host THEN {HostBuild} ELSE {SameNames, OtherNames}]

(* The host's build networks a resource it already had, under the name of another; the *)
(* client's build registers the two in the other order.                                *)
Upgrading ==
  <<Local("Allocator"), AsNetworked("Body", 1), AsNetworked("Round", 1), AsNetworked("Allocator", 1)>>
Reordered ==
  <<AsNetworked("Body", 1), Local("Round"), AsNetworked("Allocator", 1), AsNetworked("Round", 1)>>

SharedNames == [p \in Peer |-> IF p = Host THEN {Upgrading} ELSE {Reordered}]
===============================================================================
