---------------------------- MODULE MCTickedEvents ----------------------------
(* Instances of TickedEvents for TLC. *)
EXTENDS TickedEvents, TLC

Shots  == {"a", "b"}
Sayings == {<<>>, <<"a">>, <<"b", "b">>}
==============================================================================
