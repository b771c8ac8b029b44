---------------------------- MODULE MCHostClock ----------------------------
(* HostClock for TLC: a tick is two units, two ticks a frame. *)
EXTENDS HostClock
=============================================================================
