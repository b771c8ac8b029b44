--------------------------- MODULE MCSnapshotStream ---------------------------
(* Instances of SnapshotStream for TLC. *)
EXTENDS SnapshotStream, TLC

CONSTANTS v1, v2

AlwaysCarried == [p \in Component |-> 1]
EverySecond   == [p \in Component |-> 2]

Values == {v1, v2}

(* A component that changes and goes, a resource that goes and comes back. *)
World(c, r) == [p \in Part |-> IF p \in Component THEN c ELSE r]
FewWorlds   == {World(v1, v1), World(v2, Absent), World(Absent, v1)}
==============================================================================
