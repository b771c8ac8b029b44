--------------------------- MODULE MCSnapshotClient ---------------------------
(* Instances of SnapshotClient for TLC. *)
EXTENDS SnapshotClient, TLC

==============================================================================
