------------------------- MODULE MCSnapshotRecovery -------------------------
(* The model-checked instances of SnapshotRecovery.                        *)
EXTENDS SnapshotRecovery
=============================================================================
