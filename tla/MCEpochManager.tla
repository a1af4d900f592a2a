--------------------------- MODULE MCEpochManager ---------------------------
(* Small instances of EpochManager. *)
EXTENDS EpochManager

MCBits == {1, 2}
=============================================================================
