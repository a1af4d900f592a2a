-------------------------- MODULE MCLineageLedger --------------------------
(* An instance of LineageLedger small enough for TLC. *)
EXTENDS LineageLedger

CONSTANTS w1, w2
=============================================================================
