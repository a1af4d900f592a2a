--------------------------- MODULE MCApprovalGate ---------------------------
(* Instances of ApprovalGate small enough for TLC. *)
EXTENDS ApprovalGate, TLC

CONSTANTS g1, g2, m1

\* A batch of one mutation writes a request and two audit events.
BatchOfOne == {<<m1>>}
NoBatch == {}
=============================================================================
