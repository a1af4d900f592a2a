------------------------ MODULE MCFederationConsensus ------------------------
(* Instances of FederationConsensus small enough for TLC. *)
EXTENDS FederationConsensus, TLC

CONSTANTS n1, n2, n3

\* Nodes are interchangeable: their ids are only compared.
NodeSymmetry == Permutations(Node)
=============================================================================
