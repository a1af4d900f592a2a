------------------------- MODULE MCMutationJobQueue -------------------------
(* Instances of MutationJobQueue small enough for TLC. *)
EXTENDS MutationJobQueue, TLC

CONSTANTS w1, w2, j1, j2

\* Worker and job ids are only compared.
Symmetry == Permutations(Worker) \cup Permutations(Job)
=============================================================================
