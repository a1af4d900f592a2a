------------------------ MODULE MCMutationExecution ------------------------
(* Small instances of MutationExecution: "f" is there at the start, "g" is not. *)
EXTENDS MutationExecution

MCFiles       == {"f", "g"}
MCExisting    == {"f"}
MCTargetLists == {<<"f", "g">>, <<"g", "g">>, <<"f", "f">>}
MCBits        == {1, 2}
=============================================================================
