------------------------- MODULE MCCryovantJournal -------------------------
(* Instances of CryovantJournal small enough for TLC. *)
EXTENDS CryovantJournal, TLC

CONSTANTS p1, p2, a, b

\* As shipped: a genesis file at the module-level path only, here of one line.
ShippedGenesis == [r \in Role |-> IF r = "verify" THEN <<a>> ELSE Absent]

MissingFile == {Absent}
EmptyFile == {<<>>}

\* No tail-state file.
NoTailFile == {NoTail}

\* A checkout holds a tail-state file of another journal's tail.
StaleTailFile == {[hash |-> Foreign, off |-> 1]}

\* What follows a seed that has raced is left out.
UntilRaced == ~seedRaced

\* At most MaxBusy of the four threads are followed inside a call at the same time.
MaxBusy == 3
FewBusy ==
  Cardinality({p \in Proc : app[p].pc # "idle"}) + Cardinality({p \in Proc : ver[p].pc # "idle"})
    <= MaxBusy

\* Processes are interchangeable: no constant names one of them.
ProcSymmetry == Permutations(Proc)
=============================================================================
