--------------------------- MODULE AppendOnlyLog ---------------------------
(***************************************************************************)
(* What a ledger of this system promises its callers: a sequence that only *)
(* ever grows at its end, and acknowledgements of prefixes of it.  An      *)
(* acknowledgement is the prefix it certifies.                             *)
(***************************************************************************)
EXTENDS Naturals, Sequences

CONSTANT Payload

VARIABLES log, acked

Init == log \in Seq(Payload) /\ acked = {}

\* An empty log is given its first entries.
Seed == log = <<>> /\ log' \in Seq(Payload) /\ UNCHANGED acked

\* One entry is stored.
Extend == /\ \E pay \in Payload : log' = Append(log, pay)
          /\ UNCHANGED acked

\* A writer learns that its entry is stored, and behind which others.
Acknowledge == /\ \E n \in 1..Len(log) : acked' = acked \cup {SubSeq(log, 1, n)}
               /\ UNCHANGED log

Next == Seed \/ Extend \/ Acknowledge

Spec == Init /\ [][Next]_<<log, acked>>
=============================================================================
