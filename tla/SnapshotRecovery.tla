-------------------------- MODULE SnapshotRecovery --------------------------
(***************************************************************************)
(* The boot's ledger integrity check (app/main.py) with the snapshot       *)
(* manager and the recovery hook of runtime/recovery/ledger_guardian.py:   *)
(* take a snapshot of the journal and one of the lineage ledger, verify    *)
(* both files, and put a damaged one back from the newest snapshot that    *)
(* verifies.  One process, which may die anywhere and boot again.          *)
(*                                                                         *)
(* A file is the number of its entries and whether its chain verifies.  An *)
(* absent file and an empty one are the same here: whoever looks at it     *)
(* first creates it empty.  A snapshot's id is its place in the order of   *)
(* creation, which is also that of the directories' mtime; its `seq' is    *)
(* the creation_sequence written in it.                                    *)
(***************************************************************************)
EXTENDS Integers, FiniteSets

CONSTANTS MaxSnapshots,  \* max_snapshots
          MaxEntries,    \* bound on the entries when one is appended
          MaxDamages,    \* bound on the times a file is damaged
          MaxBoots,      \* bound on the starts of the process
          Torn,          \* a snapshots.json a crash left half written
          NoSnapshot     \* no snapshot chosen

ASSUME SnapshotAssumption ==
    /\ MaxSnapshots \in Nat \ {0}
    /\ MaxEntries \in Nat /\ MaxDamages \in Nat /\ MaxBoots \in Nat

Sources == {"journal", "lineage"}
File == [entries : Nat, sound : BOOLEAN]

VARIABLES
    pc,          \* where the process stands
    turn,        \* the file the check is busy with
    then,        \* where it goes on after saving the metadata
    chosen,      \* the snapshot a recovery copies back
    metadata,    \* SnapshotManager._metadata: id -> creation_sequence
    nextSeq,     \* SnapshotManager._next_creation_sequence
    metaFile,    \* snapshots.json
    dirs,        \* the completed snapshot directories
    lastId,      \* the newest of them ever made
    file,        \* the journal and the lineage ledger
    boots,       \* starts of the process
    damages,     \* times a file was damaged
    misnumbered, \* history: a boot found the metadata torn or not yet pruned
    cutShort     \* history: the process died while copying a snapshot back

process == <<pc, turn, then, chosen, metadata, nextSeq>>
disk    == <<metaFile, dirs, lastId, file>>
history == <<boots, damages, misnumbered, cutShort>>
vars    == <<process, disk, history>>

Snapshot == [id : Nat, seq : Nat, source : Sources, entries : Nat,
             sound : BOOLEAN]

NoMetadata == [i \in {} |-> 0]
Empty == [entries |-> 0, sound |-> TRUE]

Init ==
    /\ pc = "down" /\ turn = "journal" /\ then = "prune"
    /\ chosen = NoSnapshot /\ metadata = NoMetadata /\ nextSeq = 1
    /\ metaFile = NoMetadata /\ dirs = {} /\ lastId = 0
    /\ file = [s \in Sources |-> Empty]
    /\ boots = 0 /\ damages = 0
    /\ misnumbered = FALSE /\ cutShort = FALSE

-----------------------------------------------------------------------------
(* A boot loads the metadata.                                              *)

\* _repair_creation_sequences(): 1, 2, ... in the order of the numbers read.
Renumbered(m) ==
    [i \in DOMAIN m |-> Cardinality({j \in DOMAIN m : m[j] <= m[i]})]

\* Orchestrator.__init__: _load_metadata(); what cannot be read is forgotten.
Boot ==
    /\ pc = "down" /\ boots < MaxBoots
    /\ boots' = boots + 1
    /\ LET found == IF metaFile = Torn THEN NoMetadata ELSE metaFile IN
       /\ metadata' = Renumbered(found)
       /\ nextSeq' = Cardinality(DOMAIN found) + 1
       /\ misnumbered' = (\/ misnumbered
                          \/ metaFile = Torn
                          \/ Cardinality(DOMAIN found) > MaxSnapshots)
    /\ pc' = "booted"
    /\ UNCHANGED <<turn, then, chosen, disk, damages, cutShort>>

\* The other parts of the process append, before the check and after it; an
\* append to a damaged file raises.
AppendEntry(s) ==
    /\ pc \in {"booted", "up"}
    /\ file[s].sound /\ file[s].entries < MaxEntries
    /\ file' = [file EXCEPT ![s].entries = @ + 1]
    /\ UNCHANGED <<process, metaFile, dirs, lastId, history>>

\* External: an entry of the file is torn or overwritten.
Damage(s) ==
    /\ damages < MaxDamages
    /\ pc \in {"down", "booted", "up", "verify"}
    /\ file[s].entries > 0
    /\ damages' = damages + 1
    /\ file' = [file EXCEPT ![s].sound = FALSE]
    /\ UNCHANGED <<process, metaFile, dirs, lastId, boots, misnumbered,
                   cutShort>>

-----------------------------------------------------------------------------
(* create_snapshot_set().                                                  *)

\* _check_ledger_integrity() begins with the journal.
BeginCheck ==
    /\ pc = "booted"
    /\ pc' = "copy" /\ turn' = "journal"
    /\ UNCHANGED <<then, chosen, metadata, nextSeq, disk, history>>

\* The staged copy and its metadata.json appear at once, by the rename.
TakeSnapshot ==
    /\ pc = "copy"
    /\ lastId' = lastId + 1
    /\ dirs' = dirs \union {[id |-> lastId + 1, seq |-> nextSeq,
                            source |-> turn, entries |-> file[turn].entries,
                            sound |-> file[turn].sound]}
    /\ pc' = "announce"
    /\ UNCHANGED <<turn, then, chosen, metadata, nextSeq, metaFile, file,
                   history>>

\* append_tx("SNAPSHOT_CREATED") verifies the journal first and raises if it is
\* damaged: the exception leaves the check, the directory is not recorded and
\* its number is used again.
AnnounceRaises ==
    /\ pc = "announce" /\ ~file["journal"].sound
    /\ pc' = "raised"
    /\ UNCHANGED <<turn, then, chosen, metadata, nextSeq, disk, history>>

\* The snapshot is entered in _metadata, which is then saved.
Announce ==
    /\ pc = "announce" /\ file["journal"].sound
    /\ file' = [file EXCEPT !["journal"].entries = @ + 1]
    /\ metadata' = [i \in DOMAIN metadata \union {lastId} |->
                      IF i = lastId THEN nextSeq ELSE metadata[i]]
    /\ nextSeq' = nextSeq + 1
    /\ pc' = "open" /\ then' = "prune"
    /\ UNCHANGED <<turn, chosen, metaFile, dirs, lastId, history>>

\* _save_metadata() with write_text(): the file is emptied, then filled.
OpenMetadata ==
    /\ pc = "open"
    /\ metaFile' = Torn /\ pc' = "fill"
    /\ UNCHANGED <<turn, then, chosen, metadata, nextSeq, dirs, lastId, file,
                   history>>

FillMetadata ==
    /\ pc = "fill"
    /\ metaFile' = metadata /\ pc' = then
    /\ UNCHANGED <<turn, then, chosen, metadata, nextSeq, dirs, lastId, file,
                   history>>

\* Mutant: the list is sorted the other way round.
Surplus_Newest ==
    {i \in DOMAIN metadata :
        Cardinality({j \in DOMAIN metadata : metadata[j] < metadata[i]})
            >= MaxSnapshots}

\* The recorded snapshots after the first MaxSnapshots, highest number first.
Surplus ==
    {i \in DOMAIN metadata :
        Cardinality({j \in DOMAIN metadata : metadata[j] > metadata[i]})
            >= MaxSnapshots}

\* _prune_old_snapshots().
Prune ==
    /\ pc = "prune"
    /\ dirs' = {d \in dirs : d.id \notin Surplus}
    /\ metadata' = [i \in DOMAIN metadata \ Surplus |-> metadata[i]]
    /\ pc' = "open" /\ then' = "created"
    /\ UNCHANGED <<turn, chosen, nextSeq, metaFile, lastId, file, history>>

\* The check goes on with the lineage ledger, then verifies the journal.
Created ==
    /\ pc = "created"
    /\ IF turn = "journal"
       THEN turn' = "lineage" /\ pc' = "copy"
       ELSE turn' = "journal" /\ pc' = "verify"
    /\ UNCHANGED <<then, chosen, metadata, nextSeq, disk, history>>

-----------------------------------------------------------------------------
(* verify_journal_integrity(), verify_integrity() and the recovery hook.   *)

VerifyPasses ==
    /\ pc = "verify" /\ file[turn].sound
    /\ IF turn = "journal"
       THEN turn' = "lineage" /\ pc' = "verify"
       ELSE turn' = turn /\ pc' = "up"
    /\ UNCHANGED <<then, chosen, metadata, nextSeq, disk, history>>

Valid(s) == {d \in dirs : d.source = s /\ d.sound}

\* Higher creation_sequence first, then later mtime.
Outranks(d, e) == d.seq > e.seq \/ (d.seq = e.seq /\ d.id > e.id)

\* Mutant: the first snapshot in the other direction.
Latest_Oldest(s) ==
    {d \in Valid(s) : \A e \in Valid(s) \ {d} : Outranks(e, d)}

\* get_latest_valid_snapshot(): the first in that order that verifies.
Latest(s) ==
    {d \in Valid(s) : \A e \in Valid(s) \ {d} : Outranks(d, e)}

\* Mutant: the recovery is tried again until there is a snapshot.
NoneValid_Retries ==
    /\ pc = "verify" /\ ~file[turn].sound /\ Valid(turn) = {}
    /\ UNCHANGED <<process, disk, history>>

\* lineage_recovery_failed, journal_recovery_failed: the check returns False.
NoneValid ==
    /\ pc = "verify" /\ ~file[turn].sound /\ Valid(turn) = {}
    /\ pc' = "up"
    /\ UNCHANGED <<turn, then, chosen, metadata, nextSeq, disk, history>>

\* _restore_from_snapshot(): the file is moved to *.corrupted ...
MoveAway ==
    /\ pc = "verify" /\ ~file[turn].sound
    /\ chosen' \in Latest(turn)
    /\ file' = [file EXCEPT ![turn] = Empty]
    /\ pc' = "restore"
    /\ UNCHANGED <<turn, then, metadata, nextSeq, metaFile, dirs, lastId,
                   history>>

\* Mutant: the copy is left out.
CopyBack_Skipped ==
    /\ pc = "restore"
    /\ chosen' = NoSnapshot
    /\ pc' = "up"
    /\ UNCHANGED <<turn, then, metadata, nextSeq, disk, history>>

\* ... and the snapshot is copied in its place; the error that was found is
\* raised all the same and the check returns False.
CopyBack ==
    /\ pc = "restore"
    /\ file' = [file EXCEPT ![turn] = [entries |-> chosen.entries,
                                       sound |-> chosen.sound]]
    /\ chosen' = NoSnapshot
    /\ pc' = "up"
    /\ UNCHANGED <<turn, then, metadata, nextSeq, metaFile, dirs, lastId,
                   history>>

-----------------------------------------------------------------------------
(* The process ends.                                                       *)

Down ==
    /\ pc' = "down" /\ turn' = "journal" /\ then' = "prune"
    /\ chosen' = NoSnapshot /\ metadata' = NoMetadata /\ nextSeq' = 1

\* External: the process stops; an exception of the check also ends the boot.
Stop == /\ pc \notin {"down", "restore"}
        /\ Down
        /\ UNCHANGED <<disk, history>>

\* External: it dies while a snapshot is copied back, which leaves whole lines
\* of it or a torn one, or nothing.
DieRestoring ==
    /\ pc = "restore"
    /\ \E n \in 0..chosen.entries, whole \in BOOLEAN :
         /\ n = 0 => whole
         /\ file' = [file EXCEPT ![turn] = [entries |-> n, sound |-> whole]]
    /\ cutShort' = TRUE
    /\ Down
    /\ UNCHANGED <<metaFile, dirs, lastId, boots, damages, misnumbered>>

Snapshotting == BeginCheck \/ TakeSnapshot \/ AnnounceRaises \/ Announce
                \/ OpenMetadata \/ FillMetadata \/ Prune \/ Created

Verifying == VerifyPasses \/ NoneValid \/ MoveAway \/ CopyBack

Next == \/ Boot \/ Snapshotting \/ Verifying \/ Stop \/ DieRestoring
        \/ \E s \in Sources : AppendEntry(s) \/ Damage(s)

Spec == Init /\ [][Next]_vars

\* The check runs on while its process lives.
FairSpec == Spec /\ WF_vars(Snapshotting \/ Verifying)
-----------------------------------------------------------------------------
(* Properties.                                                             *)

\* A list of snapshots numbers them in the order of their creation.
NumbersFollowIds(m) ==
    /\ DOMAIN m \subseteq 1..lastId
    /\ \A i \in DOMAIN m : m[i] \in Nat \ {0}
    /\ \A i, j \in DOMAIN m : i < j => m[i] < m[j]

\* Every variable is of its type, and the recorded snapshots have numbers of
\* their own below the next one, as list_snapshots() and _prune_old_snapshots()
\* sort by nothing else.
TypeOK ==
    /\ pc \in {"down", "booted", "copy", "announce", "open", "fill", "prune",
               "created", "verify", "restore", "up", "raised"}
    /\ turn \in Sources /\ then \in {"prune", "created"}
    /\ chosen \in Snapshot \union {NoSnapshot}
    /\ pc = "restore" => chosen \in Snapshot
    /\ lastId \in Nat /\ dirs \in SUBSET Snapshot
    /\ \A d \in dirs : d.id \in 1..lastId
    /\ \A d, e \in dirs : d.id = e.id => d = e
    /\ pc = "announce" => lastId > 0 /\ lastId \notin DOMAIN metadata
    /\ NumbersFollowIds(metadata)
    /\ \A i \in DOMAIN metadata : metadata[i] < nextSeq
    /\ metaFile = Torn \/ NumbersFollowIds(metaFile)
    /\ nextSeq \in Nat \ {0}
    /\ file \in [Sources -> File]
    /\ boots \in 0..MaxBoots /\ damages \in 0..MaxDamages
    /\ misnumbered \in BOOLEAN /\ cutShort \in BOOLEAN

\* The numbers written in the directories follow the order of creation, over
\* every prune, renumbering, reuse of a number and restart, as long as no boot
\* found the metadata torn or with more than max_snapshots of them.  The
\* numbers in memory start again at 1 with every boot, those in the
\* directories never change.
SequenceFollowsCreation ==
    ~misnumbered =>
        \A d, e \in dirs : d.source = e.source /\ d.id < e.id => d.seq <= e.seq

\* A recovery copies back the newest snapshot of the file that verifies
\* (get_latest_valid_snapshot()), under the same condition.
NewestRestored ==
    pc = "restore" /\ ~misnumbered =>
        \A d \in Valid(turn) : d.id <= chosen.id

\* No check leaves a file that verifies behind a snapshot of it: unless a crash
\* cut a restore short or spoilt the numbers, what a snapshot has kept of a
\* ledger is never silently missing from it.
SnapshotsNeverAhead ==
    ~misnumbered /\ ~cutShort /\ pc # "restore" =>
        \A s \in Sources : file[s].sound =>
            \A d \in Valid(s) : d.entries <= file[s].entries

\* Pruning removes a snapshot only if all those it keeps on record are newer,
\* however often they were renumbered.
OldestPruned ==
    [][\A d \in dirs \ dirs' : \A i \in DOMAIN metadata' : d.id < i]_vars

\* What makes these inductive.  Of the first max_snapshots on a list, the journal's
\* snapshots have numbers up to one more than there are, the lineage ledger's up to
\* two, since a check takes one of each, in this order.
Kept(m) == LET n == Cardinality(DOMAIN m)
           IN  IF n > MaxSnapshots THEN MaxSnapshots ELSE n
NumbersUpTo(k) ==
    \A d \in dirs : d.seq <= k + (IF d.source = "journal" THEN 1 ELSE 2)

\* Before the journal's snapshot of a check is on the list, and then before the
\* lineage ledger's is.
JournalNext == pc = "booted" \/ (turn = "journal" /\ pc \in {"copy", "announce"})
LineageNext == \/ turn = "journal" /\ pc \in {"open", "fill", "prune", "created"}
               \/ turn = "lineage" /\ pc \in {"copy", "announce"}
Surplussed  == pc = "prune" \/ (pc \in {"open", "fill"} /\ then = "prune")
Listing == {"booted", "copy", "announce", "open", "fill", "prune", "created"}

NumbersBounded ==
    /\ metaFile # Torn => NumbersUpTo(Kept(metaFile))
    /\ pc \in Listing =>
         /\ NumbersUpTo(Kept(metadata))
         /\ Cardinality(DOMAIN metadata) <= MaxSnapshots + (IF Surplussed THEN 1 ELSE 0)
    /\ pc \in {"booted", "copy", "announce", "created"} =>
         DOMAIN metaFile = DOMAIN metadata
    /\ JournalNext => nextSeq = Cardinality(DOMAIN metadata) + 1
    /\ LineageNext => /\ nextSeq <= Kept(metadata) + 2
                      /\ \A d \in dirs : d.source = "lineage" => d.seq <= nextSeq

\* Later snapshots of a file that verify hold no fewer entries.
SnapshotsGrow ==
    \A s \in Sources : \A d, e \in Valid(s) : d.id < e.id => d.entries <= e.entries

\* No file, damaged or not, has fewer entries than a snapshot of it that verifies,
\* unless it is just being restored.
FilesCovered ==
    \A s \in Sources : \A d \in Valid(s) :
        d.entries <= IF pc = "restore" /\ s = turn THEN chosen.entries
                                                   ELSE file[s].entries

IInv ==
    /\ TypeOK
    /\ SequenceFollowsCreation
    /\ NewestRestored
    /\ ~misnumbered => NumbersBounded
    /\ pc = "restore" => chosen \in Valid(turn)
    /\ ~misnumbered /\ ~cutShort => SnapshotsGrow /\ FilesCovered

\* A check comes to an end, and if it gets past its snapshots and the process
\* lives the lineage ledger verifies or had no snapshot to be restored from.
CheckSettles ==
    pc = "booted" ~>
        \/ pc \in {"down", "raised"}
        \/ pc = "up" /\ (file["lineage"].sound \/ Valid("lineage") = {})
=============================================================================
