---------------------------- MODULE LineageLedger ----------------------------
(***************************************************************************)
(* The lineage ledger of runtime/evolution/lineage_v2.py: a hash-chained   *)
(* file shared by several LineageLedgerV2 instances, here one per process. *)
(*                                                                         *)
(* append_event is optimistic: it reads the tail hash without a lock, then *)
(* takes the lock file, reads the tail again, and gives up with a          *)
(* "conflict" outcome when the tail has moved in every attempt.  The lock  *)
(* is a file made with O_EXCL, so a dead holder leaves it behind.  An      *)
(* append of a bundle also chains the epoch's digest, from what the        *)
(* instance remembers (_epoch_digest_index) or else from the file, and a   *)
(* checkpoint of the epoch (checkpoint_registry.py) carries that digest.   *)
(*                                                                         *)
(* Abstractions.  As in CryovantJournal a hash is the sequence of the      *)
(* entries it covers, and a digest the sequence of bundles.  There is one  *)
(* epoch.  _TAIL_CACHE and _verified_tail_hash are left out: every append  *)
(* scans the file instead.  A line longer than the write buffer reaches    *)
(* the file in two parts, of which only the fragment in between matters.   *)
(***************************************************************************)
EXTENDS Naturals, Sequences, SequencesExt

CONSTANTS
  Writer,       \* processes with a LineageLedgerV2 instance
  Bundler,      \* those of them that append mutation bundles of the epoch
  Fragment,     \* a line without an end that is no JSON
  Joined,       \* a line that holds the text of two entries
  Unlocked,     \* there is no lock file
  Orphaned,     \* the lock file of a process that died
  NoDigest,     \* no digest is remembered, or the entry carries none
  MaxAttempts,  \* max_attempts of append_event
  MaxAppends,   \* bound: appends started by one writer
  MaxCrashes    \* bound: process crashes

ASSUME ParameterAssumption ==
  /\ Bundler \subseteq Writer
  /\ MaxAttempts \in Nat \ {0} /\ MaxAppends \in Nat /\ MaxCrashes \in Nat

\* An append is named by its writer and its number there.
Event == Writer \X Nat
Hash == Seq(Event)
ZeroHash == <<>>
Digest == Seq(Event)

\* bundle: it is a MutationBundleEvent; without it, the digest is a checkpoint's.
Entry == [prev : Hash, id : Event, digest : Digest \cup {NoDigest}, bundle : BOOLEAN]

ASSUME NameAssumption ==
  /\ {Fragment, Joined} \cap Entry = {} /\ Fragment # Joined
  /\ {Unlocked, Orphaned} \cap Writer = {} /\ Unlocked # Orphaned
  /\ NoDigest \notin Digest

Step == {"scan", "lock", "check", "write", "rest", "unlock"}
\* before: tail_hash_before; from: the file's length when the append began, which the
\* code does not keep (for the properties).
Job == [id : Event, digest : Digest \cup {NoDigest}, bundle : BOOLEAN, before : Hash,
        attempt : Nat, from : Nat]

VARIABLES
  lines,   \* the lines of the ledger file
  open,    \* the last of them does not end in a newline
  lock,    \* who made the lock file
  pc,      \* the next step of each writer's append_event
  job,     \* what it appends and has read so far
  index,   \* _epoch_digest_index of each instance
  sent,    \* appends each writer has started
  acked,   \* hashes of entries reported as committed
  lost,    \* writers that have remembered the digest of a bundle that is not stored
  crashes

vars == <<lines, open, lock, pc, job, index, sent, acked, lost, crashes>>

-----------------------------------------------------------------------------
(* Reading the file *)

HashOf(e) == Append(e.prev, e.id)
IsEntry(l) == l \notin {Fragment, Joined}

\* _scan_tail_unlocked raises: the last line is no entry, or the only one has a
\* predecessor.  Earlier lines are not looked at as long as the last one parses.
TailRaises ==
  /\ lines # <<>>
  /\ \/ ~IsEntry(Last(lines))
     \/ Len(lines) = 1 /\ IsEntry(lines[1]) /\ lines[1].prev # ZeroHash

TailHash == IF lines = <<>> THEN ZeroHash ELSE HashOf(Last(lines))

\* verify_integrity accepts the whole file.
Verifies ==
  \A i \in DOMAIN lines :
    /\ IsEntry(lines[i])
    /\ lines[i].prev = IF i = 1 THEN ZeroHash ELSE HashOf(lines[i - 1])

HasDigest(l) == IsEntry(l) /\ l.digest # NoDigest
IsBundle(l) == HasDigest(l) /\ l.bundle

\* get_epoch_digest of an instance that remembers none: that of the last bundle or
\* checkpoint.
StoredDigest ==
  LET at == {i \in DOMAIN lines : HasDigest(lines[i])}
  IN IF at = {} THEN NoDigest
     ELSE lines[CHOOSE i \in at : \A k \in at : k <= i].digest

\* compute_incremental_epoch_digest: the digest after each entry of a file, of its
\* bundles alone.
DigestsOf(file) ==
  LET digest[i \in 0..Len(file)] ==
        IF i = 0 THEN <<>>
        ELSE IF IsBundle(file[i]) THEN Append(digest[i - 1], file[i].id) ELSE digest[i - 1]
  IN digest

Recomputed == DigestsOf(lines)[Len(lines)]

-----------------------------------------------------------------------------
Init ==
  /\ lines = <<>> /\ open = FALSE
  /\ lock = Unlocked
  /\ pc = [w \in Writer |-> "idle"]
  /\ job = [w \in Writer |-> [id |-> <<w, 0>>, digest |-> NoDigest, bundle |-> FALSE,
                              before |-> ZeroHash, attempt |-> 0, from |-> 0]]
  /\ index = [w \in Writer |-> NoDigest]
  /\ sent = [w \in Writer |-> 0]
  /\ acked = {} /\ lost = {}
  /\ crashes = 0

Goto(w, step) == pc' = [pc EXCEPT ![w] = step]

Start(w, digest, bundle) ==
  /\ pc[w] = "idle" /\ sent[w] < MaxAppends
  /\ sent' = [sent EXCEPT ![w] = @ + 1]
  /\ job' = [job EXCEPT ![w] = [id |-> <<w, sent[w] + 1>>, digest |-> digest,
                                bundle |-> bundle, before |-> ZeroHash, attempt |-> 1, from |-> Len(lines)]]
  /\ Goto(w, "scan")

\* append_event of anything but a bundle or a checkpoint.
AppendEvent(w) ==
  /\ Start(w, NoDigest, FALSE)
  /\ UNCHANGED <<lines, open, lock, index, acked, lost, crashes>>

\* Mutant: every bundle starts a chain of its own.
PreviousDigest_Unchained(w) == <<>>

\* The digest an instance chains from: its own, or what a verified read finds.
PreviousDigest(w) ==
  LET known == IF index[w] # NoDigest THEN index[w] ELSE StoredDigest
  IN IF known = NoDigest THEN <<>> ELSE known

\* get_epoch_digest remembers what it found in the file.
LookUpDigest(w) == index' = [index EXCEPT ![w] = IF @ = NoDigest THEN StoredDigest ELSE @]

\* append_bundle_with_digest up to its call of append_event.  It raises, without any
\* effect, when it has to read a file that does not verify.
AppendBundle(w) ==
  /\ w \in Bundler
  /\ index[w] # NoDigest \/ Verifies
  /\ Start(w, Append(PreviousDigest(w), <<w, sent[w] + 1>>), TRUE)
  /\ LookUpDigest(w)
  /\ UNCHANGED <<lines, open, lock, acked, lost, crashes>>

\* create_checkpoint of any process up to its first append_event; it has read a file
\* that verifies.  The digest is the instance's own, of the bundles it has seen.
\* The CheckpointGovernanceEvent that follows is an AppendEvent.
AppendCheckpoint(w) ==
  /\ Verifies
  /\ Start(w, PreviousDigest(w), FALSE)
  /\ LookUpDigest(w)
  /\ UNCHANGED <<lines, open, lock, acked, lost, crashes>>

\* tail_hash_before is read, with no lock; a tail that is no entry raises.
ScanTail(w) ==
  /\ pc[w] = "scan"
  /\ IF TailRaises THEN Goto(w, "idle") /\ UNCHANGED job
     ELSE /\ Goto(w, "lock")
          /\ job' = [job EXCEPT ![w].before = TailHash]
  /\ UNCHANGED <<lines, open, lock, index, sent, acked, lost, crashes>>

\* Mutant: a lock file is taken for one's own.
LockFree_Ignored == TRUE

\* O_EXCL: the lock file can be made.
LockFree == lock = Unlocked

AcquireLock(w) ==
  /\ pc[w] = "lock" /\ LockFree
  /\ lock' = w
  /\ Goto(w, "check")
  /\ UNCHANGED <<lines, open, job, index, sent, acked, lost, crashes>>

\* Mutant: an append waits for the lock as long as it takes.
MayTimeOut_Never == FALSE

\* The lock file has been there for ten seconds: append_event raises.
MayTimeOut == lock # Unlocked

LockTimeout(w) ==
  /\ pc[w] = "lock" /\ MayTimeOut
  /\ Goto(w, "idle")
  /\ UNCHANGED <<lines, open, lock, job, index, sent, acked, lost, crashes>>

\* Mutant: an attempt counts as a conflict whether or not the tail has moved.
TailMoved_Always(w) == TRUE

\* Under the lock: the tail is not what it was before.
TailMoved(w) == job[w].before # TailHash

\* The second scan raises; the lock file is removed on the way out.
CheckRaises(w) ==
  /\ pc[w] = "check" /\ TailRaises
  /\ lock' = Unlocked
  /\ Goto(w, "idle")
  /\ UNCHANGED <<lines, open, job, index, sent, acked, lost, crashes>>

\* A conflict with attempts left: scan again.
Retry(w) ==
  /\ pc[w] = "check" /\ ~TailRaises /\ TailMoved(w)
  /\ job[w].attempt < MaxAttempts
  /\ lock' = Unlocked
  /\ job' = [job EXCEPT ![w].attempt = @ + 1]
  /\ Goto(w, "scan")
  /\ UNCHANGED <<lines, open, index, sent, acked, lost, crashes>>

\* The last conflict is an outcome, not an exception.  append_bundle_with_digest does
\* not look at the outcome and remembers the digest of a bundle that is not stored.
Conflict(w) ==
  /\ pc[w] = "check" /\ ~TailRaises /\ TailMoved(w)
  /\ job[w].attempt = MaxAttempts
  /\ lock' = Unlocked
  /\ Goto(w, "idle")
  /\ IF job[w].bundle
     THEN index' = [index EXCEPT ![w] = job[w].digest] /\ lost' = lost \cup {w}
     ELSE UNCHANGED <<index, lost>>
  /\ UNCHANGED <<lines, open, job, sent, acked, crashes>>

Check(w) ==
  /\ pc[w] = "check" /\ ~TailRaises /\ ~TailMoved(w)
  /\ Goto(w, "write")
  /\ UNCHANGED <<lines, open, lock, job, index, sent, acked, lost, crashes>>

\* Mutant: the file is opened for writing, not for appending.
WithText_Overwrites(line) == <<line>>

\* Text written at the end of the file: a line of its own, or more of the last line.
WithText(line) ==
  IF open THEN [lines EXCEPT ![Len(lines)] = Joined] ELSE Append(lines, line)

\* The first part of a long line reaches the file, where readers see it.
WritePart(w) ==
  /\ pc[w] = "write"
  /\ lines' = WithText(Fragment) /\ open' = TRUE
  /\ Goto(w, "rest")
  /\ UNCHANGED <<lock, job, index, sent, acked, lost, crashes>>

\* Mutant: every entry is chained from the start.
NewEntry_Unchained(w) ==
  [prev |-> ZeroHash, id |-> job[w].id, digest |-> job[w].digest, bundle |-> job[w].bundle]

\* prev_hash is the tail found under the lock, which Check has compared with before.
NewEntry(w) ==
  [prev |-> job[w].before, id |-> job[w].id, digest |-> job[w].digest, bundle |-> job[w].bundle]

\* What a fragment becomes once the rest of its line follows.
Completed(w) ==
  IF Last(lines) = Joined THEN lines ELSE [lines EXCEPT ![Len(lines)] = NewEntry(w)]

WriteLine(w) ==
  /\ \/ pc[w] = "write" /\ lines' = WithText(NewEntry(w))
     \/ pc[w] = "rest"  /\ lines' = Completed(w)
  /\ open' = FALSE
  /\ Goto(w, "unlock")
  /\ UNCHANGED <<lock, job, index, sent, acked, lost, crashes>>

\* What an interrupted write may leave of its line: the part that was flushed, or all
\* of it but the newline.
LeftBehind(w) ==
  IF pc[w] = "rest" THEN {lines, Completed(w)} ELSE {lines}

\* The write raises (no space left), after the first part or before it.
WriteFails(w) ==
  /\ pc[w] \in {"write", "rest"}
  /\ lines' \in LeftBehind(w)
  /\ lock' = Unlocked
  /\ Goto(w, "idle")
  /\ UNCHANGED <<open, job, index, sent, acked, lost, crashes>>

\* The lock file is removed and append_event returns "committed".
Return(w) ==
  /\ pc[w] = "unlock"
  /\ lock' = Unlocked
  /\ acked' = acked \cup {Append(job[w].before, job[w].id)}
  /\ index' = IF job[w].bundle THEN [index EXCEPT ![w] = job[w].digest] ELSE index
  /\ Goto(w, "idle")
  /\ UNCHANGED <<lines, open, job, sent, lost, crashes>>

\* A process dies; its lock file, if it made one, stays.  Its successor starts with a
\* new instance.
Crash(w) ==
  /\ crashes < MaxCrashes
  /\ crashes' = crashes + 1
  /\ lines' \in LeftBehind(w)
  /\ lock' = IF lock = w THEN Orphaned ELSE lock
  /\ Goto(w, "idle")
  /\ index' = [index EXCEPT ![w] = NoDigest]
  /\ UNCHANGED <<open, job, sent, acked, lost>>

\* An operator removes the lock file of a dead process; no code does.
RemoveLock ==
  /\ lock = Orphaned
  /\ lock' = Unlocked
  /\ UNCHANGED <<lines, open, pc, job, index, sent, acked, lost, crashes>>

Advance(w) ==
  \/ ScanTail(w) \/ AcquireLock(w) \/ LockTimeout(w)
  \/ CheckRaises(w) \/ Retry(w) \/ Conflict(w) \/ Check(w)
  \/ WritePart(w) \/ WriteLine(w) \/ WriteFails(w) \/ Return(w)

Next ==
  \/ \E w \in Writer : \/ AppendEvent(w) \/ AppendBundle(w) \/ AppendCheckpoint(w)
                       \/ Advance(w) \/ Crash(w)
  \/ RemoveLock

Spec == Init /\ [][Next]_vars

\* append_event is a straight line of steps that the scheduler keeps running, with
\* waits that time out.  Nobody is obliged to append, to crash or to remove a lock.
FairSpec == Spec /\ \A w \in Writer : WF_vars(Advance(w))

-----------------------------------------------------------------------------
(* Correctness *)

TypeOK ==
  /\ lines \in Seq(Entry \cup {Fragment, Joined}) /\ open \in BOOLEAN
  /\ lock \in Writer \cup {Unlocked, Orphaned}
  /\ pc \in [Writer -> Step \cup {"idle"}]
  /\ job \in [Writer -> Job]
  /\ index \in [Writer -> Digest \cup {NoDigest}]
  /\ sent \in [Writer -> Nat] /\ crashes \in Nat
  /\ acked \subseteq Hash
  /\ lost \subseteq Writer

\* However appends interleave and wherever processes die, only the last line can be
\* anything but an entry, and the others chain from the first: two writers never
\* chain from the same tail (_append_with_tail_precondition).
ChainIntact ==
  \A i \in DOMAIN lines :
    /\ i < Len(lines) => IsEntry(lines[i])
    /\ IsEntry(lines[i]) => lines[i].prev = IF i = 1 THEN ZeroHash ELSE HashOf(lines[i - 1])

\* What append_event reported as committed can be read again, unless a crash has left
\* a whole entry without its newline and the next entry was written on the same line.
StoredHashes == {HashOf(lines[i]) : i \in {k \in DOMAIN lines : IsEntry(lines[k])}}
Spoiled == lines # <<>> /\ Last(lines) = Joined
CommittedStays == Spoiled \/ acked \subseteq StoredHashes

\* Retries are only caused by others' progress: every attempt used up is a line that
\* reached the file since the append began (append_event).
Paid(w) == pc[w] # "idle" => Len(lines) >= job[w].from + job[w].attempt - 1
AttemptsArePaid == \A w \in Writer : Paid(w)

\* A process that appends no bundles has stored a checkpoint whose digest leaves out a
\* bundle: one its instance had not looked up, or one that overtook the checkpoint.
Outdated(i) ==
  /\ HasDigest(lines[i]) /\ ~lines[i].bundle /\ lines[i].id[1] \notin Bundler
  /\ lines[i].digest # DigestsOf(lines)[i]
OutdatedCheckpoint == \E i \in DOMAIN lines : Outdated(i)

\* With one bundler, the digest its instance remembers, and the last one stored, in a
\* bundle or a checkpoint, are what replay recomputes from the file's bundles, unless a
\* bundle was dropped in a conflict or another process stored an outdated checkpoint
\* (append_bundle_with_digest, create_checkpoint, compute_incremental_epoch_digest).
DigestFollowsFile ==
  Verifies /\ ~open /\ lost = {} /\ ~OutdatedCheckpoint =>
    \A d \in {index[w] : w \in {b \in Bundler : pc[b] = "idle"}} \cup {StoredDigest} :
      d # NoDigest => d = Recomputed

\* Whoever is between taking the lock and removing it made the lock file.
Holding == {"check", "write", "rest", "unlock"}
LockHeld == \A w \in Writer : pc[w] \in Holding <=> lock = w

\* A line's hash covers as many entries as there are lines up to it.
HashLengths == \A i \in DOMAIN lines : IsEntry(lines[i]) => Len(lines[i].prev) = i - 1

\* Only the last line can lack its newline, and a lone fragment does.
OpenLine == /\ open => lines # <<>>
            /\ lines # <<>> /\ Last(lines) = Fragment => open

\* What the writer that holds the lock knows of the file.
TailBefore == IF Len(lines) < 2 THEN ZeroHash ELSE HashOf(lines[Len(lines) - 1])
Knows(w) ==
  /\ pc[w] = "write" => ~TailRaises /\ job[w].before = TailHash
  /\ pc[w] = "rest" =>
       /\ open /\ ~IsEntry(Last(lines))
       /\ Last(lines) = Fragment => job[w].before = TailBefore
  /\ pc[w] = "unlock" => Spoiled \/ Append(job[w].before, job[w].id) \in StoredHashes
HolderKnows == \A w \in Writer : Knows(w)

\* A tail hash read without the lock is the file's, or there are more lines by now.
IsPast(w) ==
  pc[w] \in {"lock", "check"} =>
    /\ Len(job[w].before) \in (job[w].from + job[w].attempt - 1)..Len(lines)
    /\ Len(job[w].before) = Len(lines) /\ lines # <<>> =>
         Last(lines) = Joined \/ (IsEntry(Last(lines)) /\ HashOf(Last(lines)) = job[w].before)
BeforeIsPast == \A w \in Writer : IsPast(w)

\* The inductive invariant.
IInv ==
  /\ TypeOK
  /\ ChainIntact
  /\ LockHeld
  /\ HashLengths
  /\ OpenLine
  /\ HolderKnows
  /\ BeforeIsPast
  /\ CommittedStays
  /\ AttemptsArePaid

\* No bundle was dropped, no two entries share a line, and a line without its newline
\* is still being written; no other process's checkpoint is outdated either.
Tidy == lost = {} /\ ~Spoiled /\ (open => \E w \in Writer : pc[w] = "rest")
Clean == Tidy /\ ~OutdatedCheckpoint

\* The entry of an append is not stored yet, or its bundle is.
Ahead(w)  == pc[w] \in {"scan", "lock", "check", "write", "rest"} /\ job[w].digest # NoDigest
Behind(w) == pc[w] = "unlock" /\ job[w].bundle

\* The bundles of the epoch come from one process.
OneBundler == \A b, c \in Bundler : b = c

\* With one bundler: every stored digest is the one recomputed up to it, and what the
\* bundler remembers or is about to store continues the file.
BundlesChain == \A i \in DOMAIN lines : HasDigest(lines[i]) => lines[i].digest = DigestsOf(lines)[i]
Continues(w) ==
  /\ index[w] # NoDigest => Behind(w) \/ index[w] = Recomputed
  /\ Ahead(w) => job[w].digest = IF job[w].bundle THEN Append(Recomputed, job[w].id)
                                 ELSE Recomputed
  /\ Behind(w) => job[w].digest = Recomputed
DigestInv ==
  /\ \A w \in Writer : job[w].bundle => w \in Bundler /\ job[w].digest # NoDigest
  /\ \A w \in Writer : job[w].id[1] = w
  /\ Clean => BundlesChain /\ \A w \in Bundler : Continues(w)

\* Once the last line is spoiled no entry is ever added, and complete lines never
\* change: a writer only touches a last line that has no newline.
Whole == IF open THEN Front(lines) ELSE lines
WholeLinesStay == [][IsPrefix(Whole, lines') /\ (Spoiled /\ ~open => lines' = lines)]_vars

\* Every append_event returns or raises, also behind the lock file of a dead process
\* (_file_lock).
AppendReturns == \A w \in Writer : pc[w] # "idle" ~> pc[w] = "idle"
=============================================================================
