# Verification of the ADAAD runtime

TLA+ models of the stateful core of ADAAD, checked with TLC on small instances and, where
the prover reaches, proved with TLAPS for every value of the constants. ADAAD lets agents
propose changes to code; what makes that defensible is a chain of components that keep state
across processes, crashes and late messages: two hash-chained ledgers, a human approval gate,
a job queue with leases, the execution of a mutation with its file transaction and its gates,
epochs with an entropy budget, snapshots the ledgers are restored from, and a federation of
nodes that elects a leader. Those are modelled. Scoring, prompting, rendering and reporting
are not.

All paths below are relative to the repository's root.

## Inventory

| Component (source) | State | Operations | What is hard | What makes it correct | Module |
|:--|:--|:--|:--|:--|:--|
| Cryovant journal (`security/ledger/journal.py`) | journal file, two tail-state files, a tail cache per process, an advisory lock | `ensure_journal`, `append_tx`, `verify_journal_integrity`, `invalidate_journal_cache` | several processes; verify takes no lock; caches older than the file; a crash inside a write | one chain; a warm append chains from what a full scan gives; acknowledged entries stay; damage is noticed | `CryovantJournal` |
| Evolution lineage ledger (`runtime/evolution/lineage_v2.py`) | a second hash-chained file, a lock file, the epoch's digest per instance | `append_event` with optimistic retry, `append_bundle_with_digest`, `get_epoch_digest` (also for `create_checkpoint` of `checkpoint_registry.py`), `verify_integrity` | the tail is read before the lock; a lock file nobody removes; a write that stops half-way; a conflict that is returned and not raised; a digest remembered while others append | one chain; a committed entry stays; retries are caused by others' progress; every call ends | `LineageLedger` |
| Human approval gate (`runtime/governance/human_approval_gate.py`, handlers in `app/api/mutation_control.py`) | queue file, audit file, an index derived from both, an index cache per gate | request, decide, batch approve, revoke, `is_approved` (which writes on expiry), list pending | two files and an index are three writes; a gate per request; expiry; torn lines | the index is the replay of the logs; only licensed mutations are granted; no decision is lost | `ApprovalGate` |
| Mutation job queue (`runtime/state/mutation_job_queue.py`, `mutation_job_transitions.py`) | a row per job, a ledger of transitions | enqueue, lease, start, heartbeat, complete, retry, recover orphans | leases that expire under a live owner; read–write–record without a lock, so that operations overlap; a crash in between | attempts bounded; a live lease is its owner's; a verdict stays; the ledger explains the rows | `MutationJobQueue` |
| Mutation execution and lifecycle (`app/mutation_executor.py`, `runtime/mutation_lifecycle.py`, `runtime/tools/mutation_tx.py`, `mutation_fs.py`) | the agent's files, a rollback directory and a lifecycle file per mutation, entries in both ledgers | `execute`, with lifecycle transitions, governor, file transaction, tests, entropy, risk and promotion gates | every step can refuse, raise or be the last before a crash; a rollback that runs twice or passes over what fails; a commit before the last gates | what the ledgers and the status say of a mutation is true of the files; the budget is kept; a failed-closed governor stops everything | `MutationExecution` |
| Epochs and the governor (`runtime/evolution/epoch.py`, `runtime.py`, `governor.py`, `checkpoint_verifier.py`) | the active epoch in memory and in a file, epoch events in the lineage ledger, two flags in memory | boot, cycle hooks, rotate, charge, fail closed, recover | a rotation is four writes to two files; the state file is emptied before it is filled | one epoch takes mutations at a time, none after its end; limits hold across restarts | `EpochManager` |
| Recovery guardian and boot check (`runtime/recovery/ledger_guardian.py`, `_check_ledger_integrity` of `app/main.py`) | snapshot directories, their list in memory and in `snapshots.json`, both ledger files | snapshot, prune, verify, restore | the snapshot appends to the file it is about to verify; numbers that start again; a crash between move and copy | snapshots are numbered and pruned in the order they were made, the newest valid one is restored, the check ends | `SnapshotRecovery` |
| Federation consensus engine (`runtime/governance/federation/consensus.py`) | term, role, vote, leader, log and vote counts per node, in memory only | start election, request vote, receive vote, receive heartbeat, append, commit | lost, repeated, late messages; a journal that raises half-way; restarts | one vote and one leader per term; entries only from majority leaders | `FederationConsensus` |
| Federation coordination (`…/federation/coordination.py`, `node_supervisor.py`, `mutation_broker.py`) | lock files with an expiry, peers, proposal queues | acquire and release, partition handling, propose, drain | two claimants of one stale lock; an audit that raises after the list has changed | one holder; no accepted proposal is dropped | – |
| Last-line ledger (`security/ledger/append.py`) | a chained file | append | – | one chain | – |
| Recovery tiers (`runtime/recovery/tier_manager.py`) | a tier, violation windows | record, evaluate, apply | windows of different length | – | – |
| Container pool and warm pool (`runtime/sandbox/…`, `runtime/warm_pool.py`) | slots, queue, worker threads | allocate, release, quarantine; submit, stop | a slot that never comes back; a worker that dies before `task_done` | a slot has one user; `stop` ends | – |
| Mutation cycle (`app/beast_mode_loop.py`, `adaad/orchestrator/…`) | a throttling file; otherwise calls to the parts above | run a cycle | – | – | – |
| Governance gates and constitution (`runtime/governance/gate*.py`, `runtime/constitution.py`) | decision logs | decide | – | pure functions of a context; the rule sets are data | – |
| Evolution engines (`runtime/evolution/*`) | – | score, select, promote | – | numeric search; unit-tested tables | – |
| Rate limiter, challenge store | small in-memory stores | check, consume | the store's two-call protocol has no caller | – | – |
| HTTP service, UI, memory, market, scripts, Android | request state | routing, rendering | – | – | – |

How they interact. Orchestration enqueues jobs and workers lease them; the executor asks the
governor before it edits files, and the entropy, risk and promotion gates after it has. The human
approval gate stands apart from it: it is asked and written through the HTTP handlers and by its
other callers, not by the executor. Every step of an execution is reported to the journal
(`append_tx`, `write_entry`) and to the lineage ledger (`append_event`). The epoch manager
counts mutations and entropy in its own file and reads from the lineage ledger which epochs
there are. At boot both ledgers are snapshotted, verified and perhaps restored. Federation
nodes are driven by whoever embeds the engine, because it has no transport. Processes share
files, never memory: what the models interleave are reads, writes and renames of those files.

The modules meet where the components do. `SnapshotRecovery` abstracts a ledger file to the
number of its entries and whether its chain verifies, which is what `CryovantJournal` and
`LineageLedger` establish in detail; `EpochManager` and `MutationExecution` take from
`LineageLedger` that a committed event stays and that appends are ordered; the charge to the
epoch's budget is one step in `MutationExecution` and its three writes in `EpochManager`.

`PROJECT.json` lists the same components, and under `hazards` the places where this code is
hard to test, with the property that guards each or the reason there is none.

## Modules

| Module | What it is |
|:--|:--|
| `AppendOnlyLog` | abstract specification: a log that only grows, and permanent acknowledgements |
| `CryovantJournal` | the journal with its locks, caches, tail-state files, crashes and edits from outside |
| `LineageLedger` | the lineage ledger with its lock file, retries, torn writes and epoch digest |
| `ApprovalGate` | logs, index and memory of the approval gates |
| `MutationJobQueue` | job rows, leases, and the transition ledger |
| `MutationExecution` | one process executing mutations, down to the files |
| `EpochManager` | epochs, their file, the cycle hooks and the continuity check |
| `SnapshotRecovery` | snapshots of the ledgers and the boot check that restores from them |
| `FederationConsensus` | elections and node-local logs |
| `CryovantJournalProofs`, `ApprovalGateProofs`, `LineageLedgerProofs`, `FederationConsensusProofs`, `MutationJobQueueProofs`, `MutationExecutionProofs`, `EpochManagerProofs`, `SnapshotRecoveryProofs` | their theorems |
| `MC…` | instances for TLC: constants, initial files, symmetry |

Definitions named `Action_Something` and commented "Mutant" are plausible bugs of the action
below them. They are used by no specification: they serve to show that each property can
fail (`mutants` in `PROJECT.json`).

### CryovantJournal

A process has a thread in `append_tx` (`app`) and one in `verify_journal_integrity` (`ver`).
Each step of the code that another process can see is an action: the `exists()` check and
the seeding of `ensure_journal` (`BeginAppend`, `AppendSeed`), the lock (`AcquireLock`),
`_validated_last_hash` (`ValidateTail`, `AppendRaises`), the write (`WriteLine`), and the
update of tail state and cache with the return to the caller (`RecordTail`). Verify runs the
same validation without the lock; what it found is recorded in a later step
(`VerifyScan`, `VerifyRecord`). Seeding is two steps, because it is neither atomic nor under the lock: `OpenJournal` creates the
file or, where there is a genesis file to copy, empties it, and `FillJournal` writes the genesis
text. `Crash` may cut a write short: it leaves nothing, a fragment (`torn`), or the whole line
without its newline (`unended`). The scan does not look for a newline at the end, so it accepts
such a line, and the next one is written behind it on the same line of the file (`Joined`), which
no scan from before it passes any more.

A hash stands for the payloads it covers, i.e. SHA-256 is taken to be injective; offsets
count lines; a digest is the content. The validation keeps the code's order: cache hit,
resumption from the cache, resumption from the tail-state file, full scan. `append_tx` and
verify resolve different side paths from one journal path, hence two tail-state files and two
genesis paths (`Role`). `Genesis`, `InitialFiles` and `InitialTails` say what is on disk at
start. The repository ships a genesis file at the path of the verify role, none at the derived
path of `append_tx`, no journal, and a tail-state file with a hash of another journal (`Foreign`).

Two things end what the journal promises, and the properties say until when they hold (`Calm`):
an edit from outside (`tampers`), and a seed that races (`seedRaced`, a history variable): a
process that has seen no file empties and fills it when another has begun to use it. `seedRaced` is
set by the very step that overwrites something or writes under an appender that has read its tail,
so a seed that finds the file as it expected, or the same genesis in it, is covered.
`UnverifiedEditCaught` holds beyond that.

### LineageLedger

`append_event` is a loop of up to `MaxAttempts` attempts: read the tail without a lock
(`ScanTail`), make the lock file (`AcquireLock`, or `LockTimeout` after ten seconds), read the
tail again (`Check`, `Retry`, or `Conflict` after the last attempt), write (`WritePart` when
the line is longer than the buffer, `WriteLine`), remove the lock file and return (`Return`).
The tail scan looks at the last line alone as long as that parses (`TailRaises`,
`TailHash`); a fragment makes it raise. Text after a line without a newline joins that line
(`WithText`). `Crash` leaves the lock file (`Orphaned`) and what had reached the file
(`LeftBehind`), which may be a whole entry but for its newline; only an operator removes an
orphaned lock file (`RemoveLock`). A bundle carries the digest chained from
`_epoch_digest_index` or, in a fresh instance, from the last bundle or checkpoint in the file
(`StoredDigest`, `LookUpDigest`); `append_bundle_with_digest` ignores the outcome of the append, so
a conflict makes it remember the digest of a bundle that is not stored (`lost`). Any process may
append a checkpoint (`AppendCheckpoint`) with the digest its own instance remembers, which may be
older than the bundles in the file (`OutdatedCheckpoint`).

### ApprovalGate

`queue` and `audit` are the parsable lines of the two files, `index` is the index file, `mem`
a gate's cache of it. An operation loads the state (`LoadIndex`; `BeginRebuild` and
`FinishRebuild`, since a replay reads the logs first and takes their digests later), plans the
lines it will write (`Start`), and then for each line appends it (`AppendLine`) and applies it
to the state and replaces the index (`WriteIndex`). A log only grows, so a digest is a length.
`LongLived` gates keep their cache over many operations, the others live for one HTTP request.
`Serial` says that operations of different gates do not overlap; `Strict` is
`ADAAD_STRICT_HUMAN0`. An append behind a fragment yields one unparsable line.

### MutationJobQueue

An operation reads rows and plans their changes (`Plan`), and each change is written and then
recorded in the ledger: one step to replace a row in sqlite (`Upsert`), two for JSON, which loads
the table and replaces the file (`Upsert`, `Save`), then `Log`. `lease_next` runs `recover_orphans`
first and lists the rows again. Nothing is locked in between, and operations of different workers
overlap at will; `Backend` selects the store. Time is reduced to `Expire`, and `created_at` is left
out, so that any queued job may be the first in the list. Of the ledger the model keeps each job's
last entry (`told`) and how many entries do not go on from the one before them (`missing`).

Two operations *collide* on a job when one writes a row that the other has changed since it was
read (a lease expiring does not count), writes it before the other has recorded its change, or, on
the JSON store, puts back a table without the other's change of that job. The history variable
`collided` collects these jobs. What the store promises of a job it promises until operations
collide on it, through any overlap without a collision; `AttemptsBounded` holds even then. A
worker passes its id, not its lease id, when it completes a job: as in the code, an old owner that
leases the job again can complete it under the older lease.

### MutationExecution

`pc` walks through `execute`; each label is a place where something on disk changes or the
result is decided. A lifecycle transition is two steps, the journal entry and the lifecycle
file (`RecordTransition`, `PersistTransition`). The transaction applies the targets one by one,
each with its backup and its write (`Backup`, `WriteTarget`), then verifies, tests, and either
commits or enters `rollback`, which unlinks what was created, copies the backups back file by
file, removes them and issues a certificate (`Unlink`, `Restore`, `IssueCertificate`). An unlink or
a copy that fails is passed over, as in the code: the created file stays, or the restored one is
what it was, cut short (`Torn`), or whole but not counted; the backups go all the same, and `lost`
remembers those that went without having been copied back. Leaving the block
without a commit rolls back again, as `__exit__` does, so failed tests roll back twice. The
gates follow in the code's order. A gate's verdict is nondeterministic, because what it is
computed from is data here; its guard on what happened before is not. `ExecuteRaises` is an
exception outside the transaction, `Crash` may come anywhere. A file's content is the sequence
of mutations that wrote it, so that whose output is where can be asked of every state; the
journal and lineage are kept per mutation.

### EpochManager

The ledger is the sequence of the epoch events that `_epoch_started`, `list_epoch_ids` and the
two checkpoint checks look at. `Persist` empties the state file, `Written` fills it, and
`Crash` may come in between, after which `BootCreates` starts a new epoch. A rotation is
`EndEpoch`, `Rotate`, `StartEpoch`, `FirstCheckpoint`, `Written`, with a crash possible between
any two. A cycle is the continuity check, a rotation or the count, and a mutation that is
accepted, perhaps charged, and replayed; `ExecuteAlone` is `execute` called without the cycle
hooks. `EndEpoch` is not guarded by `MustRotate`, since the clock may also ask for it.

### SnapshotRecovery

A boot loads and renumbers the list of snapshots, and its integrity check takes a snapshot of
each file, verifies both and restores. `create_snapshot_set` is the copy with its rename
(`TakeSnapshot`), the append of `SNAPSHOT_CREATED` to the journal (`Announce`), the two halves
of saving the list, and pruning with a second save. The number written into a directory stays;
those in memory are renumbered at each boot. `Damage` may come before, between and after;
`DieRestoring` leaves nothing, a part or all of the copy.

### FederationConsensus

Everything a node sent may arrive at any time, any number of times, or never: requests of any
candidacy in `asked`, replies in `grants`, heartbeats of any node in `elected`. `grants`,
`counted` and `elected` are records of what has happened; the engine does not read them.
`BecomesLeader` makes a node leader of the term it is in *by now*, as `receive_vote` does. The
engine filters replies neither by voter nor by term nor by role, so `CallerChecks` says whether
the embedding code does; `JournalFails` lets `journal_fn` raise after term, role and vote have
changed. `Restart` forgets everything, since nothing is persisted.

## Runs

Passing runs; the bounds are constants named `Max…`.

| Run | Instance | What it shows |
|:--|:--|:--|
| `journal_safety` | 2 processes, 2 payloads, 2 lines, one crash or one edit of a stored line, no journal, a genesis file for verify, a stale tail-state file; behaviours are followed until a seed has raced, with at most three of the four threads inside a call at once | `ChainIntact`, `WarmEqualsCold`, `TailsSound`, `TornBlocks`, that the journal implements `AppendOnlyLog` (`AppendOnly`), and `UnverifiedEditCaught`: an append or a verify passes a damaged line only by resuming behind it |
| `lineage_safety` | 2 writers of 2 appends each, one of them of bundles, 2 attempts, 1 crash, checkpoints by either, lines in one or two parts, fairness | `ChainIntact`, `CommittedStays`, `AttemptsArePaid`, `DigestFollowsFile`, `WholeLinesStay`, `AppendReturns` |
| `approval_safety` | a long-lived gate that writes and a request-scoped one that queries, taking turns; 2 requests, 4 audit lines, 2 instants, 1 crash that may tear a line, 1 lost index | `IndexFaithful`, `GrantsAreLicensed`, `PendingExact`, `ReturnedIsRecorded` |
| `jobs_safety` | JSON store, 2 workers whose operations overlap, 2 jobs, 2 attempts, 1 crash, rows read 8 times for a change | `AttemptsBounded`, `LeasedOnce`, `LeaseProtected`, `VerdictStays`, `LedgerExplainsRows` |
| `execution_safety` | 2 mutations, a file that is there and one that is not, target lists with both and with the same one twice, 2 crashes, failing unlinks or failing copies, fairness | `ExecutedMeansAll`, `PreimageKept`, `CertificateIsTrue`, `FailedLeavesNothing`, `FileBehindLedger`, `EntropyAccounted`, `LineageTellsOutcome`, `ExecutionEnds` |
| `epochs_safety` | 3 epochs of 2 mutations, a ceiling of 3 bits, 3 boots, 9 events when a cycle begins | `NoBundleAfterEnd`, `OneEpochAtATime`, `EpochBudgetHolds` |
| `snapshots_safety` | lists of 2 snapshots, 2 entries, 1 damage, 3 boots, fairness | `NewestRestored`, `SnapshotsNeverAhead`, `OldestPruned`, `CheckSettles` |
| `consensus_safety` | 3 nodes, 2 terms, 1 entry per node, 1 restart, failing journal, filtered replies | `EntriesBacked`; until a node restarts also `VoteOnce`, `OneLeaderPerTerm`, `TermAdvances` |

Why the bounds are enough to be interesting. The journal's races are between two threads over
the last line: with two lines a cache or tail can lag, be level or be ahead by one, and a
crash separates a write from its record or cuts it short, in the genesis text or in a line. The
genesis has one line here and two in the repository. The run needs no states behind a raced seed,
where its properties, but for `UnverifiedEditCaught`, say nothing (`CONSTRAINT UntilRaced`; with them
it is four times as large); the step into such a state is still checked. Two attempts of two writers are what it takes to lose
the last of them, and a second append of either then meets the torn line, the orphaned lock or
the digest that was not stored. A gate's index is wrong only relative to one append, so one
crash and one lost index cover the ways to get there; with two instants and an expiry of
zero an approval can expire and be given again. Two attempts let a lease be reclaimed and leased
again, and then be quarantined; eight reads are enough for two workers to enqueue, lease, lose,
lease again and complete a job. A second mutation meets the files, the budget and the closed
governor the first has left, and a budget of 3 with costs of 1 and 2 is met exactly and
exceeded; two crashes hit both, or a copy that failed is followed by a crash. Three epochs are two rotations, and three boots let a crash
fall into a rotation and another into the recovery from it. Lists of two snapshots are full
after one check, since each check takes two, so that the second prunes and the third renumbers
(a fourth boot was checked too, at 3.6 million states). Three nodes are the least with a
majority that is not everybody, and two terms are needed for a late reply or a carried-over
vote. The theorems below do not depend on the bounds.

Deadlock is not an error (`CHECK_DEADLOCK FALSE`) except in the journal's runs: in the others
the bounds on lines, attempts, terms, mutations, boots or events, not the code, end a behaviour.

Symmetry is used over processes, over workers and jobs (no order of jobs is modelled and ids are
only compared), and over nodes; not where liveness is checked.

Fairness. `AppendReturns` assumes weak fairness of each writer's own steps: `append_event` is a
loop the scheduler keeps running, and its only wait has a time-out, so no fairness of the lock is
needed. `ExecutionEnds` assumes it of `execute` as a whole, which waits for nobody (the test run
has a time-out), and `CheckSettles` of the steps of the boot check. Nothing is assumed of
callers, crashes, damage or operators. Each of the three can fail: the mutants wait for ever for
the lock file of a dead process, for a backup that is gone, or for a snapshot that verifies.

### Where code and words disagree

Each of these runs ends with a counterexample, to a statement quoted in `PROJECT.json`.

| Run | What TLC shows |
|:--|:--|
| `journal_joined` | an append is cut off before its newline; the next is accepted, written onto the same line and acknowledged; a cold scan then fails at that line and the acknowledged entry is unreadable, while processes with a warm cache or tail go on appending (`WarmIsCold`) |
| `approval_race` | a gate replays the logs, another revokes, the first takes the digests and stores the old status under them; later gates accept that index and call the revoked mutation approved (`RevocationSticks`) |
| `execution_leak` | tests pass, the transaction commits and drops its backups, then the entropy, risk or promotion gate rejects: the status is "rejected" and the changes stay (`NoPartialStateLeaks`) |
| `epochs_wedge` | every epoch starts with a checkpoint that has no hash; the rotation passes over it, the continuity check of the next cycle does not and ends the process (`ContinuityNeverFails`) |

Other behaviours a reader of the models should know, which no run keeps. Those marked * were
found with TLC, with other constants or a stronger property.

- Journal. In the configuration the repository ships, a verify finds no journal, another process
  creates it, appends and acknowledges a line, and the verify's seed then empties the file and
  writes the genesis: the acknowledged line is gone. The copy of the genesis is outside the lock*
  (drop `Calm` from `AckedPermanent` to see the trace). `verify_journal_integrity` does not recompute the chain from genesis as its docstring
  says, but resumes from a remembered tail, and outside the lock it may put an older tail into
  the cache (harmless: `TailsSound`).
- Lineage ledger. A fragment at the end makes every later append raise. A line that lost only its
  newline still counts as the tail, and the next entry is then written behind it on the same
  line, which spoils both*. An append whose unlocked scan falls between the two parts of another's
  line raises although nothing is wrong*. `append_bundle_with_digest` returns a digest for a
  bundle that a conflict kept out of the file*. A process that looked the epoch's digest up before
  another one appended a bundle stores a checkpoint with the old digest, and every instance made
  afterwards continues the chain from that one: the later bundles' digests leave a bundle out, and
  replay does not reproduce them*.
- Approval gate. A mutation approved again after an earlier approval expired is still denied:
  `is_approved` stops at the first expired one*. It appends a further `approval_expired` event on
  each query. Two requests for one mutation within a second share their approval id.
- Job queue. Two `lease_next` calls list the same queued job before either writes it, and both
  workers get the same attempt; overlapping saves on the JSON backend put back rows without the
  other's change, so that a job that was enqueued, leased or completed is not any more* (drop the
  exemption of `collided` jobs from `LeasedOnce`, `LeaseProtected` or `VerdictStays` to see the
  traces). The conflict the orchestration service reports for a second dispatch comes from these
  same reads. `complete` answers True to a former owner
  that reports the stored verdict.
- Execution. A target list that creates the same path twice cannot be fully rolled back: the path
  is both created and backed up, and the restore puts the first write back; the certificate says
  so*. A restore that fails is passed over and its backup is removed with the others: the
  pre-image is then nowhere, and the certificate says that a backup was not restored, not which*. A
  copy that is cut short may also damage what earlier mutations left in that file*. After failed
  tests the second rollback finds the backups gone, and its certificate reports
  them as not restored. A crash between apply and commit leaves the modified files and an orphaned
  rollback directory, and nothing looks for one at the next start. `fail_closed` is forgotten by
  a restart. Failed tests with a policy that rejects end as "rejected", with no `mutation_failed`
  entry.
- Entropy. A ceiling of 0 or less switches the policy off (`entropy_policy.py:180-187`); what is
  said of budgets is said of positive ceilings.
- Epochs. A torn state file starts a new epoch with an empty budget.
- Snapshots. The model takes it that a verification notices damage, as a full scan does; a warm
  validation of the journal may resume behind a damaged line (`UnverifiedEditCaught` says when), and
  then nothing is restored. The properties speak of the files, not of that verdict.
  Damage to the journal that is there at boot is never recovered: taking the snapshot
  appends to the journal first, and that append raises outside the `try`*. After a torn
  `snapshots.json`, or a crash between saving and pruning, new snapshots get lower numbers than
  older ones, and an older one is restored*; the properties are therefore stated for behaviours
  in which no boot found either (`misnumbered`). A crash between move and copy leaves no journal,
  and the next boot creates an empty one, which verifies (`cutShort`)*. The restore takes no
  append lock. A second recovery overwrites the first `.corrupted` file.
- Consensus. Without a filter in the embedding code, a late reply makes a node leader of a term
  nobody voted for*; a restarted node votes again in a term, and two leaders of one term can be
  elected*; `commit_entry` commits any entry on any node, `quorum_required_for` is never
  consulted.

## Proofs

### The journal (`CryovantJournalProofs`)

| Theorem | States |
|:--|:--|
| `TypeCorrect` | `Spec => []TypeOK` |
| `JournalSafety` | the four that follow, together |
| `ChainStaysWhole`, `WarmChainsLikeCold`, `TailsStaySound` | `ChainIntact`, `WarmEqualsCold`, `TailsSound` |
| `AcknowledgedStays` | `AckedPermanent` while the journal is calm |
| `JournalImplementsLog` | `AppendOnly`: each step is a step of `AppendOnlyLog` or leaves it alone |
| `TornStopsJournal` | `TornBlocks` |
| `EditsAreCaught` | `UnverifiedEditCaught` |

Nothing is assumed but the types of the constants: any processes, payloads, initial files, genesis
files of either role, stale tails, lengths, crashes and edits. All but the first and the last speak
of behaviours while they are `Calm`: until a stored line is edited, since then the chain is broken by
definition, and until a seed races, since then a line may be overwritten (see above). The last says
what remains of edited and joined lines in every case.

`ChainIntact` is not inductive: to know that a line written next links to the last one, one must
know that the lock was held since validation (`LockHeld`), that the tail found then still is the
file's (`ChainsFromTail`), that every remembered tail, including the result of an unlocked scan not
yet stored, denotes a prefix of the file (`RememberedPrefixes`), and that the line between `WriteLine`
and `RecordTail` is the last (`UnrecordedIsLast`). `LinesExact`, that each line's hash covers exactly
the payloads up to it, replaces the link-by-link `ChainIntact`, since one step preserves it without
an induction along the chain; `ExactIsLinked` goes back. These hold while the journal is calm
(`CalmInv`), so a step that seeds, or whose crash cuts a seed short, has to be shown either to find
an empty file or the same genesis, or to raise `seedRaced`. A crash leaves at most one line without
its newline, hence the bound on joined lines. A tail with a foreign hash is harmless because no line
links to it, so resuming from it fails and the code falls back to a full scan.

### The lineage ledger (`LineageLedgerProofs`)

| Theorem | States |
|:--|:--|
| `TypeCorrect` | `Spec => []TypeOK` |
| `ChainAlwaysIntact` | `ChainIntact` |
| `CommittedEntriesStay` | `CommittedStays` |
| `RetriesArePaid` | `AttemptsArePaid` |
| `WholeLinesAreKept` | `WholeLinesStay` |
| `DigestsFollowFile` | `OneBundler => []DigestFollowsFile` |

Nothing is assumed beyond the types of the constants, but for `DigestsFollowFile`: any writers, any
number of appends, attempts and crashes. The inductive invariant `IInv` says who may write
(`LockHeld`: between taking the lock file and removing it a writer is its maker), what that writer knows
(`HolderKnows`: the hash it re-read under the lock is still the tail's when it writes, and if it
has written half a line, that half is the open last line), what a reader without the lock knows
(`BeforeIsPast`: the tail it read is the tail of the file, or the file has more lines than when it
looked, which is what pays for its retries), and what the file looks like (`OpenLine`,
`HashLengths`: a line's hash covers as many entries as there are lines up to it, which makes "has
the tail moved" a question of lengths). A crash breaks none of it, because the lock file of the
dead process stays and keeps everybody out of a half-written line until an operator removes it.

`DigestsFollowFile` assumes `OneBundler`, that one instance records the bundles of an epoch, as in
the run: `app/main.py` makes one `EvolutionRuntime`, gives it to its executor, and the governor in
it is what appends bundles. An `EvolutionKernel` without an executor makes a second instance,
which the theorem does not cover. Other writers append events of other kinds and checkpoints in
between, retry and die; one of their checkpoints may carry an outdated digest, and the theorem speaks
of files without such a one (`OutdatedCheckpoint`), since a digest looked up from it is wrong. Those
of the bundler itself are always up to date, which is part of what is proved. The index of an instance is only refreshed by its own bundles, so with two
bundlers a second one chains from a digest the first has left behind. `DigestInv` says, of a file
no crash has spoiled, no conflict has kept a bundle out of and no outdated checkpoint is in (`Clean`), that each stored digest is
the one recomputed up to its line (`BundlesChain`), and of the bundler that its digest continues the
file at each place: equal to the recomputed one between appends, one bundle ahead of it until the
line is whole, equal again until the lock is removed (`Continues`). That other writers' lines leave
the digest alone, and a bundle adds itself, are lemmas about the recomputation `DigestsOf` of a
file that gets one line longer or whose last line changes (`DigestGrows`, `DigestStays`).

### The consensus engine (`FederationConsensusProofs`)

| Theorem | Assumes | States |
|:--|:--|:--|
| `TypeCorrect` | nothing | `Spec => []TypeOK` |
| `NoSecondVote`, `VoteIsRemembered` | nothing | `VoteOnce`, `VoteCurrent` |
| `LeadersUnique` | `CallerChecks` | `OneLeaderPerTerm` |
| `TermsAdvance` | `CallerChecks` | `TermAdvances` |
| `AppendedByMajority` | `CallerChecks` | `EntriesBacked` |
| `LeadersAreBacked` | `CallerChecks` | a leader has a majority of distinct voters for its term (proved only) |

They hold for every finite set of nodes, any number of terms, and with a journal that fails; the
properties on single votes and leaders are stated for behaviours up to the first restart, those on
majorities for all. `VoteOnce`
needs `VoteCurrent` beside it: a vote granted in a node's own term is the one in `voted_for`.
Heartbeats make that interesting, because they move a node to a newer term with the vote of the
old one. `ElectionInv` then follows a vote from its grant to the election: votes are granted and
asked for only in terms that were started (`GrantsStarted`, `AskedStarted`), counted replies were
granted (`CountedGranted`), the number kept is at most one plus the distinct voters counted
(`VotesCounted`, which is where filtered replies are needed; a restart or a second start of the
same term only makes the number smaller), an elected node had a majority
(`ElectedBacked`), and a leader was elected in the term it is in (`LeadersElected`). Two
majorities share a voter (`QuorumsMeet`, from the cardinality of unions), who voted once.

Without `CallerChecks` a late reply elects a leader nobody voted for; it also stands for an
embedding code that remembers, across the engine's restarts, which replies it has handed over. And
a restarted node may vote twice, so two nodes can each have a true majority in one term:
`OneLeaderPerTerm` ends with the first restart, `EntriesBacked` does not.

### The approval gate (`ApprovalGateProofs`)

| Theorem | Assumes | States |
|:--|:--|:--|
| `TypeCorrect` | - | `Spec => []TypeOK` |
| `ReturnsAreRecorded` | - | `ReturnedIsRecorded` |
| `IndexIsFaithful` | `Serial`, `OneWriter` | `IndexFaithful` |
| `GrantsLicensed` | the same | `GrantsAreLicensed` |
| `PendingIsExact` | the same | `PendingExact` |

The first two hold for any gates, mutations and batches, also when operations overlap. For
`ReturnedIsRecorded`, `TearsPay` counts the events that were written and are not in the trail,
with the line a gate is about to index, and adds one for a fragment at the end of the audit file:
an append that hits the fragment moves that one from the fragment to its own event. The others
assume that operations take turns (`Serial`) and that a gate which keeps its cache is the only
writer (`OneWriter`); the run `approval_race` shows what happens to the index without the first.
`FaithInv` says that at most one gate is in use and that, as long as no log has been torn, what
the index and every gate hold is the replay of the logs, except between an append and its index
write, when it will be once the line is applied (`StatesMatch`). Two lemmas carry it:
`ReplayGrows`, the replay of a longer trail is the replay of the shorter one with `Applied`; and
that an index left behind by a crash has a digest older than the log, so no gate takes it. A gate
that only queries may record an expiry beside the writer, since an expiry changes no state
(`Working`).

### The job queue (`MutationJobQueueProofs`)

| Theorem | States |
|:--|:--|
| `TypeCorrect` | `Spec => []TypeOK` |
| `AttemptsStayBounded` | `AttemptsBounded` |
| `AttemptsLeasedOnce` | `LeasedOnce` |
| `LedgerExplains` | `LedgerExplainsRows` |
| `LeasesAreProtected`, `VerdictsStay` | `LeaseProtected`, `VerdictStays` |

They hold for both backends, any workers whose operations overlap in any way, finitely many jobs,
any `max_attempts` and any number of crashes. The first two are unconditional; the others are stated
per job and exempt the jobs two operations have collided on. `AttemptsStayBounded` needs that every
row that is stored, read, planned or about to be put back with a table keeps the bound
(`RowsBounded`), and that a planned change fits the row it was read from (`PlansFit`), not the row
that is there when it is written: a lease adds one attempt to a row that was queued and so had one
left, whatever has become of it. For `LeasedOnce` a lease in a worker's hand is of an attempt that
was counted, and one that is just being given out is of an attempt nobody has (`HoldsCounted`), as
long as the job has not collided; a write that finds the row as it was read, and no other operation
in between its write and its record, preserves that, and any other write adds the job to `collided`.
For the ledger the invariant counts the places where an entry is missing in the story of a job,
which is its ledger and the entry about to be appended by the one operation that has written the row
and not recorded it (`OneTeller`): writing a row moves none of them, because the new entry goes on
from the old row, and a crash before the append adds one.

### Epochs (`EpochManagerProofs`)

| Theorem | States |
|:--|:--|
| `TypeCorrect` | `Spec => []TypeOK` |
| `EndedEpochsStayClosed` | `NoBundleAfterEnd` |
| `EpochsTakeTurns` | `OneEpochAtATime` |
| `BudgetsHold` | `EpochBudgetHolds` |

Only the types of the constants are assumed: any limits, any entropy costs, any numbers of epochs,
events and restarts. `IInv` needs four more facts. The ledger meets epochs in the order of their
numbers (`EpochsNumbered`), so the number of the next epoch is new. An epoch the ledger has not
met was charged nothing (`UnmetUncharged`). An epoch in memory or in the state file has either
ended or is the newest (`Known`): a restart between the `EpochEndEvent` and the new state file
finds the ended one and must not record in it. And the file is behind the memory only while it is
being replaced, when the epoch it names has ended (`FileFollows`); this is where the four writes
of a rotation and the emptied file matter.

### Snapshots and the boot check (`SnapshotRecoveryProofs`)

| Theorem | States |
|:--|:--|
| `TypeCorrect` | `Spec => []TypeOK` |
| `NumbersFollowCreation` | `SequenceFollowsCreation` |
| `RecoveryTakesNewest` | `NewestRestored` |
| `NothingKeptIsLost` | `SnapshotsNeverAhead` |
| `OldestGoFirst` | `OldestPruned` |

Again only the types of the constants are assumed. That the newest snapshot is the one with the
highest number in its directory is not obvious, since the list is renumbered from 1 by every boot
and every prune while the directories keep the number they were given. It holds because of two
bounds (`NumbersBounded`): of a pruned list of `k` snapshots, no directory of the journal has a
number above `k + 1` and none of the lineage ledger above `k + 2`, since a check takes one
snapshot of each, in that order; the next number is therefore never below one already used for
the same file. A boot that finds the list torn, or not yet pruned because the last one was killed
in between, breaks the bounds, and the theorems are stated up to that point (`misnumbered`).
`SnapshotsNeverAhead` follows from `SnapshotsGrow` and `FilesCovered`: a file has at least the
entries of every valid snapshot of it, or is just being restored from the newest.

### The execution of a mutation (`MutationExecutionProofs`)

| Theorem | States |
|:--|:--|
| `TypeCorrect` | `Spec => []TypeOK` |
| `PreimagesAreKept` | `PreimageKept` |
| `CertificatesAreTrue` | `CertificateIsTrue` |
| `FailuresLeaveNothing` | `FailedLeavesNothing` |
| `OutcomeIsTold` | `LineageTellsOutcome` |
| `NothingAfterFailClosed` | `FailClosedStops` (proved only: no run checks it) |
| `ExecutedMeansAllHolds` | `ExecutedMeansAll` |
| `FileStaysBehind` | `FileBehindLedger` |
| `EntropyIsAccounted` | `EntropyAccounted` |
| `RollbackIsIsolated` | no step takes away another mutation's output, but where a copy is cut short, or brings back what the pre-image does not hold (proved only) |

They hold for any files, target lists and costs, with crashes at every step and with any unlinks and
copies of a rollback failing. `IInv` consists of
`Control` (where `execute()` stands with which lifecycle state; once the governor has failed closed
a mutation gets no further than its admission), `Told` (what the lineage ledger says of the running
mutation at each place), `Traces` (what every mutation leaves: its output is in no file and no
backup, or its pre-image is kept, or was lost with a backup that was never copied back; what failed is
admitted by a certificate) and `Running` (what holds of the
running mutation before, in and after its transaction). That the failures the code
swallows are not hidden from the certificate is a matter of counting: a backup is counted when its
copy succeeded, and what was counted is what the pre-image was, so if all are counted nothing is left
but what the check of the created files looks at. What makes the certificates true for good
is that while a mutation runs no other mutation's rollback directory holds what it wrote: a backup
is taken only from the file, and only the running mutation takes any. So a later rollback restores
only content that was there before that mutation began. The proof needs that a rollback directory
is empty when its transaction begins, which the code gets from naming it by the mutation's
identifier and running each identifier once.

The last four theorems need the larger invariant `Whole`, which adds three parts to `IInv`.
`Bookkeeping` carries the sum: a mutation that has not begun is not charged (`Unbegun`), and the
running one is charged exactly between the charge and its return (`Billed`), so the step that
raises the counter adds a mutation to the sum and no other step touches either (`Charging`,
`SumAdds`). `Ledgering` carries the lifecycle file: the state `execute()` holds is always the
journal's latest transition, and the file equals it except between the two steps of a transition
(`Filed`); the journal's order does the rest (`AppendedTransitions`). `Succession` carries what
"executed" rests on: the entries of a succeeding mutation are known one by one (`Journey`), at each
place of its transaction every target is either still to do or written (`Targeted`), and what other
mutations left in a file is in it, in the pre-image and in the backup alike, but for a copy that was cut short
(`Isolated`), and what was executed before shows in the pre-image (`Standing`). Isolation says that
neither a write nor a rollback takes away another's output unless a copy fails half-way, which is
`RollbackIsIsolated`, and hence that what was executed stays so but there.

### Only model-checked

`AppendReturns`, `ExecutionEnds` and `CheckSettles`, as liveness under fairness is outside TLAPS's
reach. Of the properties the passing runs check, all others are theorems, under the assumptions
named there, which the runs' instances meet. The runs still say what a proof does not: that the
cases a property is about do occur, and, by the mutants, that a bug in the code would break it.

The library's induction theorems take an operator, which the provers cannot instantiate. The
modules avoid induction where they can (`LinesExact`, `HashLengths`); where a definition recomputes
something along a file or sums over mutations (`DigestFollowsFile`, `EntropyAccounted`), the proof
argues with the least number in a set of counterexamples (`Induct`), first that the recursive
function exists and is determined (`LoopDefined`, `SumDefined`), then that it agrees on equal
beginnings (`DigestsAgree`) and for any order of adding (`SumAdds`). The sum is a fold of the community
modules, which is such a function underneath.

## Not modelled

In the modelled files: the agent-lineage log of `write_entry`, tenant partitions and
`record_rotation_event` of the journal; the typed events, ancestor resolution and similarity
score of the lineage ledger, and `_TAIL_CACHE`, which appends do not consult; the optional
external `audit_writer` of the gate (its errors are swallowed); two gates writing the index's
temporary file at once; callers of `complete` that pass no worker id; the heartbeat entries of the
job ledger, which repeat a state; wall-clock arithmetic of leases; the dry run and the empty
request of `execute`, which change no file, and the operations inside one target; `restore`,
`rollback` and `retry_transition` of the lifecycle, which the executor does not use; the strict
replay order of `validate_bundle`, which holds a lock while it waits, so that a bundle out of
order can only time out; law manifests of a rotation, which no caller passes; `attempt_recovery`
and `restore_snapshot`, which have no caller outside tests.

Of the rest: federation coordination, container pool and lock files are reached by tests and
tools only, and the other side of their protocols is not in the repository, so its behaviour
would have to be invented. The warm pool runs closures without state of their own. The recovery
tiers matter only to a boot that has already failed. The last-line ledger is a file lock around a
read and an append, without the caches, retries and recovery that made the other two worth a
model. Gates, constitution and evolution engines are pure decision functions and numeric search:
where their verdict matters, the models let it go either way. What remains is rendering,
reporting, and calls to external services.
