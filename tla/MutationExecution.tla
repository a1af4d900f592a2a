------------------------- MODULE MutationExecution -------------------------
(***************************************************************************)
(* One process executing mutations of an agent's files: what               *)
(* MutationExecutor.execute of app/mutation_executor.py does from the      *)
(* first lifecycle transition to the replay check that ends the cycle,     *)
(* with the lifecycle of runtime/mutation_lifecycle.py, the file           *)
(* transaction of runtime/tools/mutation_tx.py and the promotion events.   *)
(*                                                                         *)
(* A file's content is the sequence of the mutations that wrote it since   *)
(* the start, or Absent; a rollback's copy that is cut short leaves Torn   *)
(* and the mutation it was to undo.  Removing a rollback directory always  *)
(* succeeds.  Journal and lineage ledger are kept per mutation, as the     *)
(* sequence of the entries that name it.                                   *)
(***************************************************************************)
EXTENDS Integers, Sequences, FiniteSets, Functions, FiniteSetsExt

CONSTANTS Mutations,     \* mutation requests, each executed at most once
          Files,         \* paths below the agent's directory
          Existing,      \* those there at the start
          TargetLists,   \* the target sequences a request may carry
          Bits,          \* entropy a mutation may cost
          PerMutation,   \* per_mutation_ceiling_bits
          PerEpoch,      \* per_epoch_ceiling_bits
          MaxFaults,     \* bound on crashes and failing unlinks and copies
          None,          \* no mutation, no backup, no lifecycle file
          Absent,        \* the content of a file that is not there
          Torn           \* what a copy that was cut short leaves of a content

\* What a file that is there can hold.
Text == Seq(Mutations \cup {Torn})

ASSUME ExecutionAssumption ==
    /\ Existing \subseteq Files
    /\ TargetLists \subseteq Seq(Files) \ {<<>>}
    /\ Bits \subseteq Nat
    /\ PerMutation \in Nat
    /\ PerEpoch \in Nat
    /\ MaxFaults \in Nat
    /\ None \notin Mutations /\ None # Absent
    /\ None \notin Text /\ Absent \notin Text /\ Torn \notin Mutations

VARIABLES
    pc,           \* where execute() stands
    cur,          \* the mutation it executes, or None
    life,         \* MutationLifecycleContext.current_state
    tx,           \* the MutationTransaction object
    testsOk,      \* verdict of the test run
    outcome,      \* what the steps already taken have decided
    files,        \* the agent's files
    rollbackDir,  \* .rollback/<tx_id> of each mutation
    journal,      \* journal entries of each mutation
    lineage,      \* lineage events of each mutation
    lifeFile,     \* <mutation_id>.lifecycle.json
    epochBits,    \* cumulative_entropy_bits of the active epoch
    failClosed,   \* governor.fail_closed
    status,       \* the "status" execute() returned for each mutation
    faults,       \* crashes, and unlinks and copies that failed
    charged,      \* history: the bits each mutation added to epochBits
    before,       \* history: the files when the mutation's transaction began
    committed,    \* history: the mutations whose transaction was committed
    lost          \* history: the <<m, f>> whose backup went without having been
                  \* copied back by m's rollback

memory  == <<pc, cur, life, tx, testsOk, outcome>>
disk    == <<files, rollbackDir, journal, lineage, lifeFile, epochBits>>
history == <<charged, before, committed, lost>>
vars    == <<memory, disk, failClosed, status, faults, history>>

Unpaid == -1

Successor == [proposed |-> "staged", staged |-> "certified",
              certified |-> "executing", executing |-> "completed"]

Content == Text \cup {Absent}
Written(c, m) == IF c = Absent THEN <<m>> ELSE Append(c, m)
NoBackups == [f \in Files |-> None]

NoTx == [todo |-> <<>>, records |-> {}, backups |-> {}, created |-> {},
         undo |-> {}, restored |-> {}]

Init ==
    /\ pc = "idle" /\ cur = None /\ life = "proposed" /\ tx = NoTx
    /\ testsOk = FALSE /\ outcome = "none"
    /\ files = [f \in Files |-> IF f \in Existing THEN <<>> ELSE Absent]
    /\ rollbackDir = [m \in Mutations |-> NoBackups]
    /\ journal = [m \in Mutations |-> <<>>]
    /\ lineage = [m \in Mutations |-> <<>>]
    /\ lifeFile = [m \in Mutations |-> "none"]
    /\ epochBits = 0 /\ failClosed = FALSE /\ faults = 0
    /\ status = [m \in Mutations |-> "new"]
    /\ charged = [m \in Mutations |-> Unpaid]
    /\ before = [m \in Mutations |-> [f \in Files |-> Absent]]
    /\ committed = {} /\ lost = {}

Journalled(e) == journal' = [journal EXCEPT ![cur] = Append(@, e)]
Ledgered(e)   == lineage' = [lineage EXCEPT ![cur] = Append(@, e)]

Goto(l) == pc' = l /\ UNCHANGED <<cur, life, tx, testsOk, status>>

\* execute() is left: its locals are gone, its caller has the status.
Leave(s) ==
    /\ status' = [status EXCEPT ![cur] = s]
    /\ pc' = "idle" /\ cur' = None /\ life' = "proposed" /\ tx' = NoTx
    /\ testsOk' = FALSE /\ outcome' = "none"

-----------------------------------------------------------------------------
(* The lifecycle: a transition is journalled, then its file is written.    *)

Begin(m) ==
    /\ pc = "idle" /\ status[m] = "new"
    /\ cur' = m /\ pc' = "transition"
    /\ status' = [status EXCEPT ![m] = "running"]
    /\ UNCHANGED <<life, tx, testsOk, outcome, disk, failClosed, faults, history>>

\* Mutant: the state changes without a journal entry.
RecordTransition_Unjournalled ==
    /\ pc = "transition"
    /\ life' = Successor[life] /\ pc' = "persist"
    /\ UNCHANGED <<cur, tx, testsOk, outcome, files, rollbackDir, journal, lineage,
                   lifeFile, epochBits, failClosed, status, faults, history>>

\* The guards of a transition hold: the state is set and journalled.
RecordTransition ==
    /\ pc = "transition"
    /\ life' = Successor[life] /\ pc' = "persist"
    /\ Journalled(Successor[life])
    /\ UNCHANGED <<cur, tx, testsOk, outcome, files, rollbackDir, lineage,
                   lifeFile, epochBits, failClosed, status, faults, history>>

\* A guard fails: the signature, the founders' law or the agent's name at the
\* first transition, the fitness at the third; the others evaluate again what
\* an earlier one accepted.
RefuseTransition ==
    /\ pc = "transition" /\ life \in {"proposed", "certified"}
    /\ Journalled("refused")
    /\ lifeFile' = [lifeFile EXCEPT ![cur] = life]
    /\ Leave("rejected")
    /\ UNCHANGED <<files, rollbackDir, lineage, epochBits, failClosed, faults, history>>

AfterTransition == [staged |-> "admission", certified |-> "transition",
                    executing |-> "plan", completed |-> "manifest"]

\* Mutant: the file of a completed mutation is written, not removed.
PersistTransition_NoCleanup ==
    /\ pc = "persist"
    /\ lifeFile' = [lifeFile EXCEPT ![cur] = life]
    /\ Goto(AfterTransition[life])
    /\ UNCHANGED <<outcome, files, rollbackDir, journal, lineage, epochBits,
                   failClosed, faults, history>>

PersistTransition ==
    /\ pc = "persist"
    /\ lifeFile' = [lifeFile EXCEPT ![cur] = IF life = "completed" THEN "none" ELSE life]
    /\ Goto(AfterTransition[life])
    /\ UNCHANGED <<outcome, files, rollbackDir, journal, lineage, epochBits,
                   failClosed, faults, history>>

-----------------------------------------------------------------------------
(* The governor.                                                           *)

Blocked ==
    /\ pc = "admission" /\ failClosed
    /\ Leave("blocked")
    /\ UNCHANGED <<disk, failClosed, faults, history>>

GovernorAccepts ==
    /\ pc = "admission" /\ ~failClosed
    /\ Goto("transition")
    /\ UNCHANGED <<outcome, disk, failClosed, faults, history>>

\* A broken lineage also closes the governor.
GovernorRejects ==
    /\ pc = "admission" /\ ~failClosed
    /\ failClosed' \in BOOLEAN
    /\ Leave("rejected")
    /\ UNCHANGED <<disk, faults, history>>

-----------------------------------------------------------------------------
(* The file transaction.                                                   *)

OpenTransaction ==
    /\ pc = "plan"
    /\ \E targets \in TargetLists : tx' = [NoTx EXCEPT !.todo = targets]
    /\ Journalled("planned")
    /\ before' = [before EXCEPT ![cur] = files]
    /\ pc' = "apply"
    /\ UNCHANGED <<cur, life, testsOk, outcome, files, rollbackDir, lineage, lifeFile,
                   epochBits, failClosed, status, faults, charged, committed, lost>>

\* Mutant: a second target on the same path backs the file up again.
Backup_Again ==
    /\ pc = "apply" /\ tx.todo # <<>>
    /\ LET f == Head(tx.todo) IN
       IF files[f] = Absent
       THEN /\ tx' = [tx EXCEPT !.created = @ \cup {f}]
            /\ UNCHANGED rollbackDir
       ELSE /\ tx' = [tx EXCEPT !.backups = @ \cup {f}]
            /\ rollbackDir' = [rollbackDir EXCEPT ![cur][f] = files[f]]
    /\ pc' = "write"
    /\ UNCHANGED <<cur, life, testsOk, outcome, files, journal, lineage, lifeFile,
                   epochBits, failClosed, status, faults, history>>

\* apply(), first half: a file that is there and has no backup gets one, a
\* file that is not there will have been created.
Backup ==
    /\ pc = "apply" /\ tx.todo # <<>>
    /\ LET f == Head(tx.todo) IN
       IF files[f] = Absent
       THEN /\ tx' = [tx EXCEPT !.created = @ \cup {f}]
            /\ UNCHANGED rollbackDir
       ELSE /\ tx' = [tx EXCEPT !.backups = @ \cup {f}]
            /\ rollbackDir' = IF f \in tx.backups THEN rollbackDir
                              ELSE [rollbackDir EXCEPT ![cur][f] = files[f]]
    /\ pc' = "write"
    /\ UNCHANGED <<cur, life, testsOk, outcome, files, journal, lineage, lifeFile,
                   epochBits, failClosed, status, faults, history>>

\* apply_target(): the file is replaced by its mutated form.
WriteTarget ==
    /\ pc = "write"
    /\ LET f == Head(tx.todo)
           c == Written(files[f], cur)
       IN /\ files' = [files EXCEPT ![f] = c]
          /\ tx' = [tx EXCEPT !.todo = Tail(@), !.records = @ \cup {<<f, c>>}]
    /\ pc' = "apply"
    /\ UNCHANGED <<cur, life, testsOk, outcome, rollbackDir, journal, lineage, lifeFile,
                   epochBits, failClosed, status, faults, history>>

\* rollback() is entered, because the block raises or its tests failed.
EnterRollback(why) ==
    /\ pc' = "unlink" /\ outcome' = why
    /\ tx' = [tx EXCEPT !.undo = tx.created, !.restored = {}]
    /\ UNCHANGED <<cur, life, status>>

\* Mutant: a refused target is reported without a rollback.
TargetRefused_NoRollback ==
    /\ pc = "write" \/ (pc = "apply" /\ tx.todo # <<>>)
    /\ Goto("failed_entry") /\ outcome' = "failed"
    /\ UNCHANGED <<disk, failClosed, faults, history>>

\* The director denies, or the target is refused or cannot be parsed.
TargetRefused ==
    /\ pc = "write" \/ (pc = "apply" /\ tx.todo # <<>>)
    /\ EnterRollback("failed")
    /\ UNCHANGED <<testsOk, disk, failClosed, faults, history>>

\* verify(): every file still is what its record says was written.
Verified == \A r \in tx.records : files[r[1]] = r[2]

VerifyPasses ==
    /\ pc = "apply" /\ tx.todo = <<>> /\ Verified
    /\ Goto("tests")
    /\ UNCHANGED <<outcome, disk, failClosed, faults, history>>

VerifyFails ==
    /\ pc = "apply" /\ tx.todo = <<>> /\ ~Verified
    /\ EnterRollback("failed")
    /\ UNCHANGED <<testsOk, disk, failClosed, faults, history>>

\* commit(): the backups go.
TestsPass ==
    /\ pc = "tests"
    /\ testsOk' = TRUE /\ pc' = "evidence"
    /\ committed' = committed \cup {cur}
    /\ rollbackDir' = [rollbackDir EXCEPT ![cur] = NoBackups]
    /\ UNCHANGED <<cur, life, tx, outcome, files, journal, lineage, lifeFile, epochBits,
                   failClosed, status, faults, charged, before, lost>>

TestsFail ==
    /\ pc = "tests"
    /\ testsOk' = FALSE
    /\ EnterRollback("tests_failed")
    /\ UNCHANGED <<disk, failClosed, faults, history>>

\* Anything else that goes wrong inside the block, the sandbox included.
BlockRaises ==
    /\ pc \in {"apply", "write", "tests"}
    /\ EnterRollback("raised")
    /\ UNCHANGED <<testsOk, disk, failClosed, faults, history>>

Fault == faults < MaxFaults /\ faults' = faults + 1

\* rollback(), the created files: one that cannot be removed is passed over.
Unlink ==
    /\ pc = "unlink"
    /\ \/ /\ \E f \in tx.undo : /\ \/ files' = [files EXCEPT ![f] = Absent] /\ UNCHANGED faults
                                   \/ Fault /\ UNCHANGED files
                                /\ tx' = [tx EXCEPT !.undo = @ \ {f}]
          /\ UNCHANGED pc
       \/ /\ tx.undo = {}
          /\ tx' = [tx EXCEPT !.undo = tx.backups]
          /\ pc' = "restore"
          /\ UNCHANGED <<files, faults>>
    /\ UNCHANGED <<cur, life, testsOk, outcome, rollbackDir, journal, lineage, lifeFile,
                   epochBits, failClosed, status, history>>

\* The backup of f is copied over f, and counted.  A copy that fails is passed
\* over: f is what it was, cut short, or the backup without its attributes.
CopyBack(f) ==
    \/ /\ files' = [files EXCEPT ![f] = rollbackDir[cur][f]]
       /\ tx' = [tx EXCEPT !.undo = @ \ {f}, !.restored = @ \cup {f}]
       /\ UNCHANGED faults
    \/ /\ \E c \in {files[f], <<Torn, cur>>, rollbackDir[cur][f]} :
             files' = [files EXCEPT ![f] = c]
       /\ tx' = [tx EXCEPT !.undo = @ \ {f}]
       /\ Fault

\* The backups go, those that were not copied back with them.
DropBackups ==
    /\ rollbackDir' = [rollbackDir EXCEPT ![cur] = NoBackups]
    /\ lost' = lost \cup {<<cur, f>> : f \in {g \in tx.backups \ tx.restored :
                                                  rollbackDir[cur][g] # None}}
    /\ pc' = "certificate"

\* Mutant: a backup that is gone is waited for.
Restore_Strict ==
    /\ pc = "restore"
    /\ \/ /\ \E f \in tx.undo : rollbackDir[cur][f] # None /\ CopyBack(f)
          /\ UNCHANGED <<pc, rollbackDir, lost>>
       \/ /\ tx.undo = {} /\ DropBackups
          /\ UNCHANGED <<tx, files, faults>>
    /\ UNCHANGED <<cur, life, testsOk, outcome, journal, lineage, lifeFile, epochBits,
                   failClosed, status, charged, before, committed>>

\* rollback(), the backups: one that is gone, as in a second rollback(), is
\* passed over.
Restore ==
    /\ pc = "restore"
    /\ \/ /\ \E f \in tx.undo :
             IF rollbackDir[cur][f] # None
             THEN CopyBack(f)
             ELSE tx' = [tx EXCEPT !.undo = @ \ {f}] /\ UNCHANGED <<files, faults>>
          /\ UNCHANGED <<pc, rollbackDir, lost>>
       \/ /\ tx.undo = {} /\ DropBackups
          /\ UNCHANGED <<tx, files, faults>>
    /\ UNCHANGED <<cur, life, testsOk, outcome, journal, lineage, lifeFile, epochBits,
                   failClosed, status, charged, before, committed>>

\* Mutant: the created files are not looked at.
Complete_BackupsOnly == tx.restored = tx.backups

\* backups_restored and created_paths_removed, the completeness checks.
Complete ==
    /\ tx.restored = tx.backups
    /\ \A f \in tx.created : files[f] = Absent

\* After the rollback() of the failed tests, __exit__ finds no commit and
\* calls rollback() again; after any other one the exception goes on.
IssueCertificate ==
    /\ pc = "certificate"
    /\ Journalled(IF Complete THEN "rolled_back" ELSE "rolled_back_partly")
    /\ \/ /\ outcome = "tests_failed"
          /\ EnterRollback("exit")
          /\ UNCHANGED testsOk
       \/ /\ outcome = "exit"
          /\ Goto("evidence") /\ outcome' = "none"
       \/ /\ outcome = "failed"
          /\ Goto("failed_entry") /\ UNCHANGED outcome
       \/ /\ outcome = "raised"
          /\ Leave("raised")
    /\ UNCHANGED <<files, rollbackDir, lineage, lifeFile, epochBits, failClosed,
                   faults, history>>

\* The certificate cannot be written: what rollback() raises inside the block
\* makes __exit__ roll back again, what it raises in __exit__ goes on.
CertificateRaises ==
    /\ pc = "certificate"
    /\ \/ /\ outcome = "tests_failed"
          /\ EnterRollback("raised")
          /\ UNCHANGED testsOk
       \/ /\ outcome # "tests_failed"
          /\ Leave("raised")
    /\ UNCHANGED <<disk, failClosed, faults, history>>

\* mutation_failed, after a refused target.
JournalRefusal ==
    /\ pc = "failed_entry"
    /\ Journalled("failed")
    /\ Goto("after")
    /\ UNCHANGED <<outcome, files, rollbackDir, lineage, lifeFile, epochBits,
                   failClosed, faults, history>>

-----------------------------------------------------------------------------
(* The gates after the transaction.                                        *)

RecordEvidence ==
    /\ pc = "evidence"
    /\ Ledgered("evidence")
    /\ Goto("entropy")
    /\ UNCHANGED <<outcome, files, rollbackDir, journal, lifeFile, epochBits,
                   failClosed, faults, history>>

\* Mutant: the epoch's ceiling is not enforced.
WithinBudget_PerMutation(bits) == bits <= PerMutation

WithinBudget(bits) == bits <= PerMutation /\ epochBits + bits <= PerEpoch

ChargeEntropy ==
    /\ pc = "entropy"
    /\ \E bits \in Bits :
          /\ WithinBudget(bits)
          /\ epochBits' = epochBits + bits
          /\ charged' = [charged EXCEPT ![cur] = bits]
    /\ Goto("promotion")
    /\ UNCHANGED <<outcome, files, rollbackDir, journal, lineage, lifeFile,
                   failClosed, faults, before, committed, lost>>

\* The certificate is deactivated and the cycle closed with what was decided.
EntropyExceeded ==
    /\ pc = "entropy"
    /\ \E bits \in Bits : ~WithinBudget(bits)
    /\ Ledgered("cert_off")
    /\ outcome' = "rejected"
    /\ Goto("after")
    /\ UNCHANGED <<files, rollbackDir, journal, lifeFile, epochBits, failClosed,
                   faults, history>>

RiskExceeded ==
    /\ pc = "promotion"
    /\ Ledgered("cert_off")
    /\ outcome' = "rejected"
    /\ Goto("after")
    /\ UNCHANGED <<files, rollbackDir, journal, lifeFile, epochBits, failClosed,
                   faults, history>>

\* evaluate_transition() decides, whatever the tests said, and its decision is
\* in the ledger before anything follows from it.
PolicyRejects ==
    /\ pc = "promotion"
    /\ Ledgered("REJECTED")
    /\ outcome' = "rejected"
    /\ Goto("revoke")
    /\ UNCHANGED <<files, rollbackDir, journal, lifeFile, epochBits, failClosed,
                   faults, history>>

PolicyActivates ==
    /\ pc = "promotion"
    /\ Ledgered("ACTIVATED")
    /\ Goto(IF testsOk THEN "transition" ELSE "tests_entry")
    /\ UNCHANGED <<outcome, files, rollbackDir, journal, lifeFile, epochBits,
                   failClosed, faults, history>>

\* Mutant: the activated promotion is not taken back.
JournalFailedTests_NoDemotion ==
    /\ pc = "tests_entry"
    /\ Journalled("failed")
    /\ outcome' = "failed"
    /\ Goto("revoke")
    /\ UNCHANGED <<files, rollbackDir, lineage, lifeFile, epochBits,
                   failClosed, faults, history>>

\* The tests had failed: mutation_failed, then the promotion is taken back.
JournalFailedTests ==
    /\ pc = "tests_entry"
    /\ Journalled("failed")
    /\ Goto("demote")
    /\ UNCHANGED <<outcome, files, rollbackDir, lineage, lifeFile, epochBits,
                   failClosed, faults, history>>

Demote ==
    /\ pc = "demote"
    /\ Ledgered("REJECTED")
    /\ outcome' = "failed"
    /\ Goto("revoke")
    /\ UNCHANGED <<files, rollbackDir, journal, lifeFile, epochBits, failClosed,
                   faults, history>>

Revoke ==
    /\ pc = "revoke"
    /\ Ledgered("cert_off")
    /\ Goto("after")
    /\ UNCHANGED <<outcome, files, rollbackDir, journal, lifeFile, epochBits,
                   failClosed, faults, history>>

WriteManifest ==
    /\ pc = "manifest"
    /\ Journalled("manifest")
    /\ Goto("promote")
    /\ UNCHANGED <<outcome, files, rollbackDir, lineage, lifeFile, epochBits,
                   failClosed, faults, history>>

\* The director denies the promotion, or the manifest cannot be written.
ManifestFails ==
    /\ pc = "manifest"
    /\ Leave("rejected")
    /\ UNCHANGED <<disk, failClosed, faults, history>>

JournalPromotion ==
    /\ pc = "promote"
    /\ Journalled("promoted")
    /\ Goto("activate")
    /\ UNCHANGED <<outcome, files, rollbackDir, lineage, lifeFile, epochBits,
                   failClosed, faults, history>>

ActivateCertificate ==
    /\ pc = "activate"
    /\ Ledgered("cert_on")
    /\ outcome' = "executed"
    /\ Goto("after")
    /\ UNCHANGED <<files, rollbackDir, journal, lifeFile, epochBits, failClosed,
                   faults, history>>

\* after_mutation_cycle(): a replay digest that does not match closes the governor.
AfterCycle ==
    /\ pc = "after"
    /\ failClosed' \in {failClosed, TRUE}
    /\ Leave(outcome)
    /\ UNCHANGED <<disk, faults, history>>

-----------------------------------------------------------------------------
(* What may happen anywhere.                                               *)

InBlock == {"apply", "write", "tests", "unlink", "restore", "certificate"}

\* A journal, ledger or file operation outside the transaction raises: nothing
\* of execute() catches it.
ExecuteRaises ==
    /\ pc \notin InBlock \cup {"idle", "manifest"}
    /\ Leave("raised")
    /\ UNCHANGED <<disk, failClosed, faults, history>>

\* The process dies; the next one starts with an open governor.  (In the middle of
\* a rollback's copy: the copy is cut short, then the process dies.)
Crash ==
    /\ pc # "idle" /\ Fault
    /\ Leave("crashed")
    /\ failClosed' = FALSE
    /\ UNCHANGED <<disk, history>>

Lifecycle  == RecordTransition \/ RefuseTransition \/ PersistTransition
Governance == Blocked \/ GovernorAccepts \/ GovernorRejects
Applying   == OpenTransaction \/ Backup \/ WriteTarget \/ TargetRefused
              \/ VerifyPasses \/ VerifyFails \/ TestsPass \/ TestsFail \/ BlockRaises
RollingBack == Unlink \/ Restore \/ IssueCertificate \/ CertificateRaises \/ JournalRefusal
Gates      == RecordEvidence \/ ChargeEntropy \/ EntropyExceeded \/ RiskExceeded
              \/ PolicyRejects \/ PolicyActivates \/ JournalFailedTests \/ Demote \/ Revoke
Finishing  == WriteManifest \/ ManifestFails \/ JournalPromotion
              \/ ActivateCertificate \/ AfterCycle

Execute == Lifecycle \/ Governance \/ Applying \/ RollingBack \/ Gates \/ Finishing

Next == (\E m \in Mutations : Begin(m)) \/ Execute \/ ExecuteRaises \/ Crash

Spec == Init /\ [][Next]_vars

\* Nothing execute() does waits for another party: the test run has a timeout.
FairSpec == Spec /\ WF_vars(Execute)

-----------------------------------------------------------------------------
(* Properties.                                                             *)

Statuses == {"new", "running", "blocked", "rejected", "failed", "executed",
             "raised", "crashed"}
Labels == InBlock \cup {"idle", "transition", "persist", "admission", "plan",
                        "failed_entry", "evidence", "entropy", "promotion",
                        "tests_entry", "demote", "revoke", "manifest", "promote",
                        "activate", "after"}
Entries == {"staged", "certified", "executing", "completed", "refused", "planned",
            "rolled_back", "rolled_back_partly", "failed", "manifest", "promoted"}
Events  == {"evidence", "cert_off", "cert_on", "ACTIVATED", "REJECTED"}
LifeStates == {"proposed", "staged", "certified", "executing", "completed"}

\* Type invariant of execute()'s locals, of what is on disk and of the ledgers.
TypeOK ==
    /\ pc \in Labels /\ cur \in Mutations \cup {None} /\ (cur = None <=> pc = "idle")
    /\ life \in LifeStates /\ testsOk \in BOOLEAN
    /\ outcome \in {"none", "failed", "tests_failed", "exit", "raised", "rejected", "executed"}
    /\ tx \in [todo : Seq(Files), records : SUBSET (Files \X Content),
               backups : SUBSET Files, created : SUBSET Files,
               undo : SUBSET Files, restored : SUBSET Files]
    /\ files \in [Files -> Content]
    /\ rollbackDir \in [Mutations -> [Files -> Text \cup {None}]]
    /\ journal \in [Mutations -> Seq(Entries)]
    /\ lineage \in [Mutations -> Seq(Events)]
    /\ lifeFile \in [Mutations -> LifeStates \cup {"none"}]
    /\ epochBits \in Nat /\ failClosed \in BOOLEAN /\ faults \in Nat
    /\ status \in [Mutations -> Statuses]
    /\ charged \in [Mutations -> Nat \cup {Unpaid}]
    /\ before \in [Mutations -> [Files -> Content]]
    /\ committed \subseteq Mutations /\ lost \subseteq Mutations \X Files

\* Content that mutation m has written, and content a copy left that was cut short.
Holds(c, m) == c \notin {Absent, None} /\ m \in Range(c)
Wrote(m, f) == Holds(files[f], m)
Damaged(f)  == Holds(files[f], Torn)

\* A mutation reported "executed" went the whole way (mutation_executor.py
\* 790-806): its targets are written and stay written whatever comes after, but
\* where a later rollback's copy is cut short; it was paid for, both ledgers tell
\* the whole path in order, and nothing of the transaction or of the lifecycle
\* is left behind.
ExecutedMeansAll ==
    \A m \in Mutations : status[m] = "executed" =>
        /\ \E targets \in TargetLists : \A f \in Range(targets) : Wrote(m, f) \/ Damaged(f)
        /\ journal[m] = <<"staged", "certified", "executing", "planned",
                          "completed", "manifest", "promoted">>
        /\ lineage[m] = <<"evidence", "ACTIVATED", "cert_on">>
        /\ charged[m] # Unpaid
        /\ rollbackDir[m] = NoBackups /\ lifeFile[m] = "none"

\* While a transaction is not committed, after a crash in the middle of it or of
\* its rollback, and however many of the rollback's unlinks and copies fail
\* (mutation_tx.py 77-88, 171-209), every file that holds its output or was cut
\* short has its pre-image in the rollback directory or was created by it --
\* until the directory is removed with a backup that was never copied back.
PreimageKept ==
    \A m \in Mutations \ committed : \A f \in Files :
        Wrote(m, f) /\ <<m, f>> \notin lost =>
            before[m][f] \in {Absent, rollbackDir[m][f]}

\* A rollback certificate whose completeness checks hold (mutation_tx.py
\* 201-206) is true for good: whatever failed on the way, nothing the mutation
\* wrote is in the files.
CertificateIsTrue ==
    \A m \in Mutations : "rolled_back" \in Range(journal[m]) =>
        \A f \in Files : ~Wrote(m, f)

\* What a mutation that "failed" leaves behind (mutation_executor.py 533-537,
\* 808-823) is a file it created itself or one that could not be copied back,
\* and its certificate admits that.
FailedLeavesNothing ==
    \A m \in Mutations : status[m] = "failed" => \A f \in Files : Wrote(m, f) =>
        /\ before[m][f] = Absent \/ <<m, f>> \in lost
        /\ "rolled_back_partly" \in Range(journal[m])

\* Of the entries j of a mutation: the lifecycle transitions, that s is the state
\* the last of them reached, and that at most one of them came after s.
Transitions(j) == {i \in DOMAIN j : j[i] \in LifeStates}
Latest(j, s) == \/ s = "proposed" /\ Transitions(j) = {}
                \/ \E i \in Transitions(j) : j[i] = s /\ \A k \in Transitions(j) : k <= i
Lags(j, s) == \E i \in {0} \cup Transitions(j) :
                 /\ s = IF i = 0 THEN "proposed" ELSE j[i]
                 /\ \A k, l \in Transitions(j) : i < k /\ i < l => k = l

\* The lifecycle file never runs ahead of the journal and lags at most one
\* transition behind it (mutation_lifecycle.py 276-290), across crashes.
FileBehindLedger ==
    \A m \in Mutations :
        IF lifeFile[m] = "none"
        THEN Lags(journal[m], "proposed") \/ Latest(journal[m], "completed")
        ELSE Lags(journal[m], lifeFile[m])

\* The epoch's counter is what its mutations were charged and stays below the
\* ceiling (mutation_executor.py 619-663); nothing is promoted, activated or
\* rejected by the policy before it was charged.
Charged == {m \in Mutations : charged[m] # Unpaid}
SumOf(c, S) == MapThenSumSet(LAMBDA m : c[m], S)
EntropyAccounted ==
    /\ epochBits <= PerEpoch
    /\ epochBits = SumOf(charged, Charged)
    /\ \A m \in Mutations : Range(lineage[m]) \cap {"ACTIVATED", "REJECTED"} # {} =>
          m \in Charged

\* The lineage tells the outcome apart (mutation_executor.py 719-747, 808-822):
\* an activated certificate is the last word on a mutation whose promotion is
\* in the journal, and an activated promotion whose tests failed is taken back
\* before the failure is reported.
LineageTellsOutcome ==
    \A m \in Mutations :
        /\ "cert_on" \in Range(lineage[m]) =>
              /\ lineage[m] = <<"evidence", "ACTIVATED", "cert_on">>
              /\ "promoted" \in Range(journal[m])
        /\ status[m] = "failed" /\ lineage[m] # <<>> =>
              lineage[m] = <<"evidence", "ACTIVATED", "REJECTED", "cert_off">>

\* Once the governor has failed closed no file of an agent changes until the
\* process is started again (mutation_executor.py 403, governor.py 203).
FailClosedStops == [][failClosed => UNCHANGED files]_vars

\* execute() returns, by whatever way (mutation_executor.py 365-822).
ExecutionEnds == (pc # "idle") ~> (pc = "idle")

\* "Failure at any gate is fail-closed -- the mutation is rejected; the
\* rejection is ledgered; no partial state leaks" (docs/CONSTITUTION_SUMMARY.md
\* 40-41): a rejected mutation has left nothing in the agent's files.
NoPartialStateLeaks ==
    \A m \in Mutations : status[m] = "rejected" => \A f \in Files : ~Wrote(m, f)

-----------------------------------------------------------------------------
(* What makes these inductive.                                             *)

\* Where execute() can stand with what; once the governor has failed closed, a
\* mutation gets as far as the admission.
Control ==
    /\ cur # None => status[cur] = "running"
    /\ pc = "idle" => life = "proposed"
    /\ pc = "transition" => life # "completed"
    /\ pc = "persist" => life # "proposed"
    /\ pc = "admission" => life = "staged"
    /\ pc \in InBlock \cup {"plan", "evidence", "entropy", "promotion"} => life = "executing"
    /\ pc = "failed_entry" => outcome = "failed"
    /\ pc = "revoke" => outcome \in {"failed", "rejected"}
    /\ pc = "after" => outcome \in {"failed", "rejected", "executed"}
    /\ pc = "write" => tx.todo # <<>>
    /\ failClosed => \/ pc \in {"idle", "admission"}
                     \/ pc = "transition" /\ life = "proposed"
                     \/ pc = "persist" /\ life = "staged"

\* On the way to the transaction, and in it until its rollback is certified.
Ahead == \/ pc \in {"admission", "plan"}
         \/ pc = "transition" /\ life # "executing"
         \/ pc = "persist" /\ life # "completed"

\* Between the policy's activation and the certificate's, or the demotion.
Activated == \/ pc \in {"tests_entry", "demote", "manifest", "promote", "activate"}
             \/ pc = "transition" /\ life = "executing"
             \/ pc = "persist" /\ life = "completed"

\* What the lineage says of the running mutation.
Told ==
    LET l == lineage[cur] IN
    /\ Ahead \/ pc \in InBlock \cup {"failed_entry", "evidence"} => l = <<>>
    /\ pc \in {"entropy", "promotion"} => l = <<"evidence">>
    /\ Activated => l = <<"evidence", "ACTIVATED">>
    /\ pc = "revoke" => l = IF outcome = "failed" THEN <<"evidence", "ACTIVATED", "REJECTED">>
                                                  ELSE <<"evidence", "REJECTED">>
    /\ pc = "activate" => "promoted" \in Range(journal[cur])
    /\ pc = "after" /\ outcome = "failed" =>
          l \in {<<>>, <<"evidence", "ACTIVATED", "REJECTED", "cert_off">>}
    /\ pc = "after" /\ outcome # "executed" => "cert_on" \notin Range(l)
    /\ pc = "after" /\ outcome = "executed" =>
          l = <<"evidence", "ACTIVATED", "cert_on">> /\ "promoted" \in Range(journal[cur])

\* No file and no backup of it holds what m wrote.
Nowhere(m, f) == ~Wrote(m, f) /\ \A k \in Mutations : ~Holds(rollbackDir[k][f], m)

\* The pre-image of a file m writes is kept, or there was none.
Kept(m, f) == before[m][f] \in {Absent, rollbackDir[m][f]}

\* What m left in f, if anything, can be undone from its backup, or never will be.
Accounted(m, f) == Nowhere(m, f) \/ Kept(m, f) \/ <<m, f>> \in lost

\* After a rollback, on the way to "failed".
Failing == \/ pc \in {"evidence", "entropy", "promotion"} /\ ~testsOk
           \/ pc \in {"tests_entry", "demote", "failed_entry"}
           \/ pc \in {"revoke", "after"} /\ outcome = "failed"

\* What m left in f, if anything, is in a file it created or could not restore,
\* and a certificate admits it.
Admitted(m, f) == \/ Nowhere(m, f)
                  \/ /\ before[m][f] = Absent \/ <<m, f>> \in lost
                     /\ "rolled_back_partly" \in Range(journal[m])

\* What every mutation leaves: what was not committed has its pre-image unless it
\* was lost, what is certified is gone, what failed is admitted.
Traces ==
    \A m \in Mutations :
        /\ status[m] = "new" => /\ m \notin committed /\ lineage[m] = <<>>
                                /\ "rolled_back" \notin Range(journal[m])
                                /\ rollbackDir[m] = NoBackups
        /\ \A f \in Files :
              /\ status[m] = "new" => Nowhere(m, f) /\ <<m, f>> \notin lost
              /\ m \notin committed => Accounted(m, f)
              /\ "rolled_back" \in Range(journal[m]) =>
                    Nowhere(m, f) /\ rollbackDir[m][f] = None
              /\ status[m] = "failed" => Admitted(m, f)

\* What holds of the running mutation before its transaction ...
Untouched(m) ==
    Ahead => /\ m \notin committed /\ "rolled_back" \notin Range(journal[m])
             /\ rollbackDir[m] = NoBackups
             /\ \A f \in Files : Nowhere(m, f) /\ <<m, f>> \notin lost

\* ... in it, of every file ...
Saved(m, f) ==
    /\ ~Holds(before[m][f], m)
    /\ rollbackDir[m][f] # None => f \in tx.backups /\ Kept(m, f)
    /\ before[m][f] = Absent /\ (~Nowhere(m, f) \/ rollbackDir[m][f] # None) =>
          f \in tx.created
    /\ <<m, f>> \in lost => /\ pc \in {"unlink", "restore", "certificate"}
                            /\ f \in tx.backups \ tx.restored
                            /\ rollbackDir[m][f] = None
Applied(m, f) ==
    /\ ~Wrote(m, f) => files[f] = before[m][f]
    /\ f \in tx.backups => rollbackDir[m][f] # None
Undone(m, f) == Wrote(m, f) => before[m][f] = Absent \/ <<m, f>> \in lost

InTransaction(m) ==
    pc \in InBlock =>
        /\ m \notin committed
        /\ pc \in {"apply", "write", "tests"} => "rolled_back" \notin Range(journal[m])
        /\ pc = "unlink" => tx.restored = {}
        /\ pc = "restore" => tx.undo \cap tx.restored = {}
        /\ \A f \in Files :
              /\ Saved(m, f)
              /\ pc \in {"apply", "write"} => Applied(m, f)
              /\ pc = "write" /\ f = Head(tx.todo) =>
                    Kept(m, f) /\ (before[m][f] = Absent => f \in tx.created)
              /\ pc = "restore" =>
                    Undone(m, f) \/ (f \notin tx.restored /\ rollbackDir[m][f] # None)
              /\ pc = "certificate" => Undone(m, f) /\ rollbackDir[m][f] = None

\* ... and after it, if it has failed; no other mutation has a backup of its output.
Running ==
    \A m \in Mutations : m = cur =>
        /\ \A k \in Mutations \ {m}, f \in Files : ~Holds(rollbackDir[k][f], m)
        /\ Untouched(m) /\ InTransaction(m)
        /\ Failing => \A f \in Files : Admitted(m, f)

IInv == TypeOK /\ Control /\ (cur # None => Told) /\ LineageTellsOutcome /\ Traces /\ Running

\* A mutation that has not begun has no entry, no lifecycle file and no charge.
Unbegun ==
    \A m \in Mutations : status[m] = "new" =>
        journal[m] = <<>> /\ lifeFile[m] = "none" /\ charged[m] = Unpaid

\* The running mutation is charged once, between its evidence and the policy.
Billed ==
    /\ Ahead \/ pc \in InBlock \cup {"failed_entry", "evidence", "entropy"} =>
          charged[cur] = Unpaid
    /\ Activated \/ pc \in {"promotion", "revoke"} \/ (pc = "after" /\ outcome = "executed") =>
          charged[cur] # Unpaid

\* The journal's last transition is the running mutation's state, and its lifecycle
\* file says so but where it is about to be written.
Filed ==
    /\ Latest(journal[cur], life)
    /\ pc # "persist" =>
          lifeFile[cur] = IF life \in {"proposed", "completed"} THEN "none" ELSE life

\* The tests of the running mutation passed and every gate since let it through.
Succeeding == \/ pc \in {"evidence", "entropy", "promotion"} /\ testsOk
              \/ pc = "transition" /\ life = "executing"
              \/ pc = "persist" /\ life = "completed"
              \/ pc \in {"manifest", "promote", "activate"}
              \/ pc = "after" /\ outcome = "executed"

\* What the journal says of the running mutation while all goes well.
Journey ==
    LET j == journal[cur] IN
    /\ pc = "transition" /\ life = "proposed" => j = <<>>
    /\ pc \in {"persist", "admission", "transition"} /\ life = "staged" => j = <<"staged">>
    /\ pc \in {"persist", "transition"} /\ life = "certified" => j = <<"staged", "certified">>
    /\ pc = "plan" \/ (pc = "persist" /\ life = "executing") =>
          j = <<"staged", "certified", "executing">>
    /\ (\/ pc \in {"apply", "write", "tests"}
        \/ pc \in {"evidence", "entropy", "promotion"} /\ testsOk
        \/ pc = "transition" /\ life = "executing") =>
          j = <<"staged", "certified", "executing", "planned">>
    /\ pc = "manifest" \/ (pc = "persist" /\ life = "completed") =>
          j = <<"staged", "certified", "executing", "planned", "completed">>
    /\ pc = "promote" =>
          j = <<"staged", "certified", "executing", "planned", "completed", "manifest">>
    /\ pc = "activate" \/ (pc = "after" /\ outcome = "executed") =>
          j = <<"staged", "certified", "executing", "planned", "completed", "manifest",
                "promoted">>
    /\ Ahead \/ pc \in InBlock => ~testsOk
    /\ pc \in {"manifest", "promote", "activate"} \/ (pc = "after" /\ outcome = "executed") =>
          life = "completed"

\* Every target of some request is written, or still to be.
Targeted ==
    /\ pc \in {"apply", "write", "tests"} =>
          \E targets \in TargetLists : \A f \in Range(targets) :
              f \in Range(tx.todo) \/ Wrote(cur, f)
    /\ pc = "tests" => tx.todo = <<>>
    /\ Succeeding => /\ rollbackDir[cur] = NoBackups
                     /\ \E targets \in TargetLists : \A f \in Range(targets) : Wrote(cur, f)

\* What another mutation wrote is in a file or its backup only if it is in the
\* pre-image, and what the pre-image shows of it they show, or a copy was cut short.
Shows(c, m) == Holds(c, m) \/ Holds(c, Torn)
Isolated ==
    pc \in InBlock =>
        /\ pc = "unlink" => tx.undo \subseteq tx.created
        /\ \A f \in Files :
              /\ f \in tx.created => before[cur][f] = Absent
              /\ \A m \in Mutations \ {cur} :
                    /\ Wrote(m, f) \/ Holds(rollbackDir[cur][f], m) =>
                          Holds(before[cur][f], m)
                    /\ Shows(before[cur][f], m) =>
                          /\ Shows(files[f], m)
                          /\ rollbackDir[cur][f] # None => Shows(rollbackDir[cur][f], m)

\* The pre-image shows, of all that was executed before, that it was.
Standing ==
    pc \in InBlock => \A m \in Mutations \ {cur} : status[m] = "executed" =>
        \E targets \in TargetLists : \A f \in Range(targets) : Shows(before[cur][f], m)

\* What the paid, journalled and finished mutations rest on.
Bookkeeping == EntropyAccounted /\ IsFiniteSet(Charged) /\ Unbegun /\ (cur # None => Billed)
Ledgering   == FileBehindLedger /\ (cur # None => Filed)
Succession  == /\ ExecutedMeansAll
               /\ pc = "idle" => ~testsOk
               /\ cur # None => Journey /\ Targeted /\ Isolated /\ Standing
=============================================================================
