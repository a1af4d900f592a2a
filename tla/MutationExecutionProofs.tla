----------------------- MODULE MutationExecutionProofs -----------------------
(***************************************************************************)
(* Proofs about MutationExecution for any mutations, files, target lists   *)
(* and bounds.  The argument about the files: what a mutation writes is in *)
(* no backup of another mutation while it runs, so that wherever its       *)
(* output is found, now or after other rollbacks, its own pre-image is     *)
(* kept, the file is one it created, or its transaction was committed.     *)
(* The second half is about what a mutation that succeeds leaves: the sum  *)
(* of the charges, the lifecycle file against the journal, the journal     *)
(* entry by entry, the targets, and that the later transactions of other   *)
(* mutations leave all of it alone.                                        *)
(***************************************************************************)
EXTENDS MutationExecution, FiniteSetTheorems, WellFoundedInduction, TLAPS

-----------------------------------------------------------------------------
(* Sequences of entries and of mutations                                   *)

\* An entry appended to a ledger joins those that are in it (write_entry, append_event).
LEMMA RangeOfAppend ==
  ASSUME NEW S, NEW s \in Seq(S), NEW e \in S
  PROVE  /\ Append(s, e) \in Seq(S)
         /\ \A x : x \in Range(Append(s, e)) <=> x \in Range(s) \/ x = e
<1>1. /\ Append(s, e) \in Seq(S) /\ Len(s) \in Nat
      /\ DOMAIN s = 1..Len(s) /\ DOMAIN Append(s, e) = 1..(Len(s) + 1)
      /\ \A i \in 1..Len(s) : Append(s, e)[i] = s[i]
      /\ Append(s, e)[Len(s) + 1] = e
  OBVIOUS
<1>2. ASSUME NEW x, x \in Range(Append(s, e)) PROVE x \in Range(s) \/ x = e
  <2>1. PICK i \in 1..(Len(s) + 1) : Append(s, e)[i] = x
    BY <1>1, <1>2 DEF Range
  <2>2. i \in 1..Len(s) \/ i = Len(s) + 1
    BY <1>1
  <2>. QED
    BY <1>1, <2>1, <2>2 DEF Range
<1>3. ASSUME NEW x, x \in Range(s) PROVE x \in Range(Append(s, e))
  <2>1. PICK i \in 1..Len(s) : s[i] = x
    BY <1>1, <1>3 DEF Range
  <2>2. i \in 1..(Len(s) + 1)
    BY <1>1
  <2>. QED
    BY <1>1, <2>1, <2>2 DEF Range
<1>4. e \in Range(Append(s, e))
  <2>1. Len(s) + 1 \in 1..(Len(s) + 1)
    BY <1>1
  <2>. QED
    BY <1>1, <2>1 DEF Range
<1>. QED
  BY <1>1, <1>2, <1>3, <1>4

\* Rewritten content holds what it held and the mutation that wrote it (apply_target).
LEMMA WrittenHolds ==
  ASSUME NEW c \in Content, NEW m \in Mutations
  PROVE  /\ Written(c, m) \in Text /\ Written(c, m) # Absent /\ Written(c, m) # None
         /\ \A k : Holds(Written(c, m), k) <=> Holds(c, k) \/ k = m
<1>. USE ExecutionAssumption
<1>1. CASE c = Absent
  <2>1. <<m>> \in Text /\ Range(<<m>>) = {m}
    BY DEF Range, Text
  <2>2. Written(c, m) = <<m>>
    BY <1>1 DEF Written
  <2>3. <<m>> # Absent /\ <<m>> # None
    BY <2>1
  <2>4. \A k : Holds(<<m>>, k) <=> k = m
    BY <2>1, <2>3, Zenon DEF Holds
  <2>5. \A k : ~Holds(c, k)
    BY <1>1, Zenon DEF Holds
  <2>. QED
    BY <2>1, <2>2, <2>3, <2>4, <2>5, Zenon
<1>2. CASE c # Absent
  <2>1. c \in Text
    BY <1>2 DEF Content
  <2>2. Written(c, m) = Append(c, m)
    BY <1>2 DEF Written
  <2>3. Append(c, m) \in Text /\ \A k : k \in Range(Append(c, m)) <=> k \in Range(c) \/ k = m
    <3>1. m \in Mutations \cup {Torn} /\ c \in Seq(Mutations \cup {Torn})
      BY <2>1 DEF Text
    <3>. QED
      BY <3>1, RangeOfAppend DEF Text
  <2>4. Append(c, m) # Absent /\ Append(c, m) # None /\ c # None
    BY <2>1, <2>3
  <2>5. \A k : Holds(Append(c, m), k) <=> Holds(c, k) \/ k = m
    BY <1>2, <2>3, <2>4, Zenon DEF Holds
  <2>. QED
    BY <2>2, <2>3, <2>4, <2>5, Zenon
<1>. QED
  BY <1>1, <1>2

\* What a copy that was cut short leaves: the mutation it was to undo, and no other
\* (copy2).
LEMMA TornHolds ==
  ASSUME NEW m \in Mutations
  PROVE  /\ <<Torn, m>> \in Text /\ <<Torn, m>> # Absent /\ <<Torn, m>> # None
         /\ \A k : Holds(<<Torn, m>>, k) <=> k \in {Torn, m}
<1>1. <<Torn, m>> \in Text /\ Range(<<Torn, m>>) = {Torn, m}
  BY DEF Range, Text
<1>2. <<Torn, m>> # Absent /\ <<Torn, m>> # None
  BY <1>1, ExecutionAssumption
<1>. QED
  BY <1>1, <1>2, Zenon DEF Holds

-----------------------------------------------------------------------------
(* Types                                                                   *)

\* Everything starts in its type (MutationExecutor.__init__).
LEMMA TypeInit == Init => TypeOK /\ Control
<1>. SUFFICES ASSUME Init PROVE TypeOK /\ Control
  OBVIOUS
<1>. USE ExecutionAssumption DEF Init
<1>1. /\ pc \in Labels /\ cur \in Mutations \cup {None} /\ (cur = None <=> pc = "idle")
      /\ life \in LifeStates /\ testsOk \in BOOLEAN
  BY DEF Labels, LifeStates, InBlock
<1>2. tx \in [todo : Seq(Files), records : SUBSET (Files \X Content), backups : SUBSET Files,
              created : SUBSET Files, undo : SUBSET Files, restored : SUBSET Files]
  BY DEF NoTx
<1>3. files \in [Files -> Content]
  BY DEF Content, Text
<1>4. rollbackDir \in [Mutations -> [Files -> Text \cup {None}]]
  BY DEF NoBackups
<1>5. journal \in [Mutations -> Seq(Entries)] /\ lineage \in [Mutations -> Seq(Events)]
  OBVIOUS
<1>6. lifeFile \in [Mutations -> LifeStates \cup {"none"}] /\ status \in [Mutations -> Statuses]
  BY DEF Statuses
<1>7. charged \in [Mutations -> Nat \cup {Unpaid}] /\ before \in [Mutations -> [Files -> Content]]
  BY DEF Content
<1>8. epochBits \in Nat /\ failClosed \in BOOLEAN /\ faults \in Nat /\ committed \subseteq Mutations
      /\ lost \subseteq Mutations \X Files
  OBVIOUS
<1>9. outcome = "none" /\ Control
  BY DEF Control, InBlock
<1>. QED
  BY <1>1, <1>2, <1>3, <1>4, <1>5, <1>6, <1>7, <1>8, <1>9 DEF TypeOK

\* The parts of TypeOK, by what changes together.
LocalsOK == /\ pc \in Labels /\ cur \in Mutations \cup {None} /\ (cur = None <=> pc = "idle")
            /\ life \in LifeStates /\ testsOk \in BOOLEAN
            /\ outcome \in {"none", "failed", "tests_failed", "exit", "raised", "rejected",
                            "executed"}
            /\ failClosed \in BOOLEAN /\ faults \in Nat
            /\ status \in [Mutations -> Statuses]
TxOK == tx \in [todo : Seq(Files), records : SUBSET (Files \X Content), backups : SUBSET Files,
                created : SUBSET Files, undo : SUBSET Files, restored : SUBSET Files]
FilesOK == /\ files \in [Files -> Content]
           /\ rollbackDir \in [Mutations -> [Files -> Text \cup {None}]]
           /\ before \in [Mutations -> [Files -> Content]]
           /\ committed \subseteq Mutations /\ lost \subseteq Mutations \X Files
LedgersOK == /\ journal \in [Mutations -> Seq(Entries)]
             /\ lineage \in [Mutations -> Seq(Events)]
             /\ lifeFile \in [Mutations -> LifeStates \cup {"none"}]
             /\ epochBits \in Nat /\ charged \in [Mutations -> Nat \cup {Unpaid}]

\* The types of TypeOK, in these parts (the locals of execute(), the transaction's, the
\* files and the ledgers).
LEMMA TypeParts == TypeOK <=> LocalsOK /\ TxOK /\ FilesOK /\ LedgersOK
BY DEF TypeOK, LocalsOK, TxOK, FilesOK, LedgersOK

\* Every step of execute() moves on to a known place with known locals.
LEMMA LocalsStep == TypeOK /\ Control /\ Next => LocalsOK'
<1>. SUFFICES ASSUME TypeOK, Control, Next PROVE LocalsOK'
  OBVIOUS
<1>. USE ExecutionAssumption DEF Labels, LifeStates, InBlock, Statuses
<1>1. LocalsOK
  BY TypeParts
<1>2. ASSUME pc # "idle" PROVE cur \in Mutations
  BY <1>1, <1>2 DEF LocalsOK
<1>3. ASSUME NEW s \in Statuses, pc # "idle", Leave(s), failClosed' \in BOOLEAN, faults' \in Nat
      PROVE  LocalsOK'
  BY <1>1, <1>2, <1>3 DEF LocalsOK, Leave
<1>4. ASSUME NEW l \in Labels, l # "idle", pc # "idle", Goto(l), UNCHANGED <<failClosed, faults>>,
             outcome' \in {outcome, "none", "failed", "rejected", "executed"}
      PROVE  LocalsOK'
  BY <1>1, <1>4 DEF LocalsOK, Goto
<1>5. ASSUME NEW why \in {"failed", "tests_failed", "raised", "exit"}, pc # "idle", EnterRollback(why),
             UNCHANGED <<failClosed, faults>>, testsOk' \in BOOLEAN
      PROVE  LocalsOK'
  BY <1>1, <1>5 DEF LocalsOK, EnterRollback
<1>6. ASSUME NEW m \in Mutations, Begin(m) PROVE LocalsOK'
  BY <1>1, <1>6 DEF LocalsOK, Begin
<1>7. CASE Lifecycle
  <2>1. CASE RecordTransition
    <3>1. Successor[life] \in LifeStates /\ pc = "transition"
      BY <1>1, <2>1 DEF RecordTransition, Control, Successor, LocalsOK
    <3>. QED
      BY <1>1, <2>1, <3>1 DEF RecordTransition, LocalsOK
  <2>2. CASE RefuseTransition
    BY <1>1, <1>3, <2>2 DEF RefuseTransition, LocalsOK
  <2>3. CASE PersistTransition
    <3>1. AfterTransition[life] \in Labels /\ AfterTransition[life] # "idle"
      BY <1>1, <2>3 DEF PersistTransition, Control, AfterTransition, LocalsOK
    <3>. QED
      BY <1>4, <2>3, <3>1 DEF PersistTransition
  <2>. QED
    BY <1>7, <2>1, <2>2, <2>3 DEF Lifecycle
<1>8. CASE Governance
  <2>1. CASE Blocked
    BY <1>1, <1>3, <2>1 DEF Blocked, LocalsOK
  <2>2. CASE GovernorAccepts
    BY <1>4, <2>2 DEF GovernorAccepts
  <2>3. CASE GovernorRejects
    BY <1>1, <1>3, <2>3 DEF GovernorRejects, LocalsOK
  <2>. QED
    BY <1>8, <2>1, <2>2, <2>3 DEF Governance
<1>9. CASE Applying
  <2>1. CASE OpenTransaction \/ Backup \/ WriteTarget \/ TestsPass
    <3>1. CASE OpenTransaction
      BY <1>1, <3>1 DEF OpenTransaction, LocalsOK
    <3>2. CASE Backup
      BY <1>1, <3>2 DEF Backup, LocalsOK
    <3>3. CASE WriteTarget
      BY <1>1, <3>3 DEF WriteTarget, LocalsOK
    <3>4. CASE TestsPass
      BY <1>1, <3>4 DEF TestsPass, LocalsOK
    <3>. QED
      BY <2>1, <3>1, <3>2, <3>3, <3>4
  <2>2. CASE VerifyPasses
    BY <1>4, <2>2 DEF VerifyPasses
  <2>3. CASE VerifyFails \/ TargetRefused \/ TestsFail \/ BlockRaises
    BY <1>1, <1>5, <2>3 DEF VerifyFails, TargetRefused, TestsFail, BlockRaises, LocalsOK
  <2>. QED
    BY <1>9, <2>1, <2>2, <2>3 DEF Applying
<1>10. CASE RollingBack
  <2>1. CASE Unlink \/ Restore
    <3>1. faults' \in {faults, faults + 1}
      BY <2>1 DEF Unlink, Restore, CopyBack, Fault
    <3>2. faults' \in Nat
      BY <1>1, <3>1 DEF LocalsOK
    <3>. QED
      BY <1>1, <2>1, <3>2 DEF Unlink, Restore, DropBackups, LocalsOK
  <2>2. CASE IssueCertificate
    <3>1. pc = "certificate" /\ UNCHANGED <<failClosed, faults>>
      BY <2>2 DEF IssueCertificate
    <3>2. CASE EnterRollback("exit") /\ UNCHANGED testsOk
      BY <1>1, <1>5, <3>1, <3>2 DEF LocalsOK
    <3>3. CASE Goto("evidence") /\ outcome' = "none"
      BY <1>4, <3>1, <3>3
    <3>4. CASE Goto("failed_entry") /\ UNCHANGED outcome
      BY <1>4, <3>1, <3>4
    <3>5. CASE Leave("raised")
      BY <1>1, <1>3, <3>1, <3>5 DEF LocalsOK
    <3>. QED
      BY <2>2, <3>2, <3>3, <3>4, <3>5 DEF IssueCertificate
  <2>3. CASE CertificateRaises
    BY <1>1, <1>3, <1>5, <2>3 DEF CertificateRaises, LocalsOK
  <2>4. CASE JournalRefusal
    BY <1>4, <2>4 DEF JournalRefusal
  <2>. QED
    BY <1>10, <2>1, <2>2, <2>3, <2>4 DEF RollingBack
<1>11. CASE Gates
  BY <1>4, <1>11 DEF Gates, RecordEvidence, ChargeEntropy, EntropyExceeded, RiskExceeded,
     PolicyRejects, PolicyActivates, JournalFailedTests, Demote, Revoke
<1>12. CASE Finishing
  <2>1. CASE WriteManifest \/ JournalPromotion \/ ActivateCertificate
    BY <1>4, <2>1 DEF WriteManifest, JournalPromotion, ActivateCertificate
  <2>2. CASE ManifestFails
    BY <1>1, <1>3, <2>2 DEF ManifestFails, LocalsOK
  <2>3. CASE AfterCycle
    <3>1. outcome \in Statuses /\ pc # "idle"
      BY <2>3 DEF AfterCycle, Control
    <3>. QED
      BY <1>1, <1>3, <2>3, <3>1 DEF AfterCycle, LocalsOK
  <2>. QED
    BY <1>12, <2>1, <2>2, <2>3 DEF Finishing
<1>13. CASE ExecuteRaises
  BY <1>1, <1>3, <1>13 DEF ExecuteRaises, LocalsOK
<1>14. CASE Crash
  <2>1. Leave("crashed") /\ pc # "idle" /\ failClosed' \in BOOLEAN
    BY <1>14, Zenon DEF Crash
  <2>2. faults' = faults + 1
    BY <1>14 DEF Crash, Fault
  <2>3. faults \in Nat
    BY <1>1, Zenon DEF LocalsOK
  <2>4. faults' \in Nat
    BY <2>2, <2>3
  <2>. QED
    BY <1>3, <2>1, <2>4
<1>. QED
  BY <1>6, <1>7, <1>8, <1>9, <1>10, <1>11, <1>12, <1>13, <1>14 DEF Next, Execute

\* The transaction object keeps its type (MutationTransaction).
LEMMA TxStep == TypeOK /\ Control /\ Next => TxOK'
<1>. SUFFICES ASSUME TypeOK, Control, Next PROVE TxOK'
  OBVIOUS
<1>. USE ExecutionAssumption
<1>1. TxOK /\ FilesOK /\ LocalsOK
  BY TypeParts
<1>2. NoTx \in [todo : Seq(Files), records : SUBSET (Files \X Content), backups : SUBSET Files,
                created : SUBSET Files, undo : SUBSET Files, restored : SUBSET Files]
  BY DEF NoTx
<1>3. CASE UNCHANGED tx \/ tx' = NoTx
  BY <1>1, <1>2, <1>3 DEF TxOK
<1>4. CASE \E why \in {"failed", "tests_failed", "raised", "exit"} : EnterRollback(why)
  BY <1>1, <1>4 DEF TxOK, EnterRollback
<1>5. CASE OpenTransaction
  <2>1. PICK targets \in TargetLists : tx' = [NoTx EXCEPT !.todo = targets]
    BY <1>5 DEF OpenTransaction
  <2>. QED
    BY <1>2, <2>1 DEF TxOK, NoTx
<1>6. CASE Backup
  <2>1. Head(tx.todo) \in Files
    BY <1>1, <1>6 DEF Backup, TxOK
  <2>. QED
    BY <1>1, <1>6, <2>1 DEF Backup, TxOK
<1>7. CASE WriteTarget
  <2>. DEFINE f == Head(tx.todo)
              c == Written(files[f], cur)
  <2>1. f \in Files /\ Tail(tx.todo) \in Seq(Files)
    BY <1>1, <1>7 DEF WriteTarget, TxOK, Control
  <2>2. cur \in Mutations /\ files[f] \in Content
    BY <1>1, <1>7, <2>1 DEF WriteTarget, LocalsOK, FilesOK
  <2>3. c \in Content
    BY <2>2, WrittenHolds DEF Content
  <2>4. tx' = [tx EXCEPT !.todo = Tail(@), !.records = @ \cup {<<f, c>>}]
    BY <1>7 DEF WriteTarget
  <2>5. tx.records \cup {<<f, c>>} \in SUBSET (Files \X Content)
    BY <1>1, <2>1, <2>3 DEF TxOK
  <2>. HIDE DEF f, c
  <2>. QED
    BY <1>1, <2>1, <2>4, <2>5 DEF TxOK
<1>8. CASE Unlink
  <2>1. \/ \E f \in tx.undo : tx' = [tx EXCEPT !.undo = @ \ {f}]
        \/ tx' = [tx EXCEPT !.undo = tx.backups]
    BY <1>8 DEF Unlink
  <2>2. CASE tx' = [tx EXCEPT !.undo = tx.backups]
    BY <1>1, <2>2 DEF TxOK
  <2>3. CASE \E f \in tx.undo : tx' = [tx EXCEPT !.undo = @ \ {f}]
    BY <1>1, <2>3 DEF TxOK
  <2>. QED
    BY <2>1, <2>2, <2>3
<1>9. CASE Restore
  <2>1. \/ UNCHANGED tx
        \/ \E f \in tx.undo : \/ tx' = [tx EXCEPT !.undo = @ \ {f}, !.restored = @ \cup {f}]
                               \/ tx' = [tx EXCEPT !.undo = @ \ {f}]
    BY <1>9 DEF Restore, CopyBack
  <2>2. ASSUME NEW f \in tx.undo, tx' = [tx EXCEPT !.undo = @ \ {f}, !.restored = @ \cup {f}]
        PROVE  TxOK'
    BY <1>1, <2>2 DEF TxOK
  <2>3. ASSUME NEW f \in tx.undo, tx' = [tx EXCEPT !.undo = @ \ {f}]
        PROVE  TxOK'
    BY <1>1, <2>3 DEF TxOK
  <2>. QED
    BY <1>1, <2>1, <2>2, <2>3 DEF TxOK
<1>10. \/ UNCHANGED tx \/ tx' = NoTx
       \/ \E why \in {"failed", "tests_failed", "raised", "exit"} : EnterRollback(why)
       \/ OpenTransaction \/ Backup \/ WriteTarget \/ Unlink \/ Restore
  <2>1. CASE Lifecycle \/ Governance \/ \E m \in Mutations : Begin(m)
    BY <2>1 DEF Lifecycle, Governance, Begin, RecordTransition, RefuseTransition,
       PersistTransition, Blocked, GovernorAccepts, GovernorRejects, Leave, Goto
  <2>2. CASE Applying \/ RollingBack
    BY <2>2 DEF Applying, RollingBack, TargetRefused, VerifyPasses, VerifyFails, TestsPass,
       TestsFail, BlockRaises, IssueCertificate, CertificateRaises, JournalRefusal, Leave, Goto
  <2>3. CASE Gates
    BY <2>3 DEF Gates, RecordEvidence, ChargeEntropy, EntropyExceeded, RiskExceeded,
       PolicyRejects, PolicyActivates, JournalFailedTests, Demote, Revoke, Goto
  <2>4. CASE Finishing \/ ExecuteRaises \/ Crash
    BY <2>4 DEF Finishing, WriteManifest, ManifestFails, JournalPromotion, ActivateCertificate,
       AfterCycle, ExecuteRaises, Crash, Leave, Goto
  <2>. QED
    BY <2>1, <2>2, <2>3, <2>4 DEF Next, Execute
<1>. QED
  BY <1>3, <1>4, <1>5, <1>6, <1>7, <1>8, <1>9, <1>10

\* Nothing but the transaction touches the files, their backups and pre-images.
LEMMA Quiet ==
  ASSUME Next, ~OpenTransaction, ~Backup, ~WriteTarget, ~TestsPass, ~Unlink, ~Restore
  PROVE  UNCHANGED <<files, rollbackDir, before, committed, lost>>
<1>1. CASE Lifecycle \/ Governance \/ \E m \in Mutations : Begin(m)
  BY <1>1 DEF Lifecycle, Governance, Begin, RecordTransition, RefuseTransition,
     PersistTransition, Blocked, GovernorAccepts, GovernorRejects, disk, history
<1>2. CASE Applying \/ RollingBack
  BY <1>2 DEF Applying, RollingBack, TargetRefused, VerifyPasses, VerifyFails,
     TestsFail, BlockRaises, IssueCertificate, CertificateRaises, JournalRefusal, disk, history
<1>3. CASE Gates
  BY <1>3 DEF Gates, RecordEvidence, ChargeEntropy, EntropyExceeded, RiskExceeded,
     PolicyRejects, PolicyActivates, JournalFailedTests, Demote, Revoke, disk, history
<1>4. CASE Finishing \/ ExecuteRaises \/ Crash
  BY <1>4 DEF Finishing, WriteManifest, ManifestFails, JournalPromotion, ActivateCertificate,
     AfterCycle, ExecuteRaises, Crash, disk, history
<1>. QED
  BY <1>1, <1>2, <1>3, <1>4 DEF Next, Execute

\* Files, backups and pre-images keep their types (mutation_tx.py, mutation_fs.py).
LEMMA FilesStep == TypeOK /\ Control /\ Next => FilesOK'
<1>. SUFFICES ASSUME TypeOK, Control, Next PROVE FilesOK'
  OBVIOUS
<1>. USE ExecutionAssumption
<1>1. TxOK /\ FilesOK /\ LocalsOK
  BY TypeParts
<1>2. NoBackups \in [Files -> Text \cup {None}]
  BY DEF NoBackups
<1>3. Absent \in Content
  BY DEF Content
<1>4. CASE OpenTransaction
  BY <1>1, <1>4 DEF OpenTransaction, FilesOK
<1>5. CASE Backup
  <2>1. Head(tx.todo) \in Files /\ cur \in Mutations
    BY <1>1, <1>5 DEF Backup, TxOK, LocalsOK
  <2>2. files[Head(tx.todo)] # Absent => files[Head(tx.todo)] \in Text
    BY <1>1, <2>1 DEF FilesOK, Content
  <2>3. UNCHANGED rollbackDir \/ (/\ files[Head(tx.todo)] # Absent
                                 /\ rollbackDir' = [rollbackDir EXCEPT ![cur][Head(tx.todo)]
                                                                      = files[Head(tx.todo)]])
    BY <1>5 DEF Backup
  <2>4. UNCHANGED <<files, before, committed, lost>>
    BY <1>5 DEF Backup, history
  <2>5. rollbackDir' \in [Mutations -> [Files -> Text \cup {None}]]
    <3>1. rollbackDir \in [Mutations -> [Files -> Text \cup {None}]]
      BY <1>1 DEF FilesOK
    <3>2. ASSUME NEW c \in Text
          PROVE  [rollbackDir EXCEPT ![cur][Head(tx.todo)] = c]
                   \in [Mutations -> [Files -> Text \cup {None}]]
      BY <2>1, <3>1
    <3>. QED
      BY <2>2, <2>3, <3>1, <3>2
  <2>. QED
    BY <1>1, <2>4, <2>5 DEF FilesOK
<1>6. CASE WriteTarget
  <2>1. Head(tx.todo) \in Files /\ cur \in Mutations
    BY <1>1, <1>6 DEF WriteTarget, TxOK, Control, LocalsOK
  <2>2. Written(files[Head(tx.todo)], cur) \in Content
    BY <1>1, <2>1, WrittenHolds DEF FilesOK, Content
  <2>. QED
    BY <1>1, <1>6, <2>1, <2>2 DEF WriteTarget, FilesOK, history
<1>7. CASE TestsPass
  BY <1>1, <1>2, <1>7 DEF TestsPass, FilesOK, LocalsOK
<1>8. CASE Unlink
  BY <1>1, <1>3, <1>8 DEF Unlink, FilesOK, TxOK, history
<1>9. CASE Restore
  <2>1. cur \in Mutations /\ tx.undo \subseteq Files /\ tx.backups \subseteq Files
    BY <1>1, <1>9 DEF Restore, TxOK, LocalsOK
  <2>2. UNCHANGED <<before, committed>>
    BY <1>9 DEF Restore
  <2>3. CASE DropBackups /\ UNCHANGED files
    BY <1>1, <1>2, <2>1, <2>2, <2>3 DEF DropBackups, FilesOK
  <2>4. ASSUME NEW f \in tx.undo, NEW c,
               rollbackDir[cur][f] # None, c \in {files[f], <<Torn, cur>>, rollbackDir[cur][f]},
               files' = [files EXCEPT ![f] = c], UNCHANGED <<rollbackDir, lost>>
        PROVE  FilesOK'
    <3>1. c \in Content
      BY <1>1, <2>1, <2>4, TornHolds DEF FilesOK, Content
    <3>. QED
      BY <1>1, <2>2, <2>4, <3>1 DEF FilesOK
  <2>5. CASE UNCHANGED <<files, rollbackDir, lost>>
    BY <1>1, <2>2, <2>5 DEF FilesOK
  <2>. QED
    BY <1>9, <2>3, <2>4, <2>5 DEF Restore, CopyBack
<1>. QED
  BY <1>1, <1>4, <1>5, <1>6, <1>7, <1>8, <1>9, Quiet DEF FilesOK

\* Journal, lineage, lifecycle files and the epoch's budget keep their types.
LEMMA LedgersStep == TypeOK /\ Control /\ Next => LedgersOK'
<1>. SUFFICES ASSUME TypeOK, Control, Next PROVE LedgersOK'
  OBVIOUS
<1>. USE ExecutionAssumption
<1>1. LedgersOK /\ LocalsOK
  BY TypeParts
<1>2. ASSUME NEW e \in Entries, cur \in Mutations, Journalled(e)
      PROVE  journal' \in [Mutations -> Seq(Entries)]
  BY <1>1, <1>2 DEF Journalled, LedgersOK
<1>3. ASSUME NEW e \in Events, cur \in Mutations, Ledgered(e)
      PROVE  lineage' \in [Mutations -> Seq(Events)]
  BY <1>1, <1>3 DEF Ledgered, LedgersOK
<1>4. pc # "idle" => cur \in Mutations
  BY <1>1 DEF LocalsOK
<1>5. CASE UNCHANGED <<journal, lineage, lifeFile, epochBits, charged>>
  BY <1>1, <1>5 DEF LedgersOK
<1>6. ASSUME NEW e \in Entries, Journalled(e), pc # "idle",
             UNCHANGED <<lineage, epochBits, charged>>,
             UNCHANGED lifeFile \/ lifeFile' = [lifeFile EXCEPT ![cur] = life]
      PROVE  LedgersOK'
  <2>1. lifeFile' \in [Mutations -> LifeStates \cup {"none"}]
    BY <1>1, <1>6 DEF LedgersOK, LocalsOK
  <2>. QED
    BY <1>1, <1>2, <1>4, <1>6, <2>1 DEF LedgersOK
<1>7. ASSUME NEW e \in Events, Ledgered(e), pc # "idle",
             UNCHANGED <<journal, lifeFile, epochBits, charged>>
      PROVE  LedgersOK'
  BY <1>1, <1>3, <1>4, <1>7 DEF LedgersOK
<1>8. CASE PersistTransition
  <2>1. /\ lifeFile' = [lifeFile EXCEPT ![cur] = IF life = "completed" THEN "none" ELSE life]
        /\ UNCHANGED <<journal, lineage, epochBits, charged>>
    BY <1>8 DEF PersistTransition, history
  <2>2. lifeFile' \in [Mutations -> LifeStates \cup {"none"}]
    BY <1>1, <2>1 DEF LedgersOK, LocalsOK
  <2>. QED
    BY <1>1, <2>1, <2>2 DEF LedgersOK
<1>9. CASE ChargeEntropy
  <2>1. PICK bits \in Bits : epochBits' = epochBits + bits /\ charged' = [charged EXCEPT ![cur] = bits]
    BY <1>9 DEF ChargeEntropy
  <2>2. UNCHANGED <<journal, lineage, lifeFile>>
    BY <1>9 DEF ChargeEntropy
  <2>3. epochBits' \in Nat
    <3>1. epochBits \in Nat
      BY <1>1, Zenon DEF LedgersOK
    <3>2. bits \in Nat
      OBVIOUS
    <3>. QED
      BY <2>1, <3>1, <3>2
  <2>4. charged' \in [Mutations -> Nat \cup {Unpaid}]
    BY <1>1, <2>1 DEF LedgersOK
  <2>. QED
    BY <1>1, <2>2, <2>3, <2>4 DEF LedgersOK
<1>10. CASE RecordTransition
  <2>1. Successor[life] \in Entries
    BY <1>1, <1>10 DEF RecordTransition, Control, Successor, LocalsOK, LifeStates, Entries
  <2>2. /\ Journalled(Successor[life]) /\ pc # "idle"
        /\ UNCHANGED <<lineage, epochBits, charged, lifeFile>>
    BY <1>10 DEF RecordTransition, history
  <2>. QED
    BY <1>6, <2>1, <2>2
<1>11. CASE Lifecycle /\ ~PersistTransition /\ ~RecordTransition
  BY <1>6, <1>11 DEF Lifecycle, RefuseTransition, history, Entries
<1>12. CASE Governance \/ \E m \in Mutations : Begin(m)
  BY <1>5, <1>12 DEF Governance, Begin, Blocked, GovernorAccepts, GovernorRejects, disk, history
<1>13. CASE Applying
  <2>1. CASE OpenTransaction
    BY <1>6, <2>1 DEF OpenTransaction, Entries
  <2>2. CASE ~OpenTransaction
    BY <1>5, <1>13, <2>2 DEF Applying, Backup, WriteTarget, TargetRefused, VerifyPasses, VerifyFails,
       TestsPass, TestsFail, BlockRaises, disk, history
  <2>. QED
    BY <2>1, <2>2
<1>14. CASE RollingBack
  <2>1. CASE Unlink \/ Restore \/ CertificateRaises
    BY <1>5, <2>1 DEF Unlink, Restore, CertificateRaises, disk, history
  <2>2. CASE IssueCertificate
    <3>1. /\ pc # "idle" /\ UNCHANGED <<lineage, lifeFile, epochBits, charged>>
          /\ \/ Journalled("rolled_back")
             \/ Journalled("rolled_back_partly")
      BY <2>2 DEF IssueCertificate, history
    <3>. QED
      BY <1>6, <3>1 DEF Entries
  <2>3. CASE JournalRefusal
    BY <1>6, <2>3 DEF JournalRefusal, Entries, history
  <2>. QED
    BY <1>14, <2>1, <2>2, <2>3 DEF RollingBack
<1>15. CASE Gates /\ ~ChargeEntropy
  <2>1. CASE JournalFailedTests
    BY <1>6, <2>1 DEF JournalFailedTests, Entries, history
  <2>2. CASE RecordEvidence \/ EntropyExceeded \/ RiskExceeded
    BY <1>7, <2>2 DEF RecordEvidence, EntropyExceeded, RiskExceeded, history, Events
  <2>3. CASE PolicyRejects \/ PolicyActivates \/ Demote \/ Revoke
    BY <1>7, <2>3 DEF PolicyRejects, PolicyActivates, Demote, Revoke, history, Events
  <2>. QED
    BY <1>15, <2>1, <2>2, <2>3 DEF Gates
<1>16. CASE Finishing
  <2>1. CASE WriteManifest \/ JournalPromotion
    BY <1>6, <2>1 DEF WriteManifest, JournalPromotion, Entries, history
  <2>2. CASE ActivateCertificate
    BY <1>7, <2>2 DEF ActivateCertificate, history, Events
  <2>3. CASE ManifestFails \/ AfterCycle
    BY <1>5, <2>3 DEF ManifestFails, AfterCycle, disk, history
  <2>. QED
    BY <1>16, <2>1, <2>2, <2>3 DEF Finishing
<1>17. CASE ExecuteRaises \/ Crash
  BY <1>5, <1>17 DEF ExecuteRaises, Crash, disk, history
<1>. QED
  BY <1>8, <1>9, <1>10, <1>11, <1>12, <1>13, <1>14, <1>15, <1>16, <1>17 DEF Next, Execute

\* execute() goes through its places in order, and not beyond the admission once
\* the governor has failed closed (MutationExecutor.execute).
LEMMA ControlStep == TypeOK /\ Control /\ Next => Control'
<1>. SUFFICES ASSUME TypeOK, Control, Next PROVE Control'
  OBVIOUS
<1>. USE ExecutionAssumption DEF InBlock
<1>1. LocalsOK
  BY TypeParts
<1>2. ASSUME NEW s, Leave(s) PROVE Control'
  BY <1>2 DEF Leave, Control
<1>3. pc # "idle" => cur \in Mutations /\ status[cur] = "running"
  BY <1>1 DEF LocalsOK, Control
<1>4. ASSUME NEW m \in Mutations, Begin(m) PROVE Control'
  BY <1>1, <1>4 DEF Begin, Control, LocalsOK
<1>5. CASE RecordTransition
  <2>1. /\ life' = Successor[life] /\ pc = "transition" /\ pc' = "persist"
        /\ UNCHANGED <<cur, status, failClosed>>
    BY <1>5 DEF RecordTransition
  <2>2. life' # "proposed" /\ (life = "proposed" => life' = "staged")
    BY <1>1, <2>1 DEF Successor, Control, LocalsOK, LifeStates
  <2>. QED
    BY <2>1, <2>2 DEF Control
<1>6. CASE PersistTransition
  <2>1. /\ pc = "persist" /\ pc' = AfterTransition[life]
        /\ UNCHANGED <<cur, life, tx, status, failClosed>>
    BY <1>6 DEF PersistTransition, Goto
  <2>2. \/ life = "staged" /\ pc' = "admission"
        \/ life = "certified" /\ pc' = "transition"
        \/ life = "executing" /\ pc' = "plan"
        \/ life = "completed" /\ pc' = "manifest"
    BY <1>1, <2>1 DEF AfterTransition, Control, LocalsOK, LifeStates
  <2>. QED
    BY <2>1, <2>2 DEF Control
<1>7. CASE RefuseTransition \/ Blocked \/ GovernorRejects \/ ManifestFails \/ AfterCycle
  BY <1>2, <1>7 DEF RefuseTransition, Blocked, GovernorRejects, ManifestFails, AfterCycle
<1>8. CASE ExecuteRaises \/ Crash
  BY <1>2, <1>8 DEF ExecuteRaises, Crash
<1>9. CASE GovernorAccepts
  BY <1>9 DEF GovernorAccepts, Goto, Control
<1>10. CASE OpenTransaction \/ Backup \/ WriteTarget \/ TestsPass
  <2>1. CASE OpenTransaction
    BY <2>1 DEF OpenTransaction, Control
  <2>2. CASE Backup
    <3>1. tx.todo # <<>> /\ tx'.todo = tx.todo
      BY <2>2, TypeParts DEF Backup, TxOK
    <3>. QED
      BY <2>2, <3>1 DEF Backup, Control
  <2>3. CASE WriteTarget \/ TestsPass
    BY <2>3 DEF WriteTarget, TestsPass, Control
  <2>. QED
    BY <1>10, <2>1, <2>2, <2>3
<1>11. ASSUME NEW why \in {"failed", "tests_failed", "raised", "exit"}, EnterRollback(why),
              UNCHANGED failClosed, pc \in InBlock
       PROVE  Control'
  BY <1>11 DEF EnterRollback, Control
<1>12. CASE TargetRefused \/ VerifyFails \/ TestsFail \/ BlockRaises
  BY <1>11, <1>12 DEF TargetRefused, VerifyFails, TestsFail, BlockRaises
<1>13. CASE VerifyPasses
  BY <1>13 DEF VerifyPasses, Goto, Control
<1>14. CASE Unlink \/ Restore
  <2>1. /\ UNCHANGED <<cur, life, outcome, status, failClosed>>
        /\ pc \in InBlock /\ pc' \in {"unlink", "restore", "certificate"}
    BY <1>14 DEF Unlink, Restore, DropBackups
  <2>. QED
    BY <2>1 DEF Control
<1>15. CASE IssueCertificate
  <2>1. pc = "certificate" /\ UNCHANGED failClosed
    BY <1>15 DEF IssueCertificate
  <2>2. \/ EnterRollback("exit") \/ Leave("raised")
        \/ Goto("evidence") /\ outcome' = "none"
        \/ outcome = "failed" /\ Goto("failed_entry") /\ UNCHANGED outcome
    BY <1>15 DEF IssueCertificate
  <2>3. CASE Goto("evidence") /\ outcome' = "none"
    BY <2>1, <2>3 DEF Goto, Control
  <2>4. CASE outcome = "failed" /\ Goto("failed_entry") /\ UNCHANGED outcome
    BY <2>1, <2>4 DEF Goto, Control
  <2>. QED
    BY <1>2, <1>11, <2>1, <2>2, <2>3, <2>4
<1>16. CASE CertificateRaises
  BY <1>2, <1>11, <1>16 DEF CertificateRaises
<1>17. CASE JournalRefusal
  BY <1>17 DEF JournalRefusal, Goto, Control
<1>18. CASE RecordEvidence \/ ChargeEntropy \/ EntropyExceeded \/ RiskExceeded
  BY <1>18 DEF RecordEvidence, ChargeEntropy, EntropyExceeded, RiskExceeded, Goto, Control
<1>19. CASE PolicyRejects \/ PolicyActivates \/ JournalFailedTests \/ Demote \/ Revoke
  BY <1>19 DEF PolicyRejects, PolicyActivates, JournalFailedTests, Demote, Revoke, Goto, Control
<1>20. CASE WriteManifest \/ JournalPromotion \/ ActivateCertificate
  BY <1>20 DEF WriteManifest, JournalPromotion, ActivateCertificate, Goto, Control
<1>. QED
  BY <1>4, <1>5, <1>6, <1>7, <1>8, <1>9, <1>10, <1>12, <1>13, <1>14, <1>15, <1>16, <1>17, <1>18,
     <1>19, <1>20
     DEF Next, Execute, Lifecycle, Governance, Applying, RollingBack, Gates, Finishing

\* The whole of the types and of the control.
LEMMA TypeStep == TypeOK /\ Control /\ Next => TypeOK' /\ Control'
<1>. SUFFICES ASSUME TypeOK, Control, Next PROVE TypeOK' /\ Control'
  OBVIOUS
<1>1. LocalsOK' /\ TxOK' /\ FilesOK' /\ LedgersOK' /\ Control'
  BY LocalsStep, TxStep, FilesStep, LedgersStep, ControlStep
<1>. QED
  BY <1>1 DEF TypeOK, LocalsOK, TxOK, FilesOK, LedgersOK

-----------------------------------------------------------------------------
(* The ledgers                                                             *)

\* A step writes at most one entry, about the running mutation, into each of the two
\* ledgers (append_tx, append_event).
LEMMA LedgerSteps ==
  ASSUME TypeOK, Control, Next
  PROVE  /\ UNCHANGED journal \/ (cur \in Mutations /\ \E e \in Entries : Journalled(e))
         /\ UNCHANGED lineage \/ (cur \in Mutations /\ \E e \in Events : Ledgered(e))
         /\ \A m \in Mutations : m # cur => status'[m] = status[m] \/ Begin(m)
<1>1. LocalsOK
  BY TypeParts
<1>2. pc # "idle" => cur \in Mutations
  BY <1>1 DEF LocalsOK
<1>3. CASE \E m \in Mutations : Begin(m)
  BY <1>1, <1>3 DEF Begin, disk, LocalsOK
<1>. USE DEF Leave, Goto
<1>4. CASE RecordTransition
  <2>1. Successor[life] \in Entries \/ life = "completed"
    BY <1>1 DEF Successor, LocalsOK, LifeStates, Entries
  <2>. QED
    BY <1>1, <1>2, <1>4, <2>1 DEF RecordTransition, Control, LocalsOK
<1>5. CASE RefuseTransition \/ PersistTransition \/ Governance
  BY <1>1, <1>2, <1>5 DEF RefuseTransition, PersistTransition, Governance, Blocked,
     GovernorAccepts, GovernorRejects, disk, LocalsOK, Entries
<1>6. CASE Applying
  BY <1>1, <1>2, <1>6 DEF Applying, OpenTransaction, Backup, WriteTarget, TargetRefused, EnterRollback,
     VerifyPasses, VerifyFails, TestsPass, TestsFail, BlockRaises, disk, LocalsOK, Entries
<1>7. CASE RollingBack
  BY <1>1, <1>2, <1>7 DEF RollingBack, Unlink, Restore, DropBackups, IssueCertificate, CertificateRaises,
     JournalRefusal, EnterRollback, disk, LocalsOK, Entries
<1>8. CASE Gates
  BY <1>1, <1>2, <1>8 DEF Gates, RecordEvidence, ChargeEntropy, EntropyExceeded, RiskExceeded,
     PolicyRejects, PolicyActivates, JournalFailedTests, Demote, Revoke, LocalsOK, Entries, Events
<1>9. CASE Finishing \/ ExecuteRaises \/ Crash
  BY <1>1, <1>2, <1>9 DEF Finishing, WriteManifest, ManifestFails, JournalPromotion,
     ActivateCertificate, AfterCycle, ExecuteRaises, Crash, disk, LocalsOK, Entries, Events
<1>. QED
  BY <1>3, <1>4, <1>5, <1>6, <1>7, <1>8, <1>9 DEF Next, Execute, Lifecycle

\* The ledgers of the other mutations stay, that of the running one only grows.
LEMMA LedgersGrow ==
  ASSUME TypeOK, Control, Next, NEW m \in Mutations
  PROVE  /\ Range(journal[m]) \subseteq Range(journal'[m])
         /\ m # cur => journal'[m] = journal[m] /\ lineage'[m] = lineage[m]
<1>1. journal \in [Mutations -> Seq(Entries)] /\ lineage \in [Mutations -> Seq(Events)]
  BY DEF TypeOK
<1>2. m # cur => journal'[m] = journal[m] /\ lineage'[m] = lineage[m]
  BY <1>1, LedgerSteps DEF Journalled, Ledgered
<1>3. ASSUME cur \in Mutations, NEW e \in Entries, Journalled(e), m = cur
      PROVE  Range(journal[m]) \subseteq Range(journal'[m])
  <2>1. journal'[m] = Append(journal[m], e)
    BY <1>1, <1>3 DEF Journalled
  <2>2. journal[m] \in Seq(Entries)
    BY <1>1
  <2>. QED
    BY <2>1, <2>2, RangeOfAppend, <1>3
<1>. QED
  BY <1>2, <1>3, LedgerSteps

\* The entry a step writes is in the ledger, after what was there.
LEMMA Entered ==
  ASSUME TypeOK, cur \in Mutations
  PROVE  /\ \A e \in Entries : Journalled(e) =>
               \A x : x \in Range(journal'[cur]) <=> x \in Range(journal[cur]) \/ x = e
         /\ \A e \in Events : Ledgered(e) => lineage'[cur] = Append(lineage[cur], e)
<1>1. journal \in [Mutations -> Seq(Entries)] /\ lineage \in [Mutations -> Seq(Events)]
  BY DEF TypeOK
<1>2. ASSUME NEW e \in Entries, Journalled(e)
      PROVE  \A x : x \in Range(journal'[cur]) <=> x \in Range(journal[cur]) \/ x = e
  <2>1. journal'[cur] = Append(journal[cur], e) /\ journal[cur] \in Seq(Entries)
    BY <1>1, <1>2 DEF Journalled
  <2>. QED
    BY <2>1, RangeOfAppend
<1>3. \A e \in Events : Ledgered(e) => lineage'[cur] = Append(lineage[cur], e)
  BY <1>1 DEF Ledgered
<1>. QED
  BY <1>2, <1>3

\* Two sequences with the same elements in the same places are one (lineage entries).
LEMMA SeqEqual ==
  ASSUME NEW S, NEW s \in Seq(S), NEW t \in Seq(S), Len(s) = Len(t),
         \A i \in 1..Len(s) : s[i] = t[i]
  PROVE  s = t
OBVIOUS

\* What appending makes of the short lineages (append_event).
LEMMA AppendShort ==
  /\ \A a \in Events : Append(<<>>, a) = <<a>>
  /\ \A a, b \in Events : Append(<<a>>, b) = <<a, b>>
  /\ \A a, b, c \in Events : Append(<<a, b>>, c) = <<a, b, c>>
  /\ \A a, b, c, d \in Events : Append(<<a, b, c>>, d) = <<a, b, c, d>>
<1>1. \A a \in Events : Append(<<>>, a) = <<a>>
  OBVIOUS
<1>2. ASSUME NEW a \in Events, NEW b \in Events PROVE Append(<<a>>, b) = <<a, b>>
  <2>1. /\ Append(<<a>>, b) \in Seq(Events) /\ <<a, b>> \in Seq(Events)
        /\ Len(Append(<<a>>, b)) = 2 /\ Len(<<a, b>>) = 2
    OBVIOUS
  <2>2. \A i \in 1..2 : Append(<<a>>, b)[i] = <<a, b>>[i]
    OBVIOUS
  <2>. QED
    BY <2>1, <2>2, SeqEqual
<1>3. ASSUME NEW a \in Events, NEW b \in Events, NEW c \in Events
      PROVE  Append(<<a, b>>, c) = <<a, b, c>>
  <2>1. /\ Append(<<a, b>>, c) \in Seq(Events) /\ <<a, b, c>> \in Seq(Events)
        /\ Len(Append(<<a, b>>, c)) = 3 /\ Len(<<a, b, c>>) = 3
    OBVIOUS
  <2>2. \A i \in 1..3 : Append(<<a, b>>, c)[i] = <<a, b, c>>[i]
    OBVIOUS
  <2>. QED
    BY <2>1, <2>2, SeqEqual
<1>4. ASSUME NEW a \in Events, NEW b \in Events, NEW c \in Events, NEW d \in Events
      PROVE  Append(<<a, b, c>>, d) = <<a, b, c, d>>
  <2>1. /\ Append(<<a, b, c>>, d) \in Seq(Events) /\ <<a, b, c, d>> \in Seq(Events)
        /\ Len(Append(<<a, b, c>>, d)) = 4 /\ Len(<<a, b, c, d>>) = 4
    OBVIOUS
  <2>2. \A i \in 1..4 : Append(<<a, b, c>>, d)[i] = <<a, b, c, d>>[i]
    OBVIOUS
  <2>. QED
    BY <2>1, <2>2, SeqEqual
<1>. QED
  BY <1>1, <1>2, <1>3, <1>4, Zenon

\* The lineages a mutation can have, step by step.
LEMMA Tales ==
  /\ Append(<<>>, "evidence") = <<"evidence">>
  /\ Append(<<"evidence">>, "ACTIVATED") = <<"evidence", "ACTIVATED">>
  /\ Append(<<"evidence">>, "REJECTED") = <<"evidence", "REJECTED">>
  /\ Append(<<"evidence", "ACTIVATED">>, "REJECTED") = <<"evidence", "ACTIVATED", "REJECTED">>
  /\ Append(<<"evidence", "ACTIVATED">>, "cert_on") = <<"evidence", "ACTIVATED", "cert_on">>
  /\ Append(<<"evidence", "ACTIVATED", "REJECTED">>, "cert_off")
       = <<"evidence", "ACTIVATED", "REJECTED", "cert_off">>
  /\ "cert_on" \notin Range(<<>>)
  /\ "cert_on" \notin Range(<<"evidence">>)
  /\ "cert_on" \notin Range(<<"evidence", "ACTIVATED">>)
  /\ "cert_on" \notin Range(<<"evidence", "REJECTED">>)
  /\ "cert_on" \notin Range(<<"evidence", "ACTIVATED", "REJECTED">>)
  /\ "cert_on" \notin Range(<<"evidence", "ACTIVATED", "REJECTED", "cert_off">>)
  /\ "cert_on" \notin Range(Append(<<"evidence">>, "cert_off"))
  /\ "cert_on" \notin Range(Append(<<"evidence", "REJECTED">>, "cert_off"))
<1>1. /\ "cert_on" \notin Range(<<>>)
      /\ "cert_on" \notin Range(<<"evidence">>)
      /\ "cert_on" \notin Range(<<"evidence", "ACTIVATED">>)
      /\ "cert_on" \notin Range(<<"evidence", "REJECTED">>)
  BY DEF Range
<1>2. "cert_on" \notin Range(<<"evidence", "ACTIVATED", "REJECTED">>)
  BY DEF Range
<1>3. "cert_on" \notin Range(<<"evidence", "ACTIVATED", "REJECTED", "cert_off">>)
  BY DEF Range
<1>4. "cert_on" \notin Range(<<"evidence", "cert_off">>)
  BY DEF Range
<1>5. "cert_on" \notin Range(<<"evidence", "REJECTED", "cert_off">>)
  BY DEF Range
<1>0. /\ "evidence" \in Events /\ "cert_off" \in Events /\ "cert_on" \in Events
      /\ "ACTIVATED" \in Events /\ "REJECTED" \in Events
  BY DEF Events
<1>6. /\ Append(<<"evidence">>, "cert_off") = <<"evidence", "cert_off">>
      /\ Append(<<"evidence", "REJECTED">>, "cert_off") = <<"evidence", "REJECTED", "cert_off">>
  BY <1>0, AppendShort
<1>7. /\ Append(<<>>, "evidence") = <<"evidence">>
      /\ Append(<<"evidence">>, "ACTIVATED") = <<"evidence", "ACTIVATED">>
      /\ Append(<<"evidence">>, "REJECTED") = <<"evidence", "REJECTED">>
  BY <1>0, AppendShort, Zenon
<1>8. /\ Append(<<"evidence", "ACTIVATED">>, "REJECTED") = <<"evidence", "ACTIVATED", "REJECTED">>
      /\ Append(<<"evidence", "ACTIVATED">>, "cert_on") = <<"evidence", "ACTIVATED", "cert_on">>
  BY <1>0, AppendShort
<1>9. Append(<<"evidence", "ACTIVATED", "REJECTED">>, "cert_off")
        = <<"evidence", "ACTIVATED", "REJECTED", "cert_off">>
  BY <1>0, AppendShort
<1>. QED
  BY <1>1, <1>2, <1>3, <1>4, <1>5, <1>6, <1>7, <1>8, <1>9, Zenon

\* The lineage tells how far the running mutation has come (execute).
LEMMA ToldStep ==
  ASSUME TypeOK, Control, cur # None => Told, Next, Control',
         \A m \in Mutations : status[m] = "new" => lineage[m] = <<>>
  PROVE  cur' # None => Told'
<1>1. LocalsOK
  BY TypeParts
<1>2. pc # "idle" => cur \in Mutations /\ Told
  BY <1>1, ExecutionAssumption DEF LocalsOK
<1>3. ASSUME NEW s, Leave(s) PROVE cur' = None
  BY <1>3 DEF Leave
<1>. USE DEF InBlock
<1>4. ASSUME NEW m \in Mutations, Begin(m) PROVE Told'
  <2>1. /\ pc' = "transition" /\ life' = "proposed" /\ cur' = m /\ lineage'[m] = <<>>
    BY <1>4 DEF Begin, Control, disk
  <2>2. /\ Ahead' /\ lineage[cur]' = <<>>
    BY <2>1 DEF Ahead
  <2>. QED
    BY <2>1, <2>2, Zenon DEF Told, Activated
<1>5. CASE RecordTransition
  <2>1. /\ life' = Successor[life] /\ pc = "transition" /\ pc' = "persist"
        /\ UNCHANGED <<cur, lineage>> /\ cur \in Mutations /\ Told
    BY <1>2, <1>5 DEF RecordTransition
  <2>2. life' = "completed" <=> life = "executing"
    BY <1>1, <2>1 DEF Successor, Control, LocalsOK, LifeStates
  <2>3. CASE life = "executing"
    <3>1. lineage[cur] = <<"evidence", "ACTIVATED">> /\ life' = "completed"
      BY <2>1, <2>2, <2>3 DEF Told, Activated
    <3>. QED
      BY <2>1, <3>1 DEF Told, Ahead, Activated
  <2>4. CASE life # "executing"
    <3>1. lineage[cur] = <<>> /\ life' # "completed"
      BY <2>1, <2>2, <2>4 DEF Told, Ahead, Activated
    <3>. QED
      BY <2>1, <3>1 DEF Told, Ahead, Activated
  <2>. QED
    BY <2>3, <2>4
<1>6. CASE PersistTransition
  <2>1. /\ pc = "persist" /\ pc' = AfterTransition[life]
        /\ UNCHANGED <<cur, life, lineage>> /\ cur \in Mutations /\ Told
    BY <1>2, <1>6 DEF PersistTransition, Goto
  <2>2. \/ life = "staged" /\ pc' = "admission"
        \/ life = "certified" /\ pc' = "transition"
        \/ life = "executing" /\ pc' = "plan"
        \/ life = "completed" /\ pc' = "manifest"
    BY <1>1, <2>1 DEF AfterTransition, Control, LocalsOK, LifeStates
  <2>. QED
    BY <2>1, <2>2 DEF Told, Ahead, Activated
<1>7. CASE RefuseTransition \/ Blocked \/ GovernorRejects \/ ManifestFails \/ AfterCycle
  BY <1>3, <1>7 DEF RefuseTransition, Blocked, GovernorRejects, ManifestFails, AfterCycle
<1>8. CASE ExecuteRaises \/ Crash
  BY <1>3, <1>8 DEF ExecuteRaises, Crash
<1>9. CASE GovernorAccepts
  <2>1. /\ pc = "admission" /\ pc' = "transition" /\ life' = "staged"
        /\ UNCHANGED <<cur, lineage>>
    BY <1>9 DEF GovernorAccepts, Goto, Control, disk
  <2>2. lineage[cur] = <<>>
    BY <1>2, <2>1 DEF Told, Ahead
  <2>. QED
    BY <2>1, <2>2 DEF Told, Ahead, Activated
<1>10. CASE Applying \/ Unlink \/ Restore
  <2>1. /\ UNCHANGED <<cur, lineage>> /\ pc \in InBlock \cup {"plan"}
        /\ pc' \in InBlock \cup {"evidence"}
    BY <1>10 DEF Applying, OpenTransaction, Backup, WriteTarget, TargetRefused, EnterRollback,
     VerifyPasses, VerifyFails, TestsPass, TestsFail, BlockRaises, Unlink, Restore, DropBackups, Goto, disk
  <2>2. lineage[cur] = <<>>
    BY <1>2, <2>1 DEF Told, Ahead, Activated
  <2>. QED
    BY <2>1, <2>2 DEF Told, Ahead, Activated
<1>11. CASE IssueCertificate \/ CertificateRaises
  <2>1. lineage[cur] = <<>> /\ UNCHANGED lineage
    BY <1>2, <1>11 DEF IssueCertificate, CertificateRaises, Told, disk
  <2>2. \/ cur' = None
        \/ cur' = cur /\ pc' \in {"unlink", "evidence", "failed_entry"}
    BY <1>11 DEF IssueCertificate, CertificateRaises, EnterRollback, Goto, Leave
  <2>. QED
    BY <2>1, <2>2 DEF Told, Ahead, Activated
<1>12. CASE JournalRefusal
  <2>1. lineage[cur] = <<>> /\ UNCHANGED <<cur, lineage>> /\ pc' = "after" /\ outcome' = "failed"
    BY <1>2, <1>12 DEF JournalRefusal, Told, Activated, Goto, Control
  <2>. QED
    BY <2>1, Tales DEF Told, Ahead, Activated
<1>13. CASE RecordEvidence
  <2>1. lineage'[cur] = <<"evidence">> /\ cur' = cur /\ pc' = "entropy"
    BY <1>2, <1>13, Entered, Tales DEF RecordEvidence, Told, Activated, Goto, Events
  <2>. QED
    BY <2>1 DEF Told, Ahead, Activated
<1>14. CASE ChargeEntropy
  BY <1>2, <1>14 DEF ChargeEntropy, Told, Ahead, Activated, Goto
<1>15. CASE EntropyExceeded \/ RiskExceeded
  <2>1. /\ lineage'[cur] = Append(<<"evidence">>, "cert_off") /\ cur' = cur
        /\ pc' = "after" /\ outcome' = "rejected"
    BY <1>2, <1>15, Entered DEF EntropyExceeded, RiskExceeded, Told, Activated, Goto, Events
  <2>. QED
    BY <2>1, Tales DEF Told, Ahead, Activated
<1>16. CASE PolicyRejects
  <2>1. /\ lineage'[cur] = <<"evidence", "REJECTED">> /\ cur' = cur
        /\ pc' = "revoke" /\ outcome' = "rejected"
    BY <1>2, <1>16, Entered, Tales DEF PolicyRejects, Told, Activated, Goto, Events
  <2>. QED
    BY <2>1 DEF Told, Ahead, Activated
<1>17. CASE PolicyActivates
  <2>1. /\ lineage'[cur] = <<"evidence", "ACTIVATED">> /\ cur' = cur
        /\ pc' \in {"transition", "tests_entry"} /\ life' = "executing"
    BY <1>2, <1>17, Entered, Tales DEF PolicyActivates, Told, Activated, Goto, Events, Control
  <2>. QED
    BY <2>1 DEF Told, Ahead, Activated
<1>18. CASE JournalFailedTests
  BY <1>2, <1>18 DEF JournalFailedTests, Told, Ahead, Activated, Goto
<1>19. CASE Demote
  <2>1. /\ lineage'[cur] = <<"evidence", "ACTIVATED", "REJECTED">> /\ cur' = cur
        /\ pc' = "revoke" /\ outcome' = "failed"
    <3>1. /\ pc = "demote" /\ Ledgered("REJECTED") /\ cur' = cur
          /\ pc' = "revoke" /\ outcome' = "failed"
      BY <1>19 DEF Demote, Goto
    <3>2. lineage[cur] = <<"evidence", "ACTIVATED">>
      BY <1>2, <3>1 DEF Told, Activated
    <3>3. lineage'[cur] = Append(lineage[cur], "REJECTED")
      BY <1>2, <3>1, Entered DEF Events
    <3>. QED
      BY <3>1, <3>2, <3>3, Tales
  <2>. QED
    BY <2>1 DEF Told, Ahead, Activated
<1>20. CASE Revoke
  <2>1. /\ cur' = cur /\ pc' = "after" /\ outcome' = outcome /\ outcome \in {"failed", "rejected"}
        /\ lineage'[cur] = Append(lineage[cur], "cert_off") /\ pc = "revoke"
    BY <1>2, <1>20, Entered DEF Revoke, Goto, Events, Control
  <2>2. CASE outcome = "failed"
    <3>1. lineage'[cur] = <<"evidence", "ACTIVATED", "REJECTED", "cert_off">>
      BY <1>2, <2>1, <2>2, Tales DEF Told, Activated
    <3>. QED
      BY <2>1, <2>2, <3>1, Tales DEF Told, Ahead, Activated
  <2>3. CASE outcome = "rejected"
    <3>1. lineage'[cur] = Append(<<"evidence", "REJECTED">>, "cert_off")
      BY <1>2, <2>1, <2>3 DEF Told, Activated
    <3>. QED
      BY <2>1, <2>3, <3>1, Tales DEF Told, Ahead, Activated
  <2>. QED
    BY <2>1, <2>2, <2>3
<1>21. CASE WriteManifest
  BY <1>2, <1>21 DEF WriteManifest, Told, Ahead, Activated, Goto
<1>22. CASE JournalPromotion
  <2>1. /\ cur' = cur /\ pc' = "activate" /\ lineage'[cur] = <<"evidence", "ACTIVATED">>
        /\ "promoted" \in Range(journal'[cur])
    <3>1. /\ pc = "promote" /\ Journalled("promoted") /\ cur' = cur
          /\ pc' = "activate" /\ UNCHANGED lineage
      BY <1>22 DEF JournalPromotion, Goto
    <3>2. lineage[cur] = <<"evidence", "ACTIVATED">>
      BY <1>2, <3>1 DEF Told, Activated
    <3>3. "promoted" \in Range(journal'[cur])
      BY <1>2, <3>1, Entered DEF Entries
    <3>. QED
      BY <3>1, <3>2, <3>3
  <2>. QED
    BY <2>1 DEF Told, Ahead, Activated
<1>23. CASE ActivateCertificate
  <2>1. /\ cur' = cur /\ pc' = "after" /\ outcome' = "executed"
        /\ lineage'[cur] = <<"evidence", "ACTIVATED", "cert_on">>
        /\ "promoted" \in Range(journal'[cur])
    <3>1. /\ pc = "activate" /\ Ledgered("cert_on") /\ cur' = cur /\ UNCHANGED journal
          /\ pc' = "after" /\ outcome' = "executed"
      BY <1>23 DEF ActivateCertificate, Goto
    <3>2. lineage[cur] = <<"evidence", "ACTIVATED">> /\ "promoted" \in Range(journal[cur])
      BY <1>2, <3>1 DEF Told, Activated
    <3>3. lineage'[cur] = Append(lineage[cur], "cert_on")
      BY <1>2, <3>1, Entered DEF Events
    <3>. QED
      BY <3>1, <3>2, <3>3, Tales
  <2>. QED
    BY <2>1 DEF Told, Ahead, Activated
<1>. QED
  BY <1>4, <1>5, <1>6, <1>7, <1>8, <1>9, <1>10, <1>11, <1>12, <1>13, <1>14, <1>15, <1>16, <1>17,
     <1>18, <1>19, <1>20, <1>21, <1>22, <1>23
     DEF Next, Execute, Lifecycle, Governance, RollingBack, Gates, Finishing

\* What LineageTellsOutcome says of one mutation.
Tells(m) ==
  /\ "cert_on" \in Range(lineage[m]) =>
        /\ lineage[m] = <<"evidence", "ACTIVATED", "cert_on">>
        /\ "promoted" \in Range(journal[m])
  /\ status[m] = "failed" /\ lineage[m] # <<>> =>
        lineage[m] = <<"evidence", "ACTIVATED", "REJECTED", "cert_off">>

\* What execute() may return (mutation_executor.py 365-822).
LEMMA Returned ==
  ASSUME TypeOK, Control, Next, cur \in Mutations
  PROVE  \/ status'[cur] \in {status[cur], "rejected", "blocked", "raised", "crashed"}
         \/ AfterCycle /\ status'[cur] = outcome
<1>1. LocalsOK /\ pc # "idle" /\ ~\E k \in Mutations : Begin(k)
  BY TypeParts, ExecutionAssumption DEF LocalsOK, Begin
<1>2. ASSUME NEW s, Leave(s) PROVE status'[cur] = s
  BY <1>1, <1>2 DEF Leave, LocalsOK
<1>3. CASE Lifecycle \/ Governance \/ Applying
  <2>1. UNCHANGED status \/ \E s \in {"rejected", "blocked"} : Leave(s)
    BY <1>3 DEF Lifecycle, RecordTransition, RefuseTransition, PersistTransition, Governance,
       Blocked, GovernorAccepts, GovernorRejects, Applying, OpenTransaction, Backup, WriteTarget,
       TargetRefused, VerifyPasses, VerifyFails, TestsPass, TestsFail, BlockRaises, EnterRollback,
       Goto
  <2>. QED
    BY <1>2, <2>1
<1>4. CASE RollingBack \/ Gates
  <2>1. UNCHANGED status \/ Leave("raised")
    BY <1>4 DEF RollingBack, Unlink, Restore, DropBackups, IssueCertificate, CertificateRaises,
       JournalRefusal, EnterRollback, Goto, Gates, RecordEvidence, ChargeEntropy, EntropyExceeded,
       RiskExceeded, PolicyRejects, PolicyActivates, JournalFailedTests, Demote, Revoke
  <2>. QED
    BY <1>2, <2>1
<1>5. CASE AfterCycle
  BY <1>2, <1>5 DEF AfterCycle
<1>6. CASE (Finishing /\ ~AfterCycle) \/ ExecuteRaises \/ Crash
  <2>1. UNCHANGED status \/ \E s \in {"rejected", "raised", "crashed"} : Leave(s)
    BY <1>6 DEF Finishing, WriteManifest, ManifestFails, JournalPromotion,
       ActivateCertificate, ExecuteRaises, Crash, Goto
  <2>. QED
    BY <1>2, <2>1
<1>. QED
  BY <1>1, <1>3, <1>4, <1>5, <1>6 DEF Next, Execute

\* The status execute() returns is "failed" only where the outcome is, and a mutation
\* that is new has not run (after_mutation_cycle).
LEMMA FailedOutcome ==
  ASSUME TypeOK, Control, Next, NEW m \in Mutations
  PROVE  /\ status'[m] = "failed" => \/ status[m] = "failed"
                                     \/ m = cur /\ pc = "after" /\ outcome = "failed" /\ AfterCycle
         /\ status'[m] = "new" => status[m] = "new" /\ m # cur /\ m # cur'
<1>1. LocalsOK
  BY TypeParts
<1>2. CASE m # cur
  <2>1. status'[m] = status[m] \/ (Begin(m) /\ status'[m] = "running")
    BY <1>1, <1>2, LedgerSteps DEF Begin, LocalsOK
  <2>2. cur' = m => status'[m] = "running"
    <3>1. Control' /\ (cur' = m => cur' # None)
      BY ControlStep, ExecutionAssumption
    <3>. QED
      BY <3>1 DEF Control
  <2>. QED
    BY <1>2, <2>1, <2>2
<1>3. CASE m = cur
  <2>1. status[cur] = "running" /\ cur \in Mutations
    BY <1>3, ExecutionAssumption DEF Control
  <2>2. AfterCycle => pc = "after" /\ outcome # "new"
    BY DEF AfterCycle, Control
  <2>. QED
    BY <1>3, <2>1, <2>2, Returned
<1>. QED
  BY <1>2, <1>3

\* The lineage goes on telling the outcome (mutation_executor.py).
LEMMA TellsStep ==
  ASSUME TypeOK, Control, cur # None => Told, LineageTellsOutcome, Next, cur' # None => Told'
  PROVE  LineageTellsOutcome'
<1>. SUFFICES ASSUME NEW m \in Mutations PROVE Tells(m)'
  BY DEF LineageTellsOutcome, Tells
<1>1. LocalsOK /\ Tells(m)
  BY TypeParts DEF LineageTellsOutcome, Tells
<1>2. Range(journal[m]) \subseteq Range(journal'[m])
  BY LedgersGrow
<1>3. CASE lineage'[m] = lineage[m]
  <2>1. status'[m] = "failed" /\ lineage[m] # <<>> =>
          lineage[m] = <<"evidence", "ACTIVATED", "REJECTED", "cert_off">>
    <3>1. ASSUME m = cur, pc = "after", outcome = "failed"
          PROVE  lineage[m] \in {<<>>, <<"evidence", "ACTIVATED", "REJECTED", "cert_off">>}
      BY <3>1, ExecutionAssumption DEF Told
    <3>2. status'[m] = "failed" => status[m] = "failed" \/ (m = cur /\ pc = "after" /\ outcome = "failed")
      BY FailedOutcome
    <3>. QED
      BY <1>1, <3>1, <3>2 DEF Tells
  <2>. QED
    BY <1>1, <1>2, <1>3, <2>1 DEF Tells
<1>4. CASE lineage'[m] # lineage[m]
  <2>1. m = cur /\ pc # "idle" /\ cur # None /\ Told
    BY <1>1, <1>4, LedgersGrow, ExecutionAssumption DEF LocalsOK
  <2>2. cur' = cur /\ status'[m] = "running"
    <3>1. UNCHANGED lineage \/ (cur' = cur /\ UNCHANGED status)
      <4>1. CASE (\E k \in Mutations : Begin(k)) \/ Lifecycle \/ Governance
        BY <4>1 DEF Begin, Lifecycle, RecordTransition, RefuseTransition, PersistTransition,
           Governance, Blocked, GovernorAccepts, GovernorRejects, Goto, disk
      <4>2. CASE Applying \/ RollingBack \/ ExecuteRaises \/ Crash
        BY <4>2 DEF Applying, OpenTransaction, Backup, WriteTarget,
           TargetRefused, VerifyPasses, VerifyFails, TestsPass, TestsFail, BlockRaises, RollingBack,
           Unlink, Restore, DropBackups, IssueCertificate, CertificateRaises, JournalRefusal, ExecuteRaises,
           Crash, disk
      <4>3. CASE Gates \/ Finishing
        BY <4>3 DEF Gates, RecordEvidence, ChargeEntropy, EntropyExceeded,
           RiskExceeded, PolicyRejects, PolicyActivates, JournalFailedTests, Demote, Revoke, Finishing,
           WriteManifest, ManifestFails, JournalPromotion, ActivateCertificate, AfterCycle, Goto, disk
      <4>. QED
        BY <4>1, <4>2, <4>3 DEF Next, Execute
    <3>. QED
      BY <1>4, <2>1, <3>1 DEF Control
  <2>3. /\ Told'
        /\ "cert_on" \in Range(lineage'[m]) =>
             /\ lineage'[m] = <<"evidence", "ACTIVATED", "cert_on">>
             /\ "promoted" \in Range(journal'[m])
    <3>1. Told'
      BY <2>1, <2>2
    <3>2. \/ RecordEvidence \/ EntropyExceeded \/ RiskExceeded \/ PolicyRejects
          \/ PolicyActivates \/ Demote \/ Revoke \/ ActivateCertificate
      <4>1. CASE (\E k \in Mutations : Begin(k)) \/ Lifecycle \/ Governance
        BY <1>4, <4>1 DEF Begin, Lifecycle, RecordTransition, RefuseTransition, PersistTransition,
           Governance, Blocked, GovernorAccepts, GovernorRejects, disk
      <4>2. CASE Applying \/ RollingBack \/ ExecuteRaises \/ Crash
        BY <1>4, <4>2 DEF Applying, OpenTransaction, Backup, WriteTarget,
           TargetRefused, VerifyPasses, VerifyFails, TestsPass, TestsFail, BlockRaises, RollingBack,
           Unlink, Restore, DropBackups, IssueCertificate, CertificateRaises, JournalRefusal, ExecuteRaises,
           Crash, disk
      <4>3. CASE Gates \/ Finishing
        BY <1>4, <4>3 DEF Gates, ChargeEntropy, JournalFailedTests, Finishing,
           WriteManifest, ManifestFails, JournalPromotion, AfterCycle, disk
      <4>. QED
        BY <4>1, <4>2, <4>3 DEF Next, Execute
    <3>3. \/ pc' \in {"entropy", "revoke", "after", "tests_entry"}
          \/ pc' = "transition" /\ life' = "executing"
      BY <3>2 DEF RecordEvidence, EntropyExceeded, RiskExceeded, PolicyRejects, PolicyActivates,
         Demote, Revoke, ActivateCertificate, Goto, Control
    <3>4. CASE pc' = "after"
      BY <2>1, <2>2, <3>1, <3>4 DEF Told
    <3>5. CASE pc' # "after"
      <4>1. lineage'[m] \in {<<"evidence">>, <<"evidence", "ACTIVATED">>, <<"evidence", "REJECTED">>,
                             <<"evidence", "ACTIVATED", "REJECTED">>}
        <5>1. CASE pc' = "entropy"
          BY <2>1, <2>2, <3>1, <5>1 DEF Told
        <5>2. CASE pc' = "revoke"
          <6>1. lineage'[m] = IF outcome' = "failed" THEN <<"evidence", "ACTIVATED", "REJECTED">>
                                                     ELSE <<"evidence", "REJECTED">>
            BY <2>1, <2>2, <3>1, <5>2 DEF Told
          <6>. QED
            BY <6>1, Zenon
        <5>3. CASE pc' = "tests_entry" \/ (pc' = "transition" /\ life' = "executing")
          BY <2>1, <2>2, <3>1, <5>3 DEF Told, Activated
        <5>. QED
          BY <3>3, <3>5, <5>1, <5>2, <5>3
      <4>2. "cert_on" \notin Range(lineage'[m])
        BY <4>1, Tales
      <4>. QED
        BY <3>1, <4>2
    <3>. QED
      BY <3>1, <3>4, <3>5
  <2>. QED
    BY <2>2, <2>3 DEF Tells
<1>. QED
  BY <1>3, <1>4

-----------------------------------------------------------------------------
(* The files                                                               *)

\* Pre-images, backups and commits of the other mutations stay (MutationTransaction).
LEMMA OthersStay ==
  ASSUME TypeOK, Control, Next, NEW m \in Mutations, m # cur
  PROVE  /\ rollbackDir'[m] = rollbackDir[m] /\ before'[m] = before[m]
         /\ m \in committed' <=> m \in committed
         /\ \A f : <<m, f>> \in lost' <=> <<m, f>> \in lost
<1>1. FilesOK
  BY TypeParts
<1>2. CASE OpenTransaction \/ Backup
  BY <1>1, <1>2 DEF OpenTransaction, Backup, FilesOK, history
<1>3. CASE WriteTarget \/ Unlink
  BY <1>3 DEF WriteTarget, Unlink, history
<1>4. CASE TestsPass \/ Restore
  <2>1. UNCHANGED rollbackDir \/ rollbackDir' = [rollbackDir EXCEPT ![cur] = NoBackups]
    BY <1>4 DEF TestsPass, Restore, DropBackups
  <2>2. UNCHANGED before /\ (UNCHANGED committed \/ committed' = committed \cup {cur})
    BY <1>4 DEF TestsPass, Restore, DropBackups, history
  <2>3. UNCHANGED lost \/ \E S : lost' = lost \cup {<<cur, f>> : f \in S}
    BY <1>4 DEF TestsPass, Restore, DropBackups
  <2>. QED
    BY <1>1, <2>1, <2>2, <2>3 DEF FilesOK
<1>. QED
  BY <1>2, <1>3, <1>4, Quiet

\* Output that is nowhere comes only from writing it or from a copy of its own that is
\* cut short: backing up, unlinking and restoring move nothing else about (apply,
\* rollback).
LEMMA Spread ==
  ASSUME TypeOK, Control, Next, NEW m \in Mutations, NEW f \in Files, Nowhere(m, f),
         ~(WriteTarget /\ m = cur /\ f = Head(tx.todo)),
         ~(Restore /\ m = cur /\ rollbackDir[m][f] # None)
  PROVE  Nowhere(m, f)'
<1>. USE ExecutionAssumption
<1>1. FilesOK /\ LocalsOK /\ TxOK
  BY TypeParts
<1>2. /\ ~Holds(files[f], m) /\ \A k \in Mutations : ~Holds(rollbackDir[k][f], m)
      /\ ~Holds(None, m) /\ ~Holds(Absent, m)
  BY DEF Nowhere, Wrote, Holds
<1>3. SUFFICES ASSUME TRUE
      PROVE  ~Holds(files'[f], m) /\ \A k \in Mutations : ~Holds(rollbackDir'[k][f], m)
  BY DEF Nowhere, Wrote
<1>. HIDE DEF Holds
<1>4. CASE Backup
  <2>1. UNCHANGED files /\ \A k \in Mutations : rollbackDir'[k][f] \in {rollbackDir[k][f], files[f]}
    BY <1>1, <1>4 DEF Backup, FilesOK
  <2>. QED
    BY <1>2, <2>1
<1>5. CASE WriteTarget
  <2>1. /\ cur \in Mutations /\ Head(tx.todo) \in Files /\ UNCHANGED rollbackDir
        /\ files' = [files EXCEPT ![Head(tx.todo)] = Written(files[Head(tx.todo)], cur)]
    BY <1>1, <1>5 DEF WriteTarget, LocalsOK, TxOK, Control
  <2>2. CASE f # Head(tx.todo)
    BY <1>1, <1>2, <2>1, <2>2 DEF FilesOK
  <2>3. CASE f = Head(tx.todo)
    <3>1. files'[f] = Written(files[f], cur) /\ files[f] \in Content /\ m # cur
      BY <1>1, <1>5, <2>1, <2>3 DEF FilesOK
    <3>2. ~Holds(files'[f], m)
      BY <1>2, <2>1, <3>1, WrittenHolds
    <3>. QED
      BY <1>2, <2>1, <3>2
  <2>. QED
    BY <2>2, <2>3
<1>6. CASE TestsPass
  <2>1. UNCHANGED files /\ \A k \in Mutations : rollbackDir'[k][f] \in {rollbackDir[k][f], None}
    BY <1>1, <1>6 DEF TestsPass, FilesOK, NoBackups
  <2>. QED
    BY <1>2, <2>1
<1>7. CASE Unlink
  <2>1. UNCHANGED rollbackDir /\ files'[f] \in {files[f], Absent}
    BY <1>1, <1>7 DEF Unlink, FilesOK
  <2>. QED
    BY <1>2, <2>1
<1>8. CASE Restore
  <2>1. \A k \in Mutations : rollbackDir'[k][f] \in {rollbackDir[k][f], None}
    <3>1. UNCHANGED rollbackDir \/ rollbackDir' = [rollbackDir EXCEPT ![cur] = NoBackups]
      BY <1>8 DEF Restore, DropBackups
    <3>2. [rollbackDir EXCEPT ![cur] = NoBackups][cur] = NoBackups \/ cur \notin Mutations
      BY <1>1 DEF FilesOK
    <3>. QED
      BY <1>1, <3>1, <3>2 DEF FilesOK, NoBackups
  <2>2. cur \in Mutations /\ (m # cur \/ rollbackDir[cur][f] = None)
    BY <1>1, <1>8 DEF Restore, LocalsOK
  <2>3. \/ files'[f] \in {files[f], rollbackDir[cur][f]}
        \/ files'[f] = <<Torn, cur>> /\ rollbackDir[cur][f] # None
    <3>1. \/ UNCHANGED files
          \/ \E g \in tx.undo :
               /\ rollbackDir[cur][g] # None
               /\ files' \in {[files EXCEPT ![g] = rollbackDir[cur][g]], [files EXCEPT ![g] = files[g]],
                             [files EXCEPT ![g] = <<Torn, cur>>]}
      BY <1>8, Zenon DEF Restore, CopyBack
    <3>. QED
      BY <1>1, <3>1 DEF FilesOK
  <2>4. m # cur => ~Holds(<<Torn, cur>>, m)
    BY <2>2, TornHolds
  <2>. QED
    BY <1>2, <2>1, <2>2, <2>3, <2>4
<1>9. CASE OpenTransaction
  BY <1>2, <1>9 DEF OpenTransaction
<1>. QED
  BY <1>2, <1>4, <1>5, <1>6, <1>7, <1>8, <1>9, Quiet

\* What is known of a file while the transaction runs.
LEMMA InBlockFacts ==
  ASSUME IInv, NEW m \in Mutations, m = cur, pc \in InBlock, NEW f \in Files
  PROVE  /\ m \notin committed /\ Saved(m, f) /\ Accounted(m, f)
         /\ files[f] \in Content /\ before[m][f] \in Content
         /\ rollbackDir[m][f] \in Text \cup {None}
         /\ Nowhere(m, f) <=> ~Wrote(m, f) /\ ~Holds(rollbackDir[m][f], m)
         /\ Wrote(m, f) /\ before[m][f] # Absent /\ <<m, f>> \notin lost =>
              rollbackDir[m][f] = before[m][f] /\ f \in tx.backups
         /\ pc \in {"apply", "write"} => Applied(m, f)
<1>1. FilesOK
  BY TypeParts DEF IInv
<1>2. /\ m \notin committed /\ Saved(m, f) /\ Accounted(m, f)
      /\ pc \in {"apply", "write"} => Applied(m, f)
  BY DEF IInv, Running, Traces, InTransaction
<1>3. /\ files[f] \in Content /\ before[m][f] \in Content
      /\ rollbackDir[m][f] \in Text \cup {None}
  BY <1>1 DEF FilesOK
<1>4. Nowhere(m, f) <=> ~Wrote(m, f) /\ ~Holds(rollbackDir[m][f], m)
  BY DEF IInv, Running, Nowhere
<1>5. before[m][f] # None
  BY <1>3, ExecutionAssumption DEF Content
<1>6. Wrote(m, f) /\ before[m][f] # Absent /\ <<m, f>> \notin lost =>
        rollbackDir[m][f] = before[m][f] /\ f \in tx.backups
  BY <1>2, <1>4, <1>5 DEF Accounted, Kept, Saved
<1>. QED
  BY <1>2, <1>3, <1>4, <1>6

\* The same mutation goes on after a step that does not leave execute().
Onward(m) == /\ cur' = m
             /\ InTransaction(m)'
             /\ \A f \in Files : m \in committed' \/ Accounted(m, f)'

\* The plan is journalled and the transaction opened (MutationTransaction.__enter__).
LEMMA OpenStep ==
  ASSUME IInv, Next, NEW m \in Mutations, m = cur, OpenTransaction
  PROVE  Onward(m)
<1>1. TypeOK /\ Control /\ FilesOK
  BY TypeParts DEF IInv
<1>2. /\ pc = "plan" /\ pc' = "apply" /\ cur' = m /\ UNCHANGED <<files, rollbackDir, committed, lost>>
      /\ before'[m] = files /\ tx'.backups = {} /\ Journalled("planned")
  BY <1>1 DEF OpenTransaction, FilesOK, NoTx
<1>3. /\ m \notin committed /\ "rolled_back" \notin Range(journal[m])
      /\ rollbackDir[m] = NoBackups
      /\ \A f \in Files : Nowhere(m, f) /\ <<m, f>> \notin lost
  BY <1>2 DEF IInv, Running, Untouched, Ahead
<1>4. "rolled_back" \notin Range(journal'[m])
  BY <1>1, <1>2, <1>3, Entered DEF Entries
<1>5. ASSUME NEW f \in Files
      PROVE  Nowhere(m, f)' /\ Saved(m, f)' /\ Applied(m, f)'
  <2>1. Nowhere(m, f)'
    BY <1>2, <1>3 DEF Nowhere, Wrote
  <2>2. rollbackDir'[m][f] = None
    BY <1>2, <1>3 DEF NoBackups
  <2>3. ~Holds(before'[m][f], m)
    BY <1>2, <1>3 DEF Nowhere, Wrote
  <2>. QED
    BY <1>2, <1>3, <2>1, <2>2, <2>3 DEF Saved, Applied
<1>. QED
  BY <1>2, <1>3, <1>4, <1>5 DEF Onward, InTransaction, Accounted

\* A file is backed up once, before the first write to it (apply, first half).
LEMMA BackupStep ==
  ASSUME IInv, Next, NEW m \in Mutations, m = cur, Backup
  PROVE  Onward(m)
<1>. DEFINE g == Head(tx.todo)
<1>1. TypeOK /\ Control /\ FilesOK /\ TxOK /\ pc = "apply" /\ pc \in InBlock
  BY TypeParts DEF IInv, Backup, InBlock
<1>2. /\ pc' = "write" /\ cur' = m /\ UNCHANGED <<files, before, committed, journal, lost>>
      /\ g \in Files /\ tx'.todo = tx.todo
      /\ tx.backups \subseteq tx'.backups /\ tx.created \subseteq tx'.created
      /\ IF files[g] = Absent
         THEN /\ g \in tx'.created /\ tx'.backups = tx.backups /\ UNCHANGED rollbackDir
         ELSE /\ tx'.backups = tx.backups \cup {g} /\ tx'.created = tx.created
              /\ rollbackDir' = IF g \in tx.backups THEN rollbackDir
                                ELSE [rollbackDir EXCEPT ![m][g] = files[g]]
  BY <1>1 DEF Backup, TxOK, history
<1>3. m \notin committed /\ "rolled_back" \notin Range(journal[m])
  BY <1>1 DEF IInv, Running, InTransaction
<1>. HIDE DEF g
<1>4. ASSUME NEW f \in Files
      PROVE  /\ Accounted(m, f)'
             /\ Saved(m, f)' /\ Applied(m, f)'
             /\ f = g => Kept(m, f)' /\ (before'[m][f] = Absent => f \in tx'.created)
  <2>1. /\ Saved(m, f) /\ (Nowhere(m, f) \/ Kept(m, f)) /\ Applied(m, f)
        /\ files[f] \in Content /\ before[m][f] \in Content
        /\ Nowhere(m, f) <=> ~Wrote(m, f) /\ ~Holds(rollbackDir[m][f], m)
        /\ Wrote(m, f) /\ before[m][f] # Absent =>
             rollbackDir[m][f] = before[m][f] /\ f \in tx.backups
        /\ <<m, f>> \notin lost
    BY <1>1, InBlockFacts DEF Saved, Accounted
  <2>2. Nowhere(m, f) => Nowhere(m, f)'
    BY <1>1, Spread DEF WriteTarget, Restore
  <2>3. ~Holds(before'[m][f], m) /\ (Wrote(m, f)' <=> Wrote(m, f))
    BY <1>2, <2>1 DEF Saved, Wrote
  <2>4. CASE f # g \/ files[g] = Absent \/ g \in tx.backups
    <3>1. rollbackDir'[m][f] = rollbackDir[m][f]
      BY <1>1, <1>2, <2>4 DEF FilesOK
    <3>2. Kept(m, f)' <=> Kept(m, f)
      BY <1>2, <3>1 DEF Kept
    <3>3. f \in tx'.backups <=> f \in tx.backups
      BY <1>2, <2>4
    <3>4. Saved(m, f)'
      BY <1>2, <2>1, <2>2, <2>3, <3>1, <3>2, <3>3 DEF Saved
    <3>5. Applied(m, f)'
      BY <1>2, <2>1, <2>3, <3>1, <3>3 DEF Applied
    <3>6. f = g => Kept(m, f)' /\ (before'[m][f] = Absent => f \in tx'.created)
      <4>1. CASE f = g /\ files[g] = Absent
        <5>1. ~Wrote(m, f)
          BY <4>1 DEF Wrote, Holds
        <5>2. before[m][f] = Absent
          BY <2>1, <4>1, <5>1 DEF Applied
        <5>. QED
          BY <1>2, <4>1, <5>2 DEF Kept
      <4>2. CASE f = g /\ files[g] # Absent
        <5>1. rollbackDir[m][f] # None
          BY <2>1, <2>4, <4>2 DEF Applied
        <5>2. before[m][f] = Absent => Wrote(m, f)
          BY <2>1, <4>2 DEF Applied
        <5>3. before[m][f] = Absent => f \in tx.created
          BY <2>1, <5>2 DEF Saved
        <5>. QED
          BY <1>2, <2>1, <3>2, <5>1, <5>3 DEF Saved
      <4>. QED
        BY <4>1, <4>2
    <3>. QED
      BY <2>1, <2>2, <3>2, <3>4, <3>5, <3>6 DEF Accounted
  <2>5. CASE f = g /\ files[g] # Absent /\ g \notin tx.backups
    <3>1. rollbackDir'[m][f] = files[f] /\ files[f] # None
      BY <1>1, <1>2, <2>1, <2>5, ExecutionAssumption DEF FilesOK, Content
    <3>2. Kept(m, f)'
      BY <1>2, <2>1, <2>5, <3>1 DEF Kept, Applied
    <3>3. before[m][f] = Absent => f \in tx.created
      <4>1. before[m][f] = Absent => Wrote(m, f)
        BY <2>1, <2>5 DEF Applied
      <4>. QED
        BY <2>1, <4>1 DEF Saved
    <3>4. Saved(m, f)' /\ Applied(m, f)'
      BY <1>2, <2>1, <2>3, <2>5, <3>1, <3>2, <3>3 DEF Saved, Applied
    <3>. QED
      BY <1>2, <3>2, <3>3, <3>4 DEF Accounted
  <2>. QED
    BY <2>4, <2>5
<1>5. Head(tx'.todo) = g
  BY <1>2 DEF g
<1>. QED
  BY <1>2, <1>3, <1>4, <1>5 DEF Onward, InTransaction

\* Only a file that is backed up, or that is to be unlinked, is written (apply_target).
LEMMA WriteStep ==
  ASSUME IInv, Next, NEW m \in Mutations, m = cur, WriteTarget
  PROVE  Onward(m)
<1>. DEFINE g == Head(tx.todo)
<1>1. TypeOK /\ Control /\ FilesOK /\ TxOK /\ pc = "write" /\ pc \in InBlock
  BY TypeParts DEF IInv, WriteTarget, InBlock
<1>2. /\ pc' = "apply" /\ cur' = m /\ UNCHANGED <<rollbackDir, before, committed, journal, lost>>
      /\ g \in Files /\ tx'.backups = tx.backups /\ tx'.created = tx.created
      /\ files' = [files EXCEPT ![g] = Written(files[g], m)]
  BY <1>1 DEF WriteTarget, TxOK, history, Control
<1>3. /\ m \notin committed /\ "rolled_back" \notin Range(journal[m])
      /\ Kept(m, g) /\ (before[m][g] = Absent => g \in tx.created)
  BY <1>1, <1>2 DEF IInv, Running, InTransaction
<1>. HIDE DEF g
<1>4. ASSUME NEW f \in Files
      PROVE  (Nowhere(m, f)' \/ Kept(m, f)') /\ Saved(m, f)' /\ Applied(m, f)'
  <2>1. /\ Saved(m, f) /\ (Nowhere(m, f) \/ Kept(m, f)) /\ Applied(m, f)
        /\ files[f] \in Content /\ <<m, f>> \notin lost
    BY <1>1, InBlockFacts DEF Saved, Accounted
  <2>2. Kept(m, f)' <=> Kept(m, f)
    BY <1>2 DEF Kept
  <2>3. CASE f # g
    <3>1. files'[f] = files[f]
      BY <1>1, <1>2, <2>3 DEF FilesOK
    <3>2. (Nowhere(m, f)' <=> Nowhere(m, f)) /\ (Wrote(m, f)' <=> Wrote(m, f))
      BY <1>2, <3>1 DEF Nowhere, Wrote
    <3>. QED
      BY <1>2, <2>1, <2>2, <3>1, <3>2 DEF Saved, Applied
  <2>4. CASE f = g
    <3>1. files'[f] = Written(files[f], m)
      BY <1>1, <1>2, <2>4 DEF FilesOK
    <3>2. Wrote(m, f)'
      BY <2>1, <3>1, WrittenHolds DEF Wrote
    <3>. QED
      BY <1>2, <1>3, <2>1, <2>2, <2>4, <3>2 DEF Saved, Applied
  <2>. QED
    BY <2>3, <2>4
<1>. QED
  BY <1>2, <1>3, <1>4 DEF Onward, InTransaction, Accounted

\* Files are unlinked, or not; then every file that keeps output without having been
\* created has a backup that was not yet restored, or its backup was lost (rollback,
\* first half).
LEMMA UnlinkStep ==
  ASSUME IInv, Next, NEW m \in Mutations, m = cur, Unlink
  PROVE  Onward(m)
<1>1. TypeOK /\ Control /\ FilesOK /\ TxOK /\ pc = "unlink" /\ pc \in InBlock
  BY TypeParts DEF IInv, Unlink, InBlock
<1>2. /\ pc' \in {"unlink", "restore"} /\ cur' = m
      /\ UNCHANGED <<rollbackDir, before, committed, journal, lost>>
      /\ tx'.backups = tx.backups /\ tx'.created = tx.created /\ tx'.restored = tx.restored
      /\ pc' = "restore" => UNCHANGED files
  BY <1>1 DEF Unlink, TxOK, history
<1>3. m \notin committed /\ tx.restored = {}
  BY <1>1 DEF IInv, Running, InTransaction
<1>4. ASSUME NEW f \in Files
      PROVE  /\ Accounted(m, f)' /\ Saved(m, f)'
             /\ pc' = "restore" =>
                   Undone(m, f)' \/ (f \notin tx'.restored /\ rollbackDir'[m][f] # None)
  <2>1. /\ Saved(m, f) /\ Accounted(m, f) /\ before[m][f] \in Content
        /\ Wrote(m, f) /\ before[m][f] # Absent /\ <<m, f>> \notin lost =>
             rollbackDir[m][f] = before[m][f]
    BY <1>1, InBlockFacts
  <2>2. Nowhere(m, f) => Nowhere(m, f)'
    BY <1>1, Spread DEF WriteTarget, Restore
  <2>3. Kept(m, f)' <=> Kept(m, f)
    BY <1>2 DEF Kept
  <2>4. Saved(m, f)'
    BY <1>2, <2>1, <2>2, <2>3 DEF Saved
  <2>5. before[m][f] # None
    BY <2>1, ExecutionAssumption DEF Content
  <2>6. pc' = "restore" => Undone(m, f)' \/ (f \notin tx'.restored /\ rollbackDir'[m][f] # None)
    BY <1>2, <1>3, <2>1, <2>5 DEF Undone, Wrote
  <2>7. Accounted(m, f)'
    BY <1>2, <2>1, <2>2, <2>3 DEF Accounted
  <2>. QED
    BY <2>4, <2>6, <2>7
<1>. QED
  BY <1>2, <1>3, <1>4 DEF Onward, InTransaction

\* A backup that is copied back takes the mutation's output out of the file; one that
\* is not stays, until all go and it is lost (rollback, second half).
LEMMA RestoreStep ==
  ASSUME IInv, Next, NEW m \in Mutations, m = cur, Restore
  PROVE  Onward(m)
<1>1. TypeOK /\ Control /\ FilesOK /\ TxOK /\ pc = "restore" /\ pc \in InBlock
  BY TypeParts DEF IInv, Restore, InBlock
<1>2. /\ cur' = m /\ UNCHANGED <<before, committed, journal>>
      /\ tx'.backups = tx.backups /\ tx'.created = tx.created
  BY <1>1 DEF Restore, CopyBack, TxOK
<1>3. /\ m \notin committed /\ tx.undo \cap tx.restored = {}
      /\ \A f \in Files : Undone(m, f) \/ (f \notin tx.restored /\ rollbackDir[m][f] # None)
  BY <1>1 DEF IInv, Running, InTransaction
<1>4. CASE DropBackups /\ UNCHANGED <<tx, files>>
  <2>1. /\ pc' = "certificate" /\ UNCHANGED <<tx, files>>
        /\ rollbackDir' = [rollbackDir EXCEPT ![m] = NoBackups]
        /\ \A f : <<m, f>> \in lost' <=> \/ <<m, f>> \in lost
                                         \/ f \in tx.backups \ tx.restored /\ rollbackDir[m][f] # None
    BY <1>4 DEF DropBackups
  <2>2. ASSUME NEW f \in Files
        PROVE  Accounted(m, f)' /\ Saved(m, f)' /\ Undone(m, f)' /\ rollbackDir'[m][f] = None
    <3>1. rollbackDir'[m][f] = None
      BY <1>1, <2>1 DEF FilesOK, NoBackups
    <3>2. Saved(m, f) /\ ~Holds(None, m)
      BY <1>1, InBlockFacts DEF Holds
    <3>3. (Wrote(m, f)' <=> Wrote(m, f)) /\ before'[m][f] = before[m][f]
      BY <1>2, <2>1 DEF Wrote
    <3>4. Undone(m, f)'
      BY <1>3, <2>1, <3>2, <3>3 DEF Undone, Saved
    <3>5. \A k \in Mutations : k # m => ~Holds(rollbackDir'[k][f], m)
      BY <1>1, OthersStay DEF IInv, Running
    <3>6. ~Nowhere(m, f)' => Wrote(m, f)'
      BY <3>1, <3>2, <3>5 DEF Nowhere
    <3>7. Accounted(m, f)'
      BY <3>4, <3>6 DEF Accounted, Undone, Kept
    <3>8. ~Nowhere(m, f)' => ~Nowhere(m, f)
      BY <3>3, <3>6 DEF Nowhere
    <3>9. Saved(m, f)'
      BY <1>2, <2>1, <3>1, <3>2, <3>3, <3>8 DEF Saved
    <3>. QED
      BY <3>1, <3>4, <3>7, <3>9
  <2>. QED
    BY <1>2, <1>3, <2>1, <2>2 DEF Onward, InTransaction
<1>5. ASSUME NEW g \in tx.undo, NEW c,
             /\ pc' = pc /\ UNCHANGED <<rollbackDir, lost>>
             /\ tx'.undo = tx.undo \ {g} /\ files' = [files EXCEPT ![g] = c]
             /\ \/ c = files[g] /\ tx'.restored = tx.restored
                \/ rollbackDir[m][g] # None /\ tx'.restored = tx.restored
                \/ rollbackDir[m][g] # None /\ c = rollbackDir[m][g] /\ tx'.restored = tx.restored \cup {g}
      PROVE  Onward(m)
  <2>1. g \in Files /\ \A f \in Files : files'[f] = IF f = g THEN c ELSE files[f]
    BY <1>1, <1>5 DEF FilesOK, TxOK
  <2>2. ASSUME NEW f \in Files
        PROVE  /\ Accounted(m, f)' /\ Saved(m, f)'
               /\ Undone(m, f)' \/ (f \notin tx'.restored /\ rollbackDir'[m][f] # None)
    <3>1. Saved(m, f) /\ Accounted(m, f)
      BY <1>1, InBlockFacts
    <3>2. (Kept(m, f)' <=> Kept(m, f)) /\ before'[m][f] = before[m][f]
      BY <1>2, <1>5 DEF Kept
    <3>3. CASE files'[f] = files[f] /\ (f \in tx'.restored <=> f \in tx.restored)
      <4>1. (Nowhere(m, f)' <=> Nowhere(m, f)) /\ (Wrote(m, f)' <=> Wrote(m, f))
        BY <1>5, <3>3 DEF Nowhere, Wrote
      <4>2. Saved(m, f)' /\ Accounted(m, f)'
        BY <1>1, <1>2, <1>5, <3>1, <3>2, <3>3, <4>1 DEF Saved, Accounted
      <4>. QED
        BY <1>3, <1>5, <3>2, <3>3, <4>1, <4>2 DEF Undone
    <3>4. CASE f = g /\ rollbackDir[m][f] # None
      <4>1. Kept(m, f) /\ f \in tx.backups /\ <<m, f>> \notin lost /\ f \notin tx.restored
            /\ (before[m][f] = Absent => f \in tx.created)
        BY <1>3, <1>5, <3>1, <3>4 DEF Saved
      <4>2. Saved(m, f)' /\ Accounted(m, f)'
        BY <1>1, <1>2, <1>5, <3>1, <3>2, <3>4, <4>1 DEF Saved, Accounted
      <4>3. CASE tx'.restored = tx.restored
        BY <1>5, <3>4, <4>1, <4>2, <4>3
      <4>4. CASE files'[f] = rollbackDir[m][f]
        <5>1. before[m][f] \in {Absent, rollbackDir[m][f]} /\ ~Holds(before[m][f], m)
          BY <3>1, <4>1 DEF Saved, Kept
        <5>2. Undone(m, f)'
          BY <3>2, <4>4, <5>1 DEF Undone, Wrote
        <5>. QED
          BY <4>2, <5>2
      <4>. QED
        BY <1>5, <2>1, <3>4, <4>3, <4>4
    <3>. QED
      BY <1>5, <2>1, <3>3, <3>4
  <2>3. tx'.undo \cap tx'.restored = {}
    BY <1>3, <1>5
  <2>. QED
    BY <1>1, <1>2, <1>3, <1>5, <2>2, <2>3 DEF Onward, InTransaction
<1>6. ASSUME NEW g \in tx.undo, CopyBack(g), rollbackDir[m][g] # None,
             pc' = pc, UNCHANGED <<rollbackDir, lost>>
      PROVE  Onward(m)
  <2>1. CASE tx' = [tx EXCEPT !.undo = @ \ {g}, !.restored = @ \cup {g}]
             /\ files' = [files EXCEPT ![g] = rollbackDir[m][g]]
    <3>1. tx'.undo = tx.undo \ {g} /\ tx'.restored = tx.restored \cup {g}
      BY <1>1, <2>1 DEF TxOK
    <3>. QED
      BY <1>5, <1>6, <2>1, <3>1
  <2>2. CASE tx' = [tx EXCEPT !.undo = @ \ {g}] /\ \E c : files' = [files EXCEPT ![g] = c]
    <3>1. tx'.undo = tx.undo \ {g} /\ tx'.restored = tx.restored
      BY <1>1, <2>2 DEF TxOK
    <3>. QED
      BY <1>5, <1>6, <2>2, <3>1
  <2>. QED
    BY <1>6, <2>1, <2>2 DEF CopyBack
<1>7. ASSUME NEW g \in tx.undo, tx' = [tx EXCEPT !.undo = @ \ {g}],
             pc' = pc, UNCHANGED <<files, rollbackDir, lost>>
      PROVE  Onward(m)
  <2>1. tx'.undo = tx.undo \ {g} /\ tx'.restored = tx.restored
    BY <1>1, <1>7 DEF TxOK
  <2>2. files' = [files EXCEPT ![g] = files[g]]
    BY <1>1, <1>7 DEF FilesOK, TxOK
  <2>. QED
    BY <1>5, <1>7, <2>1, <2>2
<1>. QED
  BY <1>4, <1>6, <1>7 DEF Restore

\* A certificate whose checks hold is true, one whose checks do not hold is no less
\* true: the files that keep output are files the mutation created or whose backup was
\* lost, and the checks find both (rollback).
LEMMA CertificateStep ==
  ASSUME IInv, Next, NEW m \in Mutations, m = cur, IssueCertificate
  PROVE  \A f \in Files : /\ Admitted(m, f)' /\ rollbackDir'[m][f] = None
                          /\ "rolled_back" \in Range(journal'[m]) => Nowhere(m, f)'
<1>1. TypeOK /\ Control /\ pc = "certificate" /\ pc \in InBlock
  BY DEF IInv, IssueCertificate, InBlock
<1>2. /\ UNCHANGED <<files, rollbackDir, before, lost>>
      /\ (\A f \in Files : rollbackDir[m][f] = None)
      /\ Journalled(IF Complete THEN "rolled_back" ELSE "rolled_back_partly")
  BY <1>1 DEF IssueCertificate, history, IInv, Running, InTransaction
<1>3. ASSUME NEW f \in Files
      PROVE  \/ Nowhere(m, f)
             \/ before[m][f] = Absent /\ f \in tx.created /\ files[f] # Absent
             \/ <<m, f>> \in lost /\ f \in tx.backups \ tx.restored
  <2>1. /\ Saved(m, f) /\ Undone(m, f) /\ rollbackDir[m][f] = None
        /\ Nowhere(m, f) <=> ~Wrote(m, f) /\ ~Holds(rollbackDir[m][f], m)
    BY <1>1, InBlockFacts DEF IInv, Running, InTransaction
  <2>. QED
    BY <2>1 DEF Saved, Undone, Wrote, Holds
<1>4. Complete => \A f \in Files : Nowhere(m, f)
  BY <1>3 DEF Complete
<1>5. \A x : x \in Range(journal'[m]) <=>
              x \in Range(journal[m]) \/ x = IF Complete THEN "rolled_back" ELSE "rolled_back_partly"
  <2>1. CASE Complete
    BY <1>1, <1>2, <2>1, Entered DEF Entries
  <2>2. CASE ~Complete
    BY <1>1, <1>2, <2>2, Entered DEF Entries
  <2>. QED
    BY <2>1, <2>2
<1>6. \A f \in Files : "rolled_back" \in Range(journal[m]) => Nowhere(m, f)
  BY DEF IInv, Traces
<1>7. \A f \in Files : Nowhere(m, f)' <=> Nowhere(m, f)
  BY <1>2 DEF Nowhere, Wrote
<1>. QED
  BY <1>2, <1>3, <1>4, <1>5, <1>6, <1>7 DEF Admitted

\* What is quiet changes nothing about where output is; admissions last.
LEMMA QuietFiles ==
  ASSUME TypeOK, Control, Next, UNCHANGED <<files, rollbackDir, before, committed, lost>>,
         NEW m \in Mutations, NEW f \in Files
  PROVE  /\ Nowhere(m, f)' <=> Nowhere(m, f)
         /\ Kept(m, f)' <=> Kept(m, f)
         /\ Accounted(m, f)' <=> Accounted(m, f)
         /\ Admitted(m, f) => Admitted(m, f)'
<1>1. Nowhere(m, f)' <=> Nowhere(m, f)
  BY DEF Nowhere, Wrote
<1>2. Range(journal[m]) \subseteq Range(journal'[m])
  BY LedgersGrow
<1>. QED
  BY <1>1, <1>2 DEF Kept, Accounted, Admitted

\* A quiet step from place to place.
LEMMA QuietStep ==
  ASSUME IInv, Next, NEW m \in Mutations, m = cur, cur' = m,
         UNCHANGED <<files, rollbackDir, before, committed, lost>>,
         \/ pc' \notin InBlock
         \/ /\ pc \in InBlock /\ pc' \in {"tests", "unlink"}
            /\ pc' = "tests" => pc = "apply" /\ UNCHANGED journal
            /\ pc' = "unlink" => tx'.restored = {}
            /\ tx'.backups = tx.backups /\ tx'.created = tx.created
  PROVE  Onward(m)
<1>1. TypeOK /\ Control
  BY DEF IInv
<1>2. \A f \in Files : m \in committed' \/ Accounted(m, f)'
  BY <1>1, QuietFiles DEF IInv, Traces
<1>3. CASE pc' \notin InBlock
  BY <1>2, <1>3 DEF Onward, InTransaction, InBlock
<1>4. CASE pc \in InBlock /\ pc' \in {"tests", "unlink"}
  <2>1. /\ tx'.backups = tx.backups /\ tx'.created = tx.created
        /\ pc' = "tests" => pc = "apply" /\ UNCHANGED journal
        /\ pc' = "unlink" => tx'.restored = {}
    BY <1>4 DEF InBlock
  <2>2. m \notin committed /\ (pc = "apply" => "rolled_back" \notin Range(journal[m]))
    BY <1>4 DEF IInv, Running, InTransaction
  <2>3. ASSUME NEW f \in Files PROVE Saved(m, f)'
    <3>1. Saved(m, f) /\ (Kept(m, f)' <=> Kept(m, f)) /\ (Nowhere(m, f)' <=> Nowhere(m, f))
      BY <1>1, <1>4, InBlockFacts, QuietFiles
    <3>. QED
      BY <1>4, <2>1, <3>1 DEF Saved
  <2>. QED
    BY <1>2, <1>4, <2>1, <2>2, <2>3 DEF Onward, InTransaction
<1>. QED
  BY <1>3, <1>4

\* What the steps do about which nothing needs to be said of the files.
Quietly == UNCHANGED <<files, rollbackDir, before, committed, lost>>

\* A mutation whose transaction is open keeps its pre-images in every step
\* (MutationExecutor.execute).
LEMMA OnwardStep ==
  ASSUME IInv, Next, NEW m \in Mutations, m = cur, cur' # None
  PROVE  Onward(m)
<1>1. TypeOK /\ Control /\ LocalsOK
  BY TypeParts DEF IInv
<1>2. ~(\E k \in Mutations : Begin(k)) /\ (\A s \in {"rejected", "blocked", "raised", "crashed"} : ~Leave(s))
      /\ ~AfterCycle
  BY <1>1, ExecutionAssumption DEF Begin, Leave, AfterCycle, LocalsOK
<1>3. CASE OpenTransaction \/ Backup \/ WriteTarget \/ Unlink \/ Restore
  BY <1>3, OpenStep, BackupStep, WriteStep, UnlinkStep, RestoreStep
<1>4. CASE TestsPass
  <2>1. pc' = "evidence" /\ cur' = m /\ m \in committed'
    BY <1>4 DEF TestsPass
  <2>. QED
    BY <2>1 DEF Onward, InTransaction, InBlock
<1>5. CASE ~OpenTransaction /\ ~Backup /\ ~WriteTarget /\ ~Unlink /\ ~Restore /\ ~TestsPass
  <2>1. Quietly
    BY <1>5, Quiet DEF Quietly
  <2>2. CASE Lifecycle \/ Governance
    <3>1. cur' = m /\ pc' \notin InBlock
      <4>1. CASE RecordTransition
        BY <4>1 DEF RecordTransition, InBlock
      <4>2. CASE PersistTransition
        <5>1. pc' = AfterTransition[life] /\ cur' = m /\ life \in LifeStates /\ life # "proposed"
          BY <1>1, <4>2 DEF PersistTransition, Goto, Control, LocalsOK
        <5>. QED
          BY <5>1 DEF AfterTransition, LifeStates, InBlock
      <4>3. CASE Governance \/ RefuseTransition
        BY <1>2, <4>3 DEF Governance, Blocked, GovernorAccepts, GovernorRejects, RefuseTransition,
           Goto, InBlock
      <4>. QED
        BY <2>2, <4>1, <4>2, <4>3 DEF Lifecycle
    <3>. QED
      BY <2>1, <3>1, QuietStep DEF Quietly
  <2>3. CASE TargetRefused \/ VerifyPasses \/ VerifyFails \/ TestsFail \/ BlockRaises
             \/ IssueCertificate \/ CertificateRaises
    <3>1. \/ cur' = m /\ pc' \notin InBlock
          \/ /\ cur' = m /\ pc \in InBlock /\ pc' \in {"tests", "unlink"}
             /\ pc' = "tests" => pc = "apply" /\ UNCHANGED journal
             /\ pc' = "unlink" => tx'.restored = {}
             /\ tx'.backups = tx.backups /\ tx'.created = tx.created
      <4>1. CASE VerifyPasses
        BY <4>1 DEF VerifyPasses, Goto, disk, InBlock
      <4>2. ASSUME NEW why, EnterRollback(why)
            PROVE  /\ cur' = m /\ pc' = "unlink" /\ tx'.restored = {}
                   /\ tx'.backups = tx.backups /\ tx'.created = tx.created
        <5>1. TxOK
          BY <1>1, TypeParts
        <5>. QED
          BY <4>2, <5>1 DEF EnterRollback, TxOK
      <4>3. CASE TargetRefused \/ VerifyFails \/ TestsFail \/ BlockRaises
        BY <4>2, <4>3 DEF TargetRefused, VerifyFails, TestsFail, BlockRaises, InBlock
      <4>4. CASE IssueCertificate \/ CertificateRaises
        <5>1. pc = "certificate"
          BY <4>4 DEF IssueCertificate, CertificateRaises
        <5>2. \/ \E why \in {"exit", "raised"} : EnterRollback(why)
              \/ Goto("evidence") \/ Goto("failed_entry")
          BY <1>2, <4>4 DEF IssueCertificate, CertificateRaises
        <5>3. Goto("evidence") \/ Goto("failed_entry") => cur' = m /\ pc' \notin InBlock
          BY DEF Goto, InBlock
        <5>. QED
          BY <4>2, <5>1, <5>2, <5>3 DEF InBlock
      <4>. QED
        BY <2>3, <4>1, <4>3, <4>4
    <3>. QED
      BY <2>1, <3>1, QuietStep, Zenon DEF Quietly
  <2>4. CASE JournalRefusal \/ Gates \/ Finishing
    <3>1. cur' = m /\ pc' \notin InBlock
      BY <1>2, <2>4 DEF JournalRefusal, Gates, RecordEvidence, ChargeEntropy, EntropyExceeded,
         RiskExceeded, PolicyRejects, PolicyActivates, JournalFailedTests, Demote, Revoke, Finishing,
         WriteManifest, ManifestFails, JournalPromotion, ActivateCertificate, Goto, InBlock
    <3>. QED
      BY <2>1, <3>1, QuietStep DEF Quietly
  <2>. QED
    BY <1>2, <1>5, <2>2, <2>3, <2>4
       DEF Next, Execute, Applying, RollingBack, ExecuteRaises, Crash
<1>. QED
  BY <1>3, <1>4, <1>5

\* Before its transaction a mutation has touched nothing, after its rollback it has
\* left nothing that is not admitted (execute).
LEMMA AroundStep ==
  ASSUME IInv, Next, NEW m \in Mutations, m = cur, cur' = m
  PROVE  Untouched(m)' /\ (Failing' => \A f \in Files : Admitted(m, f)')
<1>1. TypeOK /\ Control /\ LocalsOK
  BY TypeParts DEF IInv
<1>2. ~(\E k \in Mutations : Begin(k)) /\ (\A s \in {"rejected", "blocked", "raised", "crashed"} : ~Leave(s))
      /\ ~AfterCycle /\ pc # "idle"
  BY <1>1, ExecutionAssumption DEF Begin, Leave, AfterCycle, LocalsOK
<1>3. ASSUME Quietly, Ahead, UNCHANGED journal \/ (\E e \in LifeStates : Journalled(e))
      PROVE  Untouched(m)'
  <2>1. Untouched(m)
    BY DEF IInv, Running
  <2>2. "rolled_back" \notin Range(journal'[m])
    <3>1. ASSUME NEW e \in LifeStates, Journalled(e)
          PROVE  "rolled_back" \notin Range(journal'[m])
      <4>1. journal'[m] = Append(journal[m], e) /\ journal[m] \in Seq(Entries \cup LifeStates)
        BY <1>1, <3>1 DEF Journalled, TypeOK
      <4>2. e \in Entries \cup LifeStates /\ e # "rolled_back"
        BY DEF LifeStates
      <4>. QED
        BY <1>3, <2>1, <4>1, <4>2, RangeOfAppend DEF Untouched
    <3>. QED
      BY <1>3, <2>1, <3>1 DEF Untouched
  <2>. QED
    BY <1>1, <1>3, <2>1, <2>2, QuietFiles DEF Untouched, Quietly
<1>4. ASSUME Quietly, Failing PROVE \A f \in Files : Admitted(m, f)'
  BY <1>1, <1>4, QuietFiles DEF IInv, Running, Quietly
<1>5. ~Ahead' => Untouched(m)'
  BY DEF Untouched
<1>6. CASE RecordTransition
  <2>1. Successor[life] \in LifeStates /\ (life = "executing" => Successor[life] = "completed")
        /\ (life # "executing" => Successor[life] # "completed")
    BY <1>1, <1>6 DEF RecordTransition, Control, Successor, LifeStates, LocalsOK
  <2>2. Quietly /\ Journalled(Successor[life])
    BY <1>6 DEF RecordTransition, Quietly, history
  <2>3. pc = "transition" /\ pc' = "persist" /\ life' = Successor[life]
    BY <1>6 DEF RecordTransition
  <2>4. ~Failing' /\ (Ahead' => Ahead)
    BY <2>1, <2>3 DEF Failing, Ahead
  <2>. QED
    BY <1>3, <1>5, <2>1, <2>2, <2>4
<1>7. CASE PersistTransition
  <2>1. pc = "persist" /\ pc' = AfterTransition[life] /\ life' = life /\ life \in LifeStates /\ life # "proposed"
    BY <1>1, <1>7 DEF PersistTransition, Goto, Control, LocalsOK
  <2>2. Quietly /\ UNCHANGED journal
    BY <1>7 DEF PersistTransition, Quietly, history
  <2>3. ~Failing' /\ (Ahead' => Ahead)
    BY <2>1 DEF Failing, Ahead, AfterTransition, LifeStates
  <2>. QED
    BY <1>3, <1>5, <2>2, <2>3
<1>8. CASE GovernorAccepts
  <2>1. Quietly /\ UNCHANGED journal /\ Ahead /\ pc' = "transition"
    BY <1>8 DEF GovernorAccepts, Quietly, disk, history, Ahead, Goto
  <2>. QED
    BY <1>3, <2>1 DEF Failing
<1>9. CASE Applying \/ Unlink \/ Restore
  <2>1. pc' \in InBlock \/ (pc' = "evidence" /\ testsOk' = TRUE)
    BY <1>9 DEF Applying, OpenTransaction, Backup, WriteTarget, TargetRefused, VerifyPasses,
       VerifyFails, TestsPass, TestsFail, BlockRaises, EnterRollback, Unlink, Restore, DropBackups, Goto, InBlock
  <2>. QED
    BY <1>5, <2>1 DEF Failing, Ahead, InBlock
<1>10. CASE IssueCertificate \/ CertificateRaises
  <2>1. pc' \in {"unlink", "evidence", "failed_entry"}
    BY <1>2, <1>10 DEF IssueCertificate, CertificateRaises, EnterRollback, Goto
  <2>2. IssueCertificate => \A f \in Files : Admitted(m, f)'
    BY CertificateStep
  <2>3. CertificateRaises => pc' = "unlink"
    BY <1>2 DEF CertificateRaises, EnterRollback
  <2>. QED
    BY <1>5, <1>10, <2>1, <2>2, <2>3 DEF Failing, Ahead
<1>11. CASE JournalRefusal \/ Gates
  <2>1. Quietly
    BY <1>11, Quiet DEF Quietly, JournalRefusal, Gates, RecordEvidence, ChargeEntropy, EntropyExceeded,
       RiskExceeded, PolicyRejects, PolicyActivates, JournalFailedTests, Demote, Revoke, history
  <2>2. ~Ahead' /\ (Failing' => Failing)
    <3>1. CASE JournalRefusal \/ RecordEvidence \/ ChargeEntropy
      BY <3>1 DEF JournalRefusal, RecordEvidence, ChargeEntropy, Goto, Failing, Ahead
    <3>2. CASE EntropyExceeded \/ RiskExceeded \/ PolicyRejects
      BY <3>2 DEF EntropyExceeded, RiskExceeded, PolicyRejects, Goto, Failing, Ahead
    <3>3. CASE PolicyActivates
      BY <1>1, <3>3 DEF PolicyActivates, Goto, Failing, Ahead, Control
    <3>4. CASE JournalFailedTests \/ Demote \/ Revoke
      BY <3>4 DEF JournalFailedTests, Demote, Revoke, Goto, Failing, Ahead
    <3>. QED
      BY <1>11, <3>1, <3>2, <3>3, <3>4 DEF Gates
  <2>. QED
    BY <1>4, <1>5, <2>1, <2>2
<1>12. CASE Finishing
  <2>1. ~Ahead' /\ ~Failing'
    BY <1>2, <1>12 DEF Finishing, WriteManifest, ManifestFails, JournalPromotion,
       ActivateCertificate, Goto, Failing, Ahead
  <2>. QED
    BY <1>5, <2>1
<1>. QED
  BY <1>2, <1>6, <1>7, <1>8, <1>9, <1>10, <1>11, <1>12
     DEF Next, Execute, Lifecycle, Governance, RollingBack, RefuseTransition, Blocked,
         GovernorRejects, ExecuteRaises, Crash

\* What mutations leave behind stays as it is told (mutation_tx.py).
LEMMA TracesStep == IInv /\ Next => Traces'
<1>. SUFFICES ASSUME IInv, Next, NEW m \in Mutations
              PROVE  /\ status'[m] = "new" => /\ m \notin committed' /\ lineage'[m] = <<>>
                                              /\ "rolled_back" \notin Range(journal'[m])
                                              /\ rollbackDir'[m] = NoBackups
                     /\ \A f \in Files :
                          /\ status'[m] = "new" => Nowhere(m, f)' /\ <<m, f>> \notin lost'
                          /\ m \in committed' \/ Accounted(m, f)'
                          /\ "rolled_back" \in Range(journal'[m]) =>
                                Nowhere(m, f)' /\ rollbackDir'[m][f] = None
                          /\ status'[m] = "failed" => Admitted(m, f)'
  BY DEF Traces
<1>1. TypeOK /\ Control /\ LocalsOK
  BY TypeParts DEF IInv
<1>2. status'[m] = "new" => status[m] = "new" /\ m # cur
  BY <1>1, FailedOutcome
<1>3. CASE m # cur
  <2>1. /\ rollbackDir'[m] = rollbackDir[m] /\ before'[m] = before[m]
        /\ m \in committed' <=> m \in committed
        /\ \A f : <<m, f>> \in lost' <=> <<m, f>> \in lost
        /\ journal'[m] = journal[m] /\ lineage'[m] = lineage[m]
        /\ status'[m] = "failed" => status[m] = "failed"
    BY <1>1, <1>3, OthersStay, LedgersGrow, FailedOutcome
  <2>2. ASSUME NEW f \in Files
        PROVE  /\ Nowhere(m, f) => Nowhere(m, f)'
               /\ Accounted(m, f) => Accounted(m, f)'
               /\ Admitted(m, f) => Admitted(m, f)'
    <3>1. Nowhere(m, f) => Nowhere(m, f)'
      BY <1>1, <1>3, Spread
    <3>. QED
      BY <2>1, <3>1 DEF Kept, Accounted, Admitted
  <2>3. /\ status[m] = "new" => /\ m \notin committed /\ lineage[m] = <<>>
                               /\ "rolled_back" \notin Range(journal[m])
                               /\ rollbackDir[m] = NoBackups
        /\ \A f \in Files :
             /\ status[m] = "new" => Nowhere(m, f) /\ <<m, f>> \notin lost
             /\ m \in committed \/ Accounted(m, f)
             /\ "rolled_back" \in Range(journal[m]) =>
                   Nowhere(m, f) /\ rollbackDir[m][f] = None
             /\ status[m] = "failed" => Admitted(m, f)
    BY DEF IInv, Traces
  <2>4. status'[m] = "new" => /\ m \notin committed' /\ lineage'[m] = <<>>
                              /\ "rolled_back" \notin Range(journal'[m])
                              /\ rollbackDir'[m] = NoBackups
    <3>1. Range(journal'[m]) = Range(journal[m])
      BY <2>1
    <3>. QED
      BY <1>2, <2>1, <2>3, <3>1
  <2>5. ASSUME NEW f \in Files
        PROVE  /\ status'[m] = "new" => Nowhere(m, f)' /\ <<m, f>> \notin lost'
               /\ m \in committed' \/ Accounted(m, f)'
               /\ "rolled_back" \in Range(journal'[m]) =>
                     Nowhere(m, f)' /\ rollbackDir'[m][f] = None
               /\ status'[m] = "failed" => Admitted(m, f)'
    <3>1. Range(journal'[m]) = Range(journal[m])
      BY <2>1
    <3>. QED
      BY <1>2, <2>1, <2>2, <2>3, <3>1
  <2>. QED
    BY <2>4, <2>5
<1>4. CASE m = cur
  <2>1. status'[m] # "new"
    BY <1>2, <1>4
  <2>2. ASSUME NEW f \in Files, "rolled_back" \in Range(journal'[m])
        PROVE  Nowhere(m, f)' /\ rollbackDir'[m][f] = None
    <3>1. CASE IssueCertificate
      BY <1>4, <2>2, <3>1, CertificateStep
    <3>2. CASE ~IssueCertificate
      <4>1. "rolled_back" \in Range(journal[m])
        <5>1. UNCHANGED journal \/ \E e \in Entries : Journalled(e) /\ e # "rolled_back"
          <6>1. CASE RecordTransition
            <7>1. Successor[life] \in Entries /\ Successor[life] # "rolled_back"
              BY <1>1, <6>1 DEF RecordTransition, Control, LocalsOK, Successor, LifeStates, Entries
            <7>. QED
              BY <6>1, <7>1 DEF RecordTransition
          <6>2. CASE (Lifecycle /\ ~RecordTransition) \/ Governance \/ \E k \in Mutations : Begin(k)
            BY <6>2 DEF Lifecycle, RefuseTransition, PersistTransition, Governance, Blocked,
               GovernorAccepts, GovernorRejects, Begin, Entries, disk
          <6>3. CASE Applying \/ (RollingBack /\ ~IssueCertificate)
            BY <6>3 DEF Applying, OpenTransaction, Backup, WriteTarget, TargetRefused, VerifyPasses,
               VerifyFails, TestsPass, TestsFail, BlockRaises, RollingBack, Unlink, Restore, DropBackups,
               CertificateRaises, JournalRefusal, Entries, disk
          <6>4. CASE Gates
            BY <6>4 DEF Gates, RecordEvidence, ChargeEntropy, EntropyExceeded, RiskExceeded,
               PolicyRejects, PolicyActivates, JournalFailedTests, Demote, Revoke, Entries
          <6>5. CASE Finishing \/ ExecuteRaises \/ Crash
            BY <6>5 DEF Finishing, WriteManifest, ManifestFails, JournalPromotion,
               ActivateCertificate, AfterCycle, ExecuteRaises, Crash, Entries, disk
          <6>. QED
            BY <3>2, <6>1, <6>2, <6>3, <6>4, <6>5 DEF Next, Execute
        <5>. QED
          BY <1>1, <1>4, <2>2, <5>1, Entered
      <4>2. ~WriteTarget /\ ~Backup
        BY <1>1, <1>4, <4>1 DEF IInv, Running, InTransaction, WriteTarget, Backup, InBlock
      <4>3. Nowhere(m, f) /\ rollbackDir[m][f] = None
        BY <4>1 DEF IInv, Traces
      <4>4. Nowhere(m, f)'
        BY <1>1, <4>2, <4>3, Spread
      <4>5. rollbackDir'[m][f] = None
        <5>1. UNCHANGED rollbackDir \/ rollbackDir' = [rollbackDir EXCEPT ![m] = NoBackups]
          BY <1>4, <4>2, Quiet DEF OpenTransaction, WriteTarget, TestsPass, Unlink, Restore, DropBackups
        <5>2. FilesOK
          BY <1>1, TypeParts
        <5>. QED
          BY <4>3, <5>1, <5>2 DEF FilesOK, NoBackups
      <4>. QED
        BY <4>4, <4>5
    <3>. QED
      BY <3>1, <3>2
  <2>3. ASSUME NEW f \in Files PROVE m \in committed' \/ Accounted(m, f)'
    <3>1. CASE cur' # None
      BY <1>4, <3>1, OnwardStep DEF Onward
    <3>2. CASE cur' = None
      <4>1. UNCHANGED <<files, rollbackDir, before, committed, lost>>
        <5>1. ~OpenTransaction /\ ~Backup /\ ~WriteTarget /\ ~TestsPass /\ ~Unlink /\ ~Restore
          BY <1>1, <1>4, <3>2, ExecutionAssumption
             DEF OpenTransaction, Backup, WriteTarget, TestsPass, Unlink, Restore, DropBackups
        <5>. QED
          BY <5>1, Quiet
      <4>. QED
        BY <1>1, <4>1, QuietFiles DEF IInv, Traces
    <3>. QED
      BY <3>1, <3>2
  <2>4. ASSUME NEW f \in Files, status'[m] = "failed" PROVE Admitted(m, f)'
    <3>1. AfterCycle /\ pc = "after" /\ outcome = "failed"
      <4>1. status[m] = "running"
        BY <1>4, ExecutionAssumption DEF IInv, Control
      <4>. QED
        BY <1>1, <2>4, <4>1, FailedOutcome
    <3>2. Failing /\ UNCHANGED <<files, rollbackDir, before, committed, lost>>
      BY <3>1 DEF Failing, AfterCycle, disk, history
    <3>. QED
      BY <1>1, <1>4, <3>2, QuietFiles DEF IInv, Running
  <2>. QED
    BY <2>1, <2>2, <2>3, <2>4
<1>. QED
  BY <1>3, <1>4

\* The running mutation's files stay what its transaction knows them to be (execute).
LEMMA RunningStep == IInv /\ Next => Running'
<1>. SUFFICES ASSUME IInv, Next, NEW m \in Mutations, m = cur'
              PROVE  /\ \A k \in Mutations \ {m}, f \in Files : ~Holds(rollbackDir'[k][f], m)
                     /\ Untouched(m)' /\ InTransaction(m)'
                     /\ Failing' => \A f \in Files : Admitted(m, f)'
  BY DEF Running
<1>1. TypeOK /\ Control /\ LocalsOK
  BY TypeParts DEF IInv
<1>2. CASE Begin(m)
  <2>1. /\ status[m] = "new" /\ pc' = "transition" /\ UNCHANGED <<rollbackDir, files, journal, committed, before, lost>>
    BY <1>2 DEF Begin, disk, history
  <2>2. /\ m \notin committed /\ "rolled_back" \notin Range(journal[m])
        /\ rollbackDir[m] = NoBackups
        /\ \A f \in Files : Nowhere(m, f) /\ <<m, f>> \notin lost
    BY <2>1 DEF IInv, Traces
  <2>3. \A f \in Files : Nowhere(m, f)'
    BY <1>1, <2>1, <2>2, QuietFiles
  <2>4. \A k \in Mutations \ {m}, f \in Files : ~Holds(rollbackDir'[k][f], m)
    BY <2>3 DEF Nowhere
  <2>5. Untouched(m)'
    BY <2>1, <2>2, <2>3 DEF Untouched
  <2>6. InTransaction(m)' /\ ~Failing'
    BY <1>2, <2>1 DEF InTransaction, InBlock, Failing
  <2>. QED
    BY <2>4, <2>5, <2>6
<1>3. CASE ~Begin(m)
  <2>1. m = cur /\ cur' # None
    <3>1. cur' \in {cur, None} \/ \E k \in Mutations : Begin(k)
      <4>1. CASE Lifecycle \/ Governance
        BY <4>1 DEF Lifecycle, RecordTransition, RefuseTransition, PersistTransition, Governance,
           Blocked, GovernorAccepts, GovernorRejects, Goto, Leave
      <4>2. CASE Applying \/ RollingBack
        BY <4>2 DEF Applying, OpenTransaction, Backup, WriteTarget, TargetRefused, VerifyPasses,
           VerifyFails, TestsPass, TestsFail, BlockRaises, EnterRollback, RollingBack, Unlink, Restore, DropBackups,
           IssueCertificate, CertificateRaises, JournalRefusal, Goto, Leave
      <4>3. CASE Gates
        BY <4>3 DEF Gates, RecordEvidence, ChargeEntropy, EntropyExceeded, RiskExceeded,
           PolicyRejects, PolicyActivates, JournalFailedTests, Demote, Revoke, Goto
      <4>4. CASE Finishing \/ ExecuteRaises \/ Crash
        BY <4>4 DEF Finishing, WriteManifest, ManifestFails, JournalPromotion,
           ActivateCertificate, AfterCycle, ExecuteRaises, Crash, Goto, Leave
      <4>. QED
        BY <4>1, <4>2, <4>3, <4>4 DEF Next, Execute
    <3>2. \A k \in Mutations : Begin(k) => cur' = k
      BY DEF Begin
    <3>. QED
      BY <1>3, <3>1, <3>2, ExecutionAssumption
  <2>2. \A k \in Mutations \ {m}, f \in Files : ~Holds(rollbackDir'[k][f], m)
    BY <1>1, <2>1, OthersStay DEF IInv, Running
  <2>. QED
    BY <2>1, <2>2, OnwardStep, AroundStep DEF Onward
<1>. QED
  BY <1>2, <1>3

\* The invariant holds before the first mutation (MutationExecutor.__init__).
LEMMA InitInv == Init => IInv
<1>. SUFFICES ASSUME Init PROVE IInv
  OBVIOUS
<1>1. TypeOK /\ Control
  BY TypeInit
<1>2. /\ cur = None /\ pc = "idle" /\ life = "proposed" /\ status = [m \in Mutations |-> "new"]
      /\ files = [f \in Files |-> IF f \in Existing THEN <<>> ELSE Absent]
      /\ rollbackDir = [m \in Mutations |-> NoBackups] /\ committed = {} /\ lost = {}
      /\ journal = [m \in Mutations |-> <<>>] /\ lineage = [m \in Mutations |-> <<>>]
  BY DEF Init
<1>3. "cert_on" \notin Range(<<>>) /\ \A x : x \notin Range(<<>>)
  BY DEF Range
<1>4. LineageTellsOutcome
  BY <1>2, <1>3 DEF LineageTellsOutcome
<1>5. ASSUME NEW m \in Mutations, NEW f \in Files PROVE Nowhere(m, f)
  <2>1. ~Holds(files[f], m)
    <3>1. files[f] \in {<<>>, Absent}
      BY <1>2
    <3>. QED
      BY <1>3, <3>1 DEF Holds
  <2>2. \A k \in Mutations : rollbackDir[k][f] = None
    BY <1>2 DEF NoBackups
  <2>. QED
    BY <2>1, <2>2 DEF Nowhere, Wrote, Holds
<1>6. Traces
  BY <1>2, <1>3, <1>5 DEF Traces, Accounted
<1>7. Running
  BY <1>2, ExecutionAssumption DEF Running
<1>. QED
  BY <1>1, <1>2, <1>4, <1>6, <1>7 DEF IInv

\* Every step keeps the invariant.
LEMMA StepInv == IInv /\ [Next]_vars => IInv'
<1>. SUFFICES ASSUME IInv, [Next]_vars PROVE IInv'
  OBVIOUS
<1>1. CASE UNCHANGED vars
  <2>. USE <1>1 DEF vars, memory, disk, history
  <2>1. TypeOK' /\ Control'
    BY DEF IInv, TypeOK, Control
  <2>2. (cur' # None => Told') /\ LineageTellsOutcome'
    BY DEF IInv, Told, Ahead, Activated, LineageTellsOutcome
  <2>3. \A m \in Mutations, f \in Files : /\ Nowhere(m, f)' <=> Nowhere(m, f)
                                          /\ Accounted(m, f)' <=> Accounted(m, f)
                                          /\ Kept(m, f)' <=> Kept(m, f)
                                          /\ Admitted(m, f)' <=> Admitted(m, f)
                                          /\ Saved(m, f)' <=> Saved(m, f)
                                          /\ Applied(m, f)' <=> Applied(m, f)
                                          /\ Undone(m, f)' <=> Undone(m, f)
    BY DEF Nowhere, Kept, Accounted, Admitted, Saved, Applied, Undone, Wrote
  <2>4. Traces'
    BY <2>3 DEF IInv, Traces
  <2>5. Running'
    BY <2>3 DEF IInv, Running, Untouched, InTransaction, Ahead, Failing
  <2>. QED
    BY <2>1, <2>2, <2>4, <2>5 DEF IInv
<1>2. CASE Next
  <2>1. TypeOK' /\ Control'
    BY <1>2, TypeStep DEF IInv
  <2>2. cur' # None => Told'
    <3>1. \A m \in Mutations : status[m] = "new" => lineage[m] = <<>>
      BY DEF IInv, Traces
    <3>. QED
      BY <1>2, <2>1, <3>1, ToldStep DEF IInv
  <2>3. LineageTellsOutcome'
    BY <1>2, <2>2, TellsStep DEF IInv
  <2>. QED
    BY <1>2, <2>1, <2>2, <2>3, TracesStep, RunningStep DEF IInv
<1>. QED
  BY <1>1, <1>2

\* The inductive invariant holds always.
LEMMA Invariance == Spec => []IInv
BY InitInv, StepInv, PTL DEF Spec

-----------------------------------------------------------------------------
(* The theorems about the files                                            *)

\* The executor's locals, the files and both ledgers keep their types, whatever
\* refuses, raises or crashes (MutationExecutor.execute).
THEOREM TypeCorrect == Spec => []TypeOK
<1>1. IInv => TypeOK
  BY DEF IInv
<1>. QED
  BY <1>1, Invariance, PTL

\* While a transaction is not committed, after a crash anywhere in it or in its rollback
\* and whatever unlinks and copies failed, every file that holds its output has its
\* pre-image in the rollback directory or was created by it -- until the directory went
\* with a backup that was never copied back (mutation_tx.py 77-88, 171-209).
THEOREM PreimagesAreKept == Spec => []PreimageKept
<1>1. IInv => PreimageKept
  BY DEF IInv, Traces, PreimageKept, Accounted, Nowhere, Kept
<1>. QED
  BY <1>1, Invariance, PTL

\* A rollback certificate whose checks hold is true and stays true: no unlink or copy that
\* failed is hidden from it, and no later rollback of another mutation brings the output
\* back (mutation_tx.py 201-206).
THEOREM CertificatesAreTrue == Spec => []CertificateIsTrue
<1>1. IInv => CertificateIsTrue
  BY DEF IInv, Traces, CertificateIsTrue, Nowhere
<1>. QED
  BY <1>1, Invariance, PTL

\* A mutation that failed has left its output only in files it created itself or whose
\* backup was never copied back, and its certificate admits it (mutation_executor.py
\* 533-537, 808-823; mutation_tx.py 171-209).
THEOREM FailuresLeaveNothing == Spec => []FailedLeavesNothing
<1>1. IInv => FailedLeavesNothing
  BY DEF IInv, Traces, FailedLeavesNothing, Admitted, Nowhere
<1>. QED
  BY <1>1, Invariance, PTL

\* The lineage tells activated and failed mutations apart (mutation_executor.py
\* 719-747, 808-822).
THEOREM OutcomeIsTold == Spec => []LineageTellsOutcome
<1>1. IInv => LineageTellsOutcome
  BY DEF IInv
<1>. QED
  BY <1>1, Invariance, PTL

\* Once the governor has failed closed no file of an agent changes until the process
\* is started again (governor.py 203).
THEOREM NothingAfterFailClosed == Spec => FailClosedStops
<1>1. IInv /\ [Next]_vars => [failClosed => UNCHANGED files]_vars
  <2>. SUFFICES ASSUME IInv, Next, failClosed PROVE UNCHANGED files
    OBVIOUS
  <2>1. pc \notin {"plan", "apply", "write", "tests", "unlink", "restore"}
    BY DEF IInv, Control
  <2>2. ~OpenTransaction /\ ~Backup /\ ~WriteTarget /\ ~TestsPass /\ ~Unlink /\ ~Restore
    BY <2>1 DEF OpenTransaction, Backup, WriteTarget, TestsPass, Unlink, Restore, DropBackups
  <2>. QED
    BY <2>2, Quiet
<1>. QED
  BY <1>1, Invariance, PTL DEF Spec, FailClosedStops

-----------------------------------------------------------------------------
(* Sums over finite sets of mutations                                      *)

\* The element a fold over a set takes first, and the function that the fold is.
Chosen(s) == CHOOSE x \in s : TRUE
SumFn(c, S, g) == /\ g \in [SUBSET S -> Int] /\ SumOf(c, S) = g[S] /\ g[{}] = 0
                  /\ \A s \in SUBSET S : s # {} => g[s] = c[Chosen(s)] + g[s \ {Chosen(s)}]

\* Every set of numbers that is not empty has a least one: with it the sum of the charges,
\* which a fold defines, is proved to be a sum.
LEMMA LeastNat ==
  ASSUME NEW T \in SUBSET Nat, T # {}
  PROVE  \E n \in T : \A k \in T : n <= k
<1>1. PICK R : R = OpToRel(<, Nat)
  OBVIOUS
<1>2. IsWellFoundedOn(R, Nat)
  BY <1>1, NatLessThanWellFounded
<1>3. PICK x \in T : \A y \in T : ~ (<<y, x>> \in R)
  BY <1>2, WFMin
<1>4. \A x1, y1 \in Nat : <<y1, x1>> \in R <=> y1 < x1
  BY <1>1 DEF OpToRel
<1>5. ASSUME NEW y \in T PROVE x <= y
  <2>1. x \in Nat /\ y \in Nat
    OBVIOUS
  <2>2. ~(y < x)
    BY <1>3, <1>4, <2>1
  <2>. QED
    BY <2>1, <2>2
<1>. QED
  BY <1>5

\* Induction over numbers for a predicate given as a function, here: over the number of the
\* mutations that were charged.
LEMMA Induct ==
  ASSUME NEW P, P[0] = TRUE, \A n \in Nat : P[n] = TRUE => P[n + 1] = TRUE
  PROVE  \A n \in Nat : P[n] = TRUE
<1>. SUFFICES ASSUME NEW m \in Nat, P[m] # TRUE PROVE FALSE
  OBVIOUS
<1>1. PICK T : T = {k \in Nat : P[k] # TRUE}
  OBVIOUS
<1>2. PICK n \in T : \A k \in T : n <= k
  BY <1>1, LeastNat
<1>3. n # 0 /\ n \in Nat
  BY <1>1
<1>4. n - 1 \in Nat /\ ~(n <= n - 1) /\ (n - 1) + 1 = n
  BY <1>3
<1>. QED
  BY <1>1, <1>2, <1>4

\* A finite set of mutations has, among any of its subsets, one that contains no other.
LEMMA Smallest ==
  ASSUME NEW S, IsFiniteSet(S), NEW T \in SUBSET (SUBSET S), T # {}
  PROVE  \E s \in T : \A u \in T : u \subseteq s => u = s
<1>1. IsWellFoundedOn(StrictSubsetOrdering(S), SUBSET S)
  BY FS_StrictSubsetOrderingWellFounded, FS_FiniteSubsetsOfFinite
<1>2. PICK s \in T : \A u \in T : ~ (<<u, s>> \in StrictSubsetOrdering(S))
  BY <1>1, WFMin
<1>3. ASSUME NEW u \in T, u \subseteq s PROVE u = s
  BY <1>2, <1>3 DEF StrictSubsetOrdering
<1>. QED
  BY <1>3

\* What is left when one mutation is taken out of the charged ones is smaller.
LEMMA Removed ==
  ASSUME NEW S, IsFiniteSet(S), NEW s \in SUBSET S, NEW x \in s
  PROVE /\ s \ {x} \in SUBSET S /\ Cardinality(s) \in Nat /\ Cardinality(s \ {x}) \in Nat
        /\ Cardinality(s \ {x}) < Cardinality(s)
<1>1. IsFiniteSet(s)
  BY FS_Subset
<1>2. Cardinality(s) \in Nat /\ IsFiniteSet(s \ {x}) /\ Cardinality(s \ {x}) = Cardinality(s) - 1
  BY <1>1, FS_CardinalityType, FS_RemoveElement
<1>3. Cardinality(s \ {x}) \in Nat
  BY <1>2, FS_CardinalityType
<1>. QED
  BY <1>2, <1>3

\* The fold that adds up the charges of finitely many mutations has a value for each of
\* their subsets (cumulative_entropy_bits).
LEMMA SumDefined ==
  ASSUME NEW S, IsFiniteSet(S), NEW c, \A x \in S : c[x] \in Int
  PROVE  \E g : SumFn(c, S, g)
<1>. DEFINE Rec(g, s) == IF s = {} THEN 0 ELSE c[Chosen(s)] + g[s \ {Chosen(s)}]
            P == [n \in Nat |-> \E g \in [SUBSET S -> Int] :
                                   \A s \in SUBSET S : Cardinality(s) < n => g[s] = Rec(g, s)]
<1>0. \A s \in SUBSET S : s # {} => Chosen(s) \in s
  BY DEF Chosen
<1>1. P[0] = TRUE
  <2>1. [s \in SUBSET S |-> 0] \in [SUBSET S -> Int]
    OBVIOUS
  <2>2. \A s \in SUBSET S : ~(Cardinality(s) < 0)
    <3>1. \A s \in SUBSET S : IsFiniteSet(s)
      BY FS_Subset
    <3>2. \A s \in SUBSET S : Cardinality(s) \in Nat
      BY <3>1, FS_CardinalityType
    <3>. QED
      BY <3>2
  <2>. QED
    BY <2>1, <2>2
<1>2. ASSUME NEW n \in Nat, P[n] = TRUE PROVE P[n + 1] = TRUE
  <2>1. PICK g \in [SUBSET S -> Int] : \A s \in SUBSET S : Cardinality(s) < n => g[s] = Rec(g, s)
    BY <1>2
  <2>2. PICK h : h = [s \in SUBSET S |-> Rec(g, s)]
    OBVIOUS
  <2>3. ASSUME NEW s \in SUBSET S PROVE h[s] \in Int
    <3>1. CASE s = {}
      BY <2>2, <3>1
    <3>2. CASE s # {}
      <4>1. c[Chosen(s)] \in Int /\ s \ {Chosen(s)} \in SUBSET S
        BY <1>0, <3>2
      <4>2. g[s \ {Chosen(s)}] \in Int
        BY <4>1
      <4>3. h[s] = c[Chosen(s)] + g[s \ {Chosen(s)}]
        BY <2>2, <3>2
      <4>. QED
        BY <4>1, <4>2, <4>3
    <3>. QED
      BY <3>1, <3>2
  <2>4. ASSUME NEW s \in SUBSET S, Cardinality(s) < n + 1 PROVE h[s] = Rec(h, s)
    <3>1. CASE s = {}
      BY <2>2, <3>1
    <3>2. CASE s # {}
      <4>1. /\ s \ {Chosen(s)} \in SUBSET S /\ Cardinality(s) \in Nat
            /\ Cardinality(s \ {Chosen(s)}) \in Nat
            /\ Cardinality(s \ {Chosen(s)}) < Cardinality(s)
        BY <1>0, <3>2, Removed
      <4>2. Cardinality(s \ {Chosen(s)}) < n
        BY <2>4, <4>1
      <4>3. g[s \ {Chosen(s)}] = Rec(g, s \ {Chosen(s)})
        BY <2>1, <4>1, <4>2
      <4>4. h[s \ {Chosen(s)}] = Rec(g, s \ {Chosen(s)})
        BY <2>2, <4>1
      <4>5. h[s] = c[Chosen(s)] + g[s \ {Chosen(s)}]
        BY <2>2, <3>2
      <4>. QED
        BY <3>2, <4>3, <4>4, <4>5
    <3>. QED
      BY <3>1, <3>2
  <2>5. h \in [SUBSET S -> Int]
    BY <2>2, <2>3
  <2>6. \E i \in [SUBSET S -> Int] : \A s \in SUBSET S : Cardinality(s) < n + 1 => i[s] = Rec(i, s)
    BY <2>4, <2>5
  <2>7. n + 1 \in Nat
    OBVIOUS
  <2>. QED
    BY <2>6, <2>7
<1>3. \A n \in Nat : P[n] = TRUE
  <2>. HIDE DEF P
  <2>. QED
    BY <1>1, <1>2, Induct
<1>4. PICK g \in [SUBSET S -> Int] : \A s \in SUBSET S : g[s] = Rec(g, s)
  <2>1. Cardinality(S) + 1 \in Nat
    BY FS_CardinalityType
  <2>2. PICK g \in [SUBSET S -> Int] :
           \A s \in SUBSET S : Cardinality(s) < Cardinality(S) + 1 => g[s] = Rec(g, s)
    BY <1>3, <2>1
  <2>3. \A s \in SUBSET S : Cardinality(s) < Cardinality(S) + 1
    <3>1. \A s \in SUBSET S : IsFiniteSet(s) /\ Cardinality(s) <= Cardinality(S)
      BY FS_Subset
    <3>2. \A s \in SUBSET S : Cardinality(s) \in Nat
      BY <3>1, FS_CardinalityType
    <3>. QED
      BY <2>1, <3>1, <3>2, FS_CardinalityType
  <2>. QED
    BY <2>2, <2>3
<1>5. PICK iter : iter = CHOOSE i : i = [s \in SUBSET S |-> IF s = {} THEN 0 ELSE c[Chosen(s)] + i[s \ {Chosen(s)}]]
  OBVIOUS
<1>6. g = [s \in SUBSET S |-> IF s = {} THEN 0 ELSE c[Chosen(s)] + g[s \ {Chosen(s)}]]
  BY <1>4
<1>7. iter = [s \in SUBSET S |-> IF s = {} THEN 0 ELSE c[Chosen(s)] + iter[s \ {Chosen(s)}]]
  BY <1>5, <1>6
<1>8. SumOf(c, S) = iter[S]
  BY <1>5 DEF SumOf, MapThenSumSet, MapThenFoldSet, Chosen
<1>9. \A s \in SUBSET S : iter[s] = g[s]
  <2>. SUFFICES ASSUME NEW t \in SUBSET S, iter[t] # g[t] PROVE FALSE
    OBVIOUS
  <2>1. PICK T : T = {s \in SUBSET S : iter[s] # g[s]}
    OBVIOUS
  <2>2. PICK s \in T : \A u \in T : u \subseteq s => u = s
    BY <2>1, Smallest
  <2>3. s \in SUBSET S /\ iter[s] # g[s] /\ s # {}
    BY <1>6, <1>7, <2>1
  <2>4. s \ {Chosen(s)} \notin T /\ s \ {Chosen(s)} \in SUBSET S
    BY <1>0, <2>2, <2>3
  <2>5. iter[s \ {Chosen(s)}] = g[s \ {Chosen(s)}]
    BY <2>1, <2>4
  <2>6. /\ iter[s] = c[Chosen(s)] + iter[s \ {Chosen(s)}]
        /\ g[s] = c[Chosen(s)] + g[s \ {Chosen(s)}]
    BY <1>6, <1>7, <2>3
  <2>. QED
    BY <2>3, <2>5, <2>6
<1>. QED
  BY <1>4, <1>8, <1>9 DEF SumFn

\* The charges may be added in any order.
LEMMA SumTakes ==
  ASSUME NEW S, IsFiniteSet(S), NEW c, \A x \in S : c[x] \in Int,
         NEW g, SumFn(c, S, g)
  PROVE  \A s \in SUBSET S : \A x \in s : g[s] = c[x] + g[s \ {x}]
<1>. SUFFICES ASSUME NEW t \in SUBSET S, ~ \A x \in t : g[t] = c[x] + g[t \ {x}] PROVE FALSE
  OBVIOUS
<1>1. PICK T : T = {s \in SUBSET S : ~ \A x \in s : g[s] = c[x] + g[s \ {x}]}
  OBVIOUS
<1>0. T \in SUBSET (SUBSET S) /\ T # {}
  <2>1. t \in T
    BY <1>1
  <2>. QED
    BY <1>1, <2>1
<1>2. PICK s \in T : \A u \in T : u \subseteq s => u = s
  BY <1>0, Smallest
<1>3. s \in SUBSET S
  BY <1>1
<1>4. PICK x \in s : g[s] # c[x] + g[s \ {x}]
  BY <1>1
<1>5. PICK y : y = Chosen(s)
  OBVIOUS
<1>6. y \in s /\ g[s] = c[y] + g[s \ {y}] /\ x # y
  BY <1>3, <1>4, <1>5 DEF Chosen, SumFn
<1>7. /\ s \ {x} \in SUBSET S /\ s \ {x} \notin T
      /\ s \ {y} \in SUBSET S /\ s \ {y} \notin T
  BY <1>2, <1>3, <1>6
<1>8. PICK w : w = s \ {x, y}
  OBVIOUS
<1>9. (s \ {y}) \ {x} = w /\ (s \ {x}) \ {y} = w /\ w \in SUBSET S
  BY <1>3, <1>8
<1>10. g[s \ {y}] = c[x] + g[w]
  <2>1. x \in s \ {y}
    BY <1>6
  <2>. QED
    BY <1>1, <1>7, <1>9, <2>1
<1>11. g[s \ {x}] = c[y] + g[w]
  <2>1. y \in s \ {x}
    BY <1>6
  <2>. QED
    BY <1>1, <1>7, <1>9, <2>1
<1>12. c[x] \in Int /\ c[y] \in Int /\ g[w] \in Int
  BY <1>3, <1>4, <1>6, <1>9 DEF SumFn
<1>13. g[s] = c[y] + (c[x] + g[w]) /\ g[s] # c[x] + (c[y] + g[w])
  BY <1>4, <1>6, <1>10, <1>11
<1>. QED
  BY <1>12, <1>13

\* A mutation that joins the charged ones adds its charge.
LEMMA SumAdds ==
  ASSUME NEW S, IsFiniteSet(S), NEW m, m \notin S, NEW c, NEW d,
         \A x \in S : c[x] \in Int /\ d[x] = c[x], d[m] \in Int
  PROVE  SumOf(c, S) \in Int /\ SumOf(d, S \cup {m}) = SumOf(c, S) + d[m]
<1>1. PICK g : SumFn(c, S, g)
  BY SumDefined
<1>2. PICK U : U = S \cup {m}
  OBVIOUS
<1>3. IsFiniteSet(U) /\ \A x \in U : d[x] \in Int
  BY <1>2, FS_AddElement
<1>4. PICK h : SumFn(d, U, h)
  BY <1>3, SumDefined
<1>5. h[U] = d[m] + h[U \ {m}]
  <2>1. \A x \in U : d[x] \in Int
    BY <1>3
  <2>2. IsFiniteSet(U) /\ SumFn(d, U, h) /\ U \in SUBSET U /\ m \in U
    BY <1>2, <1>3, <1>4
  <2>. QED
    BY <2>1, <2>2, SumTakes
<1>6. U \ {m} = S
  BY <1>2
<1>7. h[S] = g[S]
  <2>. SUFFICES ASSUME h[S] # g[S] PROVE FALSE
    OBVIOUS
  <2>1. PICK T : T = {s \in SUBSET S : h[s] # g[s]}
    OBVIOUS
  <2>2. PICK s \in T : \A u \in T : u \subseteq s => u = s
    BY <2>1, Smallest
  <2>3. s \in SUBSET S /\ s \in SUBSET U /\ h[s] # g[s] /\ s # {}
    BY <1>1, <1>2, <1>4, <2>1 DEF SumFn
  <2>4. Chosen(s) \in s
    BY <2>3 DEF Chosen
  <2>5. s \ {Chosen(s)} \notin T /\ s \ {Chosen(s)} \in SUBSET S
    BY <2>2, <2>3, <2>4
  <2>6. h[s \ {Chosen(s)}] = g[s \ {Chosen(s)}]
    BY <2>1, <2>5
  <2>7. /\ h[s] = d[Chosen(s)] + h[s \ {Chosen(s)}]
        /\ g[s] = c[Chosen(s)] + g[s \ {Chosen(s)}]
    BY <1>1, <1>4, <2>3 DEF SumFn
  <2>8. d[Chosen(s)] = c[Chosen(s)]
    BY <2>3, <2>4
  <2>. QED
    BY <2>3, <2>6, <2>7, <2>8
<1>8. SumOf(c, S) = g[S] /\ g[S] \in Int /\ SumOf(d, U) = h[U]
  BY <1>1, <1>4 DEF SumFn
<1>9. h[U] = d[m] + g[S]
  BY <1>5, <1>6, <1>7
<1>10. d[m] + g[S] = g[S] + d[m]
  BY <1>8
<1>. QED
  BY <1>2, <1>8, <1>9, <1>10

\* Nothing has been charged in an epoch that begins (cumulative_entropy_bits = 0).
LEMMA SumOfNone == \A c : SumOf(c, {}) = 0
<1>. SUFFICES ASSUME NEW c PROVE SumOf(c, {}) = 0
  OBVIOUS
<1>1. IsFiniteSet({}) /\ \A x \in {} : c[x] \in Int
  BY FS_EmptySet
<1>2. PICK g : SumFn(c, {}, g)
  BY <1>1, SumDefined
<1>. QED
  BY <1>2 DEF SumFn

-----------------------------------------------------------------------------
(* The bookkeeping                                                         *)

\* The mutations charged so far are a finite set, and the sum of their charges is what
\* one more charge adds to (ChargeEntropy; governor's cumulative_entropy_bits).
LEMMA ChargeAdds ==
  ASSUME TypeOK, IsFiniteSet(Charged), NEW m \in Mutations, charged[m] = Unpaid,
         NEW bits \in Nat, charged' = [charged EXCEPT ![m] = bits]
  PROVE  /\ IsFiniteSet(Charged') /\ Charged' = Charged \cup {m}
         /\ SumOf(charged', Charged') = SumOf(charged, Charged) + bits
<1>1. charged \in [Mutations -> Nat \cup {Unpaid}]
  BY DEF TypeOK
<1>2. charged'[m] = bits /\ bits # Unpaid /\ \A k \in Mutations \ {m} : charged'[k] = charged[k]
  BY <1>1 DEF Unpaid
<1>3. Charged' = Charged \cup {m} /\ m \notin Charged
  BY <1>2 DEF Charged
<1>4. \A x \in Charged : charged[x] \in Int /\ charged'[x] = charged[x]
  BY <1>1, <1>2 DEF Charged
<1>5. charged'[m] \in Int
  BY <1>2
<1>6. SumOf(charged', Charged \cup {m}) = SumOf(charged, Charged) + charged'[m]
  <2>1. PICK S, c, d : S = Charged /\ c = charged /\ d = charged'
    OBVIOUS
  <2>2. /\ IsFiniteSet(S) /\ m \notin S /\ d[m] \in Int
        /\ \A x \in S : c[x] \in Int /\ d[x] = c[x]
    BY <1>3, <1>4, <1>5, <2>1
  <2>3. SumOf(d, S \cup {m}) = SumOf(c, S) + d[m]
    BY <2>2, SumAdds
  <2>. QED
    BY <2>1, <2>3
<1>7. IsFiniteSet(Charged \cup {m})
  BY FS_AddElement
<1>. QED
  BY <1>2, <1>3, <1>6, <1>7

\* Only the charge moves the budget (governor.py's checkpoint bits).
LEMMA Charging ==
  ASSUME Next, ~ChargeEntropy
  PROVE  UNCHANGED <<epochBits, charged>>
<1>1. CASE Lifecycle \/ Governance \/ \E m \in Mutations : Begin(m)
  BY <1>1 DEF Lifecycle, Governance, Begin, RecordTransition, RefuseTransition,
     PersistTransition, Blocked, GovernorAccepts, GovernorRejects, disk, history
<1>2. CASE Applying \/ RollingBack
  BY <1>2 DEF Applying, RollingBack, OpenTransaction, Backup, WriteTarget, TestsPass, Unlink,
     Restore, DropBackups, TargetRefused, VerifyPasses, VerifyFails,
     TestsFail, BlockRaises, IssueCertificate, CertificateRaises, JournalRefusal, disk, history
<1>3. CASE Gates
  BY <1>3 DEF Gates, RecordEvidence, ChargeEntropy, EntropyExceeded, RiskExceeded,
     PolicyRejects, PolicyActivates, JournalFailedTests, Demote, Revoke, disk, history
<1>4. CASE Finishing \/ ExecuteRaises \/ Crash
  BY <1>4 DEF Finishing, WriteManifest, ManifestFails, JournalPromotion, ActivateCertificate,
     AfterCycle, ExecuteRaises, Crash, disk, history
<1>. QED
  BY <1>1, <1>2, <1>3, <1>4 DEF Next, Execute

\* Only the two steps of a transition, and its refusal, write a lifecycle file.
LEMMA Filing ==
  ASSUME Next, ~PersistTransition, ~RefuseTransition
  PROVE  UNCHANGED lifeFile
<1>1. CASE Lifecycle \/ Governance \/ \E m \in Mutations : Begin(m)
  BY <1>1 DEF Lifecycle, Governance, Begin, RecordTransition,
     Blocked, GovernorAccepts, GovernorRejects, disk, history
<1>2. CASE Applying \/ RollingBack
  BY <1>2 DEF Applying, RollingBack, OpenTransaction, Backup, WriteTarget, TestsPass, Unlink,
     Restore, DropBackups, TargetRefused, VerifyPasses, VerifyFails,
     TestsFail, BlockRaises, IssueCertificate, CertificateRaises, JournalRefusal, disk, history
<1>3. CASE Gates
  BY <1>3 DEF Gates, RecordEvidence, ChargeEntropy, EntropyExceeded, RiskExceeded,
     PolicyRejects, PolicyActivates, JournalFailedTests, Demote, Revoke, disk, history
<1>4. CASE Finishing \/ ExecuteRaises \/ Crash
  BY <1>4 DEF Finishing, WriteManifest, ManifestFails, JournalPromotion, ActivateCertificate,
     AfterCycle, ExecuteRaises, Crash, disk, history
<1>. QED
  BY <1>1, <1>2, <1>3, <1>4 DEF Next, Execute

\* What only concerns the running mutation leaves the others alone.
LEMMA OthersAsWere ==
  ASSUME TypeOK, Control, Next, NEW m \in Mutations, m # cur
  PROVE  /\ journal'[m] = journal[m] /\ lineage'[m] = lineage[m] /\ lifeFile'[m] = lifeFile[m]
         /\ charged'[m] = charged[m]
<1>1. lifeFile \in [Mutations -> LifeStates \cup {"none"}]
      /\ charged \in [Mutations -> Nat \cup {Unpaid}]
  BY DEF TypeOK
<1>2. lifeFile'[m] = lifeFile[m]
  <2>1. CASE PersistTransition \/ RefuseTransition
    BY <1>1, <2>1 DEF PersistTransition, RefuseTransition
  <2>. QED
    BY <2>1, Filing
<1>3. charged'[m] = charged[m]
  <2>1. CASE ChargeEntropy
    BY <1>1, <2>1 DEF ChargeEntropy
  <2>. QED
    BY <2>1, Charging
<1>. QED
  BY <1>2, <1>3, LedgersGrow

\* A mutation that has not begun stays without a trace in the ledgers.
LEMMA UnbegunStep == TypeOK /\ Control /\ Next /\ Unbegun => Unbegun'
BY FailedOutcome, OthersAsWere DEF Unbegun

\* Where the running mutation is not charged yet, and where it is.
Unbilled == Ahead \/ pc \in InBlock \cup {"failed_entry", "evidence", "entropy"}
Accepted == Activated \/ pc \in {"promotion", "revoke"} \/ (pc = "after" /\ outcome = "executed")

\* No step but the charge goes from the one to the other (execute).
LEMMA BilledFlow ==
  ASSUME TypeOK, Control, Next, Control', ~ChargeEntropy, cur' # None
  PROVE  /\ Unbilled' => Unbilled \/ \E m \in Mutations : Begin(m)
         /\ Accepted' => Accepted
         /\ cur' = cur \/ \E m \in Mutations : Begin(m)
<1>1. LocalsOK
  BY TypeParts
<1>. USE DEF InBlock, Unbilled, Accepted
<1>3. ASSUME NEW s, Leave(s) PROVE FALSE
  BY <1>3 DEF Leave
<1>4. ASSUME NEW m \in Mutations, Begin(m) PROVE ~Accepted'
  BY <1>4 DEF Begin, Control, Activated
<1>5. CASE RecordTransition
  <2>1. /\ life' = Successor[life] /\ pc = "transition" /\ pc' = "persist" /\ UNCHANGED cur
    BY <1>5 DEF RecordTransition
  <2>2. life' = "completed" <=> life = "executing"
    BY <1>1, <2>1 DEF Successor, Control, LocalsOK, LifeStates
  <2>. QED
    BY <2>1, <2>2 DEF Ahead, Activated
<1>6. CASE PersistTransition
  <2>1. /\ pc = "persist" /\ pc' = AfterTransition[life] /\ UNCHANGED <<cur, life>>
    BY <1>6 DEF PersistTransition, Goto
  <2>2. \/ life = "staged" /\ pc' = "admission"
        \/ life = "certified" /\ pc' = "transition"
        \/ life = "executing" /\ pc' = "plan"
        \/ life = "completed" /\ pc' = "manifest"
    BY <1>1, <2>1 DEF AfterTransition, Control, LocalsOK, LifeStates
  <2>. QED
    BY <2>1, <2>2 DEF Ahead, Activated
<1>7. CASE RefuseTransition \/ Blocked \/ GovernorRejects \/ ManifestFails \/ AfterCycle
  BY <1>3, <1>7 DEF RefuseTransition, Blocked, GovernorRejects, ManifestFails, AfterCycle
<1>8. CASE ExecuteRaises \/ Crash
  BY <1>3, <1>8 DEF ExecuteRaises, Crash
<1>9. CASE GovernorAccepts
  <2>1. /\ pc = "admission" /\ pc' = "transition" /\ life' = "staged" /\ UNCHANGED cur
    BY <1>9 DEF GovernorAccepts, Goto, Control, disk
  <2>. QED
    BY <2>1 DEF Ahead, Activated
<1>10. CASE Applying \/ Unlink \/ Restore
  <2>1. /\ UNCHANGED cur /\ pc \in InBlock \cup {"plan"} /\ pc' \in InBlock \cup {"evidence"}
    BY <1>10 DEF Applying, OpenTransaction, Backup, WriteTarget, TargetRefused, EnterRollback,
     VerifyPasses, VerifyFails, TestsPass, TestsFail, BlockRaises, Unlink, Restore, DropBackups, Goto, disk
  <2>. QED
    BY <2>1 DEF Ahead, Activated
<1>11. CASE IssueCertificate \/ CertificateRaises
  <2>1. pc = "certificate" /\ cur' = cur /\ pc' \in {"unlink", "evidence", "failed_entry"}
    BY <1>3, <1>11 DEF IssueCertificate, CertificateRaises, EnterRollback, Goto
  <2>. QED
    BY <2>1 DEF Ahead, Activated
<1>12. CASE JournalRefusal
  BY <1>12 DEF JournalRefusal, Ahead, Activated, Goto, Control
<1>13. CASE RecordEvidence
  BY <1>13 DEF RecordEvidence, Ahead, Activated, Goto
<1>14. CASE EntropyExceeded \/ RiskExceeded
  BY <1>14 DEF EntropyExceeded, RiskExceeded, Ahead, Activated, Goto
<1>15. CASE PolicyRejects \/ PolicyActivates
  <2>1. /\ pc = "promotion" /\ cur' = cur
        /\ pc' = "revoke" \/ (pc' \in {"transition", "tests_entry"} /\ life' = "executing")
    BY <1>15 DEF PolicyRejects, PolicyActivates, Goto, Control
  <2>. QED
    BY <2>1 DEF Ahead, Activated
<1>16. CASE JournalFailedTests \/ Demote \/ Revoke
  BY <1>16 DEF JournalFailedTests, Demote, Revoke, Ahead, Activated, Goto
<1>17. CASE WriteManifest \/ JournalPromotion \/ ActivateCertificate
  BY <1>17 DEF WriteManifest, JournalPromotion, ActivateCertificate, Ahead, Activated, Goto
<1>. QED
  BY <1>4, <1>5, <1>6, <1>7, <1>8, <1>9, <1>10, <1>11, <1>12, <1>13, <1>14, <1>15, <1>16, <1>17
     DEF Next, Execute, Lifecycle, Governance, RollingBack, Gates, Finishing

\* A charge stays (governor's checkpoint).
LEMMA ChargedStay ==
  ASSUME TypeOK, Control, Next, cur # None => Billed, NEW m \in Charged
  PROVE  m \in Charged'
<1>1. charged \in [Mutations -> Nat \cup {Unpaid}] /\ m \in Mutations /\ charged[m] # Unpaid
  BY DEF TypeOK, Charged
<1>2. CASE ChargeEntropy
  <2>1. cur \in Mutations /\ charged[cur] = Unpaid
    BY <1>2, TypeParts DEF ChargeEntropy, Billed, LocalsOK
  <2>2. m # cur
    BY <1>1, <2>1
  <2>. QED
    BY <1>1, <2>2, OthersAsWere DEF Charged
<1>3. CASE ~ChargeEntropy
  BY <1>1, <1>3, Charging DEF Charged
<1>. QED
  BY <1>2, <1>3

\* Where the policy's verdict enters the lineage the mutation has been charged.
LEMMA VerdictCharged ==
  ASSUME TypeOK, Control, cur # None => Billed, Next, cur \in Mutations,
         Ledgered("ACTIVATED") \/ Ledgered("REJECTED")
  PROVE  charged[cur] # Unpaid \/ \E e \in Events \ {"ACTIVATED", "REJECTED"} : Ledgered(e)
<1>. USE DEF Leave, Goto, Billed, Activated
<1>1. cur # None
  BY ExecutionAssumption
<1>2. lineage \in [Mutations -> Seq(Events)]
  BY DEF TypeOK
<1>3. lineage' # lineage
  <2>1. PICK e \in Events : Ledgered(e)
    BY DEF Events
  <2>2. lineage'[cur] = Append(lineage[cur], e) /\ lineage[cur] \in Seq(Events)
    BY <1>2, <2>1 DEF Ledgered
  <2>3. Len(lineage'[cur]) = Len(lineage[cur]) + 1 /\ Len(lineage[cur]) \in Nat
    BY <2>2
  <2>. QED
    BY <2>3
<1>4. CASE PolicyActivates \/ PolicyRejects \/ Demote
  BY <1>1, <1>4 DEF PolicyActivates, PolicyRejects, Demote
<1>5. CASE RecordEvidence \/ EntropyExceeded \/ RiskExceeded \/ Revoke \/ ActivateCertificate
  BY <1>5 DEF RecordEvidence, EntropyExceeded, RiskExceeded, Revoke, ActivateCertificate, Events
<1>6. CASE Lifecycle \/ Governance \/ \E m \in Mutations : Begin(m)
  BY <1>3, <1>6 DEF Lifecycle, Governance, Begin, RecordTransition, RefuseTransition,
     PersistTransition, Blocked, GovernorAccepts, GovernorRejects, disk, history
<1>7. CASE Applying \/ RollingBack
  BY <1>3, <1>7 DEF Applying, RollingBack, OpenTransaction, Backup, WriteTarget, TestsPass, Unlink,
     Restore, DropBackups, TargetRefused, VerifyPasses, VerifyFails,
     TestsFail, BlockRaises, IssueCertificate, CertificateRaises, JournalRefusal, disk, history
<1>8. CASE ChargeEntropy \/ JournalFailedTests
  BY <1>3, <1>8 DEF ChargeEntropy, JournalFailedTests
<1>9. CASE WriteManifest \/ ManifestFails \/ JournalPromotion \/ AfterCycle \/ ExecuteRaises \/ Crash
  BY <1>3, <1>9 DEF WriteManifest, ManifestFails, JournalPromotion, AfterCycle, ExecuteRaises, Crash,
     disk, history
<1>. QED
  BY <1>4, <1>5, <1>6, <1>7, <1>8, <1>9 DEF Next, Execute, Gates, Finishing

\* Counter, charges and verdicts go on agreeing (mutation_executor.py 619-663).
LEMMA BookStep ==
  ASSUME TypeOK, Control, Bookkeeping, Next, TypeOK', Control'
  PROVE  Bookkeeping'
<1>. USE DEF Bookkeeping
<1>1. Unbegun'
  BY UnbegunStep
<1>2. LocalsOK /\ LedgersOK
  BY TypeParts
<1>3. CASE ChargeEntropy
  <2>1. PICK bits \in Bits : /\ WithinBudget(bits)
                             /\ epochBits' = epochBits + bits
                             /\ charged' = [charged EXCEPT ![cur] = bits]
    BY <1>3 DEF ChargeEntropy
  <2>2. /\ pc = "entropy" /\ pc' = "promotion" /\ cur' = cur /\ cur \in Mutations
        /\ UNCHANGED lineage /\ cur # None
    BY <1>2, <1>3, ExecutionAssumption DEF ChargeEntropy, Goto, LocalsOK
  <2>3. charged[cur] = Unpaid /\ bits \in Nat
    BY <2>2, ExecutionAssumption DEF Billed
  <2>4. /\ IsFiniteSet(Charged') /\ Charged' = Charged \cup {cur}
        /\ SumOf(charged', Charged') = SumOf(charged, Charged) + bits
    BY <2>1, <2>2, <2>3, ChargeAdds
  <2>5. epochBits = SumOf(charged, Charged)
    BY DEF EntropyAccounted
  <2>6. epochBits' = SumOf(charged', Charged')
    BY <2>1, <2>4, <2>5
  <2>7. epochBits' <= PerEpoch
    BY <2>1 DEF WithinBudget
  <2>8. \A m \in Mutations : Range(lineage'[m]) \cap {"ACTIVATED", "REJECTED"} # {} => m \in Charged'
    BY <2>2, <2>4 DEF EntropyAccounted
  <2>9. EntropyAccounted'
    BY <2>6, <2>7, <2>8 DEF EntropyAccounted
  <2>10. charged'[cur] # Unpaid
    <3>1. charged'[cur] = bits
      BY <1>2, <2>1, <2>2 DEF LedgersOK
    <3>. QED
      BY <2>3, <3>1 DEF Unpaid
  <2>11. Billed'
    BY <2>2, <2>10 DEF Billed, Ahead, Activated, InBlock
  <2>. QED
    BY <1>1, <2>4, <2>9, <2>11
<1>4. CASE ~ChargeEntropy
  <2>1. UNCHANGED <<epochBits, charged>>
    BY <1>4, Charging
  <2>2. Charged' = Charged
    BY <2>1 DEF Charged
  <2>3. ASSUME NEW m \in Mutations, Range(lineage'[m]) \cap {"ACTIVATED", "REJECTED"} # {}
        PROVE  m \in Charged
    <3>1. CASE Range(lineage[m]) \cap {"ACTIVATED", "REJECTED"} # {}
      BY <3>1 DEF EntropyAccounted
    <3>2. CASE Range(lineage[m]) \cap {"ACTIVATED", "REJECTED"} = {}
      <4>1. lineage'[m] # lineage[m]
        BY <2>3, <3>2
      <4>2. m = cur
        BY <4>1, LedgersGrow
      <4>3. PICK e \in Events : Ledgered(e)
        BY <4>1, LedgerSteps
      <4>4. lineage \in [Mutations -> Seq(Events)] /\ lineage[m] \in Seq(Events)
        BY <1>2 DEF LedgersOK
      <4>5. ASSUME NEW d \in Events \ {"ACTIVATED", "REJECTED"}, Ledgered(d) PROVE FALSE
        <5>1. lineage'[m] = Append(lineage[m], d)
          BY <4>2, <4>4, <4>5 DEF Ledgered
        <5>2. \A x : x \in Range(lineage'[m]) <=> x \in Range(lineage[m]) \/ x = d
          BY <4>4, <5>1, RangeOfAppend
        <5>. QED
          BY <2>3, <3>2, <5>2
      <4>6. e \in {"ACTIVATED", "REJECTED"}
        BY <4>3, <4>5
      <4>7. charged[cur] # Unpaid
        BY <4>2, <4>3, <4>5, <4>6, VerdictCharged
      <4>. QED
        BY <4>2, <4>7 DEF Charged
    <3>. QED
      BY <3>1, <3>2
  <2>4. epochBits' <= PerEpoch /\ epochBits' = SumOf(charged', Charged')
    BY <2>1, <2>2 DEF EntropyAccounted
  <2>5. EntropyAccounted'
    BY <2>2, <2>3, <2>4 DEF EntropyAccounted
  <2>6. ASSUME cur' # None PROVE Billed'
    <3>1. CASE \E m \in Mutations : Begin(m)
      <4>1. PICK m \in Mutations : Begin(m)
        BY <3>1
      <4>2. status[m] = "new" /\ cur' = m /\ pc' = "transition" /\ life' = "proposed"
        BY <4>1 DEF Begin, Control
      <4>3. charged'[cur'] = Unpaid
        BY <2>1, <4>2 DEF Unbegun
      <4>. QED
        BY <4>2, <4>3 DEF Billed, Ahead, Activated, InBlock
    <3>2. CASE ~\E m \in Mutations : Begin(m)
      <4>1. (Unbilled' => Unbilled) /\ (Accepted' => Accepted) /\ cur' = cur
        BY <1>4, <2>6, <3>2, BilledFlow
      <4>2. (Unbilled => charged[cur] = Unpaid) /\ (Accepted => charged[cur] # Unpaid)
        BY <2>6, <4>1 DEF Billed, Unbilled, Accepted
      <4>3. (Unbilled' => charged'[cur'] = Unpaid) /\ (Accepted' => charged'[cur'] # Unpaid)
        BY <2>1, <4>1, <4>2
      <4>. QED
        BY <4>3 DEF Billed, Unbilled, Accepted
    <3>. QED
      BY <3>1, <3>2
  <2>. QED
    BY <1>1, <2>2, <2>5, <2>6
<1>. QED
  BY <1>3, <1>4

-----------------------------------------------------------------------------
(* The lifecycle file                                                      *)

\* What an appended entry does to the transitions (journal.append_tx).
LEMMA AppendedTransitions ==
  ASSUME NEW S, NEW j \in Seq(S), NEW e \in S
  PROVE  /\ \A i \in Transitions(j) : i \in Nat /\ 0 < i /\ i <= Len(j) /\ Append(j, e)[i] = j[i]
         /\ Transitions(Append(j, e)) = Transitions(j) \cup (IF e \in LifeStates THEN {Len(j) + 1} ELSE {})
         /\ Append(j, e)[Len(j) + 1] = e /\ Len(j) \in Nat
<1>1. /\ Len(j) \in Nat /\ DOMAIN j = 1..Len(j) /\ DOMAIN Append(j, e) = 1..(Len(j) + 1)
      /\ \A i \in 1..Len(j) : Append(j, e)[i] = j[i]
      /\ Append(j, e)[Len(j) + 1] = e
  OBVIOUS
<1>2. \A i \in Transitions(j) : i \in Nat /\ 0 < i /\ i <= Len(j) /\ Append(j, e)[i] = j[i]
  BY <1>1 DEF Transitions
<1>3. ASSUME NEW i
      PROVE  i \in Transitions(Append(j, e)) <=>
               i \in Transitions(j) \/ (i = Len(j) + 1 /\ e \in LifeStates)
  <2>1. i \in 1..(Len(j) + 1) <=> i \in 1..Len(j) \/ i = Len(j) + 1
    BY <1>1
  <2>2. i \in Transitions(j) <=> i \in 1..Len(j) /\ j[i] \in LifeStates
    BY <1>1 DEF Transitions
  <2>3. i \in Transitions(Append(j, e)) <=> i \in 1..(Len(j) + 1) /\ Append(j, e)[i] \in LifeStates
    BY <1>1 DEF Transitions
  <2>4. Len(j) + 1 \notin 1..Len(j)
    BY <1>1
  <2>. QED
    BY <1>1, <2>1, <2>2, <2>3, <2>4
<1>4. Transitions(Append(j, e)) = Transitions(j) \cup (IF e \in LifeStates THEN {Len(j) + 1} ELSE {})
  BY <1>3
<1>. QED
  BY <1>1, <1>2, <1>4

\* An entry that is no transition changes neither the last state nor what lags behind it.
LEMMA OtherEntry ==
  ASSUME NEW S, NEW j \in Seq(S), NEW e \in S, e \notin LifeStates, NEW s
  PROVE  (Latest(j, s) => Latest(Append(j, e), s)) /\ (Lags(j, s) => Lags(Append(j, e), s))
<1>1. /\ Transitions(Append(j, e)) = Transitions(j)
      /\ \A i \in Transitions(j) : i \in Nat /\ 0 < i /\ i <= Len(j) /\ Append(j, e)[i] = j[i]
  <2>1. Transitions(Append(j, e)) = Transitions(j) \cup (IF e \in LifeStates THEN {Len(j) + 1} ELSE {})
    BY AppendedTransitions
  <2>2. \A i \in Transitions(j) : i \in Nat /\ 0 < i /\ i <= Len(j) /\ Append(j, e)[i] = j[i]
    BY AppendedTransitions
  <2>. QED
    BY <2>1, <2>2
<1>2. ASSUME Latest(j, s) PROVE Latest(Append(j, e), s)
  <2>1. CASE s = "proposed" /\ Transitions(j) = {}
    BY <1>1, <2>1 DEF Latest
  <2>2. CASE \E i \in Transitions(j) : j[i] = s /\ \A k \in Transitions(j) : k <= i
    BY <1>1, <2>2 DEF Latest
  <2>. QED
    BY <1>2, <2>1, <2>2 DEF Latest
<1>3. ASSUME Lags(j, s) PROVE Lags(Append(j, e), s)
  <2>1. PICK i \in {0} \cup Transitions(j) :
               /\ s = IF i = 0 THEN "proposed" ELSE j[i]
               /\ \A k, l \in Transitions(j) : i < k /\ i < l => k = l
    BY <1>3 DEF Lags
  <2>2. s = IF i = 0 THEN "proposed" ELSE Append(j, e)[i]
    BY <1>1, <2>1
  <2>. QED
    BY <1>1, <2>1, <2>2 DEF Lags
<1>. QED
  BY <1>2, <1>3

\* The last state lags behind nothing, and a new one is one ahead of it (_journal_transition).
LEMMA NextState ==
  ASSUME NEW S, NEW j \in Seq(S), NEW s, Latest(j, s)
  PROVE  /\ Lags(j, s)
         /\ \A e \in S \cap LifeStates : Lags(Append(j, e), s) /\ Latest(Append(j, e), e)
<1>0. DOMAIN j = 1..Len(j) /\ Len(j) \in Nat
  OBVIOUS
<1>1. PICK i \in {0} \cup Transitions(j) : /\ s = IF i = 0 THEN "proposed" ELSE j[i]
                                          /\ \A k \in Transitions(j) : k <= i
  <2>1. CASE s = "proposed" /\ Transitions(j) = {}
    BY <2>1
  <2>2. CASE \E i \in Transitions(j) : j[i] = s /\ \A k \in Transitions(j) : k <= i
    <3>1. PICK i \in Transitions(j) : j[i] = s /\ \A k \in Transitions(j) : k <= i
      BY <2>2
    <3>2. i # 0
      BY <1>0 DEF Transitions
    <3>. QED
      BY <3>1, <3>2
  <2>. QED
    BY <2>1, <2>2 DEF Latest
<1>2. i \in Nat /\ \A k \in Transitions(j) : k \in Nat /\ ~(i < k)
  BY <1>0, <1>1 DEF Transitions
<1>3. Lags(j, s)
  BY <1>1, <1>2 DEF Lags
<1>4. ASSUME NEW e \in S \cap LifeStates
      PROVE  Lags(Append(j, e), s) /\ Latest(Append(j, e), e)
  <2>1. PICK t : t = Append(j, e)
    OBVIOUS
  <2>2. /\ \A k \in Transitions(j) : k \in Nat /\ 0 < k /\ k <= Len(j) /\ t[k] = j[k]
        /\ Transitions(t) = Transitions(j) \cup {Len(j) + 1}
        /\ t[Len(j) + 1] = e
    BY <2>1, AppendedTransitions
  <2>3. s = IF i = 0 THEN "proposed" ELSE t[i]
    BY <1>1, <2>2
  <2>4. \A k, l \in Transitions(t) : i < k /\ i < l => k = l
    BY <1>2, <2>2
  <2>5. Lags(t, s)
    BY <1>1, <2>2, <2>3, <2>4 DEF Lags
  <2>6. \A k \in Transitions(t) : k <= Len(j) + 1
    BY <1>0, <2>2
  <2>7. Latest(t, e)
    BY <2>2, <2>6 DEF Latest
  <2>. QED
    BY <2>1, <2>5, <2>7
<1>. QED
  BY <1>3, <1>4

\* But for the transitions and their refusal, a step of a mutation neither changes its
\* state nor journals one.
LEMMA NoTransition ==
  ASSUME TypeOK, Control, Next, ~RecordTransition, ~PersistTransition, ~RefuseTransition,
         ~\E m \in Mutations : Begin(m)
  PROVE  /\ UNCHANGED lifeFile
         /\ UNCHANGED journal \/ (cur \in Mutations /\ \E e \in Entries \ LifeStates : Journalled(e))
         /\ cur' = None \/ (cur' = cur /\ life' = life /\ pc # "persist" /\ pc' # "persist")
<1>1. LocalsOK
  BY TypeParts
<1>2. pc # "idle" => cur \in Mutations
  BY <1>1 DEF LocalsOK
<1>3. UNCHANGED lifeFile
  BY Filing
<1>. USE DEF Leave, Goto, EnterRollback
<1>4. CASE Governance
  BY <1>2, <1>3, <1>4 DEF Governance, Blocked, GovernorAccepts, GovernorRejects, disk
<1>5. CASE OpenTransaction
  BY <1>2, <1>3, <1>5 DEF OpenTransaction, Entries, LifeStates
<1>6. CASE Applying /\ ~OpenTransaction
  BY <1>2, <1>3, <1>6 DEF Applying, Backup, WriteTarget, TargetRefused, VerifyPasses, VerifyFails,
     TestsPass, TestsFail, BlockRaises, disk
<1>7. CASE Unlink \/ Restore \/ CertificateRaises
  BY <1>2, <1>3, <1>7 DEF Unlink, Restore, DropBackups, CertificateRaises, disk
<1>8. CASE IssueCertificate
  <2>1. Journalled("rolled_back") \/ Journalled("rolled_back_partly")
    BY <1>8 DEF IssueCertificate
  <2>2. \E e \in Entries \ LifeStates : Journalled(e)
    BY <2>1 DEF Entries, LifeStates
  <2>3. pc = "certificate" /\ (cur' = None \/ (cur' = cur /\ life' = life /\ pc' # "persist"))
    BY <1>8 DEF IssueCertificate
  <2>. QED
    BY <1>2, <1>3, <2>2, <2>3
<1>9. CASE JournalRefusal \/ JournalFailedTests \/ WriteManifest \/ JournalPromotion
  BY <1>2, <1>3, <1>9 DEF JournalRefusal, JournalFailedTests, WriteManifest, JournalPromotion,
     Entries, LifeStates
<1>10. CASE Gates /\ ~JournalFailedTests
  BY <1>2, <1>3, <1>10 DEF Gates, RecordEvidence, ChargeEntropy, EntropyExceeded, RiskExceeded,
     PolicyRejects, PolicyActivates, Demote, Revoke
<1>11. CASE ManifestFails \/ ActivateCertificate \/ AfterCycle \/ ExecuteRaises \/ Crash
  BY <1>2, <1>3, <1>11 DEF ManifestFails, ActivateCertificate, AfterCycle, ExecuteRaises, Crash, disk
<1>. QED
  BY <1>4, <1>5, <1>6, <1>7, <1>8, <1>9, <1>10, <1>11
     DEF Next, Execute, Lifecycle, RollingBack, Finishing

\* What FileBehindLedger says of one mutation.
FileBehind(m) == IF lifeFile[m] = "none"
                 THEN Lags(journal[m], "proposed") \/ Latest(journal[m], "completed")
                 ELSE Lags(journal[m], lifeFile[m])

\* The lifecycle file goes on being at most one transition behind (_persist_state).
LEMMA LedgeringStep ==
  ASSUME TypeOK, Control, Ledgering, Unbegun, Next, TypeOK', Control'
  PROVE  Ledgering'
<1>. USE DEF Ledgering
<1>1. LocalsOK /\ LedgersOK /\ \A m \in Mutations : journal[m] \in Seq(Entries)
  BY TypeParts DEF LedgersOK
<1>2. \A m \in Mutations : FileBehind(m)
  BY DEF FileBehindLedger, FileBehind
<1>3. \A m \in Mutations : m # cur => FileBehind(m)'
  BY <1>2, OthersAsWere DEF FileBehind
<1>4. pc # "idle" => cur \in Mutations /\ cur # None /\ Filed
  BY <1>1, ExecutionAssumption DEF LocalsOK
<1>5. ASSUME NEW m \in Mutations, Begin(m) PROVE Ledgering'
  <2>1. /\ status[m] = "new" /\ cur' = m /\ pc' = "transition" /\ life' = "proposed" /\ cur = None
        /\ UNCHANGED <<journal, lifeFile>>
    BY <1>1, <1>5 DEF Begin, Control, LocalsOK, disk
  <2>2. journal'[m] = <<>> /\ lifeFile'[m] = "none"
    BY <2>1 DEF Unbegun
  <2>3. Latest(<<>>, "proposed")
    BY DEF Latest, Transitions
  <2>4. Filed'
    BY <2>1, <2>2, <2>3 DEF Filed
  <2>5. FileBehindLedger'
    BY <1>3, <2>1, ExecutionAssumption DEF FileBehindLedger, FileBehind
  <2>. QED
    BY <2>4, <2>5
<1>6. CASE RecordTransition
  <2>1. /\ pc = "transition" /\ pc' = "persist" /\ life' = Successor[life] /\ cur' = cur
        /\ UNCHANGED lifeFile /\ cur \in Mutations
        /\ journal'[cur] = Append(journal[cur], Successor[life])
    BY <1>1, <1>4, <1>6 DEF RecordTransition, Journalled, LedgersOK
  <2>2. life # "completed" /\ Successor[life] \in Entries \cap LifeStates
    BY <1>1, <2>1 DEF Control, Successor, LocalsOK, LifeStates, Entries
  <2>3. /\ Latest(journal[cur], life)
        /\ lifeFile[cur] = IF life \in {"proposed", "completed"} THEN "none" ELSE life
    BY <1>4, <2>1 DEF Filed
  <2>4. Lags(journal'[cur], life) /\ Latest(journal'[cur], Successor[life])
    BY <1>1, <2>1, <2>2, <2>3, NextState
  <2>5. Filed'
    BY <2>1, <2>4 DEF Filed
  <2>6. \A m \in Mutations : m = cur => FileBehind(m)'
    BY <1>1, <2>1, <2>2, <2>3, <2>4 DEF FileBehind, LocalsOK, LifeStates
  <2>. QED
    BY <1>3, <2>5, <2>6 DEF FileBehindLedger, FileBehind
<1>7. CASE PersistTransition
  <2>1. /\ pc = "persist" /\ cur' = cur /\ life' = life /\ UNCHANGED journal /\ cur \in Mutations
        /\ lifeFile'[cur] = (IF life = "completed" THEN "none" ELSE life)
        /\ pc' = AfterTransition[life] /\ life # "proposed" /\ life \in LifeStates
    BY <1>1, <1>4, <1>7 DEF PersistTransition, Goto, LedgersOK, Control, LocalsOK
  <2>2. Latest(journal[cur], life)
    BY <1>4, <2>1 DEF Filed
  <2>3. Lags(journal[cur], life)
    BY <1>1, <2>1, <2>2, NextState
  <2>4. Filed'
    BY <2>1, <2>2 DEF Filed, LifeStates
  <2>5. \A m \in Mutations : m = cur => FileBehind(m)'
    BY <2>1, <2>2, <2>3 DEF FileBehind, LifeStates
  <2>. QED
    BY <1>3, <2>4, <2>5 DEF FileBehindLedger, FileBehind
<1>8. CASE RefuseTransition
  <2>1. /\ pc = "transition" /\ cur' = None /\ cur \in Mutations /\ lifeFile'[cur] = life
        /\ journal'[cur] = Append(journal[cur], "refused")
        /\ life \in LifeStates
    BY <1>1, <1>4, <1>8 DEF RefuseTransition, Leave, Journalled, LedgersOK, LocalsOK
  <2>2. Lags(journal[cur], life)
    BY <1>1, <1>4, <2>1, NextState DEF Filed
  <2>3. "refused" \in Entries /\ "refused" \notin LifeStates
    BY DEF Entries, LifeStates
  <2>4. Lags(journal'[cur], life)
    BY <1>1, <2>1, <2>2, <2>3, OtherEntry
  <2>5. \A m \in Mutations : m = cur => FileBehind(m)'
    BY <2>1, <2>4 DEF FileBehind, LifeStates
  <2>. QED
    BY <1>3, <2>1, <2>5 DEF FileBehindLedger, FileBehind
<1>9. CASE /\ ~RecordTransition /\ ~PersistTransition /\ ~RefuseTransition
           /\ ~\E m \in Mutations : Begin(m)
  <2>1. /\ UNCHANGED lifeFile
        /\ UNCHANGED journal \/ (cur \in Mutations /\ \E e \in Entries \ LifeStates : Journalled(e))
        /\ cur' = None \/ (cur' = cur /\ life' = life /\ pc # "persist" /\ pc' # "persist")
    BY <1>9, NoTransition
  <2>2. ASSUME cur \in Mutations, NEW s
        PROVE  /\ Latest(journal[cur], s) => Latest(journal'[cur], s)
               /\ Lags(journal[cur], s) => Lags(journal'[cur], s)
    <3>1. CASE UNCHANGED journal
      BY <3>1
    <3>2. ASSUME NEW e \in Entries \ LifeStates, Journalled(e)
          PROVE  /\ Latest(journal[cur], s) => Latest(journal'[cur], s)
                 /\ Lags(journal[cur], s) => Lags(journal'[cur], s)
      <4>1. journal'[cur] = Append(journal[cur], e) /\ journal[cur] \in Seq(Entries)
        BY <1>1, <2>2, <3>2 DEF Journalled, LedgersOK
      <4>. QED
        BY <4>1, OtherEntry
    <3>. QED
      BY <2>1, <3>1, <3>2
  <2>3. \A m \in Mutations : m = cur => FileBehind(m)'
    BY <1>2, <2>1, <2>2 DEF FileBehind
  <2>4. cur' # None => Filed'
    <3>. SUFFICES ASSUME cur' # None PROVE Filed'
      OBVIOUS
    <3>1. cur' = cur /\ life' = life /\ pc # "persist" /\ pc' # "persist" /\ cur # None
      BY <2>1
    <3>2. cur \in Mutations /\ Filed
      BY <1>1, <3>1 DEF LocalsOK
    <3>3. Latest(journal'[cur], life)
      BY <2>2, <3>2 DEF Filed
    <3>. QED
      BY <2>1, <3>1, <3>2, <3>3 DEF Filed
  <2>. QED
    BY <1>3, <2>3, <2>4 DEF FileBehindLedger, FileBehind
<1>. QED
  BY <1>5, <1>6, <1>7, <1>8, <1>9

-----------------------------------------------------------------------------
(* The way of a mutation that succeeds                                     *)

\* The journal of a mutation that succeeds, entry by entry (execute).
LEMMA Entries7 ==
  /\ Append(<<>>, "staged") = <<"staged">>
  /\ Append(<<"staged">>, "certified") = <<"staged", "certified">>
  /\ Append(<<"staged", "certified">>, "executing") = <<"staged", "certified", "executing">>
  /\ Append(<<"staged", "certified", "executing">>, "planned")
       = <<"staged", "certified", "executing", "planned">>
  /\ Append(<<"staged", "certified", "executing", "planned">>, "completed")
       = <<"staged", "certified", "executing", "planned", "completed">>
  /\ Append(<<"staged", "certified", "executing", "planned", "completed">>, "manifest")
       = <<"staged", "certified", "executing", "planned", "completed", "manifest">>
  /\ Append(<<"staged", "certified", "executing", "planned", "completed", "manifest">>, "promoted")
       = <<"staged", "certified", "executing", "planned", "completed", "manifest", "promoted">>
<1>1. \A e \in {"staged", "certified", "executing", "planned",
                 "completed", "manifest", "promoted"} : e \in Entries
  BY DEF Entries
<1>2. /\ Append(<<>>, "staged") = <<"staged">>
  OBVIOUS
<1>3. Append(<<"staged">>, "certified")
        = <<"staged", "certified">>
  <2>1. /\ Append(<<"staged">>, "certified") \in Seq(Entries)
        /\ <<"staged", "certified">> \in Seq(Entries)
        /\ Len(Append(<<"staged">>, "certified")) = 2
        /\ Len(<<"staged", "certified">>) = 2
    BY <1>1
  <2>2. \A i \in 1..2 : Append(<<"staged">>, "certified")[i]
                       = <<"staged", "certified">>[i]
    OBVIOUS
  <2>. QED
    BY <2>1, <2>2, SeqEqual
<1>4. Append(<<"staged", "certified">>, "executing")
        = <<"staged", "certified", "executing">>
  <2>1. /\ Append(<<"staged", "certified">>, "executing") \in Seq(Entries)
        /\ <<"staged", "certified", "executing">> \in Seq(Entries)
        /\ Len(Append(<<"staged", "certified">>, "executing")) = 3
        /\ Len(<<"staged", "certified", "executing">>) = 3
    BY <1>1
  <2>2. \A i \in 1..3 : Append(<<"staged", "certified">>, "executing")[i]
                       = <<"staged", "certified", "executing">>[i]
    OBVIOUS
  <2>. QED
    BY <2>1, <2>2, SeqEqual
<1>5. Append(<<"staged", "certified", "executing">>, "planned")
        = <<"staged", "certified", "executing", "planned">>
  <2>1. /\ Append(<<"staged", "certified", "executing">>, "planned") \in Seq(Entries)
        /\ <<"staged", "certified", "executing", "planned">> \in Seq(Entries)
        /\ Len(Append(<<"staged", "certified", "executing">>, "planned")) = 4
        /\ Len(<<"staged", "certified", "executing", "planned">>) = 4
    BY <1>1
  <2>2. \A i \in 1..4 : Append(<<"staged", "certified", "executing">>, "planned")[i]
                       = <<"staged", "certified", "executing", "planned">>[i]
    OBVIOUS
  <2>. QED
    BY <2>1, <2>2, SeqEqual
<1>6. Append(<<"staged", "certified", "executing", "planned">>, "completed")
        = <<"staged", "certified", "executing", "planned", "completed">>
  <2>1. /\ Append(<<"staged", "certified", "executing", "planned">>, "completed") \in Seq(Entries)
        /\ <<"staged", "certified", "executing", "planned", "completed">> \in Seq(Entries)
        /\ Len(Append(<<"staged", "certified", "executing", "planned">>, "completed")) = 5
        /\ Len(<<"staged", "certified", "executing", "planned", "completed">>) = 5
    BY <1>1
  <2>2. \A i \in 1..5 : Append(<<"staged", "certified", "executing", "planned">>, "completed")[i]
                       = <<"staged", "certified", "executing", "planned", "completed">>[i]
    OBVIOUS
  <2>. QED
    BY <2>1, <2>2, SeqEqual
<1>7. Append(<<"staged", "certified", "executing", "planned", "completed">>, "manifest")
        = <<"staged", "certified", "executing", "planned", "completed", "manifest">>
  <2>1. /\ Append(<<"staged", "certified", "executing", "planned", "completed">>, "manifest") \in Seq(Entries)
        /\ <<"staged", "certified", "executing", "planned", "completed", "manifest">> \in Seq(Entries)
        /\ Len(Append(<<"staged", "certified", "executing", "planned", "completed">>, "manifest")) = 6
        /\ Len(<<"staged", "certified", "executing", "planned", "completed", "manifest">>) = 6
    BY <1>1
  <2>2. \A i \in 1..6 : Append(<<"staged", "certified", "executing", "planned", "completed">>, "manifest")[i]
                       = <<"staged", "certified", "executing", "planned", "completed", "manifest">>[i]
    OBVIOUS
  <2>. QED
    BY <2>1, <2>2, SeqEqual
<1>8. Append(<<"staged", "certified", "executing", "planned", "completed", "manifest">>, "promoted")
        = <<"staged", "certified", "executing", "planned", "completed", "manifest", "promoted">>
  <2>1. /\ Append(<<"staged", "certified", "executing", "planned", "completed", "manifest">>, "promoted") \in Seq(Entries)
        /\ <<"staged", "certified", "executing", "planned", "completed", "manifest", "promoted">> \in Seq(Entries)
        /\ Len(Append(<<"staged", "certified", "executing", "planned", "completed", "manifest">>, "promoted")) = 7
        /\ Len(<<"staged", "certified", "executing", "planned", "completed", "manifest", "promoted">>) = 7
    BY <1>1
  <2>2. \A i \in 1..7 : Append(<<"staged", "certified", "executing", "planned", "completed", "manifest">>, "promoted")[i]
                       = <<"staged", "certified", "executing", "planned", "completed", "manifest", "promoted">>[i]
    OBVIOUS
  <2>. QED
    BY <2>1, <2>2, SeqEqual
<1>. QED
  BY <1>2, <1>3, <1>4, <1>5, <1>6, <1>7, <1>8, Zenon

\* What is appended to the journal of the running mutation.
LEMMA JournalAppends ==
  ASSUME TypeOK, cur \in Mutations
  PROVE  \A e : Journalled(e) => journal'[cur] = Append(journal[cur], e)
BY DEF TypeOK, Journalled

\* The journal tells how far a mutation has come that succeeds (execute).
LEMMA JourneyStep ==
  ASSUME TypeOK, Control, cur # None => Journey, pc = "idle" => ~testsOk, Unbegun, Next,
         cur' # None
  PROVE  Journey'
<1>1. LocalsOK
  BY TypeParts
<1>2. pc # "idle" => cur \in Mutations /\ Journey
  BY <1>1, ExecutionAssumption DEF LocalsOK
<1>3. ASSUME NEW s, Leave(s) PROVE FALSE
  BY <1>3 DEF Leave
<1>. USE DEF InBlock
<1>4. ASSUME NEW m \in Mutations, Begin(m) PROVE Journey'
  <2>1. /\ pc' = "transition" /\ life' = "proposed" /\ cur' = m /\ journal'[m] = <<>>
        /\ ~testsOk'
    BY <1>4 DEF Begin, Control, disk, Unbegun
  <2>. QED
    BY <2>1 DEF Journey, Ahead
<1>5. CASE RecordTransition
  <2>1. /\ life' = Successor[life] /\ pc = "transition" /\ pc' = "persist" /\ cur' = cur
        /\ UNCHANGED testsOk /\ life \in LifeStates /\ life # "completed"
        /\ journal'[cur] = Append(journal[cur], Successor[life])
    BY <1>1, <1>2, <1>5, JournalAppends DEF RecordTransition, Control, LocalsOK
  <2>2. \/ life = "proposed" /\ life' = "staged"
        \/ life = "staged" /\ life' = "certified"
        \/ life = "certified" /\ life' = "executing"
        \/ life = "executing" /\ life' = "completed"
    BY <2>1 DEF Successor, LifeStates
  <2>3. CASE life = "proposed" /\ life' = "staged"
    <3>1. journal[cur] = <<>> /\ ~testsOk
      BY <1>2, <2>1, <2>3 DEF Journey, Ahead
    <3>2. journal'[cur] = <<"staged">>
      BY <2>1, <2>3, <3>1, Entries7
    <3>. QED
      BY <2>1, <2>3, <3>1, <3>2 DEF Journey, Ahead
  <2>4. CASE life = "staged" /\ life' = "certified"
    <3>1. journal[cur] = <<"staged">> /\ ~testsOk
      BY <1>2, <2>1, <2>4 DEF Journey, Ahead
    <3>2. journal'[cur] = <<"staged", "certified">>
      BY <2>1, <2>4, <3>1, Entries7
    <3>. QED
      BY <2>1, <2>4, <3>1, <3>2 DEF Journey, Ahead
  <2>5. CASE life = "certified" /\ life' = "executing"
    <3>1. journal[cur] = <<"staged", "certified">> /\ ~testsOk
      BY <1>2, <2>1, <2>5 DEF Journey, Ahead
    <3>2. journal'[cur] = <<"staged", "certified", "executing">>
      BY <2>1, <2>5, <3>1, Entries7
    <3>. QED
      BY <2>1, <2>5, <3>1, <3>2 DEF Journey, Ahead
  <2>6. CASE life = "executing" /\ life' = "completed"
    <3>1. journal[cur] = <<"staged", "certified", "executing", "planned">>
      BY <1>2, <2>1, <2>6 DEF Journey
    <3>2. journal'[cur] = <<"staged", "certified", "executing", "planned", "completed">>
      BY <2>1, <2>6, <3>1, Entries7
    <3>. QED
      BY <2>1, <2>6, <3>2 DEF Journey, Ahead
  <2>. QED
    BY <2>2, <2>3, <2>4, <2>5, <2>6
<1>6. CASE PersistTransition
  <2>1. /\ pc = "persist" /\ pc' = AfterTransition[life] /\ life \in LifeStates /\ life # "proposed"
        /\ UNCHANGED <<cur, life, journal, testsOk>>
    BY <1>1, <1>6 DEF PersistTransition, Goto, Control, LocalsOK
  <2>2. \/ life = "staged" /\ pc' = "admission"
        \/ life = "certified" /\ pc' = "transition"
        \/ life = "executing" /\ pc' = "plan"
        \/ life = "completed" /\ pc' = "manifest"
    BY <2>1 DEF AfterTransition, LifeStates
  <2>3. Journey
    BY <1>2, <2>1
  <2>4. CASE life = "staged" /\ pc' = "admission"
    BY <2>1, <2>3, <2>4 DEF Journey, Ahead
  <2>5. CASE life = "certified" /\ pc' = "transition"
    BY <2>1, <2>3, <2>5 DEF Journey, Ahead
  <2>6. CASE life = "executing" /\ pc' = "plan"
    BY <2>1, <2>3, <2>6 DEF Journey, Ahead
  <2>7. CASE life = "completed" /\ pc' = "manifest"
    BY <2>1, <2>3, <2>7 DEF Journey, Ahead
  <2>. QED
    BY <2>2, <2>4, <2>5, <2>6, <2>7
<1>7. CASE RefuseTransition \/ Blocked \/ GovernorRejects \/ ManifestFails \/ AfterCycle
  BY <1>3, <1>7 DEF RefuseTransition, Blocked, GovernorRejects, ManifestFails, AfterCycle
<1>8. CASE ExecuteRaises \/ Crash
  BY <1>3, <1>8 DEF ExecuteRaises, Crash
<1>9. CASE GovernorAccepts
  <2>1. /\ pc = "admission" /\ pc' = "transition" /\ life = "staged"
        /\ UNCHANGED <<cur, life, journal, testsOk>>
    BY <1>9 DEF GovernorAccepts, Goto, Control, disk
  <2>. QED
    BY <1>2, <2>1 DEF Journey, Ahead
<1>10. CASE OpenTransaction
  <2>1. /\ pc = "plan" /\ pc' = "apply" /\ UNCHANGED <<cur, life, testsOk>>
        /\ journal'[cur] = Append(journal[cur], "planned") /\ life = "executing"
    BY <1>2, <1>10, JournalAppends DEF OpenTransaction, Control
  <2>2. journal[cur] = <<"staged", "certified", "executing">> /\ ~testsOk
    BY <1>2, <2>1 DEF Journey, Ahead
  <2>3. journal'[cur] = <<"staged", "certified", "executing", "planned">>
    BY <2>1, <2>2, Entries7
  <2>. QED
    BY <2>1, <2>2, <2>3 DEF Journey, Ahead
<1>11. CASE Backup \/ WriteTarget \/ VerifyPasses
  <2>1. /\ pc \in {"apply", "write"} /\ pc' \in {"apply", "write", "tests"}
        /\ UNCHANGED <<cur, life, journal, testsOk>>
    BY <1>11 DEF Backup, WriteTarget, VerifyPasses, Goto, disk
  <2>2. journal[cur] = <<"staged", "certified", "executing", "planned">> /\ ~testsOk
    BY <1>2, <2>1 DEF Journey
  <2>. QED
    BY <2>1, <2>2 DEF Journey, Ahead
<1>12. CASE TestsPass
  <2>1. pc = "tests" /\ pc' = "evidence" /\ UNCHANGED <<cur, life, journal>>
    BY <1>12 DEF TestsPass
  <2>2. journal[cur] = <<"staged", "certified", "executing", "planned">>
    BY <1>2, <2>1 DEF Journey
  <2>. QED
    BY <2>1, <2>2 DEF Journey, Ahead
<1>13. CASE TargetRefused \/ VerifyFails \/ TestsFail \/ BlockRaises \/ Unlink \/ Restore
            \/ IssueCertificate \/ CertificateRaises
  <2>1. /\ pc \in InBlock /\ testsOk' \in {testsOk, FALSE}
        /\ pc' \in {"unlink", "restore", "certificate", "evidence", "failed_entry"}
    BY <1>3, <1>13 DEF TargetRefused, VerifyFails, TestsFail, BlockRaises, EnterRollback, Unlink,
       Restore, DropBackups, IssueCertificate, CertificateRaises, Goto
  <2>2. ~testsOk'
    BY <1>2, <2>1 DEF Journey
  <2>. QED
    BY <2>1, <2>2 DEF Journey, Ahead
<1>14. CASE JournalRefusal
  BY <1>14 DEF JournalRefusal, Journey, Ahead, Goto, Control
<1>15. CASE RecordEvidence \/ ChargeEntropy
  <2>1. /\ pc \in {"evidence", "entropy"} /\ pc' \in {"entropy", "promotion"}
        /\ UNCHANGED <<cur, life, journal, testsOk>>
    BY <1>15 DEF RecordEvidence, ChargeEntropy, Goto
  <2>2. testsOk => journal[cur] = <<"staged", "certified", "executing", "planned">>
    BY <1>2, <2>1 DEF Journey
  <2>. QED
    BY <2>1, <2>2 DEF Journey, Ahead
<1>16. CASE EntropyExceeded \/ RiskExceeded
  BY <1>16 DEF EntropyExceeded, RiskExceeded, Journey, Ahead, Goto
<1>17. CASE PolicyRejects \/ JournalFailedTests \/ Demote
  BY <1>17 DEF PolicyRejects, JournalFailedTests, Demote, Journey, Ahead, Goto
<1>18. CASE Revoke
  BY <1>18 DEF Revoke, Journey, Ahead, Goto, Control
<1>19. CASE PolicyActivates
  <2>1. /\ pc = "promotion" /\ pc' = (IF testsOk THEN "transition" ELSE "tests_entry")
        /\ UNCHANGED <<cur, life, journal, testsOk>> /\ life = "executing"
    BY <1>19 DEF PolicyActivates, Goto, Control
  <2>2. testsOk => journal[cur] = <<"staged", "certified", "executing", "planned">>
    BY <1>2, <2>1 DEF Journey
  <2>. QED
    BY <2>1, <2>2 DEF Journey, Ahead
<1>20. CASE WriteManifest
  <2>1. /\ pc = "manifest" /\ pc' = "promote" /\ UNCHANGED <<cur, life>>
        /\ journal'[cur] = Append(journal[cur], "manifest")
    BY <1>2, <1>20, JournalAppends DEF WriteManifest, Goto
  <2>2. /\ journal[cur] = <<"staged", "certified", "executing", "planned", "completed">>
        /\ life = "completed"
    BY <1>2, <2>1 DEF Journey
  <2>3. journal'[cur] = <<"staged", "certified", "executing", "planned", "completed", "manifest">>
    BY <2>1, <2>2, Entries7
  <2>. QED
    BY <2>1, <2>2, <2>3 DEF Journey, Ahead
<1>21. CASE JournalPromotion
  <2>1. /\ pc = "promote" /\ pc' = "activate" /\ UNCHANGED <<cur, life>>
        /\ journal'[cur] = Append(journal[cur], "promoted")
    BY <1>2, <1>21, JournalAppends DEF JournalPromotion, Goto
  <2>2. /\ journal[cur] = <<"staged", "certified", "executing", "planned", "completed", "manifest">>
        /\ life = "completed"
    BY <1>2, <2>1 DEF Journey
  <2>3. journal'[cur] = <<"staged", "certified", "executing", "planned", "completed", "manifest",
                          "promoted">>
    BY <2>1, <2>2, Entries7
  <2>. QED
    BY <2>1, <2>2, <2>3 DEF Journey, Ahead
<1>22. CASE ActivateCertificate
  <2>1. /\ pc = "activate" /\ pc' = "after" /\ UNCHANGED <<cur, life, journal>>
    BY <1>22 DEF ActivateCertificate, Goto
  <2>2. /\ journal[cur] = <<"staged", "certified", "executing", "planned", "completed", "manifest",
                            "promoted">>
        /\ life = "completed"
    BY <1>2, <2>1 DEF Journey
  <2>. QED
    BY <2>1, <2>2 DEF Journey, Ahead
<1>. QED
  BY <1>4, <1>5, <1>6, <1>7, <1>8, <1>9, <1>10, <1>11, <1>12, <1>13, <1>14, <1>15, <1>16, <1>17,
     <1>18, <1>19, <1>20, <1>21, <1>22
     DEF Next, Execute, Lifecycle, Governance, Applying, RollingBack, Gates, Finishing

-----------------------------------------------------------------------------
(* What other mutations wrote                                              *)

\* What Isolated says of one file.
Apart(f) == /\ f \in tx.created => before[cur][f] = Absent
            /\ \A m \in Mutations \ {cur} :
                  /\ Wrote(m, f) \/ Holds(rollbackDir[cur][f], m) => Holds(before[cur][f], m)
                  /\ Shows(before[cur][f], m) =>
                        /\ Shows(files[f], m)
                        /\ rollbackDir[cur][f] # None => Shows(rollbackDir[cur][f], m)

\* What a step does to the output of another mutation in a file.
Output(m, f) ==
    IF pc \in InBlock
    THEN /\ Holds(files'[f], m) => Holds(before[cur][f], m)
         /\ Shows(before[cur][f], m) => Shows(files'[f], m)
    ELSE files'[f] = files[f]

\* The steps of a transaction leave a file no output of others that it did not have at
\* the start, and take none away but by a copy that is cut short (apply, rollback).
LEMMA OthersOutput ==
  ASSUME IInv, cur # None => Isolated, Next, NEW m \in Mutations, m # cur, NEW f \in Files
  PROVE  Output(m, f)
<1>. USE DEF InBlock
<1>1. TypeOK /\ Control /\ FilesOK /\ TxOK /\ LocalsOK
  BY TypeParts DEF IInv
<1>2. pc \in InBlock => cur \in Mutations /\ Apart(f)
  BY <1>1, ExecutionAssumption DEF Isolated, Apart, LocalsOK
<1>3. \A k : ~Holds(Absent, k)
  BY DEF Holds
<1>4. CASE files'[f] = files[f]
  BY <1>2, <1>4 DEF Apart, Output, Wrote
<1>5. CASE WriteTarget
  <2>1. /\ pc \in InBlock /\ cur \in Mutations /\ Head(tx.todo) \in Files
        /\ files' = [files EXCEPT ![Head(tx.todo)] = Written(files[Head(tx.todo)], cur)]
    BY <1>1, <1>5 DEF WriteTarget, LocalsOK, TxOK, Control
  <2>2. CASE f # Head(tx.todo)
    BY <1>1, <1>4, <2>1, <2>2 DEF FilesOK
  <2>3. CASE f = Head(tx.todo)
    <3>1. files'[f] = Written(files[f], cur) /\ files[f] \in Content
      BY <1>1, <2>1, <2>3 DEF FilesOK
    <3>2. \A k : Holds(files'[f], k) <=> Holds(files[f], k) \/ k = cur
      BY <2>1, <3>1, WrittenHolds
    <3>. QED
      BY <1>2, <2>1, <3>2 DEF Apart, Output, Wrote, Shows
  <2>. QED
    BY <2>2, <2>3
<1>6. CASE Unlink
  <2>1. pc = "unlink" /\ tx.undo \subseteq tx.created
    BY <1>1, <1>6, ExecutionAssumption DEF Unlink, Isolated, LocalsOK
  <2>2. files'[f] = files[f] \/ (f \in tx.undo /\ files'[f] = Absent)
    BY <1>1, <1>6 DEF Unlink, FilesOK
  <2>3. CASE f \in tx.undo /\ files'[f] = Absent
    <3>1. before[cur][f] = Absent
      BY <1>2, <2>1, <2>3 DEF Apart
    <3>. QED
      BY <1>3, <2>1, <2>3, <3>1 DEF Output, Shows
  <2>. QED
    BY <1>4, <2>2, <2>3
<1>7. CASE Restore
  <2>1. pc = "restore" /\ cur \in Mutations /\ Apart(f)
    BY <1>2, <1>7 DEF Restore
  <2>2. \/ files'[f] \in {files[f], <<Torn, cur>>}
        \/ rollbackDir[cur][f] # None /\ files'[f] = rollbackDir[cur][f]
    BY <1>1, <1>7 DEF Restore, CopyBack, DropBackups, FilesOK
  <2>3. CASE files'[f] = <<Torn, cur>>
    <3>1. ~Holds(files'[f], m) /\ Holds(files'[f], Torn)
      BY <2>1, <2>3, TornHolds, ExecutionAssumption
    <3>. QED
      BY <2>1, <3>1 DEF Output, Shows
  <2>4. CASE rollbackDir[cur][f] # None /\ files'[f] = rollbackDir[cur][f]
    BY <2>1, <2>4 DEF Output, Apart
  <2>. QED
    BY <1>4, <2>2, <2>3, <2>4
<1>8. CASE OpenTransaction \/ Backup \/ TestsPass
  BY <1>4, <1>8 DEF OpenTransaction, Backup, TestsPass
<1>. QED
  BY <1>4, <1>5, <1>6, <1>7, <1>8, Quiet

\* The block of a transaction is entered by opening it, and in it neither its mutation nor
\* what the files were at the start changes (execute's `with` block).
LEMMA WithinBlock ==
  ASSUME TypeOK, Control, Next, pc' \in InBlock, ~OpenTransaction
  PROVE  /\ pc \in InBlock /\ cur' = cur /\ UNCHANGED <<before, status>>
         /\ ~Backup => tx'.created = tx.created
         /\ pc' = "unlink" => \/ tx'.undo \subseteq tx.created
                              \/ pc = "unlink" /\ tx'.undo \subseteq tx.undo
<1>. USE DEF InBlock
<1>1. LocalsOK /\ TxOK
  BY TypeParts
<1>2. ASSUME NEW why, EnterRollback(why)
      PROVE  /\ UNCHANGED <<cur, status>> /\ tx'.created = tx.created
             /\ tx'.undo \subseteq tx.created
  BY <1>1, <1>2 DEF EnterRollback, TxOK
<1>3. ASSUME NEW s, Leave(s) PROVE FALSE
  BY <1>3 DEF Leave
<1>4. CASE Backup
  BY <1>4 DEF Backup, history
<1>5. CASE WriteTarget
  BY <1>1, <1>5 DEF WriteTarget, TxOK, history
<1>6. CASE Unlink
  BY <1>1, <1>6 DEF Unlink, TxOK, history
<1>7. CASE Restore
  BY <1>1, <1>7 DEF Restore, CopyBack, DropBackups, TxOK
<1>8. CASE VerifyPasses
  BY <1>8 DEF VerifyPasses, Goto, history
<1>9. CASE TargetRefused \/ VerifyFails \/ TestsFail \/ BlockRaises
  <2>1. /\ pc \in InBlock /\ UNCHANGED before
        /\ \E why \in {"failed", "tests_failed", "raised"} : EnterRollback(why)
    BY <1>9 DEF TargetRefused, VerifyFails, TestsFail, BlockRaises, history
  <2>. QED
    BY <1>2, <2>1
<1>10. CASE IssueCertificate \/ CertificateRaises
  <2>1. /\ pc \in InBlock /\ UNCHANGED before
        /\ \E why \in {"exit", "raised"} : EnterRollback(why)
    BY <1>3, <1>10 DEF IssueCertificate, CertificateRaises, Goto, history
  <2>. QED
    BY <1>2, <2>1
<1>11. ~TestsPass
  BY DEF TestsPass
<1>12. CASE Lifecycle \/ Governance \/ \E m \in Mutations : Begin(m)
  <2>1. CASE PersistTransition
    <3>1. pc' = AfterTransition[life] /\ life \in LifeStates /\ life # "proposed"
      BY <1>1, <2>1 DEF PersistTransition, Goto, Control, LocalsOK
    <3>. QED
      BY <3>1 DEF AfterTransition, LifeStates
  <2>. QED
    BY <1>3, <1>12, <2>1 DEF Lifecycle, Governance, Begin, RecordTransition, RefuseTransition,
       Blocked, GovernorAccepts, GovernorRejects, Goto
<1>13. CASE JournalRefusal \/ Gates
  BY <1>13 DEF JournalRefusal, Gates, RecordEvidence, ChargeEntropy, EntropyExceeded,
     RiskExceeded, PolicyRejects, PolicyActivates, JournalFailedTests, Demote, Revoke, Goto
<1>14. CASE Finishing \/ ExecuteRaises \/ Crash
  BY <1>3, <1>14 DEF Finishing, WriteManifest, ManifestFails, JournalPromotion,
     ActivateCertificate, AfterCycle, ExecuteRaises, Crash, Goto
<1>. QED
  BY <1>4, <1>5, <1>6, <1>7, <1>8, <1>9, <1>10, <1>11, <1>12, <1>13, <1>14
     DEF Next, Execute, Applying, RollingBack

\* Files, pre-images and backups go on agreeing about the other mutations.
LEMMA IsolatedStep ==
  ASSUME IInv, cur # None => Isolated, Next, cur' # None
  PROVE  Isolated'
<1>. USE DEF InBlock
<1>1. TypeOK /\ Control /\ FilesOK /\ TxOK /\ LocalsOK
  BY TypeParts DEF IInv
<1>2. pc \in InBlock => /\ cur \in Mutations /\ \A f \in Files : Apart(f)
                        /\ pc = "unlink" => tx.undo \subseteq tx.created
  BY <1>1, ExecutionAssumption DEF Isolated, Apart, LocalsOK
<1>3. \A m \in Mutations, f \in Files : m # cur => Output(m, f)
  BY OthersOutput
<1>4. CASE OpenTransaction
  <2>1. /\ pc = "plan" /\ pc' = "apply" /\ cur' = cur /\ cur \in Mutations
        /\ UNCHANGED <<files, rollbackDir>>
        /\ before'[cur] = files /\ tx'.created = {}
    BY <1>1, <1>4 DEF OpenTransaction, FilesOK, NoTx, LocalsOK
  <2>2. rollbackDir[cur] = NoBackups
    BY <2>1 DEF IInv, Running, Untouched, Ahead
  <2>3. ASSUME NEW f \in Files PROVE rollbackDir'[cur][f] = None /\ \A m : ~Holds(None, m)
    BY <2>1, <2>2 DEF NoBackups, Holds
  <2>. QED
    BY <2>1, <2>3 DEF Isolated, Wrote
<1>5. CASE Backup
  <2>. DEFINE g == Head(tx.todo)
  <2>1. /\ pc = "apply" /\ pc' = "write" /\ cur' = cur /\ cur \in Mutations
        /\ UNCHANGED <<files, before>> /\ g \in Files
        /\ IF files[g] = Absent
           THEN tx'.created = tx.created \cup {g} /\ UNCHANGED rollbackDir
           ELSE /\ tx'.created = tx.created
                /\ rollbackDir' = IF g \in tx.backups THEN rollbackDir
                                  ELSE [rollbackDir EXCEPT ![cur][g] = files[g]]
    BY <1>1, <1>5 DEF Backup, TxOK, history, LocalsOK
  <2>. HIDE DEF g
  <2>2. ASSUME NEW f \in Files PROVE Apart(f)'
    <3>1. Apart(f) /\ Applied(cur, f)
      BY <1>2, <2>1 DEF IInv, Running, InTransaction
    <3>2. f \in tx'.created => before'[cur'][f] = Absent
      <4>1. CASE f \in tx.created
        BY <2>1, <3>1, <4>1 DEF Apart
      <4>2. CASE f \notin tx.created /\ f \in tx'.created
        <5>1. f = g /\ files[f] = Absent
          BY <2>1, <4>2
        <5>2. ~Wrote(cur, f)
          BY <5>1 DEF Wrote, Holds
        <5>. QED
          BY <2>1, <3>1, <5>1, <5>2 DEF Applied
      <4>. QED
        BY <4>1, <4>2
    <3>3. rollbackDir'[cur][f] = rollbackDir[cur][f] \/ rollbackDir'[cur][f] = files[f]
      BY <1>1, <2>1 DEF FilesOK
    <3>4. ASSUME NEW m \in Mutations \ {cur}
          PROVE  /\ Holds(files'[f], m) \/ Holds(rollbackDir'[cur][f], m) =>
                       Holds(before'[cur][f], m)
                 /\ Shows(before'[cur][f], m) =>
                       /\ Shows(files'[f], m)
                       /\ rollbackDir'[cur][f] # None => Shows(rollbackDir'[cur][f], m)
      BY <2>1, <3>1, <3>3 DEF Apart, Wrote
    <3>. QED
      BY <2>1, <3>2, <3>4 DEF Apart, Wrote
  <2>. QED
    BY <2>1, <2>2 DEF Isolated, Apart
<1>6. CASE pc' \notin InBlock
  BY <1>6 DEF Isolated
<1>7. CASE ~OpenTransaction /\ ~Backup /\ pc' \in InBlock
  <2>1. /\ pc \in InBlock /\ cur' = cur /\ cur \in Mutations /\ UNCHANGED before
        /\ tx'.created = tx.created
        /\ pc' = "unlink" => \/ tx'.undo \subseteq tx.created
                             \/ pc = "unlink" /\ tx'.undo \subseteq tx.undo
    BY <1>1, <1>2, <1>7, WithinBlock
  <2>2. \A f \in Files : rollbackDir'[cur][f] \in {rollbackDir[cur][f], None}
    <3>1. CASE Restore
      <4>1. UNCHANGED rollbackDir \/ rollbackDir' = [rollbackDir EXCEPT ![cur] = NoBackups]
        BY <3>1 DEF Restore, DropBackups
      <4>. QED
        BY <1>1, <2>1, <4>1 DEF FilesOK, NoBackups
    <3>2. CASE WriteTarget \/ Unlink
      BY <3>2 DEF WriteTarget, Unlink
    <3>3. ~TestsPass
      BY <1>7 DEF TestsPass
    <3>4. CASE ~Restore /\ ~WriteTarget /\ ~Unlink
      BY <1>7, <3>3, <3>4, Quiet
    <3>. QED
      BY <3>1, <3>2, <3>4
  <2>3. ASSUME NEW f \in Files, NEW m \in Mutations \ {cur}
        PROVE  /\ Holds(files'[f], m) \/ Holds(rollbackDir'[cur][f], m) =>
                     Holds(before[cur][f], m)
               /\ Shows(before[cur][f], m) =>
                     /\ Shows(files'[f], m)
                     /\ rollbackDir'[cur][f] # None => Shows(rollbackDir'[cur][f], m)
    <3>1. Apart(f) /\ Output(m, f) /\ rollbackDir'[cur][f] \in {rollbackDir[cur][f], None}
      BY <1>2, <1>3, <2>1, <2>2
    <3>2. ~Holds(None, m)
      BY DEF Holds
    <3>. QED
      BY <2>1, <3>1, <3>2 DEF Apart, Output
  <2>4. \A f \in Files : f \in tx'.created => before'[cur'][f] = Absent
    BY <1>2, <2>1 DEF Apart
  <2>5. pc' = "unlink" => tx'.undo \subseteq tx'.created
    BY <1>2, <2>1
  <2>6. \A f \in Files : Apart(f)'
    BY <2>1, <2>3, <2>4 DEF Apart, Wrote
  <2>. QED
    BY <2>5, <2>6 DEF Isolated, Apart
<1>. QED
  BY <1>4, <1>5, <1>6, <1>7

\* The pre-image of the running mutation goes on showing all that was executed.
LEMMA StandingStep ==
  ASSUME IInv, Succession, Next, cur' # None
  PROVE  Standing'
<1>. USE DEF InBlock
<1>1. TypeOK /\ Control /\ FilesOK /\ LocalsOK
  BY TypeParts DEF IInv
<1>2. CASE OpenTransaction
  <2>1. /\ cur' = cur /\ cur \in Mutations /\ UNCHANGED status /\ before'[cur] = files
    BY <1>1, <1>2 DEF OpenTransaction, FilesOK, LocalsOK
  <2>2. \A m \in Mutations : status[m] = "executed" =>
           \E targets \in TargetLists : \A f \in Range(targets) : Shows(files[f], m)
    BY DEF Succession, ExecutedMeansAll, Shows, Wrote, Damaged
  <2>. QED
    BY <2>1, <2>2 DEF Standing
<1>3. CASE ~OpenTransaction /\ pc' \in InBlock
  <2>1. pc \in InBlock /\ cur' = cur /\ UNCHANGED <<before, status>>
    BY <1>1, <1>3, WithinBlock
  <2>. QED
    BY <2>1 DEF Standing, Succession
<1>4. CASE pc' \notin InBlock
  BY <1>4 DEF Standing
<1>. QED
  BY <1>2, <1>3, <1>4

-----------------------------------------------------------------------------
(* What succeeded                                                          *)

\* Success is entered through the tests' passing only, and nothing is touched on the way
\* from there to the activated certificate (execute).
LEMMA SucceedingFlow ==
  ASSUME TypeOK, Control, cur # None => Journey, pc = "idle" => ~testsOk, Next,
         ~TestsPass, cur' # None, Succeeding'
  PROVE  Succeeding /\ cur' = cur /\ cur \in Mutations /\ UNCHANGED <<files, rollbackDir>>
<1>1. LocalsOK
  BY TypeParts
<1>2. pc # "idle" => cur \in Mutations /\ Journey
  BY <1>1, ExecutionAssumption DEF LocalsOK
<1>3. ASSUME NEW s, Leave(s) PROVE FALSE
  BY <1>3 DEF Leave
<1>. USE DEF InBlock
<1>4. ASSUME NEW m \in Mutations, Begin(m) PROVE FALSE
  BY <1>4 DEF Begin, Control, Succeeding
<1>5. CASE RecordTransition
  <2>1. /\ life' = Successor[life] /\ pc = "transition" /\ pc' = "persist" /\ cur' = cur
        /\ UNCHANGED <<files, rollbackDir>>
    BY <1>5 DEF RecordTransition
  <2>2. life' = "completed" <=> life = "executing"
    BY <1>1, <2>1 DEF Successor, Control, LocalsOK, LifeStates
  <2>. QED
    BY <1>2, <2>1, <2>2 DEF Succeeding
<1>6. CASE PersistTransition
  <2>1. /\ pc = "persist" /\ pc' = AfterTransition[life] /\ UNCHANGED <<cur, life>>
        /\ UNCHANGED <<files, rollbackDir>>
    BY <1>6 DEF PersistTransition, Goto
  <2>2. \/ life = "staged" /\ pc' = "admission"
        \/ life = "certified" /\ pc' = "transition"
        \/ life = "executing" /\ pc' = "plan"
        \/ life = "completed" /\ pc' = "manifest"
    BY <1>1, <2>1 DEF AfterTransition, Control, LocalsOK, LifeStates
  <2>. QED
    BY <1>2, <2>1, <2>2 DEF Succeeding
<1>7. CASE RefuseTransition \/ Blocked \/ GovernorRejects \/ ManifestFails \/ AfterCycle
  BY <1>3, <1>7 DEF RefuseTransition, Blocked, GovernorRejects, ManifestFails, AfterCycle
<1>8. CASE ExecuteRaises \/ Crash
  BY <1>3, <1>8 DEF ExecuteRaises, Crash
<1>9. CASE GovernorAccepts
  BY <1>9 DEF GovernorAccepts, Goto, Control, Succeeding
<1>10. CASE Applying \/ RollingBack
  <2>1. CASE OpenTransaction \/ Backup \/ WriteTarget \/ VerifyPasses \/ Unlink \/ Restore
    BY <2>1 DEF OpenTransaction, Backup, WriteTarget, VerifyPasses, Unlink, Restore, DropBackups, Goto, Succeeding
  <2>2. CASE TargetRefused \/ VerifyFails \/ TestsFail \/ BlockRaises \/ CertificateRaises
    BY <1>3, <2>2 DEF TargetRefused, VerifyFails, TestsFail, BlockRaises, CertificateRaises,
       EnterRollback, Succeeding
  <2>3. CASE IssueCertificate
    <3>1. pc = "certificate" /\ ~testsOk
      BY <1>2, <2>3 DEF IssueCertificate, Journey
    <3>2. EnterRollback("exit") \/ Goto("evidence") \/ Goto("failed_entry")
      BY <1>3, <2>3 DEF IssueCertificate
    <3>3. CASE EnterRollback("exit")
      BY <3>3 DEF EnterRollback, Succeeding
    <3>4. CASE Goto("evidence") \/ Goto("failed_entry")
      BY <3>1, <3>4 DEF Goto, Succeeding
    <3>. QED
      BY <3>2, <3>3, <3>4
  <2>4. CASE JournalRefusal
    BY <2>4 DEF JournalRefusal, Goto, Control, Succeeding
  <2>. QED
    BY <1>10, <2>1, <2>2, <2>3, <2>4 DEF Applying, RollingBack
<1>11. CASE RecordEvidence \/ ChargeEntropy \/ PolicyActivates
  BY <1>2, <1>11 DEF RecordEvidence, ChargeEntropy, PolicyActivates, Goto, Succeeding
<1>12. CASE EntropyExceeded \/ RiskExceeded \/ PolicyRejects \/ JournalFailedTests \/ Demote
  BY <1>12 DEF EntropyExceeded, RiskExceeded, PolicyRejects, JournalFailedTests, Demote, Goto,
     Succeeding
<1>13. CASE Revoke
  BY <1>13 DEF Revoke, Goto, Control, Succeeding
<1>14. CASE WriteManifest \/ JournalPromotion \/ ActivateCertificate
  BY <1>2, <1>14 DEF WriteManifest, JournalPromotion, ActivateCertificate, Goto, Succeeding
<1>. QED
  BY <1>4, <1>5, <1>6, <1>7, <1>8, <1>9, <1>10, <1>11, <1>12, <1>13, <1>14
     DEF Next, Execute, Lifecycle, Governance, Gates, Finishing

\* The head of a list of targets is taken, the others stay (tx.todo).
LEMMA HeadOrTail ==
  ASSUME NEW S, NEW s \in Seq(S), s # <<>>, NEW x \in Range(s)
  PROVE  x = Head(s) \/ x \in Range(Tail(s))
<1>1. /\ Len(s) \in Nat /\ Len(s) # 0 /\ DOMAIN s = 1..Len(s) /\ DOMAIN Tail(s) = 1..(Len(s) - 1)
      /\ Head(s) = s[1] /\ \A i \in 1..(Len(s) - 1) : Tail(s)[i] = s[i + 1]
  OBVIOUS
<1>2. PICK i \in 1..Len(s) : s[i] = x
  BY <1>1 DEF Range
<1>3. CASE i = 1
  BY <1>1, <1>2, <1>3
<1>4. CASE i # 1
  <2>1. i - 1 \in 1..(Len(s) - 1) /\ (i - 1) + 1 = i
    BY <1>1, <1>2, <1>4
  <2>2. Tail(s)[i - 1] = x
    BY <1>1, <1>2, <2>1
  <2>. QED
    BY <1>1, <2>1, <2>2 DEF Range
<1>. QED
  BY <1>3, <1>4

\* All targets of the request are written, or still to be, until the tests have passed,
\* and stay written (apply, commit).
LEMMA TargetedStep ==
  ASSUME IInv, cur # None => Journey /\ Targeted, pc = "idle" => ~testsOk, Next, cur' # None
  PROVE  Targeted'
<1>1. TypeOK /\ Control /\ FilesOK /\ TxOK /\ LocalsOK
  BY TypeParts DEF IInv
<1>2. pc # "idle" => cur \in Mutations /\ cur # None /\ Targeted
  BY <1>1, ExecutionAssumption DEF LocalsOK
<1>3. Succeeding' => /\ rollbackDir'[cur'] = NoBackups
                     /\ \E targets \in TargetLists : \A f \in Range(targets) : Wrote(cur, f)'
  <2>. SUFFICES ASSUME Succeeding'
                PROVE  /\ rollbackDir'[cur'] = NoBackups
                       /\ \E targets \in TargetLists : \A f \in Range(targets) : Wrote(cur, f)'
    OBVIOUS
  <2>1. CASE TestsPass
    <3>1. /\ pc = "tests" /\ cur' = cur /\ cur \in Mutations /\ UNCHANGED files
          /\ rollbackDir'[cur] = NoBackups
      BY <1>1, <1>2, <2>1 DEF TestsPass, FilesOK
    <3>2. PICK targets \in TargetLists : \A f \in Range(targets) : f \in Range(tx.todo) \/ Wrote(cur, f)
      BY <1>2, <3>1 DEF Targeted
    <3>3. Range(tx.todo) = {}
      BY <1>2, <3>1 DEF Targeted, Range
    <3>4. \A f \in Range(targets) : Wrote(cur, f)'
      BY <3>1, <3>2, <3>3 DEF Wrote
    <3>. QED
      BY <3>1, <3>4
  <2>2. CASE ~TestsPass
    <3>1. Succeeding /\ cur' = cur /\ cur \in Mutations /\ UNCHANGED <<files, rollbackDir>>
      BY <1>1, <2>2, SucceedingFlow
    <3>2. /\ rollbackDir[cur] = NoBackups
          /\ \E targets \in TargetLists : \A f \in Range(targets) : Wrote(cur, f)
      BY <3>1, ExecutionAssumption DEF Targeted
    <3>. QED
      BY <3>1, <3>2 DEF Wrote
  <2>. QED
    BY <2>1, <2>2
<1>4. CASE OpenTransaction
  <2>1. PICK targets \in TargetLists : tx' = [NoTx EXCEPT !.todo = targets]
    BY <1>4 DEF OpenTransaction
  <2>2. tx'.todo = targets /\ pc' = "apply"
    BY <1>4, <2>1 DEF NoTx, OpenTransaction
  <2>. QED
    BY <1>3, <2>2 DEF Targeted, Wrote
<1>5. CASE Backup \/ VerifyPasses
  <2>1. /\ pc \in {"apply", "write"} /\ cur' = cur /\ UNCHANGED files /\ tx'.todo = tx.todo
        /\ pc' = "tests" => tx.todo = <<>>
    BY <1>1, <1>5 DEF Backup, VerifyPasses, Goto, TxOK, disk
  <2>2. PICK targets \in TargetLists : \A f \in Range(targets) : f \in Range(tx.todo) \/ Wrote(cur, f)
    BY <1>2, <2>1 DEF Targeted
  <2>3. \A f \in Range(targets) : f \in Range(tx'.todo) \/ Wrote(cur, f)'
    BY <2>1, <2>2 DEF Wrote
  <2>. QED
    BY <1>3, <2>1, <2>3 DEF Targeted, Wrote
<1>6. CASE WriteTarget
  <2>1. PICK g : g = Head(tx.todo)
    OBVIOUS
  <2>2. /\ pc = "write" /\ pc' = "apply" /\ cur' = cur /\ cur \in Mutations /\ g \in Files
        /\ tx.todo # <<>> /\ tx.todo \in Seq(Files) /\ tx'.todo = Tail(tx.todo)
        /\ files' = [files EXCEPT ![g] = Written(files[g], cur)]
    BY <1>1, <1>6, <2>1 DEF WriteTarget, TxOK, LocalsOK, Control
  <2>3. PICK targets \in TargetLists : \A f \in Range(targets) : f \in Range(tx.todo) \/ Wrote(cur, f)
    BY <1>2, <2>2 DEF Targeted
  <2>4. Range(targets) \subseteq Files
    BY <2>3, ExecutionAssumption DEF Range
  <2>5. Holds(files'[g], cur)
    BY <1>1, <2>2, WrittenHolds DEF FilesOK
  <2>6. ASSUME NEW f \in Range(targets) PROVE f \in Range(tx'.todo) \/ Holds(files'[f], cur)
    <3>1. CASE f = g
      BY <2>5, <3>1
    <3>2. CASE f # g
      <4>1. files'[f] = files[f]
        BY <1>1, <2>2, <2>4, <3>2 DEF FilesOK
      <4>2. f \in Range(tx.todo) => f \in Range(tx'.todo)
        BY <2>1, <2>2, <3>2, HeadOrTail
      <4>. QED
        BY <2>3, <4>1, <4>2 DEF Wrote
    <3>. QED
      BY <3>1, <3>2
  <2>. QED
    BY <1>3, <2>2, <2>6 DEF Targeted, Wrote
<1>7. CASE pc' \notin {"apply", "write", "tests"}
  BY <1>3, <1>7 DEF Targeted, Wrote
<1>8. CASE ~OpenTransaction /\ ~Backup /\ ~VerifyPasses /\ ~WriteTarget
  <2>3. ASSUME NEW s, Leave(s) PROVE FALSE
    BY <2>3 DEF Leave
  <2>5. CASE TargetRefused \/ VerifyFails \/ TestsFail \/ BlockRaises \/ TestsPass \/ RollingBack
    BY <1>7, <2>3, <2>5 DEF TargetRefused, VerifyFails, TestsFail, BlockRaises, TestsPass,
       RollingBack, Unlink, Restore, DropBackups, IssueCertificate, CertificateRaises, JournalRefusal, EnterRollback, Goto
  <2>7. CASE Lifecycle \/ Governance \/ \E m \in Mutations : Begin(m)
    <3>1. CASE PersistTransition
      <4>1. pc' = AfterTransition[life] /\ life \in LifeStates /\ life # "proposed"
        BY <1>1, <3>1 DEF PersistTransition, Goto, Control, LocalsOK
      <4>. QED
        BY <1>7, <4>1 DEF AfterTransition, LifeStates
    <3>. QED
      BY <1>7, <2>3, <2>7, <3>1 DEF Lifecycle, Governance, Begin, RecordTransition, RefuseTransition,
         Blocked, GovernorAccepts, GovernorRejects, Goto
  <2>8. CASE Gates
    BY <1>7, <2>8 DEF Gates, RecordEvidence, ChargeEntropy, EntropyExceeded,
       RiskExceeded, PolicyRejects, PolicyActivates, JournalFailedTests, Demote, Revoke, Goto
  <2>9. CASE Finishing \/ ExecuteRaises \/ Crash
    BY <1>7, <2>3, <2>9 DEF Finishing, WriteManifest, ManifestFails, JournalPromotion,
       ActivateCertificate, AfterCycle, ExecuteRaises, Crash, Goto
  <2>. QED
    BY <1>8, <2>5, <2>7, <2>8, <2>9 DEF Next, Execute, Applying
<1>. QED
  BY <1>4, <1>5, <1>6, <1>8

\* What ExecutedMeansAll says of one mutation.
WentAllTheWay(m) ==
    /\ \E targets \in TargetLists : \A f \in Range(targets) : Shows(files[f], m)
    /\ journal[m] = <<"staged", "certified", "executing", "planned",
                      "completed", "manifest", "promoted">>
    /\ lineage[m] = <<"evidence", "ACTIVATED", "cert_on">>
    /\ charged[m] # Unpaid
    /\ rollbackDir[m] = NoBackups /\ lifeFile[m] = "none"

\* Where the cycle ends with "executed" the running mutation has gone the whole way
\* (after_mutation_cycle).
LEMMA ArrivedAll ==
  ASSUME IInv, Bookkeeping, Ledgering, Succession, cur # None,
         pc = "after", outcome = "executed", NEW m \in Mutations, m = cur
  PROVE  WentAllTheWay(m)
<1>. USE DEF Shows, Wrote
<1>1. Succeeding
  BY DEF Succeeding
<1>2. /\ rollbackDir[m] = NoBackups
      /\ \E targets \in TargetLists : \A f \in Range(targets) : Wrote(m, f)
  BY <1>1 DEF Succession, Targeted
<1>3. /\ life = "completed"
      /\ journal[m] = <<"staged", "certified", "executing", "planned",
                        "completed", "manifest", "promoted">>
  BY DEF Succession, Journey
<1>4. lineage[m] = <<"evidence", "ACTIVATED", "cert_on">>
  BY DEF IInv, Told
<1>5. charged[m] # Unpaid
  BY DEF Bookkeeping, Billed
<1>6. lifeFile[m] = "none"
  BY <1>3 DEF Ledgering, Filed
<1>. QED
  BY <1>2, <1>3, <1>4, <1>5, <1>6 DEF WentAllTheWay

\* What an executed mutation has left stays as it is, and none is reported executed
\* that has not gone the whole way (execute).
LEMMA ExecutedStep ==
  ASSUME IInv, Bookkeeping, Ledgering, Succession, Next
  PROVE  ExecutedMeansAll'
<1>. SUFFICES ASSUME NEW m \in Mutations, status'[m] = "executed" PROVE WentAllTheWay(m)'
  BY DEF ExecutedMeansAll, WentAllTheWay, Shows, Wrote, Damaged
<1>1. TypeOK /\ Control /\ FilesOK /\ LocalsOK
  BY TypeParts DEF IInv
<1>2. CASE m # cur
  <2>1. status[m] = "executed"
    BY <1>1, <1>2, LedgerSteps DEF Begin, LocalsOK
  <2>2. WentAllTheWay(m)
    BY <2>1 DEF Succession, ExecutedMeansAll, WentAllTheWay, Shows, Wrote, Damaged
  <2>3. /\ journal'[m] = journal[m] /\ lineage'[m] = lineage[m] /\ lifeFile'[m] = lifeFile[m]
        /\ charged'[m] = charged[m] /\ rollbackDir'[m] = rollbackDir[m]
    BY <1>1, <1>2, OthersAsWere, OthersStay
  <2>4. cur # None => Isolated /\ Standing
    BY DEF Succession
  <2>5. \A f \in Files : Output(m, f)
    BY <1>2, <2>4, OthersOutput
  <2>6. \A targets \in TargetLists : Range(targets) \subseteq Files
    BY ExecutionAssumption DEF Range
  <2>7. \E targets \in TargetLists : \A f \in Range(targets) : Shows(files'[f], m)
    <3>1. CASE pc \in InBlock
      <4>1. cur # None
        BY <1>1, <3>1, ExecutionAssumption DEF LocalsOK, InBlock
      <4>2. PICK targets \in TargetLists : \A f \in Range(targets) : Shows(before[cur][f], m)
        BY <1>2, <2>1, <2>4, <3>1, <4>1 DEF Standing
      <4>. QED
        BY <2>5, <2>6, <3>1, <4>2 DEF Output
    <3>2. CASE pc \notin InBlock
      <4>1. PICK targets \in TargetLists : \A f \in Range(targets) : Shows(files[f], m)
        BY <2>2 DEF WentAllTheWay
      <4>. QED
        BY <2>5, <2>6, <3>2, <4>1 DEF Output
    <3>. QED
      BY <3>1, <3>2
  <2>. QED
    BY <2>2, <2>3, <2>7 DEF WentAllTheWay
<1>3. CASE m = cur
  <2>1. cur # None /\ status[m] = "running"
    BY <1>3, ExecutionAssumption DEF IInv, Control
  <2>2. AfterCycle /\ outcome = "executed" /\ pc = "after"
    BY <1>1, <1>3, <2>1, Returned DEF AfterCycle
  <2>3. WentAllTheWay(m)
    BY <1>3, <2>1, <2>2, ArrivedAll
  <2>4. UNCHANGED <<files, rollbackDir, journal, lineage, lifeFile, charged>>
    BY <2>2 DEF AfterCycle, disk, history
  <2>. QED
    BY <2>3, <2>4 DEF WentAllTheWay
<1>. QED
  BY <1>2, <1>3

\* The verdict of the tests does not outlive its mutation (execute's local).
LEMMA IdleUntested ==
  ASSUME TypeOK, Control, Next, pc' = "idle"
  PROVE  ~testsOk'
<1>1. LocalsOK
  BY TypeParts
<1>2. ASSUME NEW s, Leave(s) PROVE ~testsOk'
  BY <1>2 DEF Leave
<1>3. CASE PersistTransition
  <2>1. pc' = AfterTransition[life] /\ life \in LifeStates /\ life # "proposed"
    BY <1>1, <1>3 DEF PersistTransition, Goto, Control, LocalsOK
  <2>. QED
    BY <2>1 DEF AfterTransition, LifeStates
<1>4. CASE (Lifecycle /\ ~PersistTransition) \/ Governance \/ \E m \in Mutations : Begin(m)
  BY <1>2, <1>4 DEF Lifecycle, Governance, Begin, RecordTransition, RefuseTransition,
     Blocked, GovernorAccepts, GovernorRejects, Goto
<1>5. CASE Applying
  BY <1>2, <1>5 DEF Applying, OpenTransaction, Backup, WriteTarget, TestsPass,
     TargetRefused, VerifyPasses, VerifyFails, TestsFail, BlockRaises, EnterRollback, Goto
<1>6. CASE RollingBack
  <2>1. Unlink => pc' # "idle"
    BY DEF Unlink
  <2>. QED
    BY <1>2, <1>6, <2>1 DEF RollingBack, Restore, DropBackups, IssueCertificate, CertificateRaises,
       JournalRefusal, EnterRollback, Goto
<1>7. CASE Gates
  BY <1>7 DEF Gates, RecordEvidence, ChargeEntropy, EntropyExceeded, RiskExceeded,
     PolicyRejects, PolicyActivates, JournalFailedTests, Demote, Revoke, Goto
<1>8. CASE Finishing \/ ExecuteRaises \/ Crash
  BY <1>2, <1>8 DEF Finishing, WriteManifest, ManifestFails, JournalPromotion, ActivateCertificate,
     AfterCycle, ExecuteRaises, Crash, Goto
<1>. QED
  BY <1>3, <1>4, <1>5, <1>6, <1>7, <1>8 DEF Next, Execute

\* All that execute() keeps together, in one invariant.
Whole == IInv /\ Bookkeeping /\ Ledgering /\ Succession

\* Before the first mutation nothing is charged, filed or executed.
LEMMA InitWhole == Init => Whole
<1>. SUFFICES ASSUME Init PROVE Whole
  OBVIOUS
<1>1. IInv
  BY InitInv
<1>2. /\ cur = None /\ pc = "idle" /\ testsOk = FALSE /\ epochBits = 0
      /\ status = [m \in Mutations |-> "new"] /\ charged = [m \in Mutations |-> Unpaid]
      /\ journal = [m \in Mutations |-> <<>>] /\ lineage = [m \in Mutations |-> <<>>]
      /\ lifeFile = [m \in Mutations |-> "none"]
  BY DEF Init
<1>3. Charged = {}
  BY <1>2 DEF Charged
<1>4. IsFiniteSet(Charged)
  BY <1>3, FS_EmptySet
<1>5. SumOf(charged, Charged) = 0
  BY <1>3, SumOfNone
<1>6. EntropyAccounted
  <2>1. Range(<<>>) = {}
    BY DEF Range
  <2>. QED
    BY <1>2, <1>5, <2>1, ExecutionAssumption DEF EntropyAccounted
<1>7. Bookkeeping
  BY <1>2, <1>4, <1>6 DEF Bookkeeping, Unbegun
<1>8. Ledgering
  <2>1. Lags(<<>>, "proposed")
    BY DEF Lags, Transitions
  <2>. QED
    BY <1>2, <2>1 DEF Ledgering, FileBehindLedger
<1>9. Succession
  BY <1>2 DEF Succession, ExecutedMeansAll
<1>. QED
  BY <1>1, <1>7, <1>8, <1>9 DEF Whole

\* Every step keeps it.
LEMMA StepWhole == Whole /\ [Next]_vars => Whole'
<1>. SUFFICES ASSUME Whole, [Next]_vars PROVE Whole'
  OBVIOUS
<1>. USE DEF Whole
<1>1. IInv'
  BY StepInv
<1>2. CASE UNCHANGED vars
  <2>. USE <1>2 DEF vars, memory, disk, history
  <2>1. Charged' = Charged /\ SumOf(charged', Charged') = SumOf(charged, Charged)
    BY DEF Charged
  <2>2. Bookkeeping'
    BY <2>1 DEF Bookkeeping, EntropyAccounted, Unbegun, Billed, Ahead, Activated
  <2>3. Ledgering'
    BY DEF Ledgering, FileBehindLedger, Filed
  <2>4. Succession'
    <3>1. Targeted <=> Targeted'
      BY DEF Targeted, Succeeding, Wrote
    <3>2. (Isolated <=> Isolated') /\ (Standing <=> Standing')
      BY DEF Isolated, Standing, Wrote
    <3>3. Journey <=> Journey'
      BY DEF Journey, Ahead
    <3>4. ExecutedMeansAll'
      BY DEF Succession, ExecutedMeansAll, Wrote, Damaged
    <3>. QED
      BY <3>1, <3>2, <3>3, <3>4 DEF Succession
  <2>. QED
    BY <1>1, <2>2, <2>3, <2>4
<1>3. CASE Next
  <2>1. TypeOK /\ Control /\ TypeOK' /\ Control'
    BY <1>1 DEF IInv
  <2>2. /\ Unbegun /\ (cur # None => Journey /\ Targeted /\ Isolated /\ Standing)
        /\ pc = "idle" => ~testsOk
    BY DEF Bookkeeping, Succession
  <2>3. Bookkeeping'
    BY <1>3, <2>1, BookStep
  <2>4. Ledgering'
    BY <1>3, <2>1, <2>2, LedgeringStep
  <2>5. cur' # None => Journey' /\ Targeted' /\ Isolated' /\ Standing'
    <3>. SUFFICES ASSUME cur' # None PROVE Journey' /\ Targeted' /\ Isolated' /\ Standing'
      OBVIOUS
    <3>1. Journey'
      BY <1>3, <2>1, <2>2, JourneyStep
    <3>2. Targeted'
      BY <1>3, <2>2, TargetedStep
    <3>3. Isolated'
      BY <1>3, <2>2, IsolatedStep
    <3>4. Standing'
      BY <1>3, StandingStep
    <3>. QED
      BY <3>1, <3>2, <3>3, <3>4
  <2>6. Succession'
    BY <1>3, <2>1, <2>5, ExecutedStep, IdleUntested DEF Succession
  <2>. QED
    BY <1>1, <2>3, <2>4, <2>6
<1>. QED
  BY <1>2, <1>3

\* It holds always.
LEMMA AlwaysWhole == Spec => []Whole
BY InitWhole, StepWhole, PTL DEF Spec

-----------------------------------------------------------------------------
(* The theorems about what was executed                                    *)

\* The epoch's counter is at every moment the sum of what its mutations were charged and
\* never above the ceiling, and the policy decides on charged mutations only, whatever
\* refuses, raises or crashes (mutation_executor.py 619-663).
THEOREM EntropyIsAccounted == Spec => []EntropyAccounted
<1>1. Whole => EntropyAccounted
  BY DEF Whole, Bookkeeping
<1>. QED
  BY <1>1, AlwaysWhole, PTL

\* The lifecycle file is never ahead of the journal and at most one transition behind it,
\* across refusals and crashes (mutation_lifecycle.py 276-290).
THEOREM FileStaysBehind == Spec => []FileBehindLedger
<1>1. Whole => FileBehindLedger
  BY DEF Whole, Ledgering
<1>. QED
  BY <1>1, AlwaysWhole, PTL

\* "executed" means all of it, and for good: whatever later mutations apply, roll back or
\* leave half done, the targets stay written but where a rollback's copy was cut short,
\* and both ledgers tell the whole path (mutation_executor.py 790-806).
THEOREM ExecutedMeansAllHolds == Spec => []ExecutedMeansAll
<1>1. Whole => ExecutedMeansAll
  BY DEF Whole, Succession
<1>. QED
  BY <1>1, AlwaysWhole, PTL

\* No step of a mutation, its rollback included, takes away what another one wrote, but
\* where a copy is cut short, or brings back what was not there when the mutation's
\* transaction began (mutation_tx.py 77-88, 171-199).
THEOREM RollbackIsIsolated ==
  Spec => [][\A m \in Mutations \ {cur}, f \in Files :
                /\ Wrote(m, f) => Wrote(m, f)' \/ Damaged(f)'
                /\ Wrote(m, f)' => Wrote(m, f) \/ (pc \in InBlock /\ Holds(before[cur][f], m))]_vars
<1>. DEFINE Alone == \A m \in Mutations \ {cur}, f \in Files :
                /\ Wrote(m, f) => Wrote(m, f)' \/ Damaged(f)'
                /\ Wrote(m, f)' => Wrote(m, f) \/ (pc \in InBlock /\ Holds(before[cur][f], m))
<1>1. Whole /\ [Next]_vars => [Alone]_vars
  <2>. SUFFICES ASSUME Whole, Next, NEW m \in Mutations \ {cur}, NEW f \in Files
                PROVE  /\ Wrote(m, f) => Wrote(m, f)' \/ Damaged(f)'
                       /\ Wrote(m, f)' => Wrote(m, f) \/ (pc \in InBlock /\ Holds(before[cur][f], m))
    OBVIOUS
  <2>1. cur # None => Isolated
    BY DEF Whole, Succession
  <2>2. Output(m, f)
    BY <2>1, OthersOutput DEF Whole
  <2>3. pc \in InBlock /\ Wrote(m, f) => Shows(before[cur][f], m)
    <3>1. pc \in InBlock => cur # None
      BY ExecutionAssumption DEF Whole, IInv, TypeOK, InBlock
    <3>. QED
      BY <2>1, <3>1 DEF Isolated, Shows
  <2>. QED
    BY <2>2, <2>3 DEF Output, Shows, Wrote, Damaged
<1>. QED
  BY <1>1, AlwaysWhole, PTL DEF Spec
=============================================================================
