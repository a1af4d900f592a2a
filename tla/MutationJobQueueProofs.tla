----------------------- MODULE MutationJobQueueProofs -----------------------
(***************************************************************************)
(* Proofs about MutationJobQueue for any workers and jobs, either backend, *)
(* any max_attempts, any number of crashes and operations that overlap in  *)
(* any way.                                                                *)
(***************************************************************************)
EXTENDS MutationJobQueue, SequenceTheorems, FiniteSetTheorems, TLAPS

\* A worker is idle exactly if its place says so.
LEMMA IdleByPlace ==
  ASSUME TypeOK, NEW c \in Worker
  PROVE  /\ op[c] = Idle <=> op[c].pc = "idle"
         /\ op[c].pc \in {"idle", "lease", "upsert", "log", "save"}
         /\ op[c].pc \in {"upsert", "log", "save"} =>
              op[c].todo \in Seq(Change) /\ op[c].then \in {"idle", "lease"}
         /\ op[c].pc = "save" => op[c].seen \in Table
<1>1. op[c] \in Work
  BY DEF TypeOK
<1>2. CASE op[c] \in [pc : {"idle", "lease"}]
  BY <1>2 DEF Idle
<1>3. CASE op[c] \in [pc : {"upsert", "log"}, todo : Seq(Change), then : {"idle", "lease"}]
  BY <1>3 DEF Idle
<1>4. CASE op[c] \in [pc : {"save"}, todo : Seq(Change), then : {"idle", "lease"}, seen : Table]
  BY <1>4 DEF Idle
<1>. QED
  BY <1>1, <1>2, <1>3, <1>4 DEF Work

\* What a worker is about to write or record fits the row it read, and the bound.
LEMMA FirstFits ==
  ASSUME IInv, NEW c \in Worker, op[c].pc \in {"upsert", "save", "log"}
  PROVE  LET ch == Head(op[c].todo) IN
         /\ op[c].todo \in Seq(Change) /\ op[c].todo # <<>> /\ 1 \in DOMAIN op[c].todo
         /\ ch = op[c].todo[1] /\ ch \in Change /\ Fits(c, ch)
         /\ WithinBound(ch.was) /\ WithinBound(ch.row)
         /\ ch.job \in Job /\ ch.row \in Row /\ ch.row # None
         /\ ch.was # None => ch.was \in Row
<1>1. op[c].todo \in Seq(Change) /\ op[c].todo # <<>>
  BY IdleByPlace DEF IInv, PlansFit
<1>2. Head(op[c].todo) = op[c].todo[1] /\ 1 \in DOMAIN op[c].todo /\ Head(op[c].todo) \in Change
  BY <1>1
<1>3. Fits(c, op[c].todo[1])
  BY <1>2 DEF IInv, PlansFit
<1>4. WithinBound(op[c].todo[1].was) /\ WithinBound(op[c].todo[1].row)
  BY <1>2 DEF IInv, RowsBounded
<1>. QED
  BY <1>1, <1>2, <1>3, <1>4, JobQueueAssumption DEF Change

\* What a lost lease looks like: the row as it was read but for its expiry.
LEMMA ReadRow ==
  ASSUME NEW was \in Row \cup {None}, NEW row \in Row \cup {None}, AsRead(was, row)
  PROVE  /\ row = None <=> was = None
         /\ StateIn(row) = StateIn(was)
         /\ row # None => /\ row \in Row /\ was \in Row
                          /\ row.state = was.state /\ row.owner = was.owner
                          /\ row.attempts = was.attempts
                          /\ (row # was => row.expired /\ was.state \in Held)
<1>1. CASE row = was
  BY <1>1
<1>2. CASE was # None /\ was.state \in Held /\ row = [was EXCEPT !.expired = TRUE]
  <2>1. was \in Row
    BY <1>2
  <2>2. row \in Row /\ row.state = was.state /\ row.owner = was.owner
        /\ row.attempts = was.attempts /\ row.expired
    BY <1>2, <2>1 DEF Row
  <2>. QED
    BY <1>2, <2>1, <2>2, JobQueueAssumption DEF StateIn
<1>. QED
  BY <1>1, <1>2 DEF AsRead

\* A worker that neither was nor gets to the ledger leaves the tellers alone.
LEMMA SameTellers ==
  ASSUME IInv, NEW c \in Worker, NEW place,
         op' = [op EXCEPT ![c] = place], op[c].pc # "log", place.pc # "log", NEW j \in Job
  PROVE  /\ Telling(j)' = Telling(j)
         /\ \A d \in Telling(j) : op'[d] = op[d]
<1>1. op'[c] = place /\ \A d \in Worker : d # c => op'[d] = op[d]
  BY DEF IInv, TypeOK
<1>. QED
  BY <1>1 DEF Telling

\* Whether a job's ledger is behind depends on its tellers, its last entry and its row's state.
LEMMA SameBehind ==
  ASSUME NEW j \in Job, Telling(j)' = Telling(j), \A d \in Telling(j) : op'[d] = op[d],
         StateIn(rows'[j]) = StateIn(rows[j]), told'[j] = told[j]
  PROVE  Behind(j)' <=> Behind(j)
<1>1. Behind(j)' <=> \/ Telling(j)' = {} /\ told'[j] # StateIn(rows'[j])
                     \/ \E d \in Telling(j)' : told'[j] # StateIn(Head(op'[d].todo).was)
  BY DEF Behind, StateIn
<1>. QED
  BY <1>1 DEF Behind

\* As long as no other job's ledger falls behind, no more entries are missing.
LEMMA UntoldIsFinite == IsFiniteSet(Untold) /\ Cardinality(Untold) \in Nat
<1>1. IsFiniteSet(Untold)
  BY JobQueueAssumption, FS_Subset DEF Untold
<1>. QED
  BY <1>1, FS_CardinalityType

LEMMA NoMoreUntold ==
  ASSUME IInv, Untold' \subseteq Untold, missing' = missing, crashes' = crashes
  PROVE  LedgerExplainsRows'
<1>1. Cardinality(Untold') \in Nat /\ Cardinality(Untold') <= Cardinality(Untold)
  BY UntoldIsFinite, FS_Subset, FS_CardinalityType
<1>2. missing + Cardinality(Untold) <= crashes /\ missing \in Nat /\ crashes \in Nat
  BY DEF IInv, TypeOK, LedgerExplainsRows
<1>. QED
  BY <1>1, <1>2, UntoldIsFinite DEF LedgerExplainsRows

\* An operation that has read the rows and plans changes that fit keeps everything.
LEMMA Planned ==
  ASSUME IInv, NEW c \in Worker, NEW changes \in Seq(Change), NEW then \in {"idle", "lease"},
         Plan(c, changes, then), op[c].pc # "log",
         \A i \in DOMAIN changes :
           Fits(c, changes[i]) /\ WithinBound(changes[i].was) /\ WithinBound(changes[i].row)
  PROVE  IInv'
<1>. DEFINE next == IF changes = <<>> THEN [pc |-> then]
                    ELSE [pc |-> "upsert", todo |-> changes, then |-> then]
<1>1. /\ op' = [op EXCEPT ![c] = next]
      /\ UNCHANGED <<rows, told, missing, hold, collided, crashes>>
      /\ plans < MaxPlans /\ plans' = plans + 1
  BY DEF Plan
<1>2. op \in [Worker -> Work] /\ op'[c] = next /\ \A d \in Worker : d # c => op'[d] = op[d]
  BY <1>1 DEF IInv, TypeOK
<1>3. next \in Work /\ next.pc # "log" /\ next.pc # "save"
  BY DEF Work
<1>4. TypeOK'
  <2>1. plans' \in 0..MaxPlans
    BY <1>1, JobQueueAssumption DEF IInv, TypeOK
  <2>. QED
    BY <1>1, <1>2, <1>3, <2>1 DEF IInv, TypeOK
<1>5. /\ next.pc \in {"upsert", "save", "log"} => next.todo = changes /\ changes # <<>>
      /\ \A i \in DOMAIN changes :
           Fits(c, changes[i]) /\ WithinBound(changes[i].was) /\ WithinBound(changes[i].row)
  OBVIOUS
<1>6. ASSUME NEW j \in Job
      PROVE  Telling(j)' = Telling(j) /\ \A d \in Telling(j) : op'[d] = op[d]
  BY <1>1, <1>3, SameTellers
<1>. HIDE DEF next
<1>7. PlansFit' /\ RowsBounded'
  <2>1. ASSUME NEW d \in Worker, op'[d].pc \in {"upsert", "save", "log"}
        PROVE  /\ op'[d].todo # <<>> /\ \A i \in DOMAIN op'[d].todo : Fits(d, op'[d].todo[i])
               /\ \A i \in DOMAIN op'[d].todo :
                    WithinBound(op'[d].todo[i].was) /\ WithinBound(op'[d].todo[i].row)
               /\ op'[d].pc = "save" => \A j \in Job : WithinBound(op'[d].seen[j])
    <3>1. CASE d = c
      BY <1>2, <1>3, <1>5, <2>1, <3>1
    <3>2. CASE d # c
      BY <1>2, <2>1, <3>2 DEF IInv, PlansFit, RowsBounded
    <3>. QED
      BY <3>1, <3>2
  <2>2. \A j \in Job : WithinBound(rows'[j])
    BY <1>1 DEF IInv, RowsBounded
  <2>. QED
    BY <2>1, <2>2 DEF PlansFit, RowsBounded
<1>8. OneTeller'
  BY <1>1, <1>6 DEF IInv, OneTeller
<1>9. HoldsCounted'
  <2>1. \A d \in Worker : op'[d].pc = "log" => op'[d] = op[d]
    BY <1>2, <1>3
  <2>. QED
    BY <1>1, <2>1 DEF IInv, HoldsCounted
<1>10. LeasedOnce'
  BY <1>1 DEF IInv, LeasedOnce
<1>11. LedgerExplainsRows'
  <2>1. \A j \in Job : Behind(j)' <=> Behind(j)
    BY <1>1, <1>6, SameBehind
  <2>2. Untold' \subseteq Untold
    BY <1>1, <2>1 DEF Untold
  <2>. QED
    BY <1>1, <2>2, NoMoreUntold
<1>. QED
  BY <1>4, <1>7, <1>8, <1>9, <1>10, <1>11 DEF IInv

\* The same of an operation that changes one row.
LEMMA PlannedOne ==
  ASSUME IInv, NEW c \in Worker, NEW ch \in Change,
         Plan(c, <<ch>>, "idle"), op[c].pc # "log",
         Fits(c, ch), WithinBound(ch.was), WithinBound(ch.row)
  PROVE  IInv'
<1>1. <<ch>> \in Seq(Change) /\ DOMAIN <<ch>> = {1} /\ <<ch>>[1] = ch
  OBVIOUS
<1>. QED
  BY <1>1, Planned

\* The stored rows and who may plan.
LEMMA RowsOf ==
  ASSUME IInv, NEW j \in Job, rows[j] # None
  PROVE  rows[j] \in Row /\ WithinBound(rows[j])
BY DEF IInv, TypeOK, Table, RowsBounded

\* enqueue, retry
LEMMA JobCalls ==
  ASSUME IInv, NEW c \in Worker, NEW j \in Job, Enqueue(c, j) \/ Retry(c, j)
  PROVE  IInv'
<1>. USE JobQueueAssumption DEF Change, Row, State, Reason, Settled, Held
<1>1. op[c].pc # "log" /\ rows \in Table
  BY DEF Enqueue, Retry, IInv, TypeOK, Idle
<1>3. CASE Enqueue(c, j)
  <2>. DEFINE ch == ChangeOf(j, [state |-> "queued", owner |-> None, expired |-> FALSE,
                                 attempts |-> 0], "enqueue")
  <2>1. rows[j] = None /\ Plan(c, <<ch>>, "idle")
    BY <1>3 DEF Enqueue
  <2>2. ch \in Change
    BY <2>1 DEF ChangeOf
  <2>3. Fits(c, ch) /\ WithinBound(ch.was) /\ WithinBound(ch.row)
    BY <2>1 DEF Fits, ChangeOf, WithinBound
  <2>. QED
    BY <1>1, <2>1, <2>2, <2>3, PlannedOne
<1>4. CASE Retry(c, j)
  <2>. DEFINE ch == ChangeOf(j, Free(j, "queued"), "retry")
  <2>1. /\ rows[j] # None /\ rows[j].state \in {"failed", "quarantined"}
        /\ rows[j].attempts < MaxAttempts
        /\ Plan(c, <<ch>>, "idle")
    BY <1>4 DEF Retry
  <2>2. rows[j] \in Row /\ WithinBound(rows[j])
    BY <2>1, RowsOf
  <2>3. ch \in Change
    BY <2>1, <2>2 DEF ChangeOf, Free
  <2>4. Fits(c, ch) /\ WithinBound(ch.was) /\ WithinBound(ch.row)
    BY <2>1, <2>2 DEF Fits, ChangeOf, Free, WithinBound
  <2>. QED
    BY <1>1, <2>1, <2>3, <2>4, PlannedOne
<1>. QED
  BY <1>3, <1>4

\* mark_running, heartbeat, complete
LEMMA WorkerCalls ==
  ASSUME IInv, NEW c \in Worker,
         MarkRunning(c) \/ Heartbeat(c) \/ \E v \in {"succeeded", "failed"} : Complete(c, v)
  PROVE  IInv'
<1>. USE JobQueueAssumption DEF Change, Row, State, Reason, Settled, Held
<1>. DEFINE j == hold[c].job
<1>1. op[c].pc # "log" /\ hold[c] # None /\ Owns(c)
  BY DEF MarkRunning, Heartbeat, Complete, MayComplete, Begin, Idle
<1>2. j \in Job /\ MyRow(c) = rows[j]
  BY <1>1 DEF IInv, TypeOK, Lease, MyRow
<1>. HIDE DEF j
<1>3. rows[j] \in Row /\ WithinBound(rows[j]) /\ rows[j] # None
      /\ rows[j].state \in Held /\ rows[j].owner = c
  BY <1>1, <1>2, RowsOf DEF Owns
<1>4. CASE MarkRunning(c)
  <2>. DEFINE ch == ChangeOf(j, [rows[j] EXCEPT !.state = "running"], "start")
  <2>1. Plan(c, <<ch>>, "idle")
    BY <1>4, <1>2 DEF MarkRunning, j
  <2>2. ch \in Change
    BY <1>2, <1>3 DEF ChangeOf
  <2>3. Fits(c, ch) /\ WithinBound(ch.was) /\ WithinBound(ch.row)
    BY <1>3 DEF Fits, ChangeOf, WithinBound
  <2>. QED
    BY <1>1, <2>1, <2>2, <2>3, PlannedOne
<1>5. CASE Heartbeat(c)
  <2>. DEFINE ch == ChangeOf(j, [rows[j] EXCEPT !.expired = FALSE], "heartbeat")
  <2>1. Plan(c, <<ch>>, "idle")
    BY <1>5, <1>2 DEF Heartbeat, j
  <2>2. ch \in Change
    BY <1>2, <1>3 DEF ChangeOf
  <2>3. Fits(c, ch) /\ WithinBound(ch.was) /\ WithinBound(ch.row)
    BY <1>3 DEF Fits, ChangeOf, WithinBound
  <2>. QED
    BY <1>1, <2>1, <2>2, <2>3, PlannedOne
<1>6. ASSUME NEW v \in {"succeeded", "failed"}, Complete(c, v) PROVE IInv'
  <2>. DEFINE ch == ChangeOf(j, Free(j, v), "complete")
  <2>1. Plan(c, <<ch>>, "idle")
    BY <1>6 DEF Complete, j
  <2>2. ch \in Change
    BY <1>2, <1>3 DEF ChangeOf, Free
  <2>3. Fits(c, ch) /\ WithinBound(ch.was) /\ WithinBound(ch.row)
    BY <1>3 DEF Fits, ChangeOf, Free, WithinBound
  <2>. QED
    BY <1>1, <2>1, <2>2, <2>3, PlannedOne
<1>. QED
  BY <1>4, <1>5, <1>6

\* lease_next, its second half
LEMMA Leases ==
  ASSUME IInv, NEW c \in Worker, LeaseNext(c)
  PROVE  IInv'
<1>. USE JobQueueAssumption DEF Change, Row, State, Reason, Settled, Held
<1>1. op[c].pc # "log"
  BY DEF LeaseNext
<1>2. CASE Plan(c, <<>>, "idle")
  <2>1. <<>> \in Seq(Change) /\ DOMAIN <<>> = {}
    OBVIOUS
  <2>. QED
    BY <1>1, <1>2, <2>1, Planned
<1>3. ASSUME NEW j \in Queued,
             Plan(c, <<ChangeOf(j, [rows[j] EXCEPT !.state = "leased", !.owner = c, !.expired = FALSE,
                                                   !.attempts = @ + 1], "lease")>>, "idle")
      PROVE  IInv'
  <2>. DEFINE row == [rows[j] EXCEPT !.state = "leased", !.owner = c, !.expired = FALSE, !.attempts = @ + 1]
              ch == ChangeOf(j, row, "lease")
  <2>1. j \in Job /\ rows[j] # None /\ rows[j].state = "queued"
    BY DEF Queued, Present
  <2>2. rows[j] \in Row /\ rows[j].attempts < MaxAttempts /\ rows[j].attempts \in Nat
    BY <2>1, RowsOf DEF WithinBound
  <2>3. row \in Row /\ row.state = "leased" /\ row.attempts = rows[j].attempts + 1
    <3>1. rows[j].attempts + 1 \in Nat
      BY <2>2
    <3>2. \A a \in Nat : LET r == [rows[j] EXCEPT !.state = "leased", !.owner = c, !.expired = FALSE,
                                                  !.attempts = a] IN
                         r \in Row /\ r.state = "leased" /\ r.attempts = a
      BY <2>2
    <3>. QED
      BY <3>1, <3>2
  <2>4. ch.job = j /\ ch.row = row /\ ch.was = rows[j] /\ ch.why = "lease"
        /\ ch = [job |-> j, row |-> row, was |-> rows[j], why |-> "lease"]
    BY DEF ChangeOf
  <2>5. Plan(c, <<ch>>, "idle")
    BY <1>3
  <2>. HIDE DEF row, ch
  <2>6. ch \in Change
    BY <2>1, <2>2, <2>3, <2>4
  <2>7. Fits(c, ch) /\ WithinBound(ch.was) /\ WithinBound(ch.row)
    BY <2>1, <2>2, <2>3, <2>4 DEF Fits, WithinBound
  <2>. QED
    BY <1>1, <2>5, <2>6, <2>7, PlannedOne
<1>. QED
  BY <1>2, <1>3 DEF LeaseNext

\* recover_orphans, alone or as the first half of lease_next
LEMMA Recovers ==
  ASSUME IInv, NEW c \in Worker, NEW then \in {"idle", "lease"}, RecoverOrphans(c, then)
  PROVE  IInv'
<1>. USE JobQueueAssumption
<1>1. op[c].pc # "log"
  BY DEF RecoverOrphans, Idle
<1>2. PICK order \in SetToSeqs(Orphans) : Plan(c, [i \in DOMAIN order |-> Reclaimed(order[i])], then)
  BY DEF RecoverOrphans
<1>. DEFINE n == Cardinality(Orphans)
            changes == [i \in DOMAIN order |-> Reclaimed(order[i])]
<1>3. n \in Nat /\ order \in [1..n -> Orphans]
  <2>1. n \in Nat
    BY FS_Subset, FS_CardinalityType DEF Orphans, Present
  <2>. QED
    BY <2>1 DEF SetToSeqs
<1>. HIDE DEF n
<1>4. ASSUME NEW i \in 1..n
      PROVE  /\ changes[i] \in Change /\ Fits(c, changes[i])
             /\ WithinBound(changes[i].was) /\ WithinBound(changes[i].row)
  <2>. DEFINE j == order[i]
  <2>1. j \in Job /\ rows[j] # None /\ rows[j].state \in Held /\ rows[j].expired
    BY <1>3 DEF Orphans, Present
  <2>2. rows[j] \in Row /\ WithinBound(rows[j])
    BY <2>1, RowsOf
  <2>3. changes[i] = Reclaimed(j)
    BY <1>3
  <2>. HIDE DEF j, changes
  <2>4. Reclaimed(j) \in Change
    BY <2>1, <2>2 DEF Reclaimed, ChangeOf, Free, Change, Row, State, Reason, Settled, Held
  <2>5. Fits(c, Reclaimed(j))
    BY <2>1, <2>2 DEF Fits, Reclaimed, ChangeOf, Free, Row
  <2>6. WithinBound(Reclaimed(j).was) /\ WithinBound(Reclaimed(j).row)
    <3>1. Reclaimed(j).was = rows[j] /\ Reclaimed(j).row.attempts = rows[j].attempts
          /\ Reclaimed(j).row.state = (IF rows[j].attempts >= MaxAttempts THEN "quarantined" ELSE "queued")
          /\ Reclaimed(j).row \in Row
      BY <2>1, <2>2, <2>4 DEF Reclaimed, ChangeOf, Free, Row, Change
    <3>2. rows[j].attempts \in Nat /\ rows[j].attempts <= MaxAttempts
      BY <2>1, <2>2 DEF Row, WithinBound
    <3>. QED
      BY <3>1, <3>2, <2>2 DEF WithinBound
  <2>. QED
    BY <2>3, <2>4, <2>5, <2>6
<1>5. DOMAIN changes = 1..n /\ changes \in [1..n -> Change]
  BY <1>3, <1>4
<1>6. changes \in Seq(Change)
  BY <1>3, <1>5
<1>. HIDE DEF changes
<1>7. Plan(c, changes, then)
  BY <1>2 DEF changes
<1>. QED
  BY <1>1, <1>4, <1>5, <1>6, <1>7, Planned

\* _upsert_row, JSON backend: the rows are loaded again.
LEMMA Rereads ==
  ASSUME IInv, NEW c \in Worker, op[c].pc = "upsert",
         op' = [op EXCEPT ![c] = [pc |-> "save", todo |-> @.todo, then |-> @.then, seen |-> rows]],
         UNCHANGED <<rows, told, missing, hold, collided, crashes, plans>>
  PROVE  IInv'
<1>. DEFINE place == [pc |-> "save", todo |-> op[c].todo, then |-> op[c].then, seen |-> rows]
<1>1. op[c].todo \in Seq(Change) /\ op[c].then \in {"idle", "lease"} /\ rows \in Table
  BY IdleByPlace DEF IInv, TypeOK
<1>2. op' = [op EXCEPT ![c] = place] /\ op'[c] = place /\ \A d \in Worker : d # c => op'[d] = op[d]
  BY DEF IInv, TypeOK
<1>3. place \in Work
  BY <1>1 DEF Work
<1>4. TypeOK'
  BY <1>2, <1>3 DEF IInv, TypeOK
<1>5. PlansFit' /\ RowsBounded'
  <2>1. ASSUME NEW d \in Worker, op'[d].pc \in {"upsert", "save", "log"}
        PROVE  /\ op'[d].todo # <<>> /\ \A i \in DOMAIN op'[d].todo : Fits(d, op'[d].todo[i])
               /\ \A i \in DOMAIN op'[d].todo :
                    WithinBound(op'[d].todo[i].was) /\ WithinBound(op'[d].todo[i].row)
               /\ op'[d].pc = "save" => \A j \in Job : WithinBound(op'[d].seen[j])
    <3>1. op[d].pc \in {"upsert", "save", "log"} /\ op'[d].todo = op[d].todo
      BY <1>2, <2>1
    <3>2. op'[d].pc = "save" => (d = c /\ op'[d].seen = rows) \/ op'[d] = op[d]
      BY <1>2
    <3>. QED
      BY <3>1, <3>2 DEF IInv, PlansFit, RowsBounded
  <2>. QED
    BY <2>1 DEF PlansFit, RowsBounded, IInv
<1>6. ASSUME NEW j \in Job
      PROVE  Telling(j)' = Telling(j) /\ \A d \in Telling(j) : op'[d] = op[d]
  BY <1>2, SameTellers
<1>7. OneTeller'
  BY <1>6 DEF IInv, OneTeller
<1>8. HoldsCounted'
  <2>1. \A d \in Worker : op'[d].pc = "log" => op'[d] = op[d]
    BY <1>2
  <2>. QED
    BY <2>1 DEF IInv, HoldsCounted
<1>9. LeasedOnce'
  BY DEF IInv, LeasedOnce
<1>10. LedgerExplainsRows'
  <2>1. \A j \in Job : Behind(j)' <=> Behind(j)
    BY <1>6, SameBehind
  <2>2. Untold' \subseteq Untold
    BY <2>1 DEF Untold
  <2>. QED
    BY <2>2, NoMoreUntold
<1>. QED
  BY <1>4, <1>5, <1>7, <1>8, <1>9, <1>10 DEF IInv

\* A job a write has not collided on: its row is written as planned, or not at all.
LeftAlone(ch, table, j) ==
  /\ j \notin collided
  /\ j # ch.job => /\ AsRead(table[j], rows[j]) /\ rows'[j] = table[j]
                   /\ StateIn(rows'[j]) = StateIn(rows[j])
                   /\ rows'[j] = None <=> rows[j] = None
                   /\ rows[j] # None => /\ rows'[j].attempts = rows[j].attempts
                                        /\ rows'[j].state = rows[j].state
                                        /\ rows'[j].owner = rows[j].owner
                                        /\ rows'[j] # rows[j] => rows[j].expired /\ rows[j].state \in Held
  /\ j = ch.job => /\ AsRead(ch.was, rows[j]) /\ Telling(j) = {}
                   /\ rows'[j] = ch.row
                   /\ StateIn(ch.was) = StateIn(rows[j])
                   /\ rows[j] = None <=> ch.was = None
                   /\ rows[j] # None => /\ ch.was.attempts = rows[j].attempts
                                        /\ ch.was.state = rows[j].state
                                        /\ ch.was.owner = rows[j].owner
                                        /\ ch.was # rows[j] => rows[j].expired /\ rows[j].state \in Held

\* A job no write has collided on: its row is written as planned, or not at all.
LEMMA Uncollided ==
  ASSUME IInv, NEW c \in Worker, op[c].pc \in {"upsert", "save"}, NEW ch, ch = Head(op[c].todo),
         NEW table \in Table, rows' = [table EXCEPT ![ch.job] = ch.row],
         collided' = collided \cup Collisions(ch, table),
         NEW j \in Job \ collided'
  PROVE  LeftAlone(ch, table, j)
<1>1. ch \in Change /\ ch.job \in Job /\ ch.was \in Row \cup {None} /\ rows[j] \in Row \cup {None}
      /\ table[j] \in Row \cup {None}
  BY FirstFits DEF Change, IInv, TypeOK, Table
<1>2. j \notin collided /\ j \notin Collisions(ch, table)
  OBVIOUS
<1>3. CASE j # ch.job
  <2>1. AsRead(table[j], rows[j])
    BY <1>2 DEF Collisions
  <2>2. rows'[j] = table[j]
    BY <1>3 DEF Table
  <2>. QED
    BY <1>1, <1>2, <1>3, <2>1, <2>2, ReadRow DEF LeftAlone
<1>4. CASE j = ch.job
  <2>1. AsRead(ch.was, rows[j]) /\ Telling(j) = {}
    BY <1>2, <1>4 DEF Collisions
  <2>2. rows'[j] = ch.row
    BY <1>4 DEF Table
  <2>. QED
    BY <1>1, <1>2, <1>4, <2>1, <2>2, ReadRow DEF LeftAlone
<1>. QED
  BY <1>3, <1>4

\* A planned change is written, over the rows or over the table that was read before.
LEMMA Writes ==
  ASSUME IInv, NEW c \in Worker, op[c].pc \in {"upsert", "save"}, NEW ch, ch = Head(op[c].todo),
         NEW table \in Table, \A j \in Job : WithinBound(table[j]),
         rows' = [table EXCEPT ![ch.job] = ch.row],
         collided' = collided \cup Collisions(ch, table),
         NEW place, place = [pc |-> "log", todo |-> op[c].todo, then |-> op[c].then],
         op' = [op EXCEPT ![c] = place],
         UNCHANGED <<told, missing, hold, crashes, plans>>
  PROVE  IInv'
<1>1. /\ op[c].todo \in Seq(Change) /\ op[c].todo # <<>> /\ op[c].then \in {"idle", "lease"}
      /\ ch \in Change /\ ch.job \in Job /\ ch.row \in Row /\ ch.row # None
      /\ Fits(c, ch) /\ WithinBound(ch.row)
  BY FirstFits, IdleByPlace DEF IInv
<1>2. op'[c] = place /\ \A d \in Worker : d # c => op'[d] = op[d]
  BY DEF IInv, TypeOK
<1>3. /\ rows' \in Table /\ rows'[ch.job] = ch.row
      /\ \A j \in Job : j # ch.job => rows'[j] = table[j]
  BY <1>1 DEF Table
<1>4. ASSUME NEW j \in Job \ collided'
      PROVE  /\ j \notin collided
             /\ j # ch.job => /\ AsRead(table[j], rows[j]) /\ rows'[j] = table[j]
                              /\ StateIn(rows'[j]) = StateIn(rows[j])
                              /\ rows'[j] = None <=> rows[j] = None
                              /\ rows[j] # None => /\ rows'[j].attempts = rows[j].attempts
                                                   /\ rows'[j].state = rows[j].state
                                                   /\ rows'[j].owner = rows[j].owner
                                                   /\ rows'[j] # rows[j] => rows[j].expired /\ rows[j].state \in Held
             /\ j = ch.job => /\ AsRead(ch.was, rows[j]) /\ Telling(j) = {}
                              /\ rows'[j] = ch.row
                              /\ StateIn(ch.was) = StateIn(rows[j])
                              /\ rows[j] = None <=> ch.was = None
                              /\ rows[j] # None => /\ ch.was.attempts = rows[j].attempts
                                                   /\ ch.was.state = rows[j].state
                                                   /\ ch.was.owner = rows[j].owner
                                                   /\ ch.was # rows[j] => rows[j].expired /\ rows[j].state \in Held
  <2>1. LeftAlone(ch, table, j)
    BY Uncollided
  <2>. QED
    BY <2>1 DEF LeftAlone
<1>12. TypeOK'
  <2>1. collided' \subseteq Job
    BY <1>1 DEF IInv, TypeOK, Collisions
  <2>2. op' \in [Worker -> Work]
    BY <1>1 DEF Work, IInv, TypeOK
  <2>. QED
    BY <1>3, <2>1, <2>2 DEF IInv, TypeOK
<1>5. PlansFit' /\ RowsBounded'
  <2>1. ASSUME NEW d \in Worker, op'[d].pc \in {"upsert", "save", "log"}
        PROVE  /\ op'[d].todo # <<>> /\ \A i \in DOMAIN op'[d].todo : Fits(d, op'[d].todo[i])
               /\ \A i \in DOMAIN op'[d].todo :
                    WithinBound(op'[d].todo[i].was) /\ WithinBound(op'[d].todo[i].row)
               /\ op'[d].pc = "save" => \A j \in Job : WithinBound(op'[d].seen[j])
    <3>1. op[d].pc \in {"upsert", "save", "log"} /\ op'[d].todo = op[d].todo
      BY <1>2, <2>1
    <3>2. op'[d].pc = "save" => op'[d] = op[d]
      BY <1>2
    <3>. QED
      BY <3>1, <3>2 DEF IInv, PlansFit, RowsBounded
  <2>2. \A j \in Job : WithinBound(rows'[j])
    BY <1>1, <1>3
  <2>. QED
    BY <2>1, <2>2 DEF PlansFit, RowsBounded
\* The tellers of a job, after the write.
<1>6. ASSUME NEW j \in Job
      PROVE  /\ j # ch.job => Telling(j)' = Telling(j)
             /\ \A d \in Telling(j) : op'[d] = op[d]
             /\ j = ch.job => Telling(j)' = Telling(j) \cup (IF Recorded(ch) THEN {c} ELSE {})
  <2>1. \A d \in Telling(j) : d # c
    BY DEF Telling
  <2>2. Head(op'[c].todo) = ch /\ op'[c].pc = "log"
    BY <1>2
  <2>3. ASSUME NEW d \in Worker
        PROVE  d \in Telling(j)' <=> d \in Telling(j) \/ (d = c /\ ch.job = j /\ Recorded(ch))
    <3>1. CASE d = c
      BY <2>1, <2>2, <3>1 DEF Telling
    <3>2. CASE d # c
      BY <1>2, <3>2 DEF Telling
    <3>. QED
      BY <3>1, <3>2
  <2>4. Telling(j) \subseteq Worker /\ Telling(j)' \subseteq Worker
    BY DEF Telling
  <2>. QED
    BY <1>2, <2>1, <2>3, <2>4
<1>7. OneTeller'
  <2>. SUFFICES ASSUME NEW j \in Job \ collided', NEW d \in Telling(j)'
       PROVE  /\ Telling(j)' = {d}
              /\ rows'[j] # None /\ rows'[j].state = Head(op'[d].todo).row.state
    BY DEF OneTeller
  <2>1. CASE j = ch.job
    <3>1. Telling(j) = {} /\ rows'[j] = ch.row
      BY <2>1, <1>4
    <3>2. Telling(j)' = {c} /\ d = c
      BY <1>6, <2>1, <3>1
    <3>. QED
      BY <1>1, <1>2, <3>1, <3>2
  <2>2. CASE j # ch.job
    <3>1. Telling(j)' = Telling(j) /\ op'[d] = op[d]
      BY <1>6, <2>2
    <3>2. j \notin collided /\ (rows'[j] = None <=> rows[j] = None)
          /\ (rows[j] # None => rows'[j].state = rows[j].state)
      BY <2>2, <1>4
    <3>. QED
      BY <3>1, <3>2 DEF IInv, OneTeller
  <2>. QED
    BY <2>1, <2>2
\* How the attempts of a job's row move.
<1>8. ASSUME NEW j \in Job \ collided', rows[j] # None
      PROVE  /\ rows'[j] # None /\ rows[j].attempts \in Nat /\ rows'[j].attempts \in Nat
             /\ rows[j].attempts <= rows'[j].attempts
             /\ j # ch.job => rows'[j].attempts = rows[j].attempts
             /\ j = ch.job /\ ch.why = "lease" => rows'[j].attempts = rows[j].attempts + 1
  <2>1. rows[j] \in Row /\ rows[j].attempts \in Nat
    BY <1>8, RowsOf DEF Row
  <2>2. CASE j # ch.job
    BY <1>8, <2>1, <2>2, <1>4
  <2>3. CASE j = ch.job
    <3>1. rows'[j] = ch.row /\ ch.was # None /\ ch.was.attempts = rows[j].attempts
      BY <1>8, <2>3, <1>4
    <3>2. ch.row.attempts = rows[j].attempts \/ ch.row.attempts = rows[j].attempts + 1
      BY <1>1, <3>1 DEF Fits
    <3>3. ch.why = "lease" => ch.row.attempts = rows[j].attempts + 1
      BY <1>1, <3>1 DEF Fits
    <3>4. ch.row.attempts \in Nat
      BY <1>1 DEF Row
    <3>5. rows'[j] # None /\ rows'[j].attempts = ch.row.attempts
      BY <1>1, <3>1
    <3>. QED
      BY <2>1, <2>3, <3>2, <3>3, <3>4, <3>5
  <2>. QED
    BY <2>2, <2>3
<1>9. HoldsCounted'
  <2>1. ASSUME NEW d \in Worker, hold[d] # None, hold[d].job \notin collided'
        PROVE  rows'[hold[d].job] # None /\ hold[d].attempt <= rows'[hold[d].job].attempts
    <3>1. hold[d].job \in Job /\ hold[d].attempt \in Nat
      BY <2>1 DEF IInv, TypeOK, Lease
    <3>2. hold[d].job \notin collided
      BY <2>1
    <3>3. rows[hold[d].job] # None /\ hold[d].attempt <= rows[hold[d].job].attempts
      BY <2>1, <3>2 DEF IInv, HoldsCounted
    <3>. QED
      BY <1>8, <2>1, <3>1, <3>3
  <2>2. ASSUME NEW e \in Worker, op'[e].pc = "log", Head(op'[e].todo).why = "lease",
               Head(op'[e].todo).job \notin collided'
        PROVE  LET mine == Head(op'[e].todo) IN
               /\ rows'[mine.job] # None /\ mine.row.attempts = rows'[mine.job].attempts
               /\ \A d \in Worker : hold[d] # None /\ hold[d].job = mine.job =>
                    hold[d].attempt < mine.row.attempts
    <3>. DEFINE mine == Head(op'[e].todo)
    <3>1. CASE e = c
      <4>1. mine = ch /\ ch.why = "lease" /\ ch.job \notin collided'
        BY <1>2, <2>2, <3>1
      <4>2. rows[ch.job] # None
        <5>1. ch.was # None
          BY <1>1, <4>1 DEF Fits
        <5>. QED
          BY <1>1, <4>1, <5>1, <1>4
      <4>3. rows'[ch.job] = ch.row /\ ch.row.attempts = rows[ch.job].attempts + 1
            /\ rows[ch.job].attempts \in Nat
        BY <1>1, <1>3, <1>8, <4>1, <4>2
      <4>4. ch.job \notin collided
        BY <4>1
      <4>5. \A d \in Worker : hold[d] # None /\ hold[d].job = ch.job =>
              hold[d].attempt <= rows[ch.job].attempts /\ hold[d].attempt \in Nat
        BY <4>4 DEF IInv, HoldsCounted, TypeOK, Lease
      <4>. HIDE DEF mine
      <4>6. \A d \in Worker : hold[d] # None /\ hold[d].job = ch.job =>
              hold[d].attempt < ch.row.attempts
        BY <4>3, <4>5
      <4>. QED
        BY <1>1, <4>1, <4>3, <4>6 DEF mine
    <3>2. CASE e # c
      <4>1. op'[e] = op[e] /\ mine = Head(op[e].todo) /\ op[e].pc = "log"
        BY <1>2, <2>2, <3>2
      <4>2. mine.job \in Job /\ Fits(e, mine)
        BY <4>1, FirstFits
      <4>3. mine.why = "lease" /\ mine.job \notin collided
        BY <2>2
      <4>4. e \in Telling(mine.job)
        BY <4>1, <4>2, <4>3 DEF Telling, Recorded, StateIn, Fits
      <4>. HIDE DEF mine
      <4>5. mine.job # ch.job
        BY <2>2, <4>2, <4>4, <1>4 DEF mine
      <4>6. /\ rows[mine.job] # None /\ mine.row.attempts = rows[mine.job].attempts
            /\ \A d \in Worker : hold[d] # None /\ hold[d].job = mine.job =>
                 hold[d].attempt < mine.row.attempts
        BY <4>1, <4>3 DEF IInv, HoldsCounted
      <4>7. rows'[mine.job] # None /\ rows'[mine.job].attempts = rows[mine.job].attempts
        BY <1>8, <2>2, <4>2, <4>5, <4>6 DEF mine
      <4>. QED
        BY <4>6, <4>7 DEF mine
    <3>. QED
      BY <3>1, <3>2
  <2>. QED
    BY <2>1, <2>2 DEF HoldsCounted
<1>10. LeasedOnce'
  BY DEF IInv, LeasedOnce
<1>11. LedgerExplainsRows'
  <2>1. ASSUME NEW j \in Job \ collided' PROVE Behind(j)' => Behind(j)
    <3>1. CASE j # ch.job
      <4>1. StateIn(rows'[j]) = StateIn(rows[j])
        BY <3>1, <1>4
      <4>. QED
        BY <1>6, <3>1, <4>1, SameBehind
    <3>2. CASE j = ch.job
      <4>1. Telling(j) = {} /\ StateIn(ch.was) = StateIn(rows[j]) /\ rows'[j] = ch.row
        BY <3>2, <1>4
      <4>2. Behind(j) <=> told[j] # StateIn(rows[j])
        BY <4>1 DEF Behind
      <4>3. CASE Recorded(ch)
        <5>1. Telling(j)' = {c} /\ Head(op'[c].todo) = ch
          BY <1>2, <1>6, <3>2, <4>1, <4>3
        <5>2. Behind(j)' <=> told'[j] # StateIn(ch.was)
          BY <5>1 DEF Behind, StateIn
        <5>. QED
          BY <4>1, <4>2, <5>2
      <4>4. CASE ~Recorded(ch)
        <5>1. Telling(j)' = {}
          BY <1>6, <3>2, <4>1, <4>4
        <5>2. StateIn(ch.row) = StateIn(ch.was)
          BY <1>1, <4>4 DEF Recorded, Fits, StateIn
        <5>3. Behind(j)' <=> told'[j] # StateIn(rows'[j])
          BY <5>1 DEF Behind, StateIn
        <5>. QED
          BY <4>1, <4>2, <5>2, <5>3
      <4>. QED
        BY <4>3, <4>4
    <3>. QED
      BY <3>1, <3>2
  <2>2. Untold' \subseteq Untold
    BY <2>1 DEF Untold
  <2>. QED
    BY <2>2, NoMoreUntold
<1>. QED
  BY <1>5, <1>7, <1>9, <1>10, <1>11, <1>12 DEF IInv

LEMMA Upserts ==
  ASSUME IInv, NEW c \in Worker, Upsert(c)
  PROVE  IInv'
<1>. DEFINE ch == Head(op[c].todo)
<1>1. op[c].pc = "upsert" /\ UNCHANGED <<told, missing, hold, crashes, plans>>
  BY DEF Upsert
<1>2. CASE Backend = "sqlite"
  <2>1. /\ rows' = [rows EXCEPT ![ch.job] = ch.row] /\ op' = [op EXCEPT ![c].pc = "log"]
        /\ collided' = collided \cup Collisions(ch, rows)
    BY <1>2 DEF Upsert
  <2>2. rows \in Table /\ \A j \in Job : WithinBound(rows[j])
    BY DEF IInv, TypeOK, RowsBounded
  <2>3. [op[c] EXCEPT !.pc = "log"] = [pc |-> "log", todo |-> op[c].todo, then |-> op[c].then]
    <3>1. op[c] \in [pc : {"upsert", "log"}, todo : Seq(Change), then : {"idle", "lease"}]
      BY <1>1 DEF IInv, TypeOK, Work
    <3>. QED
      BY <3>1
  <2>4. op' = [op EXCEPT ![c] = [pc |-> "log", todo |-> op[c].todo, then |-> op[c].then]]
    BY <2>1, <2>3 DEF IInv, TypeOK
  <2>. QED
    BY <1>1, <2>1, <2>2, <2>4, Writes
<1>3. CASE Backend # "sqlite"
  BY <1>1, <1>3, Rereads DEF Upsert
<1>. QED
  BY <1>2, <1>3

LEMMA Saves ==
  ASSUME IInv, NEW c \in Worker, Save(c)
  PROVE  IInv'
<1>1. op[c].pc = "save" /\ UNCHANGED <<told, missing, hold, crashes, plans>>
      /\ op[c].seen \in Table /\ \A j \in Job : WithinBound(op[c].seen[j])
  BY IdleByPlace DEF Save, IInv, RowsBounded
<1>2. /\ rows' = [op[c].seen EXCEPT ![Head(op[c].todo).job] = Head(op[c].todo).row]
      /\ op' = [op EXCEPT ![c] = [pc |-> "log", todo |-> op[c].todo, then |-> op[c].then]]
      /\ collided' = collided \cup Collisions(Head(op[c].todo), op[c].seen)
  BY DEF Save
<1>. QED
  BY <1>1, <1>2, Writes

\* The transition is recorded, and the operation goes on with what is left of it.
LEMMA Logs ==
  ASSUME IInv, NEW c \in Worker, Log(c)
  PROVE  IInv'
<1>. DEFINE ch == Head(op[c].todo)
            rest == Tail(op[c].todo)
            place == IF rest = <<>> THEN [pc |-> op[c].then]
                     ELSE [pc |-> "upsert", todo |-> rest, then |-> op[c].then]
<1>1. /\ op[c].pc = "log"
      /\ op' = [op EXCEPT ![c] = place]
      /\ UNCHANGED <<rows, collided, crashes, plans>>
      /\ told' = IF Recorded(ch) THEN [told EXCEPT ![ch.job] = ch.row.state] ELSE told
      /\ missing' = IF /\ Recorded(ch) /\ StateIn(ch.was) # told[ch.job]
                       /\ ch.job \notin collided
                    THEN missing + 1 ELSE missing
      /\ hold' = CASE ch.why = "lease" ->
                        [hold EXCEPT ![c] = [job |-> ch.job, attempt |-> ch.row.attempts]]
                   [] ch.why = "complete" -> [hold EXCEPT ![c] = None]
                   [] OTHER -> hold
  BY DEF Log
<1>2. /\ op[c].todo \in Seq(Change) /\ op[c].todo # <<>> /\ op[c].then \in {"idle", "lease"}
      /\ ch \in Change /\ ch.job \in Job /\ ch.row \in Row /\ ch.row # None /\ Fits(c, ch)
  BY <1>1, FirstFits, IdleByPlace DEF IInv
<1>3. /\ rest \in Seq(Change)
      /\ \A i \in DOMAIN rest : i + 1 \in DOMAIN op[c].todo /\ rest[i] = op[c].todo[i + 1]
  BY <1>2, HeadTailProperties
<1>4. /\ place \in Work /\ place.pc # "log" /\ place.pc # "save"
      /\ place.pc \in {"upsert", "save", "log"} => place.todo = rest /\ rest # <<>>
  BY <1>2, <1>3 DEF Work
<1>. HIDE DEF place, rest
<1>5. op' \in [Worker -> Work] /\ op'[c] = place /\ \A d \in Worker : d # c => op'[d] = op[d]
  BY <1>1, <1>4 DEF IInv, TypeOK
<1>6. ch.row.state \in State /\ ch.row.attempts \in Nat
  BY <1>2 DEF Row
<1>. HIDE DEF ch
<1>7. TypeOK'
  <2>1. told' \in [Job -> State \cup {"none"}]
    BY <1>1, <1>2, <1>6 DEF IInv, TypeOK
  <2>2. missing' \in Nat
    BY <1>1 DEF IInv, TypeOK
  <2>3. [job |-> ch.job, attempt |-> ch.row.attempts] \in Lease
    BY <1>2, <1>6 DEF Lease
  <2>4. hold' \in [Worker -> Lease \cup {None}]
    BY <1>1, <2>3 DEF IInv, TypeOK
  <2>. QED
    BY <1>1, <1>5, <2>1, <2>2, <2>4 DEF IInv, TypeOK
<1>8. PlansFit' /\ RowsBounded'
  <2>1. ASSUME NEW d \in Worker, op'[d].pc \in {"upsert", "save", "log"}
        PROVE  /\ op'[d].todo # <<>> /\ \A i \in DOMAIN op'[d].todo : Fits(d, op'[d].todo[i])
               /\ \A i \in DOMAIN op'[d].todo :
                    WithinBound(op'[d].todo[i].was) /\ WithinBound(op'[d].todo[i].row)
               /\ op'[d].pc = "save" => \A j \in Job : WithinBound(op'[d].seen[j])
    <3>1. CASE d = c
      <4>1. op'[d].todo = rest /\ rest # <<>> /\ op'[d].pc # "save"
        BY <1>4, <1>5, <2>1, <3>1
      <4>2. ASSUME NEW i \in DOMAIN rest
            PROVE  Fits(c, rest[i]) /\ WithinBound(rest[i].was) /\ WithinBound(rest[i].row)
        <5>1. i + 1 \in DOMAIN op[c].todo /\ rest[i] = op[c].todo[i + 1]
          BY <1>3
        <5>. QED
          BY <1>1, <5>1 DEF IInv, PlansFit, RowsBounded
      <4>. QED
        BY <3>1, <4>1, <4>2
    <3>2. CASE d # c
      BY <1>5, <2>1, <3>2 DEF IInv, PlansFit, RowsBounded
    <3>. QED
      BY <3>1, <3>2
  <2>2. \A j \in Job : WithinBound(rows'[j])
    BY <1>1 DEF IInv, RowsBounded
  <2>. QED
    BY <2>1, <2>2 DEF PlansFit, RowsBounded
\* Who is still to record a transition: all but this worker.
<1>9. ASSUME NEW j \in Job
      PROVE  /\ Telling(j)' = Telling(j) \ {c}
             /\ \A d \in Telling(j)' : op'[d] = op[d]
             /\ c \in Telling(j) <=> j = ch.job /\ Recorded(ch)
  <2>1. ASSUME NEW d \in Worker PROVE d \in Telling(j)' <=> d \in Telling(j) /\ d # c
    <3>1. CASE d = c
      BY <1>4, <1>5, <3>1 DEF Telling
    <3>2. CASE d # c
      BY <1>5, <3>2 DEF Telling
    <3>. QED
      BY <3>1, <3>2
  <2>2. Telling(j) \subseteq Worker /\ Telling(j)' \subseteq Worker
    BY DEF Telling
  <2>3. c \in Telling(j) <=> j = ch.job /\ Recorded(ch)
    BY <1>1 DEF Telling, ch
  <2>. QED
    BY <1>5, <2>1, <2>2, <2>3
<1>10. OneTeller'
  <2>. SUFFICES ASSUME NEW j \in Job \ collided, NEW d \in Telling(j)'
       PROVE  /\ Telling(j)' = {d}
              /\ rows[j] # None /\ rows[j].state = Head(op'[d].todo).row.state
    BY <1>1 DEF OneTeller
  <2>1. d \in Telling(j) /\ d # c /\ op'[d] = op[d]
    BY <1>9
  <2>2. Telling(j) = {d} /\ rows[j] # None /\ rows[j].state = Head(op[d].todo).row.state
    BY <2>1 DEF IInv, OneTeller
  <2>. QED
    BY <1>9, <2>1, <2>2
\* A job that is recorded here has this one teller, and its row is in the state recorded.
<1>11. ASSUME Recorded(ch), ch.job \notin collided
       PROVE  Telling(ch.job) = {c} /\ rows[ch.job] # None /\ rows[ch.job].state = ch.row.state
  <2>1. c \in Telling(ch.job)
    BY <1>2, <1>9, <1>11
  <2>. QED
    BY <1>2, <1>11, <2>1 DEF IInv, OneTeller, ch
<1>12. ch.why = "lease" => Recorded(ch)
  BY <1>2 DEF Fits, Recorded, StateIn
\* A worker's lease is the one it had, or the one just recorded.
<1>13. ASSUME NEW d \in Worker, hold'[d] # None
       PROVE  \/ hold'[d] = hold[d] /\ (ch.why = "lease" => d # c)
              \/ d = c /\ ch.why = "lease" /\ hold'[d] = [job |-> ch.job, attempt |-> ch.row.attempts]
  <2>1. hold \in [Worker -> Lease \cup {None}]
    BY DEF IInv, TypeOK
  <2>2. CASE ch.why = "lease"
    BY <1>1, <2>1, <2>2
  <2>3. CASE ch.why = "complete"
    BY <1>1, <1>13, <2>1, <2>3
  <2>4. CASE ch.why \notin {"lease", "complete"}
    BY <1>1, <2>4
  <2>. QED
    BY <2>2, <2>3, <2>4
<1>14. ASSUME ch.why = "lease", ch.job \notin collided
       PROVE  /\ rows[ch.job] # None /\ ch.row.attempts = rows[ch.job].attempts
              /\ \A d \in Worker : hold[d] # None /\ hold[d].job = ch.job =>
                   hold[d].attempt < ch.row.attempts /\ hold[d].attempt \in Nat
  BY <1>1, <1>14 DEF IInv, HoldsCounted, TypeOK, Lease, ch
<1>15. HoldsCounted'
  <2>1. ASSUME NEW d \in Worker, hold'[d] # None, hold'[d].job \notin collided
        PROVE  rows[hold'[d].job] # None /\ hold'[d].attempt <= rows[hold'[d].job].attempts
    <3>1. CASE hold'[d] = hold[d]
      BY <2>1, <3>1 DEF IInv, HoldsCounted
    <3>2. CASE ch.why = "lease" /\ hold'[d] = [job |-> ch.job, attempt |-> ch.row.attempts]
      <4>1. hold'[d].job = ch.job /\ hold'[d].attempt = ch.row.attempts
        BY <3>2
      <4>. QED
        BY <1>6, <1>14, <2>1, <3>2, <4>1
    <3>. QED
      BY <1>13, <2>1, <3>1, <3>2
  <2>2. ASSUME NEW e \in Worker, op'[e].pc = "log", Head(op'[e].todo).why = "lease",
               Head(op'[e].todo).job \notin collided
        PROVE  LET mine == Head(op'[e].todo) IN
               /\ rows[mine.job] # None /\ mine.row.attempts = rows[mine.job].attempts
               /\ \A d \in Worker : hold'[d] # None /\ hold'[d].job = mine.job =>
                    hold'[d].attempt < mine.row.attempts
    <3>. DEFINE mine == Head(op[e].todo)
    <3>1. e # c /\ op'[e] = op[e]
      BY <1>4, <1>5, <2>2
    <3>2. mine.job \in Job /\ Fits(e, mine) /\ mine.why = "lease" /\ mine.job \notin collided /\ op[e].pc = "log"
      BY <2>2, <3>1, FirstFits
    <3>3. e \in Telling(mine.job)
      BY <3>2 DEF Telling, Recorded, StateIn, Fits
    <3>4. ch.why = "lease" => ch.job # mine.job
      <4>1. ch.why = "lease" /\ ch.job = mine.job => Telling(mine.job) = {c}
        BY <1>11, <1>12, <3>2
      <4>. QED
        BY <3>1, <3>3, <4>1
    <3>5. /\ rows[mine.job] # None /\ mine.row.attempts = rows[mine.job].attempts
          /\ \A d \in Worker : hold[d] # None /\ hold[d].job = mine.job =>
               hold[d].attempt < mine.row.attempts
      BY <3>2 DEF IInv, HoldsCounted
    <3>. HIDE DEF mine
    <3>6. ASSUME NEW d \in Worker, hold'[d] # None, hold'[d].job = mine.job
          PROVE  hold'[d].attempt < mine.row.attempts
      BY <1>13, <3>4, <3>5, <3>6
    <3>. QED
      BY <3>1, <3>5, <3>6 DEF mine
  <2>. QED
    BY <1>1, <2>1, <2>2 DEF HoldsCounted
<1>16. LeasedOnce'
  <2>. SUFFICES ASSUME NEW d \in Worker, NEW e \in Worker, d # e,
                       hold'[d] # None, hold'[d].job \notin collided, hold'[d] = hold'[e]
       PROVE  FALSE
    BY <1>1 DEF LeasedOnce
  <2>1. CASE hold'[d] = hold[d] /\ hold'[e] = hold[e]
    BY <2>1 DEF IInv, LeasedOnce
  <2>2. ASSUME NEW x \in Worker, NEW y \in Worker, x # y, hold'[x] = hold'[y],
               hold'[x] # None, hold'[x].job \notin collided,
               ch.why = "lease", hold'[x] = [job |-> ch.job, attempt |-> ch.row.attempts], x = c
        PROVE  FALSE
    <3>1. hold'[y] = hold[y] /\ hold[y] # None
      BY <1>13, <2>2
    <3>2. hold[y] = [job |-> ch.job, attempt |-> ch.row.attempts] /\ hold'[x].job \notin collided
      BY <2>2, <3>1
    <3>3. hold[y].job = ch.job /\ hold[y].attempt = ch.row.attempts /\ ch.job \notin collided
      BY <2>2, <3>2
    <3>. QED
      BY <1>14, <2>2, <3>1, <3>3
  <2>. QED
    BY <1>13, <2>1, <2>2
<1>17. LedgerExplainsRows'
  <2>1. ASSUME NEW j \in Job \ collided, ~(j = ch.job /\ Recorded(ch))
        PROVE  Behind(j)' <=> Behind(j)
    <3>1. Telling(j)' = Telling(j) /\ \A d \in Telling(j) : op'[d] = op[d]
      BY <1>9, <2>1
    <3>2. told'[j] = told[j]
      BY <1>1, <2>1 DEF IInv, TypeOK
    <3>. QED
      BY <1>1, <3>1, <3>2, SameBehind
  <2>2. CASE Recorded(ch) /\ ch.job \notin collided
    <3>. PICK k \in Job : k = ch.job
      BY <1>2
    <3>1. Telling(k) = {c} /\ Telling(k)' = {} /\ rows[k] # None
          /\ rows[k].state = ch.row.state
      <4>1. Telling(k) = {c} /\ rows[k] # None /\ rows[k].state = ch.row.state
        BY <1>11, <2>2
      <4>. QED
        BY <1>9, <4>1
    <3>2. told'[k] = ch.row.state
      BY <1>1, <1>2, <2>2 DEF IInv, TypeOK
    <3>3. ~Behind(k)'
      <4>1. Behind(k)' => told'[k] # StateIn(rows'[k])
        BY <3>1 DEF Behind, StateIn
      <4>. QED
        BY <1>1, <3>1, <3>2, <4>1 DEF StateIn
    <3>4. Behind(k) <=> told[k] # StateIn(ch.was)
      BY <3>1 DEF Behind, ch
    <3>5. Untold' = Untold \ {k}
      BY <1>1, <2>1, <3>3 DEF Untold
    <3>6. /\ missing + Cardinality(Untold) <= crashes /\ missing \in Nat /\ crashes \in Nat
          /\ crashes' = crashes
      BY <1>1 DEF IInv, TypeOK, LedgerExplainsRows
    <3>7. CASE k \in Untold
      <4>1. Cardinality(Untold') = Cardinality(Untold) - 1
        BY <3>5, <3>7, UntoldIsFinite, FS_RemoveElement
      <4>2. missing' <= missing + 1 /\ missing' \in Nat
        BY <1>1, <3>6
      <4>. QED
        BY <3>6, <4>1, <4>2, UntoldIsFinite DEF LedgerExplainsRows
    <3>8. CASE k \notin Untold
      <4>1. Untold' = Untold
        BY <3>5, <3>8
      <4>2. missing' = missing
        BY <1>1, <1>2, <2>2, <3>4, <3>8 DEF Untold
      <4>. QED
        BY <3>6, <4>1, <4>2, NoMoreUntold
    <3>. QED
      BY <3>7, <3>8
  <2>3. CASE ~(Recorded(ch) /\ ch.job \notin collided)
    <3>1. \A j \in Job \ collided : Behind(j)' <=> Behind(j)
      BY <2>1, <2>3
    <3>2. Untold' \subseteq Untold
      BY <1>1, <3>1 DEF Untold
    <3>3. missing' = missing
      BY <1>1, <2>3
    <3>. QED
      BY <1>1, <3>2, <3>3, NoMoreUntold
  <2>. QED
    BY <2>2, <2>3
<1>. QED
  BY <1>7, <1>8, <1>10, <1>15, <1>16, <1>17 DEF IInv

\* A worker forgets its job, for good reason or because it dies.
LEMMA Forgets ==
  ASSUME IInv, NEW c \in Worker, CompleteLate(c) \/ Crash(c)
  PROVE  IInv'
<1>1. /\ hold' = [hold EXCEPT ![c] = None]
      /\ UNCHANGED <<rows, told, missing, collided, plans>>
      /\ \/ op' = op /\ crashes' = crashes
         \/ op' = [op EXCEPT ![c] = Idle] /\ crashes' = crashes + 1 /\ crashes < MaxCrashes
  BY DEF CompleteLate, Crash
<1>2. /\ op' \in [Worker -> Work]
      /\ \A d \in Worker : op'[d] = op[d] \/ (d = c /\ op'[d] = Idle /\ crashes' = crashes + 1)
      /\ \A d \in Worker : d # c => op'[d] = op[d]
      /\ \A d \in Worker : hold'[d] # None => hold'[d] = hold[d]
      /\ Idle.pc = "idle"
  <2>1. Idle \in Work /\ Idle.pc = "idle"
    BY DEF Idle, Work
  <2>2. op \in [Worker -> Work] /\ hold \in [Worker -> Lease \cup {None}]
    BY DEF IInv, TypeOK
  <2>3. \A d \in Worker : hold'[d] # None => hold'[d] = hold[d]
    BY <1>1, <2>2
  <2>. HIDE DEF Idle
  <2>4. CASE op' = op
    BY <2>1, <2>2, <2>3, <2>4
  <2>5. CASE op' = [op EXCEPT ![c] = Idle] /\ crashes' = crashes + 1
    BY <2>1, <2>2, <2>3, <2>5
  <2>. QED
    BY <1>1, <2>4, <2>5
<1>3. TypeOK'
  <2>1. crashes' \in 0..MaxCrashes
    BY <1>1, JobQueueAssumption DEF IInv, TypeOK
  <2>. QED
    BY <1>1, <1>2, <2>1 DEF IInv, TypeOK
<1>4. PlansFit' /\ RowsBounded'
  <2>1. \A d \in Worker : op'[d].pc \in {"upsert", "save", "log"} => op'[d] = op[d]
    BY <1>2
  <2>. QED
    BY <1>1, <2>1 DEF IInv, PlansFit, RowsBounded
<1>5. ASSUME NEW j \in Job
      PROVE  /\ Telling(j)' = Telling(j) \/ (c \in Telling(j) /\ Telling(j)' = Telling(j) \ {c}
                                              /\ crashes' = crashes + 1)
             /\ \A d \in Telling(j)' : op'[d] = op[d]
  <2>1. \A d \in Worker : d # c => (d \in Telling(j)' <=> d \in Telling(j))
    BY <1>2 DEF Telling
  <2>2. Telling(j) \subseteq Worker /\ Telling(j)' \subseteq Worker
    BY DEF Telling
  <2>3. c \in Telling(j)' => op'[c] = op[c]
    BY <1>2 DEF Telling
  <2>4. op'[c] = op[c] => (c \in Telling(j)' <=> c \in Telling(j))
    BY DEF Telling
  <2>. QED
    BY <1>2, <2>1, <2>2, <2>3, <2>4
<1>6. OneTeller'
  BY <1>1, <1>5 DEF IInv, OneTeller
<1>7. HoldsCounted'
  <2>1. \A d \in Worker : op'[d].pc = "log" => op'[d] = op[d]
    BY <1>2
  <2>. QED
    BY <1>1, <1>2, <2>1 DEF IInv, HoldsCounted
<1>8. LeasedOnce'
  BY <1>1, <1>2 DEF IInv, LeasedOnce
<1>9. LedgerExplainsRows'
  <2>1. ASSUME NEW j \in Job, Telling(j)' = Telling(j) PROVE Behind(j)' <=> Behind(j)
    BY <1>1, <1>5, <2>1, SameBehind
  <2>2. CASE \A j \in Job \ collided : Telling(j)' = Telling(j)
    <3>1. Untold' \subseteq Untold
      BY <1>1, <2>1, <2>2 DEF Untold
    <3>2. missing + Cardinality(Untold) <= crashes /\ missing \in Nat /\ crashes \in Nat
          /\ (crashes' = crashes \/ crashes' = crashes + 1) /\ missing' = missing
      BY <1>1 DEF IInv, TypeOK, LedgerExplainsRows
    <3>3. Cardinality(Untold') \in Nat /\ Cardinality(Untold') <= Cardinality(Untold)
      BY <3>1, UntoldIsFinite, FS_Subset, FS_CardinalityType
    <3>. QED
      BY <3>2, <3>3, UntoldIsFinite DEF LedgerExplainsRows
  <2>3. ASSUME NEW j \in Job \ collided, Telling(j)' # Telling(j) PROVE LedgerExplainsRows'
    <3>1. c \in Telling(j) /\ crashes' = crashes + 1
      BY <1>5, <2>3
    <3>2. ASSUME NEW k \in Job, k # j PROVE Telling(k)' = Telling(k)
      <4>1. c \notin Telling(k)
        BY <3>1, <3>2 DEF Telling
      <4>. QED
        BY <1>5, <4>1
    <3>3. Untold' \subseteq Untold \cup {j}
      BY <1>1, <2>1, <3>2 DEF Untold
    <3>4. /\ IsFiniteSet(Untold \cup {j}) /\ Cardinality(Untold \cup {j}) \in Nat
          /\ Cardinality(Untold \cup {j}) <= Cardinality(Untold) + 1
      <4>1. CASE j \in Untold
        <5>1. Untold \cup {j} = Untold
          BY <4>1
        <5>. QED
          BY <5>1, UntoldIsFinite
      <4>2. CASE j \notin Untold
        <5>1. Cardinality(Untold \cup {j}) = Cardinality(Untold) + 1 /\ IsFiniteSet(Untold \cup {j})
          BY <4>2, UntoldIsFinite, FS_AddElement
        <5>. QED
          BY <5>1, UntoldIsFinite
      <4>. QED
        BY <4>1, <4>2
    <3>5. Cardinality(Untold') \in Nat /\ Cardinality(Untold') <= Cardinality(Untold \cup {j})
      BY <3>3, <3>4, FS_Subset, FS_CardinalityType
    <3>6. missing + Cardinality(Untold) <= crashes /\ missing \in Nat /\ crashes \in Nat
          /\ missing' = missing
      BY <1>1 DEF IInv, TypeOK, LedgerExplainsRows
    <3>. QED
      BY <3>1, <3>4, <3>5, <3>6, UntoldIsFinite DEF LedgerExplainsRows
  <2>. QED
    BY <2>2, <2>3
<1>. QED
  BY <1>3, <1>4, <1>6, <1>7, <1>8, <1>9 DEF IInv

LEMMA Expires ==
  ASSUME IInv, NEW j \in Job, Expire(j)
  PROVE  IInv'
<1>. DEFINE row == [rows[j] EXCEPT !.expired = TRUE]
<1>1. /\ rows[j] # None /\ rows' = [rows EXCEPT ![j] = row]
      /\ UNCHANGED <<told, missing, op, hold, collided, crashes, plans>>
  <2>1. rows' = [rows EXCEPT ![j].expired = TRUE]
    BY DEF Expire
  <2>. QED
    BY <2>1 DEF Expire, IInv, TypeOK
<1>2. rows[j] \in Row /\ WithinBound(rows[j])
  BY <1>1, RowsOf
<1>3. /\ row \in Row /\ row # None /\ row.state = rows[j].state /\ row.attempts = rows[j].attempts
  BY <1>2, JobQueueAssumption DEF Row
<1>. HIDE DEF row
<1>4. ASSUME NEW k \in Job
      PROVE  /\ rows'[k] = None <=> rows[k] = None
             /\ rows[k] # None => rows'[k].state = rows[k].state /\ rows'[k].attempts = rows[k].attempts
  BY <1>1, <1>3 DEF IInv, TypeOK
<1>5. TypeOK'
  <2>1. rows' \in Table
    BY <1>1, <1>3 DEF IInv, TypeOK, Table
  <2>. QED
    BY <1>1, <2>1 DEF IInv, TypeOK
<1>6. PlansFit' /\ RowsBounded'
  <2>1. \A k \in Job : WithinBound(rows'[k])
    BY <1>4 DEF IInv, RowsBounded, WithinBound
  <2>. QED
    BY <1>1, <2>1 DEF IInv, PlansFit, RowsBounded
<1>7. \A k \in Job : Telling(k)' = Telling(k) /\ Telling(k) \subseteq Worker
  BY <1>1 DEF Telling
<1>8. OneTeller'
  BY <1>1, <1>4, <1>7 DEF IInv, OneTeller
<1>9. HoldsCounted'
  <2>1. \A d \in Worker : hold[d] # None => hold[d].job \in Job
    BY DEF IInv, TypeOK, Lease
  <2>2. \A d \in Worker : op[d].pc = "log" => Head(op[d].todo).job \in Job
    BY FirstFits
  <2>. QED
    BY <1>1, <1>4, <2>1, <2>2 DEF IInv, HoldsCounted
<1>10. LeasedOnce'
  BY <1>1 DEF IInv, LeasedOnce
<1>11. LedgerExplainsRows'
  <2>1. \A k \in Job : Behind(k)' <=> Behind(k)
    BY <1>1, <1>4, <1>7, SameBehind DEF StateIn
  <2>2. Untold' \subseteq Untold
    BY <1>1, <2>1 DEF Untold
  <2>. QED
    BY <1>1, <2>2, NoMoreUntold
<1>. QED
  BY <1>5, <1>6, <1>8, <1>9, <1>10, <1>11 DEF IInv

LEMMA InitInv == Init => IInv
<1>. SUFFICES ASSUME Init PROVE IInv
  OBVIOUS
<1>1. TypeOK
  <2>1. Idle \in Work
    BY DEF Idle, Work
  <2>2. 0 \in 0..MaxCrashes /\ 0 \in 0..MaxPlans
    BY JobQueueAssumption
  <2>. QED
    BY <2>1, <2>2 DEF Init, TypeOK, Table
<1>2. \A c \in Worker : op[c] = Idle /\ op[c].pc = "idle" /\ hold[c] = None
  BY DEF Init, Idle
<1>3. \A j \in Job : rows[j] = None /\ told[j] = "none" /\ Telling(j) = {}
  BY <1>2 DEF Init, Telling
<1>4. PlansFit /\ RowsBounded /\ OneTeller /\ HoldsCounted /\ LeasedOnce
  BY <1>2, <1>3 DEF PlansFit, RowsBounded, WithinBound, OneTeller, HoldsCounted, LeasedOnce
<1>5. LedgerExplainsRows
  <2>1. Untold = {}
    BY <1>3 DEF Untold, Behind, StateIn
  <2>. QED
    BY <2>1, FS_EmptySet DEF LedgerExplainsRows, Init
<1>. QED
  BY <1>1, <1>4, <1>5 DEF IInv

LEMMA StepInv == IInv /\ [Next]_vars => IInv'
<1>. SUFFICES ASSUME IInv, [Next]_vars PROVE IInv'
  OBVIOUS
<1>1. ASSUME NEW c \in Worker, NEW j \in Job, Enqueue(c, j) \/ Retry(c, j) PROVE IInv'
  BY <1>1, JobCalls
<1>2. ASSUME NEW c \in Worker, RecoverOrphans(c, "lease") \/ RecoverOrphans(c, "idle") PROVE IInv'
  BY <1>2, Recovers
<1>3. ASSUME NEW c \in Worker, LeaseNext(c) PROVE IInv'
  BY <1>3, Leases
<1>4. ASSUME NEW c \in Worker,
             MarkRunning(c) \/ Heartbeat(c) \/ \E v \in {"succeeded", "failed"} : Complete(c, v)
      PROVE  IInv'
  BY <1>4, WorkerCalls
<1>5. ASSUME NEW c \in Worker, CompleteLate(c) \/ Crash(c) PROVE IInv'
  BY <1>5, Forgets
<1>6. ASSUME NEW c \in Worker, Upsert(c) PROVE IInv'
  BY <1>6, Upserts
<1>7. ASSUME NEW c \in Worker, Save(c) PROVE IInv'
  BY <1>7, Saves
<1>8. ASSUME NEW c \in Worker, Log(c) PROVE IInv'
  BY <1>8, Logs
<1>9. ASSUME NEW j \in Job, Expire(j) PROVE IInv'
  BY <1>9, Expires
<1>10. CASE UNCHANGED vars
  <2>1. UNCHANGED <<rows, told, missing, op, hold, collided, crashes, plans>>
    BY <1>10 DEF vars
  <2>2. TypeOK' /\ HoldsCounted' /\ LeasedOnce' /\ RowsBounded'
    BY <2>1 DEF IInv, TypeOK, HoldsCounted, LeasedOnce, RowsBounded, WithinBound
  <2>3. PlansFit'
    BY <2>1 DEF IInv, PlansFit
  <2>4. \A j \in Job : Telling(j)' = Telling(j)
    BY <2>1 DEF Telling
  <2>5. OneTeller'
    BY <2>1, <2>4 DEF IInv, OneTeller
  <2>6. Untold' = Untold
    BY <2>1, <2>4 DEF Untold, Behind, StateIn
  <2>. QED
    BY <2>1, <2>2, <2>3, <2>5, <2>6, NoMoreUntold DEF IInv
<1>. QED
  BY <1>1, <1>2, <1>3, <1>4, <1>5, <1>6, <1>7, <1>8, <1>9, <1>10 DEF Next

\* How the row of a job that operations do not collide on can change: its lease expires,
\* a table saved again forgets that, or a worker writes what it planned for the row as it is.
LEMMA RowsChange ==
  ASSUME IInv, Next, NEW j \in Job \ collided', rows'[j] # rows[j]
  PROVE  \/ /\ rows[j] # None /\ rows[j].state \in Held
            /\ rows'[j] # None /\ rows'[j].owner = rows[j].owner
         \/ \E c \in Worker :
              LET ch == Head(op[c].todo) IN
              /\ Acts(c, j) /\ Fits(c, ch) /\ ch \in Change /\ ch.row # None
              /\ rows'[j] = ch.row
              /\ rows[j] = None <=> ch.was = None
              /\ rows[j] # None => /\ ch.was.state = rows[j].state
                                   /\ ch.was.owner = rows[j].owner
                                   /\ ch.was # rows[j] => rows[j].expired /\ rows[j].state \in Held
<1>. DEFINE Goal == \/ /\ rows[j] # None /\ rows[j].state \in Held
                       /\ rows'[j] # None /\ rows'[j].owner = rows[j].owner
                    \/ \E c \in Worker :
                         LET ch == Head(op[c].todo) IN
                         /\ Acts(c, j) /\ Fits(c, ch) /\ ch \in Change /\ ch.row # None
                         /\ rows'[j] = ch.row
                         /\ rows[j] = None <=> ch.was = None
                         /\ rows[j] # None => /\ ch.was.state = rows[j].state
                                              /\ ch.was.owner = rows[j].owner
                                              /\ ch.was # rows[j] => rows[j].expired /\ rows[j].state \in Held
<1>1. rows \in Table
  BY DEF IInv, TypeOK
<1>2. ASSUME NEW c \in Worker, op[c].pc \in {"upsert", "save"}, NEW table \in Table,
             rows' = [table EXCEPT ![Head(op[c].todo).job] = Head(op[c].todo).row],
             collided' = collided \cup Collisions(Head(op[c].todo), table)
      PROVE  Goal
  <2>. DEFINE ch == Head(op[c].todo)
  <2>1. Fits(c, ch) /\ ch \in Change /\ ch.row # None
    BY <1>2, FirstFits
  <2>2. LeftAlone(ch, table, j)
    BY <1>2, Uncollided
  <2>3. CASE j = ch.job
    <3>1. Acts(c, j)
      BY <1>2, <2>3 DEF Acts
    <3>. HIDE DEF ch
    <3>2. /\ rows'[j] = ch.row
          /\ rows[j] = None <=> ch.was = None
          /\ rows[j] # None => /\ ch.was.state = rows[j].state
                               /\ ch.was.owner = rows[j].owner
                               /\ ch.was # rows[j] => rows[j].expired /\ rows[j].state \in Held
      BY <2>2, <2>3 DEF LeftAlone
    <3>. QED
      BY <2>1, <3>1, <3>2 DEF ch
  <2>4. CASE j # ch.job
    <3>. HIDE DEF ch
    <3>1. rows[j] # None
      BY <2>2, <2>4 DEF LeftAlone
    <3>. QED
      BY <2>2, <2>4, <3>1 DEF LeftAlone
  <2>. QED
    BY <2>3, <2>4
<1>3. ASSUME NEW k \in Job, Expire(k) PROVE Goal
  BY <1>1, <1>3, JobQueueAssumption DEF Expire, Table, Row
<1>4. ASSUME NEW c \in Worker, Upsert(c) PROVE Goal
  <2>1. op[c].pc = "upsert" /\ rows' = [rows EXCEPT ![Head(op[c].todo).job] = Head(op[c].todo).row]
        /\ collided' = collided \cup Collisions(Head(op[c].todo), rows)
    BY <1>4 DEF Upsert
  <2>. QED
    BY <1>1, <1>2, <2>1
<1>5. ASSUME NEW c \in Worker, Save(c) PROVE Goal
  <2>1. op[c].pc = "save" /\ rows' = [op[c].seen EXCEPT ![Head(op[c].todo).job] = Head(op[c].todo).row]
        /\ collided' = collided \cup Collisions(Head(op[c].todo), op[c].seen) /\ op[c].seen \in Table
    BY <1>5, IdleByPlace DEF Save, IInv
  <2>. QED
    BY <1>2, <2>1
<1>6. \/ \E c \in Worker : Upsert(c) \/ Save(c)
      \/ \E k \in Job : Expire(k)
  BY DEF Next, Enqueue, Retry, RecoverOrphans, LeaseNext, MarkRunning, Heartbeat, Complete,
     CompleteLate, Log, Crash, Plan
<1>. QED
  BY <1>3, <1>4, <1>5, <1>6

-----------------------------------------------------------------------------

\* The inductive invariant holds whatever operations overlap.
LEMMA Invariance == Spec => []IInv
BY InitInv, StepInv, PTL DEF Spec

\* The store's variables keep their types.
THEOREM TypeCorrect == Spec => []TypeOK
<1>1. IInv => TypeOK
  BY DEF IInv
<1>. QED
  BY <1>1, Invariance, PTL

\* No job is leased more often than max_attempts allows, however operations of different
\* workers overlap (lease_next, recover_orphans, retry).
THEOREM AttemptsStayBounded == Spec => []AttemptsBounded
<1>1. IInv => AttemptsBounded
  BY DEF IInv, RowsBounded, WithinBound, AttemptsBounded, Present
<1>. QED
  BY <1>1, Invariance, PTL

\* lease_next gives each attempt of a job to one worker, unless operations collided on
\* that very job.
THEOREM AttemptsLeasedOnce == Spec => []LeasedOnce
<1>1. IInv => LeasedOnce
  BY DEF IInv
<1>. QED
  BY <1>1, Invariance, PTL

\* The ledger explains every row no operations collided on but for one entry per crash
\* (_record_transition).
THEOREM LedgerExplains == Spec => []LedgerExplainsRows
<1>1. IInv => LedgerExplainsRows
  BY DEF IInv
<1>. QED
  BY <1>1, Invariance, PTL

\* Nobody but its owner ends a lease that has not expired, unless operations collide on
\* its job (recover_orphans, heartbeat, complete).
THEOREM LeasesAreProtected == Spec => LeaseProtected
<1>. DEFINE Protects ==
       \A j \in Present \ collided' :
         rows[j].state \in Held /\ ~rows[j].expired =>
           /\ rows'[j] # None
           /\ rows'[j].owner = rows[j].owner \/ Acts(rows[j].owner, j)
<1>1. IInv /\ [Next]_vars => [Protects]_vars
  <2>. SUFFICES ASSUME IInv, Next, NEW j \in Job \ collided',
                       rows[j] # None, rows[j].state \in Held, ~rows[j].expired
       PROVE  rows'[j] # None /\ (rows'[j].owner = rows[j].owner \/ Acts(rows[j].owner, j))
    BY DEF Present
  <2>1. CASE rows'[j] = rows[j]
    BY <2>1
  <2>2. ASSUME NEW c \in Worker, NEW ch, ch = Head(op[c].todo), Acts(c, j), Fits(c, ch), ch \in Change,
               ch.was # None, ch.was.state = rows[j].state, ch.was.owner = rows[j].owner,
               ch.was = rows[j]
        PROVE  Acts(rows[j].owner, j)
    <3>1. ch.why \in {"start", "heartbeat", "complete"}
      BY <2>2 DEF Fits, Change, Reason, Held
    <3>2. rows[j].owner = c
      BY <2>2, <3>1 DEF Fits
    <3>. QED
      BY <2>2, <3>2
  <2>. QED
    BY <2>1, <2>2, RowsChange
<1>. QED
  BY <1>1, Invariance, PTL DEF Spec, LeaseProtected

\* A verdict changes by a retry only, and success never, unless operations collide on the
\* job (complete, retry).
THEOREM VerdictsStay == Spec => VerdictStays
<1>. DEFINE Stays ==
       \A j \in Present \ collided' :
         rows[j].state \in Settled /\ rows'[j] # rows[j] =>
           /\ rows[j].state # "succeeded"
           /\ \E c \in Worker : Acts(c, j) /\ Head(op[c].todo).why = "retry"
<1>1. IInv /\ [Next]_vars => [Stays]_vars
  <2>. SUFFICES ASSUME IInv, Next, NEW j \in Job \ collided', rows[j] # None,
                       rows[j].state \in Settled, rows'[j] # rows[j]
       PROVE  /\ rows[j].state # "succeeded"
              /\ \E c \in Worker : Acts(c, j) /\ Head(op[c].todo).why = "retry"
    BY DEF Present
  <2>1. PICK c \in Worker :
          LET ch == Head(op[c].todo) IN
          Acts(c, j) /\ Fits(c, ch) /\ ch \in Change /\ ch.was # None /\ ch.was.state = rows[j].state
    <3>1. rows[j].state \notin Held
      BY DEF Held, Settled
    <3>. QED
      BY <3>1, RowsChange
  <2>. DEFINE ch == Head(op[c].todo)
  <2>2. ch.why = "retry"
    BY <2>1 DEF Fits, Change, Reason, Held, Settled
  <2>3. rows[j].state \in {"failed", "quarantined"}
    BY <2>1, <2>2 DEF Fits
  <2>. QED
    BY <2>1, <2>2, <2>3
<1>. QED
  BY <1>1, Invariance, PTL DEF Spec, VerdictStays
=============================================================================
