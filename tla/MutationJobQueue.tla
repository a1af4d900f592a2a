-------------------------- MODULE MutationJobQueue --------------------------
(***************************************************************************)
(* MutationJobQueueStore of runtime/state/mutation_job_queue.py with its   *)
(* transition ledger: jobs that are enqueued once, leased to workers,      *)
(* reclaimed when a lease expires, retried, and completed.                 *)
(*                                                                         *)
(* Every operation reads the row it changes, writes it back later, and     *)
(* then records the transition; no lock is held in between, and operations *)
(* of different workers overlap at will.  The sqlite backend replaces one  *)
(* row; the JSON backend loads all rows again and replaces the file.       *)
(*                                                                         *)
(* Abstractions.  Time is only whether a lease has expired (an Expire that *)
(* comes between a read and its write is lost, and may come again).        *)
(* created_at is left out: which of the queued jobs is listed first is     *)
(* open.  Of the ledger each job's last entry is kept, and how many entries *)
(* are missing before it; entries that repeat a state (heartbeat) are left *)
(* out, and an append is one step.  All jobs have the same max_attempts.   *)
(***************************************************************************)
EXTENDS Naturals, Sequences, FiniteSets, SequencesExt

CONSTANTS
  Worker,       \* processes that use the store, and the worker ids they pass
  Job,          \* job ids: a job id is a digest of its payload and dedupe key
  None,         \* "no row", "no owner", "no job in hand"
  Backend,      \* "json" or "sqlite"
  MaxAttempts,  \* max_attempts of every job
  MaxCrashes,   \* bound: worker crashes
  MaxPlans      \* bound: times the rows are read for a change

Held == {"leased", "running"}
Settled == {"succeeded", "failed", "quarantined"}
State == {"queued"} \cup Held \cup Settled
Reason == {"enqueue", "recover", "retry", "lease", "start", "heartbeat", "complete"}

Row == [state : State, owner : Worker \cup {None}, expired : BOOLEAN, attempts : Nat]
Table == [Job -> Row \cup {None}]
Change == [job : Job, row : Row, was : Row \cup {None}, why : Reason]
Work ==
  [pc : {"idle", "lease"}]
    \cup [pc : {"upsert", "log"}, todo : Seq(Change), then : {"idle", "lease"}]
    \cup [pc : {"save"}, todo : Seq(Change), then : {"idle", "lease"}, seen : Table]
Lease == [job : Job, attempt : Nat]

ASSUME JobQueueAssumption ==
  /\ Backend \in {"json", "sqlite"}
  /\ MaxAttempts \in Nat \ {0} /\ MaxCrashes \in Nat /\ MaxPlans \in Nat
  /\ IsFiniteSet(Job)
  /\ None \notin Worker \cup Row \cup Lease

VARIABLES
  rows,      \* the stored rows
  told,      \* the transition ledger: the state each job's last entry says it led to
  op,        \* the operation each worker is in
  hold,      \* the lease each worker was last given and has not finished
  missing,   \* ledger entries that do not go on from the one before them
  collided,  \* jobs that two overlapping operations have changed at once
  crashes, plans

vars == <<rows, told, missing, op, hold, collided, crashes, plans>>

-----------------------------------------------------------------------------
Idle == [pc |-> "idle"]

Init ==
  /\ rows = [j \in Job |-> None]
  /\ told = [j \in Job |-> "none"]
  /\ missing = 0
  /\ op = [c \in Worker |-> Idle]
  /\ hold = [c \in Worker |-> None]
  /\ collided = {}
  /\ crashes = 0 /\ plans = 0

\* The rows are read; the changed ones are to be written one by one.
Plan(c, changes, then) ==
  /\ plans < MaxPlans
  /\ plans' = plans + 1
  /\ op' = [op EXCEPT ![c] =
              IF changes = <<>> THEN [pc |-> then]
              ELSE [pc |-> "upsert", todo |-> changes, then |-> then]]
  /\ UNCHANGED <<rows, told, missing, hold, collided, crashes>>

ChangeOf(j, row, why) ==
  [job |-> j, row |-> row, was |-> rows[j], why |-> why]
StateIn(row) == IF row = None THEN "none" ELSE row.state

\* A row that nobody has leased.
Free(j, state) == [rows[j] EXCEPT !.state = state, !.owner = None, !.expired = FALSE]

Present == {j \in Job : rows[j] # None}

Enqueue(c, j) ==
  /\ op[c] = Idle
  /\ rows[j] = None
  /\ Plan(c, <<ChangeOf(j, [state |-> "queued", owner |-> None, expired |-> FALSE,
                            attempts |-> 0], "enqueue")>>, "idle")

\* Mutant: leases are reclaimed whatever the number of attempts.
Reclaimed_Unbounded(j) == ChangeOf(j, Free(j, "queued"), "recover")

\* recover_orphans, for one expired lease.
Reclaimed(j) ==
  ChangeOf(j, Free(j, IF rows[j].attempts >= MaxAttempts THEN "quarantined" ELSE "queued"),
           "recover")

Orphans == {j \in Present : rows[j].state \in Held /\ rows[j].expired}

\* recover_orphans, alone or as the first half of lease_next.
RecoverOrphans(c, then) ==
  /\ op[c] = Idle
  /\ Orphans # {} \/ then = "lease"
  /\ \E order \in SetToSeqs(Orphans) :
       Plan(c, [i \in DOMAIN order |-> Reclaimed(order[i])], then)

\* lease_next: the rows are listed again and a queued job is taken.
Queued == {j \in Present : rows[j].state = "queued"}

\* Mutant: an attempt is not counted.
LeaseNext_NoCount(c) ==
  /\ op[c].pc = "lease"
  /\ \/ Queued = {} /\ Plan(c, <<>>, "idle")
     \/ \E j \in Queued :
          Plan(c, <<ChangeOf(j, [rows[j] EXCEPT !.state = "leased", !.owner = c, !.expired = FALSE],
                             "lease")>>, "idle")

LeaseNext(c) ==
  /\ op[c].pc = "lease"
  /\ \/ Queued = {} /\ Plan(c, <<>>, "idle")
     \/ \E j \in Queued :
          Plan(c, <<ChangeOf(j, [rows[j] EXCEPT !.state = "leased", !.owner = c, !.expired = FALSE,
                                                !.attempts = @ + 1], "lease")>>, "idle")

\* Mutant: any settled job may be retried.
Retry_AnySettled(c, j) ==
  /\ op[c] = Idle
  /\ rows[j] # None
  /\ rows[j].state \in Settled
  /\ rows[j].attempts < MaxAttempts
  /\ Plan(c, <<ChangeOf(j, Free(j, "queued"), "retry")>>, "idle")

Retry(c, j) ==
  /\ op[c] = Idle
  /\ rows[j] # None
  /\ rows[j].state \in {"failed", "quarantined"}
  /\ rows[j].attempts < MaxAttempts
  /\ Plan(c, <<ChangeOf(j, Free(j, "queued"), "retry")>>, "idle")

\* The calls a worker makes about the job it was given.
MyRow(c) == rows[hold[c].job]
Owns(c) == MyRow(c) # None /\ MyRow(c).state \in Held /\ MyRow(c).owner = c
Begin(c) == op[c] = Idle /\ hold[c] # None

MarkRunning(c) ==
  /\ Begin(c)
  /\ Owns(c) /\ MyRow(c).state = "leased"
  /\ Plan(c, <<ChangeOf(hold[c].job, [MyRow(c) EXCEPT !.state = "running"], "start")>>, "idle")

\* A lease that has expired but was not reclaimed is extended as well.
Heartbeat(c) ==
  /\ Begin(c)
  /\ Owns(c)
  /\ Plan(c, <<ChangeOf(hold[c].job, [MyRow(c) EXCEPT !.expired = FALSE], "heartbeat")>>, "idle")

\* Mutant: the owner is not compared.
MayComplete_AnyOwner(c) == MyRow(c) # None /\ MyRow(c).state \in Held

\* complete, with the caller's worker id: the lease id is not part of the check.
MayComplete(c) == Owns(c)

Complete(c, verdict) ==
  /\ Begin(c)
  /\ MayComplete(c)
  /\ Plan(c, <<ChangeOf(hold[c].job, Free(hold[c].job, verdict), "complete")>>, "idle")

\* complete of a job that is lost, settled, queued again or somebody else's changes nothing,
\* whether it answers True (the stored verdict is the caller's) or False.
CompleteLate(c) ==
  /\ Begin(c)
  /\ ~MayComplete(c)
  /\ hold' = [hold EXCEPT ![c] = None]
  /\ UNCHANGED <<rows, told, missing, op, collided, crashes, plans>>

-----------------------------------------------------------------------------
(* The steps of a planned change *)

\* Mutant: an unchanged state is recorded too, a reclaimed lease is not.
Recorded_SkipsRecovery(ch) == ch.why \notin {"heartbeat", "recover"}

\* _record_transition
Recorded(ch) == ch.why # "heartbeat" /\ StateIn(ch.was) # ch.row.state

\* Workers that have written a job's row and not yet recorded the transition.
Telling(j) ==
  {c \in Worker : /\ op[c].pc = "log" /\ Head(op[c].todo).job = j
                  /\ Recorded(Head(op[c].todo))}

\* A row is as it was read, but for its lease expiring.
AsRead(was, row) ==
  row = was \/ (was # None /\ was.state \in Held /\ row = [was EXCEPT !.expired = TRUE])

\* The jobs on which a write of these rows meets another operation: it undoes what the
\* other has written, or comes before the other has recorded what it wrote.
Collisions(ch, written) ==
  {j \in Job : ~AsRead(written[j], rows[j])}
    \cup (IF AsRead(ch.was, rows[ch.job]) /\ Telling(ch.job) = {} THEN {} ELSE {ch.job})

\* _upsert_row: sqlite replaces the row, JSON loads all rows first ...
Upsert(c) ==
  LET ch == Head(op[c].todo) IN
  /\ op[c].pc = "upsert"
  /\ IF Backend = "sqlite"
     THEN /\ rows' = [rows EXCEPT ![ch.job] = ch.row]
          /\ op' = [op EXCEPT ![c].pc = "log"]
          /\ collided' = collided \cup Collisions(ch, rows)
     ELSE /\ op' = [op EXCEPT ![c] = [pc |-> "save", todo |-> @.todo, then |-> @.then,
                                      seen |-> rows]]
          /\ UNCHANGED <<rows, collided>>
  /\ UNCHANGED <<told, missing, hold, crashes, plans>>

\* ... and replaces the file.
Save(c) ==
  LET ch == Head(op[c].todo) IN
  /\ op[c].pc = "save"
  /\ rows' = [op[c].seen EXCEPT ![ch.job] = ch.row]
  /\ op' = [op EXCEPT ![c] = [pc |-> "log", todo |-> @.todo, then |-> @.then]]
  /\ collided' = collided \cup Collisions(ch, op[c].seen)
  /\ UNCHANGED <<told, missing, hold, crashes, plans>>

\* The transition is recorded, and after the last one the operation returns.
Log(c) ==
  LET ch == Head(op[c].todo)
      rest == Tail(op[c].todo)
  IN
  /\ op[c].pc = "log"
  /\ told' = IF Recorded(ch) THEN [told EXCEPT ![ch.job] = ch.row.state] ELSE told
  /\ missing' = IF /\ Recorded(ch) /\ StateIn(ch.was) # told[ch.job]
                   /\ ch.job \notin collided
                THEN missing + 1 ELSE missing
  /\ op' = [op EXCEPT ![c] = IF rest = <<>> THEN [pc |-> op[c].then]
                            ELSE [pc |-> "upsert", todo |-> rest, then |-> op[c].then]]
  /\ hold' = CASE ch.why = "lease" ->
                    [hold EXCEPT ![c] = [job |-> ch.job, attempt |-> ch.row.attempts]]
               [] ch.why = "complete" -> [hold EXCEPT ![c] = None]
               [] OTHER -> hold
  /\ UNCHANGED <<rows, collided, crashes, plans>>

-----------------------------------------------------------------------------
(* The environment *)

Expire(j) ==
  /\ rows[j] # None
  /\ rows[j].state \in Held /\ ~rows[j].expired
  /\ rows' = [rows EXCEPT ![j].expired = TRUE]
  /\ UNCHANGED <<told, missing, op, hold, collided, crashes, plans>>

\* A worker dies and comes back under the same id without its job.
Crash(c) ==
  /\ crashes < MaxCrashes
  /\ crashes' = crashes + 1
  /\ op' = [op EXCEPT ![c] = Idle]
  /\ hold' = [hold EXCEPT ![c] = None]
  /\ UNCHANGED <<rows, told, missing, collided, plans>>

Next ==
  \/ \E c \in Worker :
       \/ \E j \in Job : Enqueue(c, j) \/ Retry(c, j)
       \/ hold[c] = None /\ RecoverOrphans(c, "lease")
       \/ RecoverOrphans(c, "idle")
       \/ LeaseNext(c) \/ MarkRunning(c) \/ Heartbeat(c)
       \/ \E verdict \in {"succeeded", "failed"} : Complete(c, verdict)
       \/ CompleteLate(c)
       \/ Upsert(c) \/ Save(c) \/ Log(c) \/ Crash(c)
  \/ \E j \in Job : Expire(j)

Spec == Init /\ [][Next]_vars

-----------------------------------------------------------------------------
(* Correctness *)

TypeOK ==
  /\ rows \in Table
  /\ told \in [Job -> State \cup {"none"}]
  /\ missing \in Nat
  /\ op \in [Worker -> Work]
  /\ hold \in [Worker -> Lease \cup {None}]
  /\ collided \subseteq Job
  /\ crashes \in 0..MaxCrashes /\ plans \in 0..MaxPlans

\* No job is leased more often than max_attempts allows, and a queued job has an
\* attempt left, through recoveries, retries, crashes and writes of stale rows
\* (recover_orphans, retry).
AttemptsBounded ==
  \A j \in Present :
    /\ rows[j].attempts <= MaxAttempts
    /\ rows[j].state = "queued" => rows[j].attempts < MaxAttempts

\* A lease that has not expired ends only through an act of its owner: nobody reclaims,
\* re-leases or completes the job under it, unless two operations collide on it
\* (recover_orphans, heartbeat, complete).
Acts(c, j) == op[c].pc \in {"upsert", "save"} /\ Head(op[c].todo).job = j
LeaseProtected ==
  [][\A j \in Present \ collided' :
       rows[j].state \in Held /\ ~rows[j].expired =>
         /\ rows'[j] # None
         /\ rows'[j].owner = rows[j].owner \/ Acts(rows[j].owner, j)]_vars

\* What has succeeded stays so, and a failed or quarantined job changes only by retry,
\* unless two operations collide on it (complete, retry).
VerdictStays ==
  [][\A j \in Present \ collided' :
       rows[j].state \in Settled /\ rows'[j] # rows[j] =>
         /\ rows[j].state # "succeeded"
         /\ \E c \in Worker : Acts(c, j) /\ Head(op[c].todo).why = "retry"]_vars

\* lease_next gives an attempt of a job to one worker, whatever expires, is reclaimed or
\* overlaps elsewhere: two workers have the same one only if operations collided on that
\* very job (test_duplicate_dispatch_only_leases_once).
LeasedOnce ==
  \A c, d \in Worker :
    c # d /\ hold[c] # None /\ hold[c].job \notin collided => hold[c] # hold[d]

\* The jobs whose ledger does not lead to their row, counting in the entry that is
\* about to be appended: a worker died in between.
Behind(j) ==
  \/ Telling(j) = {} /\ told[j] # StateIn(rows[j])
  \/ \E c \in Telling(j) : told[j] # StateIn(Head(op[c].todo).was)
Untold == {j \in Job \ collided : Behind(j)}

\* The ledger tells the story of every row no operations collided on: an entry is
\* missing only where a worker died between writing a row and recording it.
LedgerExplainsRows == missing + Cardinality(Untold) <= crashes

-----------------------------------------------------------------------------
(* What makes these inductive *)

\* A planned change fits the row it was read from: what the guards saw then.
Fits(c, ch) ==
  /\ ch.why = "enqueue" <=> ch.was = None
  /\ ch.why = "enqueue" => ch.row.state = "queued" /\ ch.row.attempts = 0
  /\ ch.why \notin {"enqueue", "lease"} => ch.row.attempts = ch.was.attempts
  /\ ch.why = "recover" => /\ ch.was.state \in Held /\ ch.was.expired
                           /\ ch.row.state = IF ch.was.attempts >= MaxAttempts
                                             THEN "quarantined" ELSE "queued"
  /\ ch.why = "retry" => /\ ch.was.state \in {"failed", "quarantined"}
                         /\ ch.was.attempts < MaxAttempts
                         /\ ch.row.state = "queued"
  /\ ch.why = "lease" => /\ ch.was.state = "queued" /\ ch.row.state = "leased"
                         /\ ch.row.attempts = ch.was.attempts + 1
  /\ ch.why \in {"start", "heartbeat", "complete"} =>
       ch.was.state \in Held /\ ch.was.owner = c
  /\ ch.why = "start" => ch.row.state \in Held
  /\ ch.why = "heartbeat" => ch.row.state = ch.was.state
  /\ ch.why = "complete" => ch.row.state \in {"succeeded", "failed"}
PlansFit ==
  \A c \in Worker :
    op[c].pc \in {"upsert", "save", "log"} =>
      op[c].todo # <<>> /\ \A i \in DOMAIN op[c].todo : Fits(c, op[c].todo[i])

\* A row read from anywhere, or planned, keeps to the bound.
WithinBound(row) ==
  row # None => /\ row.attempts <= MaxAttempts
                /\ row.state = "queued" => row.attempts < MaxAttempts
RowsBounded ==
  /\ \A j \in Job : WithinBound(rows[j])
  /\ \A c \in Worker :
       /\ op[c].pc = "save" => \A j \in Job : WithinBound(op[c].seen[j])
       /\ op[c].pc \in {"upsert", "save", "log"} =>
            \A i \in DOMAIN op[c].todo :
              WithinBound(op[c].todo[i].was) /\ WithinBound(op[c].todo[i].row)

\* Until operations collide on a job, one of them at a time has written it and not yet
\* recorded that.
OneTeller ==
  \A j \in Job \ collided :
    \A c \in Telling(j) :
      /\ Telling(j) = {c}
      /\ rows[j] # None /\ rows[j].state = Head(op[c].todo).row.state

\* Until operations collide on a job, a worker's lease is of an attempt that was
\* counted, and one that is just being given out was given to nobody before.
HoldsCounted ==
  /\ \A c \in Worker : hold[c] # None /\ hold[c].job \notin collided =>
       rows[hold[c].job] # None /\ hold[c].attempt <= rows[hold[c].job].attempts
  /\ \A c \in Worker :
       LET ch == Head(op[c].todo) IN
       op[c].pc = "log" /\ ch.why = "lease" /\ ch.job \notin collided =>
         /\ rows[ch.job] # None /\ ch.row.attempts = rows[ch.job].attempts
         /\ \A d \in Worker : hold[d] # None /\ hold[d].job = ch.job =>
              hold[d].attempt < ch.row.attempts

IInv ==
  /\ TypeOK /\ PlansFit /\ RowsBounded /\ OneTeller /\ HoldsCounted /\ LeasedOnce
  /\ LedgerExplainsRows
=============================================================================
