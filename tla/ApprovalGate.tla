---------------------------- MODULE ApprovalGate ----------------------------
(***************************************************************************)
(* HumanApprovalGate of runtime/governance/human_approval_gate.py: human   *)
(* approval of mutations, kept in two append-only JSONL files (a queue of  *)
(* requests and an audit trail) with an index file derived from them.      *)
(*                                                                         *)
(* A gate object keeps the index state in memory.  An operation loads it   *)
(* (from memory, from an index file that matches both logs, or by replay), *)
(* then makes a list of writes; each appends one line to a log, applies it *)
(* to the state, takes the digest of the log and replaces the index file.  *)
(* The HTTP handlers create a gate per request; tests and the class's own  *)
(* usage keep one gate for many operations (LongLived).                    *)
(*                                                                         *)
(* Abstractions.  A log only grows, so its digest is the number of its     *)
(* parsable lines; a fragment that changes the real digest only makes a    *)
(* gate replay what its index already holds.  A request is its approval    *)
(* id, which the code derives from the mutation, the epoch and the clock   *)
(* in seconds; there is one epoch.  One operation reads the clock once.    *)
(* The optional external audit_writer is left out.                         *)
(***************************************************************************)
EXTENDS Naturals, Sequences, FiniteSets, Functions

CONSTANTS
  Gate,        \* gate objects over the same three files
  LongLived,   \* the gates used for more than one operation
  Writer,      \* the gates that change something; the others only query
  Serial,      \* operations of different gates do not overlap
  Strict,      \* ADAAD_STRICT_HUMAN0: operators must be the canonical one
  Mutation,
  None,        \* "no gate state in memory", "no readable index", "no status"
  Batches,     \* sequences of mutations batch_approve may be called with
  Expiry,      \* APPROVAL_EXPIRY_S
  MaxTime,     \* bound: the clock
  MaxQueue,    \* bound: request lines
  MaxAudit,    \* bound: audit lines
  MaxCrashes,  \* bound: crashes
  MaxTears,    \* bound: crashes that leave a fragment of a line in a log
  MaxLosses    \* bound: times the index file becomes unreadable

Id == [mut : Mutation, at : Nat]
Status == {"approved", "rejected", "revoked"}
Event == [kind : Status \cup {"requested", "expired", "violation"}, id : Id, at : Nat]
View == [order   : Seq(Id),                     \* queue_order, and the keys of requests
         decided : SUBSET Id,                   \* decided_approval_ids
         status  : [Mutation -> Status \cup {None}],
         qd      : Nat, ad : Nat]               \* queue_digest, audit_digest
Write == [log : {"queue"}, line : Id] \cup [log : {"audit"}, line : Event]
Work == [pc : {"idle"}] \cup [pc : {"rebuild"}, view : View]
          \cup [pc : {"append", "index"}, todo : Seq(Write), forget : BOOLEAN]

ASSUME GateAssumption == LongLived \subseteq Gate /\ Writer \subseteq Gate
ASSUME FlagAssumption == Serial \in BOOLEAN /\ Strict \in BOOLEAN
ASSUME NoneAssumption == None \notin View \cup Status
ASSUME BatchAssumption == \A b \in Batches : b \in Seq(Mutation) /\ b # <<>>
ASSUME BoundAssumption ==
  {Expiry, MaxTime, MaxQueue, MaxAudit, MaxCrashes, MaxTears, MaxLosses} \subseteq Nat

VARIABLES
  queue,    \* parsable lines of the queue file
  audit,    \* parsable lines of the audit file
  torn,     \* logs that end in a fragment of a line
  index,    \* the index file, None while it is missing or unreadable
  mem,      \* _index_cache of each gate
  op,       \* the operation each gate is in
  done,     \* audit events of writes that have completed
  now,      \* the clock
  crashes, tears, losses

bounds == <<crashes, tears, losses>>
logs == <<queue, audit, torn>>
vars == <<queue, audit, torn, index, mem, op, done, now, crashes, tears, losses>>

-----------------------------------------------------------------------------
(* Replay and its incremental form *)

\* Mutant: a revocation is not applied.
Applied_IgnoresRevoke(v, e) ==
  IF e.kind \in {"approved", "rejected"}
  THEN [v EXCEPT !.decided = @ \cup {e.id}, !.status[e.id.mut] = e.kind]
  ELSE v

\* _apply_audit_to_state: only decisions and revocations count.
Applied(v, e) ==
  CASE e.kind \in {"approved", "rejected"} ->
         [v EXCEPT !.decided = @ \cup {e.id}, !.status[e.id.mut] = e.kind]
    [] e.kind = "revoked" -> [v EXCEPT !.status[e.id.mut] = "revoked"]
    [] OTHER -> v

\* The positions of the events that set a mutation's status, and the last of them.
Settles(m) == {i \in DOMAIN audit : audit[i].id.mut = m /\ audit[i].kind \in Status}
LastOf(S) == CHOOSE i \in S : \A j \in S : j <= i
StatusOf(m) == IF Settles(m) = {} THEN None ELSE audit[LastOf(Settles(m))].kind

\* _replay_state: the state the two logs stand for.
Replay ==
  [order   |-> queue,
   decided |-> {audit[i].id : i \in {j \in DOMAIN audit : audit[j].kind \in {"approved", "rejected"}}},
   status  |-> [m \in Mutation |-> StatusOf(m)],
   qd      |-> Len(queue),
   ad      |-> Len(audit)]

\* _is_state_consistent_with_logs
Consistent(v) == v.qd = Len(queue) /\ v.ad = Len(audit)
IndexUsable == index # None /\ Consistent(index)

-----------------------------------------------------------------------------
Idle == [pc |-> "idle"]

Init ==
  /\ queue = <<>> /\ audit = <<>> /\ torn = {}
  /\ index = None
  /\ mem = [g \in Gate |-> None]
  /\ op = [g \in Gate |-> Idle]
  /\ done = {}
  /\ now = 0
  /\ crashes = 0 /\ tears = 0 /\ losses = 0

\* A gate created for one request is in use from its load to its end.
InUse(g) == op[g] # Idle \/ (g \notin LongLived /\ mem[g] # None)
MayRun(g) == op[g] = Idle /\ (Serial => \A h \in Gate \ {g} : ~InUse(h))

\* Mutant: an index is used without comparing it with the logs.
LoadIndex_Unchecked(g) ==
  /\ MayRun(g) /\ mem[g] = None
  /\ index # None
  /\ mem' = [mem EXCEPT ![g] = index]
  /\ UNCHANGED <<logs, index, op, done, now, bounds>>

\* _load_index_or_rebuild, the index file is readable and matches the logs.
LoadIndex(g) ==
  /\ MayRun(g) /\ mem[g] = None
  /\ IndexUsable
  /\ mem' = [mem EXCEPT ![g] = index]
  /\ UNCHANGED <<logs, index, op, done, now, bounds>>

\* ... or not: _replay_state reads the logs first and takes their digests later.
BeginRebuild(g) ==
  /\ MayRun(g) /\ mem[g] = None
  /\ ~IndexUsable
  /\ op' = [op EXCEPT ![g] = [pc |-> "rebuild", view |-> Replay]]
  /\ UNCHANGED <<logs, index, mem, done, now, bounds>>

FinishRebuild(g) ==
  /\ op[g].pc = "rebuild"
  /\ LET v == [op[g].view EXCEPT !.qd = Len(queue), !.ad = Len(audit)] IN
       index' = v /\ mem' = [mem EXCEPT ![g] = v]
  /\ op' = [op EXCEPT ![g] = Idle]
  /\ UNCHANGED <<logs, done, now, bounds>>

\* The gate object made for one request is dropped.
Drop(g) ==
  /\ g \notin LongLived
  /\ op[g] = Idle /\ mem[g] # None
  /\ mem' = [mem EXCEPT ![g] = None]
  /\ UNCHANGED <<logs, index, op, done, now, bounds>>

-----------------------------------------------------------------------------
(* The operations: what each of them will write.  A line about a mutation only *)
(* carries the clock where a request's id would be.                            *)

QueueLine(id) == [log |-> "queue", line |-> id]
AuditLine(kind, id) == [log |-> "audit", line |-> [kind |-> kind, id |-> id, at |-> now]]
NewId(m) == [mut |-> m, at |-> now]

Requested(m) == <<QueueLine(NewId(m)), AuditLine("requested", NewId(m))>>

Start(g, todo, forget) ==
  /\ MayRun(g) /\ mem[g] # None
  /\ Len(queue) + Len(SelectSeq(todo, LAMBDA w : w.log = "queue")) <= MaxQueue
  /\ Len(audit) + Len(SelectSeq(todo, LAMBDA w : w.log = "audit")) <= MaxAudit
  /\ op' = [op EXCEPT ![g] = [pc |-> "append", todo |-> todo, forget |-> forget]]
  /\ UNCHANGED <<logs, index, mem, done, now, bounds>>

RequestApproval(g, m) == Start(g, Requested(m), FALSE)

\* record_decision of a known request; the identity check comes first.
RecordDecision(g) ==
  \E id \in Range(queue) \cup Range(mem[g].order), verdict \in {"approved", "rejected"} :
    Start(g, <<AuditLine(verdict, id)>>, FALSE)

IdentityViolation(g) ==
  /\ Strict
  /\ \E id \in Range(queue) : Start(g, <<AuditLine("violation", id)>>, FALSE)

\* batch_approve requests and approves one mutation after another; under a foreign
\* identity it raises after the first request, which stays in the queue.
Approving(m) == <<QueueLine(NewId(m)), AuditLine("requested", NewId(m)),
                  AuditLine("approved", NewId(m))>>
BatchApprove(g) ==
  \E ms \in Batches :
    \/ Start(g, [i \in 1..(3 * Len(ms)) |-> Approving(ms[1 + ((i - 1) \div 3)])[1 + ((i - 1) % 3)]],
             FALSE)
    \/ Strict /\ Start(g, Requested(ms[1]) \o <<AuditLine("violation", NewId(ms[1]))>>, FALSE)

\* revoke_approval writes whether or not the mutation was ever approved.
RevokeApproval(g, m) == Start(g, <<AuditLine("revoked", NewId(m))>>, FALSE)

\* is_approved denies a mutation as soon as any approval of it has expired ...
Approvals(m) == {i \in DOMAIN audit : audit[i].id.mut = m /\ audit[i].kind = "approved"}
HasExpired(m) == \E i \in Approvals(m) : now - audit[i].at > Expiry
Grants(g, m) == mem[g].status[m] = "approved" /\ ~HasExpired(m)

\* ... and records it; the state it then corrects is forgotten with the cache.
RecordExpiry(g, m) ==
  /\ mem[g] # None
  /\ mem[g].status[m] = "approved" /\ HasExpired(m)
  /\ Start(g, <<AuditLine("expired", NewId(m))>>, TRUE)

Operation(g) ==
  \/ g \in Writer /\ mem[g] # None /\ (RecordDecision(g) \/ IdentityViolation(g) \/ BatchApprove(g))
  \/ \E m \in Mutation :
       \/ g \in Writer /\ (RequestApproval(g, m) \/ RevokeApproval(g, m))
       \/ RecordExpiry(g, m)

-----------------------------------------------------------------------------
(* One write: append a line, then index it *)

\* Mutant: the file is opened for writing, not for appending.
AppendLine_Truncates(g) ==
  LET w == Head(op[g].todo) IN
  /\ op[g].pc = "append"
  /\ torn' = torn \ {w.log}
  /\ queue' = IF w.log = "queue" THEN <<w.line>> ELSE queue
  /\ audit' = IF w.log = "audit" THEN <<w.line>> ELSE audit
  /\ op' = [op EXCEPT ![g].pc = "index"]
  /\ UNCHANGED <<index, mem, done, now, bounds>>

\* A line written behind a fragment makes one unparsable line with it, which every
\* reader skips.
AppendLine(g) ==
  LET w == Head(op[g].todo) IN
  /\ op[g].pc = "append"
  /\ torn' = torn \ {w.log}
  /\ queue' = IF w.log = "queue" /\ "queue" \notin torn THEN Append(queue, w.line) ELSE queue
  /\ audit' = IF w.log = "audit" /\ "audit" \notin torn THEN Append(audit, w.line) ELSE audit
  /\ op' = [op EXCEPT ![g].pc = "index"]
  /\ UNCHANGED <<index, mem, done, now, bounds>>

\* Mutant: a request is stored but not put into queue_order.
Recorded_NotQueued(v, w) ==
  IF w.log = "queue" THEN [v EXCEPT !.qd = Len(queue)]
  ELSE [Applied(v, w.line) EXCEPT !.ad = Len(audit)]

\* The state after a write: the line applied, the digest of the log as it is now.
Recorded(v, w) ==
  IF w.log = "queue" THEN [v EXCEPT !.order = Append(@, w.line), !.qd = Len(queue)]
  ELSE [Applied(v, w.line) EXCEPT !.ad = Len(audit)]

\* _write_index, and the return to the caller after the last write.
WriteIndex(g) ==
  LET w == Head(op[g].todo)
      v == Recorded(mem[g], w)
      last == Len(op[g].todo) = 1
  IN
  /\ op[g].pc = "index"
  /\ index' = v
  /\ mem' = [mem EXCEPT ![g] = IF last /\ (op[g].forget \/ g \notin LongLived) THEN None ELSE v]
  /\ op' = [op EXCEPT ![g] = IF last THEN Idle
                            ELSE [pc |-> "append", todo |-> Tail(@.todo), forget |-> @.forget]]
  /\ done' = IF w.log = "audit" THEN done \cup {w.line} ELSE done
  /\ UNCHANGED <<logs, now, bounds>>

-----------------------------------------------------------------------------
(* The environment *)

Tick ==
  /\ now < MaxTime
  /\ now' = now + 1
  /\ UNCHANGED <<logs, index, mem, op, done, bounds>>

\* The gate's process dies and a new gate takes its place.  Dying inside an append
\* may leave a fragment of the line.
Crash(g) ==
  /\ crashes < MaxCrashes
  /\ crashes' = crashes + 1
  /\ mem' = [mem EXCEPT ![g] = None]
  /\ op' = [op EXCEPT ![g] = Idle]
  /\ \/ UNCHANGED <<torn, tears>>
     \/ /\ op[g].pc = "append"
        /\ tears < MaxTears
        /\ tears' = tears + 1
        /\ torn' = torn \cup {Head(op[g].todo).log}
  /\ UNCHANGED <<queue, audit, index, done, now, losses>>

\* The index file is deleted or becomes unreadable.
LoseIndex ==
  /\ index # None
  /\ losses < MaxLosses
  /\ losses' = losses + 1
  /\ index' = None
  /\ UNCHANGED <<logs, mem, op, done, now, crashes, tears>>

GateStep(g) ==
  \/ LoadIndex(g) \/ BeginRebuild(g) \/ FinishRebuild(g) \/ Drop(g)
  \/ Operation(g) \/ AppendLine(g) \/ WriteIndex(g)

Next == (\E g \in Gate : GateStep(g) \/ Crash(g)) \/ Tick \/ LoseIndex

Spec == Init /\ [][Next]_vars

-----------------------------------------------------------------------------
(* Correctness *)

TypeOK ==
  /\ queue \in Seq(Id) /\ audit \in Seq(Event)
  /\ torn \subseteq {"queue", "audit"}
  /\ index \in View \cup {None}
  /\ mem \in [Gate -> View \cup {None}]
  /\ op \in [Gate -> Work]
  /\ done \subseteq Event
  /\ now \in 0..MaxTime
  /\ crashes \in 0..MaxCrashes /\ tears \in 0..MaxTears /\ losses \in 0..MaxLosses

\* An index that matches the digests of the logs holds what a replay of the logs would
\* give: a gate may skip the replay (_load_index_or_rebuild), after any crash between
\* an append and its index write, any loss of the index, any order of operations.
\* Here and below, as long as no crash has left a fragment of a line in a log.
LogsWhole == tears = 0
IndexFaithful == LogsWhole /\ IndexUsable => index = Replay

\* What the audit trail itself says: the last word on a mutation is an approval that
\* has not expired.
Licensed(m) ==
  /\ StatusOf(m) = "approved"
  /\ now - audit[LastOf(Settles(m))].at <= Expiry

\* is_approved answers True only for a mutation the audit trail licenses.
Loaded(g) == op[g] = Idle /\ mem[g] # None
GrantsAreLicensed ==
  \A g \in Gate, m \in Mutation : LogsWhole /\ Loaded(g) /\ Grants(g, m) => Licensed(m)

\* pending_queue lists exactly the requests without a decision in the audit trail, in
\* the order of the queue.
Undecided(order, decided) == SelectSeq(order, LAMBDA id : id \notin decided)
Pending(g) == Undecided(mem[g].order, mem[g].decided)
PendingExact ==
  \A g \in Gate :
    LogsWhole /\ Loaded(g) =>
      Pending(g) = Undecided(queue, Replay.decided)

\* A decision, revocation or expiry whose call returned is in the audit trail; a crash
\* that tore a line costs at most the one event written behind the fragment.
ReturnedIsRecorded == Cardinality(done \ Range(audit)) <= tears

\* The class docstring and revoke_approval: after a revocation is_approved is False,
\* here for any gate created once no operation is running.
RevocationSticks ==
  \A m \in Mutation :
    /\ \A g \in Gate : op[g] = Idle
    /\ StatusOf(m) = "revoked"
    /\ IndexUsable
    => index.status[m] # "approved"

-----------------------------------------------------------------------------
(* What makes these inductive *)

\* A gate that writes has a state and something left to write; one that only
\* queries writes expiries.
Working ==
  \A g \in Gate : op[g].pc \in {"append", "index"} =>
    /\ mem[g] # None /\ op[g].todo # <<>>
    /\ g \notin Writer => \A i \in DOMAIN op[g].todo :
         op[g].todo[i].log = "audit" /\ op[g].todo[i].line.kind = "expired"

\* What was written but is not in the audit trail, with the line a gate is about to
\* index, is paid for by a tear; a fragment at the end is a tear not yet paid with.
Unindexed ==
  {Head(op[g].todo).line : g \in {h \in Gate : op[h].pc = "index" /\ Head(op[h].todo).log = "audit"}}
Lost == (done \cup Unindexed) \ Range(audit)
TearsPay ==
  /\ IsFiniteSet(Lost)
  /\ Cardinality(Lost) + (IF "audit" \in torn THEN 1 ELSE 0) <= tears
  /\ torn # {} => tears > 0

\* The rest is of gates that take turns, of which a long-lived one is the only writer.
OneWriter == \A g \in LongLived, h \in Writer : g = h
OneInUse == \A g, h \in Gate : InUse(g) /\ InUse(h) => g = h

\* Of the events that set a mutation's status there is a last one.
LastKnown ==
  \A m \in Mutation : Settles(m) # {} => \E i \in Settles(m) : \A j \in Settles(m) : j <= i

\* A state that says what a replay would, but for the digests.
Matches(v) ==
  v.order = queue /\ v.decided = Replay.decided /\ v.status = Replay.status
Behind(v) == v.qd <= Len(queue) /\ v.ad <= Len(audit)

IndexMatches == index # None => Behind(index) /\ (Consistent(index) => Matches(index))
GateMatches(g) ==
  /\ op[g].pc = "rebuild" => Matches(op[g].view)
  /\ mem[g] # None => Behind(mem[g])
  /\ mem[g] # None /\ op[g].pc # "index" => Matches(mem[g])
  /\ op[g].pc = "index" => Matches(Recorded(mem[g], Head(op[g].todo)))
StatesMatch == IndexMatches /\ \A g \in Gate : GateMatches(g)

IInv == TypeOK /\ Working /\ TearsPay /\ LastKnown
FaithInv == OneInUse /\ (LogsWhole => StatesMatch)
=============================================================================
