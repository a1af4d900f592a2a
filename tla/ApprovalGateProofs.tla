------------------------- MODULE ApprovalGateProofs -------------------------
(***************************************************************************)
(* Proofs about ApprovalGate for any gates, mutations, batches and bounds: *)
(* what a call has returned is recorded; and, if gates take turns and a    *)
(* long-lived one is the only writer, that the index is the replay of the  *)
(* logs and that nothing else is granted or listed.                        *)
(***************************************************************************)
EXTENDS ApprovalGate, SequenceTheorems, FiniteSetTheorems, TLAPS

\* What a gate's place tells of the operation it is in.
LEMMA ByPlace ==
  ASSUME TypeOK, NEW g \in Gate
  PROVE  /\ op[g] = Idle <=> op[g].pc = "idle"
         /\ op[g].pc \in {"idle", "rebuild", "append", "index"}
         /\ op[g].pc = "rebuild" => op[g].view \in View
         /\ op[g].pc \in {"append", "index"} =>
              /\ op[g].todo \in Seq(Write) /\ op[g].forget \in BOOLEAN
              /\ op[g] = [pc |-> op[g].pc, todo |-> op[g].todo, forget |-> op[g].forget]
<1>1. op[g] \in Work
  BY DEF TypeOK
<1>2. CASE op[g] \in [pc : {"idle"}]
  BY <1>2 DEF Idle
<1>3. CASE op[g] \in [pc : {"rebuild"}, view : View]
  BY <1>3 DEF Idle
<1>4. CASE op[g] \in [pc : {"append", "index"}, todo : Seq(Write), forget : BOOLEAN]
  BY <1>4 DEF Idle
<1>. QED
  BY <1>1, <1>2, <1>3, <1>4 DEF Work

\* The line a gate writes.
LEMMA HeadLine ==
  ASSUME TypeOK, Working, NEW g \in Gate, op[g].pc \in {"append", "index"},
         NEW w, w = Head(op[g].todo)
  PROVE  /\ w \in Write /\ w = op[g].todo[1] /\ 1 \in DOMAIN op[g].todo
         /\ w.log = "queue" => w.line \in Id
         /\ w.log # "queue" => w.log = "audit" /\ w.line \in Event
         /\ mem[g] \in View /\ mem[g] # None
         /\ g \notin Writer => w.log = "audit" /\ w.line.kind = "expired"
<1>1. op[g].todo \in Seq(Write) /\ op[g].todo # <<>>
  BY ByPlace DEF Working
<1>2. w = op[g].todo[1] /\ 1 \in DOMAIN op[g].todo /\ w \in Write
  BY <1>1
<1>3. mem[g] # None /\ mem[g] \in View
  BY DEF Working, TypeOK
<1>4. /\ w.log = "queue" => w.line \in Id
      /\ w.log # "queue" => w.log = "audit" /\ w.line \in Event
  BY <1>2 DEF Write
<1>. QED
  BY <1>2, <1>3, <1>4 DEF Working

\* The status the audit trail gives a mutation is that of the last event to set it.
LEMMA StatusByLast ==
  ASSUME TypeOK, LastKnown, NEW m \in Mutation
  PROVE  /\ StatusOf(m) \in Status \cup {None}
         /\ Settles(m) # {} =>
              /\ LastOf(Settles(m)) \in Settles(m)
              /\ \A j \in Settles(m) : j <= LastOf(Settles(m))
<1>1. Settles(m) # {} =>
        /\ LastOf(Settles(m)) \in Settles(m)
        /\ \A j \in Settles(m) : j <= LastOf(Settles(m))
  BY DEF LastKnown, LastOf
<1>. QED
  BY <1>1 DEF StatusOf, Settles

LEMMA ReplayIsView ==
  ASSUME TypeOK, LastKnown
  PROVE  Replay \in View
<1>1. \A m \in Mutation : StatusOf(m) \in Status \cup {None}
  BY StatusByLast
<1>2. {audit[i].id : i \in {j \in DOMAIN audit : audit[j].kind \in {"approved", "rejected"}}} \in SUBSET Id
  <2>1. \A i \in DOMAIN audit : audit[i] \in Event
    BY ElementOfSeq DEF TypeOK
  <2>2. \A e \in Event : e.id \in Id
    BY DEF Event
  <2>. QED
    BY <2>1, <2>2
<1>3. queue \in Seq(Id) /\ Len(queue) \in Nat /\ Len(audit) \in Nat
  BY LenProperties DEF TypeOK
<1>4. [m \in Mutation |-> StatusOf(m)] \in [Mutation -> Status \cup {None}]
  BY <1>1
<1>. QED
  BY <1>2, <1>3, <1>4 DEF Replay, View

\* Applying an event, or recording a line, gives a state.
LEMMA RecordedIsView ==
  ASSUME TypeOK, NEW v \in View, NEW w \in Write
  PROVE  Recorded(v, w) \in View
<1>1. Len(queue) \in Nat /\ Len(audit) \in Nat
  BY LenProperties DEF TypeOK
<1>2. CASE w.log = "queue"
  <2>1. w.line \in Id
    BY <1>2 DEF Write
  <2>2. v.order \in Seq(Id)
    BY DEF View
  <2>3. Append(v.order, w.line) \in Seq(Id)
    BY <2>1, <2>2, AppendProperties
  <2>4. [v EXCEPT !.order = Append(v.order, w.line), !.qd = Len(queue)] \in View
    BY <1>1, <2>3 DEF View
  <2>. QED
    BY <1>2, <2>4 DEF Recorded
<1>3. CASE w.log # "queue"
  <2>. DEFINE e == w.line
  <2>1. e \in Event
    BY <1>3 DEF Write
  <2>2. e.id \in Id /\ e.id.mut \in Mutation
    BY <2>1 DEF Event, Id
  <2>. HIDE DEF e
  <2>3. Applied(v, e) \in View
    <3>1. CASE e.kind \in {"approved", "rejected"}
      <4>1. v.decided \cup {e.id} \in SUBSET Id /\ e.kind \in Status
        BY <2>2, <3>1 DEF View, Status
      <4>2. v.status \in [Mutation -> Status \cup {None}]
        BY DEF View
      <4>3. [v.status EXCEPT ![e.id.mut] = e.kind] \in [Mutation -> Status \cup {None}]
        BY <4>1, <4>2
      <4>. QED
        BY <3>1, <4>1, <4>3 DEF View, Applied
    <3>2. CASE e.kind = "revoked"
      <4>1. v.status \in [Mutation -> Status \cup {None}] /\ "revoked" \in Status
        BY DEF View, Status
      <4>2. [v.status EXCEPT ![e.id.mut] = "revoked"] \in [Mutation -> Status \cup {None}]
        BY <4>1
      <4>. QED
        BY <3>2, <4>2 DEF View, Applied
    <3>3. CASE e.kind \notin {"approved", "rejected", "revoked"}
      BY <3>3 DEF Applied
    <3>. QED
      BY <3>1, <3>2, <3>3
  <2>4. [Applied(v, e) EXCEPT !.ad = Len(audit)] \in View
    BY <1>1, <2>3 DEF View
  <2>. QED
    BY <1>3, <2>4 DEF Recorded, e
<1>. QED
  BY <1>2, <1>3

-----------------------------------------------------------------------------
(* How the parts of the invariant are kept *)

\* A step after which a gate is not between an append and its index write leaves no
\* new line to index.
LEMMA NotIndexing ==
  ASSUME NEW g \in Gate, \A h \in Gate \ {g} : op'[h] = op[h], op'[g].pc # "index"
  PROVE  Unindexed' \subseteq Unindexed
BY DEF Unindexed

\* Nothing is lost, so no tear has to pay for it.
LEMMA LostLess ==
  ASSUME TypeOK, TearsPay, Lost' \subseteq Lost, torn' \subseteq torn, tears' = tears
  PROVE  TearsPay'
<1>1. IsFiniteSet(Lost') /\ Cardinality(Lost') <= Cardinality(Lost)
      /\ Cardinality(Lost') \in Nat /\ Cardinality(Lost) \in Nat
  BY FS_Subset, FS_CardinalityType DEF TearsPay
<1>2. tears \in Nat /\ tears' = tears
  BY BoundAssumption DEF TypeOK
<1>3. "audit" \in torn' => "audit" \in torn
  OBVIOUS
<1>4. Cardinality(Lost) + (IF "audit" \in torn THEN 1 ELSE 0) <= tears
  BY DEF TearsPay
<1>5. Cardinality(Lost') + (IF "audit" \in torn' THEN 1 ELSE 0) <= tears
  BY <1>1, <1>2, <1>3, <1>4
<1>6. torn' # {} => tears > 0
  BY DEF TearsPay
<1>. QED
  BY <1>1, <1>2, <1>5, <1>6 DEF TearsPay

LEMMA SettledStays ==
  ASSUME LastKnown, audit' = audit
  PROVE  LastKnown'
BY DEF LastKnown, Settles

\* The event appended last is the last to set a status, if it sets one.
LEMMA LastAfterAppend ==
  ASSUME TypeOK, LastKnown, NEW e \in Event, audit' = Append(audit, e)
  PROVE  LastKnown'
<1>. SUFFICES ASSUME NEW m \in Mutation, Settles(m)' # {}
              PROVE  \E i \in Settles(m)' : \A j \in Settles(m)' : j <= i
  BY DEF LastKnown
<1>1. /\ audit \in Seq(Event) /\ Len(audit) \in Nat /\ DOMAIN audit = 1..Len(audit)
      /\ DOMAIN audit' = 1..(Len(audit) + 1)
      /\ \A i \in DOMAIN audit : audit'[i] = audit[i]
  BY AppendProperties, LenProperties DEF TypeOK
<1>2. Settles(m)' \subseteq Settles(m) \cup {Len(audit) + 1} /\ Settles(m) \subseteq Settles(m)'
  BY <1>1 DEF Settles
<1>3. \A j \in Settles(m) : j \in Nat /\ j <= Len(audit)
  BY <1>1 DEF Settles
<1>4. CASE Len(audit) + 1 \in Settles(m)'
  BY <1>1, <1>2, <1>3, <1>4
<1>5. CASE Len(audit) + 1 \notin Settles(m)'
  <2>1. Settles(m)' = Settles(m)
    BY <1>2, <1>5
  <2>. QED
    BY <2>1 DEF LastKnown
<1>. QED
  BY <1>4, <1>5

-----------------------------------------------------------------------------
(* Each operation starts with lines that can be written *)

LEMMA LinesAreWrites ==
  ASSUME TypeOK, NEW id \in Id, NEW kind \in Status \cup {"requested", "expired", "violation"}
  PROVE  QueueLine(id) \in Write /\ AuditLine(kind, id) \in Write
<1>1. QueueLine(id) \in Write
  BY DEF QueueLine, Write
<1>2. [kind |-> kind, id |-> id, at |-> now] \in Event
  BY DEF Event, TypeOK
<1>3. AuditLine(kind, id) \in Write
  BY <1>2 DEF AuditLine, Write
<1>. QED
  BY <1>1, <1>3

LEMMA NewIdIsId ==
  ASSUME TypeOK, NEW m \in Mutation
  PROVE  NewId(m) \in Id
BY DEF NewId, Id, TypeOK

LEMMA StartKeeps ==
  ASSUME IInv, NEW g \in Gate, NEW todo \in Seq(Write), todo # <<>>, NEW forget \in BOOLEAN,
         g \notin Writer => \A i \in DOMAIN todo :
           todo[i].log = "audit" /\ todo[i].line.kind = "expired",
         Start(g, todo, forget)
  PROVE  IInv'
<1>. USE DEF IInv
<1>1. /\ UNCHANGED <<queue, audit, torn, index, mem, done, now, crashes, tears, losses>>
      /\ mem[g] # None
      /\ op' = [op EXCEPT ![g] = [pc |-> "append", todo |-> todo, forget |-> forget]]
  BY DEF Start, logs, bounds
<1>2. [pc |-> "append", todo |-> todo, forget |-> forget] \in Work
  BY DEF Work
<1>3. /\ op' \in [Gate -> Work]
      /\ op'[g] = [pc |-> "append", todo |-> todo, forget |-> forget]
      /\ \A h \in Gate \ {g} : op'[h] = op[h]
  BY <1>1, <1>2 DEF TypeOK
<1>4. TypeOK'
  BY <1>1, <1>3 DEF TypeOK
<1>5. Working'
  BY <1>1, <1>3 DEF Working
<1>6. Unindexed' \subseteq Unindexed
  BY <1>3, NotIndexing
<1>7. Lost' \subseteq Lost
  BY <1>1, <1>6 DEF Lost
<1>8. TearsPay'
  BY <1>1, <1>7, LostLess
<1>. QED
  BY <1>1, <1>4, <1>5, <1>8, SettledStays

LEMMA OperationKeeps ==
  ASSUME IInv, NEW g \in Gate, Operation(g)
  PROVE  \E todo \in Seq(Write), forget \in BOOLEAN :
           /\ todo # <<>>
           /\ g \notin Writer => \A i \in DOMAIN todo :
                todo[i].log = "audit" /\ todo[i].line.kind = "expired"
           /\ Start(g, todo, forget)
<1>. USE DEF IInv
<1>1. CASE g \in Writer /\ mem[g] # None /\ RecordDecision(g)
  <2>1. PICK id \in Range(queue) \cup Range(mem[g].order), verdict \in {"approved", "rejected"} :
          Start(g, <<AuditLine(verdict, id)>>, FALSE)
    BY <1>1 DEF RecordDecision
  <2>2. mem[g] \in View
    BY <1>1 DEF TypeOK
  <2>3. mem[g].order \in Seq(Id) /\ queue \in Seq(Id)
    BY <2>2 DEF View, TypeOK
  <2>4. id \in Id
    BY <2>3, ElementOfSeq DEF Range
  <2>5. AuditLine(verdict, id) \in Write
    BY <2>4, LinesAreWrites DEF Status
  <2>6. <<AuditLine(verdict, id)>> \in Seq(Write) /\ <<AuditLine(verdict, id)>> # <<>>
    BY <2>5
  <2>. QED
    BY <1>1, <2>1, <2>6
<1>2. CASE g \in Writer /\ IdentityViolation(g)
  <2>1. PICK id \in Range(queue) : Start(g, <<AuditLine("violation", id)>>, FALSE)
    BY <1>2 DEF IdentityViolation
  <2>2. id \in Id
    BY ElementOfSeq DEF Range, TypeOK
  <2>3. AuditLine("violation", id) \in Write
    BY <2>2, LinesAreWrites
  <2>4. <<AuditLine("violation", id)>> \in Seq(Write) /\ <<AuditLine("violation", id)>> # <<>>
    BY <2>3
  <2>. QED
    BY <1>2, <2>1, <2>4
<1>3. CASE g \in Writer /\ BatchApprove(g)
  <2>1. PICK ms \in Batches :
          \/ Start(g, [i \in 1..(3 * Len(ms)) |-> Approving(ms[1 + ((i - 1) \div 3)])[1 + ((i - 1) % 3)]], FALSE)
          \/ Start(g, Requested(ms[1]) \o <<AuditLine("violation", NewId(ms[1]))>>, FALSE)
    BY <1>3 DEF BatchApprove
  <2>2. ms \in Seq(Mutation) /\ ms # <<>> /\ Len(ms) \in Nat /\ Len(ms) > 0
    BY BatchAssumption, EmptySeq, LenProperties
  <2>3. \A j \in 1..Len(ms) : NewId(ms[j]) \in Id
    BY <2>2, NewIdIsId, ElementOfSeq
  <2>4. \A j \in 1..Len(ms) :
          /\ QueueLine(NewId(ms[j])) \in Write
          /\ AuditLine("requested", NewId(ms[j])) \in Write
          /\ AuditLine("approved", NewId(ms[j])) \in Write
          /\ AuditLine("violation", NewId(ms[j])) \in Write
    BY <2>3, LinesAreWrites DEF Status
  <2>5. CASE Start(g, [i \in 1..(3 * Len(ms)) |-> Approving(ms[1 + ((i - 1) \div 3)])[1 + ((i - 1) % 3)]], FALSE)
    <3>. DEFINE line(i) == Approving(ms[1 + ((i - 1) \div 3)])[1 + ((i - 1) % 3)]
    <3>1. ASSUME NEW i \in 1..(3 * Len(ms))
          PROVE  line(i) \in Write
      <4>1. 1 + ((i - 1) \div 3) \in 1..Len(ms) /\ 1 + ((i - 1) % 3) \in 1..3
        BY <2>2
      <4>2. ASSUME NEW j \in 1..Len(ms), NEW k \in 1..3
            PROVE  Approving(ms[j])[k] \in Write
        BY <2>4 DEF Approving
      <4>. QED
        BY <4>1, <4>2
    <3>2. [i \in 1..(3 * Len(ms)) |-> line(i)] \in [1..(3 * Len(ms)) -> Write]
      BY <3>1
    <3>3. 3 * Len(ms) \in Nat /\ 3 * Len(ms) > 0
      BY <2>2
    <3>. HIDE DEF line
    <3>4. /\ [i \in 1..(3 * Len(ms)) |-> line(i)] \in Seq(Write)
          /\ Len([i \in 1..(3 * Len(ms)) |-> line(i)]) = 3 * Len(ms)
      BY <3>2, <3>3, SeqDef, LenProperties
    <3>5. [i \in 1..(3 * Len(ms)) |-> line(i)] # <<>>
      BY <3>3, <3>4, EmptySeq
    <3>6. Start(g, [i \in 1..(3 * Len(ms)) |-> line(i)], FALSE)
      BY <2>5 DEF line
    <3>. QED
      BY <1>3, <3>4, <3>5, <3>6
  <2>6. CASE Start(g, Requested(ms[1]) \o <<AuditLine("violation", NewId(ms[1]))>>, FALSE)
    <3>1. 1 \in 1..Len(ms)
      BY <2>2
    <3>2. /\ Requested(ms[1]) \in Seq(Write) /\ Len(Requested(ms[1])) = 2
          /\ <<AuditLine("violation", NewId(ms[1]))>> \in Seq(Write)
      BY <2>4, <3>1 DEF Requested
    <3>3. /\ Requested(ms[1]) \o <<AuditLine("violation", NewId(ms[1]))>> \in Seq(Write)
          /\ Requested(ms[1]) \o <<AuditLine("violation", NewId(ms[1]))>> # <<>>
      BY <3>2, ConcatProperties, ConcatEmptySeq, EmptySeq
    <3>. QED
      BY <1>3, <2>6, <3>3
  <2>. QED
    BY <2>1, <2>5, <2>6
<1>4. ASSUME NEW m \in Mutation, g \in Writer, RequestApproval(g, m)
      PROVE  \E todo \in Seq(Write) : todo # <<>> /\ Start(g, todo, FALSE)
  <2>1. QueueLine(NewId(m)) \in Write /\ AuditLine("requested", NewId(m)) \in Write
    BY NewIdIsId, LinesAreWrites
  <2>2. Requested(m) \in Seq(Write) /\ Requested(m) # <<>>
    BY <2>1 DEF Requested
  <2>. QED
    BY <1>4, <2>2 DEF RequestApproval
<1>5. ASSUME NEW m \in Mutation, g \in Writer, RevokeApproval(g, m)
      PROVE  \E todo \in Seq(Write) : todo # <<>> /\ Start(g, todo, FALSE)
  <2>1. AuditLine("revoked", NewId(m)) \in Write
    BY NewIdIsId, LinesAreWrites DEF Status
  <2>2. <<AuditLine("revoked", NewId(m))>> \in Seq(Write) /\ <<AuditLine("revoked", NewId(m))>> # <<>>
    BY <2>1
  <2>. QED
    BY <1>5, <2>2 DEF RevokeApproval
<1>6. ASSUME NEW m \in Mutation, RecordExpiry(g, m)
      PROVE  \E todo \in Seq(Write) :
               /\ todo # <<>> /\ Start(g, todo, TRUE)
               /\ \A i \in DOMAIN todo : todo[i].log = "audit" /\ todo[i].line.kind = "expired"
  <2>1. AuditLine("expired", NewId(m)) \in Write
    BY NewIdIsId, LinesAreWrites
  <2>2. /\ <<AuditLine("expired", NewId(m))>> \in Seq(Write) /\ <<AuditLine("expired", NewId(m))>> # <<>>
        /\ \A i \in DOMAIN <<AuditLine("expired", NewId(m))>> :
             <<AuditLine("expired", NewId(m))>>[i] = AuditLine("expired", NewId(m))
    BY <2>1
  <2>3. AuditLine("expired", NewId(m)).log = "audit" /\ AuditLine("expired", NewId(m)).line.kind = "expired"
    BY DEF AuditLine
  <2>. QED
    BY <1>6, <2>2, <2>3 DEF RecordExpiry
<1>. QED
  BY <1>1, <1>2, <1>3, <1>4, <1>5, <1>6 DEF Operation

-----------------------------------------------------------------------------
(* Every step keeps the invariant *)

\* A step of one gate that leaves the logs alone and that gate with nothing to write.
LEMMA RestKeeps ==
  ASSUME IInv, NEW g \in Gate,
         UNCHANGED <<queue, audit, torn, done, now, crashes, tears>>,
         losses' \in 0..MaxLosses,
         index' \in View \cup {None}, mem' \in [Gate -> View \cup {None}],
         op' \in [Gate -> Work], op'[g].pc \in {"idle", "rebuild"},
         \A h \in Gate \ {g} : op'[h] = op[h] /\ mem'[h] = mem[h]
  PROVE  IInv'
<1>. USE DEF IInv
<1>1. TypeOK'
  BY DEF TypeOK
<1>2. Working'
  BY DEF Working
<1>3. Unindexed' \subseteq Unindexed
  BY NotIndexing
<1>4. Lost' \subseteq Lost
  BY <1>3 DEF Lost
<1>5. TearsPay'
  BY <1>4, LostLess
<1>. QED
  BY <1>1, <1>2, <1>5, SettledStays

LEMMA LoadKeeps ==
  ASSUME IInv, NEW g \in Gate, LoadIndex(g) \/ BeginRebuild(g) \/ FinishRebuild(g) \/ Drop(g)
  PROVE  IInv'
<1>. USE DEF IInv
<1>0. /\ mem \in [Gate -> View \cup {None}] /\ op \in [Gate -> Work]
      /\ index \in View \cup {None} /\ losses \in 0..MaxLosses
  BY DEF TypeOK
<1>1. CASE LoadIndex(g)
  <2>1. /\ UNCHANGED <<queue, audit, torn, index, op, done, now, crashes, tears, losses>>
        /\ mem' = [mem EXCEPT ![g] = index] /\ op[g] = Idle
    BY <1>1 DEF LoadIndex, MayRun, logs, bounds
  <2>2. mem' \in [Gate -> View \cup {None}] /\ \A h \in Gate \ {g} : mem'[h] = mem[h]
    BY <1>0, <2>1
  <2>3. op[g].pc = "idle"
    BY <2>1 DEF Idle
  <2>. QED
    BY <1>0, <2>1, <2>2, <2>3, RestKeeps
<1>2. CASE BeginRebuild(g)
  <2>1. /\ UNCHANGED <<queue, audit, torn, index, mem, done, now, crashes, tears, losses>>
        /\ op' = [op EXCEPT ![g] = [pc |-> "rebuild", view |-> Replay]]
    BY <1>2 DEF BeginRebuild, logs, bounds
  <2>2. [pc |-> "rebuild", view |-> Replay] \in Work
    BY ReplayIsView DEF Work
  <2>3. /\ op' \in [Gate -> Work] /\ op'[g].pc = "rebuild"
        /\ \A h \in Gate \ {g} : op'[h] = op[h]
    BY <1>0, <2>1, <2>2
  <2>. QED
    BY <1>0, <2>1, <2>3, RestKeeps
<1>3. CASE FinishRebuild(g)
  <2>. DEFINE v == [op[g].view EXCEPT !.qd = Len(queue), !.ad = Len(audit)]
  <2>1. /\ UNCHANGED <<queue, audit, torn, done, now, crashes, tears, losses>>
        /\ op' = [op EXCEPT ![g] = Idle] /\ mem' = [mem EXCEPT ![g] = v] /\ index' = v
    BY <1>3 DEF FinishRebuild, logs, bounds
  <2>2. v \in View
    <3>1. op[g].view \in View
      BY <1>3, ByPlace DEF FinishRebuild
    <3>2. Len(queue) \in Nat /\ Len(audit) \in Nat
      BY LenProperties DEF TypeOK
    <3>. QED
      BY <3>1, <3>2 DEF View
  <2>3. Idle \in Work /\ Idle.pc = "idle"
    BY DEF Work, Idle
  <2>. HIDE DEF v
  <2>4. /\ op' \in [Gate -> Work] /\ op'[g].pc = "idle"
        /\ \A h \in Gate \ {g} : op'[h] = op[h] /\ mem'[h] = mem[h]
        /\ mem' \in [Gate -> View \cup {None}]
    BY <1>0, <2>1, <2>2, <2>3
  <2>. QED
    BY <1>0, <2>1, <2>2, <2>4, RestKeeps
<1>4. CASE Drop(g)
  <2>1. /\ UNCHANGED <<queue, audit, torn, index, op, done, now, crashes, tears, losses>>
        /\ mem' = [mem EXCEPT ![g] = None] /\ op[g] = Idle
    BY <1>4 DEF Drop, logs, bounds
  <2>2. mem' \in [Gate -> View \cup {None}] /\ \A h \in Gate \ {g} : mem'[h] = mem[h]
    BY <1>0, <2>1
  <2>3. op[g].pc = "idle"
    BY <2>1 DEF Idle
  <2>. QED
    BY <1>0, <2>1, <2>2, <2>3, RestKeeps
<1>. QED
  BY <1>1, <1>2, <1>3, <1>4

LEMMA AppendKeeps ==
  ASSUME IInv, NEW g \in Gate, AppendLine(g)
  PROVE  IInv'
<1>. USE DEF IInv
<1>. DEFINE w == Head(op[g].todo)
<1>1. /\ op[g].pc = "append" /\ torn' = torn \ {w.log}
      /\ queue' = IF w.log = "queue" /\ "queue" \notin torn THEN Append(queue, w.line) ELSE queue
      /\ audit' = IF w.log = "audit" /\ "audit" \notin torn THEN Append(audit, w.line) ELSE audit
      /\ op' = [op EXCEPT ![g].pc = "index"]
      /\ UNCHANGED <<index, mem, done, now, crashes, tears, losses>>
  BY DEF AppendLine, bounds
<1>2. /\ w.log = "queue" => w.line \in Id
      /\ w.log # "queue" => w.log = "audit" /\ w.line \in Event
      /\ mem[g] # None
  BY <1>1, HeadLine
<1>3. /\ op[g].todo \in Seq(Write) /\ op[g].forget \in BOOLEAN
      /\ op[g] = [pc |-> "append", todo |-> op[g].todo, forget |-> op[g].forget]
  BY <1>1, ByPlace
<1>4. /\ op' = [op EXCEPT ![g] = [pc |-> "index", todo |-> op[g].todo, forget |-> op[g].forget]]
  <2>1. [op[g] EXCEPT !.pc = "index"] = [pc |-> "index", todo |-> op[g].todo, forget |-> op[g].forget]
    BY <1>3
  <2>. QED
    BY <1>1, <2>1
<1>5. [pc |-> "index", todo |-> op[g].todo, forget |-> op[g].forget] \in Work
  BY <1>3 DEF Work
<1>6. /\ op' \in [Gate -> Work]
      /\ op'[g] = [pc |-> "index", todo |-> op[g].todo, forget |-> op[g].forget]
      /\ \A h \in Gate \ {g} : op'[h] = op[h]
  BY <1>4, <1>5 DEF TypeOK
<1>. HIDE DEF w
<1>7. queue' \in Seq(Id) /\ audit' \in Seq(Event)
  BY <1>1, <1>2, AppendProperties DEF TypeOK
<1>8. TypeOK'
  BY <1>1, <1>6, <1>7 DEF TypeOK
<1>9. Working'
  <2>1. ASSUME NEW h \in Gate \ {g}
        PROVE  op'[h] = op[h] /\ mem'[h] = mem[h]
    BY <1>1, <1>6
  <2>2. mem'[g] = mem[g] /\ op'[g].todo = op[g].todo
    BY <1>1, <1>6
  <2>. QED
    BY <1>1, <2>1, <2>2 DEF Working
<1>10. LastKnown'
  BY <1>1, <1>2, SettledStays, LastAfterAppend
<1>11. Unindexed' \subseteq Unindexed \cup (IF w.log = "audit" THEN {w.line} ELSE {})
  BY <1>6 DEF Unindexed, w
<1>12. CASE w.log = "queue"
  <2>1. Lost' \subseteq Lost /\ torn' \subseteq torn /\ tears' = tears
    BY <1>1, <1>11, <1>12 DEF Lost
  <2>. QED
    BY <1>8, <1>9, <1>10, <2>1, LostLess
<1>13. CASE w.log = "audit" /\ "audit" \notin torn
  <2>1. audit' = Append(audit, w.line) /\ audit \in Seq(Event) /\ w.line \in Event
    BY <1>1, <1>2, <1>13 DEF TypeOK
  <2>2. w.line \in Range(audit') /\ Range(audit) \subseteq Range(audit')
    <3>1. /\ Len(audit) \in Nat /\ DOMAIN audit = 1..Len(audit)
          /\ DOMAIN audit' = 1..(Len(audit) + 1)
          /\ \A i \in DOMAIN audit : audit'[i] = audit[i]
          /\ audit'[Len(audit) + 1] = w.line
      BY <2>1, AppendProperties, LenProperties
    <3>2. DOMAIN audit \subseteq DOMAIN audit' /\ Len(audit) + 1 \in DOMAIN audit'
      BY <3>1
    <3>. QED
      BY <3>1, <3>2 DEF Range
  <2>3. Lost' \subseteq Lost /\ torn' \subseteq torn /\ tears' = tears
    BY <1>1, <1>11, <2>2 DEF Lost
  <2>. QED
    BY <1>8, <1>9, <1>10, <2>3, LostLess
<1>14. CASE w.log = "audit" /\ "audit" \in torn
  <2>1. audit' = audit /\ done' = done /\ tears' = tears /\ torn' \subseteq torn /\ "audit" \notin torn'
    BY <1>1, <1>14
  <2>2. Lost' \subseteq Lost \cup {w.line}
    BY <1>11, <1>14, <2>1 DEF Lost
  <2>3. /\ IsFiniteSet(Lost) /\ Cardinality(Lost) \in Nat /\ Cardinality(Lost) + 1 <= tears
        /\ tears > 0 /\ tears \in Nat
    <3>1. IsFiniteSet(Lost) /\ Cardinality(Lost) \in Nat
      BY FS_CardinalityType DEF TearsPay
    <3>2. Cardinality(Lost) + 1 <= tears
      BY <1>14 DEF TearsPay
    <3>3. tears > 0 /\ tears \in Nat
      BY <1>14, BoundAssumption DEF TearsPay, TypeOK
    <3>. QED
      BY <3>1, <3>2, <3>3
  <2>4. /\ IsFiniteSet(Lost') /\ Cardinality(Lost') \in Nat
        /\ Cardinality(Lost') <= Cardinality(Lost) + 1
    <3>1. /\ IsFiniteSet(Lost \cup {w.line})
          /\ Cardinality(Lost \cup {w.line}) \in Nat
          /\ Cardinality(Lost \cup {w.line}) <= Cardinality(Lost) + 1
      <4>1. /\ IsFiniteSet(Lost \cup {w.line})
            /\ \/ Cardinality(Lost \cup {w.line}) = Cardinality(Lost)
               \/ Cardinality(Lost \cup {w.line}) = Cardinality(Lost) + 1
        BY <2>3, FS_AddElement
      <4>. QED
        BY <2>3, <4>1
    <3>2. /\ IsFiniteSet(Lost') /\ Cardinality(Lost') <= Cardinality(Lost \cup {w.line})
      BY <2>2, <3>1, FS_Subset
    <3>3. Cardinality(Lost') \in Nat
      BY <3>2, FS_CardinalityType
    <3>. QED
      BY <2>3, <3>1, <3>2, <3>3
  <2>5. Cardinality(Lost') <= tears
    BY <2>3, <2>4
  <2>6. TearsPay'
    BY <2>1, <2>3, <2>4, <2>5 DEF TearsPay
  <2>. QED
    BY <1>8, <1>9, <1>10, <2>6
<1>. QED
  BY <1>2, <1>12, <1>13, <1>14

LEMMA WriteKeeps ==
  ASSUME IInv, NEW g \in Gate, WriteIndex(g)
  PROVE  IInv'
<1>. USE DEF IInv
<1>. DEFINE w == Head(op[g].todo)
            v == Recorded(mem[g], w)
            last == Len(op[g].todo) = 1
<1>1. /\ op[g].pc = "index" /\ index' = v
      /\ mem' = [mem EXCEPT ![g] = IF last /\ (op[g].forget \/ g \notin LongLived) THEN None ELSE v]
      /\ op' = [op EXCEPT ![g] = IF last THEN Idle
                                ELSE [pc |-> "append", todo |-> Tail(op[g].todo), forget |-> op[g].forget]]
      /\ done' = IF w.log = "audit" THEN done \cup {w.line} ELSE done
      /\ UNCHANGED <<queue, audit, torn, now, crashes, tears, losses>>
  BY DEF WriteIndex, logs, bounds
<1>2. /\ w \in Write
      /\ w.log = "audit" => w.line \in Event
      /\ mem[g] \in View /\ mem[g] # None
  <2>1. w \in Write /\ mem[g] \in View /\ mem[g] # None
    BY <1>1, HeadLine
  <2>2. w.log = "audit" => w.line \in Event
    BY <2>1 DEF Write
  <2>. QED
    BY <2>1, <2>2
<1>3. /\ op[g].todo \in Seq(Write) /\ op[g].forget \in BOOLEAN /\ op[g].todo # <<>>
      /\ op[g] = [pc |-> "index", todo |-> op[g].todo, forget |-> op[g].forget]
  BY <1>1, ByPlace DEF Working
<1>4. v \in View
  BY <1>2, RecordedIsView
<1>5. v # None
  BY <1>4, NoneAssumption
<1>6. /\ Tail(op[g].todo) \in Seq(Write) /\ Len(op[g].todo) \in Nat /\ Len(op[g].todo) > 0
      /\ ~last => Tail(op[g].todo) # <<>>
      /\ \A i \in DOMAIN Tail(op[g].todo) :
           i + 1 \in DOMAIN op[g].todo /\ Tail(op[g].todo)[i] = op[g].todo[i + 1]
  <2>1. /\ Tail(op[g].todo) \in Seq(Write) /\ Len(op[g].todo) \in Nat /\ Len(op[g].todo) > 0
        /\ Len(Tail(op[g].todo)) = Len(op[g].todo) - 1
        /\ \A i \in 1..Len(Tail(op[g].todo)) : Tail(op[g].todo)[i] = op[g].todo[i + 1]
    BY <1>3, HeadTailProperties, EmptySeq, LenProperties
  <2>2. DOMAIN Tail(op[g].todo) = 1..Len(Tail(op[g].todo)) /\ DOMAIN op[g].todo = 1..Len(op[g].todo)
    BY <1>3, <2>1, LenProperties
  <2>3. ~last => Tail(op[g].todo) # <<>>
    <3>1. ~last => Len(Tail(op[g].todo)) # 0
      BY <2>1
    <3>2. Len(<<>>) = 0
      OBVIOUS
    <3>. QED
      BY <3>1, <3>2, Zenon
  <2>4. ASSUME NEW i \in DOMAIN Tail(op[g].todo)
        PROVE  i + 1 \in DOMAIN op[g].todo /\ Tail(op[g].todo)[i] = op[g].todo[i + 1]
    BY <2>1, <2>2
  <2>. QED
    BY <2>1, <2>3, <2>4
<1>. DEFINE rest == [pc |-> "append", todo |-> Tail(op[g].todo), forget |-> op[g].forget]
<1>8. Idle \in Work /\ rest \in Work /\ Idle.pc = "idle"
  BY <1>3, <1>6 DEF Idle, Work
<1>9. op' = [op EXCEPT ![g] = IF last THEN Idle ELSE rest]
  BY <1>1
<1>. HIDE DEF v, rest
<1>10. /\ op' \in [Gate -> Work]
       /\ op'[g] = IF last THEN Idle ELSE rest
       /\ \A h \in Gate \ {g} : op'[h] = op[h]
  BY <1>8, <1>9 DEF TypeOK
<1>11. /\ mem' \in [Gate -> View \cup {None}]
       /\ ~last => mem'[g] = v
       /\ \A h \in Gate \ {g} : mem'[h] = mem[h]
  BY <1>1, <1>4 DEF TypeOK
<1>12. done' \subseteq Event
  BY <1>1, <1>2 DEF TypeOK
<1>13. TypeOK'
  BY <1>1, <1>4, <1>10, <1>11, <1>12 DEF TypeOK
<1>14. Working'
  <2>. SUFFICES ASSUME NEW h \in Gate, op'[h].pc \in {"append", "index"}
                PROVE  /\ mem'[h] # None /\ op'[h].todo # <<>>
                       /\ h \notin Writer => \A i \in DOMAIN op'[h].todo :
                            op'[h].todo[i].log = "audit" /\ op'[h].todo[i].line.kind = "expired"
    BY DEF Working
  <2>1. CASE h # g
    BY <1>10, <1>11, <2>1 DEF Working
  <2>2. CASE h = g
    <3>1. ~last /\ op'[g] = rest
      BY <1>8, <1>10, <2>2
    <3>2. op'[g].todo = Tail(op[g].todo)
      BY <3>1 DEF rest
    <3>3. g \notin Writer => \A i \in DOMAIN op[g].todo :
            op[g].todo[i].log = "audit" /\ op[g].todo[i].line.kind = "expired"
      BY <1>1 DEF Working
    <3>4. mem'[g] # None /\ Tail(op[g].todo) # <<>>
      BY <1>5, <1>6, <1>11, <3>1
    <3>5. g \notin Writer => \A i \in DOMAIN Tail(op[g].todo) :
            Tail(op[g].todo)[i].log = "audit" /\ Tail(op[g].todo)[i].line.kind = "expired"
      BY <1>6, <3>3
    <3>. QED
      BY <2>2, <3>2, <3>4, <3>5
  <2>. QED
    BY <2>1, <2>2
<1>15. op'[g].pc # "index"
  BY <1>8, <1>10 DEF rest
<1>16. Unindexed' \subseteq Unindexed
  BY <1>10, <1>15, NotIndexing
<1>17. w.log = "audit" => w.line \in Unindexed
  BY <1>1 DEF Unindexed
<1>18. Lost' \subseteq Lost
  BY <1>1, <1>16, <1>17 DEF Lost
<1>19. TearsPay'
  BY <1>1, <1>18, LostLess
<1>. QED
  BY <1>1, <1>13, <1>14, <1>19, SettledStays

LEMMA CrashKeeps ==
  ASSUME IInv, NEW g \in Gate, Crash(g)
  PROVE  IInv'
<1>. USE DEF IInv
<1>1. /\ crashes' = crashes + 1 /\ crashes < MaxCrashes
      /\ mem' = [mem EXCEPT ![g] = None] /\ op' = [op EXCEPT ![g] = Idle]
      /\ UNCHANGED <<queue, audit, index, done, now, losses>>
      /\ \/ torn' = torn /\ tears' = tears
         \/ /\ op[g].pc = "append" /\ tears < MaxTears /\ tears' = tears + 1
            /\ torn' = torn \cup {Head(op[g].todo).log}
  BY DEF Crash
<1>2. Idle \in Work /\ Idle.pc = "idle"
  BY DEF Idle, Work
<1>3. /\ op' \in [Gate -> Work] /\ op'[g] = Idle
      /\ \A h \in Gate \ {g} : op'[h] = op[h] /\ mem'[h] = mem[h]
      /\ mem' \in [Gate -> View \cup {None}]
  BY <1>1, <1>2 DEF TypeOK
<1>4. Working'
  BY <1>2, <1>3 DEF Working
<1>5. Unindexed' \subseteq Unindexed
  BY <1>2, <1>3, NotIndexing
<1>6. Lost' \subseteq Lost
  BY <1>1, <1>5 DEF Lost
<1>7. LastKnown'
  BY <1>1, SettledStays
<1>8. crashes' \in 0..MaxCrashes
  BY <1>1, BoundAssumption DEF TypeOK
<1>9. CASE torn' = torn /\ tears' = tears
  <2>1. TypeOK'
    BY <1>1, <1>3, <1>8, <1>9 DEF TypeOK
  <2>. QED
    BY <1>4, <1>6, <1>7, <1>9, <2>1, LostLess
<1>10. CASE /\ op[g].pc = "append" /\ tears < MaxTears /\ tears' = tears + 1
            /\ torn' = torn \cup {Head(op[g].todo).log}
  <2>1. Head(op[g].todo).log \in {"queue", "audit"}
    BY <1>10, HeadLine
  <2>2. tears \in Nat /\ tears' \in 0..MaxTears
    BY <1>10, BoundAssumption DEF TypeOK
  <2>3. torn' \subseteq {"queue", "audit"}
    BY <1>10, <2>1 DEF TypeOK
  <2>4. TypeOK'
    BY <1>1, <1>3, <1>8, <2>2, <2>3 DEF TypeOK
  <2>5. /\ IsFiniteSet(Lost') /\ Cardinality(Lost') <= Cardinality(Lost)
        /\ Cardinality(Lost') \in Nat /\ Cardinality(Lost) \in Nat
    BY <1>6, FS_Subset, FS_CardinalityType DEF TearsPay
  <2>6. Cardinality(Lost) <= tears
    <3>1. Cardinality(Lost) + (IF "audit" \in torn THEN 1 ELSE 0) <= tears
      BY DEF TearsPay
    <3>. QED
      BY <2>2, <2>5, <3>1
  <2>7. Cardinality(Lost') + (IF "audit" \in torn' THEN 1 ELSE 0) <= tears' /\ tears' > 0
    BY <1>10, <2>2, <2>5, <2>6
  <2>8. TearsPay'
    BY <2>5, <2>7 DEF TearsPay
  <2>. QED
    BY <1>4, <1>7, <2>4, <2>8
<1>. QED
  BY <1>1, <1>9, <1>10

LEMMA EnvironmentKeeps ==
  ASSUME IInv, Tick \/ LoseIndex \/ UNCHANGED vars
  PROVE  IInv'
<1>. USE DEF IInv
<1>1. /\ UNCHANGED <<queue, audit, torn, mem, op, done, crashes, tears>>
      /\ index' \in View \cup {None} /\ now' \in 0..MaxTime /\ losses' \in 0..MaxLosses
  <2>1. /\ index \in View \cup {None} /\ now \in 0..MaxTime /\ losses \in 0..MaxLosses
        /\ MaxTime \in Nat /\ MaxLosses \in Nat
    BY BoundAssumption DEF TypeOK
  <2>2. CASE Tick
    BY <2>1, <2>2 DEF Tick, logs, bounds
  <2>3. CASE LoseIndex
    BY <2>1, <2>3 DEF LoseIndex, logs
  <2>4. CASE UNCHANGED vars
    BY <2>1, <2>4 DEF vars
  <2>. QED
    BY <2>2, <2>3, <2>4
<1>2. TypeOK'
  BY <1>1 DEF TypeOK
<1>3. Working'
  BY <1>1 DEF Working
<1>4. Lost' \subseteq Lost
  BY <1>1 DEF Lost, Unindexed
<1>5. TearsPay'
  BY <1>1, <1>4, LostLess
<1>. QED
  BY <1>1, <1>2, <1>3, <1>5, SettledStays

LEMMA StepKeeps ==
  ASSUME IInv, [Next]_vars
  PROVE  IInv'
<1>1. ASSUME NEW g \in Gate, Operation(g)
      PROVE  IInv'
  BY <1>1, OperationKeeps, StartKeeps
<1>. QED
  BY <1>1, LoadKeeps, AppendKeeps, WriteKeeps, CrashKeeps, EnvironmentKeeps DEF Next, GateStep

LEMMA InitHolds ==
  ASSUME Init
  PROVE  IInv
<1>1. TypeOK
  <2>1. Idle \in Work
    BY DEF Idle, Work
  <2>. QED
    BY <2>1, BoundAssumption DEF Init, TypeOK
<1>2. \A g \in Gate : op[g].pc = "idle"
  BY DEF Init, Idle
<1>3. Working
  BY <1>2 DEF Working
<1>4. Lost = {}
  BY <1>2 DEF Init, Lost, Unindexed
<1>5. TearsPay
  BY <1>4, FS_EmptySet DEF Init, TearsPay
<1>6. LastKnown
  BY DEF Init, LastKnown, Settles
<1>. QED
  BY <1>1, <1>3, <1>5, <1>6 DEF IInv

-----------------------------------------------------------------------------
(* What a call has returned is recorded, whatever the gates do *)

\* The invariant of every run: types, work to do, tears that pay for what is lost.
THEOREM InvariantHolds == Spec => []IInv
<1>1. Init => IInv
  BY InitHolds
<1>2. IInv /\ [Next]_vars => IInv'
  BY StepKeeps
<1>. QED
  BY <1>1, <1>2, PTL DEF Spec

\* Logs, index, gate states and operations keep their types.
THEOREM TypeCorrect == Spec => []TypeOK
<1>1. IInv => TypeOK
  BY DEF IInv
<1>. QED
  BY <1>1, InvariantHolds, PTL

\* Every decision, revocation or expiry whose call returned is in the audit trail, but
\* for at most one event per append that a crash has torn.
THEOREM ReturnsAreRecorded == Spec => []ReturnedIsRecorded
<1>1. ASSUME IInv
      PROVE  ReturnedIsRecorded
  <2>1. IsFiniteSet(Lost) /\ Cardinality(Lost) \in Nat /\ tears \in Nat
        /\ Cardinality(Lost) + (IF "audit" \in torn THEN 1 ELSE 0) <= tears
    BY <1>1, FS_CardinalityType, BoundAssumption DEF IInv, TearsPay, TypeOK
  <2>2. done \ Range(audit) \subseteq Lost
    BY DEF Lost
  <2>3. /\ Cardinality(done \ Range(audit)) <= Cardinality(Lost)
        /\ Cardinality(done \ Range(audit)) \in Nat
    BY <2>1, <2>2, FS_Subset, FS_CardinalityType
  <2>. QED
    BY <2>1, <2>3 DEF ReturnedIsRecorded
<1>. QED
  BY <1>1, InvariantHolds, PTL

-----------------------------------------------------------------------------
(* Gates that take turns: one append changes the replay as Applied says *)

LEMMA ReplayFields ==
  /\ Replay.order = queue
  /\ Replay.decided =
       {audit[i].id : i \in {j \in DOMAIN audit : audit[j].kind \in {"approved", "rejected"}}}
  /\ Replay.status = [m \in Mutation |-> StatusOf(m)]
  /\ Replay.qd = Len(queue) /\ Replay.ad = Len(audit)
BY DEF Replay

LEMMA LastIsIt ==
  ASSUME NEW S \in SUBSET Nat, NEW i \in S, \A j \in S : j <= i
  PROVE  LastOf(S) = i
<1>1. LastOf(S) \in S /\ \A j \in S : j <= LastOf(S)
  BY DEF LastOf
<1>2. LastOf(S) <= i /\ i <= LastOf(S) /\ i \in Nat /\ LastOf(S) \in Nat
  BY <1>1
<1>. QED
  BY <1>2

LEMMA ReplaySame ==
  ASSUME UNCHANGED <<queue, audit>>
  PROVE  Replay' = Replay
BY DEF Replay, StatusOf, Settles

LEMMA StatusAfterAppend ==
  ASSUME TypeOK, LastKnown, NEW e \in Event, audit' = Append(audit, e), NEW m \in Mutation
  PROVE  StatusOf(m)' = IF e.kind \in Status /\ e.id.mut = m THEN e.kind ELSE StatusOf(m)
<1>1. /\ audit \in Seq(Event) /\ Len(audit) \in Nat /\ DOMAIN audit = 1..Len(audit)
      /\ DOMAIN audit' = 1..(Len(audit) + 1)
      /\ \A i \in DOMAIN audit : audit'[i] = audit[i]
      /\ audit'[Len(audit) + 1] = e
  BY AppendProperties, LenProperties DEF TypeOK
<1>. DEFINE n == Len(audit) + 1
<1>2. CASE e.kind \in Status /\ e.id.mut = m
  <2>1. Settles(m)' \subseteq Settles(m) \cup {n} /\ n \in Settles(m)'
    BY <1>1, <1>2 DEF Settles
  <2>2. \A j \in Settles(m) : j \in Nat /\ j <= n
    BY <1>1 DEF Settles
  <2>3. LastOf(Settles(m)') = n
    <3>1. Settles(m)' \in SUBSET Nat /\ \A j \in Settles(m)' : j <= n
      BY <1>1, <2>1, <2>2
    <3>. QED
      BY <2>1, <3>1, LastIsIt
  <2>4. StatusOf(m)' = audit'[n].kind
    BY <2>1, <2>3 DEF StatusOf
  <2>. QED
    BY <1>1, <1>2, <2>4
<1>3. CASE ~(e.kind \in Status /\ e.id.mut = m)
  <2>1. Settles(m)' = Settles(m)
    BY <1>1, <1>3 DEF Settles
  <2>2. Settles(m) # {} => LastOf(Settles(m)) \in DOMAIN audit
    BY StatusByLast DEF Settles
  <2>. QED
    BY <1>1, <1>3, <2>1, <2>2 DEF StatusOf
<1>. QED
  BY <1>2, <1>3

\* The replay of a longer audit trail is the replay of the shorter one with the event
\* applied.
LEMMA ReplayGrows ==
  ASSUME TypeOK, LastKnown, NEW e \in Event, audit' = Append(audit, e), queue' = queue,
         NEW v \in View, v.decided = Replay.decided, v.status = Replay.status
  PROVE  Applied(v, e).decided = Replay'.decided /\ Applied(v, e).status = Replay'.status
<1>1. /\ audit \in Seq(Event) /\ Len(audit) \in Nat /\ DOMAIN audit = 1..Len(audit)
      /\ DOMAIN audit' = 1..(Len(audit) + 1)
      /\ \A i \in DOMAIN audit : audit'[i] = audit[i]
      /\ audit'[Len(audit) + 1] = e
  BY AppendProperties, LenProperties DEF TypeOK
<1>2. /\ Replay.decided =
           {audit[i].id : i \in {j \in DOMAIN audit : audit[j].kind \in {"approved", "rejected"}}}
      /\ Replay'.decided =
           {audit'[i].id : i \in {j \in DOMAIN audit' : audit'[j].kind \in {"approved", "rejected"}}}
  BY DEF Replay
<1>3. Replay'.decided = IF e.kind \in {"approved", "rejected"} THEN Replay.decided \cup {e.id}
                        ELSE Replay.decided
  BY <1>1, <1>2
<1>4. /\ Replay.status = [m \in Mutation |-> StatusOf(m)]
      /\ Replay'.status = [m \in Mutation |-> StatusOf(m)']
  BY DEF Replay
<1>5. \A m \in Mutation :
        StatusOf(m)' = IF e.kind \in Status /\ e.id.mut = m THEN e.kind ELSE StatusOf(m)
  BY StatusAfterAppend
<1>6. Replay'.status = [m \in Mutation |->
                          IF e.kind \in Status /\ e.id.mut = m THEN e.kind ELSE Replay.status[m]]
  BY <1>4, <1>5
<1>7. v.status \in [Mutation -> Status \cup {None}] /\ v.decided \subseteq Id
  BY DEF View
<1>8. CASE e.kind \in {"approved", "rejected"}
  <2>1. Applied(v, e) = [v EXCEPT !.decided = v.decided \cup {e.id}, !.status[e.id.mut] = e.kind]
    BY <1>8 DEF Applied
  <2>2. /\ Applied(v, e).decided = v.decided \cup {e.id}
        /\ Applied(v, e).status = [v.status EXCEPT ![e.id.mut] = e.kind]
    BY <2>1 DEF View
  <2>3. [v.status EXCEPT ![e.id.mut] = e.kind] = Replay'.status
    BY <1>6, <1>7, <1>8 DEF Status
  <2>. QED
    BY <1>3, <1>8, <2>2, <2>3
<1>9. CASE e.kind = "revoked"
  <2>1. Applied(v, e) = [v EXCEPT !.status[e.id.mut] = "revoked"]
    BY <1>9 DEF Applied
  <2>2. /\ Applied(v, e).decided = v.decided
        /\ Applied(v, e).status = [v.status EXCEPT ![e.id.mut] = "revoked"]
    BY <2>1 DEF View
  <2>3. [v.status EXCEPT ![e.id.mut] = "revoked"] = Replay'.status
    BY <1>6, <1>7, <1>9 DEF Status
  <2>. QED
    BY <1>3, <1>9, <2>2, <2>3
<1>10. CASE e.kind \notin Status
  <2>1. Applied(v, e) = v
    BY <1>10 DEF Applied, Status
  <2>2. Replay'.status = Replay.status
    BY <1>4, <1>6, <1>7, <1>10
  <2>. QED
    BY <1>3, <1>10, <2>1, <2>2 DEF Status
<1>. QED
  BY <1>8, <1>9, <1>10 DEF Status

-----------------------------------------------------------------------------
(* Gates that take turns: what each of them holds is the replay *)

LEMMA OneStays ==
  ASSUME Serial, OneInUse, NEW g \in Gate, MayRun(g) \/ InUse(g),
         \A h \in Gate \ {g} : op'[h] = op[h] /\ mem'[h] = mem[h]
  PROVE  OneInUse' /\ \A h \in Gate \ {g} : ~InUse(h)
<1>1. \A h \in Gate \ {g} : ~InUse(h)
  BY DEF OneInUse, MayRun
<1>2. \A h \in Gate \ {g} : ~InUse(h)'
  BY <1>1 DEF InUse
<1>. QED
  BY <1>1, <1>2 DEF OneInUse

\* With the logs as they were, what matched them still does.
LEMMA SameLogs ==
  ASSUME UNCHANGED <<queue, audit>>, NEW g \in Gate,
         op'[g] = op[g], mem'[g] = mem[g], GateMatches(g)
  PROVE  GateMatches(g)'
<1>1. Replay' = Replay /\ Len(queue') = Len(queue) /\ Len(audit') = Len(audit)
  BY ReplaySame
<1>. QED
  BY <1>1 DEF GateMatches, Matches, Behind, Recorded

LEMMA SameIndex ==
  ASSUME UNCHANGED <<queue, audit, index>>, IndexMatches
  PROVE  IndexMatches'
<1>1. Replay' = Replay
  BY ReplaySame
<1>. QED
  BY <1>1 DEF IndexMatches, Matches, Behind, Consistent

\* A step of one gate that leaves the logs alone.
LEMMA QuietStep ==
  ASSUME StatesMatch, NEW g \in Gate, UNCHANGED <<queue, audit>>,
         \A h \in Gate \ {g} : op'[h] = op[h] /\ mem'[h] = mem[h],
         IndexMatches', GateMatches(g)'
  PROVE  StatesMatch'
<1>1. \A h \in Gate \ {g} : GateMatches(h)'
  BY SameLogs DEF StatesMatch
<1>. QED
  BY <1>1 DEF StatesMatch

LEMMA LoadMatches ==
  ASSUME IInv, OneInUse, StatesMatch, Serial, NEW g \in Gate,
         LoadIndex(g) \/ BeginRebuild(g) \/ FinishRebuild(g) \/ Drop(g)
  PROVE  OneInUse' /\ StatesMatch'
<1>. USE DEF IInv
<1>0. /\ mem \in [Gate -> View \cup {None}] /\ op \in [Gate -> Work]
      /\ IndexMatches /\ GateMatches(g)
      /\ Len(queue) \in Nat /\ Len(audit) \in Nat
  BY LenProperties DEF TypeOK, StatesMatch
<1>1. CASE LoadIndex(g)
  <2>1. /\ UNCHANGED <<queue, audit, index, op>> /\ mem' = [mem EXCEPT ![g] = index]
        /\ op[g] = Idle /\ MayRun(g) /\ index # None /\ Consistent(index)
    BY <1>1 DEF LoadIndex, MayRun, logs, IndexUsable
  <2>2. mem'[g] = index /\ op'[g].pc = "idle"
        /\ \A h \in Gate \ {g} : op'[h] = op[h] /\ mem'[h] = mem[h]
    BY <1>0, <2>1 DEF Idle
  <2>3. Behind(index) /\ Matches(index)
    BY <1>0, <2>1 DEF IndexMatches
  <2>4. Replay' = Replay
    BY <2>1, ReplaySame
  <2>5. GateMatches(g)'
    BY <2>1, <2>2, <2>3, <2>4 DEF GateMatches, Matches, Behind
  <2>6. IndexMatches'
    BY <1>0, <2>1, SameIndex
  <2>. QED
    BY <2>1, <2>2, <2>5, <2>6, OneStays, QuietStep
<1>2. CASE BeginRebuild(g)
  <2>1. /\ UNCHANGED <<queue, audit, index, mem>> /\ MayRun(g) /\ mem[g] = None
        /\ op' = [op EXCEPT ![g] = [pc |-> "rebuild", view |-> Replay]]
    BY <1>2 DEF BeginRebuild, logs
  <2>2. /\ op'[g] = [pc |-> "rebuild", view |-> Replay] /\ mem'[g] = None
        /\ \A h \in Gate \ {g} : op'[h] = op[h] /\ mem'[h] = mem[h]
    BY <1>0, <2>1
  <2>3. Replay' = Replay /\ Replay.order = queue
    BY <2>1, ReplaySame, ReplayFields
  <2>4. op'[g].pc = "rebuild" /\ op'[g].view = Replay
    BY <2>2
  <2>5. GateMatches(g)'
    BY <2>1, <2>2, <2>3, <2>4 DEF GateMatches, Matches
  <2>6. IndexMatches'
    BY <1>0, <2>1, SameIndex
  <2>. QED
    BY <2>1, <2>2, <2>5, <2>6, OneStays, QuietStep
<1>3. CASE FinishRebuild(g)
  <2>1. PICK v : v = [op[g].view EXCEPT !.qd = Len(queue), !.ad = Len(audit)]
    OBVIOUS
  <2>2. /\ UNCHANGED <<queue, audit>> /\ op[g].pc = "rebuild"
        /\ op' = [op EXCEPT ![g] = Idle] /\ mem' = [mem EXCEPT ![g] = v] /\ index' = v
    BY <1>3, <2>1 DEF FinishRebuild, logs
  <2>3. /\ op'[g].pc = "idle" /\ mem'[g] = v
        /\ \A h \in Gate \ {g} : op'[h] = op[h] /\ mem'[h] = mem[h]
    BY <1>0, <2>2 DEF Idle
  <2>4. op[g].view \in View /\ Matches(op[g].view)
    BY <1>0, <2>2, ByPlace DEF GateMatches
  <2>5. /\ v.order = op[g].view.order /\ v.decided = op[g].view.decided
        /\ v.status = op[g].view.status /\ v.qd = Len(queue) /\ v.ad = Len(audit)
    BY <2>1, <2>4 DEF View
  <2>6. Replay' = Replay
    BY <2>2, ReplaySame
  <2>7. Matches(v) /\ Behind(v)
    BY <1>0, <2>4, <2>5 DEF Matches, Behind
  <2>8. GateMatches(g)' /\ IndexMatches'
    BY <2>2, <2>3, <2>6, <2>7 DEF GateMatches, IndexMatches, Matches, Behind
  <2>9. InUse(g)
    BY <2>2 DEF InUse, Idle
  <2>. QED
    BY <2>2, <2>3, <2>8, <2>9, OneStays, QuietStep
<1>4. CASE Drop(g)
  <2>1. /\ UNCHANGED <<queue, audit, index, op>> /\ mem' = [mem EXCEPT ![g] = None]
        /\ op[g] = Idle /\ InUse(g)
    BY <1>4 DEF Drop, logs, InUse
  <2>2. mem'[g] = None /\ op'[g].pc = "idle"
        /\ \A h \in Gate \ {g} : op'[h] = op[h] /\ mem'[h] = mem[h]
    BY <1>0, <2>1 DEF Idle
  <2>3. GateMatches(g)'
    BY <2>2 DEF GateMatches
  <2>4. IndexMatches'
    BY <1>0, <2>1, SameIndex
  <2>. QED
    BY <2>1, <2>2, <2>3, <2>4, OneStays, QuietStep
<1>. QED
  BY <1>1, <1>2, <1>3, <1>4

LEMMA StartMatches ==
  ASSUME IInv, OneInUse, StatesMatch, Serial, NEW g \in Gate,
         NEW todo \in Seq(Write), NEW forget \in BOOLEAN, Start(g, todo, forget)
  PROVE  OneInUse' /\ StatesMatch'
<1>1. /\ UNCHANGED <<queue, audit, index, mem>> /\ MayRun(g) /\ op[g] = Idle /\ mem[g] # None
      /\ op' = [op EXCEPT ![g] = [pc |-> "append", todo |-> todo, forget |-> forget]]
      /\ op \in [Gate -> Work] /\ IndexMatches /\ GateMatches(g)
  BY DEF Start, MayRun, logs, IInv, TypeOK, StatesMatch
<1>2. /\ op'[g].pc = "append" /\ mem'[g] = mem[g] /\ op[g].pc = "idle"
      /\ \A h \in Gate \ {g} : op'[h] = op[h] /\ mem'[h] = mem[h]
  BY <1>1 DEF Idle
<1>3. Replay' = Replay
  BY <1>1, ReplaySame
<1>4. Matches(mem[g]) /\ Behind(mem[g])
  BY <1>1, <1>2 DEF GateMatches
<1>5. GateMatches(g)'
  BY <1>1, <1>2, <1>3, <1>4 DEF GateMatches, Matches, Behind
<1>6. IndexMatches'
  BY <1>1, SameIndex
<1>. QED
  BY <1>1, <1>2, <1>5, <1>6, OneStays, QuietStep

\* Indexing a line brings the state of its gate level with the logs.
LEMMA RecordedFields ==
  ASSUME TypeOK, NEW v \in View, NEW w \in Write
  PROVE  /\ w.log = "queue" =>
              /\ Recorded(v, w).order = Append(v.order, w.line)
              /\ Recorded(v, w).decided = v.decided /\ Recorded(v, w).status = v.status
              /\ Recorded(v, w).qd = Len(queue) /\ Recorded(v, w).ad = v.ad
         /\ w.log # "queue" =>
              /\ Recorded(v, w).order = v.order
              /\ Recorded(v, w).decided = Applied(v, w.line).decided
              /\ Recorded(v, w).status = Applied(v, w.line).status
              /\ Recorded(v, w).qd = v.qd /\ Recorded(v, w).ad = Len(audit)
<1>1. CASE w.log = "queue"
  BY <1>1 DEF Recorded, View
<1>2. CASE w.log # "queue"
  <2>1. /\ Applied(v, w.line).order = v.order /\ Applied(v, w.line).qd = v.qd
        /\ DOMAIN Applied(v, w.line) = DOMAIN v
    BY DEF Applied, View
  <2>2. Recorded(v, w) = [Applied(v, w.line) EXCEPT !.ad = Len(audit)]
    BY <1>2 DEF Recorded
  <2>. QED
    BY <1>2, <2>1, <2>2 DEF View
<1>. QED
  BY <1>1, <1>2

LEMMA AppendMatches ==
  ASSUME IInv, OneInUse, StatesMatch, Serial, OneWriter, LogsWhole, NEW g \in Gate, AppendLine(g)
  PROVE  OneInUse' /\ StatesMatch'
<1>. USE DEF IInv
<1>1. PICK w : w = Head(op[g].todo)
  OBVIOUS
<1>2. torn = {}
  BY DEF TearsPay, LogsWhole, TypeOK
<1>3. /\ op[g].pc = "append"
      /\ queue' = IF w.log = "queue" THEN Append(queue, w.line) ELSE queue
      /\ audit' = IF w.log = "audit" THEN Append(audit, w.line) ELSE audit
      /\ op' = [op EXCEPT ![g].pc = "index"]
      /\ index' = index /\ mem' = mem
  BY <1>1, <1>2 DEF AppendLine
<1>4. /\ w \in Write
      /\ w.log = "queue" => w.line \in Id
      /\ w.log # "queue" => w.log = "audit" /\ w.line \in Event
      /\ mem[g] \in View /\ mem[g] # None
      /\ g \notin Writer => w.log = "audit" /\ w.line.kind = "expired"
  BY <1>1, <1>3, HeadLine
<1>5. /\ op[g] = [pc |-> "append", todo |-> op[g].todo, forget |-> op[g].forget]
      /\ op \in [Gate -> Work] /\ index \in View \cup {None}
      /\ queue \in Seq(Id) /\ audit \in Seq(Event)
      /\ Len(queue) \in Nat /\ Len(audit) \in Nat
  BY <1>3, ByPlace, LenProperties DEF TypeOK
<1>6. /\ op'[g].pc = "index" /\ op'[g].todo = op[g].todo
      /\ \A h \in Gate \ {g} : op'[h] = op[h] /\ mem'[h] = mem[h]
  BY <1>3, <1>5
<1>7. InUse(g)
  BY <1>3 DEF InUse, Idle
<1>8. OneInUse' /\ \A h \in Gate \ {g} : ~InUse(h)
  BY <1>6, <1>7, OneStays
<1>9. \A h \in Gate \ {g} : op[h].pc = "idle" /\ (mem[h] # None => h \in LongLived)
  BY <1>8 DEF InUse, Idle
<1>10. Matches(mem[g]) /\ Behind(mem[g]) /\ IndexMatches
  BY <1>3, <1>4 DEF StatesMatch, GateMatches
<1>11. Len(queue) <= Len(queue') /\ Len(audit) <= Len(audit')
       /\ (Len(queue') > Len(queue) \/ Len(audit') > Len(audit))
       /\ Len(queue') \in Nat /\ Len(audit') \in Nat
  BY <1>3, <1>4, <1>5, AppendProperties
<1>12. IndexMatches'
  <2>1. CASE index = None
    BY <1>3, <2>1 DEF IndexMatches
  <2>2. CASE index # None
    <3>1. index.qd \in Nat /\ index.ad \in Nat
      BY <1>5, <2>2 DEF View
    <3>2. index.qd <= Len(queue) /\ index.ad <= Len(audit)
      BY <1>10, <2>2 DEF IndexMatches, Behind
    <3>3. index.qd <= Len(queue') /\ index.ad <= Len(audit')
          /\ ~(index.qd = Len(queue') /\ index.ad = Len(audit'))
      BY <1>5, <1>11, <3>1, <3>2
    <3>. QED
      BY <1>3, <3>3 DEF IndexMatches, Behind, Consistent
  <2>. QED
    BY <2>1, <2>2
<1>13. ASSUME NEW h \in Gate, mem[h] # None
       PROVE  mem[h].qd <= Len(queue') /\ mem[h].ad <= Len(audit')
  <2>1. mem[h] \in View
    BY <1>13 DEF TypeOK
  <2>2. mem[h].qd \in Nat /\ mem[h].ad \in Nat
    BY <2>1 DEF View
  <2>3. mem[h].qd <= Len(queue) /\ mem[h].ad <= Len(audit)
    BY <1>13 DEF StatesMatch, GateMatches, Behind
  <2>. QED
    BY <1>5, <1>11, <2>2, <2>3
<1>14. ASSUME w.log = "audit", NEW h \in Gate, mem[h] # None, Matches(mem[h])
       PROVE  /\ Applied(mem[h], w.line).decided = Replay'.decided
              /\ Applied(mem[h], w.line).status = Replay'.status
  <2>1. mem[h] \in View
    BY <1>14 DEF TypeOK
  <2>. QED
    BY <1>3, <1>4, <1>14, <2>1, ReplayGrows DEF Matches
<1>15. w.log = "queue" => Replay'.decided = Replay.decided /\ Replay'.status = Replay.status
  <2>1. audit' = audit => Replay'.decided = Replay.decided /\ Replay'.status = Replay.status
    BY DEF Replay, StatusOf, Settles
  <2>. QED
    BY <1>3, <2>1
<1>16. GateMatches(g)'
  <2>1. PICK v : v = mem[g]
    OBVIOUS
  <2>2. /\ Recorded(v, w)'.order = queue'
        /\ Recorded(v, w)'.decided = Replay'.decided
        /\ Recorded(v, w)'.status = Replay'.status
    <3>1. CASE w.log = "queue"
      <4>1. Recorded(v, w)' = [v EXCEPT !.order = Append(v.order, w.line), !.qd = Len(queue')]
        BY <3>1 DEF Recorded
      <4>2. /\ Recorded(v, w)'.order = Append(v.order, w.line)
            /\ Recorded(v, w)'.decided = v.decided /\ Recorded(v, w)'.status = v.status
        BY <1>4, <2>1, <4>1 DEF View
      <4>. QED
        BY <1>3, <1>10, <1>15, <2>1, <3>1, <4>2 DEF Matches
    <3>2. CASE w.log # "queue"
      <4>1. Recorded(v, w)' = [Applied(v, w.line) EXCEPT !.ad = Len(audit')]
        BY <3>2 DEF Recorded
      <4>2. Applied(v, w.line).order = v.order /\ DOMAIN Applied(v, w.line) = DOMAIN v
        BY <1>4, <2>1 DEF Applied, View
      <4>3. /\ Recorded(v, w)'.order = v.order
            /\ Recorded(v, w)'.decided = Applied(v, w.line).decided
            /\ Recorded(v, w)'.status = Applied(v, w.line).status
        BY <1>4, <2>1, <4>1, <4>2 DEF View
      <4>4. w.log = "audit" /\ queue' = queue
        BY <1>3, <1>4, <3>2
      <4>. QED
        BY <1>4, <1>10, <1>14, <2>1, <4>3, <4>4 DEF Matches
    <3>. QED
      BY <3>1, <3>2
  <2>3. Head(op'[g].todo) = w /\ mem'[g] = v
    BY <1>1, <1>3, <1>6, <2>1
  <2>4. Recorded(mem[g], Head(op[g].todo))' = Recorded(v, w)'
    BY <2>3 DEF Recorded
  <2>5. Matches(Recorded(mem[g], Head(op[g].todo)))'
    BY <2>2, <2>4 DEF Matches
  <2>6. Behind(mem[g])'
    BY <1>3, <1>4, <1>13 DEF Behind
  <2>. QED
    BY <1>6, <2>5, <2>6 DEF GateMatches
<1>17. ASSUME NEW h \in Gate \ {g}
       PROVE  GateMatches(h)'
  <2>1. op'[h].pc = "idle" /\ mem'[h] = mem[h]
    BY <1>6, <1>9
  <2>2. CASE mem[h] = None
    BY <2>1, <2>2 DEF GateMatches
  <2>3. CASE mem[h] # None
    <3>1. h \in LongLived /\ g \notin Writer
      BY <1>9, <2>3 DEF OneWriter
    <3>2. w.log = "audit" /\ w.line.kind = "expired" /\ queue' = queue
      BY <1>3, <1>4, <3>1
    <3>3. Matches(mem[h])
      BY <1>9, <2>3 DEF StatesMatch, GateMatches
    <3>4. Applied(mem[h], w.line) = mem[h]
      BY <3>2 DEF Applied
    <3>5. mem[h].order = queue' /\ mem[h].decided = Replay'.decided /\ mem[h].status = Replay'.status
      BY <1>14, <2>3, <3>2, <3>3, <3>4 DEF Matches
    <3>6. mem[h].qd <= Len(queue') /\ mem[h].ad <= Len(audit')
      BY <1>13, <2>3
    <3>. QED
      BY <2>1, <3>5, <3>6 DEF GateMatches, Matches, Behind
  <2>. QED
    BY <2>2, <2>3
<1>. QED
  BY <1>8, <1>12, <1>16, <1>17 DEF StatesMatch

LEMMA WriteMatches ==
  ASSUME IInv, OneInUse, StatesMatch, Serial, NEW g \in Gate, WriteIndex(g)
  PROVE  OneInUse' /\ StatesMatch'
<1>. USE DEF IInv
<1>1. PICK w : w = Head(op[g].todo)
  OBVIOUS
<1>2. PICK v : v = Recorded(mem[g], w)
  OBVIOUS
<1>3. /\ op[g].pc = "index" /\ index' = v /\ UNCHANGED <<queue, audit>>
      /\ \E n \in {None, v} : mem' = [mem EXCEPT ![g] = n]
      /\ \/ op' = [op EXCEPT ![g] = Idle]
         \/ op' = [op EXCEPT ![g] = [pc |-> "append", todo |-> Tail(op[g].todo), forget |-> op[g].forget]]
  BY <1>1, <1>2 DEF WriteIndex, logs
<1>4. w \in Write /\ mem[g] \in View /\ mem[g] # None
  BY <1>1, <1>3, HeadLine
<1>5. Matches(v) /\ Behind(mem[g])
  BY <1>1, <1>2, <1>3, <1>4 DEF StatesMatch, GateMatches
<1>6. Len(queue) \in Nat /\ Len(audit) \in Nat
  BY LenProperties DEF TypeOK
<1>7. Behind(v)
  <2>1. mem[g].qd \in Nat /\ mem[g].ad \in Nat
    BY <1>4 DEF View
  <2>2. v.qd \in {Len(queue), mem[g].qd} /\ v.ad \in {Len(audit), mem[g].ad}
    BY <1>2, <1>4, RecordedFields
  <2>. QED
    BY <1>5, <1>6, <2>1, <2>2 DEF Behind
<1>8. /\ mem'[g] \in {None, v} /\ op'[g].pc \in {"idle", "append"}
      /\ \A h \in Gate \ {g} : op'[h] = op[h] /\ mem'[h] = mem[h]
  BY <1>3 DEF Idle, TypeOK
<1>9. Replay' = Replay
  BY <1>3, ReplaySame
<1>10. GateMatches(g)' /\ IndexMatches'
  BY <1>3, <1>5, <1>7, <1>8, <1>9 DEF GateMatches, IndexMatches, Matches, Behind
<1>11. InUse(g)
  BY <1>3 DEF InUse, Idle
<1>. QED
  BY <1>3, <1>8, <1>10, <1>11, OneStays, QuietStep

LEMMA CrashMatches ==
  ASSUME IInv, OneInUse, StatesMatch, NEW g \in Gate, Crash(g)
  PROVE  OneInUse' /\ StatesMatch'
<1>1. /\ UNCHANGED <<queue, audit, index>> /\ IndexMatches
      /\ mem' = [mem EXCEPT ![g] = None] /\ op' = [op EXCEPT ![g] = Idle]
  BY DEF Crash, StatesMatch
<1>2. /\ mem'[g] = None /\ op'[g] = Idle
      /\ \A h \in Gate \ {g} : op'[h] = op[h] /\ mem'[h] = mem[h]
  BY <1>1 DEF IInv, TypeOK
<1>3. GateMatches(g)'
  BY <1>2 DEF GateMatches, Idle
<1>4. ~InUse(g)' /\ \A h \in Gate \ {g} : InUse(h)' <=> InUse(h)
  BY <1>2 DEF InUse
<1>5. OneInUse'
  BY <1>4 DEF OneInUse
<1>6. IndexMatches'
  BY <1>1, SameIndex
<1>. QED
  BY <1>1, <1>2, <1>3, <1>5, <1>6, QuietStep

LEMMA EnvironmentMatches ==
  ASSUME OneInUse, StatesMatch, Tick \/ LoseIndex \/ UNCHANGED vars
  PROVE  OneInUse' /\ StatesMatch'
<1>1. UNCHANGED <<queue, audit, mem, op>> /\ (index' = index \/ index' = None)
  BY DEF Tick, LoseIndex, vars, logs
<1>2. OneInUse'
  BY <1>1 DEF OneInUse, InUse
<1>3. \A h \in Gate : GateMatches(h)'
  BY <1>1, SameLogs DEF StatesMatch
<1>4. IndexMatches'
  <2>1. CASE index' = None
    BY <2>1 DEF IndexMatches
  <2>2. CASE index' = index
    BY <1>1, <2>2, SameIndex DEF StatesMatch
  <2>. QED
    BY <1>1, <2>1, <2>2
<1>. QED
  BY <1>2, <1>3, <1>4 DEF StatesMatch

-----------------------------------------------------------------------------
(* Gates that take turns: the theorems *)

LEMMA TurnsAreKept ==
  ASSUME IInv, OneInUse, Serial, [Next]_vars
  PROVE  OneInUse'
<1>1. ASSUME NEW g \in Gate, GateStep(g)
      PROVE  OneInUse'
  <2>1. op[g] # Idle \/ MayRun(g) \/ Drop(g)
    <3>1. CASE Operation(g)
      BY <1>1, <3>1, OperationKeeps DEF Start
    <3>2. CASE ~Operation(g)
      BY <1>1, <3>2 DEF GateStep, LoadIndex, BeginRebuild, FinishRebuild, AppendLine, WriteIndex, Idle
    <3>. QED
      BY <3>1, <3>2
  <2>2. MayRun(g) \/ InUse(g)
    BY <2>1 DEF InUse, Drop
  <2>3. \A h \in Gate \ {g} : op'[h] = op[h] /\ mem'[h] = mem[h]
    <3>1. mem \in [Gate -> View \cup {None}] /\ op \in [Gate -> Work]
      BY DEF IInv, TypeOK
    <3>2. CASE Operation(g)
      <4>1. mem' = mem /\ \E x : op' = [op EXCEPT ![g] = x]
        BY <3>2, OperationKeeps DEF Start
      <4>. QED
        BY <3>1, <4>1
    <3>3. CASE AppendLine(g)
      BY <3>1, <3>3 DEF AppendLine
    <3>4. CASE WriteIndex(g)
      BY <3>1, <3>4 DEF WriteIndex
    <3>5. CASE LoadIndex(g) \/ BeginRebuild(g) \/ FinishRebuild(g) \/ Drop(g)
      BY <3>1, <3>5 DEF LoadIndex, BeginRebuild, FinishRebuild, Drop
    <3>. QED
      BY <1>1, <3>2, <3>3, <3>4, <3>5 DEF GateStep
  <2>. QED
    BY <2>2, <2>3, OneStays
<1>2. ASSUME NEW g \in Gate, Crash(g)
      PROVE  OneInUse'
  <2>1. /\ mem'[g] = None /\ op'[g] = Idle
        /\ \A h \in Gate \ {g} : op'[h] = op[h] /\ mem'[h] = mem[h]
    BY <1>2 DEF Crash, IInv, TypeOK
  <2>. QED
    BY <2>1 DEF OneInUse, InUse
<1>3. ASSUME Tick \/ LoseIndex \/ UNCHANGED vars
      PROVE  OneInUse'
  BY <1>3 DEF Tick, LoseIndex, vars, OneInUse, InUse
<1>. QED
  BY <1>1, <1>2, <1>3 DEF Next

\* No step mends a torn log.
LEMMA TornStaysTorn ==
  ASSUME IInv, [Next]_vars, LogsWhole'
  PROVE  LogsWhole
<1>1. tears \in Nat
  BY BoundAssumption DEF IInv, TypeOK
<1>2. tears' = tears \/ tears' = tears + 1
  <2>1. ASSUME NEW g \in Gate, GateStep(g)
        PROVE  tears' = tears
    <3>1. CASE Operation(g)
      BY <3>1, OperationKeeps DEF Start, bounds
    <3>. QED
      BY <2>1, <3>1
         DEF GateStep, LoadIndex, BeginRebuild, FinishRebuild, Drop, AppendLine, WriteIndex, bounds
  <2>. QED
    BY <2>1 DEF Next, Crash, Tick, LoseIndex, bounds, vars
<1>. QED
  BY <1>1, <1>2 DEF LogsWhole

LEMMA StepMatches ==
  ASSUME IInv, FaithInv, Serial, OneWriter, [Next]_vars
  PROVE  FaithInv'
<1>1. OneInUse'
  BY TurnsAreKept DEF FaithInv
<1>2. ASSUME LogsWhole'
      PROVE  StatesMatch'
  <2>1. OneInUse /\ StatesMatch /\ LogsWhole
    BY <1>2, TornStaysTorn DEF FaithInv
  <2>2. ASSUME NEW g \in Gate, Operation(g)
        PROVE  StatesMatch'
    BY <2>1, <2>2, OperationKeeps, StartMatches
  <2>. QED
    BY <2>1, <2>2, LoadMatches, AppendMatches, WriteMatches, CrashMatches, EnvironmentMatches
       DEF Next, GateStep
<1>. QED
  BY <1>1, <1>2 DEF FaithInv

LEMMA InitMatches ==
  ASSUME Init
  PROVE  FaithInv
BY DEF Init, FaithInv, OneInUse, InUse, StatesMatch, IndexMatches, GateMatches, Idle

\* If gates take turns and a long-lived gate is the only writer, then in every run what
\* the index and the gates hold is, but for the digests, the replay of whole logs.
THEOREM StatesMatchLogs ==
  ASSUME Serial, OneWriter
  PROVE  Spec => [](IInv /\ FaithInv)
<1>1. Init => IInv /\ FaithInv
  BY InitHolds, InitMatches
<1>2. IInv /\ FaithInv /\ [Next]_vars => IInv' /\ FaithInv'
  BY StepKeeps, StepMatches
<1>. QED
  BY <1>1, <1>2, PTL DEF Spec

\* An index whose digests match the logs is the replay of the logs, so that a gate may
\* load it instead.
THEOREM IndexIsFaithful ==
  ASSUME Serial, OneWriter
  PROVE  Spec => []IndexFaithful
<1>1. ASSUME IInv, FaithInv
      PROVE  IndexFaithful
  <2>. SUFFICES ASSUME LogsWhole, IndexUsable
                PROVE  index = Replay
    BY DEF IndexFaithful
  <2>1. index \in View /\ Replay \in View
    BY <1>1, ReplayIsView DEF IInv, TypeOK, IndexUsable
  <2>2. Matches(index) /\ Consistent(index)
    BY <1>1 DEF FaithInv, StatesMatch, IndexMatches, IndexUsable
  <2>3. /\ index.order = Replay.order /\ index.decided = Replay.decided
        /\ index.status = Replay.status /\ index.qd = Replay.qd /\ index.ad = Replay.ad
    BY <2>2, ReplayFields DEF Matches, Consistent
  <2>. QED
    BY <2>1, <2>3 DEF View
<1>. QED
  BY <1>1, StatesMatchLogs, PTL

\* is_approved answers True only for a mutation the audit trail licenses.
THEOREM GrantsLicensed ==
  ASSUME Serial, OneWriter
  PROVE  Spec => []GrantsAreLicensed
<1>1. ASSUME IInv, FaithInv
      PROVE  GrantsAreLicensed
  <2>. SUFFICES ASSUME NEW g \in Gate, NEW m \in Mutation, LogsWhole, Loaded(g), Grants(g, m)
                PROVE  Licensed(m)
    BY DEF GrantsAreLicensed
  <2>1. Matches(mem[g])
    BY <1>1 DEF Loaded, FaithInv, StatesMatch, GateMatches, Idle
  <2>2. StatusOf(m) = "approved"
    BY <2>1, ReplayFields DEF Matches, Grants
  <2>3. Settles(m) # {}
    BY <2>2, NoneAssumption DEF StatusOf, Status
  <2>. DEFINE i == LastOf(Settles(m))
  <2>4. i \in Settles(m) /\ audit[i].kind = "approved"
    BY <1>1, <2>2, <2>3, StatusByLast DEF IInv, StatusOf
  <2>5. i \in Approvals(m)
    BY <2>4 DEF Settles, Approvals
  <2>6. audit[i] \in Event
    BY <1>1, <2>4, ElementOfSeq DEF Settles, IInv, TypeOK
  <2>7. audit[i].at \in Nat /\ now \in Nat /\ Expiry \in Nat
    BY <1>1, <2>6, BoundAssumption DEF Event, IInv, TypeOK
  <2>8. ~(now - audit[i].at > Expiry)
    BY <2>5 DEF Grants, HasExpired
  <2>. QED
    BY <2>2, <2>7, <2>8 DEF Licensed
<1>. QED
  BY <1>1, StatesMatchLogs, PTL

\* pending_queue lists the requests the audit trail has no decision on, in queue order.
THEOREM PendingIsExact ==
  ASSUME Serial, OneWriter
  PROVE  Spec => []PendingExact
<1>1. ASSUME IInv, FaithInv
      PROVE  PendingExact
  <2>1. ASSUME NEW g \in Gate, LogsWhole, Loaded(g)
        PROVE  mem[g].order = queue /\ mem[g].decided = Replay.decided
    BY <1>1, <2>1 DEF Loaded, FaithInv, StatesMatch, GateMatches, Idle, Matches
  <2>. QED
    BY <2>1 DEF PendingExact, Pending
<1>. QED
  BY <1>1, StatesMatchLogs, PTL
=============================================================================
