----------------------- MODULE CryovantJournalProofs -----------------------
(***************************************************************************)
(* Proofs about CryovantJournal for any set of processes, any payloads and *)
(* any bounds on the length, the crashes and the edits.                    *)
(***************************************************************************)
EXTENDS CryovantJournal, SequenceTheorems, FiniteSetTheorems, TLAPS

\* The hash of a prefix is a sequence of payloads of its length (_hash_line).
LEMMA HashOfType ==
  ASSUME NEW lines \in Seq(Line), NEW n \in 0..Len(lines)
  PROVE  HashOf(lines, n) \in Hash /\ Len(HashOf(lines, n)) = n
<1>1. \A i \in 1..Len(lines) : lines[i] \in Line
  BY ElementOfSeq
<1>2. \A i \in 1..n : lines[i].pay \in Payload
  BY <1>1 DEF Line
<1>3. HashOf(lines, n) \in [1..n -> Payload]
  BY <1>2 DEF HashOf
<1>. QED
  BY <1>3 DEF Hash

\* Appending a line extends the hash of the file by its payload and leaves the
\* hashes of the older prefixes alone (_hash_line, append_tx).
LEMMA HashOfAppend ==
  ASSUME NEW lines \in Seq(Line), NEW line \in Line, NEW longer \in Seq(Line),
         longer = Append(lines, line)
  PROVE  /\ Len(longer) = Len(lines) + 1
         /\ \A i \in 1..Len(lines) : longer[i] = lines[i]
         /\ longer[Len(lines) + 1] = line
         /\ \A n \in 0..Len(lines) : HashOf(longer, n) = HashOf(lines, n)
         /\ HashOf(longer, Len(lines) + 1) = HashLine(HashOf(lines, Len(lines)), line.pay)
<1>1. /\ Len(longer) = Len(lines) + 1
      /\ \A i \in 1..Len(lines) : longer[i] = lines[i]
      /\ longer[Len(lines) + 1] = line
  OBVIOUS
<1>2. \A n \in 0..Len(lines) : HashOf(longer, n) = HashOf(lines, n)
  BY <1>1 DEF HashOf
<1>3. HashOf(longer, Len(lines) + 1) = HashLine(HashOf(lines, Len(lines)), line.pay)
  <2>. DEFINE n == Len(lines)
              f == HashOf(lines, n)
  <2>1. f \in Seq(Payload) /\ Len(f) = n
    BY HashOfType DEF Hash
  <2>2. line.pay \in Payload
    BY DEF Line
  <2>3. /\ Append(f, line.pay) \in Seq(Payload)
        /\ Len(Append(f, line.pay)) = n + 1
        /\ \A i \in 1..n : Append(f, line.pay)[i] = lines[i].pay
        /\ Append(f, line.pay)[n + 1] = line.pay
    BY <2>1, <2>2 DEF HashOf
  <2>4. Append(f, line.pay) = [i \in 1..(n + 1) |-> longer[i].pay]
    BY <1>1, <2>3
  <2>. QED
    BY <2>4 DEF HashOf, HashLine
<1>. QED
  BY <1>1, <1>2, <1>3

\* The first lines ChainOf writes have the journal's form and carry the hashes of what
\* is in front of them (ensure_journal's genesis copy).
LEMMA ChainExact ==
  ASSUME NEW pays \in Hash, NEW k \in 0..Len(pays), NEW lines \in Seq(Line),
         Len(lines) = k, \A i \in 1..k : lines[i] = ChainOf(pays)[i]
  PROVE  \A i \in 1..Len(lines) : /\ lines[i].prev = HashOf(lines, i - 1)
                                  /\ lines[i].hash = HashOf(lines, i)
<1>1. pays \in Seq(Payload) /\ Len(pays) \in Nat
  BY DEF Hash
<1>2. ASSUME NEW i \in 1..k
      PROVE  /\ i \in 1..Len(pays)
             /\ lines[i] = [prev |-> SubSeq(pays, 1, i - 1), pay |-> pays[i],
                            hash |-> SubSeq(pays, 1, i)]
  <2>1. i \in 1..Len(pays)
    BY <1>1
  <2>. QED
    BY <2>1 DEF ChainOf
<1>3. ASSUME NEW n \in 0..k PROVE HashOf(lines, n) = SubSeq(pays, 1, n)
  <2>1. /\ SubSeq(pays, 1, n) \in Seq(Payload)
        /\ Len(SubSeq(pays, 1, n)) = n
        /\ \A j \in 1..n : SubSeq(pays, 1, n)[j] = pays[j]
    BY <1>1, SubSeqProperties
  <2>2. SubSeq(pays, 1, n) = [j \in 1..n |-> pays[j]]
    BY <2>1
  <2>3. ASSUME NEW j \in 1..n PROVE lines[j].pay = pays[j]
    <3>1. j \in 1..k
      BY <1>1
    <3>. QED
      BY <1>2, <3>1
  <2>. QED
    BY <2>2, <2>3 DEF HashOf
<1>4. ASSUME NEW i \in 1..k PROVE /\ lines[i].prev = HashOf(lines, i - 1)
                                  /\ lines[i].hash = HashOf(lines, i)
  <2>1. i \in 0..k /\ i - 1 \in 0..k
    BY <1>1
  <2>2. lines[i].prev = SubSeq(pays, 1, i - 1) /\ lines[i].hash = SubSeq(pays, 1, i)
    BY <1>2
  <2>3. HashOf(lines, i - 1) = SubSeq(pays, 1, i - 1) /\ HashOf(lines, i) = SubSeq(pays, 1, i)
    BY <1>3, <2>1
  <2>. QED
    BY <2>2, <2>3
<1>. QED
  BY <1>4

\* ChainOf writes lines of the journal's form.
LEMMA ChainOfType ==
  ASSUME NEW pays \in Hash
  PROVE  ChainOf(pays) \in Seq(Line) /\ Len(ChainOf(pays)) = Len(pays)
<1>1. ASSUME NEW i \in 1..Len(pays)
      PROVE  [prev |-> SubSeq(pays, 1, i - 1), pay |-> pays[i], hash |-> SubSeq(pays, 1, i)] \in Line
  <2>1. SubSeq(pays, 1, i - 1) \in Hash /\ SubSeq(pays, 1, i) \in Hash /\ pays[i] \in Payload
    BY SubSeqProperties, ElementOfSeq DEF Hash
  <2>. QED
    BY <2>1 DEF Line
<1>2. ChainOf(pays) \in [1..Len(pays) -> Line]
  BY <1>1 DEF ChainOf
<1>3. Len(pays) \in Nat
  BY DEF Hash
<1>. QED
  BY <1>2, <1>3

\* The line an appender writes has the journal's form (append_tx).
LEMMA NewLineType ==
  ASSUME TypeOK, NEW p \in Proc, app[p].pc = "write"
  PROVE  NewLine(p) \in Line
<1>1. app[p].pay \in Payload /\ app[p].prev \in Hash
  BY DEF AppendThread, TypeOK
<1>2. HashLine(app[p].prev, app[p].pay) \in Hash
  BY <1>1 DEF HashLine, Hash
<1>. QED
  BY <1>1, <1>2 DEF Line, NewLine

\* What a write that is cut short leaves (append_tx, ensure_journal).
LEMMA CutShortLeaves ==
  ASSUME TypeOK, NEW base \in Seq(Line), NEW lines \in Seq(Line), CutShort(base, lines)
  PROVE  \E k \in 0..Len(lines) :
           /\ journal' = base \o SubSeq(lines, 1, k)
           /\ journal' \in Seq(Line) /\ Len(journal') = Len(base) + k
           /\ \A i \in 1..Len(base) : journal'[i] = base[i]
           /\ \A i \in 1..k : journal'[Len(base) + i] = lines[i]
           /\ unended' = unended \/ (k > 0 /\ unended' = unended \cup {Len(base) + k})
           /\ torn' \in BOOLEAN
<1>1. PICK k \in 0..Len(lines) :
        /\ journal' = base \o SubSeq(lines, 1, k)
        /\ \/ UNCHANGED unended /\ torn' \in {torn, torn \/ k < Len(lines)}
           \/ k > 0 /\ unended' = unended \cup {Len(base) + k} /\ UNCHANGED torn
  BY DEF CutShort
<1>. DEFINE part == SubSeq(lines, 1, k)
<1>2. /\ part \in Seq(Line) /\ Len(part) = k
      /\ \A i \in 1..k : part[i] = lines[i]
  BY SubSeqProperties
<1>. HIDE DEF part
<1>3. /\ base \o part \in Seq(Line) /\ Len(base \o part) = Len(base) + k
      /\ \A i \in 1..Len(base) : (base \o part)[i] = base[i]
      /\ \A i \in 1..k : (base \o part)[Len(base) + i] = part[i]
  <2>1. Len(base) \in Nat /\ k \in Nat
    BY <1>2
  <2>2. /\ base \o part \in Seq(Line) /\ Len(base \o part) = Len(base) + k
        /\ \A i \in 1..(Len(base) + k) :
             (base \o part)[i] = IF i <= Len(base) THEN base[i] ELSE part[i - Len(base)]
    BY <1>2, ConcatProperties
  <2>. QED
    BY <2>1, <2>2
<1>4. journal' = base \o part
  BY <1>1 DEF part
<1>5. torn' \in BOOLEAN
  <2>1. torn \in BOOLEAN
    BY DEF TypeOK
  <2>. QED
    BY <1>1, <2>1
<1>6. unended' = unended \/ (k > 0 /\ unended' = unended \cup {Len(base) + k})
  BY <1>1
<1>. QED
  BY <1>1, <1>2, <1>3, <1>4, <1>5, <1>6

\* A scan that accepts some lines beyond its offset returns the last line's hash,
\* so _validated_last_hash returns the file's end and a hash of payloads.
LEMMA ValidationType ==
  ASSUME TypeOK, NEW p \in Proc, NEW role \in Role, Validation(role, p).ok
  PROVE  /\ ~torn
         /\ Validation(role, p).off = Len(journal)
         /\ Validation(role, p).hit \in BOOLEAN
         /\ Validation(role, p).hash \in Hash
         /\ \/ /\ cache[p] # NoTail
               /\ cache[p].off = Len(journal)
               /\ Validation(role, p).hash = cache[p].hash
            \/ /\ Len(journal) > 0
               /\ Validation(role, p).hash = journal[Len(journal)].hash
            \/ /\ Len(journal) = 0
               /\ Validation(role, p).hash = ZeroHash
<1>0. journal \in Seq(Line)
  BY DEF TypeOK
<1>1. \A i \in 1..Len(journal) : journal[i].hash \in Hash
  <2>1. \A i \in 1..Len(journal) : journal[i] \in Line
    BY <1>0, ElementOfSeq
  <2>. QED
    BY <2>1 DEF Line
<1>2. Len(journal) \in Nat
  BY DEF TypeOK
<1>3. CASE CacheHit(p)
  <2>1. Validation(role, p) = [ok |-> TRUE, hit |-> TRUE, off |-> cache[p].off, hash |-> cache[p].hash]
    BY <1>3 DEF Validation
  <2>2. cache[p] \in CachedTail
    BY <1>3 DEF TypeOK, CacheHit
  <2>. QED
    BY <1>3, <2>1, <2>2 DEF CacheHit, CachedTail
<1>4. ASSUME NEW t \in FileTail \cup {NoTail} \cup CachedTail,
             Resumes(t),
             Validation(role, p) = [ok |-> TRUE, hit |-> FALSE, off |-> Len(journal),
                                    hash |-> ScanHash(t.off, t.hash)]
      PROVE  /\ ~torn /\ Len(journal) > 0
             /\ Validation(role, p).hash = journal[Len(journal)].hash
  <2>1. t # NoTail /\ ~torn /\ t.off < Len(journal) /\ t.off \in Nat
    BY <1>4 DEF Resumes, Outgrown, ScanAccepts, FileTail, CachedTail
  <2>. QED
    BY <1>2, <1>4, <2>1 DEF ScanHash
<1>5. CASE ~CacheHit(p) /\ Resumes(cache[p])
  <2>1. Validation(role, p) = [ok |-> TRUE, hit |-> FALSE, off |-> Len(journal),
                               hash |-> ScanHash(cache[p].off, cache[p].hash)]
    BY <1>5 DEF Validation
  <2>2. cache[p] \in FileTail \cup {NoTail} \cup CachedTail
    BY DEF TypeOK
  <2>. QED
    BY <1>1, <1>2, <1>4, <1>5, <2>1, <2>2
<1>6. CASE ~CacheHit(p) /\ ~Resumes(cache[p]) /\ Resumes(tail[role])
  <2>1. Validation(role, p) = [ok |-> TRUE, hit |-> FALSE, off |-> Len(journal),
                               hash |-> ScanHash(tail[role].off, tail[role].hash)]
    BY <1>6 DEF Validation
  <2>2. tail[role] \in FileTail \cup {NoTail} \cup CachedTail
    BY DEF TypeOK
  <2>. QED
    BY <1>1, <1>2, <1>4, <1>6, <2>1, <2>2
<1>7. CASE ~CacheHit(p) /\ ~Resumes(cache[p]) /\ ~Resumes(tail[role])
  <2>1. Validation(role, p) =
          IF FileIntact THEN [ok |-> TRUE, hit |-> FALSE, off |-> Len(journal),
                              hash |-> ScanHash(0, ZeroHash)]
          ELSE [ok |-> FALSE]
    BY <1>7 DEF Validation
  <2>2. FileIntact
    BY <2>1
  <2>3. /\ ~torn
        /\ Validation(role, p) = [ok |-> TRUE, hit |-> FALSE, off |-> Len(journal),
                                  hash |-> ScanHash(0, ZeroHash)]
    BY <2>1, <2>2 DEF FileIntact, ScanAccepts
  <2>4. ZeroHash \in Hash
    BY DEF ZeroHash, Hash
  <2>. QED
    BY <1>1, <1>2, <2>3, <2>4 DEF ScanHash
<1>. QED
  BY <1>3, <1>5, <1>6, <1>7

-----------------------------------------------------------------------------
(* Type correctness *)

LEMMA TypeInit == Init => TypeOK
<1>. SUFFICES ASSUME Init PROVE TypeOK
  OBVIOUS
<1>1. journal \in Seq(Line)
  <2>1. PICK file \in InitialFiles : journal = IF file = Absent THEN <<>> ELSE ChainOf(file)
    BY DEF Init
  <2>. QED
    BY <2>1, ChainOfType, ParameterAssumption
<1>2. tail \in [Role -> FileTail \cup {NoTail}]
  <2>1. PICK t \in InitialTails : tail = [r \in Role |-> IF r = "append" THEN t ELSE NoTail]
    BY DEF Init
  <2>2. t \in FileTail \cup {NoTail}
    BY ParameterAssumption DEF FileTail
  <2>. QED
    BY <2>1, <2>2
<1>3. IdleAppend \in AppendThread /\ IdleVerify \in VerifyThread
  BY DEF IdleAppend, IdleVerify, AppendThread, VerifyThread
<1>4. /\ app \in [Proc -> AppendThread] /\ ver \in [Proc -> VerifyThread]
      /\ cache \in [Proc -> CachedTail \cup {NoTail}]
  BY <1>3 DEF Init
<1>5. /\ exists \in BOOLEAN /\ torn \in BOOLEAN
      /\ lock \in Proc \cup {Unlocked} /\ acked \subseteq Hash
  BY DEF Init
<1>6. /\ crashes \in Nat /\ tampers \in Nat /\ crashes + tampers <= MaxFaults
      /\ unended \subseteq 1..Len(journal) /\ seedRaced \in BOOLEAN
  <2>1. crashes = 0 /\ tampers = 0 /\ unended = {} /\ seedRaced = FALSE
    BY DEF Init
  <2>2. crashes + tampers <= MaxFaults
    BY <2>1, ParameterAssumption
  <2>. QED
    BY <2>1, <2>2
<1>7. \A p \in Proc : app[p].pc # "fill" /\ ver[p].pc # "fill"
  BY DEF Init, IdleAppend, IdleVerify
<1>. QED
  BY <1>1, <1>2, <1>4, <1>5, <1>6, <1>7 DEF TypeOK

\* What the file and the race flag may be.
FileOK == /\ exists \in BOOLEAN /\ torn \in BOOLEAN /\ seedRaced \in BOOLEAN
          /\ journal \in Seq(Line) /\ unended \subseteq 1..Len(journal)

\* What the two halves of ensure_journal leave in the file is well typed.
LEMMA OpenType ==
  ASSUME TypeOK, NEW role \in Role, OpenJournal(role)
  PROVE  FileOK'
<1>1. seedRaced' \in BOOLEAN
  BY DEF OpenJournal, TypeOK
<1>2. CASE Genesis[role] = Absent
  BY <1>1, <1>2 DEF OpenJournal, TypeOK, FileOK
<1>3. CASE Genesis[role] # Absent
  <2>1. journal' = <<>> /\ unended' = {} /\ torn' = FALSE /\ exists' = TRUE
    BY <1>3 DEF OpenJournal
  <2>2. <<>> \in Seq(Line) /\ {} \subseteq 1..Len(<<>>)
    BY EmptySeq
  <2>. QED
    BY <1>1, <2>1, <2>2 DEF FileOK
<1>. QED
  BY <1>2, <1>3

LEMMA FillType ==
  ASSUME TypeOK, NEW role \in Role, Genesis[role] # Absent, FillJournal(role)
  PROVE  FileOK'
<1>1. Genesis[role] \in Hash
  BY ParameterAssumption
<1>2. seedRaced' \in BOOLEAN
  BY DEF FillJournal
<1>3. exists' = exists
  BY DEF FillJournal
<1>4. CASE UNCHANGED <<journal, unended, torn>>
  BY <1>2, <1>3, <1>4 DEF TypeOK, FileOK
<1>5. CASE journal' = ChainOf(Genesis[role]) /\ unended' = {} /\ torn' \in BOOLEAN
  BY <1>1, <1>2, <1>3, <1>5, ChainOfType DEF TypeOK, FileOK
<1>6. torn' \in (IF Empty THEN {FALSE} ELSE BOOLEAN) => torn' \in BOOLEAN
  OBVIOUS
<1>. QED
  BY <1>4, <1>5, <1>6 DEF FillJournal

\* What a write that is cut short leaves in the file is well typed.
LEMMA CutType ==
  ASSUME TypeOK, NEW p \in Proc, CutWrite(p), exists' = exists
  PROVE  FileOK'
<1>1. CASE /\ app[p].pc = "write"
           /\ CutShort(journal, <<NewLine(p)>>)
           /\ UNCHANGED seedRaced
  <2>1. journal \in Seq(Line) /\ <<NewLine(p)>> \in Seq(Line)
    BY <1>1, NewLineType DEF TypeOK
  <2>. DEFINE one == <<NewLine(p)>>
  <2>. HIDE DEF one
  <2>2. PICK k \in 0..Len(one) :
          /\ journal' \in Seq(Line) /\ Len(journal') = Len(journal) + k
          /\ unended' = unended \/ (k > 0 /\ unended' = unended \cup {Len(journal) + k})
          /\ torn' \in BOOLEAN
    BY <1>1, <2>1, CutShortLeaves DEF one
  <2>3. k \in Nat /\ Len(journal) \in Nat
    BY <2>1, <2>2 DEF one
  <2>4. unended' \subseteq 1..Len(journal')
    <3>1. unended \subseteq 1..Len(journal)
      BY DEF TypeOK
    <3>2. 1..Len(journal) \subseteq 1..Len(journal')
      BY <2>2, <2>3
    <3>3. k > 0 => Len(journal) + k \in 1..Len(journal')
      BY <2>2, <2>3
    <3>. QED
      BY <2>2, <3>1, <3>2, <3>3
  <2>. QED
    BY <1>1, <2>2, <2>4 DEF TypeOK, FileOK
<1>2. ASSUME NEW role \in Role,
             (IF role = "append" THEN app[p].pc ELSE ver[p].pc) = "fill",
             Empty /\ unended = {},
             CutShort(<<>>, ChainOf(Genesis[role])),
             seedRaced' = (seedRaced \/ AboutToWrite)
      PROVE  FileOK'
  <2>1. Genesis[role] \in Hash
    BY <1>2, ParameterAssumption DEF TypeOK, Role
  <2>. DEFINE chain == ChainOf(Genesis[role])
  <2>2. <<>> \in Seq(Line) /\ chain \in Seq(Line) /\ Len(chain) \in Nat
    BY <2>1, ChainOfType DEF Hash
  <2>. HIDE DEF chain
  <2>3. PICK k \in 0..Len(chain) :
          /\ journal' \in Seq(Line) /\ Len(journal') = Len(<<>>) + k
          /\ unended' = unended \/ (k > 0 /\ unended' = unended \cup {Len(<<>>) + k})
          /\ torn' \in BOOLEAN
    BY <1>2, <2>2, CutShortLeaves DEF chain
  <2>4. unended' \subseteq 1..Len(journal')
    BY <1>2, <2>2, <2>3
  <2>5. seedRaced' \in BOOLEAN
    BY <1>2
  <2>. QED
    BY <2>3, <2>4, <2>5 DEF TypeOK, FileOK
<1>. QED
  BY <1>1, <1>2 DEF CutWrite

LEMMA TypeStep == TypeOK /\ [Next]_vars => TypeOK'
<1>. SUFFICES ASSUME TypeOK, [Next]_vars PROVE TypeOK'
  OBVIOUS
<1>. USE DEF TypeOK
<1>0. Content \in Seq(Line) \X (SUBSET Nat) \X BOOLEAN
  <2>1. Len(journal) \in Nat /\ unended \subseteq Nat
    OBVIOUS
  <2>. QED
    BY <2>1 DEF Content
<1>1. ASSUME NEW p \in Proc, BeginAppend(p) PROVE TypeOK'
  BY <1>1 DEF BeginAppend, AppendThread, fileVars
<1>2. ASSUME NEW p \in Proc, AppendSeed(p) PROVE TypeOK'
  <2>1. ASSUME NEW l \in {"lock", "fill"}, app[p].pc \in {"seed", "fill"},
               app' = [app EXCEPT ![p].pc = l], l = "fill" => Genesis["append"] # Absent
        PROVE  /\ app' \in [Proc -> AppendThread]
               /\ \A q \in Proc : app'[q].pc = "fill" => Genesis["append"] # Absent
    <3>1. [app[p] EXCEPT !.pc = l] \in AppendThread /\ [app[p] EXCEPT !.pc = l].pc = l
      BY <2>1 DEF AppendThread
    <3>. QED
      BY <2>1, <3>1
  <2>2. CASE app[p].pc = "seed" /\ OpenJournal("append")
             /\ app' = [app EXCEPT ![p].pc = AfterOpen("append", "lock")]
    <3>1. FileOK'
      BY <2>2, OpenType DEF Role
    <3>. QED
      BY <1>2, <2>1, <2>2, <3>1 DEF AppendSeed, AfterOpen, FileOK
  <2>3. CASE app[p].pc = "fill" /\ FillJournal("append")
             /\ app' = [app EXCEPT ![p].pc = "lock"]
    <3>1. FileOK'
      BY <2>3, FillType DEF Role
    <3>. QED
      BY <1>2, <2>1, <2>3, <3>1 DEF AppendSeed, FileOK
  <2>. QED
    BY <1>2, <2>2, <2>3 DEF AppendSeed
<1>3. ASSUME NEW p \in Proc, AcquireLock(p) PROVE TypeOK'
  <2>1. [app[p] EXCEPT !.pc = "validate"] \in AppendThread
    BY <1>3 DEF AcquireLock, AppendThread
  <2>2. app' \in [Proc -> AppendThread]
    BY <1>3, <2>1 DEF AcquireLock
  <2>. QED
    BY <1>3, <2>2 DEF AcquireLock, fileVars
<1>4. ASSUME NEW p \in Proc, ValidateTail(p) PROVE TypeOK'
  <2>. DEFINE v == Validation("append", p)
  <2>1. v.hash \in Hash /\ v.off \in Nat
    BY <1>4, ValidationType DEF ValidateTail, Role
  <2>2. CacheEntry(v.hash, v.off) \in CachedTail
    BY <1>0, <2>1 DEF CacheEntry, CachedTail
  <2>3. [hash |-> v.hash, off |-> v.off] \in FileTail
    BY <2>1 DEF FileTail
  <2>4. app[p].pay \in Payload
    BY <1>4 DEF ValidateTail, AppendThread
  <2>5. [pc |-> "write", pay |-> app[p].pay, prev |-> v.hash, off |-> v.off] \in AppendThread
    BY <2>1, <2>4 DEF AppendThread
  <2>. HIDE DEF v
  <2>. QED
    BY <1>4, <2>2, <2>3, <2>5 DEF ValidateTail, fileVars, v
<1>5. ASSUME NEW p \in Proc, AppendRaises(p) PROVE TypeOK'
  <2>1. CacheAfterError("append", p) \in CachedTail \cup {NoTail}
    BY DEF CacheAfterError
  <2>. QED
    BY <1>5, <2>1 DEF AppendRaises, IdleAppend, AppendThread, fileVars
<1>6. ASSUME NEW p \in Proc, WriteLine(p) PROVE TypeOK'
  <2>1. journal' = Append(journal, NewLine(p)) /\ NewLine(p) \in Line
    BY <1>6, NewLineType DEF WriteLine
  <2>2. journal' \in Seq(Line) /\ Len(journal') = Len(journal) + 1 /\ Len(journal) \in Nat
    BY <2>1
  <2>3. unended' \subseteq 1..Len(journal')
    BY <1>6, <2>2 DEF WriteLine
  <2>4. [app[p] EXCEPT !.pc = "record"] \in AppendThread
    BY <1>6 DEF WriteLine, AppendThread
  <2>5. app' \in [Proc -> AppendThread] /\ \A q \in Proc : app'[q].pc = "fill" => app[q].pc = "fill"
    BY <1>6, <2>4 DEF WriteLine
  <2>. QED
    BY <1>6, <2>2, <2>3, <2>5 DEF WriteLine
<1>7. ASSUME NEW p \in Proc, RecordTail(p) PROVE TypeOK'
  <2>. DEFINE hash == HashLine(app[p].prev, app[p].pay)
              off == app[p].off + 1
  <2>1. app[p].pay \in Payload /\ app[p].prev \in Hash /\ app[p].off \in Nat
    BY <1>7 DEF RecordTail, AppendThread
  <2>2. hash \in Hash /\ off \in Nat
    BY <2>1 DEF HashLine, Hash
  <2>3. CacheEntry(hash, off) \in CachedTail
    BY <1>0, <2>2 DEF CacheEntry, CachedTail
  <2>4. [hash |-> hash, off |-> off] \in FileTail
    BY <2>2 DEF FileTail
  <2>. QED
    BY <1>7, <2>2, <2>3, <2>4 DEF RecordTail, IdleAppend, AppendThread, fileVars
<1>8. ASSUME NEW p \in Proc, BeginVerify(p) PROVE TypeOK'
  BY <1>8 DEF BeginVerify, VerifyThread, fileVars
<1>9. ASSUME NEW p \in Proc, VerifySeed(p) PROVE TypeOK'
  <2>1. ASSUME NEW l \in {"scan", "fill"}, ver[p].pc \in {"seed", "fill"},
               ver' = [ver EXCEPT ![p].pc = l], l = "fill" => Genesis["verify"] # Absent
        PROVE  /\ ver' \in [Proc -> VerifyThread]
               /\ \A q \in Proc : ver'[q].pc = "fill" => Genesis["verify"] # Absent
    <3>1. [ver[p] EXCEPT !.pc = l] \in VerifyThread /\ [ver[p] EXCEPT !.pc = l].pc = l
      BY <2>1 DEF VerifyThread
    <3>. QED
      BY <2>1, <3>1
  <2>2. CASE ver[p].pc = "seed" /\ OpenJournal("verify")
             /\ ver' = [ver EXCEPT ![p].pc = AfterOpen("verify", "scan")]
    <3>1. FileOK'
      BY <2>2, OpenType DEF Role
    <3>. QED
      BY <1>9, <2>1, <2>2, <3>1 DEF VerifySeed, AfterOpen, FileOK
  <2>3. CASE ver[p].pc = "fill" /\ FillJournal("verify")
             /\ ver' = [ver EXCEPT ![p].pc = "scan"]
    <3>1. FileOK'
      BY <2>3, FillType DEF Role
    <3>. QED
      BY <1>9, <2>1, <2>3, <3>1 DEF VerifySeed, FileOK
  <2>. QED
    BY <1>9, <2>2, <2>3 DEF VerifySeed
<1>10. ASSUME NEW p \in Proc, VerifyScan(p) PROVE TypeOK'
  <2>. DEFINE v == Validation("verify", p)
  <2>1. v.hash \in Hash /\ v.off \in Nat /\ v.hit \in BOOLEAN
    BY <1>10, ValidationType DEF VerifyScan, Role
  <2>2. [pc |-> "record", hit |-> v.hit, hash |-> v.hash, off |-> v.off] \in VerifyThread
    BY <2>1 DEF VerifyThread
  <2>. QED
    BY <1>10, <2>2 DEF VerifyScan, fileVars
<1>11. ASSUME NEW p \in Proc, VerifyRaises(p) PROVE TypeOK'
  <2>1. CacheAfterError("verify", p) \in CachedTail \cup {NoTail}
    BY DEF CacheAfterError
  <2>. QED
    BY <1>11, <2>1 DEF VerifyRaises, IdleVerify, VerifyThread, fileVars
<1>12. ASSUME NEW p \in Proc, VerifyRecord(p) PROVE TypeOK'
  <2>1. ver[p].hash \in Hash /\ ver[p].off \in Nat
    BY <1>12 DEF VerifyRecord, VerifyThread
  <2>2. CacheEntry(ver[p].hash, ver[p].off) \in CachedTail
    BY <1>0, <2>1 DEF CacheEntry, CachedTail
  <2>3. [hash |-> ver[p].hash, off |-> ver[p].off] \in FileTail
    BY <2>1 DEF FileTail
  <2>. QED
    BY <1>12, <2>2, <2>3 DEF VerifyRecord, IdleVerify, VerifyThread, fileVars
<1>13. ASSUME NEW p \in Proc, InvalidateCache(p) PROVE TypeOK'
  BY <1>13 DEF InvalidateCache, fileVars
<1>14. ASSUME NEW p \in Proc, Crash(p) PROVE TypeOK'
  <2>1. IdleAppend \in AppendThread /\ IdleVerify \in VerifyThread
    BY DEF IdleAppend, IdleVerify, AppendThread, VerifyThread
  <2>2. /\ crashes' \in Nat /\ tampers' \in Nat /\ crashes' + tampers' <= MaxFaults
    BY <1>14, ParameterAssumption DEF Crash
  <2>3. FileOK'
    <3>1. CASE CutWrite(p)
      BY <1>14, <3>1, CutType DEF Crash
    <3>2. CASE UNCHANGED <<journal, unended, torn, seedRaced>>
      BY <1>14, <3>2 DEF Crash, FileOK
    <3>. QED
      BY <1>14, <3>1, <3>2 DEF Crash
  <2>4. /\ app' \in [Proc -> AppendThread] /\ ver' \in [Proc -> VerifyThread]
        /\ cache' \in [Proc -> CachedTail \cup {NoTail}]
        /\ lock' \in Proc \cup {Unlocked}
    BY <1>14, <2>1 DEF Crash
  <2>5. \A q \in Proc : /\ app'[q].pc = "fill" => app[q].pc = "fill"
                        /\ ver'[q].pc = "fill" => ver[q].pc = "fill"
    BY <1>14 DEF Crash, IdleAppend, IdleVerify
  <2>. QED
    BY <1>14, <2>2, <2>3, <2>4, <2>5 DEF Crash, FileOK
<1>15. ASSUME Tamper PROVE TypeOK'
  <2>1. PICK i \in DOMAIN journal, pay \in Payload : journal' = [journal EXCEPT ![i].pay = pay]
    BY <1>15 DEF Tamper
  <2>2. [journal[i] EXCEPT !.pay = pay] \in Line
    <3>1. journal[i] \in Line
      BY ElementOfSeq
    <3>. QED
      BY <3>1 DEF Line
  <2>3. journal' \in Seq(Line) /\ Len(journal') = Len(journal)
    BY <2>1, <2>2, ExceptSeq
  <2>. QED
    BY <1>15, <2>3, ParameterAssumption DEF Tamper
<1>16. ASSUME UNCHANGED vars PROVE TypeOK'
  BY <1>16 DEF vars, fileVars
<1>. QED
  BY <1>1, <1>2, <1>3, <1>4, <1>5, <1>6, <1>7, <1>8, <1>9, <1>10, <1>11, <1>12, <1>13,
     <1>14, <1>15, <1>16 DEF Next, AppendStep, VerifyStep

\* Every state has its type, for any number of crashes, edits and racing seeds.
THEOREM TypeCorrect == Spec => []TypeOK
<1>. QED
  BY TypeInit, TypeStep, PTL DEF Spec

-----------------------------------------------------------------------------
(* The lock, and what holds as long as the journal is calm *)

\* The append lock always excludes (_journal_append_lock).
LEMMA LockInit == Init => LockHeld
<1>. QED
  BY NameAssumption DEF Init, LockHeld, IdleAppend

LEMMA LockStep ==
  ASSUME TypeOK, LockHeld, [Next]_vars
  PROVE  LockHeld'
<1>0. app \in [Proc -> AppendThread]
  BY DEF TypeOK
<1>1. ASSUME NEW p \in Proc, lock' = lock, app[p].pc \in {"idle", "seed", "fill", "lock"},
             app'[p].pc \in {"idle", "seed", "fill", "lock"},
             \A q \in Proc : q # p => app'[q] = app[q]
      PROVE  LockHeld'
  BY <1>1 DEF LockHeld
<1>2. ASSUME NEW p \in Proc, BeginAppend(p) PROVE LockHeld'
  BY <1>0, <1>1, <1>2 DEF BeginAppend
<1>3. ASSUME NEW p \in Proc, AppendSeed(p) PROVE LockHeld'
  <2>1. app[p].pc \in {"seed", "fill"} /\ lock' = lock
    BY <1>3 DEF AppendSeed
  <2>2. \E l \in {"fill", "lock"} : app' = [app EXCEPT ![p].pc = l]
    BY <1>3 DEF AppendSeed, AfterOpen
  <2>3. app'[p].pc \in {"fill", "lock"} /\ \A q \in Proc : q # p => app'[q] = app[q]
    BY <1>0, <2>2 DEF AppendThread
  <2>. QED
    BY <1>1, <2>1, <2>3
<1>4. ASSUME NEW p \in Proc, AcquireLock(p) PROVE LockHeld'
  <2>1. /\ \A q \in Proc : q # p => app'[q] = app[q]
        /\ app'[p].pc = "validate" /\ lock = Unlocked /\ lock' = p
    BY <1>0, <1>4 DEF AcquireLock, AppendThread
  <2>. QED
    BY <2>1, NameAssumption DEF LockHeld
<1>5. ASSUME NEW p \in Proc, ValidateTail(p) \/ WriteLine(p) PROVE LockHeld'
  <2>1. /\ \A q \in Proc : q # p => app'[q] = app[q]
        /\ app[p].pc \in {"validate", "write"} /\ app'[p].pc \in {"write", "record"}
        /\ lock' = lock
    BY <1>0, <1>5 DEF ValidateTail, WriteLine, AppendThread
  <2>. QED
    BY <2>1 DEF LockHeld
<1>6. ASSUME NEW p \in Proc, AppendRaises(p) \/ RecordTail(p) PROVE LockHeld'
  <2>1. /\ \A q \in Proc : q # p => app'[q] = app[q]
        /\ app[p].pc \in {"validate", "record"} /\ app'[p].pc = "idle"
        /\ lock' = Unlocked
    BY <1>0, <1>6 DEF AppendRaises, RecordTail, IdleAppend
  <2>. QED
    BY <2>1, NameAssumption DEF LockHeld
<1>7. ASSUME NEW p \in Proc, Crash(p) PROVE LockHeld'
  <2>1. /\ \A q \in Proc : q # p => app'[q] = app[q]
        /\ app'[p].pc = "idle"
        /\ lock' = IF lock = p THEN Unlocked ELSE lock
    BY <1>0, <1>7 DEF Crash, IdleAppend
  <2>. QED
    BY <2>1, NameAssumption DEF LockHeld
<1>8. ASSUME UNCHANGED <<lock, app>> PROVE LockHeld'
  BY <1>8 DEF LockHeld
<1>9. ASSUME \/ \E p \in Proc : \/ BeginVerify(p) \/ VerifySeed(p) \/ VerifyScan(p)
                                \/ VerifyRaises(p) \/ VerifyRecord(p) \/ InvalidateCache(p)
             \/ Tamper \/ UNCHANGED vars
      PROVE  UNCHANGED <<lock, app>>
  BY <1>9 DEF BeginVerify, VerifySeed, VerifyScan, VerifyRaises, VerifyRecord, InvalidateCache,
              Tamper, vars
<1>. QED
  BY <1>2, <1>3, <1>4, <1>5, <1>6, <1>7, <1>8, <1>9 DEF Next, AppendStep, VerifyStep

\* Lines that carry the hashes of their prefixes are linked from genesis (_scan_chain).
LEMMA ExactIsLinked ==
  ASSUME TypeOK, LinesExact
  PROVE  LinesLinked(0, ZeroHash)
<1>1. journal \in Seq(Line) /\ Len(journal) \in Nat
  BY DEF TypeOK
<1>2. \A i \in 1..Len(journal) : journal[i].pay \in Payload
  <2>1. \A i \in 1..Len(journal) : journal[i] \in Line
    BY <1>1, ElementOfSeq
  <2>. QED
    BY <2>1 DEF Line
<1>3. HashAt(0) = ZeroHash
  BY <1>1, HashOfType DEF HashAt, Hash, ZeroHash
<1>4. ASSUME NEW i \in 1..Len(journal)
      PROVE  HashAt(i) = HashLine(HashAt(i - 1), journal[i].pay)
  <2>. DEFINE f == HashAt(i - 1)
  <2>1. f \in Seq(Payload) /\ Len(f) = i - 1
    <3>1. i - 1 \in 0..Len(journal)
      BY <1>1
    <3>. QED
      BY <1>1, <3>1, HashOfType DEF HashAt, Hash
  <2>2. /\ Append(f, journal[i].pay) \in Seq(Payload)
        /\ Len(Append(f, journal[i].pay)) = i
        /\ \A k \in 1..(i - 1) : Append(f, journal[i].pay)[k] = journal[k].pay
        /\ Append(f, journal[i].pay)[i] = journal[i].pay
    BY <1>1, <1>2, <2>1 DEF HashAt, HashOf
  <2>3. Append(f, journal[i].pay) = [k \in 1..i |-> journal[k].pay]
    BY <2>2
  <2>. QED
    BY <2>3 DEF HashAt, HashOf, HashLine
<1>. QED
  BY <1>1, <1>3, <1>4 DEF LinesLinked, LinesExact

\* Whatever it starts from, a validation that succeeds returns the hash of the file.
LEMMA ValidationSound ==
  ASSUME TypeOK, LinesExact, RememberedPrefixes,
         NEW p \in Proc, NEW role \in Role, Validation(role, p).ok
  PROVE  /\ Validation(role, p).off = Len(journal)
         /\ Validation(role, p).hash = HashAt(Len(journal))
         /\ ~torn
<1>1. Len(journal) \in Nat /\ journal \in Seq(Line)
  BY DEF TypeOK
<1>2. HashAt(0) = ZeroHash
  BY <1>1, HashOfType DEF HashAt, Hash, ZeroHash
<1>. QED
  BY <1>1, <1>2, ValidationType DEF RememberedPrefixes, DenotesPrefix, LinesExact

LEMMA CalmInit == Init => CalmInv
<1>. SUFFICES ASSUME Init PROVE CalmInv
  OBVIOUS
<1>1. LinesExact
  <2>1. PICK file \in InitialFiles : journal = IF file = Absent THEN <<>> ELSE ChainOf(file)
    BY DEF Init
  <2>2. CASE file = Absent
    BY <2>1, <2>2 DEF LinesExact
  <2>3. CASE file # Absent
    <3>1. file \in Hash /\ journal = ChainOf(file) /\ Len(file) \in Nat
      BY <2>1, <2>3, ParameterAssumption DEF Hash
    <3>2. journal \in Seq(Line) /\ Len(journal) = Len(file) /\ Len(file) \in 0..Len(file)
      BY <3>1, ChainOfType
    <3>3. \A i \in 1..Len(file) : journal[i] = ChainOf(file)[i]
      BY <3>1
    <3>4. \A i \in 1..Len(journal) : /\ journal[i].prev = HashOf(journal, i - 1)
                                     /\ journal[i].hash = HashOf(journal, i)
      BY <3>1, <3>2, <3>3, ChainExact
    <3>. QED
      BY <3>4 DEF LinesExact, HashAt
  <2>. QED
    BY <2>2, <2>3
<1>2. Cardinality(unended) <= crashes
  <2>1. unended = {} /\ crashes = 0
    BY DEF Init
  <2>. QED
    BY <2>1, FS_EmptySet
<1>3. ChainsFromTail /\ UnrecordedIsLast /\ RememberedPrefixes /\ AckedPermanent
  BY ParameterAssumption
  DEF Init, ChainsFromTail, UnrecordedIsLast, RememberedPrefixes, AckedPermanent, IdleAppend, IdleVerify
<1>. QED
  BY <1>1, <1>2, <1>3 DEF CalmInv

\* A journal that is calm has been so all along.
LEMMA CalmBefore ==
  ASSUME TypeOK, [Next]_vars, Calm'
  PROVE  Calm /\ ~Tamper
<1>1. tampers' = tampers \/ tampers' = tampers + 1
  BY DEF Next, AppendStep, VerifyStep, BeginAppend, AppendSeed, AcquireLock, ValidateTail,
         AppendRaises, WriteLine, RecordTail, BeginVerify, VerifySeed, VerifyScan, VerifyRaises,
         VerifyRecord, InvalidateCache, Crash, Tamper, vars
<1>2. seedRaced => seedRaced'
  <2>1. ASSUME NEW role \in Role, OpenJournal(role) \/ FillJournal(role) PROVE seedRaced => seedRaced'
    BY <2>1 DEF OpenJournal, FillJournal
  <2>2. ASSUME NEW p \in Proc, CutWrite(p) PROVE seedRaced => seedRaced'
    BY <2>2 DEF CutWrite
  <2>. QED
    BY <2>1, <2>2
    DEF Next, AppendStep, VerifyStep, BeginAppend, AppendSeed, AcquireLock, ValidateTail,
        AppendRaises, WriteLine, RecordTail, BeginVerify, VerifySeed, VerifyScan, VerifyRaises,
        VerifyRecord, InvalidateCache, Crash, Tamper, vars, Role
<1>3. tampers \in Nat
  BY DEF TypeOK
<1>. QED
  BY <1>1, <1>2, <1>3 DEF Calm, Tamper

\* Only so many lines are there to lack a newline.
LEMMA UnendedFinite ==
  ASSUME TypeOK
  PROVE  IsFiniteSet(unended) /\ Cardinality(unended) \in Nat
<1>1. unended \in SUBSET (1..Len(journal)) /\ Len(journal) \in Nat
  BY DEF TypeOK
<1>2. IsFiniteSet(1..Len(journal))
  BY <1>1, FS_Interval
<1>3. IsFiniteSet(unended)
  BY <1>1, <1>2, FS_Subset
<1>. QED
  BY <1>3, FS_CardinalityType

\* What a step keeps when it leaves the stored lines alone and starts no write, no
\* record and no new memory of a tail.
LEMMA Preserved ==
  ASSUME TypeOK, CalmInv, UNCHANGED <<journal, unended, acked>>,
         crashes' \in Nat, crashes <= crashes'
  PROVE  /\ \A n : HashAt(n)' = HashAt(n)
         /\ LinesExact' /\ AckedPermanent' /\ Cardinality(unended)' <= crashes'
         /\ torn' = torn /\ (\A q \in Proc : app'[q].pc = "write" => app'[q] = app[q])
              => ChainsFromTail'
         /\ (\A q \in Proc : app'[q].pc = "record" => app'[q] = app[q])
              => UnrecordedIsLast'
         /\ ( /\ tail' = tail
              /\ \A q \in Proc : cache'[q] \in {cache[q], NoTail}
              /\ \A q \in Proc : ver'[q].pc = "record" => ver'[q] = ver[q])
            => RememberedPrefixes'
<1>. USE DEF CalmInv
<1>1. \A n : HashAt(n)' = HashAt(n)
  BY DEF HashAt
<1>2. LinesExact' /\ AckedPermanent'
  BY <1>1 DEF LinesExact, AckedPermanent
<1>3. Cardinality(unended)' <= crashes'
  <2>2. Cardinality(unended) \in Nat /\ crashes \in Nat
    BY UnendedFinite DEF TypeOK
  <2>3. Cardinality(unended)' = Cardinality(unended)
    OBVIOUS
  <2>. QED
    BY <2>2, <2>3
<1>4. torn' = torn /\ (\A q \in Proc : app'[q].pc = "write" => app'[q] = app[q])
        => ChainsFromTail'
  BY <1>1 DEF ChainsFromTail
<1>5. (\A q \in Proc : app'[q].pc = "record" => app'[q] = app[q]) => UnrecordedIsLast'
  BY <1>1 DEF UnrecordedIsLast
<1>6. ASSUME tail' = tail,
             \A q \in Proc : cache'[q] \in {cache[q], NoTail},
             \A q \in Proc : ver'[q].pc = "record" => ver'[q] = ver[q]
      PROVE  RememberedPrefixes'
  BY <1>1, <1>6 DEF RememberedPrefixes, DenotesPrefix
<1>. QED
  BY <1>1, <1>2, <1>3, <1>4, <1>5, <1>6

\* A memory of the whole file is a sound memory, and displaces one of the others.
LEMMA Remembers ==
  ASSUME TypeOK, CalmInv, journal' = journal, NEW p \in Proc,
         NEW hash, NEW off, off <= Len(journal), hash = HashAt(off),
         cache' = [cache EXCEPT ![p] = CacheEntry(hash, off)],
         \A q \in Proc : ver'[q].pc = "record" => ver'[q] = ver[q],
         NEW role \in Role,
         tail' \in {tail, [tail EXCEPT ![role] = [hash |-> hash, off |-> off]]}
  PROVE  RememberedPrefixes'
<1>1. \A n : HashAt(n)' = HashAt(n)
  BY DEF HashAt
<1>2. /\ \A q \in Proc : q # p => cache'[q] = cache[q]
      /\ cache'[p].hash = hash /\ cache'[p].off = off
  BY DEF TypeOK, CacheEntry
<1>3. \A r \in Role : tail'[r] = tail[r] \/ (tail'[r].hash = hash /\ tail'[r].off = off)
  BY DEF TypeOK
<1>. QED
  BY <1>1, <1>2, <1>3 DEF CalmInv, RememberedPrefixes, DenotesPrefix

\* Opening a journal that is empty leaves it as it is (ensure_journal).
LEMMA OpenedCalmly ==
  ASSUME TypeOK, NEW role \in Role, OpenJournal(role), ~seedRaced'
  PROVE  UNCHANGED <<journal, unended, torn>>
<1>1. CASE Genesis[role] = Absent
  BY <1>1 DEF OpenJournal
<1>2. CASE Genesis[role] # Absent
  <2>1. journal' = <<>> /\ unended' = {} /\ torn' = FALSE /\ Empty
    BY <1>2 DEF OpenJournal
  <2>2. unended = {} /\ torn = FALSE /\ journal = <<>>
    BY <2>1 DEF TypeOK, Empty
  <2>. QED
    BY <2>1, <2>2
<1>. QED
  BY <1>1, <1>2

\* A seed that meets nobody writes a chain into an empty file, or what is there already
\* (ensure_journal).
LEMMA FilledCalmly ==
  ASSUME TypeOK, TypeOK', NEW role \in Role, Genesis[role] # Absent, FillJournal(role), ~seedRaced'
  PROVE  \/ UNCHANGED <<journal, unended, torn>>
         \/ Empty /\ ~AboutToWrite /\ LinesExact' /\ unended' = {}
<1>1. CASE UNCHANGED <<journal, unended, torn>>
  BY <1>1
<1>2. CASE /\ journal' = ChainOf(Genesis[role]) /\ unended' = {}
           /\ Empty /\ ~AboutToWrite
  <2>1. Genesis[role] \in Hash /\ Len(Genesis[role]) \in Nat
    BY ParameterAssumption DEF Hash
  <2>2. journal' \in Seq(Line) /\ Len(journal') = Len(Genesis[role])
    BY <1>2, <2>1, ChainOfType
  <2>3. \A i \in 1..Len(Genesis[role]) : journal'[i] = ChainOf(Genesis[role])[i]
    BY <1>2
  <2>4. Len(Genesis[role]) \in 0..Len(Genesis[role])
    BY <2>1
  <2>5. \A i \in 1..Len(journal') : /\ journal'[i].prev = HashOf(journal', i - 1)
                                    /\ journal'[i].hash = HashOf(journal', i)
    BY <2>1, <2>2, <2>3, <2>4, ChainExact
  <2>. QED
    BY <1>2, <2>5 DEF LinesExact, HashAt
<1>. QED
  BY <1>1, <1>2 DEF FillJournal

\* When a chain is written into an empty file that nobody is about to write to, no
\* memory of the file is belied.
LEMMA Filled ==
  ASSUME TypeOK, TypeOK', CalmInv, Empty, ~AboutToWrite, LinesExact',
         UNCHANGED <<tail, acked>>,
         \A q \in Proc : cache'[q] \in {cache[q], NoTail},
         \A q \in Proc : ver'[q].pc = "record" => ver'[q] = ver[q],
         \A q \in Proc : app'[q].pc \in {"write", "record"} => app'[q] = app[q],
         Cardinality(unended)' <= crashes'
  PROVE  CalmInv'
<1>1. Len(journal) = 0 /\ journal \in Seq(Line) /\ journal' \in Seq(Line) /\ Len(journal') \in Nat
  BY DEF Empty, TypeOK
<1>2. HashAt(0)' = HashAt(0)
  BY DEF HashAt, HashOf
<1>3. ChainsFromTail'
  BY DEF ChainsFromTail, AboutToWrite
<1>4. UnrecordedIsLast'
  <2>1. ASSUME NEW q \in Proc, app'[q].pc = "record" PROVE FALSE
    <3>1. app[q].pc = "record" /\ app[q].off \in Nat
      BY <2>1 DEF TypeOK, AppendThread
    <3>2. Len(journal) = app[q].off + 1
      BY <3>1 DEF CalmInv, UnrecordedIsLast
    <3>. QED
      BY <1>1, <3>1, <3>2
  <2>. QED
    BY <2>1 DEF UnrecordedIsLast
<1>6. /\ \A q \in Proc : cache[q] # NoTail => cache[q].off \in Nat
      /\ \A q \in Proc : ver[q].pc = "record" => ver[q].off \in Nat
      /\ \A r \in Role : tail[r] # NoTail => tail[r].off \in Nat
  BY DEF TypeOK, CachedTail, VerifyThread, FileTail
<1>7. RememberedPrefixes'
  <2>1. ASSUME NEW q \in Proc, cache'[q] # NoTail PROVE DenotesPrefix(cache[q])'
    <3>1. cache'[q] = cache[q] /\ DenotesPrefix(cache[q]) /\ cache[q].off \in Nat
      BY <1>6, <2>1 DEF CalmInv, RememberedPrefixes
    <3>2. /\ cache[q].off = 0 /\ cache[q].hash = HashAt(0)
      BY <1>1, <3>1 DEF DenotesPrefix
    <3>. QED
      BY <1>1, <1>2, <3>1, <3>2 DEF DenotesPrefix
  <2>2. ASSUME NEW q \in Proc, ver'[q].pc = "record" PROVE DenotesPrefix(ver[q])'
    <3>1. ver'[q] = ver[q] /\ DenotesPrefix(ver[q]) /\ ver[q].off \in Nat
      BY <1>6, <2>2 DEF CalmInv, RememberedPrefixes
    <3>2. /\ ver[q].off = 0 /\ ver[q].hash = HashAt(0)
      BY <1>1, <3>1 DEF DenotesPrefix
    <3>. QED
      BY <1>1, <1>2, <3>1, <3>2 DEF DenotesPrefix
  <2>3. ASSUME NEW r \in Role, tail'[r] # NoTail, tail'[r].hash # Foreign PROVE DenotesPrefix(tail[r])'
    <3>1. tail'[r] = tail[r] /\ DenotesPrefix(tail[r]) /\ tail[r].off \in Nat
      BY <1>6, <2>3 DEF CalmInv, RememberedPrefixes
    <3>2. /\ tail[r].off = 0 /\ tail[r].hash = HashAt(0)
      BY <1>1, <3>1 DEF DenotesPrefix
    <3>. QED
      BY <1>1, <1>2, <3>1, <3>2 DEF DenotesPrefix
  <2>. QED
    BY <2>1, <2>2, <2>3 DEF RememberedPrefixes
<1>8. AckedPermanent'
  <2>1. ASSUME NEW h \in acked PROVE Len(h) = 0 /\ h = HashAt(0)
    <3>1. Len(h) \in Nat
      BY DEF TypeOK, Hash
    <3>. QED
      BY <1>1, <3>1 DEF CalmInv, AckedPermanent
  <2>. QED
    BY <1>1, <1>2, <2>1 DEF AckedPermanent
<1>. QED
  BY <1>3, <1>4, <1>7, <1>8 DEF CalmInv

\* A line written behind the tail of the file: what is stored grows by it, and no memory
\* of the file is belied (append_tx).
LEMMA Grown ==
  ASSUME TypeOK, TypeOK', CalmInv, NEW p \in Proc, app[p].pc = "write",
         journal' = Append(journal, NewLine(p)),
         UNCHANGED <<tail, acked>>,
         \A q \in Proc : cache'[q] \in {cache[q], NoTail},
         \A q \in Proc : ver'[q].pc = "record" => ver'[q] = ver[q]
  PROVE  /\ app[p].off = Len(journal) /\ Len(journal') = Len(journal) + 1
         /\ HashLine(app[p].prev, app[p].pay) = HashOf(journal', Len(journal) + 1)
         /\ LinesExact' /\ RememberedPrefixes' /\ AckedPermanent'
<1>. DEFINE line == NewLine(p)
            n == Len(journal)
<1>1. n \in Nat /\ journal \in Seq(Line)
  BY DEF TypeOK
<1>2. app[p].prev = HashAt(n) /\ app[p].off = n
  BY DEF CalmInv, ChainsFromTail
<1>3. /\ line.prev = app[p].prev /\ line.pay = app[p].pay
      /\ line.hash = HashLine(app[p].prev, app[p].pay)
  BY DEF NewLine
<1>4. /\ Len(journal') = n + 1
      /\ \A i \in 1..n : journal'[i] = journal[i]
      /\ journal'[n + 1] = line
      /\ \A k \in 0..n : HashOf(journal', k) = HashOf(journal, k)
      /\ HashOf(journal', n + 1) = HashLine(HashOf(journal, n), line.pay)
  <2>1. /\ journal \in Seq(Line) /\ line \in Line
        /\ journal' \in Seq(Line) /\ journal' = Append(journal, line)
    BY NewLineType DEF TypeOK
  <2>. HIDE DEF line
  <2>. QED
    BY ONLY <2>1, HashOfAppend
<1>. HIDE DEF line
<1>5. \A k \in 0..n : HashAt(k)' = HashAt(k)
  BY <1>4 DEF HashAt
<1>6. HashLine(app[p].prev, app[p].pay) = HashOf(journal', n + 1)
  BY <1>2, <1>3, <1>4 DEF HashAt
<1>7. LinesExact'
  <2>1. ASSUME NEW i \in 1..Len(journal')
        PROVE  /\ journal'[i].prev = HashOf(journal', i - 1)
               /\ journal'[i].hash = HashOf(journal', i)
    <3>1. CASE i \in 1..n
      BY <1>1, <1>4, <3>1 DEF CalmInv, LinesExact, HashAt
    <3>2. CASE i = n + 1
      BY <1>1, <1>2, <1>3, <1>4, <1>6, <3>2 DEF HashAt
    <3>. QED
      BY <1>1, <1>4, <3>1, <3>2
  <2>. QED
    BY <2>1 DEF LinesExact, HashAt
<1>8. RememberedPrefixes'
  <2>1. \A q \in Proc : cache[q] # NoTail => cache[q].off \in Nat
    BY DEF TypeOK, CachedTail
  <2>2. \A q \in Proc : ver[q].pc = "record" => ver[q].off \in Nat
    BY DEF TypeOK, VerifyThread
  <2>3. \A r \in Role : tail[r] # NoTail => tail[r].off \in Nat
    BY DEF TypeOK, FileTail
  <2>. QED
    BY <1>1, <1>4, <1>5, <2>1, <2>2, <2>3 DEF CalmInv, RememberedPrefixes, DenotesPrefix
<1>9. AckedPermanent'
  <2>1. \A h \in acked : Len(h) \in Nat
    BY DEF TypeOK, Hash
  <2>. QED
    BY <1>1, <1>4, <1>5, <2>1 DEF CalmInv, AckedPermanent
<1>. QED
  BY <1>1, <1>2, <1>4, <1>6, <1>7, <1>8, <1>9

\* What the write of one line leaves when it is cut short: the line or not (append_tx).
LEMMA CutLine ==
  ASSUME TypeOK, NEW p \in Proc, app[p].pc = "write", CutShort(journal, <<NewLine(p)>>)
  PROVE  /\ journal' = journal \/ journal' = Append(journal, NewLine(p))
         /\ \E x : unended' \in {unended, unended \cup {x}}
<1>. DEFINE one == <<NewLine(p)>>
<1>1. /\ journal \in Seq(Line) /\ NewLine(p) \in Line
      /\ one \in Seq(Line) /\ Len(one) = 1
  BY NewLineType DEF TypeOK
<1>2. journal \o one = Append(journal, NewLine(p))
  BY <1>1, AppendIsConcat
<1>. HIDE DEF one
<1>3. PICK k \in 0..Len(one) :
        /\ journal' = journal \o SubSeq(one, 1, k)
        /\ unended' = unended \/ (k > 0 /\ unended' = unended \cup {Len(journal) + k})
  BY <1>1, CutShortLeaves DEF one
<1>4. CASE k = 0
  <2>1. SubSeq(one, 1, k) = <<>>
    BY <1>4, SubSeqEmpty
  <2>. QED
    BY <1>1, <1>3, <2>1, ConcatEmptySeq
<1>5. CASE k = 1
  <2>1. SubSeq(one, 1, k) = one
    BY <1>1, <1>5, SubSeqFull
  <2>. QED
    BY <1>2, <1>3, <2>1
<1>6. k = 0 \/ k = 1
  BY <1>1, <1>3
<1>7. \E x : unended' \in {unended, unended \cup {x}}
  <2>1. CASE unended' = unended
    BY <2>1
  <2>2. CASE unended' = unended \cup {Len(journal) + k}
    BY <2>2
  <2>. QED
    BY <1>3, <2>1, <2>2
<1>. QED
  BY <1>4, <1>5, <1>6, <1>7

\* What the copy of a genesis file leaves when it is cut short: some of its first lines
\* (ensure_journal).
LEMMA CutCopy ==
  ASSUME TypeOK, NEW pays \in Hash, CutShort(<<>>, ChainOf(pays))
  PROVE  LinesExact' /\ \E x : unended' \in {unended, unended \cup {x}}
<1>. DEFINE chain == ChainOf(pays)
<1>1. <<>> \in Seq(Line) /\ chain \in Seq(Line) /\ Len(chain) = Len(pays) /\ Len(pays) \in Nat
  BY ChainOfType DEF Hash
<1>. HIDE DEF chain
<1>2. PICK k \in 0..Len(chain) :
        /\ journal' \in Seq(Line) /\ Len(journal') = Len(<<>>) + k
        /\ \A i \in 1..k : journal'[Len(<<>>) + i] = chain[i]
        /\ unended' = unended \/ (k > 0 /\ unended' = unended \cup {Len(<<>>) + k})
  BY <1>1, CutShortLeaves DEF chain
<1>3. Len(journal') = k /\ k \in 0..Len(pays) /\ \A i \in 1..k : journal'[i] = ChainOf(pays)[i]
  BY <1>1, <1>2 DEF chain
<1>4. \A i \in 1..Len(journal') : /\ journal'[i].prev = HashOf(journal', i - 1)
                                  /\ journal'[i].hash = HashOf(journal', i)
  BY <1>2, <1>3, ChainExact
<1>. QED
  BY <1>2, <1>4 DEF LinesExact, HashAt

\* A crash leaves at most one more line without its newline.
LEMMA OneMoreUnended ==
  ASSUME TypeOK, CalmInv, crashes' = crashes + 1,
         \E x : unended' \in {unended, unended \cup {x}}
  PROVE  Cardinality(unended)' <= crashes'
<1>0. PICK x : unended' \in {unended, unended \cup {x}}
  OBVIOUS
<1>1. Cardinality(unended) <= crashes /\ crashes \in Nat
  BY DEF CalmInv, TypeOK
<1>2. IsFiniteSet(unended) /\ Cardinality(unended) \in Nat
  BY UnendedFinite
<1>3. Cardinality(unended \cup {x}) <= Cardinality(unended) + 1
  <2>1. Cardinality(unended \cup {x}) = IF x \in unended THEN Cardinality(unended)
                                        ELSE Cardinality(unended) + 1
    BY <1>2, FS_AddElement
  <2>. QED
    BY <1>2, <2>1
<1>4. Cardinality(unended \cup {x}) \in Nat
  BY <1>2, FS_AddElement, FS_CardinalityType
<1>5. Cardinality(unended)' = Cardinality(unended')
  OBVIOUS
<1>6. CASE unended' = unended
  BY <1>1, <1>2, <1>5, <1>6
<1>7. CASE unended' = unended \cup {x}
  <2>1. Cardinality(unended') <= Cardinality(unended) + 1
    BY <1>3, <1>7
  <2>2. Cardinality(unended') \in Nat
    BY <1>4, <1>7
  <2>. QED
    BY <1>1, <1>2, <1>5, <2>1, <2>2
<1>. QED
  BY <1>0, <1>6, <1>7

LEMMA CalmStep ==
  ASSUME IInv, TypeOK', [Next]_vars, Calm'
  PROVE  CalmInv'
<1>0. TypeOK /\ LockHeld /\ CalmInv /\ ~seedRaced' /\ ~Tamper
  BY CalmBefore DEF IInv, Calm
<1>. USE <1>0
<1>1. Len(journal) \in Nat /\ journal \in Seq(Line) /\ crashes \in Nat /\ crashes' \in Nat
  BY DEF TypeOK
<1>2. ASSUME UNCHANGED <<journal, unended, torn, tail, acked, crashes>>,
             \A q \in Proc : app'[q].pc \in {"write", "record"} => app'[q] = app[q],
             \A q \in Proc : cache'[q] \in {cache[q], NoTail},
             \A q \in Proc : ver'[q].pc = "record" => ver'[q] = ver[q]
      PROVE  CalmInv'
  BY <1>1, <1>2, Preserved DEF CalmInv
<1>3. ASSUME NEW p \in Proc, BeginAppend(p) PROVE CalmInv'
  <2>1. UNCHANGED <<journal, unended, torn, tail, cache, ver, acked, crashes>>
    BY <1>3 DEF BeginAppend, fileVars
  <2>2. \A q \in Proc : app'[q] = app[q] \/ app'[q].pc \in {"lock", "seed"}
    BY <1>3 DEF BeginAppend, TypeOK
  <2>. QED
    BY <1>2, <2>1, <2>2
<1>4. ASSUME NEW role \in Role, Genesis[role] # Absent, FillJournal(role),
             UNCHANGED <<tail, cache, acked, crashes>>,
             \A q \in Proc : app'[q].pc \in {"write", "record"} => app'[q] = app[q],
             \A q \in Proc : ver'[q].pc = "record" => ver'[q] = ver[q]
      PROVE  CalmInv'
  <2>1. CASE UNCHANGED <<journal, unended, torn>>
    BY <1>2, <1>4, <2>1
  <2>2. CASE Empty /\ ~AboutToWrite /\ LinesExact' /\ unended' = {}
    <3>1. Cardinality(unended)' <= crashes'
      BY <1>1, <2>2, FS_EmptySet
    <3>. QED
      BY <1>4, <2>2, <3>1, Filled
  <2>. QED
    BY <1>4, <2>1, <2>2, FilledCalmly
<1>5. ASSUME NEW p \in Proc, AppendSeed(p) PROVE CalmInv'
  <2>1. UNCHANGED <<tail, cache, ver, acked, crashes>>
    BY <1>5 DEF AppendSeed
  <2>2. \E l \in {"fill", "lock"} : app' = [app EXCEPT ![p].pc = l]
    BY <1>5 DEF AppendSeed, AfterOpen
  <2>3. \A q \in Proc : app'[q] = app[q] \/ app'[q].pc \in {"fill", "lock"}
    BY <2>2 DEF TypeOK, AppendThread
  <2>4. CASE OpenJournal("append")
    <3>1. UNCHANGED <<journal, unended, torn>>
      BY <2>4, OpenedCalmly DEF Role
    <3>. QED
      BY <1>2, <2>1, <2>3, <3>1
  <2>5. CASE app[p].pc = "fill" /\ FillJournal("append")
    <3>1. Genesis["append"] # Absent /\ "append" \in Role
      BY <2>5 DEF TypeOK, Role
    <3>. QED
      BY <1>4, <2>1, <2>3, <2>5, <3>1
  <2>. QED
    BY <1>5, <2>4, <2>5 DEF AppendSeed
<1>6. ASSUME NEW p \in Proc, AcquireLock(p) PROVE CalmInv'
  <2>1. UNCHANGED <<journal, unended, torn, tail, cache, ver, acked, crashes>>
    BY <1>6 DEF AcquireLock, fileVars
  <2>2. \A q \in Proc : app'[q] = app[q] \/ app'[q].pc = "validate"
    BY <1>6 DEF AcquireLock, TypeOK, AppendThread
  <2>. QED
    BY <1>2, <2>1, <2>2
<1>7. ASSUME NEW p \in Proc, ValidateTail(p) PROVE CalmInv'
  <2>. DEFINE v == Validation("append", p)
  <2>1. v.off = Len(journal) /\ v.hash = HashAt(Len(journal)) /\ ~torn
    BY <1>7, ValidationSound DEF ValidateTail, Role, CalmInv
  <2>2. /\ UNCHANGED <<journal, unended, torn, ver, acked, crashes>>
        /\ cache' = [cache EXCEPT ![p] = CacheEntry(v.hash, v.off)]
        /\ tail' \in {tail, [tail EXCEPT !["append"] = [hash |-> v.hash, off |-> v.off]]}
    BY <1>7 DEF ValidateTail, fileVars
  <2>3. /\ \A q \in Proc : q # p => app'[q] = app[q]
        /\ app'[p].pc = "write" /\ app'[p].prev = v.hash /\ app'[p].off = v.off
    BY <1>7 DEF ValidateTail, TypeOK
  <2>. HIDE DEF v
  <2>4. \A n : HashAt(n)' = HashAt(n)
    BY <2>2 DEF HashAt
  <2>5. ChainsFromTail'
    BY <2>1, <2>2, <2>3, <2>4 DEF ChainsFromTail, CalmInv
  <2>6. RememberedPrefixes'
    <3>1. /\ v.off <= Len(journal) /\ v.hash = HashAt(v.off)
          /\ journal' = journal
          /\ \A q \in Proc : ver'[q].pc = "record" => ver'[q] = ver[q]
          /\ "append" \in Role
      BY <1>1, <2>1, <2>2 DEF Role
    <3>. QED
      BY <2>2, <3>1, Remembers
  <2>7. UnrecordedIsLast' /\ LinesExact' /\ AckedPermanent' /\ Cardinality(unended)' <= crashes'
    <3>1. \A q \in Proc : app'[q].pc = "record" => app'[q] = app[q]
      BY <2>3
    <3>. QED
      BY <1>1, <2>2, <3>1, Preserved
  <2>. QED
    BY <2>5, <2>6, <2>7 DEF CalmInv
<1>8. ASSUME NEW p \in Proc, AppendRaises(p) PROVE CalmInv'
  <2>1. UNCHANGED <<journal, unended, torn, tail, ver, acked, crashes>>
    BY <1>8 DEF AppendRaises, fileVars
  <2>2. /\ \A q \in Proc : app'[q] = app[q] \/ app'[q].pc = "idle"
        /\ \A q \in Proc : cache'[q] \in {cache[q], NoTail}
    BY <1>8 DEF AppendRaises, IdleAppend, CacheAfterError, TypeOK
  <2>. QED
    BY <1>2, <2>1, <2>2
<1>9. ASSUME NEW p \in Proc, WriteLine(p) PROVE CalmInv'
  <2>1. /\ UNCHANGED <<unended, torn, tail, cache, ver, acked, crashes>>
        /\ journal' = Append(journal, NewLine(p)) /\ app[p].pc = "write"
    BY <1>9 DEF WriteLine
  <2>2. /\ \A q \in Proc : q # p => app'[q] = app[q]
        /\ app'[p].pc = "record"
        /\ app'[p].prev = app[p].prev /\ app'[p].pay = app[p].pay /\ app'[p].off = app[p].off
    BY <1>9 DEF WriteLine, TypeOK, AppendThread
  <2>3. /\ app[p].off = Len(journal) /\ Len(journal') = Len(journal) + 1
        /\ HashLine(app[p].prev, app[p].pay) = HashOf(journal', Len(journal) + 1)
        /\ LinesExact' /\ RememberedPrefixes' /\ AckedPermanent'
    <3>1. /\ \A q \in Proc : cache'[q] \in {cache[q], NoTail}
          /\ \A q \in Proc : ver'[q].pc = "record" => ver'[q] = ver[q]
      BY <2>1
    <3>. QED
      BY <2>1, <3>1, Grown
  <2>4. \A q \in Proc : q # p => app'[q].pc \notin {"write", "record"}
    BY <2>1, <2>2 DEF LockHeld
  <2>5. ChainsFromTail'
    BY <2>2, <2>4 DEF ChainsFromTail
  <2>6. UnrecordedIsLast'
    BY <2>2, <2>3, <2>4 DEF UnrecordedIsLast, HashAt
  <2>7. Cardinality(unended)' <= crashes'
    BY <2>1 DEF CalmInv
  <2>. QED
    BY <2>3, <2>5, <2>6, <2>7 DEF CalmInv
<1>10. ASSUME NEW p \in Proc, RecordTail(p) PROVE CalmInv'
  <2>. DEFINE hash == HashLine(app[p].prev, app[p].pay)
              off == app[p].off + 1
  <2>1. /\ UNCHANGED <<journal, unended, torn, ver, crashes>>
        /\ cache' = [cache EXCEPT ![p] = CacheEntry(hash, off)]
        /\ tail' = [tail EXCEPT !["append"] = [hash |-> hash, off |-> off]]
        /\ acked' = acked \cup {hash}
    BY <1>10 DEF RecordTail, fileVars
  <2>2. /\ \A q \in Proc : q # p => app'[q] = app[q]
        /\ app[p].pc = "record" /\ app'[p].pc = "idle"
    BY <1>10 DEF RecordTail, IdleAppend, TypeOK
  <2>3. off = Len(journal) /\ hash = HashAt(Len(journal))
    BY <2>2 DEF CalmInv, UnrecordedIsLast
  <2>4. \A n : HashAt(n)' = HashAt(n)
    BY <2>1 DEF HashAt
  <2>. HIDE DEF hash, off
  <2>5. LinesExact' /\ Cardinality(unended)' <= crashes'
    BY <2>1, <2>4 DEF CalmInv, LinesExact
  <2>6. \A q \in Proc : app'[q].pc \notin {"write", "record"}
    BY <2>2 DEF LockHeld
  <2>7. ChainsFromTail' /\ UnrecordedIsLast'
    BY <2>6 DEF ChainsFromTail, UnrecordedIsLast
  <2>8. RememberedPrefixes'
    <3>1. /\ off <= Len(journal) /\ hash = HashAt(off)
          /\ journal' = journal
          /\ \A q \in Proc : ver'[q].pc = "record" => ver'[q] = ver[q]
          /\ "append" \in Role
      BY <1>1, <2>1, <2>3 DEF Role
    <3>. QED
      BY <2>1, <3>1, Remembers
  <2>9. AckedPermanent'
    <3>1. Len(hash) = Len(journal)
      BY <1>1, <2>3, HashOfType DEF HashAt
    <3>. QED
      BY <1>1, <2>1, <2>3, <2>4, <3>1 DEF CalmInv, AckedPermanent
  <2>. QED
    BY <2>5, <2>7, <2>8, <2>9 DEF CalmInv
<1>11. ASSUME NEW p \in Proc, BeginVerify(p) PROVE CalmInv'
  <2>1. UNCHANGED <<journal, unended, torn, tail, cache, app, acked, crashes>>
    BY <1>11 DEF BeginVerify, fileVars
  <2>2. \A q \in Proc : ver'[q] = ver[q] \/ ver'[q].pc \in {"scan", "seed"}
    BY <1>11 DEF BeginVerify, TypeOK
  <2>. QED
    BY <1>2, <2>1, <2>2
<1>12. ASSUME NEW p \in Proc, VerifySeed(p) PROVE CalmInv'
  <2>1. UNCHANGED <<tail, cache, app, acked, crashes>>
    BY <1>12 DEF VerifySeed
  <2>2. \E l \in {"fill", "scan"} : ver' = [ver EXCEPT ![p].pc = l]
    BY <1>12 DEF VerifySeed, AfterOpen
  <2>3. \A q \in Proc : ver'[q] = ver[q] \/ ver'[q].pc \in {"fill", "scan"}
    BY <2>2 DEF TypeOK, VerifyThread
  <2>4. CASE OpenJournal("verify")
    <3>1. UNCHANGED <<journal, unended, torn>>
      BY <2>4, OpenedCalmly DEF Role
    <3>. QED
      BY <1>2, <2>1, <2>3, <3>1
  <2>5. CASE ver[p].pc = "fill" /\ FillJournal("verify")
    <3>1. Genesis["verify"] # Absent /\ "verify" \in Role
      BY <2>5 DEF TypeOK, Role
    <3>. QED
      BY <1>4, <2>1, <2>3, <2>5, <3>1
  <2>. QED
    BY <1>12, <2>4, <2>5 DEF VerifySeed
<1>13. ASSUME NEW p \in Proc, VerifyScan(p) PROVE CalmInv'
  <2>. DEFINE v == Validation("verify", p)
  <2>1. v.off = Len(journal) /\ v.hash = HashAt(Len(journal))
    BY <1>13, ValidationSound DEF VerifyScan, Role, CalmInv
  <2>2. UNCHANGED <<journal, unended, torn, tail, cache, app, acked, crashes>>
    BY <1>13 DEF VerifyScan, fileVars
  <2>3. /\ \A q \in Proc : q # p => ver'[q] = ver[q]
        /\ ver'[p].pc = "record" /\ ver'[p].hash = v.hash /\ ver'[p].off = v.off
    BY <1>13 DEF VerifyScan, TypeOK
  <2>. HIDE DEF v
  <2>4. \A n : HashAt(n)' = HashAt(n)
    BY <2>2 DEF HashAt
  <2>5. RememberedPrefixes'
    BY <1>1, <2>1, <2>2, <2>3, <2>4 DEF CalmInv, RememberedPrefixes, DenotesPrefix
  <2>6. ChainsFromTail' /\ UnrecordedIsLast' /\ LinesExact' /\ AckedPermanent'
          /\ Cardinality(unended)' <= crashes'
    BY <1>1, <2>2, Preserved
  <2>. QED
    BY <2>5, <2>6 DEF CalmInv
<1>14. ASSUME NEW p \in Proc, VerifyRaises(p) PROVE CalmInv'
  <2>1. UNCHANGED <<journal, unended, torn, tail, app, acked, crashes>>
    BY <1>14 DEF VerifyRaises, fileVars
  <2>2. /\ \A q \in Proc : ver'[q] = ver[q] \/ ver'[q].pc = "idle"
        /\ \A q \in Proc : cache'[q] \in {cache[q], NoTail}
    BY <1>14 DEF VerifyRaises, IdleVerify, CacheAfterError, TypeOK
  <2>. QED
    BY <1>2, <2>1, <2>2
<1>15. ASSUME NEW p \in Proc, VerifyRecord(p) PROVE CalmInv'
  <2>. DEFINE hash == ver[p].hash
              off == ver[p].off
  <2>1. /\ UNCHANGED <<journal, unended, torn, app, acked, crashes>>
        /\ cache' = [cache EXCEPT ![p] = CacheEntry(hash, off)]
        /\ tail' \in {tail, [tail EXCEPT !["verify"] = [hash |-> hash, off |-> off]]}
    BY <1>15 DEF VerifyRecord, fileVars
  <2>2. /\ \A q \in Proc : q # p => ver'[q] = ver[q]
        /\ ver[p].pc = "record" /\ ver'[p].pc = "idle"
    BY <1>15 DEF VerifyRecord, IdleVerify, TypeOK
  <2>3. RememberedPrefixes'
    <3>1. /\ off <= Len(journal) /\ hash = HashAt(off)
          /\ journal' = journal
          /\ \A q \in Proc : ver'[q].pc = "record" => ver'[q] = ver[q]
          /\ "verify" \in Role
      BY <2>1, <2>2 DEF Role, CalmInv, RememberedPrefixes, DenotesPrefix
    <3>. HIDE DEF hash, off
    <3>. QED
      BY <2>1, <3>1, Remembers
  <2>4. ChainsFromTail' /\ UnrecordedIsLast' /\ LinesExact' /\ AckedPermanent'
          /\ Cardinality(unended)' <= crashes'
    BY <1>1, <2>1, Preserved
  <2>. QED
    BY <2>3, <2>4 DEF CalmInv
<1>16. ASSUME NEW p \in Proc, InvalidateCache(p) PROVE CalmInv'
  <2>1. /\ UNCHANGED <<journal, unended, torn, tail, app, ver, acked, crashes>>
        /\ \A q \in Proc : cache'[q] \in {cache[q], NoTail}
    BY <1>16 DEF InvalidateCache, fileVars, TypeOK
  <2>. QED
    BY <1>2, <2>1
<1>17. ASSUME NEW p \in Proc, Crash(p) PROVE CalmInv'
  <2>1. /\ UNCHANGED <<tail, acked>> /\ crashes' = crashes + 1
        /\ \A q \in Proc : q # p => app'[q] = app[q] /\ ver'[q] = ver[q]
        /\ app'[p].pc = "idle" /\ ver'[p].pc = "idle"
        /\ \A q \in Proc : cache'[q] \in {cache[q], NoTail}
    BY <1>17 DEF Crash, IdleAppend, IdleVerify, TypeOK
  <2>2. /\ \A q \in Proc : app'[q].pc \in {"write", "record"} => app'[q] = app[q]
        /\ \A q \in Proc : ver'[q].pc = "record" => ver'[q] = ver[q]
    BY <2>1
  <2>3. CASE UNCHANGED <<journal, unended, torn>>
    BY <1>1, <2>1, <2>2, <2>3, Preserved DEF CalmInv
  <2>4. CASE app[p].pc = "write" /\ CutShort(journal, <<NewLine(p)>>)
    <3>1. /\ journal' = journal \/ journal' = Append(journal, NewLine(p))
          /\ \E x : unended' \in {unended, unended \cup {x}}
      BY <2>4, CutLine
    <3>2. Cardinality(unended)' <= crashes'
      <4>1. crashes' = crashes + 1 /\ \E x : unended' \in {unended, unended \cup {x}}
        BY <2>1, <3>1
      <4>. QED
        BY <1>0, <4>1, OneMoreUnended
    <3>3. \A q \in Proc : app'[q].pc \notin {"write", "record"}
      BY <2>1, <2>4 DEF LockHeld
    <3>4. ChainsFromTail' /\ UnrecordedIsLast'
      BY <3>3 DEF ChainsFromTail, UnrecordedIsLast
    <3>5. LinesExact' /\ RememberedPrefixes' /\ AckedPermanent'
      <4>1. CASE journal' = journal
        <5>1. \A n : HashAt(n)' = HashAt(n)
          BY <4>1 DEF HashAt
        <5>. QED
          BY <2>1, <2>2, <4>1, <5>1
          DEF CalmInv, LinesExact, AckedPermanent, RememberedPrefixes, DenotesPrefix
      <4>2. CASE journal' = Append(journal, NewLine(p))
        BY <2>1, <2>2, <2>4, <4>2, Grown
      <4>. QED
        BY <3>1, <4>1, <4>2
    <3>. QED
      BY <3>2, <3>4, <3>5 DEF CalmInv
  <2>5. ASSUME NEW role \in Role,
               (IF role = "append" THEN app[p].pc ELSE ver[p].pc) = "fill",
               Empty, ~AboutToWrite, CutShort(<<>>, ChainOf(Genesis[role]))
        PROVE  CalmInv'
    <3>1. Genesis[role] \in Hash
      BY <2>5, ParameterAssumption DEF TypeOK, Role
    <3>2. LinesExact' /\ \E x : unended' \in {unended, unended \cup {x}}
      BY <2>5, <3>1, CutCopy
    <3>3. Cardinality(unended)' <= crashes'
      <4>1. crashes' = crashes + 1 /\ \E x : unended' \in {unended, unended \cup {x}}
        BY <2>1, <3>2
      <4>. QED
        BY <1>0, <4>1, OneMoreUnended
    <3>. QED
      BY <2>1, <2>2, <2>5, <3>2, <3>3, Filled
  <2>. QED
    BY <1>17, <2>3, <2>4, <2>5 DEF Crash, CutWrite
<1>18. ASSUME UNCHANGED vars PROVE CalmInv'
  <2>1. UNCHANGED <<journal, unended, torn, tail, cache, app, ver, acked, crashes>>
    BY <1>18 DEF vars, fileVars
  <2>. QED
    BY <1>2, <2>1
<1>. QED
  BY <1>3, <1>5, <1>6, <1>7, <1>8, <1>9, <1>10, <1>11, <1>12, <1>13, <1>14, <1>15, <1>16,
     <1>17, <1>18 DEF Next, AppendStep, VerifyStep

LEMMA InvInit == Init => IInv
<1>. QED
  BY TypeInit, LockInit, CalmInit DEF IInv

LEMMA InvStep == IInv /\ [Next]_vars => IInv'
<1>. SUFFICES ASSUME IInv, [Next]_vars PROVE IInv'
  OBVIOUS
<1>1. TypeOK'
  BY TypeStep DEF IInv
<1>2. LockHeld'
  BY LockStep DEF IInv
<1>3. Calm' => CalmInv'
  BY <1>1, CalmStep
<1>. QED
  BY <1>1, <1>2, <1>3 DEF IInv

\* While nobody edits stored lines and no genesis seed meets a file in use, the chain
\* stays whole but for one joined line per crash, an append chains from the stored tail,
\* and every entry returned to a caller stays: for any number of processes, crashes and
\* verifications, from any genesis file (append_tx, ensure_journal,
\* verify_journal_integrity).
THEOREM JournalSafety ==
  Spec => [](ChainIntact /\ WarmEqualsCold /\ (Calm => AckedPermanent) /\ TailsSound)
<1>1. Init => IInv
  BY InvInit
<1>2. IInv /\ [Next]_vars => IInv'
  BY InvStep
<1>3. IInv => ChainIntact /\ WarmEqualsCold /\ (Calm => AckedPermanent) /\ TailsSound
  <2>. SUFFICES ASSUME IInv, Calm
                PROVE  ChainIntact /\ WarmEqualsCold /\ AckedPermanent /\ TailsSound
    BY DEF ChainIntact, WarmEqualsCold, TailsSound
  <2>1. TypeOK /\ CalmInv
    BY DEF IInv
  <2>2. LinesLinked(0, ZeroHash)
    BY <2>1, ExactIsLinked DEF CalmInv
  <2>3. Cardinality(Joined) <= crashes
    <3>1. Joined \in SUBSET unended /\ IsFiniteSet(unended) /\ Cardinality(unended) \in Nat
      BY <2>1, UnendedFinite DEF Joined
    <3>2. Cardinality(Joined) <= Cardinality(unended) /\ IsFiniteSet(Joined)
      BY <3>1, FS_Subset
    <3>3. Cardinality(Joined) \in Nat /\ Cardinality(unended) <= crashes /\ crashes \in Nat
      BY <2>1, <3>2, FS_CardinalityType DEF TypeOK, CalmInv
    <3>. QED
      BY <3>1, <3>2, <3>3
  <2>4. WarmEqualsCold
    BY <2>1, <2>2 DEF WarmEqualsCold, CalmInv, ChainsFromTail, FileIntact, ScanAccepts
  <2>5. TailsSound
    BY <2>1 DEF CalmInv, RememberedPrefixes, DenotesPrefix, TailsSound, TailSound
  <2>. QED
    BY <2>1, <2>2, <2>3, <2>4, <2>5 DEF ChainIntact, CalmInv
<1>. QED
  BY <1>1, <1>2, <1>3, PTL DEF Spec

\* Three parts of the above, each for itself: the lines form one chain from the genesis
\* hash (append_tx, _scan_chain).
THEOREM ChainStaysWhole == Spec => []ChainIntact
<1>. QED
  BY JournalSafety, PTL

\* An appender chains from the stored tail, warm or cold (_validated_last_hash).
THEOREM WarmChainsLikeCold == Spec => []WarmEqualsCold
<1>. QED
  BY JournalSafety, PTL

\* A remembered tail denotes a prefix of the file (_resume_verified_tail).
THEOREM TailsStaySound == Spec => []TailsSound
<1>. QED
  BY JournalSafety, PTL

\* What is stored is a sequence of payloads.
LEMMA LogType ==
  ASSUME TypeOK
  PROVE  HashAt(Len(journal)) \in Seq(Payload) /\ Len(HashAt(Len(journal))) = Len(journal)
<1>1. journal \in Seq(Line) /\ Len(journal) \in Nat
  BY DEF TypeOK
<1>. QED
  BY <1>1, HashOfType DEF HashAt, Hash

\* A line written behind the others extends the log (append_tx).
LEMMA WriteExtends ==
  ASSUME TypeOK, TypeOK', NEW p \in Proc, app[p].pc = "write",
         journal' = Append(journal, NewLine(p)), UNCHANGED acked
  PROVE  Log!Extend
<1>. DEFINE line == NewLine(p)
<1>1. line \in Line /\ line.pay \in Payload
  BY NewLineType DEF Line
<1>2. journal \in Seq(Line) /\ journal' \in Seq(Line) /\ journal' = Append(journal, line)
  BY DEF TypeOK
<1>. HIDE DEF line
<1>3. /\ Len(journal') = Len(journal) + 1
      /\ HashOf(journal', Len(journal) + 1) = HashLine(HashOf(journal, Len(journal)), line.pay)
  BY ONLY <1>1, <1>2, HashOfAppend
<1>4. HashOf(journal', Len(journal')) = Append(HashOf(journal, Len(journal)), line.pay)
  BY <1>3 DEF HashLine
<1>. QED
  BY <1>1, <1>4 DEF Log!Extend, HashAt

\* Lines written into an empty file seed the log (ensure_journal).
LEMMA CopySeeds ==
  ASSUME TypeOK, TypeOK', Empty, UNCHANGED acked
  PROVE  Log!Seed
<1>1. HashAt(Len(journal))' \in Seq(Payload)
  <2>1. journal' \in Seq(Line) /\ Len(journal') \in Nat
    BY DEF TypeOK
  <2>. QED
    BY <2>1, HashOfType DEF HashAt, Hash
<1>2. HashAt(Len(journal)) = <<>>
  <2>1. HashAt(Len(journal)) \in Seq(Payload) /\ Len(HashAt(Len(journal))) = 0
    BY LogType DEF Empty
  <2>. QED
    BY <2>1
<1>. QED
  BY <1>1, <1>2 DEF Log!Seed

\* Which steps a reader of the journal sees: a seed, a line written or an entry returned.
LEMMA StepIsLogStep ==
  ASSUME IInv, TypeOK', [Next]_vars, Calm'
  PROVE  LogStep
<1>0. TypeOK /\ LockHeld /\ CalmInv /\ ~seedRaced' /\ ~Tamper
  BY CalmBefore DEF IInv, Calm
<1>. USE <1>0
<1>1. Len(journal) \in Nat /\ journal \in Seq(Line)
  BY DEF TypeOK
<1>2. ASSUME UNCHANGED <<journal, acked>> PROVE LogStep
  BY <1>2 DEF HashAt, LogStep
<1>3. ASSUME NEW p \in Proc, WriteLine(p) PROVE LogStep
  BY <1>3, WriteExtends DEF WriteLine, LogStep, Log!Next
<1>4. ASSUME NEW p \in Proc, RecordTail(p) PROVE LogStep
  <2>. DEFINE hash == HashLine(app[p].prev, app[p].pay)
              n == Len(journal)
  <2>1. UNCHANGED journal /\ acked' = acked \cup {hash}
    BY <1>4 DEF RecordTail, fileVars
  <2>2. n = app[p].off + 1 /\ hash = HashAt(n) /\ app[p].off \in Nat
    BY <1>4 DEF RecordTail, CalmInv, UnrecordedIsLast, TypeOK, AppendThread
  <2>3. HashAt(n) \in Seq(Payload) /\ Len(HashAt(n)) = n
    BY LogType
  <2>4. SubSeq(HashAt(n), 1, n) = HashAt(n)
    BY <1>1, <2>3, SubSeqFull
  <2>5. n \in 1..Len(HashAt(n))
    BY <1>1, <2>2, <2>3
  <2>6. Log!Acknowledge
    BY <2>1, <2>2, <2>4, <2>5 DEF Log!Acknowledge, HashAt
  <2>. QED
    BY <2>6 DEF LogStep, Log!Next
<1>5. ASSUME NEW role \in Role, Genesis[role] # Absent, FillJournal(role), UNCHANGED acked
      PROVE  LogStep
  <2>1. UNCHANGED <<journal, unended, torn>> \/ Empty
    BY <1>5, FilledCalmly
  <2>2. CASE Empty
    BY <1>5, <2>2, CopySeeds DEF LogStep, Log!Next
  <2>. QED
    BY <1>2, <1>5, <2>1, <2>2
<1>6. ASSUME NEW p \in Proc, AppendSeed(p) \/ VerifySeed(p)
      PROVE  LogStep
  <2>1. UNCHANGED acked
    BY <1>6 DEF AppendSeed, VerifySeed
  <2>2. CASE \E role \in Role : OpenJournal(role)
    BY <1>2, <2>1, <2>2, OpenedCalmly
  <2>3. CASE \E role \in Role : Genesis[role] # Absent /\ FillJournal(role)
    BY <1>5, <2>1, <2>3
  <2>. QED
    BY <1>6, <2>2, <2>3 DEF AppendSeed, VerifySeed, Role, TypeOK
<1>7. ASSUME NEW p \in Proc, Crash(p) PROVE LogStep
  <2>1. UNCHANGED acked
    BY <1>7 DEF Crash
  <2>2. CASE app[p].pc = "write" /\ CutShort(journal, <<NewLine(p)>>)
    <3>1. journal' = journal \/ journal' = Append(journal, NewLine(p))
      BY <2>2, CutLine
    <3>2. CASE journal' = Append(journal, NewLine(p))
      BY <2>1, <2>2, <3>2, WriteExtends DEF LogStep, Log!Next
    <3>. QED
      BY <1>2, <2>1, <3>1, <3>2
  <2>3. CASE Empty
    BY <2>1, <2>3, CopySeeds DEF LogStep, Log!Next
  <2>. QED
    BY <1>2, <1>7, <2>1, <2>2, <2>3 DEF Crash, CutWrite
<1>8. ASSUME NEW p \in Proc,
             \/ BeginAppend(p) \/ AcquireLock(p) \/ ValidateTail(p) \/ AppendRaises(p)
             \/ BeginVerify(p) \/ VerifyScan(p) \/ VerifyRaises(p) \/ VerifyRecord(p)
             \/ InvalidateCache(p)
      PROVE  UNCHANGED <<journal, acked>>
  BY <1>8 DEF BeginAppend, AcquireLock, ValidateTail, AppendRaises, BeginVerify, VerifyScan,
              VerifyRaises, VerifyRecord, InvalidateCache, fileVars
<1>9. ASSUME UNCHANGED vars PROVE UNCHANGED <<journal, acked>>
  BY <1>9 DEF vars, fileVars
<1>. QED
  BY <1>2, <1>3, <1>4, <1>6, <1>7, <1>8, <1>9 DEF Next, AppendStep, VerifyStep

\* The journal implements the append-only log it promises: a seed gives it its first
\* entries, each write of append_tx, also one a crash cuts before its newline, extends
\* it by one, and each return certifies a stored prefix of it.
THEOREM JournalImplementsLog == Spec => AppendOnly
<1>1. Init => Log!Init
  <2>. SUFFICES ASSUME Init PROVE Log!Init
    OBVIOUS
  <2>1. HashAt(Len(journal)) \in Seq(Payload)
    BY TypeInit, LogType
  <2>. QED
    BY <2>1 DEF Init, Log!Init
<1>2. Init => IInv
  BY InvInit
<1>3. IInv /\ [Next]_vars => IInv'
  BY InvStep
<1>4. IInv /\ IInv' /\ [Next]_vars => [Calm' => LogStep]_vars
  BY StepIsLogStep DEF IInv
<1>. QED
  BY <1>1, <1>2, <1>3, <1>4, PTL DEF Spec, AppendOnly

\* What append_tx returned to its caller stays where it was written as long as the
\* journal is calm: the bytes, also where a joined line makes them unreadable.
THEOREM AcknowledgedStays == Spec => [](Calm => AckedPermanent)
<1>. QED
  BY JournalSafety, PTL

\* After a crash has left a fragment of a line, no step writes to the journal: no
\* validation succeeds over it, a writer past validation excludes it, and only a seed
\* that races could truncate it.
THEOREM TornStopsJournal == Spec => TornBlocks
<1>1. Init => IInv
  BY InvInit
<1>2. IInv /\ [Next]_vars => IInv'
  BY InvStep
<1>3. IInv /\ IInv' /\ [Next]_vars => [torn /\ Calm' => journal' = journal]_vars
  <2>. SUFFICES ASSUME IInv, TypeOK', Next, torn, Calm' PROVE journal' = journal
    BY DEF IInv
  <2>0. TypeOK /\ CalmInv /\ ~seedRaced' /\ ~Tamper
    BY CalmBefore DEF IInv, Calm
  <2>1. \A p \in Proc : app[p].pc # "write"
    BY <2>0 DEF CalmInv, ChainsFromTail
  <2>2. ~Empty
    BY DEF Empty
  <2>3. ASSUME NEW p \in Proc, WriteLine(p) \/ CutWrite(p) PROVE FALSE
    BY <2>1, <2>2, <2>3 DEF WriteLine, CutWrite
  <2>4. ASSUME NEW p \in Proc, AppendSeed(p) \/ VerifySeed(p) PROVE journal' = journal
    <3>1. CASE \E role \in Role : OpenJournal(role)
      BY <2>0, <3>1, OpenedCalmly
    <3>2. CASE \E role \in Role : Genesis[role] # Absent /\ FillJournal(role)
      BY <2>0, <2>2, <3>2, FilledCalmly
    <3>. QED
      BY <2>0, <2>4, <3>1, <3>2 DEF AppendSeed, VerifySeed, Role, TypeOK
  <2>. QED
    BY <2>0, <2>3, <2>4
    DEF Next, AppendStep, VerifyStep, BeginAppend, AcquireLock, ValidateTail, AppendRaises,
        RecordTail, BeginVerify, VerifyScan, VerifyRaises, VerifyRecord, InvalidateCache, Crash,
        fileVars
<1>. QED
  BY <1>1, <1>2, <1>3, PTL DEF Spec, TornBlocks

-----------------------------------------------------------------------------
(* Damaged lines *)

\* What a validation that succeeds has not recomputed lies before the offset it resumed
\* from (_validated_last_hash, _resume_verified_tail).
LEMMA PassedIsCovered ==
  ASSUME TypeOK, NEW role \in Role, NEW p \in Proc, Validation(role, p).ok,
         NEW i \in DamagedLines
  PROVE  Covered(i, cache[p]) \/ Covered(i, tail[role])
<1>1. /\ i \in 1..Len(journal) /\ Len(journal) \in Nat
      /\ i \in Joined \/ journal[i].hash # HashLine(journal[i].prev, journal[i].pay)
  BY DEF DamagedLines, Joined, TypeOK
<1>2. ASSUME NEW off \in Nat, NEW hash, ScanAccepts(off, hash) PROVE off >= i
  BY <1>1, <1>2 DEF ScanAccepts, LinesLinked
<1>3. /\ cache[p] # NoTail => cache[p].off \in Nat
      /\ tail[role] # NoTail => tail[role].off \in Nat
  BY DEF TypeOK, CachedTail, FileTail
<1>4. CASE CacheHit(p)
  BY <1>1, <1>3, <1>4 DEF CacheHit, Covered
<1>5. CASE Resumes(cache[p])
  BY <1>2, <1>3, <1>5 DEF Resumes, Outgrown, Covered
<1>6. CASE Resumes(tail[role])
  BY <1>2, <1>3, <1>6 DEF Resumes, Outgrown, Covered
<1>7. ASSUME ~CacheHit(p), ~Resumes(cache[p]), ~Resumes(tail[role]) PROVE FALSE
  <2>1. Validation(role, p).ok = FileIntact
    BY <1>7 DEF Validation
  <2>2. 0 >= i
    BY <1>2, <2>1 DEF FileIntact
  <2>. QED
    BY <1>1, <2>2
<1>. QED
  BY <1>4, <1>5, <1>6, <1>7

\* An edited or joined line passes an append or a verify only behind a remembered tail:
\* with any number of edits, crashes and genesis seeds (append_tx,
\* verify_journal_integrity).
THEOREM EditsAreCaught == Spec => UnverifiedEditCaught
<1>. DEFINE Passes(p) == /\ app[p].pc = "validate" /\ app'[p].pc = "write"
                              => Validation("append", p).ok
                         /\ ver[p].pc = "scan" /\ ver'[p].pc = "record"
                              => Validation("verify", p).ok
<1>1. TypeOK /\ Next => \A p \in Proc : Passes(p)
  <2>. SUFFICES ASSUME TypeOK, Next, NEW p \in Proc PROVE Passes(p)
    OBVIOUS
  <2>0. app \in [Proc -> AppendThread] /\ ver \in [Proc -> VerifyThread]
    BY DEF TypeOK
  <2>1. ASSUME NEW q \in Proc, AppendStep(q) PROVE Passes(p)
    <3>1. ver' = ver
      BY <2>1 DEF AppendStep, AppendSeed, AcquireLock, ValidateTail, AppendRaises, WriteLine,
                  RecordTail
    <3>2. CASE ValidateTail(q)
      BY <2>0, <3>1, <3>2 DEF ValidateTail
    <3>3. CASE AppendSeed(q) \/ AcquireLock(q) \/ AppendRaises(q) \/ WriteLine(q) \/ RecordTail(q)
      <4>1. CASE AppendSeed(q) \/ AcquireLock(q) \/ WriteLine(q)
        <5>1. \E label \in {"fill", "lock", "validate", "record"} :
                app' = [app EXCEPT ![q].pc = label]
          BY <4>1 DEF AppendSeed, AfterOpen, AcquireLock, WriteLine
        <5>2. app'[p] = app[p] \/ app'[p].pc # "write"
          BY <2>0, <5>1 DEF AppendThread
        <5>. QED
          BY <3>1, <5>2
      <4>2. CASE AppendRaises(q) \/ RecordTail(q)
        <5>1. app' = [app EXCEPT ![q] = IdleAppend]
          BY <4>2 DEF AppendRaises, RecordTail
        <5>2. app'[p] = app[p] \/ app'[p].pc # "write"
          BY <2>0, <5>1 DEF IdleAppend
        <5>. QED
          BY <3>1, <5>2
      <4>. QED
        BY <3>3, <4>1, <4>2
    <3>. QED
      BY <2>1, <3>2, <3>3 DEF AppendStep
  <2>2. ASSUME NEW q \in Proc, VerifyStep(q) PROVE Passes(p)
    <3>1. app' = app
      BY <2>2 DEF VerifyStep, VerifySeed, VerifyScan, VerifyRaises, VerifyRecord
    <3>2. CASE VerifyScan(q)
      BY <2>0, <3>1, <3>2 DEF VerifyScan
    <3>3. CASE VerifySeed(q) \/ VerifyRaises(q) \/ VerifyRecord(q)
      <4>0. \/ \E label \in {"fill", "scan"} : ver' = [ver EXCEPT ![q].pc = label]
            \/ ver' = [ver EXCEPT ![q] = IdleVerify]
        BY <3>3 DEF VerifySeed, AfterOpen, VerifyRaises, VerifyRecord
      <4>1. ver'[p] = ver[p] \/ ver'[p].pc # "record"
        BY <2>0, <4>0 DEF VerifyThread, IdleVerify
      <4>. QED
        BY <3>1, <4>1
    <3>. QED
      BY <2>2, <3>2, <3>3 DEF VerifyStep
  <2>3. ASSUME NEW q \in Proc, BeginAppend(q) \/ BeginVerify(q) \/ InvalidateCache(q) \/ Crash(q)
        PROVE  Passes(p)
    <3>1. /\ app'[p] = app[p] \/ app'[p].pc # "write"
          /\ ver'[p] = ver[p] \/ ver'[p].pc # "record"
      BY <2>0, <2>3 DEF BeginAppend, BeginVerify, InvalidateCache, Crash, IdleAppend, IdleVerify
    <3>. QED
      BY <3>1
  <2>4. ASSUME Tamper PROVE Passes(p)
    BY <2>4 DEF Tamper
  <2>. QED
    BY <2>1, <2>2, <2>3, <2>4 DEF Next
<1>2. TypeOK /\ [Next]_vars
      => [\A p \in Proc, i \in DamagedLines :
            /\ app[p].pc = "validate" /\ app'[p].pc = "write"
                 => Covered(i, cache[p]) \/ Covered(i, tail["append"])
            /\ ver[p].pc = "scan" /\ ver'[p].pc = "record"
                 => Covered(i, cache[p]) \/ Covered(i, tail["verify"])]_vars
  BY <1>1, PassedIsCovered DEF Role
<1>3. Init => TypeOK
  BY TypeInit
<1>4. TypeOK /\ [Next]_vars => TypeOK'
  BY TypeStep
<1>. QED
  BY <1>2, <1>3, <1>4, PTL DEF Spec, UnverifiedEditCaught
=============================================================================
