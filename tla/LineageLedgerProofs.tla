------------------------ MODULE LineageLedgerProofs ------------------------
(***************************************************************************)
(* Proofs about LineageLedger for any set of writers and bundlers, any     *)
(* number of attempts, and any bounds on appends and crashes.  The last    *)
(* part, about the digests of the bundles, is for any file a single        *)
(* bundler and any number of other writers produce.                        *)
(***************************************************************************)
EXTENDS LineageLedger, SequenceTheorems, WellFoundedInduction, TLAPS

Line == Entry \cup {Fragment, Joined}

\* The parts of the inductive invariant that only look at the file and at what was
\* acknowledged, and those about what the writers know.
FileInv == ChainIntact /\ HashLengths /\ OpenLine /\ CommittedStays
WriterInv == LockHeld /\ HolderKnows /\ BeforeIsPast /\ AttemptsArePaid

\* The last line of a non-empty file (_scan_tail_unlocked).
LEMMA LastLine ==
  ASSUME NEW f \in Seq(Line), f # <<>>
  PROVE  Len(f) \in Nat \ {0} /\ Last(f) = f[Len(f)] /\ f[Len(f)] \in Line
<1>1. Len(f) \in Nat \ {0}
  OBVIOUS
<1>2. f[Len(f)] \in Line
  BY <1>1, ElementOfSeq
<1>. QED
  BY <1>1, <1>2 DEF Last

\* Replacing the last line of a non-empty file (WithText, Completed).
LEMMA ReplaceLast ==
  ASSUME NEW f \in Seq(Line), f # <<>>, NEW x \in Line,
         NEW g, g = [f EXCEPT ![Len(f)] = x]
  PROVE  /\ g \in Seq(Line) /\ Len(g) = Len(f) /\ g # <<>>
         /\ \A i \in 1..(Len(f) - 1) : g[i] = f[i]
         /\ g[Len(f)] = x
<1>1. Len(f) \in 1..Len(f) /\ Len(f) \in Nat \ {0}
  BY LastLine
<1>2. /\ g \in Seq(Line) /\ Len(g) = Len(f)
      /\ \A j \in 1..Len(f) : g[j] = IF j = Len(f) THEN x ELSE f[j]
  <2>. DEFINE i == Len(f)
  <2>1. /\ [f EXCEPT ![i] = x] \in Seq(Line) /\ Len([f EXCEPT ![i] = x]) = Len(f)
        /\ \A j \in 1..Len(f) : [f EXCEPT ![i] = x][j] = IF j = i THEN x ELSE f[j]
    <3>. HIDE DEF i
    <3>1. i \in 1..Len(f)
      BY <1>1 DEF i
    <3>. QED
      BY <3>1, ExceptSeq
  <2>. QED
    BY <2>1, Zenon
<1>3. g # <<>>
  BY <1>1, <1>2
<1>4. g[Len(f)] = x
  BY <1>1, <1>2, Zenon
<1>5. \A i \in 1..(Len(f) - 1) : i \in 1..Len(f) /\ i # Len(f)
  BY <1>1
<1>6. \A i \in 1..(Len(f) - 1) : g[i] = f[i]
  BY <1>2, <1>5, Zenon
<1>. QED
  BY <1>2, <1>3, <1>4, <1>6, Zenon

\* Adding a line behind a complete one (WithText).
LEMMA AddLine ==
  ASSUME NEW f \in Seq(Line), NEW x \in Line, NEW g, g = Append(f, x)
  PROVE  /\ g \in Seq(Line) /\ Len(g) = Len(f) + 1 /\ g # <<>>
         /\ \A i \in 1..Len(f) : g[i] = f[i]
         /\ g[Len(f) + 1] = x
OBVIOUS

\* What an append would write is an entry with a hash (NewEntry).
LEMMA NewEntryType ==
  ASSUME TypeOK, NEW w \in Writer
  PROVE  /\ NewEntry(w) \in Entry /\ IsEntry(NewEntry(w))
         /\ NewEntry(w).prev = job[w].before /\ NewEntry(w).id = job[w].id
         /\ HashOf(NewEntry(w)) = Append(job[w].before, job[w].id)
         /\ HashOf(NewEntry(w)) \in Hash
<1>1. /\ job[w].before \in Hash /\ job[w].id \in Event
      /\ job[w].digest \in Digest \cup {NoDigest} /\ job[w].bundle \in BOOLEAN
  BY DEF TypeOK, Job
<1>2. NewEntry(w) \in Entry
  BY <1>1 DEF NewEntry, Entry
<1>3. IsEntry(NewEntry(w))
  BY <1>2, NameAssumption DEF IsEntry
<1>4. Append(job[w].before, job[w].id) \in Hash
  BY <1>1 DEF Hash
<1>. QED
  BY <1>1, <1>2, <1>3, <1>4 DEF NewEntry, HashOf

\* The hash of a stored entry is a hash one longer than its predecessor's.
LEMMA HashOfType ==
  ASSUME NEW e \in Entry
  PROVE  /\ HashOf(e) \in Hash /\ Len(HashOf(e)) = Len(e.prev) + 1
         /\ e.prev \in Hash /\ Len(e.prev) \in Nat
<1>1. e.prev \in Seq(Event) /\ e.id \in Event
  BY DEF Entry, Hash
<1>. QED
  BY <1>1 DEF HashOf, Hash

\* Lines are entries unless they are one of the two marks (IsEntry).
LEMMA LineKinds ==
  ASSUME NEW x \in Line
  PROVE  /\ IsEntry(x) => x \in Entry
         /\ ~IsEntry(x) <=> x \in {Fragment, Joined}
BY NameAssumption DEF Line, IsEntry

\* A tail hash is a hash (_scan_tail_unlocked).
LEMMA TailHashType ==
  ASSUME TypeOK, ~TailRaises
  PROVE  TailHash \in Hash /\ (lines # <<>> => IsEntry(Last(lines)) /\ Last(lines) \in Entry)
<1>1. lines \in Seq(Line)
  BY DEF TypeOK, Line
<1>2. CASE lines = <<>>
  BY <1>2 DEF TailHash, ZeroHash, Hash
<1>3. CASE lines # <<>>
  <2>1. IsEntry(Last(lines)) /\ Last(lines) \in Line
    BY <1>1, <1>3, LastLine DEF TailRaises
  <2>2. Last(lines) \in Entry
    BY <2>1, LineKinds
  <2>. QED
    BY <1>3, <2>1, <2>2, HashOfType DEF TailHash
<1>. QED
  BY <1>2, <1>3

\* A non-empty set of numbers has a least element.
LEMMA LeastNumber ==
  ASSUME NEW S, S \subseteq Nat, S # {}
  PROVE  \E m \in S : \A k \in S : m <= k
<1>. DEFINE less == OpToRel(<, Nat)
<1>1. IsWellFoundedOn(less, Nat)
  BY NatLessThanWellFounded
<1>2. PICK m \in S : \A k \in S : ~(<<k, m>> \in less)
  <2>. HIDE DEF less
  <2>. QED
    BY <1>1, WFMin
<1>3. \A k \in S : ~(k < m)
  BY <1>2 DEF OpToRel
<1>. QED
  BY <1>3

\* So a non-empty set of line numbers has a greatest one.
LEMMA GreatestNumber ==
  ASSUME NEW n \in Nat, NEW S, S \subseteq 1..n, S # {}
  PROVE  \E i \in S : \A k \in S : k <= i
<1>1. PICK up : up = {n - i : i \in S}
  OBVIOUS
<1>2. up # {} /\ up \subseteq Nat
  <2>1. \A i \in S : n - i \in Nat
    OBVIOUS
  <2>. QED
    BY <1>1, <2>1
<1>3. PICK m \in up : \A k \in up : m <= k
  BY <1>2, LeastNumber
<1>4. PICK i \in S : m = n - i
  BY <1>1, <1>3
<1>5. ASSUME NEW k \in S PROVE k <= i
  <2>1. m <= n - k
    BY <1>1, <1>3
  <2>. QED
    BY <1>4, <2>1
<1>. QED
  BY <1>5

\* The digest an epoch continues from is one (get_epoch_digest).
LEMMA DigestType ==
  ASSUME TypeOK, NEW w \in Writer
  PROVE  StoredDigest \in Digest \cup {NoDigest} /\ PreviousDigest(w) \in Digest
<1>1. lines \in Seq(Line)
  BY DEF TypeOK, Line
<1>2. StoredDigest \in Digest \cup {NoDigest}
  <2>. DEFINE at == {i \in DOMAIN lines : HasDigest(lines[i])}
              last == CHOOSE i \in at : \A k \in at : k <= i
  <2>1. CASE at = {}
    BY <2>1 DEF StoredDigest
  <2>2. CASE at # {}
    <3>1. Len(lines) \in Nat /\ at \subseteq 1..Len(lines)
      BY <1>1
    <3>2. \E i \in at : \A k \in at : k <= i
      <4>. HIDE DEF at
      <4>. QED
        BY <2>2, <3>1, GreatestNumber
    <3>3. last \in at
      BY <3>2
    <3>4. lines[last] \in Line /\ IsEntry(lines[last])
      BY <1>1, <3>3, ElementOfSeq DEF HasDigest
    <3>5. lines[last].digest \in Digest \cup {NoDigest}
      BY <3>4, LineKinds DEF Entry
    <3>. QED
      BY <2>2, <3>5 DEF StoredDigest
  <2>. QED
    BY <2>1, <2>2
<1>3. index[w] \in Digest \cup {NoDigest}
  BY DEF TypeOK
<1>. QED
  BY <1>2, <1>3 DEF PreviousDigest, Digest

\* Text goes on the last line if that has no newline, else on one of its own.
LEMMA WithTextFacts ==
  ASSUME TypeOK, OpenLine, NEW x \in Line
  PROVE  /\ WithText(x) \in Seq(Line) /\ WithText(x) # <<>>
         /\ open => /\ lines # <<>> /\ Len(WithText(x)) = Len(lines)
                    /\ \A i \in 1..(Len(lines) - 1) : WithText(x)[i] = lines[i]
                    /\ WithText(x)[Len(lines)] = Joined
         /\ ~open => /\ Len(WithText(x)) = Len(lines) + 1
                     /\ \A i \in 1..Len(lines) : WithText(x)[i] = lines[i]
                     /\ WithText(x)[Len(lines) + 1] = x
<1>1. lines \in Seq(Line) /\ Joined \in Line /\ open \in BOOLEAN
  BY DEF TypeOK, Line
<1>2. CASE open
  <2>1. lines # <<>> /\ WithText(x) = [lines EXCEPT ![Len(lines)] = Joined]
    BY <1>2 DEF OpenLine, WithText
  <2>. QED
    BY <1>1, <1>2, <2>1, ReplaceLast
<1>3. CASE ~open
  <2>1. WithText(x) = Append(lines, x)
    BY <1>3 DEF WithText
  <2>. QED
    BY <1>1, <1>3, <2>1, AddLine
<1>. QED
  BY <1>2, <1>3

\* The rest of a line turns its fragment into the entry (Completed).
LEMMA CompletedFacts ==
  ASSUME TypeOK, NEW w \in Writer, lines # <<>>
  PROVE  /\ Completed(w) \in Seq(Line) /\ Completed(w) # <<>>
         /\ Len(Completed(w)) = Len(lines)
         /\ \A i \in 1..(Len(lines) - 1) : Completed(w)[i] = lines[i]
         /\ Completed(w)[Len(lines)] = IF lines[Len(lines)] = Joined THEN Joined ELSE NewEntry(w)
<1>1. lines \in Seq(Line) /\ NewEntry(w) \in Line
  BY NewEntryType DEF TypeOK, Line
<1>2. Last(lines) = lines[Len(lines)] /\ Len(lines) \in Nat \ {0}
  BY <1>1, LastLine
<1>3. CASE Last(lines) = Joined
  BY <1>1, <1>2, <1>3 DEF Completed
<1>4. CASE Last(lines) # Joined
  <2>1. Completed(w) = [lines EXCEPT ![Len(lines)] = NewEntry(w)]
    BY <1>4 DEF Completed
  <2>. QED
    BY <1>1, <1>2, <1>4, <2>1, ReplaceLast
<1>. QED
  BY <1>3, <1>4

\* What an interrupted write leaves is a file (LeftBehind).
LEMMA LeftBehindType ==
  ASSUME TypeOK, OpenLine, HolderKnows, NEW w \in Writer, NEW f \in LeftBehind(w)
  PROVE  f \in Seq(Line)
<1>1. lines \in Seq(Line)
  BY DEF TypeOK, Line
<1>2. CASE f = lines
  BY <1>1, <1>2
<1>3. CASE f # lines
  <2>1. pc[w] = "rest" /\ f = Completed(w)
    BY <1>3 DEF LeftBehind
  <2>2. lines # <<>>
    BY <2>1 DEF HolderKnows, Knows, OpenLine
  <2>. QED
    BY <2>1, <2>2, CompletedFacts
<1>. QED
  BY <1>2, <1>3

\* Every step keeps the types.
LEMMA TypeStep ==
  ASSUME TypeOK, OpenLine, HolderKnows, Next
  PROVE  TypeOK'
<1>. USE ParameterAssumption
<1>0. /\ lines \in Seq(Line) /\ job \in [Writer -> Job] /\ Line = Entry \cup {Fragment, Joined}
      /\ \A w \in Writer : job[w].id \in Event /\ job[w].digest \in Digest \cup {NoDigest}
                           /\ job[w].bundle \in BOOLEAN
                           /\ job[w].before \in Hash /\ job[w].attempt \in Nat /\ job[w].from \in Nat
  BY DEF TypeOK, Job, Line
<1>1. ASSUME NEW w \in Writer, NEW d \in Digest \cup {NoDigest}, NEW k \in BOOLEAN,
             Start(w, d, k)
      PROVE  /\ job' \in [Writer -> Job] /\ sent' \in [Writer -> Nat]
             /\ pc' \in [Writer -> Step \cup {"idle"}]
  <2>1. /\ <<w, sent[w] + 1>> \in Event /\ ZeroHash \in Hash /\ Len(lines) \in Nat
    BY <1>0 DEF TypeOK, Event, ZeroHash, Hash
  <2>2. [id |-> <<w, sent[w] + 1>>, digest |-> d, bundle |-> k, before |-> ZeroHash,
         attempt |-> 1, from |-> Len(lines)] \in Job
    BY <2>1 DEF Job
  <2>. QED
    BY <1>1, <2>2 DEF Start, Goto, TypeOK, Step
<1>2. ASSUME NEW w \in Writer, AppendEvent(w) PROVE TypeOK'
  BY <1>1, <1>2 DEF AppendEvent, TypeOK
<1>3. ASSUME NEW w \in Writer, AppendBundle(w) PROVE TypeOK'
  <2>1. /\ StoredDigest \in Digest \cup {NoDigest}
        /\ Append(PreviousDigest(w), <<w, sent[w] + 1>>) \in Digest
    BY DigestType DEF TypeOK, Digest, Event
  <2>2. index' \in [Writer -> Digest \cup {NoDigest}]
    BY <1>3, <2>1 DEF AppendBundle, LookUpDigest, TypeOK
  <2>3. /\ job' \in [Writer -> Job] /\ sent' \in [Writer -> Nat]
        /\ pc' \in [Writer -> Step \cup {"idle"}]
    BY <1>1, <1>3, <2>1 DEF AppendBundle
  <2>. QED
    BY <1>3, <2>2, <2>3 DEF AppendBundle, TypeOK
<1>14. ASSUME NEW w \in Writer, AppendCheckpoint(w) PROVE TypeOK'
  <2>1. StoredDigest \in Digest \cup {NoDigest} /\ PreviousDigest(w) \in Digest
    BY DigestType
  <2>2. index' \in [Writer -> Digest \cup {NoDigest}]
    BY <1>14, <2>1 DEF AppendCheckpoint, LookUpDigest, TypeOK
  <2>3. /\ job' \in [Writer -> Job] /\ sent' \in [Writer -> Nat]
        /\ pc' \in [Writer -> Step \cup {"idle"}]
    BY <1>1, <1>14, <2>1 DEF AppendCheckpoint
  <2>. QED
    BY <1>14, <2>2, <2>3 DEF AppendCheckpoint, TypeOK
<1>4. ASSUME NEW w \in Writer, ScanTail(w) PROVE TypeOK'
  <2>1. CASE TailRaises
    BY <1>4, <2>1 DEF ScanTail, Goto, TypeOK, Step
  <2>2. CASE ~TailRaises
    <3>1. [job[w] EXCEPT !.before = TailHash] \in Job
      BY <1>0, <2>2, TailHashType DEF Job
    <3>. QED
      BY <1>4, <2>2, <3>1 DEF ScanTail, Goto, TypeOK, Step
  <2>. QED
    BY <2>1, <2>2
<1>5. ASSUME NEW w \in Writer, AcquireLock(w) \/ LockTimeout(w) \/ CheckRaises(w) \/ Check(w)
      PROVE  TypeOK'
  BY <1>5 DEF AcquireLock, LockTimeout, CheckRaises, Check, Goto, TypeOK, Step
<1>6. ASSUME NEW w \in Writer, Retry(w) PROVE TypeOK'
  <2>1. [job[w] EXCEPT !.attempt = @ + 1] \in Job
    BY <1>0 DEF Job
  <2>. QED
    BY <1>6, <2>1 DEF Retry, Goto, TypeOK, Step
<1>7. ASSUME NEW w \in Writer, Conflict(w) PROVE TypeOK'
  BY <1>0, <1>7 DEF Conflict, Goto, TypeOK, Step
<1>8. ASSUME NEW w \in Writer, WritePart(w) PROVE TypeOK'
  <2>1. WithText(Fragment) \in Seq(Line)
    BY WithTextFacts DEF Line
  <2>. QED
    BY <1>0, <1>8, <2>1 DEF WritePart, Goto, TypeOK, Step
<1>9. ASSUME NEW w \in Writer, WriteLine(w) PROVE TypeOK'
  <2>1. WithText(NewEntry(w)) \in Seq(Line)
    BY WithTextFacts, NewEntryType DEF Line
  <2>2. pc[w] = "rest" => Completed(w) \in Seq(Line)
    BY CompletedFacts DEF HolderKnows, Knows, OpenLine
  <2>3. lines' \in Seq(Line)
    BY <1>9, <2>1, <2>2 DEF WriteLine
  <2>. QED
    BY <1>0, <1>9, <2>3 DEF WriteLine, Goto, TypeOK, Step
<1>10. ASSUME NEW w \in Writer, WriteFails(w) PROVE TypeOK'
  <2>1. lines' \in Seq(Line)
    BY <1>10, LeftBehindType DEF WriteFails
  <2>. QED
    BY <1>0, <1>10, <2>1 DEF WriteFails, Goto, TypeOK, Step
<1>11. ASSUME NEW w \in Writer, Return(w) PROVE TypeOK'
  <2>1. Append(job[w].before, job[w].id) \in Hash
    BY NewEntryType
  <2>2. index' \in [Writer -> Digest \cup {NoDigest}]
    BY <1>0, <1>11 DEF Return, TypeOK
  <2>. QED
    BY <1>11, <2>1, <2>2 DEF Return, Goto, TypeOK, Step
<1>12. ASSUME NEW w \in Writer, Crash(w) PROVE TypeOK'
  <2>1. lines' \in Seq(Line)
    BY <1>12, LeftBehindType DEF Crash
  <2>2. lock' \in Writer \cup {Unlocked, Orphaned}
    BY <1>12 DEF Crash, TypeOK
  <2>. QED
    BY <1>0, <1>12, <2>1, <2>2 DEF Crash, Goto, TypeOK, Step
<1>13. ASSUME RemoveLock PROVE TypeOK'
  BY <1>13 DEF RemoveLock, TypeOK
<1>. QED
  BY <1>2, <1>3, <1>4, <1>5, <1>6, <1>7, <1>8, <1>9, <1>10, <1>11, <1>12, <1>13, <1>14
  DEF Next, Advance

\* The hash of an undamaged tail covers the whole file.
LEMMA TailLength ==
  ASSUME TypeOK, HashLengths, ~TailRaises
  PROVE  Len(TailHash) = Len(lines)
<1>1. CASE lines = <<>>
  BY <1>1 DEF TailHash, ZeroHash
<1>2. CASE lines # <<>>
  <2>1. /\ IsEntry(lines[Len(lines)]) /\ lines[Len(lines)] \in Entry
        /\ Len(lines) \in Nat \ {0} /\ TailHash = HashOf(lines[Len(lines)])
    BY <1>2, TailHashType, LastLine DEF TypeOK, Line, TailHash
  <2>2. Len(lines[Len(lines)].prev) = Len(lines) - 1
    BY <2>1 DEF HashLengths, TypeOK
  <2>. QED
    BY <2>1, <2>2, HashOfType
<1>. QED
  BY <1>1, <1>2

\* A file that keeps its first n lines, all entries, and has one line behind them that
\* is no entry or chains from them, is intact, and only an entry that was the last
\* line can disappear.
LEMMA FileGrows ==
  ASSUME TypeOK, ChainIntact, HashLengths, lines' \in Seq(Line),
         NEW n \in Nat, n = Len(lines) \/ n = Len(lines) - 1, Len(lines') = n + 1,
         \A i \in 1..n : lines'[i] = lines[i] /\ IsEntry(lines[i]),
         IsEntry(lines'[n + 1]) =>
           lines'[n + 1].prev = IF n = 0 THEN ZeroHash ELSE HashOf(lines[n])
  PROVE  /\ ChainIntact' /\ HashLengths'
         /\ n = Len(lines) \/ ~IsEntry(lines[n + 1]) => StoredHashes \subseteq StoredHashes'
<1>1. /\ lines \in Seq(Line) /\ Len(lines) \in Nat
      /\ DOMAIN lines = 1..Len(lines) /\ DOMAIN lines' = 1..(n + 1)
  BY DEF TypeOK, Line
<1>0. \A i \in 1..n : i \in DOMAIN lines /\ lines'[i] = lines[i] /\ IsEntry(lines[i])
  <2>. DEFINE len == Len(lines)
  <2>1. len \in Nat /\ (n = len \/ n = len - 1)
    BY <1>1
  <2>2. \A i \in 1..n : i \in 1..len
    <3>. HIDE DEF len
    <3>. QED
      BY <2>1
  <2>. QED
    BY <1>1, <2>2
<1>2. ChainIntact'
  <2>1. ASSUME NEW i \in 1..(n + 1), IsEntry(lines'[i])
        PROVE  lines'[i].prev = IF i = 1 THEN ZeroHash ELSE HashOf(lines'[i - 1])
    <3>1. CASE i = n + 1
      <4>1. n # 0 => n \in 1..n /\ lines'[n] = lines[n]
        OBVIOUS
      <4>. QED
        BY <2>1, <3>1, <4>1
    <3>2. CASE i <= n
      <4>1. i \in 1..n /\ (i # 1 => i - 1 \in 1..n)
        BY <3>2
      <4>2. /\ i \in DOMAIN lines /\ lines'[i] = lines[i] /\ IsEntry(lines[i])
            /\ i # 1 => lines'[i - 1] = lines[i - 1]
        BY <1>0, <4>1
      <4>. QED
        BY <4>2 DEF ChainIntact
    <3>. QED
      BY <3>1, <3>2
  <2>2. ASSUME NEW i \in 1..(n + 1), i < n + 1 PROVE IsEntry(lines'[i])
    <3>1. i \in 1..n
      BY <2>2
    <3>. QED
      BY <3>1
  <2>. QED
    BY <1>1, <2>1, <2>2 DEF ChainIntact, IsEntry, HashOf
<1>3. HashLengths'
  <2>1. ASSUME NEW i \in 1..(n + 1), IsEntry(lines'[i])
        PROVE  Len(lines'[i].prev) = i - 1
    <3>1. CASE i <= n
      <4>1. i \in 1..n
        BY <3>1
      <4>2. i \in DOMAIN lines /\ lines'[i] = lines[i] /\ IsEntry(lines[i])
        BY <1>0, <4>1
      <4>. QED
        BY <4>2 DEF HashLengths
    <3>2. CASE i = n + 1 /\ n = 0
      BY <2>1, <3>2 DEF ZeroHash
    <3>3. CASE i = n + 1 /\ n # 0
      <4>0. n \in 1..n
        BY <3>3
      <4>1. n \in DOMAIN lines /\ IsEntry(lines[n]) /\ lines[n] \in Line
        BY <1>0, <1>1, <4>0, ElementOfSeq
      <4>2. lines[n] \in Entry /\ Len(lines[n].prev) = n - 1
        BY <4>1, LineKinds DEF HashLengths
      <4>3. Len(HashOf(lines[n])) = n
        BY <4>2, HashOfType
      <4>. QED
        BY <2>1, <3>3, <4>3
    <3>. QED
      BY <3>1, <3>2, <3>3
  <2>. QED
    BY <1>1, <2>1 DEF HashLengths, IsEntry
<1>4. ASSUME n = Len(lines) \/ ~IsEntry(lines[n + 1])
      PROVE  StoredHashes \subseteq StoredHashes'
  <2>1. ASSUME NEW i \in DOMAIN lines, IsEntry(lines[i])
        PROVE  i \in DOMAIN lines' /\ lines'[i] = lines[i]
    <3>1. i \in 1..Len(lines)
      BY <1>1, <2>1
    <3>2. n = Len(lines) \/ i # n + 1
      BY <1>4, <2>1
    <3>3. i \in 1..n
      <4>1. CASE n = Len(lines)
        BY <3>1, <4>1
      <4>2. CASE n = Len(lines) - 1 /\ i # n + 1
        BY <1>1, <3>1, <4>2
      <4>. QED
        BY <3>2, <4>1, <4>2
    <3>4. lines'[i] = lines[i]
      BY <3>3
    <3>5. i \in 1..(n + 1)
      BY <3>3
    <3>. QED
      BY <1>1, <3>4, <3>5
  <2>. QED
    BY <2>1 DEF StoredHashes, IsEntry, HashOf
<1>. QED
  BY <1>2, <1>3, <1>4

\* The lines before the last are entries, all of them when the tail is undamaged.
LEMMA EarlierLines ==
  ASSUME TypeOK, ChainIntact
  PROVE  /\ Len(lines) \in Nat
         /\ \A i \in 1..(Len(lines) - 1) : IsEntry(lines[i])
         /\ ~TailRaises => \A i \in 1..Len(lines) : IsEntry(lines[i])
<1>1. lines \in Seq(Line) /\ Len(lines) \in Nat /\ DOMAIN lines = 1..Len(lines)
  BY DEF TypeOK, Line
<1>2. ASSUME NEW i \in 1..(Len(lines) - 1) PROVE IsEntry(lines[i])
  BY <1>1 DEF ChainIntact
<1>3. ASSUME ~TailRaises, NEW i \in 1..Len(lines) PROVE IsEntry(lines[i])
  <2>1. lines # <<>> /\ Last(lines) = lines[Len(lines)]
    BY <1>1 DEF Last
  <2>2. CASE i = Len(lines)
    BY <1>3, <2>1, <2>2 DEF TailRaises
  <2>3. CASE i # Len(lines)
    <3>. DEFINE len == Len(lines)
    <3>1. len \in Nat /\ i \in 1..len /\ i # len
      BY <1>1, <2>3
    <3>2. i \in 1..(len - 1)
      <4>. HIDE DEF len
      <4>. QED
        BY <3>1
    <3>. QED
      BY <1>2, <3>2
  <2>. QED
    BY <2>2, <2>3
<1>. QED
  BY <1>1, <1>2, <1>3

\* Adding text to the file (WritePart, WriteLine): the first lines stay, the last one is
\* the text, or the junk it makes of an unfinished line.
LEMMA TextAdded ==
  ASSUME TypeOK, FileInv, ~TailRaises, NEW x \in Line, lines' = WithText(x),
         IsEntry(x) => x.prev = TailHash
  PROVE  /\ ChainIntact' /\ HashLengths' /\ lines' # <<>>
         /\ Len(lines') >= Len(lines)
         /\ open => Len(lines') = Len(lines) /\ Last(lines)' = Joined
         /\ ~open => /\ Len(lines') = Len(lines) + 1 /\ Last(lines)' = x
                     /\ Len(lines) # 0 => lines'[Len(lines)] = lines[Len(lines)]
                     /\ StoredHashes \subseteq StoredHashes'
<1>1. /\ lines \in Seq(Line) /\ Len(lines) \in Nat /\ ~IsEntry(Joined)
  BY DEF TypeOK, Line, IsEntry
<1>2. /\ lines' \in Seq(Line) /\ lines' # <<>> /\ Last(lines)' = lines'[Len(lines')]
  BY WithTextFacts, LastLine DEF FileInv, Last
<1>3. CASE open
  <2>. DEFINE n == Len(lines) - 1
  <2>1. /\ n \in Nat /\ n = Len(lines) - 1 /\ Len(lines') = n + 1
        /\ lines'[n + 1] = Joined
        /\ \A i \in 1..n : lines'[i] = lines[i] /\ IsEntry(lines[i])
    BY <1>1, <1>3, WithTextFacts, LastLine, EarlierLines DEF FileInv
  <2>2. ChainIntact' /\ HashLengths'
    <3>. HIDE DEF n
    <3>. QED
      BY <1>1, <1>2, <2>1, FileGrows DEF FileInv
  <2>. QED
    BY <1>1, <1>2, <1>3, <2>1, <2>2
<1>4. CASE ~open
  <2>. DEFINE n == Len(lines)
  <2>1. /\ n \in Nat /\ n = Len(lines) /\ Len(lines') = n + 1 /\ lines'[n + 1] = x
        /\ \A i \in 1..n : lines'[i] = lines[i] /\ IsEntry(lines[i])
    BY <1>1, <1>4, WithTextFacts, EarlierLines DEF FileInv
  <2>2. TailHash = IF n = 0 THEN ZeroHash ELSE HashOf(lines[n])
    BY <1>1, LastLine DEF TailHash
  <2>3. ChainIntact' /\ HashLengths' /\ StoredHashes \subseteq StoredHashes'
    <3>. HIDE DEF n
    <3>. QED
      BY <1>1, <1>2, <2>1, <2>2, FileGrows DEF FileInv
  <2>4. n # 0 => lines'[n] = lines[n]
    <3>1. n # 0 => n \in 1..n
      BY <2>1
    <3>. QED
      BY <2>1, <3>1
  <2>. QED
    BY <1>1, <1>2, <1>4, <2>1, <2>3, <2>4
<1>. QED
  BY <1>3, <1>4 DEF TypeOK

\* The rest of a line (WriteLine, LeftBehind): nothing but a fragment changes.
LEMMA LineCompleted ==
  ASSUME TypeOK, FileInv, HolderKnows, NEW w \in Writer, pc[w] = "rest",
         lines' = Completed(w)
  PROVE  /\ ChainIntact' /\ HashLengths' /\ StoredHashes \subseteq StoredHashes'
         /\ lines # <<>> /\ lines' # <<>> /\ Len(lines') = Len(lines)
         /\ Last(lines) \in {Joined, Fragment}
         /\ Last(lines)' = IF Last(lines) = Joined THEN Joined ELSE NewEntry(w)
<1>1. /\ open /\ ~IsEntry(Last(lines)) /\ lines # <<>>
      /\ Last(lines) = Fragment => job[w].before = TailBefore
  BY DEF HolderKnows, Knows, FileInv, OpenLine
<1>2. /\ lines \in Seq(Line) /\ Len(lines) \in Nat \ {0} /\ Last(lines) = lines[Len(lines)]
      /\ Last(lines) \in Line /\ Last(lines) \in {Joined, Fragment}
  BY <1>1, LastLine, LineKinds DEF TypeOK, Line
<1>3. /\ lines' \in Seq(Line) /\ lines' # <<>> /\ Len(lines') = Len(lines)
      /\ \A i \in 1..(Len(lines) - 1) : lines'[i] = lines[i] /\ IsEntry(lines[i])
      /\ lines'[Len(lines)] = IF Last(lines) = Joined THEN Joined ELSE NewEntry(w)
  BY <1>1, <1>2, CompletedFacts, EarlierLines DEF FileInv
<1>. DEFINE n == Len(lines) - 1
<1>4. /\ n \in Nat /\ n = Len(lines) - 1 /\ Len(lines') = n + 1
      /\ \A i \in 1..n : lines'[i] = lines[i] /\ IsEntry(lines[i])
      /\ lines'[n + 1] = IF Last(lines) = Joined THEN Joined ELSE NewEntry(w)
      /\ ~IsEntry(lines[n + 1])
  BY <1>1, <1>2, <1>3
<1>5. ASSUME IsEntry(lines'[n + 1])
      PROVE  lines'[n + 1].prev = IF n = 0 THEN ZeroHash ELSE HashOf(lines[n])
  <2>1. Last(lines) = Fragment /\ lines'[n + 1] = NewEntry(w)
    BY <1>2, <1>4, <1>5 DEF IsEntry
  <2>2. TailBefore = IF n = 0 THEN ZeroHash ELSE HashOf(lines[n])
    <3>1. Len(lines) < 2 <=> n = 0
      <4>. DEFINE len == Len(lines)
      <4>1. len \in Nat \ {0} /\ n = len - 1
        BY <1>2
      <4>2. len < 2 <=> n = 0
        <5>. HIDE DEF len, n
        <5>. QED
          BY <4>1
      <4>. QED
        BY <4>2
    <3>. QED
      BY <3>1 DEF TailBefore
  <2>. QED
    BY <1>1, <2>1, <2>2, NewEntryType
<1>6. ChainIntact' /\ HashLengths' /\ StoredHashes \subseteq StoredHashes'
  <2>. HIDE DEF n
  <2>. QED
    BY <1>3, <1>4, <1>5, FileGrows DEF FileInv
<1>7. Last(lines)' = lines'[Len(lines')]
  BY <1>3, LastLine DEF Last
<1>. QED
  BY <1>1, <1>2, <1>3, <1>6, <1>7

\* A step of w that leaves file and acknowledgements alone keeps what the others know.
LEMMA QuietStep ==
  ASSUME IInv, TypeOK', UNCHANGED <<lines, open, acked>>, NEW w \in Writer,
         \A u \in Writer \ {w} : pc'[u] = pc[u] /\ job'[u] = job[u],
         LockHeld', Knows(w)', IsPast(w)', Paid(w)'
  PROVE  IInv'
<1>1. ChainIntact' /\ HashLengths' /\ OpenLine' /\ CommittedStays'
  BY DEF IInv, ChainIntact, HashLengths, OpenLine, CommittedStays, IsEntry, HashOf,
         StoredHashes, Spoiled
<1>2. ASSUME NEW u \in Writer \ {w} PROVE Knows(u)' /\ IsPast(u)' /\ Paid(u)'
  <2>1. Knows(u) /\ IsPast(u) /\ Paid(u) /\ pc'[u] = pc[u] /\ job'[u] = job[u]
    BY DEF IInv, HolderKnows, BeforeIsPast, AttemptsArePaid
  <2>. QED
    BY <2>1 DEF Knows, IsPast, Paid, TailRaises, TailHash, TailBefore, IsEntry, HashOf,
                StoredHashes, Spoiled
<1>. QED
  BY <1>1, <1>2 DEF IInv, HolderKnows, BeforeIsPast, AttemptsArePaid

\* A step of w in which the file grows under its lock keeps what the others know.
LEMMA LockedStep ==
  ASSUME IInv, TypeOK', ChainIntact', HashLengths', OpenLine', CommittedStays',
         NEW w \in Writer, lock = w,
         \A u \in Writer \ {w} : pc'[u] = pc[u] /\ job'[u] = job[u],
         lines' # <<>>,
         \/ Len(lines') = Len(lines) + 1
         \/ /\ Len(lines') = Len(lines) /\ lines # <<>>
            /\ Last(lines)' = Joined \/ Last(lines) = Fragment \/ Last(lines)' = Last(lines),
         LockHeld', Knows(w)', IsPast(w)', Paid(w)'
  PROVE  IInv'
<1>1. ASSUME NEW u \in Writer \ {w} PROVE Knows(u)' /\ IsPast(u)' /\ Paid(u)'
  <2>1. IsPast(u) /\ Paid(u) /\ pc'[u] = pc[u] /\ job'[u] = job[u]
    BY DEF IInv, BeforeIsPast, AttemptsArePaid
  <2>2. pc[u] \notin Holding
    BY DEF IInv, LockHeld
  <2>3. Knows(u)'
    BY <2>1, <2>2 DEF Knows, Holding
  <2>4. /\ Len(lines) \in Nat /\ Len(job[u].before) \in Nat
        /\ job[u].from \in Nat /\ job[u].attempt \in Nat
    <3>1. job[u] \in Job /\ lines \in Seq(Line)
      BY DEF IInv, TypeOK, Line
    <3>2. job[u].before \in Seq(Event) /\ job[u].from \in Nat /\ job[u].attempt \in Nat
      BY <3>1 DEF Job, Hash
    <3>. QED
      BY <3>1, <3>2
  <2>5. Len(lines') >= Len(lines) /\ Len(lines') \in Nat
    BY <2>4 DEF TypeOK
  <2>6. Paid(u)'
    BY <2>1, <2>4, <2>5 DEF Paid
  <2>7. IsPast(u)'
    <3>. SUFFICES ASSUME pc[u] = "lock" PROVE IsPast(u)'
      BY <2>1, <2>2 DEF IsPast, Holding
    <3>1. Len(job[u].before) \in (job[u].from + job[u].attempt - 1)..Len(lines)
      BY <2>1 DEF IsPast
    <3>2. Len(job[u].before) \in (job[u].from + job[u].attempt - 1)..Len(lines')
      <4>. DEFINE b == Len(job[u].before)
                  low == job[u].from + job[u].attempt - 1
                  m == Len(lines)
                  n == Len(lines')
      <4>1. b \in low..m /\ m <= n /\ m \in Nat /\ n \in Nat /\ low \in Int /\ b \in Nat
        BY <2>4, <2>5, <3>1
      <4>2. b \in low..n
        <5>. HIDE DEF b, low, m, n
        <5>. QED
          BY <4>1
      <4>. QED
        BY <4>2
    <3>3. ASSUME Len(job[u].before) = Len(lines')
          PROVE  Last(lines)' = Joined \/ (IsEntry(Last(lines)') /\ HashOf(Last(lines)') = job[u].before)
      <4>1. Len(lines') = Len(lines)
        BY <2>4, <2>5, <3>1, <3>3
      <4>2. /\ lines # <<>>
            /\ Last(lines)' = Joined \/ Last(lines) = Fragment \/ Last(lines)' = Last(lines)
        BY <2>4, <4>1
      <4>3. Last(lines) = Joined \/ (IsEntry(Last(lines)) /\ HashOf(Last(lines)) = job[u].before)
        BY <2>1, <3>3, <4>1, <4>2 DEF IsPast
      <4>. QED
        BY <4>2, <4>3, NameAssumption DEF IsEntry
    <3>. QED
      BY <2>1, <3>2, <3>3 DEF IsPast, IsEntry, HashOf
  <2>. QED
    BY <2>3, <2>6, <2>7
<1>. QED
  BY <1>1 DEF IInv, HolderKnows, BeforeIsPast, AttemptsArePaid

\* The numbers a writer keeps.
LEMMA JobFacts ==
  ASSUME TypeOK, NEW w \in Writer
  PROVE  /\ pc \in [Writer -> Step \cup {"idle"}] /\ job \in [Writer -> Job]
         /\ job[w].from \in Nat /\ job[w].attempt \in Nat /\ Len(job[w].before) \in Nat
         /\ Len(lines) \in Nat /\ lock \in Writer \cup {Unlocked, Orphaned}
         /\ Unlocked \notin Writer /\ Orphaned \notin Writer
<1>1. job[w] \in Job /\ lines \in Seq(Line)
  BY DEF TypeOK, Line
<1>2. job[w].before \in Seq(Event) /\ job[w].from \in Nat /\ job[w].attempt \in Nat
  BY <1>1 DEF Job, Hash
<1>. QED
  BY <1>1, <1>2, NameAssumption DEF TypeOK

\* Steps outside the lock (append_event up to _file_lock).
LEMMA OutsideLock ==
  ASSUME IInv, TypeOK', NEW w \in Writer,
         AppendEvent(w) \/ AppendBundle(w) \/ AppendCheckpoint(w) \/ ScanTail(w) \/ LockTimeout(w)
  PROVE  IInv'
<1>. USE JobFacts DEF IInv
<1>0. /\ UNCHANGED <<lines, open, acked, lock>>
      /\ \A u \in Writer \ {w} : pc'[u] = pc[u] /\ job'[u] = job[u]
      /\ pc[w] \notin Holding /\ pc'[w] \notin Holding
  BY DEF AppendEvent, AppendBundle, AppendCheckpoint, ScanTail, LockTimeout, Start, Goto, Holding
<1>1. LockHeld'
  BY <1>0 DEF LockHeld
<1>2. Knows(w)'
  BY <1>0 DEF Knows, Holding
<1>3. Paid(w)' /\ IsPast(w)'
  <2>1. CASE AppendEvent(w) \/ AppendBundle(w) \/ AppendCheckpoint(w)
    <3>1. pc'[w] = "scan" /\ job'[w].from = Len(lines) /\ job'[w].attempt = 1 /\ lines' = lines
      BY <2>1 DEF AppendEvent, AppendBundle, AppendCheckpoint, LookUpDigest, Start, Goto
    <3>. QED
      BY <3>1 DEF Paid, IsPast
  <2>2. CASE LockTimeout(w) \/ (ScanTail(w) /\ TailRaises)
    <3>1. pc'[w] = "idle"
      BY <2>2 DEF LockTimeout, ScanTail, Goto
    <3>. QED
      BY <3>1 DEF Paid, IsPast
  <2>3. CASE ScanTail(w) /\ ~TailRaises
    <3>1. /\ pc[w] = "scan" /\ pc'[w] = "lock" /\ lines' = lines /\ job'[w].before = TailHash
          /\ job'[w].from = job[w].from /\ job'[w].attempt = job[w].attempt
      <4>1. job' = [job EXCEPT ![w].before = TailHash] /\ job[w] \in Job
        BY <2>3 DEF ScanTail
      <4>2. job'[w] = [job[w] EXCEPT !.before = TailHash]
        BY <4>1
      <4>. QED
        BY <2>3, <4>1, <4>2 DEF ScanTail, Goto, Job
    <3>2. Len(job'[w].before) = Len(lines)
      BY <2>3, <3>1, TailLength
    <3>3. Len(lines) >= job[w].from + job[w].attempt - 1
      BY <3>1 DEF AttemptsArePaid, Paid
    <3>4. lines # <<>> => IsEntry(Last(lines)) /\ HashOf(Last(lines)) = TailHash
      BY <2>3, TailHashType DEF TailHash
    <3>. QED
      BY <3>1, <3>2, <3>3, <3>4 DEF Paid, IsPast, IsEntry, HashOf
  <2>. QED
    BY <2>1, <2>2, <2>3
<1>. QED
  BY <1>0, <1>1, <1>2, <1>3, QuietStep

\* Taking the lock and what follows the second scan.
LEMMA UnderLock ==
  ASSUME IInv, TypeOK', NEW w \in Writer,
         AcquireLock(w) \/ CheckRaises(w) \/ Retry(w) \/ Conflict(w) \/ Check(w)
  PROVE  IInv'
<1>. USE JobFacts DEF IInv
<1>0. /\ UNCHANGED <<lines, open, acked>>
      /\ \A u \in Writer \ {w} : pc'[u] = pc[u] /\ job'[u] = job[u]
  BY DEF AcquireLock, CheckRaises, Retry, Conflict, Check, Goto
<1>1. CASE AcquireLock(w)
  <2>1. /\ lock = Unlocked /\ lock' = w /\ pc[w] = "lock" /\ pc'[w] = "check" /\ job' = job
    BY <1>1 DEF AcquireLock, LockFree, Goto
  <2>2. LockHeld'
    BY <1>0, <2>1 DEF LockHeld, Holding
  <2>3. Knows(w)' /\ IsPast(w)' /\ Paid(w)'
    BY <1>0, <2>1 DEF Knows, IsPast, Paid, BeforeIsPast, AttemptsArePaid, IsEntry, HashOf
  <2>. QED
    BY <1>0, <2>2, <2>3, QuietStep
<1>2. CASE CheckRaises(w) \/ Conflict(w)
  <2>1. /\ lock = w /\ lock' = Unlocked /\ pc[w] = "check" /\ pc'[w] = "idle"
    BY <1>2 DEF CheckRaises, Conflict, Goto, LockHeld, Holding
  <2>2. LockHeld'
    BY <1>0, <2>1 DEF LockHeld, Holding
  <2>3. Knows(w)' /\ IsPast(w)' /\ Paid(w)'
    BY <2>1 DEF Knows, IsPast, Paid
  <2>. QED
    BY <1>0, <2>2, <2>3, QuietStep
<1>3. CASE Retry(w)
  <2>1. /\ lock = w /\ lock' = Unlocked /\ pc[w] = "check" /\ pc'[w] = "scan"
        /\ ~TailRaises /\ job[w].before # TailHash /\ lines' = lines
        /\ job'[w].from = job[w].from /\ job'[w].attempt = job[w].attempt + 1
    BY <1>3 DEF Retry, TailMoved, Goto, LockHeld, Holding
  <2>2. LockHeld'
    BY <1>0, <2>1 DEF LockHeld, Holding
  <2>3. IsPast(w)
    BY DEF BeforeIsPast
  <2>4. Len(job[w].before) # Len(lines)
    <3>1. CASE lines = <<>>
      <4>1. job[w].before \in Seq(Event)
        BY DEF TypeOK, Job, Hash
      <4>. QED
        BY <2>1, <3>1, <4>1 DEF TailHash, ZeroHash
    <3>2. CASE lines # <<>>
      <4>1. IsEntry(Last(lines)) /\ HashOf(Last(lines)) = TailHash
        BY <2>1, <3>2, TailHashType DEF TailHash
      <4>2. Last(lines) # Joined
        BY <4>1 DEF IsEntry
      <4>. QED
        BY <2>1, <2>3, <3>2, <4>1, <4>2 DEF IsPast
    <3>. QED
      BY <3>1, <3>2
  <2>5. Len(lines) >= job[w].from + job[w].attempt
    <3>1. Len(job[w].before) \in (job[w].from + job[w].attempt - 1)..Len(lines)
      BY <2>1, <2>3 DEF IsPast
    <3>. DEFINE b == Len(job[w].before)
                low == job[w].from + job[w].attempt
                m == Len(lines)
    <3>2. b \in (low - 1)..m /\ b # m /\ b \in Nat /\ m \in Nat /\ low \in Nat
      BY <2>4, <3>1
    <3>3. m >= low
      <4>. HIDE DEF b, low, m
      <4>. QED
        BY <3>2
    <3>. QED
      BY <3>3
  <2>6. Knows(w)' /\ IsPast(w)' /\ Paid(w)'
    BY <2>1, <2>5 DEF Knows, IsPast, Paid
  <2>. QED
    BY <1>0, <2>2, <2>6, QuietStep
<1>4. CASE Check(w)
  <2>1. /\ lock' = lock /\ pc[w] = "check" /\ pc'[w] = "write" /\ job' = job
        /\ ~TailRaises /\ job[w].before = TailHash
    BY <1>4 DEF Check, TailMoved, Goto
  <2>2. LockHeld'
    BY <1>0, <2>1 DEF LockHeld, Holding
  <2>3. Knows(w)' /\ IsPast(w)' /\ Paid(w)'
    BY <1>0, <2>1 DEF Knows, IsPast, Paid, AttemptsArePaid, TailRaises, TailHash, IsEntry, HashOf
  <2>. QED
    BY <1>0, <2>2, <2>3, QuietStep
<1>. QED
  BY <1>1, <1>2, <1>3, <1>4

\* Writing, in one part or two (WritePart, WriteLine).
LEMMA WriteStep ==
  ASSUME IInv, TypeOK', NEW w \in Writer, WritePart(w) \/ WriteLine(w)
  PROVE  IInv'
<1>. USE JobFacts DEF IInv
<1>0. /\ UNCHANGED <<job, lock, acked>> /\ pc[w] \in {"write", "rest"} /\ lock = w
      /\ \A u \in Writer \ {w} : pc'[u] = pc[u] /\ job'[u] = job[u]
      /\ pc'[w] \in {"rest", "unlock"} /\ FileInv /\ Fragment # Joined
  BY NameAssumption DEF WritePart, WriteLine, Goto, LockHeld, Holding, FileInv
<1>1. LockHeld'
  BY <1>0 DEF LockHeld, Holding
<1>2. Knows(w) /\ Paid(w)
  BY DEF HolderKnows, AttemptsArePaid
<1>3. CASE WritePart(w)
  <2>1. /\ lines' = WithText(Fragment) /\ open' /\ pc'[w] = "rest"
        /\ ~TailRaises /\ job[w].before = TailHash
        /\ Fragment \in Line /\ ~IsEntry(Fragment) /\ ~IsEntry(Joined)
    BY <1>2, <1>3 DEF WritePart, Goto, Knows, Line, IsEntry
  <2>2. /\ ChainIntact' /\ HashLengths' /\ lines' # <<>> /\ Len(lines') >= Len(lines)
        /\ open => Len(lines') = Len(lines) /\ Last(lines)' = Joined
        /\ ~open => /\ Len(lines') = Len(lines) + 1 /\ Last(lines)' = Fragment
                    /\ Len(lines) # 0 => lines'[Len(lines)] = lines[Len(lines)]
                    /\ StoredHashes \subseteq StoredHashes'
    BY <1>0, <2>1, TextAdded
  <2>3. OpenLine'
    BY <2>1, <2>2 DEF OpenLine
  <2>4. lines # <<>> => Last(lines) = lines[Len(lines)] /\ IsEntry(Last(lines)) /\ ~Spoiled
    BY <2>1, TailHashType, LastLine DEF TypeOK, Line, Spoiled
  <2>5. CommittedStays'
    <3>1. CASE open
      BY <2>2, <3>1 DEF CommittedStays, Spoiled
    <3>2. CASE ~open
      <4>1. ~Spoiled
        BY <2>4 DEF Spoiled
      <4>. QED
        BY <1>0, <2>2, <3>2, <4>1 DEF CommittedStays
    <3>. QED
      BY <3>1, <3>2
  <2>6. Knows(w)'
    <3>1. Last(lines)' = Fragment => job'[w].before = TailBefore'
      <4>. SUFFICES ASSUME Last(lines)' = Fragment PROVE job[w].before = TailBefore'
        BY <1>0
      <4>1. ~open /\ Len(lines') = Len(lines) + 1
        BY <1>0, <2>2
      <4>2. CASE Len(lines) = 0
        <5>1. lines = <<>>
          BY <4>2 DEF TypeOK
        <5>. QED
          BY <2>1, <4>1, <4>2, <5>1 DEF TailBefore, TailHash
      <4>3. CASE Len(lines) # 0
        <5>1. lines # <<>> /\ lines'[Len(lines)] = lines[Len(lines)]
          BY <2>2, <4>1, <4>3
        <5>2. TailHash = HashOf(lines[Len(lines)])
          BY <2>4, <5>1 DEF TailHash
        <5>3. TailBefore' = HashOf(lines'[Len(lines)])
          <6>. DEFINE len == Len(lines)
                      long == Len(lines')
          <6>1. len \in Nat /\ len # 0 /\ long = len + 1
            BY <4>1, <4>3
          <6>2. ~(long < 2) /\ long - 1 = len
            <7>. HIDE DEF len, long
            <7>. QED
              BY <6>1
          <6>. QED
            BY <6>2 DEF TailBefore, HashOf
        <5>. QED
          BY <2>1, <5>1, <5>2, <5>3
      <4>. QED
        BY <4>2, <4>3
    <3>2. ~IsEntry(Last(lines)')
      BY <1>0, <2>1, <2>2 DEF TypeOK
    <3>. QED
      BY <2>1, <3>1, <3>2 DEF Knows, IsEntry
  <2>7. Paid(w)' /\ IsPast(w)'
    BY <1>0, <1>2, <2>1, <2>2 DEF Paid, IsPast, TypeOK
  <2>8. \/ Len(lines') = Len(lines) + 1
        \/ Len(lines') = Len(lines) /\ lines # <<>> /\ Last(lines)' = Joined
    BY <2>2 DEF OpenLine, TypeOK
  <2>. QED
    BY <1>0, <1>1, <2>2, <2>3, <2>5, <2>6, <2>7, <2>8, LockedStep
<1>4. CASE WriteLine(w)
  <2>0. /\ pc'[w] = "unlock" /\ ~open' /\ job' = job
        /\ NewEntry(w) \in Line /\ IsEntry(NewEntry(w)) /\ NewEntry(w).prev = job[w].before
        /\ HashOf(NewEntry(w)) = Append(job[w].before, job[w].id)
        /\ NewEntry(w) # Fragment /\ NewEntry(w) # Joined
    BY <1>4, NewEntryType DEF WriteLine, Goto, Line, IsEntry
  <2>1. /\ ChainIntact' /\ HashLengths' /\ lines' # <<>> /\ Len(lines') >= Len(lines)
        /\ \/ Last(lines)' = Joined
           \/ Last(lines)' = NewEntry(w) /\ StoredHashes \subseteq StoredHashes'
        /\ \/ Len(lines') = Len(lines) + 1
           \/ /\ Len(lines') = Len(lines) /\ lines # <<>>
              /\ Last(lines)' = Joined \/ Last(lines) = Fragment
        /\ Spoiled => Spoiled'
    <3>1. CASE pc[w] = "write"
      <4>1. lines' = WithText(NewEntry(w)) /\ ~TailRaises /\ job[w].before = TailHash
        BY <1>2, <1>4, <3>1 DEF WriteLine, Knows
      <4>2. ~Spoiled
        BY <4>1 DEF Spoiled, TailRaises, IsEntry
      <4>3. open => lines # <<>>
        BY DEF OpenLine
      <4>. QED
        BY <1>0, <2>0, <4>1, <4>2, <4>3, TextAdded DEF TypeOK
    <3>2. CASE pc[w] = "rest"
      <4>1. lines' = Completed(w)
        BY <1>4, <3>2 DEF WriteLine
      <4>2. /\ ChainIntact' /\ HashLengths' /\ StoredHashes \subseteq StoredHashes'
            /\ lines # <<>> /\ lines' # <<>> /\ Len(lines') = Len(lines)
            /\ Last(lines) \in {Joined, Fragment}
            /\ Last(lines)' = IF Last(lines) = Joined THEN Joined ELSE NewEntry(w)
        BY <1>0, <3>2, <4>1, LineCompleted
      <4>. QED
        BY <1>0, <4>2 DEF Spoiled
    <3>. QED
      BY <1>0, <3>1, <3>2
  <2>2. OpenLine'
    BY <1>0, <2>0, <2>1 DEF OpenLine
  <2>3. CommittedStays'
    BY <1>0, <2>1 DEF CommittedStays, Spoiled
  <2>4. Knows(w)'
    <3>1. CASE Last(lines)' = Joined
      BY <2>0, <2>1, <3>1 DEF Knows, Spoiled
    <3>2. CASE Last(lines)' = NewEntry(w)
      <4>1. lines' \in Seq(Line) /\ Last(lines)' = lines'[Len(lines')] /\ Len(lines') \in DOMAIN lines'
        BY <2>1, LastLine DEF TypeOK, Line, Last
      <4>2. Append(job[w].before, job[w].id) \in StoredHashes'
        BY <2>0, <3>2, <4>1 DEF StoredHashes, IsEntry, HashOf
      <4>. QED
        BY <2>0, <4>2 DEF Knows
    <3>. QED
      BY <2>1, <3>1, <3>2
  <2>5. Paid(w)' /\ IsPast(w)'
    BY <1>0, <1>2, <2>0, <2>1 DEF Paid, IsPast, TypeOK
  <2>. QED
    BY <1>0, <1>1, <2>1, <2>2, <2>3, <2>4, <2>5, LockedStep
<1>. QED
  BY <1>3, <1>4

\* A write that raises and a process that dies (WriteFails, Crash).
LEMMA Interrupted ==
  ASSUME IInv, TypeOK', NEW w \in Writer, WriteFails(w) \/ Crash(w)
  PROVE  IInv'
<1>. USE JobFacts DEF IInv
<1>0. /\ UNCHANGED <<open, acked, job>> /\ lines' \in LeftBehind(w) /\ pc'[w] = "idle"
      /\ \A u \in Writer \ {w} : pc'[u] = pc[u] /\ job'[u] = job[u]
  BY DEF WriteFails, Crash, Goto
<1>2. LockHeld'
  <2>1. (lock # w /\ lock' = lock) \/ (lock = w /\ lock' \in {Unlocked, Orphaned})
    BY DEF WriteFails, Crash, LockHeld, Holding
  <2>. QED
    BY <1>0, <2>1 DEF LockHeld, Holding
<1>3. Knows(w)' /\ IsPast(w)' /\ Paid(w)'
  BY <1>0 DEF Knows, IsPast, Paid
<1>4. CASE lines' = lines
  BY <1>0, <1>2, <1>3, <1>4, QuietStep
<1>5. CASE lines' # lines
  <2>1. pc[w] = "rest" /\ lines' = Completed(w) /\ lock = w /\ FileInv
    BY <1>0, <1>5 DEF LeftBehind, LockHeld, Holding, FileInv
  <2>2. /\ ChainIntact' /\ HashLengths' /\ StoredHashes \subseteq StoredHashes'
        /\ lines # <<>> /\ lines' # <<>> /\ Len(lines') = Len(lines)
        /\ Last(lines) \in {Joined, Fragment}
        /\ Last(lines)' = IF Last(lines) = Joined THEN Joined ELSE NewEntry(w)
    BY <2>1, LineCompleted
  <2>3. NewEntry(w) \notin {Joined, Fragment} /\ Joined # Fragment
    BY NewEntryType, NameAssumption DEF IsEntry
  <2>4. OpenLine' /\ CommittedStays'
    BY <1>0, <2>1, <2>2, <2>3 DEF OpenLine, CommittedStays, Spoiled, HolderKnows, Knows
  <2>5. \/ Last(lines)' = Joined
        \/ Last(lines) = Fragment
    BY <2>2
  <2>. QED
    BY <1>0, <1>2, <1>3, <2>1, <2>2, <2>4, <2>5, LockedStep
<1>. QED
  BY <1>4, <1>5

\* The end of an append, and the removal of a dead process's lock file.
LEMMA Finish ==
  ASSUME IInv, TypeOK', (\E w \in Writer : Return(w)) \/ RemoveLock
  PROVE  IInv'
<1>. USE JobFacts DEF IInv
<1>1. ASSUME NEW w \in Writer, Return(w) PROVE IInv'
  <2>0. /\ UNCHANGED <<lines, open, job>> /\ pc[w] = "unlock" /\ pc'[w] = "idle"
        /\ lock = w /\ lock' = Unlocked
        /\ \A u \in Writer \ {w} : pc'[u] = pc[u]
        /\ acked' = acked \cup {Append(job[w].before, job[w].id)}
    BY <1>1 DEF Return, Goto, LockHeld, Holding
  <2>1. LockHeld'
    BY <2>0 DEF LockHeld, Holding
  <2>2. CommittedStays'
    BY <2>0 DEF HolderKnows, Knows, CommittedStays, Spoiled, StoredHashes, IsEntry, HashOf
  <2>3. ChainIntact' /\ HashLengths' /\ OpenLine'
    BY <2>0 DEF ChainIntact, HashLengths, OpenLine, IsEntry, HashOf
  <2>4. ASSUME NEW u \in Writer PROVE Knows(u)' /\ IsPast(u)' /\ Paid(u)'
    <3>1. CASE u = w
      BY <2>0, <3>1 DEF Knows, IsPast, Paid
    <3>2. CASE u # w
      <4>1. Knows(u) /\ IsPast(u) /\ Paid(u) /\ pc'[u] = pc[u]
        BY <2>0, <3>2 DEF HolderKnows, BeforeIsPast, AttemptsArePaid
      <4>. QED
        BY <2>0, <4>1 DEF Knows, IsPast, Paid, TailRaises, TailHash, TailBefore, IsEntry,
                          HashOf, StoredHashes, Spoiled
    <3>. QED
      BY <3>1, <3>2
  <2>. QED
    BY <2>1, <2>2, <2>3, <2>4 DEF HolderKnows, BeforeIsPast, AttemptsArePaid
<1>2. ASSUME RemoveLock PROVE IInv'
  <2>0. /\ UNCHANGED <<lines, open, pc, job, acked>> /\ lock = Orphaned /\ lock' = Unlocked
    BY <1>2 DEF RemoveLock
  <2>1. LockHeld'
    BY <2>0 DEF LockHeld
  <2>. QED
    BY <2>0, <2>1 DEF ChainIntact, HashLengths, OpenLine, CommittedStays, HolderKnows,
       BeforeIsPast, AttemptsArePaid, Knows, IsPast, Paid, TailRaises, TailHash, TailBefore,
       IsEntry, HashOf, StoredHashes, Spoiled
<1>. QED
  BY <1>1, <1>2

\* A file that does not exist yet is intact.
LEMMA InitInv == Init => IInv
<1>. SUFFICES ASSUME Init PROVE IInv
  OBVIOUS
<1>. USE ParameterAssumption, NameAssumption
<1>1. TypeOK
  <2>1. [w \in Writer |-> [id |-> <<w, 0>>, digest |-> NoDigest, bundle |-> FALSE,
                           before |-> ZeroHash, attempt |-> 0, from |-> 0]] \in [Writer -> Job]
    BY DEF Job, Event, ZeroHash, Hash
  <2>2. lines \in Seq(Entry \cup {Fragment, Joined}) /\ acked \subseteq Hash /\ lost \subseteq Writer
    BY EmptySeq DEF Init
  <2>3. pc \in [Writer -> Step \cup {"idle"}] /\ index \in [Writer -> Digest \cup {NoDigest}]
    BY DEF Init
  <2>4. sent \in [Writer -> Nat] /\ crashes \in Nat /\ open \in BOOLEAN
    BY DEF Init
  <2>5. lock \in Writer \cup {Unlocked, Orphaned}
    BY DEF Init
  <2>6. job \in [Writer -> Job]
    BY <2>1 DEF Init
  <2>. QED
    BY <2>2, <2>3, <2>4, <2>5, <2>6 DEF TypeOK
<1>2. ChainIntact /\ HashLengths /\ OpenLine /\ CommittedStays
  BY DEF Init, ChainIntact, HashLengths, OpenLine, CommittedStays
<1>3. LockHeld /\ HolderKnows /\ BeforeIsPast /\ AttemptsArePaid
  BY DEF Init, LockHeld, Holding, HolderKnows, Knows, BeforeIsPast, IsPast, AttemptsArePaid, Paid
<1>. QED
  BY <1>1, <1>2, <1>3 DEF IInv

\* Every step of any writer keeps the inductive invariant.
LEMMA StepInv == IInv /\ [Next]_vars => IInv'
<1>. SUFFICES ASSUME IInv, [Next]_vars PROVE IInv'
  OBVIOUS
<1>1. CASE UNCHANGED vars
  <2>. USE <1>1 DEF vars, IInv
  <2>1. TypeOK'
    BY DEF TypeOK
  <2>2. ChainIntact' /\ HashLengths' /\ OpenLine'
    BY DEF ChainIntact, HashLengths, OpenLine, IsEntry, HashOf
  <2>3. CommittedStays'
    BY DEF CommittedStays, StoredHashes, Spoiled, IsEntry, HashOf
  <2>4. LockHeld'
    BY DEF LockHeld, Holding
  <2>5. ASSUME NEW w \in Writer PROVE Knows(w)' /\ IsPast(w)' /\ Paid(w)'
    <3>1. Knows(w) /\ IsPast(w) /\ Paid(w)
      BY DEF HolderKnows, BeforeIsPast, AttemptsArePaid
    <3>. QED
      BY <3>1 DEF Knows, IsPast, Paid, TailRaises, TailHash, TailBefore, IsEntry, HashOf,
                  StoredHashes, Spoiled
  <2>. QED
    BY <2>1, <2>2, <2>3, <2>4, <2>5 DEF HolderKnows, BeforeIsPast, AttemptsArePaid
<1>2. CASE Next
  <2>1. TypeOK'
    BY <1>2, TypeStep DEF IInv
  <2>. QED
    BY <1>2, <2>1, OutsideLock, UnderLock, WriteStep, Interrupted, Finish DEF Next, Advance
<1>. QED
  BY <1>1, <1>2

\* The inductive invariant holds always.
LEMMA Invariance == Spec => []IInv
BY InitInv, StepInv, PTL DEF Spec

\* The ledger's variables keep their types for any writers and any bounds.
THEOREM TypeCorrect == Spec => []TypeOK
<1>1. IInv => TypeOK
  BY DEF IInv
<1>. QED
  BY <1>1, Invariance, PTL

\* Two writers never chain from one tail: all lines but perhaps the last are entries
\* that chain from the first (append_event, _append_with_tail_precondition).
THEOREM ChainAlwaysIntact == Spec => []ChainIntact
<1>1. IInv => ChainIntact
  BY DEF IInv
<1>. QED
  BY <1>1, Invariance, PTL

\* A committed entry stays readable, unless an entry was written behind a line
\* without its newline (append_event's "committed").
THEOREM CommittedEntriesStay == Spec => []CommittedStays
<1>1. IInv => CommittedStays
  BY DEF IInv
<1>. QED
  BY <1>1, Invariance, PTL

\* Each attempt that append_event uses up is a line another writer has stored.
THEOREM RetriesArePaid == Spec => []AttemptsArePaid
<1>1. IInv => AttemptsArePaid
  BY DEF IInv
<1>. QED
  BY <1>1, Invariance, PTL
\* A sequence that agrees with all of p starts with p (IsPrefix).
LEMMA StartsWith ==
  ASSUME NEW p \in Seq(Line), NEW g \in Seq(Line), Len(p) <= Len(g),
         \A i \in 1..Len(p) : g[i] = p[i]
  PROVE  IsPrefix(p, g)
<1>. DEFINE n == Len(p)
<1>1. n \in Nat /\ n <= Len(g) /\ Len(g) \in Nat
  BY LenProperties
<1>2. \A i \in 1..n : g[i] = p[i]
  OBVIOUS
<1>. HIDE DEF n
<1>3. SubSeq(p, 1, n) = [i \in 1..n |-> p[i]]
  BY <1>1
<1>4. SubSeq(g, 1, n) = [i \in 1..n |-> g[i]]
  BY <1>1
<1>5. SubSeq(p, 1, n) = SubSeq(g, 1, n)
  BY <1>2, <1>3, <1>4, Zenon
<1>. QED
  BY <1>1, <1>5 DEF n, IsPrefix

\* The complete lines are those in front of a last one without a newline.
LEMMA WholeFacts ==
  ASSUME TypeOK, OpenLine
  PROVE  /\ Whole \in Seq(Line)
         /\ Len(Whole) = IF open THEN Len(lines) - 1 ELSE Len(lines)
         /\ \A i \in 1..Len(Whole) : Whole[i] = lines[i]
<1>1. lines \in Seq(Line) /\ open \in BOOLEAN
  BY DEF TypeOK, Line
<1>2. CASE open
  <2>. DEFINE n == Len(lines) - 1
  <2>1. n \in Nat /\ n \in 0..Len(lines) /\ lines # <<>>
    BY <1>1, <1>2, LastLine DEF OpenLine
  <2>2. Whole = SubSeq(lines, 1, n)
    BY <1>2 DEF Whole, Front
  <2>. HIDE DEF n
  <2>3. /\ SubSeq(lines, 1, n) \in Seq(Line) /\ Len(SubSeq(lines, 1, n)) = n
        /\ \A i \in 1..n : SubSeq(lines, 1, n)[i] = lines[i]
    BY <1>1, <2>1
  <2>. QED
    BY <1>2, <2>2, <2>3 DEF n
<1>3. CASE ~open
  BY <1>1, <1>3 DEF Whole
<1>. QED
  BY <1>2, <1>3

\* Complete lines never change and a spoiled file never grows (WithText, Completed).
THEOREM WholeLinesAreKept == Spec => WholeLinesStay
<1>. DEFINE Kept == IsPrefix(Whole, lines') /\ (Spoiled /\ ~open => lines' = lines)
<1>1. ASSUME IInv, TypeOK', [Next]_vars PROVE Kept
  <2>. USE DEF IInv
  <2>0. lines \in Seq(Line) /\ lines' \in Seq(Line) /\ open \in BOOLEAN /\ Len(lines) \in Nat
    BY <1>1 DEF TypeOK, Line
  <2>1. \/ lines' = lines
        \/ \E w \in Writer : pc[w] = "write" /\ \E x \in Line : lines' = WithText(x)
        \/ \E w \in Writer : pc[w] = "rest" /\ lines' = Completed(w)
    BY <1>1, NewEntryType DEF Next, Advance, AppendEvent, AppendBundle, AppendCheckpoint, LookUpDigest, Start, ScanTail,
       AcquireLock, LockTimeout, CheckRaises, Retry, Conflict, Check, WritePart, WriteLine,
       WriteFails, LeftBehind, Return, Crash, RemoveLock, vars, Line
  <2>2. CASE lines' = lines
    <3>1. Len(Whole) <= Len(lines') /\ \A i \in 1..Len(Whole) : lines'[i] = Whole[i]
      BY <1>1, <2>0, <2>2, WholeFacts
    <3>. QED
      BY <1>1, <2>0, <2>2, <3>1, WholeFacts, StartsWith
  <2>3. CASE \E w \in Writer : pc[w] = "write" /\ \E x \in Line : lines' = WithText(x)
    <3>1. PICK w \in Writer, x \in Line : pc[w] = "write" /\ lines' = WithText(x)
      BY <2>3
    <3>2. ~TailRaises
      BY <1>1, <3>1 DEF HolderKnows, Knows
    <3>3. ~Spoiled
      BY <3>2 DEF TailRaises, Spoiled, IsEntry
    <3>4. Len(Whole) <= Len(lines') /\ \A i \in 1..Len(Whole) : lines'[i] = Whole[i]
      <4>1. CASE open
        <5>1. /\ Len(WithText(x)) = Len(lines)
              /\ \A i \in 1..(Len(lines) - 1) : WithText(x)[i] = lines[i]
          BY <1>1, <4>1, WithTextFacts
        <5>2. Len(Whole) = Len(lines) - 1 /\ \A i \in 1..Len(Whole) : Whole[i] = lines[i]
          BY <1>1, <4>1, WholeFacts
        <5>. QED
          BY <2>0, <3>1, <5>1, <5>2
      <4>2. CASE ~open
        <5>1. /\ Len(WithText(x)) = Len(lines) + 1
              /\ \A i \in 1..Len(lines) : WithText(x)[i] = lines[i]
          BY <1>1, <4>2, WithTextFacts
        <5>2. Len(Whole) = Len(lines) /\ \A i \in 1..Len(Whole) : Whole[i] = lines[i]
          BY <1>1, <4>2, WholeFacts
        <5>. QED
          BY <2>0, <3>1, <5>1, <5>2
      <4>. QED
        BY <2>0, <4>1, <4>2
    <3>. QED
      BY <1>1, <2>0, <3>3, <3>4, WholeFacts, StartsWith
  <2>4. CASE \E w \in Writer : pc[w] = "rest" /\ lines' = Completed(w)
    <3>1. PICK w \in Writer : pc[w] = "rest" /\ lines' = Completed(w)
      BY <2>4
    <3>2. open /\ lines # <<>>
      BY <1>1, <3>1 DEF HolderKnows, Knows, OpenLine
    <3>3. Len(Whole) <= Len(lines') /\ \A i \in 1..Len(Whole) : lines'[i] = Whole[i]
      <4>1. /\ Len(Completed(w)) = Len(lines)
            /\ \A i \in 1..(Len(lines) - 1) : Completed(w)[i] = lines[i]
        BY <1>1, <3>2, CompletedFacts
      <4>2. Len(Whole) = Len(lines) - 1 /\ \A i \in 1..Len(Whole) : Whole[i] = lines[i]
        BY <1>1, <3>2, WholeFacts
      <4>. QED
        BY <2>0, <3>1, <4>1, <4>2
    <3>. QED
      BY <1>1, <2>0, <3>2, <3>3, WholeFacts, StartsWith
  <2>. QED
    BY <2>1, <2>2, <2>3, <2>4
<1>2. IInv /\ IInv' /\ [Next]_vars => [Kept]_vars
  BY <1>1 DEF IInv
<1>. QED
  BY <1>2, Invariance, PTL DEF Spec, WholeLinesStay

-----------------------------------------------------------------------------
(* The digest of the bundles                                               *)

\* Induction over numbers, for the set of those a predicate holds of: here those of the
\* entries that compute_incremental_epoch_digest has gone through.
LEMMA Induct ==
  ASSUME NEW S, 0 \in S, \A n \in Nat : n \in S => n + 1 \in S
  PROVE  \A n \in Nat : n \in S
<1>. SUFFICES ASSUME NEW m \in Nat, m \notin S PROVE FALSE
  OBVIOUS
<1>1. PICK n \in Nat \ S : \A k \in Nat \ S : n <= k
  BY LeastNumber
<1>2. n - 1 \in Nat /\ ~(n <= n - 1) /\ (n - 1) + 1 = n
  BY <1>1
<1>. QED
  BY <1>1, <1>2

\* One turn of the loop, and the digests after each of the first n.
Turn(f, d, i) == IF IsBundle(f[i]) THEN Append(d[i - 1], f[i].id) ELSE d[i - 1]
Loop(f, n, d) == d = [i \in 0..n |-> IF i = 0 THEN <<>> ELSE Turn(f, d, i)]

\* The loop ends with a digest for each entry (compute_incremental_epoch_digest).
LEMMA LoopDefined == \A f : \A n \in Nat : \E d : Loop(f, n, d)
<1>. SUFFICES ASSUME NEW f PROVE \A n \in Nat : \E d : Loop(f, n, d)
  OBVIOUS
<1>1. PICK S : S = {n \in Nat : \E d : Loop(f, n, d)}
  OBVIOUS
<1>2. 0 \in S
  <2>1. Loop(f, 0, [i \in 0..0 |-> <<>>])
    BY DEF Loop
  <2>. QED
    BY <1>1, <2>1
<1>3. ASSUME NEW n \in Nat, n \in S PROVE n + 1 \in S
  <2>1. PICK d : Loop(f, n, d)
    BY <1>1, <1>3
  <2>2. /\ d[0] = <<>>
        /\ \A i \in 1..n : d[i] = Turn(f, d, i)
    BY <2>1 DEF Loop
  <2>3. PICK e : e = [i \in 0..(n + 1) |-> IF i = n + 1 THEN Turn(f, d, i) ELSE d[i]]
    OBVIOUS
  <2>4. \A i \in 0..n : e[i] = d[i]
    BY <2>3
  <2>5. e[0] = <<>>
    BY <2>2, <2>4
  <2>6. \A i \in 1..(n + 1) : e[i - 1] = d[i - 1]
    BY <2>4
  <2>7. \A i \in 1..(n + 1) : Turn(f, e, i) = Turn(f, d, i)
    BY <2>6 DEF Turn
  <2>8. \A i \in 1..(n + 1) : e[i] = Turn(f, e, i)
    BY <2>2, <2>3, <2>7
  <2>9. \A i \in 0..(n + 1) : e[i] = IF i = 0 THEN <<>> ELSE Turn(f, e, i)
    BY <2>5, <2>8
  <2>10. e = [i \in 0..(n + 1) |-> IF i = 0 THEN <<>> ELSE Turn(f, e, i)]
    BY <2>3, <2>9
  <2>11. Loop(f, n + 1, e)
    BY <2>10 DEF Loop
  <2>. QED
    BY <1>1, <2>11
<1>4. \A n \in Nat : n \in S
  BY <1>2, <1>3, Induct
<1>. QED
  BY <1>1, <1>4

\* What the recomputation of a file's digest yields, entry by entry.
LEMMA DigestsFacts ==
  ASSUME NEW f \in Seq(Line)
  PROVE  /\ DigestsOf(f)[0] = <<>>
         /\ \A i \in 1..Len(f) : DigestsOf(f)[i] = Turn(f, DigestsOf(f), i)
<1>1. PICK n : n = Len(f)
  OBVIOUS
<1>2. DigestsOf(f) = CHOOSE d : Loop(f, n, d)
  BY <1>1 DEF DigestsOf, Loop, Turn
<1>3. n \in Nat /\ \E d : Loop(f, n, d)
  BY <1>1, LoopDefined
<1>4. Loop(f, n, DigestsOf(f))
  BY <1>2, <1>3
<1>5. PICK d : d = DigestsOf(f)
  OBVIOUS
<1>6. /\ d[0] = <<>>
      /\ \A i \in 1..n : d[i] = Turn(f, d, i)
  BY <1>3, <1>4, <1>5 DEF Loop
<1>. QED
  BY <1>1, <1>5, <1>6

\* Files that agree up to a line have the same digest there.
LEMMA DigestsAgree ==
  ASSUME NEW f \in Seq(Line), NEW g \in Seq(Line), NEW n \in Nat, n <= Len(f), n <= Len(g),
         \A i \in 1..n : f[i] = g[i]
  PROVE  \A i \in 0..n : DigestsOf(f)[i] = DigestsOf(g)[i]
<1>1. PICK d, e : d = DigestsOf(f) /\ e = DigestsOf(g)
  OBVIOUS
<1>2. /\ d[0] = <<>> /\ \A i \in 1..n : d[i] = Turn(f, d, i)
      /\ e[0] = <<>> /\ \A i \in 1..n : e[i] = Turn(g, e, i)
  BY <1>1, DigestsFacts
<1>3. PICK S : S = {k \in Nat : k <= n => d[k] = e[k]}
  OBVIOUS
<1>4. 0 \in S
  BY <1>2, <1>3
<1>5. ASSUME NEW k \in Nat, k \in S PROVE k + 1 \in S
  <2>1. k <= n => d[k] = e[k]
    BY <1>3, <1>5
  <2>2. ASSUME k + 1 <= n PROVE d[k + 1] = e[k + 1]
    <3>1. k + 1 \in 1..n /\ (k + 1) - 1 = k /\ k <= n
      BY <2>2
    <3>2. f[k + 1] = g[k + 1] /\ d[(k + 1) - 1] = e[(k + 1) - 1]
      BY <2>1, <3>1
    <3>3. d[k + 1] = Turn(f, d, k + 1) /\ e[k + 1] = Turn(g, e, k + 1)
      BY <1>2, <3>1
    <3>. QED
      BY <3>2, <3>3 DEF Turn
  <2>. QED
    BY <1>3, <2>2
<1>6. \A k \in Nat : k \in S
  BY <1>4, <1>5, Induct
<1>. QED
  BY <1>1, <1>3, <1>6

\* Events that are no bundles leave the digest as it is.
LEMMA DigestStays ==
  ASSUME NEW f \in Seq(Line), NEW k \in Nat, k <= Len(f),
         \A i \in (k + 1)..Len(f) : ~IsBundle(f[i])
  PROVE  DigestsOf(f)[Len(f)] = DigestsOf(f)[k]
<1>1. PICK d, n : d = DigestsOf(f) /\ n = Len(f)
  OBVIOUS
<1>2. /\ n \in Nat /\ k <= n
      /\ \A i \in 1..n : d[i] = Turn(f, d, i)
  BY <1>1, DigestsFacts
<1>3. PICK S : S = {i \in Nat : k + i <= n => d[k + i] = d[k]}
  OBVIOUS
<1>4. 0 \in S
  BY <1>3
<1>5. ASSUME NEW i \in Nat, i \in S PROVE i + 1 \in S
  <2>1. k + i <= n => d[k + i] = d[k]
    BY <1>3, <1>5
  <2>2. ASSUME k + (i + 1) <= n PROVE d[k + (i + 1)] = d[k]
    <3>1. PICK j : j = k + (i + 1)
      OBVIOUS
    <3>2. j \in 1..n /\ j \in (k + 1)..n /\ j - 1 = k + i /\ k + i <= n
      BY <1>2, <2>2, <3>1
    <3>3. d[j] = Turn(f, d, j) /\ ~IsBundle(f[j])
      BY <1>1, <1>2, <3>2
    <3>. QED
      BY <2>1, <3>1, <3>2, <3>3 DEF Turn
  <2>. QED
    BY <1>3, <2>2
<1>6. \A i \in Nat : i \in S
  BY <1>4, <1>5, Induct
<1>7. PICK i \in Nat : k + i = n
  <2>1. n - k \in Nat /\ k + (n - k) = n
    BY <1>2
  <2>. QED
    BY <2>1
<1>8. d[n] = d[k]
  <2>1. k + i <= n => d[k + i] = d[k]
    BY <1>3, <1>6
  <2>. QED
    BY <1>2, <1>7, <2>1
<1>. QED
  BY <1>1, <1>8

\* Where every stored digest is the recomputed one, an instance that reads the last one
\* stored continues from the digest of the whole file (get_epoch_digest).
LEMMA StoredIsRecomputed ==
  ASSUME TypeOK, BundlesChain
  PROVE  IF StoredDigest = NoDigest THEN Recomputed = <<>> ELSE StoredDigest = Recomputed
<1>1. lines \in Seq(Line) /\ Len(lines) \in Nat /\ DOMAIN lines = 1..Len(lines)
  BY DEF TypeOK, Line
<1>2. PICK at : at = {i \in DOMAIN lines : HasDigest(lines[i])}
  OBVIOUS
<1>3. CASE at = {}
  <2>1. StoredDigest = NoDigest
    BY <1>2, <1>3 DEF StoredDigest
  <2>2. \A i \in (0 + 1)..Len(lines) : ~IsBundle(lines[i])
    BY <1>1, <1>2, <1>3 DEF IsBundle
  <2>3. DigestsOf(lines)[Len(lines)] = DigestsOf(lines)[0]
    BY <1>1, <2>2, DigestStays
  <2>. QED
    BY <1>1, <2>1, <2>3, DigestsFacts DEF Recomputed
<1>4. CASE at # {}
  <2>1. PICK last : last = CHOOSE i \in at : \A k \in at : k <= i
    OBVIOUS
  <2>2. last \in at /\ \A k \in at : k <= last
    BY <1>1, <1>2, <1>4, <2>1, GreatestNumber
  <2>3. StoredDigest = lines[last].digest
    BY <1>2, <1>4, <2>1 DEF StoredDigest
  <2>4. lines[last].digest = DigestsOf(lines)[last] /\ lines[last].digest # NoDigest
    BY <1>2, <2>2 DEF BundlesChain, HasDigest
  <2>5. last \in Nat /\ last <= Len(lines)
    BY <1>1, <1>2, <2>2
  <2>6. \A i \in (last + 1)..Len(lines) : ~IsBundle(lines[i])
    <3>1. ASSUME NEW i \in (last + 1)..Len(lines), i \in at PROVE FALSE
      BY <2>2, <2>5, <3>1
    <3>2. \A i \in (last + 1)..Len(lines) : i \in DOMAIN lines
      BY <1>1, <2>5
    <3>. QED
      BY <1>2, <3>1, <3>2 DEF IsBundle
  <2>7. DigestsOf(lines)[Len(lines)] = DigestsOf(lines)[last]
    BY <1>1, <2>5, <2>6, DigestStays
  <2>. QED
    BY <2>3, <2>4, <2>7 DEF Recomputed
<1>. QED
  BY <1>3, <1>4

\* What a line adds to the digest of the n lines before it, whether it is a line of its
\* own or what a fragment became (WithText, Completed).
LEMMA DigestGrows ==
  ASSUME NEW f \in Seq(Line), NEW g \in Seq(Line), NEW n \in Nat, Len(g) = n + 1,
         Len(f) = n \/ (Len(f) = n + 1 /\ ~IsBundle(f[n + 1])),
         \A i \in 1..n : g[i] = f[i]
  PROVE  /\ \A i \in 1..n : DigestsOf(g)[i] = DigestsOf(f)[i]
         /\ DigestsOf(g)[n + 1] = IF IsBundle(g[n + 1])
                                  THEN Append(DigestsOf(f)[Len(f)], g[n + 1].id)
                                  ELSE DigestsOf(f)[Len(f)]
<1>1. n <= Len(f) /\ n <= Len(g) /\ Len(f) \in Nat
  OBVIOUS
<1>2. \A i \in 0..n : DigestsOf(g)[i] = DigestsOf(f)[i]
  BY <1>1, DigestsAgree
<1>3. \A i \in (n + 1)..Len(f) : ~IsBundle(f[i])
  <2>1. ASSUME NEW i \in (n + 1)..Len(f) PROVE i = n + 1 /\ Len(f) = n + 1
    BY <1>1
  <2>. QED
    BY <2>1
<1>4. DigestsOf(f)[Len(f)] = DigestsOf(f)[n]
  BY <1>1, <1>3, DigestStays
<1>5. PICK d, k : d = DigestsOf(g) /\ k = n + 1
  OBVIOUS
<1>6. k \in 1..Len(g) /\ k - 1 = n
  BY <1>5
<1>7. d[k] = Turn(g, d, k)
  BY <1>5, <1>6, DigestsFacts
<1>8. d[k - 1] = DigestsOf(f)[Len(f)]
  BY <1>2, <1>4, <1>5, <1>6
<1>. QED
  BY <1>2, <1>5, <1>7, <1>8 DEF Turn

\* A step that adds line x, or makes it of the fragment at the end.
Adds(x) == \E n \in Nat :
             /\ Len(lines') = n + 1 /\ lines'[n + 1] = x
             /\ Len(lines) = n \/ (Len(lines) = n + 1 /\ lines[n + 1] = Fragment)
             /\ \A i \in 1..n : lines'[i] = lines[i]

\* What the steps do to the file, as long as no line is spoiled or left without its
\* newline (WritePart, WriteLine, WriteFails, Crash).
LEMMA TidyFlow ==
  ASSUME IInv, Next, Tidy'
  PROVE  /\ Tidy
         /\ \/ UNCHANGED lines /\ ~\E w \in Writer : WriteLine(w)
            \/ \E w \in Writer : WritePart(w) /\ Adds(Fragment)
            \/ \E w \in Writer : WriteLine(w) /\ Adds(NewEntry(w))
<1>. USE NameAssumption DEF IInv
<1>0. /\ lines \in Seq(Line) /\ Len(lines) \in Nat /\ open \in BOOLEAN
      /\ Fragment \in Line /\ Fragment # Joined
      /\ \A w \in Writer : NewEntry(w) \in Line /\ NewEntry(w) # Joined
  BY NewEntryType DEF TypeOK, Line, IsEntry
<1>1. \A u, w \in Writer : pc[u] \in Holding /\ pc[w] \in Holding => u = w
  BY DEF LockHeld
<1>2. lost \subseteq lost'
  BY DEF Next, Advance, AppendEvent, AppendBundle, AppendCheckpoint, LookUpDigest, Start, ScanTail, AcquireLock, LockTimeout,
     CheckRaises, Retry, Conflict, Check, WritePart, WriteLine, WriteFails, Return, Crash, RemoveLock
<1>3. lost = {} /\ ~Spoiled'
  BY <1>2 DEF Tidy
<1>4. ASSUME NEW w \in Writer, NEW x \in Line, x # Joined, pc[w] = "write", lines' = WithText(x)
      PROVE  ~open /\ ~Spoiled /\ Adds(x)
  <2>1. ~Spoiled
    BY <1>4 DEF HolderKnows, Knows, TailRaises, Spoiled, IsEntry
  <2>2. WithText(x) \in Seq(Line) /\ WithText(x) # <<>>
    BY <1>4, WithTextFacts
  <2>3. ~open
    <3>1. ASSUME open PROVE FALSE
      <4>1. Len(lines') = Len(lines) /\ lines'[Len(lines)] = Joined
        BY <1>4, <3>1, WithTextFacts
      <4>2. Last(lines') = Joined
        BY <4>1 DEF Last
      <4>. QED
        BY <1>3, <1>4, <2>2, <4>2 DEF Spoiled
    <3>. QED
      BY <1>0, <3>1
  <2>4. /\ Len(lines') = Len(lines) + 1 /\ lines'[Len(lines) + 1] = x
        /\ \A i \in 1..Len(lines) : lines'[i] = lines[i]
    BY <1>4, <2>3, WithTextFacts
  <2>. QED
    BY <1>0, <2>1, <2>3, <2>4 DEF Adds
<1>5. ASSUME NEW w \in Writer, WritePart(w)
      PROVE  Tidy /\ Adds(Fragment)
  BY <1>0, <1>3, <1>4, <1>5 DEF WritePart, Tidy
<1>6. ASSUME NEW w \in Writer, WriteLine(w)
      PROVE  Tidy /\ Adds(NewEntry(w))
  <2>1. CASE pc[w] = "write"
    BY <1>0, <1>3, <1>4, <1>6, <2>1 DEF WriteLine, Tidy
  <2>2. CASE pc[w] = "rest"
    <3>1. lines' = Completed(w) /\ lines # <<>> /\ ~IsEntry(Last(lines))
      BY <1>6, <2>2 DEF WriteLine, HolderKnows, Knows, OpenLine
    <3>2. Last(lines) = lines[Len(lines)] /\ Last(lines) \in Line /\ Len(lines) \in Nat \ {0}
      BY <1>0, <3>1, LastLine
    <3>3. Last(lines) \in {Fragment, Joined}
      BY <3>1, <3>2, LineKinds
    <3>4. ~Spoiled
      BY <1>3, <3>1 DEF Completed, Spoiled
    <3>5. Last(lines) = Fragment
      BY <3>1, <3>3, <3>4 DEF Spoiled
    <3>6. /\ Len(lines') = Len(lines) /\ lines'[Len(lines)] = NewEntry(w)
          /\ \A i \in 1..(Len(lines) - 1) : lines'[i] = lines[i]
      BY <1>0, <3>1, <3>2, <3>5, CompletedFacts
    <3>7. PICK n \in Nat : Len(lines) = n + 1
      <4>1. Len(lines) - 1 \in Nat /\ Len(lines) = (Len(lines) - 1) + 1
        BY <3>2
      <4>. QED
        BY <4>1
    <3>8. \A i \in 1..n : lines'[i] = lines[i]
      BY <3>6, <3>7
    <3>9. Adds(NewEntry(w))
      BY <3>2, <3>5, <3>6, <3>7, <3>8 DEF Adds
    <3>. QED
      BY <1>3, <2>2, <3>4, <3>9 DEF Tidy
  <2>. QED
    BY <1>6, <2>1, <2>2 DEF WriteLine
<1>7. ASSUME NEW w \in Writer, WriteFails(w) \/ Crash(w)
      PROVE  Tidy /\ UNCHANGED lines
  <2>1. open' = open /\ lines' \in LeftBehind(w) /\ pc' = [pc EXCEPT ![w] = "idle"]
    BY <1>7 DEF WriteFails, Crash, Goto
  <2>2. \A u \in Writer : pc'[u] = "rest" => pc[u] = "rest" /\ u # w
    BY <2>1 DEF TypeOK
  <2>3. open => \E u \in Writer : pc[u] = "rest" /\ u # w
    BY <2>1, <2>2 DEF Tidy
  <2>4. lines' = lines
    <3>1. CASE pc[w] = "rest"
      <4>1. open
        BY <3>1 DEF HolderKnows, Knows
      <4>. QED
        BY <1>1, <2>3, <3>1, <4>1 DEF Holding
    <3>2. CASE pc[w] # "rest"
      BY <2>1, <3>2 DEF LeftBehind
    <3>. QED
      BY <3>1, <3>2
  <2>. QED
    BY <1>3, <2>3, <2>4 DEF Tidy, Spoiled
<1>8. ASSUME UNCHANGED <<lines, open>>, \A w \in Writer : pc'[w] = "rest" => pc[w] = "rest"
      PROVE  Tidy
  BY <1>3, <1>8 DEF Tidy, Spoiled
<1>9. ASSUME NEW w \in Writer, AppendEvent(w) \/ AppendBundle(w) \/ AppendCheckpoint(w) \/ ScanTail(w) \/ AcquireLock(w)
             \/ LockTimeout(w) \/ CheckRaises(w) \/ Retry(w) \/ Conflict(w) \/ Check(w) \/ Return(w)
      PROVE  Tidy /\ UNCHANGED lines
  <2>1. /\ UNCHANGED <<lines, open>>
        /\ \E l \in {"idle", "scan", "lock", "check", "write"} : pc' = [pc EXCEPT ![w] = l]
    BY <1>9 DEF AppendEvent, AppendBundle, AppendCheckpoint, LookUpDigest, Start, ScanTail, AcquireLock, LockTimeout,
       CheckRaises, Retry, Conflict, Check, Return, Goto
  <2>2. \A u \in Writer : pc'[u] = "rest" => pc[u] = "rest"
    BY <2>1 DEF TypeOK
  <2>. QED
    BY <1>8, <2>1, <2>2
<1>10. CASE RemoveLock
  BY <1>8, <1>10 DEF RemoveLock, WriteLine
<1>11. CASE \E w \in Writer : WriteLine(w)
  BY <1>6, <1>11
<1>12. CASE ~\E w \in Writer : WriteLine(w)
  BY <1>5, <1>7, <1>9, <1>10, <1>12 DEF Next, Advance, RemoveLock
<1>. QED
  BY <1>11, <1>12

\* A stored checkpoint that is outdated stays so (StoredDigest, DigestsOf).
LEMMA OutdatedStays ==
  ASSUME TypeOK, TypeOK', NEW x, Adds(x), OutdatedCheckpoint
  PROVE  OutdatedCheckpoint'
<1>1. PICK f, g : f = lines /\ g = lines'
  OBVIOUS
<1>2. PICK n \in Nat : /\ Len(g) = n + 1
                       /\ Len(f) = n \/ (Len(f) = n + 1 /\ f[n + 1] = Fragment)
                       /\ \A i \in 1..n : g[i] = f[i]
  BY <1>1 DEF Adds
<1>3. f \in Seq(Line) /\ g \in Seq(Line) /\ ~HasDigest(Fragment)
  BY <1>1 DEF TypeOK, Line, HasDigest, IsEntry
<1>4. PICK i \in DOMAIN f : Outdated(i)
  BY <1>1 DEF OutdatedCheckpoint
<1>5. /\ HasDigest(f[i]) /\ ~f[i].bundle /\ f[i].id[1] \notin Bundler
      /\ f[i].digest # DigestsOf(f)[i]
  BY <1>1, <1>4 DEF Outdated
<1>6. i \in 1..n
  <2>1. i \in 1..Len(f)
    BY <1>3, <1>4
  <2>2. ~(Len(f) = n + 1 /\ i = n + 1)
    BY <1>2, <1>3, <1>5
  <2>. QED
    BY <1>2, <2>1, <2>2
<1>7. g[i] = f[i] /\ i \in DOMAIN g
  BY <1>2, <1>3, <1>6
<1>8. DigestsOf(f)[i] = DigestsOf(g)[i]
  <2>1. n <= Len(f) /\ n <= Len(g) /\ i \in 0..n
    BY <1>2, <1>6
  <2>. QED
    BY <1>2, <1>3, <2>1, DigestsAgree
<1>9. /\ HasDigest(g[i]) /\ ~g[i].bundle /\ g[i].id[1] \notin Bundler
      /\ g[i].digest # DigestsOf(g)[i]
  BY <1>5, <1>7, <1>8
<1>10. Outdated(i)'
  BY <1>1, <1>9 DEF Outdated, HasDigest, IsEntry
<1>. QED
  BY <1>1, <1>7, <1>10 DEF OutdatedCheckpoint

\* The same, where no other process's checkpoint is outdated.
LEMMA CleanFlow ==
  ASSUME IInv, TypeOK', Next, Clean'
  PROVE  /\ Clean
         /\ \/ UNCHANGED lines /\ ~\E w \in Writer : WriteLine(w)
            \/ \E w \in Writer : WritePart(w) /\ Adds(Fragment)
            \/ \E w \in Writer : WriteLine(w) /\ Adds(NewEntry(w))
<1>1. Tidy' /\ ~OutdatedCheckpoint' /\ TypeOK
  BY DEF Clean, IInv
<1>2. ASSUME NEW x, Adds(x) PROVE ~OutdatedCheckpoint
  BY <1>1, <1>2, OutdatedStays
<1>3. ASSUME UNCHANGED lines PROVE ~OutdatedCheckpoint
  BY <1>1, <1>3 DEF OutdatedCheckpoint, Outdated, HasDigest, IsEntry
<1>4. /\ Tidy
      /\ \/ UNCHANGED lines /\ ~\E w \in Writer : WriteLine(w)
         \/ \E w \in Writer : WritePart(w) /\ Adds(Fragment)
         \/ \E w \in Writer : WriteLine(w) /\ Adds(NewEntry(w))
  BY <1>1, TidyFlow
<1>5. ~OutdatedCheckpoint
  BY <1>2, <1>3, <1>4
<1>. QED
  BY <1>4, <1>5 DEF Clean

\* What an append writes carries the append's digest.
LEMMA NewBundle ==
  ASSUME TypeOK, NEW w \in Writer
  PROVE  /\ HasDigest(NewEntry(w)) <=> job[w].digest # NoDigest
         /\ IsBundle(NewEntry(w)) <=> job[w].digest # NoDigest /\ job[w].bundle
         /\ NewEntry(w).digest = job[w].digest /\ NewEntry(w).id = job[w].id
         /\ NewEntry(w).bundle = job[w].bundle
BY NewEntryType DEF NewEntry, IsBundle, HasDigest, IsEntry

\* What an added line makes of the file's digest (compute_incremental_epoch_digest).
LEMMA RecomputedAfter ==
  ASSUME TypeOK, TypeOK', NEW x \in Line, Adds(x)
  PROVE  /\ Recomputed' = IF IsBundle(x) THEN Append(Recomputed, x.id) ELSE Recomputed
         /\ Len(lines') \in DOMAIN lines' /\ lines'[Len(lines')] = x
         /\ DigestsOf(lines')[Len(lines')] = Recomputed'
<1>1. PICK f, g : f = lines /\ g = lines'
  OBVIOUS
<1>2. PICK n \in Nat : /\ Len(g) = n + 1 /\ g[n + 1] = x
                       /\ Len(f) = n \/ (Len(f) = n + 1 /\ f[n + 1] = Fragment)
                       /\ \A i \in 1..n : g[i] = f[i]
  BY <1>1 DEF Adds
<1>3. f \in Seq(Line) /\ g \in Seq(Line) /\ ~IsBundle(Fragment)
  BY <1>1 DEF TypeOK, Line, IsBundle, HasDigest, IsEntry
<1>4. DigestsOf(g)[n + 1] = IF IsBundle(x) THEN Append(DigestsOf(f)[Len(f)], x.id)
                            ELSE DigestsOf(f)[Len(f)]
  BY <1>2, <1>3, DigestGrows
<1>5. Recomputed = DigestsOf(f)[Len(f)] /\ Recomputed' = DigestsOf(g)[n + 1]
  BY <1>1, <1>2 DEF Recomputed
<1>6. n + 1 \in DOMAIN g /\ Len(g) = n + 1
  BY <1>2, <1>3
<1>. QED
  BY <1>1, <1>2, <1>4, <1>5, <1>6

\* Every stored digest stays the one recomputed, if the added line's continues the file.
LEMMA DigestsAfter ==
  ASSUME TypeOK, TypeOK', BundlesChain, NEW x \in Line, Adds(x),
         HasDigest(x) => x.digest = Recomputed'
  PROVE  BundlesChain'
<1>1. PICK f, g : f = lines /\ g = lines'
  OBVIOUS
<1>2. PICK n \in Nat : /\ Len(g) = n + 1 /\ g[n + 1] = x
                       /\ Len(f) = n \/ (Len(f) = n + 1 /\ f[n + 1] = Fragment)
                       /\ \A i \in 1..n : g[i] = f[i]
  BY <1>1 DEF Adds
<1>3. f \in Seq(Line) /\ g \in Seq(Line) /\ ~IsBundle(Fragment)
  BY <1>1 DEF TypeOK, Line, IsBundle, HasDigest, IsEntry
<1>4. \A i \in 1..n : DigestsOf(g)[i] = DigestsOf(f)[i]
  BY <1>2, <1>3, DigestGrows
<1>5. Recomputed' = DigestsOf(g)[n + 1]
  BY <1>1, <1>2 DEF Recomputed
<1>6. ASSUME NEW i \in DOMAIN g, HasDigest(g[i]) PROVE g[i].digest = DigestsOf(g)[i]
  <2>1. i \in 1..n \/ i = n + 1
    BY <1>2, <1>3
  <2>2. CASE i \in 1..n
    <3>1. i \in DOMAIN f /\ g[i] = f[i]
      BY <1>2, <1>3, <2>2
    <3>2. f[i].digest = DigestsOf(f)[i]
      BY <1>1, <1>6, <3>1 DEF BundlesChain
    <3>. QED
      BY <1>4, <2>2, <3>1, <3>2
  <2>3. CASE i = n + 1
    BY <1>2, <1>5, <1>6, <2>3
  <2>. QED
    BY <2>1, <2>2, <2>3
<1>. QED
  BY <1>1, <1>6 DEF BundlesChain, HasDigest, IsEntry

\* Only bundlers append bundles, whatever the steps (append_bundle_with_digest), and
\* appends keep their writer's name.
LEMMA PlainStep ==
  ASSUME TypeOK, Next, NEW w \in Writer, job[w].id[1] = w,
         job[w].bundle => w \in Bundler /\ job[w].digest # NoDigest
  PROVE  /\ job'[w].id[1] = w
         /\ job'[w].bundle => w \in Bundler /\ job'[w].digest # NoDigest
<1>. DEFINE Goal == /\ job'[w].id[1] = w
                    /\ job'[w].bundle => w \in Bundler /\ job'[w].digest # NoDigest
<1>1. job \in [Writer -> Job]
  BY DEF TypeOK
<1>2. ASSUME NEW u \in Writer, AppendEvent(u) \/ AppendCheckpoint(u) PROVE Goal
  BY <1>1, <1>2 DEF AppendEvent, AppendCheckpoint, Start
<1>3. ASSUME NEW u \in Writer, AppendBundle(u) PROVE Goal
  <2>1. Append(PreviousDigest(u), <<u, sent[u] + 1>>) # NoDigest
    <3>1. PreviousDigest(u) \in Seq(Event) /\ <<u, sent[u] + 1>> \in Event
      BY DigestType DEF TypeOK, Digest, Event
    <3>2. Append(PreviousDigest(u), <<u, sent[u] + 1>>) \in Digest
      BY <3>1 DEF Digest
    <3>. QED
      BY <3>2, NameAssumption
  <2>. QED
    BY <1>1, <1>3, <2>1 DEF AppendBundle, Start
<1>4. ASSUME NEW u \in Writer, ScanTail(u) \/ Retry(u) PROVE Goal
  BY <1>1, <1>4 DEF ScanTail, Retry, Job
<1>. QED
  BY <1>2, <1>3, <1>4 DEF Next, Advance, AcquireLock, LockTimeout, CheckRaises, Conflict, Check,
     WritePart, WriteLine, WriteFails, Return, Crash, RemoveLock

\* The digests in the file go on being those recomputed from it, and the bundler's own
\* bundle is what makes them grow (WriteLine).
LEMMA ChainedStep ==
  ASSUME IInv, TypeOK', DigestInv, OneBundler, Next, Clean'
  PROVE  /\ BundlesChain'
         /\ \A b \in Bundler :
              IF WriteLine(b) /\ job[b].bundle
              THEN Recomputed' = job[b].digest
              ELSE Recomputed' = Recomputed
<1>. USE ParameterAssumption
<1>1. TypeOK /\ Clean /\ BundlesChain /\ \A b \in Bundler : Continues(b)
  BY CleanFlow DEF IInv, DigestInv
<1>2. \A u, w \in Writer : WriteLine(u) /\ WriteLine(w) => u = w
  BY DEF IInv, LockHeld, Holding, WriteLine
<1>3. CASE UNCHANGED lines /\ ~\E w \in Writer : WriteLine(w)
  BY <1>1, <1>3 DEF BundlesChain, Recomputed, HasDigest, IsEntry
<1>4. ASSUME NEW w \in Writer, WritePart(w), Adds(Fragment)
      PROVE  /\ BundlesChain' /\ Recomputed' = Recomputed
             /\ ~\E u \in Writer : WriteLine(u)
  <2>1. Fragment \in Line /\ ~IsBundle(Fragment) /\ ~HasDigest(Fragment)
    BY DEF Line, IsBundle, HasDigest, IsEntry
  <2>2. BundlesChain'
    BY <1>1, <1>4, <2>1, DigestsAfter
  <2>4. Recomputed' = Recomputed
    BY <1>1, <1>4, <2>1, RecomputedAfter
  <2>3. pc'[w] = "rest" /\ \A u \in Writer : WriteLine(u) => pc'[u] = "unlock" /\ u = w
    BY <1>1, <1>4 DEF WritePart, WriteLine, Goto, IInv, LockHeld, Holding, TypeOK
  <2>. QED
    BY <2>2, <2>3, <2>4
<1>5. ASSUME NEW w \in Writer, WriteLine(w), Adds(NewEntry(w))
      PROVE  /\ BundlesChain'
             /\ Recomputed' = IF job[w].bundle THEN job[w].digest ELSE Recomputed
             /\ job[w].bundle => w \in Bundler
  <2>1. /\ NewEntry(w) \in Line /\ NewEntry(w).digest = job[w].digest
        /\ NewEntry(w).id = job[w].id /\ NewEntry(w).bundle = job[w].bundle
        /\ HasDigest(NewEntry(w)) <=> job[w].digest # NoDigest
        /\ IsBundle(NewEntry(w)) <=> job[w].digest # NoDigest /\ job[w].bundle
    BY <1>1, NewBundle, NewEntryType DEF Line
  <2>2. job[w].bundle => w \in Bundler /\ job[w].digest # NoDigest
    BY DEF DigestInv
  <2>3. Recomputed' = IF job[w].bundle THEN Append(Recomputed, job[w].id) ELSE Recomputed
    BY <1>1, <1>5, <2>1, <2>2, RecomputedAfter
  <2>4. w \in Bundler /\ job[w].digest # NoDigest => job[w].digest = Recomputed'
    <3>1. job[w].digest # NoDigest => Ahead(w)
      BY <1>5 DEF WriteLine, Ahead
    <3>. QED
      BY <1>1, <2>3, <3>1 DEF Continues
  <2>5. w \notin Bundler /\ job[w].digest # NoDigest => job[w].digest = Recomputed'
    <3>1. PICK k, g : k = Len(lines') /\ g = lines'
      OBVIOUS
    <3>2. k \in DOMAIN g /\ g[k] = NewEntry(w) /\ DigestsOf(g)[k] = Recomputed'
      BY <1>1, <1>5, <2>1, <3>1, RecomputedAfter
    <3>3. \A i \in DOMAIN g : ~(/\ HasDigest(g[i]) /\ ~g[i].bundle /\ g[i].id[1] \notin Bundler
                                /\ g[i].digest # DigestsOf(g)[i])
      BY <3>1 DEF Clean, OutdatedCheckpoint, Outdated, HasDigest, IsEntry
    <3>4. job[w].id[1] = w
      BY DEF DigestInv
    <3>. QED
      BY <2>1, <2>2, <3>2, <3>3, <3>4
  <2>6. BundlesChain'
    BY <1>1, <1>5, <2>1, <2>4, <2>5, DigestsAfter
  <2>. QED
    BY <2>2, <2>3, <2>4, <2>6
<1>6. CASE \E w \in Writer : WriteLine(w) /\ Adds(NewEntry(w))
  <2>1. PICK w \in Writer : WriteLine(w) /\ Adds(NewEntry(w))
    BY <1>6
  <2>. QED
    BY <1>2, <1>5, <2>1 DEF OneBundler
<1>. QED
  BY <1>3, <1>4, <1>6, CleanFlow

\* What the bundler remembers, and what it is about to store, goes on continuing the
\* file (append_bundle_with_digest, _epoch_digest_index).
LEMMA ContinuesStep ==
  ASSUME IInv, TypeOK', DigestInv, OneBundler, Next, Clean', NEW b \in Bundler
  PROVE  Continues(b)'
<1>. USE ParameterAssumption
<1>1. /\ TypeOK /\ Clean /\ BundlesChain /\ Continues(b) /\ b \in Writer
      /\ pc \in [Writer -> Step \cup {"idle"}] /\ job \in [Writer -> Job]
      /\ index \in [Writer -> Digest \cup {NoDigest}]
  BY CleanFlow DEF IInv, DigestInv, TypeOK
<1>2. IF WriteLine(b) /\ job[b].bundle
      THEN Recomputed' = job[b].digest
      ELSE Recomputed' = Recomputed
  BY ChainedStep
<1>3. CASE WriteLine(b)
  <2>1. /\ pc[b] \in {"write", "rest"} /\ pc'[b] = "unlock" /\ job'[b] = job[b] /\ index'[b] = index[b]
    BY <1>1, <1>3 DEF WriteLine, Goto
  <2>. QED
    BY <1>1, <1>2, <1>3, <2>1 DEF Continues, Ahead, Behind
<1>4. ASSUME ~WriteLine(b), pc'[b] = pc[b], job'[b] = job[b], index'[b] = index[b]
      PROVE  Continues(b)'
  BY <1>1, <1>2, <1>4 DEF Continues, Ahead, Behind
<1>5. ASSUME NEW w \in Writer, w # b,
             AppendEvent(w) \/ AppendBundle(w) \/ AppendCheckpoint(w) \/ Advance(w) \/ Crash(w)
      PROVE  Continues(b)'
  <2>1. pc' = [pc EXCEPT ![w] = pc'[w]]
    BY <1>1, <1>5 DEF AppendEvent, AppendBundle, AppendCheckpoint, LookUpDigest, Start, Advance, ScanTail, AcquireLock, LockTimeout,
       CheckRaises, Retry, Conflict, Check, WritePart, WriteLine, WriteFails, Return, Crash, Goto
  <2>2. job'[b] = job[b]
    BY <1>1, <1>5 DEF AppendEvent, AppendBundle, AppendCheckpoint, LookUpDigest, Start, Advance, ScanTail, AcquireLock, LockTimeout,
       CheckRaises, Retry, Conflict, Check, WritePart, WriteLine, WriteFails, Return, Crash
  <2>3. index'[b] = index[b]
    BY <1>1, <1>5 DEF AppendEvent, AppendBundle, AppendCheckpoint, LookUpDigest, Start, Advance, ScanTail, AcquireLock, LockTimeout,
       CheckRaises, Retry, Conflict, Check, WritePart, WriteLine, WriteFails, Return, Crash
  <2>4. pc'[b] = pc[b]
    BY <1>1, <1>5, <2>1
  <2>5. WriteLine(b) => pc'[b] # pc[b]
    BY <1>1 DEF WriteLine, Goto
  <2>. QED
    BY <1>4, <2>2, <2>3, <2>4, <2>5
<1>6. CASE AppendEvent(b)
  <2>1. pc[b] = "idle" /\ pc'[b] = "scan" /\ index' = index
        /\ job'[b].digest = NoDigest /\ ~job'[b].bundle
    BY <1>1, <1>6 DEF AppendEvent, Start, Goto
  <2>2. Recomputed' = Recomputed
    BY <1>2, <2>1 DEF WriteLine
  <2>. QED
    BY <1>1, <2>1, <2>2 DEF Continues, Ahead, Behind
<1>7. CASE AppendBundle(b)
  <2>1. /\ pc[b] = "idle" /\ pc'[b] = "scan"
        /\ job'[b].id = <<b, sent[b] + 1>>
        /\ job'[b].digest = Append(PreviousDigest(b), <<b, sent[b] + 1>>) /\ job'[b].bundle
        /\ index'[b] = IF index[b] = NoDigest THEN StoredDigest ELSE index[b]
    BY <1>1, <1>7 DEF AppendBundle, LookUpDigest, Start, Goto
  <2>2. Recomputed' = Recomputed
    BY <1>2, <2>1 DEF WriteLine
  <2>3. index[b] # NoDigest => index[b] = Recomputed
    BY <1>1, <2>1 DEF Continues, Behind
  <2>4. IF StoredDigest = NoDigest THEN Recomputed = <<>> ELSE StoredDigest = Recomputed
    BY <1>1, StoredIsRecomputed
  <2>5. PreviousDigest(b) = Recomputed
    BY <2>3, <2>4 DEF PreviousDigest
  <2>6. index'[b] # NoDigest => index'[b] = Recomputed'
    BY <2>1, <2>2, <2>3, <2>4
  <2>7. job'[b].digest = Append(Recomputed', job'[b].id)
    BY <2>1, <2>2, <2>5
  <2>. QED
    BY <2>1, <2>6, <2>7 DEF Continues, Behind
<1>16. CASE AppendCheckpoint(b)
  <2>1. /\ pc[b] = "idle" /\ pc'[b] = "scan"
        /\ job'[b].digest = PreviousDigest(b) /\ ~job'[b].bundle
        /\ index'[b] = IF index[b] = NoDigest THEN StoredDigest ELSE index[b]
    BY <1>1, <1>16 DEF AppendCheckpoint, LookUpDigest, Start, Goto
  <2>2. Recomputed' = Recomputed
    BY <1>2, <2>1 DEF WriteLine
  <2>3. index[b] # NoDigest => index[b] = Recomputed
    BY <1>1, <2>1 DEF Continues, Behind
  <2>4. IF StoredDigest = NoDigest THEN Recomputed = <<>> ELSE StoredDigest = Recomputed
    BY <1>1, StoredIsRecomputed
  <2>5. PreviousDigest(b) = Recomputed
    BY <2>3, <2>4 DEF PreviousDigest
  <2>6. index'[b] # NoDigest => index'[b] = Recomputed'
    BY <2>1, <2>2, <2>3, <2>4
  <2>. QED
    BY <2>1, <2>2, <2>5, <2>6 DEF Continues, Behind
<1>8. ASSUME ~WriteLine(b), pc[b] # "unlock",
             \/ pc'[b] = "idle"
             \/ pc'[b] \in {"scan", "lock", "check", "write", "rest"}
                /\ pc[b] \in {"scan", "lock", "check", "write", "rest"},
             job'[b].digest = job[b].digest, job'[b].bundle = job[b].bundle, job'[b].id = job[b].id,
             index'[b] = index[b]
      PROVE  Continues(b)'
  BY <1>1, <1>2, <1>8 DEF Continues, Ahead, Behind
<1>9. CASE ScanTail(b) \/ Retry(b)
  <2>1. /\ pc[b] \in {"scan", "check"} /\ pc'[b] \in {"idle", "lock", "scan"}
        /\ job'[b].digest = job[b].digest /\ job'[b].bundle = job[b].bundle
        /\ job'[b].id = job[b].id /\ index' = index
    <3>1. CASE ScanTail(b)
      BY <1>1, <3>1 DEF ScanTail, Goto, Job
    <3>2. CASE Retry(b)
      BY <1>1, <3>2 DEF Retry, Goto, Job
    <3>. QED
      BY <1>9, <3>1, <3>2
  <2>. QED
    BY <1>8, <2>1 DEF WriteLine
<1>10. CASE AcquireLock(b) \/ LockTimeout(b) \/ CheckRaises(b) \/ Check(b) \/ WritePart(b)
            \/ WriteFails(b)
  <2>1. /\ pc[b] \in {"lock", "check", "write", "rest"} /\ pc'[b] \in {"check", "idle", "write", "rest"}
        /\ job' = job /\ index' = index
    BY <1>1, <1>10 DEF AcquireLock, LockTimeout, CheckRaises, Check, WritePart, WriteFails, Goto
  <2>2. ~WriteLine(b)
    BY <1>1, <2>1 DEF WriteLine, Goto
  <2>. QED
    BY <1>8, <2>1, <2>2
<1>11. CASE Conflict(b)
  <2>1. /\ pc[b] = "check" /\ pc'[b] = "idle" /\ job' = job
        /\ job[b].bundle => b \in lost'
        /\ ~job[b].bundle => index' = index
    BY <1>1, <1>11 DEF Conflict, Goto
  <2>2. lost' = {}
    BY DEF Clean, Tidy
  <2>. QED
    BY <1>8, <2>1, <2>2 DEF WriteLine
<1>12. CASE Return(b)
  <2>1. /\ pc[b] = "unlock" /\ pc'[b] = "idle" /\ job' = job
        /\ index'[b] = IF job[b].bundle THEN job[b].digest ELSE index[b]
    BY <1>1, <1>12 DEF Return, Goto
  <2>2. Recomputed' = Recomputed
    BY <1>2, <2>1 DEF WriteLine
  <2>. QED
    BY <1>1, <2>1, <2>2 DEF Continues, Ahead, Behind
<1>13. CASE Crash(b)
  <2>1. pc'[b] = "idle" /\ index'[b] = NoDigest
    BY <1>1, <1>13 DEF Crash, Goto
  <2>. QED
    BY <2>1 DEF Continues, Ahead, Behind
<1>14. CASE RemoveLock
  <2>1. UNCHANGED <<pc, job, index>> /\ ~WriteLine(b)
    BY <1>1, <1>14 DEF RemoveLock, WriteLine, Goto
  <2>. QED
    BY <1>4, <2>1
<1>15. CASE \E w \in Writer : w # b /\ (AppendEvent(w) \/ AppendBundle(w) \/ AppendCheckpoint(w) \/ Advance(w) \/ Crash(w))
  BY <1>5, <1>15
<1>. QED
  BY <1>1, <1>3, <1>6, <1>7, <1>9, <1>10, <1>11, <1>12, <1>13, <1>14, <1>15, <1>16 DEF Next, Advance

\* The digests of an empty file.
LEMMA InitDigest == Init => DigestInv
<1>. SUFFICES ASSUME Init PROVE DigestInv
  OBVIOUS
<1>1. \A w \in Writer : /\ job[w].digest = NoDigest /\ ~job[w].bundle /\ job[w].id[1] = w
                         /\ index[w] = NoDigest /\ pc[w] = "idle"
  BY DEF Init
<1>2. BundlesChain
  BY DEF Init, BundlesChain
<1>. QED
  BY <1>1, <1>2, ParameterAssumption DEF DigestInv, Continues, Ahead, Behind

\* The digests stay what they are recomputed to be.
LEMMA StepDigest ==
  ASSUME OneBundler
  PROVE  IInv /\ IInv' /\ DigestInv /\ [Next]_vars => DigestInv'
<1>. SUFFICES ASSUME IInv, IInv', DigestInv, [Next]_vars PROVE DigestInv'
  OBVIOUS
<1>1. CASE UNCHANGED vars
  <2>. USE <1>1 DEF vars
  <2>1. Clean' => Clean
    BY DEF Clean, Tidy, Spoiled, OutdatedCheckpoint, Outdated, HasDigest, IsEntry
  <2>2. BundlesChain => BundlesChain'
    BY DEF BundlesChain, HasDigest, IsEntry
  <2>3. \A w \in Bundler : Continues(w) => Continues(w)'
    BY DEF Continues, Ahead, Behind, Recomputed
  <2>. QED
    BY <2>1, <2>2, <2>3 DEF DigestInv
<1>2. CASE Next
  <2>1. TypeOK /\ TypeOK'
    BY DEF IInv
  <2>2. \A w \in Writer : job'[w].bundle => w \in Bundler /\ job'[w].digest # NoDigest
    BY <1>2, <2>1, PlainStep DEF DigestInv
  <2>4. \A w \in Writer : job'[w].id[1] = w
    BY <1>2, <2>1, PlainStep DEF DigestInv
  <2>3. Clean' => BundlesChain' /\ \A b \in Bundler : Continues(b)'
    BY <1>2, <2>1, ChainedStep, ContinuesStep
  <2>. QED
    BY <2>2, <2>3, <2>4 DEF DigestInv
<1>. QED
  BY <1>1, <1>2

\* With one bundler, the digest its instance remembers between two appends, and the last
\* one stored in a bundle or a checkpoint, are what replay recomputes from the file's
\* bundles, whatever other writers append, retry or die, unless a bundle was dropped in a
\* conflict or another process stored an outdated checkpoint (append_bundle_with_digest,
\* create_checkpoint, compute_incremental_epoch_digest).
THEOREM DigestsFollowFile ==
  ASSUME OneBundler
  PROVE  Spec => []DigestFollowsFile
<1>1. IInv /\ DigestInv => DigestFollowsFile
  <2>. SUFFICES ASSUME IInv, DigestInv, Verifies, ~open, lost = {},
                       ~OutdatedCheckpoint
                PROVE  /\ \A b \in Bundler : pc[b] = "idle" /\ index[b] # NoDigest => index[b] = Recomputed
                       /\ StoredDigest # NoDigest => StoredDigest = Recomputed
    BY DEF DigestFollowsFile
  <2>1. TypeOK /\ lines \in Seq(Line)
    BY DEF IInv, TypeOK, Line
  <2>2. ~Spoiled
    <3>1. ASSUME Spoiled PROVE FALSE
      <4>1. lines # <<>> /\ lines[Len(lines)] = Joined /\ Len(lines) \in DOMAIN lines
        BY <2>1, <3>1, LastLine DEF Spoiled
      <4>. QED
        BY <4>1 DEF Verifies, IsEntry
    <3>. QED
      BY <3>1
  <2>3. Clean
    BY <2>2 DEF Clean, Tidy
  <2>. QED
    BY <2>1, <2>3, StoredIsRecomputed DEF DigestInv, Continues, Behind
<1>2. Init => DigestInv
  BY InitDigest
<1>3. IInv /\ IInv' /\ DigestInv /\ [Next]_vars => DigestInv'
  BY StepDigest
<1>. QED
  BY <1>1, <1>2, <1>3, Invariance, PTL DEF Spec
=============================================================================
