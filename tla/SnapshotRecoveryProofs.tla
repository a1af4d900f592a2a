----------------------- MODULE SnapshotRecoveryProofs -----------------------
(***************************************************************************)
(* Proofs about SnapshotRecovery for any max_snapshots and any bounds on   *)
(* entries, damage and boots.                                              *)
(***************************************************************************)
EXTENDS SnapshotRecovery, FiniteSetTheorems, WellFoundedInduction, TLAPS

\* A list of snapshots is finite (SnapshotManager._metadata).
LEMMA FiniteList ==
  ASSUME TypeOK, NEW m, NumbersFollowIds(m)
  PROVE  /\ IsFiniteSet(DOMAIN m) /\ Cardinality(DOMAIN m) \in Nat
         /\ DOMAIN m \subseteq Nat
         /\ Kept(m) \in Nat /\ Kept(m) <= MaxSnapshots
         /\ Kept(m) <= Cardinality(DOMAIN m)
<1>1. lastId \in Nat /\ DOMAIN m \subseteq 1..lastId
  BY DEF TypeOK, NumbersFollowIds
<1>2. IsFiniteSet(1..lastId)
  BY <1>1, FS_Interval
<1>3. IsFiniteSet(DOMAIN m)
  BY <1>1, <1>2, FS_Subset
<1>4. Cardinality(DOMAIN m) \in Nat
  BY <1>3, FS_CardinalityType
<1>. QED
  BY <1>1, <1>3, <1>4, SnapshotAssumption DEF Kept

\* Of two sets, one strictly inside the other, the cardinalities differ.
LEMMA StrictSubset ==
  ASSUME NEW S, IsFiniteSet(S), NEW T \in SUBSET S, T # S
  PROVE  /\ Cardinality(T) \in Nat /\ Cardinality(S) \in Nat
         /\ Cardinality(T) < Cardinality(S)
<1>1. Cardinality(T) <= Cardinality(S) /\ IsFiniteSet(T) /\ Cardinality(S) # Cardinality(T)
  BY FS_Subset
<1>. QED
  BY <1>1, FS_CardinalityType

\* Renumbering keeps the order and leaves no gaps (_repair_creation_sequences).
LEMMA RenumberedFollows ==
  ASSUME TypeOK, NEW m, NumbersFollowIds(m)
  PROVE  /\ DOMAIN Renumbered(m) = DOMAIN m
         /\ NumbersFollowIds(Renumbered(m))
         /\ \A i \in DOMAIN m : Renumbered(m)[i] <= Cardinality(DOMAIN m)
<1>. DEFINE UpTo(i) == {j \in DOMAIN m : m[j] <= m[i]}
<1>1. IsFiniteSet(DOMAIN m) /\ DOMAIN m \subseteq Nat
  BY FiniteList
<1>2. DOMAIN Renumbered(m) = DOMAIN m /\ \A i \in DOMAIN m : Renumbered(m)[i] = Cardinality(UpTo(i))
  BY DEF Renumbered
<1>3. ASSUME NEW i \in DOMAIN m
      PROVE  /\ IsFiniteSet(UpTo(i))
             /\ Cardinality(UpTo(i)) \in Nat \ {0}
             /\ Cardinality(UpTo(i)) <= Cardinality(DOMAIN m)
  <2>1. UpTo(i) \in SUBSET DOMAIN m /\ i \in UpTo(i)
    BY DEF NumbersFollowIds
  <2>2. IsFiniteSet(UpTo(i)) /\ Cardinality(UpTo(i)) <= Cardinality(DOMAIN m)
    BY <2>1, <1>1, FS_Subset
  <2>3. Cardinality(UpTo(i)) \in Nat /\ Cardinality(UpTo(i)) # 0
    BY <2>1, <2>2, FS_CardinalityType, FS_EmptySet
  <2>. QED
    BY <2>2, <2>3
<1>4. ASSUME NEW i \in DOMAIN m, NEW j \in DOMAIN m, i < j
      PROVE  Cardinality(UpTo(i)) < Cardinality(UpTo(j))
  <2>1. m[i] < m[j] /\ m[i] \in Nat /\ m[j] \in Nat
    BY <1>4 DEF NumbersFollowIds
  <2>2. \A k \in DOMAIN m : m[k] \in Nat
    BY DEF NumbersFollowIds
  <2>3. UpTo(i) \in SUBSET UpTo(j)
    BY <2>1, <2>2
  <2>4. j \in UpTo(j) /\ j \notin UpTo(i)
    BY <2>1
  <2>5. UpTo(i) # UpTo(j)
    BY <2>4
  <2>. HIDE DEF UpTo
  <2>. QED
    BY <2>3, <2>5, <1>3, StrictSubset
<1>5. DOMAIN Renumbered(m) \subseteq 1..lastId
  BY <1>2 DEF NumbersFollowIds
<1>. HIDE DEF UpTo
<1>. QED
  BY <1>2, <1>3, <1>4, <1>5 DEF NumbersFollowIds

\* Those pruned have lower numbers than those kept (_prune_old_snapshots).
LEMMA SurplusIsLower ==
  ASSUME TypeOK, NEW i \in Surplus, NEW j \in DOMAIN metadata \ Surplus
  PROVE  metadata[i] < metadata[j] /\ i < j
<1>. DEFINE Above(k) == {x \in DOMAIN metadata : metadata[x] > metadata[k]}
<1>1. IsFiniteSet(DOMAIN metadata) /\ DOMAIN metadata \subseteq Nat
  BY FiniteList DEF TypeOK
<1>2. \A x \in DOMAIN metadata : metadata[x] \in Nat
  BY DEF TypeOK, NumbersFollowIds
<1>3. i \in DOMAIN metadata /\ Cardinality(Above(i)) >= MaxSnapshots
  BY DEF Surplus
<1>4. ~(Cardinality(Above(j)) >= MaxSnapshots)
  BY DEF Surplus
<1>5. SUFFICES ASSUME ~(metadata[i] < metadata[j]) PROVE FALSE
  <2>1. \A x, y \in DOMAIN metadata : x < y => metadata[x] < metadata[y]
    BY DEF TypeOK, NumbersFollowIds
  <2>. QED
    BY <1>1, <1>2, <1>3, <2>1
<1>6. Above(i) \in SUBSET Above(j) /\ Above(j) \in SUBSET DOMAIN metadata
  BY <1>2, <1>3, <1>5
<1>. HIDE DEF Above
<1>7. IsFiniteSet(Above(j))
  BY <1>1, <1>6, FS_Subset
<1>8. IsFiniteSet(Above(i)) /\ Cardinality(Above(i)) <= Cardinality(Above(j))
  BY <1>6, <1>7, FS_Subset
<1>9. Cardinality(Above(i)) \in Nat /\ Cardinality(Above(j)) \in Nat
  BY <1>7, <1>8, FS_CardinalityType
<1>. QED
  BY <1>3, <1>4, <1>8, <1>9, SnapshotAssumption

\* The type invariant is kept by every step.
LEMMA TypeStep == TypeOK /\ Next => TypeOK'
<1>. SUFFICES ASSUME TypeOK, Next PROVE TypeOK'
  OBVIOUS
<1>. USE SnapshotAssumption
<1>1. CASE Boot
  <2>. DEFINE found == IF metaFile = Torn THEN NoMetadata ELSE metaFile
  <2>1. NumbersFollowIds(found)
    BY DEF TypeOK, NumbersFollowIds, NoMetadata
  <2>2. /\ metadata' = Renumbered(found) /\ nextSeq' = Cardinality(DOMAIN found) + 1
        /\ misnumbered' \in BOOLEAN /\ pc' = "booted" /\ boots' = boots + 1 /\ boots < MaxBoots
        /\ UNCHANGED <<turn, then, chosen, disk, damages, cutShort>>
    BY <1>1 DEF Boot, TypeOK
  <2>. HIDE DEF found
  <2>3. /\ DOMAIN Renumbered(found) = DOMAIN found /\ NumbersFollowIds(Renumbered(found))
        /\ \A i \in DOMAIN found : Renumbered(found)[i] <= Cardinality(DOMAIN found)
        /\ Cardinality(DOMAIN found) \in Nat
    BY <2>1, RenumberedFollows, FiniteList
  <2>4. /\ NumbersFollowIds(metadata)' /\ nextSeq' \in Nat \ {0}
        /\ \A i \in DOMAIN metadata' : metadata'[i] < nextSeq'
    BY <2>2, <2>3 DEF NumbersFollowIds, disk
  <2>. QED
    BY <2>2, <2>4 DEF TypeOK, NumbersFollowIds, disk
<1>2. CASE \E s \in Sources : AppendEntry(s) \/ Damage(s)
  <2>1. PICK s \in Sources : AppendEntry(s) \/ Damage(s)
    BY <1>2
  <2>2. file' \in [Sources -> File] /\ damages' \in 0..MaxDamages
    <3>1. file[s] \in File /\ file \in [Sources -> File]
      BY DEF TypeOK
    <3>2. CASE AppendEntry(s)
      <4>1. [file[s] EXCEPT !.entries = @ + 1] \in File
        BY <3>1 DEF File
      <4>. QED
        BY <3>1, <3>2, <4>1 DEF AppendEntry, TypeOK, history
    <3>3. CASE Damage(s)
      <4>1. [file[s] EXCEPT !.sound = FALSE] \in File
        BY <3>1 DEF File
      <4>. QED
        BY <3>1, <3>3, <4>1 DEF Damage, TypeOK
    <3>. QED
      BY <2>1, <3>2, <3>3
  <2>3. UNCHANGED <<pc, turn, then, chosen, metadata, nextSeq, metaFile, dirs, lastId, boots,
                    misnumbered, cutShort>>
    BY <2>1 DEF AppendEntry, Damage, process, history
  <2>. QED
    BY <2>2, <2>3 DEF TypeOK, NumbersFollowIds
<1>3. CASE TakeSnapshot
  <2>. DEFINE new == [id |-> lastId + 1, seq |-> nextSeq, source |-> turn,
                      entries |-> file[turn].entries, sound |-> file[turn].sound]
  <2>1. /\ lastId' = lastId + 1 /\ dirs' = dirs \cup {new} /\ pc' = "announce"
        /\ UNCHANGED <<turn, then, chosen, metadata, nextSeq, metaFile, file, history>>
    BY <1>3 DEF TakeSnapshot
  <2>2. new \in Snapshot /\ new.id = lastId + 1
    BY DEF TypeOK, Snapshot, File
  <2>. HIDE DEF new
  <2>3. NumbersFollowIds(metadata)' /\ (NumbersFollowIds(metaFile) => NumbersFollowIds(metaFile)')
        /\ lastId' \notin DOMAIN metadata' /\ lastId' \in Nat
    BY <2>1 DEF TypeOK, NumbersFollowIds
  <2>4. dirs' \in SUBSET Snapshot /\ \A d \in dirs' : d.id \in 1..lastId'
    BY <2>1, <2>2 DEF TypeOK
  <2>5. \A d, e \in dirs' : d.id = e.id => d = e
    BY <2>1, <2>2 DEF TypeOK
  <2>. QED
    BY <2>1, <2>3, <2>4, <2>5 DEF TypeOK, history
<1>4. CASE Announce
  <2>1. /\ metadata' = [i \in DOMAIN metadata \union {lastId} |->
                          IF i = lastId THEN nextSeq ELSE metadata[i]]
        /\ nextSeq' = nextSeq + 1 /\ pc = "announce" /\ pc' = "open" /\ then' = "prune"
        /\ file' = [file EXCEPT !["journal"].entries = @ + 1]
        /\ UNCHANGED <<turn, chosen, metaFile, dirs, lastId, history>>
    BY <1>4 DEF Announce
  <2>2. lastId \notin DOMAIN metadata /\ DOMAIN metadata \subseteq 1..(lastId - 1)
    BY <2>1 DEF TypeOK, NumbersFollowIds
  <2>3. file' \in [Sources -> File]
    BY <2>1 DEF TypeOK, File, Sources
  <2>4. lastId \in 1..lastId
    BY <2>1 DEF TypeOK
  <2>5. NumbersFollowIds(metadata)'
    BY <2>1, <2>2, <2>4 DEF TypeOK, NumbersFollowIds
  <2>6. \A i \in DOMAIN metadata' : metadata'[i] < nextSeq'
    BY <2>1 DEF TypeOK, NumbersFollowIds
  <2>. QED
    BY <2>1, <2>3, <2>5, <2>6 DEF TypeOK, NumbersFollowIds, history
<1>5. CASE OpenMetadata
  BY <1>5 DEF OpenMetadata, TypeOK, NumbersFollowIds, history
<1>6. CASE FillMetadata
  BY <1>6 DEF FillMetadata, TypeOK, NumbersFollowIds, history
<1>7. CASE Prune
  <2>1. /\ dirs' \in SUBSET dirs
        /\ metadata' = [i \in DOMAIN metadata \ Surplus |-> metadata[i]]
        /\ pc' = "open" /\ then' = "created"
        /\ UNCHANGED <<turn, chosen, nextSeq, metaFile, lastId, file, history>>
    BY <1>7 DEF Prune
  <2>2. DOMAIN metadata' \subseteq DOMAIN metadata /\ \A i \in DOMAIN metadata' : metadata'[i] = metadata[i]
    BY <2>1
  <2>3. NumbersFollowIds(metadata)' /\ \A i \in DOMAIN metadata' : metadata'[i] < nextSeq'
    BY <2>1, <2>2 DEF TypeOK, NumbersFollowIds
  <2>4. NumbersFollowIds(metaFile) => NumbersFollowIds(metaFile)'
    BY <2>1 DEF NumbersFollowIds
  <2>. QED
    BY <2>1, <2>3, <2>4 DEF TypeOK, history
<1>8. CASE BeginCheck \/ AnnounceRaises \/ Created \/ VerifyPasses \/ NoneValid
  <2>1. /\ pc' \in {"copy", "raised", "verify", "up"} /\ turn' \in Sources
        /\ UNCHANGED <<then, chosen, metadata, nextSeq, disk, history>>
    BY <1>8 DEF BeginCheck, AnnounceRaises, Created, VerifyPasses, NoneValid, Sources, TypeOK, process
  <2>. QED
    BY <2>1 DEF TypeOK, NumbersFollowIds, disk, history
<1>9. CASE MoveAway
  <2>1. chosen' \in Snapshot
    BY <1>9 DEF MoveAway, Latest, Valid, TypeOK
  <2>2. file' \in [Sources -> File]
    BY <1>9 DEF MoveAway, TypeOK, File, Empty
  <2>. QED
    BY <1>9, <2>1, <2>2 DEF MoveAway, TypeOK, NumbersFollowIds, history
<1>10. CASE CopyBack
  <2>1. chosen \in Snapshot
    BY <1>10 DEF CopyBack, TypeOK
  <2>2. file' \in [Sources -> File]
    BY <1>10, <2>1 DEF CopyBack, TypeOK, File, Snapshot
  <2>. QED
    BY <1>10, <2>2 DEF CopyBack, TypeOK, NumbersFollowIds, history
<1>11. CASE Stop \/ DieRestoring
  <2>1. /\ pc' = "down" /\ turn' = "journal" /\ then' = "prune" /\ chosen' = NoSnapshot
        /\ metadata' = NoMetadata /\ nextSeq' = 1
        /\ UNCHANGED <<metaFile, dirs, lastId, boots, damages, misnumbered>>
        /\ cutShort' \in BOOLEAN
    BY <1>11 DEF Stop, DieRestoring, Down, disk, history, TypeOK
  <2>2. file' \in [Sources -> File]
    <3>1. CASE Stop
      BY <3>1 DEF Stop, disk, TypeOK
    <3>2. CASE DieRestoring
      <4>1. chosen \in Snapshot
        BY <3>2 DEF DieRestoring, TypeOK
      <4>. QED
        BY <3>2, <4>1 DEF DieRestoring, TypeOK, File, Snapshot
    <3>. QED
      BY <1>11, <3>1, <3>2
  <2>3. NumbersFollowIds(metadata)' /\ \A i \in DOMAIN metadata' : metadata'[i] < nextSeq'
    BY <2>1 DEF NumbersFollowIds, NoMetadata
  <2>. QED
    BY <2>1, <2>2, <2>3 DEF TypeOK, NumbersFollowIds, Sources
<1>. QED
  BY <1>1, <1>2, <1>3, <1>4, <1>5, <1>6, <1>7, <1>8, <1>9, <1>10, <1>11
     DEF Next, Snapshotting, Verifying

\* A non-empty set of numbers has a least element.
LEMMA LeastNumber ==
  ASSUME NEW S, S \subseteq Nat, S # {}
  PROVE  \E m \in S : \A k \in S : m <= k
<1>. DEFINE less == OpToRel(<, Nat)
<1>1. IsWellFoundedOn(less, Nat)
  BY NatLessThanWellFounded
<1>2. PICK m \in S : \A k \in S : ~(<<k, m>> \in less)
  <2>. HIDE DEF less
  <2>. QED
    BY <1>1, WFMin
<1>3. \A k \in S : ~(k < m)
  BY <1>2 DEF OpToRel
<1>. QED
  BY <1>3

\* Of a list that is at most one too long, pruning removes exactly the surplus
\* (_prune_old_snapshots).
LEMMA PruneKeepsMax ==
  ASSUME TypeOK, Cardinality(DOMAIN metadata) <= MaxSnapshots + 1
  PROVE  Cardinality(DOMAIN metadata \ Surplus) =
           IF Cardinality(DOMAIN metadata) > MaxSnapshots
           THEN MaxSnapshots ELSE Cardinality(DOMAIN metadata)
<1>. DEFINE D == DOMAIN metadata
            Above(k) == {x \in D : metadata[x] > metadata[k]}
<1>. USE SnapshotAssumption
<1>1. IsFiniteSet(D) /\ D \subseteq Nat /\ Cardinality(D) \in Nat
  BY FiniteList DEF TypeOK
<1>2. /\ \A x \in D : metadata[x] \in Nat
      /\ \A x, y \in D : x < y => metadata[x] < metadata[y]
  BY DEF TypeOK, NumbersFollowIds
<1>3. Surplus = {k \in D : Cardinality(Above(k)) >= MaxSnapshots}
  BY DEF Surplus
<1>4. \A k \in D : Above(k) \in SUBSET (D \ {k})
  BY <1>2
<1>5. \A k \in D : /\ IsFiniteSet(D \ {k})
                   /\ Cardinality(D \ {k}) = Cardinality(D) - 1
  BY <1>1, FS_RemoveElement
<1>6. \A k \in D : Cardinality(Above(k)) \in Nat /\ Cardinality(Above(k)) <= Cardinality(D) - 1
  <2>. TAKE k \in D
  <2>1. Above(k) \in SUBSET (D \ {k})
    BY <1>4
  <2>2. IsFiniteSet(D \ {k}) /\ Cardinality(D \ {k}) = Cardinality(D) - 1
    BY <1>5
  <2>. HIDE DEF Above, D
  <2>3. IsFiniteSet(Above(k)) /\ Cardinality(Above(k)) <= Cardinality(D \ {k})
    BY <2>1, <2>2, FS_Subset
  <2>4. Cardinality(Above(k)) \in Nat
    BY <2>3, FS_CardinalityType
  <2>. QED
    BY <2>2, <2>3, <2>4
<1>7. CASE Cardinality(D) <= MaxSnapshots
  <2>1. Surplus = {}
    BY <1>1, <1>3, <1>6, <1>7
  <2>2. D \ Surplus = D
    BY <2>1
  <2>. QED
    BY <2>2, <1>1, <1>7
<1>8. CASE Cardinality(D) = MaxSnapshots + 1
  <2>1. D # {}
    BY <1>8, FS_EmptySet
  <2>2. PICK low \in D : \A k \in D : low <= k
    BY <1>1, <2>1, LeastNumber
  <2>3. Above(low) = D \ {low}
    BY <1>1, <1>2, <2>2
  <2>4. low \in Surplus
    <3>1. Cardinality(Above(low)) = Cardinality(D \ {low})
      BY <2>3, Zenon
    <3>2. Cardinality(Above(low)) >= MaxSnapshots
      BY <3>1, <1>5, <1>8
    <3>. QED
      BY <3>2, <1>3
  <2>5. ASSUME NEW k \in D, k # low PROVE k \notin Surplus
    <3>1. low < k
      BY <1>1, <2>2, <2>5
    <3>2. Above(k) \in SUBSET (D \ {k}) /\ low \in D \ {k} /\ low \notin Above(k)
      BY <1>2, <2>5, <3>1
    <3>3. Above(k) # D \ {k}
      BY <3>2
    <3>. HIDE DEF Above
    <3>4. Cardinality(Above(k)) < Cardinality(D \ {k})
      BY <1>5, <3>2, <3>3, StrictSubset
    <3>. QED
      BY <1>3, <1>5, <1>6, <1>8, <3>4
  <2>6. D \ Surplus = D \ {low}
    BY <2>4, <2>5, <1>3
  <2>7. Cardinality(D \ Surplus) = Cardinality(D \ {low})
    BY <2>6, Zenon
  <2>8. Cardinality(D \ Surplus) = MaxSnapshots
    <3>1. Cardinality(D \ {low}) = Cardinality(D) - 1
      BY <1>5, Zenon
    <3>. HIDE DEF D
    <3>. QED
      BY <2>7, <3>1, <1>8
  <2>. QED
    BY <2>8, <1>8
<1>. QED
  BY <1>1, <1>7, <1>8

\* What a list keeps depends on its length alone.
LEMMA KeptOfLength ==
  ASSUME NEW m, NEW n, DOMAIN m = DOMAIN n
  PROVE  Kept(m) = Kept(n)
BY DEF Kept

\* A list with one more snapshot.
LEMMA OneMore ==
  ASSUME TypeOK, NEW m, DOMAIN m = DOMAIN metadata \cup {lastId}, lastId \notin DOMAIN metadata
  PROVE  /\ Cardinality(DOMAIN m) = Cardinality(DOMAIN metadata) + 1
         /\ Kept(metadata) <= Kept(m) /\ Kept(m) \in Nat
         /\ Cardinality(DOMAIN metadata) <= MaxSnapshots => Kept(m) + 2 >= Cardinality(DOMAIN metadata) + 2
<1>1. IsFiniteSet(DOMAIN metadata) /\ Cardinality(DOMAIN metadata) \in Nat
  BY FiniteList DEF TypeOK
<1>2. Cardinality(DOMAIN m) = Cardinality(DOMAIN metadata) + 1
  BY <1>1, FS_AddElement
<1>. QED
  BY <1>1, <1>2, SnapshotAssumption DEF Kept

\* The numbers stay in order when a boot renumbers what it has found (Boot).
LEMMA BootNumbers ==
  ASSUME IInv, TypeOK', Boot
  PROVE  SequenceFollowsCreation' /\ (~misnumbered' => NumbersBounded')
<1>. USE SnapshotAssumption
<1>1. SUFFICES ASSUME ~misnumbered' PROVE SequenceFollowsCreation' /\ NumbersBounded'
  BY DEF SequenceFollowsCreation
<1>2. /\ ~misnumbered /\ metaFile # Torn
      /\ ~(Cardinality(DOMAIN metaFile) > MaxSnapshots)
      /\ metadata' = Renumbered(metaFile) /\ nextSeq' = Cardinality(DOMAIN metaFile) + 1
      /\ pc' = "booted" /\ UNCHANGED <<metaFile, dirs, lastId, turn, then>>
  BY <1>1 DEF Boot, disk
<1>3. NumbersBounded /\ SequenceFollowsCreation /\ TypeOK /\ NumbersFollowIds(metaFile)
  BY <1>2 DEF IInv, TypeOK
<1>4. DOMAIN metadata' = DOMAIN metaFile
  BY <1>2, <1>3, RenumberedFollows
<1>5. Kept(metadata') = Kept(metaFile)
  BY <1>4, KeptOfLength
<1>6. Kept(metadata)' = Kept(metaFile) /\ Kept(metaFile)' = Kept(metaFile)
  BY <1>2, <1>5 DEF Kept
<1>7. NumbersUpTo(Kept(metaFile)) /\ Cardinality(DOMAIN metaFile) \in Nat
  BY <1>2, <1>3, FiniteList DEF NumbersBounded
<1>8. NumbersUpTo(Kept(metaFile))' /\ NumbersUpTo(Kept(metadata))'
  BY <1>2, <1>6, <1>7 DEF NumbersUpTo
<1>9. NumbersBounded'
  BY <1>2, <1>4, <1>7, <1>8
     DEF NumbersBounded, JournalNext, LineageNext, Surplussed, Listing
<1>. QED
  BY <1>2, <1>3, <1>9 DEF SequenceFollowsCreation

\* A new snapshot has the highest number of its file's, or shares it, and is within
\* the bound (create_snapshot_set).
LEMMA TakeNumbers ==
  ASSUME IInv, TypeOK', TakeSnapshot, ~misnumbered
  PROVE  SequenceFollowsCreation' /\ NumbersBounded'
<1>. USE SnapshotAssumption
<1>. DEFINE new == [id |-> lastId + 1, seq |-> nextSeq, source |-> turn,
                    entries |-> file[turn].entries, sound |-> file[turn].sound]
<1>1. /\ dirs' = dirs \cup {new} /\ lastId' = lastId + 1 /\ pc = "copy" /\ pc' = "announce"
      /\ UNCHANGED <<turn, then, metadata, nextSeq, metaFile, misnumbered>>
  BY DEF TakeSnapshot, history
<1>2. new.id = lastId + 1 /\ new.seq = nextSeq /\ new.source = turn
  OBVIOUS
<1>. HIDE DEF new
<1>3. NumbersBounded /\ SequenceFollowsCreation /\ TypeOK
  BY DEF IInv
<1>4. /\ turn \in Sources /\ nextSeq \in Nat /\ lastId \in Nat
      /\ \A d \in dirs : d.seq \in Nat /\ d.id \in 1..lastId /\ d.source \in Sources
  BY <1>3 DEF TypeOK, Snapshot
<1>5. NumbersFollowIds(metadata)
  BY <1>3 DEF TypeOK
<1>6. Kept(metadata) \in Nat /\ Cardinality(DOMAIN metadata) \in Nat
  BY <1>3, <1>5, FiniteList
<1>7. /\ NumbersUpTo(Kept(metadata)) /\ DOMAIN metaFile = DOMAIN metadata
      /\ Cardinality(DOMAIN metadata) <= MaxSnapshots
      /\ turn = "journal" => nextSeq = Cardinality(DOMAIN metadata) + 1
      /\ turn = "lineage" => /\ nextSeq <= Kept(metadata) + 2
                             /\ \A d \in dirs : d.source = "lineage" => d.seq <= nextSeq
  BY <1>1, <1>3 DEF NumbersBounded, Listing, JournalNext, LineageNext, Surplussed
<1>8. turn = "journal" => nextSeq = Kept(metadata) + 1
  BY <1>6, <1>7 DEF Kept
<1>9. Kept(metadata)' = Kept(metadata) /\ Kept(metaFile)' = Kept(metadata)
  BY <1>1, <1>7, KeptOfLength DEF Kept
<1>10. NumbersUpTo(Kept(metadata))' /\ NumbersUpTo(Kept(metaFile))'
  <2>1. ASSUME NEW d \in dirs' PROVE d.seq <= Kept(metadata) + (IF d.source = "journal" THEN 1 ELSE 2)
    <3>1. CASE d \in dirs
      BY <3>1, <1>7 DEF NumbersUpTo
    <3>2. CASE d = new
      BY <3>2, <1>2, <1>4, <1>6, <1>7, <1>8 DEF Sources
    <3>. QED
      BY <2>1, <3>1, <3>2, <1>1
  <2>. QED
    BY <2>1, <1>9 DEF NumbersUpTo
<1>11. \A d \in dirs : d.source = turn => d.seq <= nextSeq
  BY <1>4, <1>6, <1>7, <1>8 DEF NumbersUpTo, Sources
<1>12. SequenceFollowsCreation'
  <2>1. ASSUME NEW d \in dirs', NEW e \in dirs', d.source = e.source, d.id < e.id
        PROVE  d.seq <= e.seq
    <3>1. CASE d = new
      BY <3>1, <2>1, <1>1, <1>2, <1>4
    <3>2. CASE d \in dirs /\ e = new
      BY <3>2, <2>1, <1>2, <1>11
    <3>3. CASE d \in dirs /\ e \in dirs
      BY <3>3, <2>1, <1>3 DEF SequenceFollowsCreation
    <3>. QED
      BY <3>1, <3>2, <3>3, <1>1
  <2>. QED
    BY <2>1 DEF SequenceFollowsCreation
<1>13. LineageNext' => \A d \in dirs' : d.source = "lineage" => d.seq <= nextSeq'
  <2>1. LineageNext' => turn = "lineage"
    BY <1>1 DEF LineageNext
  <2>. QED
    BY <2>1, <1>1, <1>2, <1>4, <1>7
<1>14. NumbersBounded'
  BY <1>1, <1>7, <1>9, <1>10, <1>13, <1>4
     DEF NumbersBounded, JournalNext, LineageNext, Surplussed, Listing
<1>. QED
  BY <1>12, <1>14

\* The new snapshot enters the list (create_snapshot_set, after append_tx).
LEMMA AnnounceNumbers ==
  ASSUME IInv, TypeOK', Announce, ~misnumbered
  PROVE  SequenceFollowsCreation' /\ NumbersBounded'
<1>. USE SnapshotAssumption
<1>1. /\ pc = "announce" /\ pc' = "open" /\ then' = "prune"
      /\ DOMAIN metadata' = DOMAIN metadata \cup {lastId}
      /\ nextSeq' = nextSeq + 1
      /\ UNCHANGED <<turn, metaFile, dirs, lastId, misnumbered>>
  BY DEF Announce, history
<1>2. /\ NumbersBounded /\ SequenceFollowsCreation /\ TypeOK
      /\ turn \in Sources /\ nextSeq \in Nat /\ NumbersFollowIds(metadata)
      /\ lastId \notin DOMAIN metadata
  BY <1>1 DEF IInv, TypeOK
<1>3. /\ Kept(metadata) \in Nat /\ Cardinality(DOMAIN metadata) \in Nat
      /\ Kept(metadata) <= Cardinality(DOMAIN metadata)
  BY <1>2, FiniteList
<1>4. /\ NumbersUpTo(Kept(metadata))
      /\ Cardinality(DOMAIN metadata) <= MaxSnapshots
      /\ turn = "journal" => nextSeq = Cardinality(DOMAIN metadata) + 1
  BY <1>1, <1>2 DEF NumbersBounded, Listing, JournalNext, Surplussed
<1>5. /\ Cardinality(DOMAIN metadata') = Cardinality(DOMAIN metadata) + 1
      /\ Kept(metadata) <= Kept(metadata') /\ Kept(metadata') \in Nat
      /\ Kept(metadata') + 2 >= Cardinality(DOMAIN metadata) + 2
  BY <1>1, <1>2, <1>4, OneMore
<1>6. Kept(metadata)' = Kept(metadata') /\ Kept(metaFile)' = Kept(metaFile)
  BY <1>1 DEF Kept
<1>7. \A d \in dirs : d.seq \in Nat
  BY <1>2 DEF TypeOK, Snapshot
<1>8. NumbersUpTo(Kept(metadata))'
  BY <1>1, <1>3, <1>4, <1>5, <1>6, <1>7 DEF NumbersUpTo
<1>9. metaFile' # Torn => NumbersUpTo(Kept(metaFile))'
  BY <1>1, <1>2, <1>6 DEF NumbersUpTo, NumbersBounded
<1>10. LineageNext' => /\ nextSeq' <= Kept(metadata)' + 2
                       /\ \A d \in dirs' : d.source = "lineage" => d.seq <= nextSeq'
  <2>1. SUFFICES ASSUME turn = "journal"
        PROVE  /\ nextSeq' <= Kept(metadata') + 2
               /\ \A d \in dirs : d.source = "lineage" => d.seq <= nextSeq'
    BY <1>1, <1>6 DEF LineageNext
  <2>2. nextSeq' = Cardinality(DOMAIN metadata) + 2
    BY <2>1, <1>1, <1>3, <1>4
  <2>3. \A d \in dirs : d.source = "lineage" => d.seq <= Kept(metadata) + 2
    BY <1>4 DEF NumbersUpTo
  <2>. QED
    BY <2>2, <2>3, <1>3, <1>5, <1>7
<1>11. ~JournalNext' /\ pc' = "open" /\ Surplussed'
  BY <1>1 DEF JournalNext, Surplussed
<1>12. Cardinality(DOMAIN metadata') <= MaxSnapshots + 1
  BY <1>3, <1>4, <1>5
<1>13. NumbersBounded'
  BY <1>8, <1>9, <1>10, <1>11, <1>12 DEF NumbersBounded
<1>. QED
  BY <1>1, <1>2, <1>13 DEF SequenceFollowsCreation

\* The list is saved (_save_metadata).
LEMMA SaveNumbers ==
  ASSUME IInv, TypeOK', OpenMetadata \/ FillMetadata, ~misnumbered
  PROVE  SequenceFollowsCreation' /\ NumbersBounded'
<1>1. NumbersBounded /\ SequenceFollowsCreation /\ TypeOK
  BY DEF IInv
<1>2. UNCHANGED <<turn, then, metadata, nextSeq, dirs, lastId, misnumbered>>
  BY DEF OpenMetadata, FillMetadata, history
<1>3. Kept(metadata)' = Kept(metadata) /\ pc \in {"open", "fill"}
  BY <1>2 DEF Kept, OpenMetadata, FillMetadata
<1>4. NumbersUpTo(Kept(metadata))'
  BY <1>1, <1>2, <1>3 DEF NumbersBounded, NumbersUpTo, Listing
<1>5. CASE OpenMetadata
  <2>1. metaFile' = Torn /\ pc = "open" /\ pc' = "fill"
    BY <1>5 DEF OpenMetadata
  <2>2. (LineageNext' <=> LineageNext) /\ ~JournalNext' /\ (Surplussed' <=> Surplussed)
    BY <2>1, <1>2 DEF LineageNext, JournalNext, Surplussed
  <2>3. NumbersBounded'
    BY <2>1, <2>2, <1>1, <1>2, <1>3, <1>4 DEF NumbersBounded, Listing
  <2>. QED
    BY <2>3, <1>1, <1>2 DEF SequenceFollowsCreation
<1>6. CASE FillMetadata
  <2>1. metaFile' = metadata /\ pc = "fill" /\ pc' = then /\ then \in {"prune", "created"}
    BY <1>6, <1>1 DEF FillMetadata, TypeOK
  <2>2. Kept(metaFile)' = Kept(metadata)
    BY <2>1 DEF Kept
  <2>3. NumbersUpTo(Kept(metaFile))'
    BY <2>2, <1>3, <1>4 DEF NumbersUpTo
  <2>4. (LineageNext' <=> LineageNext) /\ ~JournalNext' /\ (Surplussed' <=> Surplussed)
    BY <2>1, <1>2 DEF LineageNext, JournalNext, Surplussed
  <2>5. NumbersBounded'
    BY <2>1, <2>3, <2>4, <1>1, <1>2, <1>3, <1>4 DEF NumbersBounded, Listing
  <2>. QED
    BY <2>5, <1>1, <1>2 DEF SequenceFollowsCreation
<1>. QED
  BY <1>5, <1>6

\* Surplus snapshots are removed (_prune_old_snapshots).
LEMMA PruneNumbers ==
  ASSUME IInv, TypeOK', Prune, ~misnumbered
  PROVE  SequenceFollowsCreation' /\ NumbersBounded'
<1>. USE SnapshotAssumption
<1>1. /\ pc = "prune" /\ pc' = "open" /\ then' = "created" /\ dirs' \in SUBSET dirs
      /\ DOMAIN metadata' = DOMAIN metadata \ Surplus
      /\ UNCHANGED <<turn, nextSeq, metaFile, lastId, misnumbered>>
  BY DEF Prune, history
<1>2. NumbersBounded /\ SequenceFollowsCreation /\ TypeOK /\ NumbersFollowIds(metadata)
  BY DEF IInv, TypeOK
<1>3. /\ NumbersUpTo(Kept(metadata)) /\ Cardinality(DOMAIN metadata) <= MaxSnapshots + 1
      /\ Cardinality(DOMAIN metadata) \in Nat
  BY <1>1, <1>2, FiniteList DEF NumbersBounded, Listing, Surplussed
<1>4. Cardinality(DOMAIN metadata') = Kept(metadata)
  BY <1>1, <1>2, <1>3, PruneKeepsMax DEF Kept
<1>5. Cardinality(DOMAIN metadata') <= MaxSnapshots /\ Kept(metadata)' = Kept(metadata)
  BY <1>2, <1>4, FiniteList DEF Kept
<1>6. NumbersUpTo(Kept(metadata))'
  BY <1>1, <1>3, <1>5 DEF NumbersUpTo
<1>7. Kept(metaFile)' = Kept(metaFile)
  BY <1>1 DEF Kept
<1>8. metaFile' # Torn => NumbersUpTo(Kept(metaFile))'
  BY <1>1, <1>2, <1>7 DEF NumbersUpTo, NumbersBounded
<1>9. (LineageNext' => LineageNext) /\ ~JournalNext' /\ ~Surplussed'
  BY <1>1 DEF LineageNext, JournalNext, Surplussed
<1>10. NumbersBounded'
  BY <1>1, <1>2, <1>5, <1>6, <1>8, <1>9 DEF NumbersBounded, Listing
<1>11. SequenceFollowsCreation'
  BY <1>1, <1>2 DEF SequenceFollowsCreation
<1>. QED
  BY <1>10, <1>11

\* All other steps leave lists and snapshots alone, or forget the list in memory.
LEMMA OtherNumbers ==
  ASSUME IInv, TypeOK', ~misnumbered,
         \/ BeginCheck \/ AnnounceRaises \/ Created \/ Verifying \/ Stop \/ DieRestoring
         \/ \E s \in Sources : AppendEntry(s) \/ Damage(s)
  PROVE  SequenceFollowsCreation' /\ NumbersBounded'
<1>1. NumbersBounded /\ SequenceFollowsCreation /\ TypeOK
  BY DEF IInv
<1>2. UNCHANGED <<metaFile, dirs, misnumbered>>
  BY DEF BeginCheck, AnnounceRaises, Created, Verifying, VerifyPasses, NoneValid, MoveAway, CopyBack,
         Stop, DieRestoring, AppendEntry, Damage, disk, history
<1>3. Kept(metaFile)' = Kept(metaFile)
  BY <1>2 DEF Kept
<1>4. metaFile' # Torn => NumbersUpTo(Kept(metaFile))'
  BY <1>1, <1>2, <1>3 DEF NumbersBounded, NumbersUpTo
<1>5. SequenceFollowsCreation'
  BY <1>1, <1>2 DEF SequenceFollowsCreation
<1>6. CASE pc' \notin Listing
  <2>1. ~JournalNext' /\ ~LineageNext' /\ pc' \notin {"booted", "copy", "announce", "created"}
    BY <1>6 DEF JournalNext, LineageNext, Listing
  <2>. QED
    BY <2>1, <1>4, <1>5, <1>6 DEF NumbersBounded
<1>7. CASE pc' \in Listing
  <2>1. /\ UNCHANGED <<metadata, nextSeq, then>>
        /\ \/ BeginCheck \/ Created
           \/ UNCHANGED <<pc, turn>>
    BY <1>7
       DEF BeginCheck, AnnounceRaises, Created, Verifying, VerifyPasses, NoneValid, MoveAway,
           CopyBack, Stop, DieRestoring, Down, AppendEntry, Damage, process, Listing
  <2>2. Kept(metadata)' = Kept(metadata)
    BY <2>1 DEF Kept
  <2>3. /\ pc \in Listing /\ (JournalNext' => JournalNext) /\ (LineageNext' => LineageNext)
        /\ (Surplussed => Surplussed')
        /\ pc' \in {"booted", "copy", "announce", "created"}
             => pc \in {"booted", "copy", "announce", "created"}
    <3>1. CASE UNCHANGED <<pc, turn>>
      <4>1. pc' = pc /\ turn' = turn /\ then' = then
        BY <2>1, <3>1
      <4>2. pc \in Listing
        BY <4>1, <1>7
      <4>3. (JournalNext' <=> JournalNext) /\ (LineageNext' <=> LineageNext)
        BY <4>1 DEF JournalNext, LineageNext
      <4>4. Surplussed' <=> Surplussed
        BY <4>1 DEF Surplussed
      <4>. QED
        BY <4>1, <4>2, <4>3, <4>4
    <3>2. CASE BeginCheck
      BY <3>2 DEF BeginCheck, JournalNext, LineageNext, Surplussed, Listing
    <3>3. CASE Created
      <4>1. pc = "created" /\ pc' = "copy" /\ turn = "journal" /\ turn' = "lineage"
        BY <3>3, <1>7, <1>1 DEF Created, Listing, TypeOK, Sources
      <4>. QED
        BY <4>1 DEF JournalNext, LineageNext, Surplussed, Listing
    <3>. QED
      BY <2>1, <3>1, <3>2, <3>3
  <2>4. NumbersUpTo(Kept(metadata))'
    BY <2>2, <2>3, <1>1, <1>2 DEF NumbersBounded, NumbersUpTo
  <2>5. UNCHANGED Cardinality(DOMAIN metadata)
    BY <2>1
  <2>6. Cardinality(DOMAIN metadata') <= MaxSnapshots + (IF Surplussed' THEN 1 ELSE 0)
    <3>1. NumbersFollowIds(metadata)
      BY <1>1 DEF TypeOK
    <3>. QED
      BY <3>1, <2>3, <2>5, <1>1, FiniteList, SnapshotAssumption DEF NumbersBounded
  <2>7. NumbersBounded'
    BY <2>1, <2>2, <2>3, <2>4, <2>6, <1>1, <1>2, <1>4 DEF NumbersBounded
  <2>. QED
    BY <2>7, <1>5
<1>. QED
  BY <1>6, <1>7

\* Numbers follow the order of creation after every step.
LEMMA NumbersStep ==
  ASSUME IInv, TypeOK', Next
  PROVE  SequenceFollowsCreation' /\ (~misnumbered' => NumbersBounded')
<1>1. CASE Boot
  BY <1>1, BootNumbers
<1>2. CASE ~Boot
  <2>1. UNCHANGED misnumbered
    BY <1>2 DEF Next, Snapshotting, Verifying, BeginCheck, TakeSnapshot, AnnounceRaises, Announce,
                OpenMetadata, FillMetadata, Prune, Created, VerifyPasses, NoneValid, MoveAway,
                CopyBack, Stop, DieRestoring, AppendEntry, Damage, history
  <2>2. CASE misnumbered
    BY <2>1, <2>2 DEF SequenceFollowsCreation
  <2>3. CASE ~misnumbered
    <3>1. TakeSnapshot \/ Announce \/ OpenMetadata \/ FillMetadata \/ Prune
            => SequenceFollowsCreation' /\ NumbersBounded'
      BY <2>3, TakeNumbers, AnnounceNumbers, SaveNumbers, PruneNumbers, Zenon
    <3>2. \/ TakeSnapshot \/ Announce \/ OpenMetadata \/ FillMetadata \/ Prune
          \/ BeginCheck \/ AnnounceRaises \/ Created \/ Verifying \/ Stop \/ DieRestoring
          \/ \E s \in Sources : AppendEntry(s) \/ Damage(s)
      BY <1>2, Zenon DEF Next, Snapshotting
    <3>. QED
      BY <2>3, <3>1, <3>2, OtherNumbers, Zenon
  <2>. QED
    BY <2>2, <2>3
<1>. QED
  BY <1>1, <1>2

\* The newest valid snapshot of a file is what Latest finds, while numbers follow the
\* order of creation (get_latest_valid_snapshot).
LEMMA LatestIsNewest ==
  ASSUME TypeOK, SequenceFollowsCreation, ~misnumbered,
         NEW s \in Sources, NEW d \in Latest(s), NEW e \in Valid(s)
  PROVE  e.id <= d.id
<1>1. /\ d \in Valid(s) /\ d \in dirs /\ e \in dirs /\ d.source = e.source
      /\ d.id \in Nat /\ e.id \in Nat /\ d.seq \in Nat /\ e.seq \in Nat
  BY DEF Latest, Valid, TypeOK, Snapshot
<1>2. SUFFICES ASSUME d.id < e.id PROVE FALSE
  BY <1>1
<1>3. d.seq <= e.seq /\ e # d
  BY <1>1, <1>2 DEF SequenceFollowsCreation
<1>4. Outranks(d, e)
  BY <1>1, <1>3 DEF Latest
<1>. QED
  BY <1>1, <1>2, <1>3, <1>4 DEF Outranks

\* What is restored is the newest valid snapshot after every step (MoveAway).
LEMMA RestoreStep ==
  ASSUME IInv, TypeOK', Next
  PROVE  NewestRestored' /\ (pc' = "restore" => chosen' \in Valid(turn)')
<1>1. TypeOK /\ SequenceFollowsCreation /\ NewestRestored /\ (pc = "restore" => chosen \in Valid(turn))
  BY DEF IInv
<1>2. SUFFICES ASSUME pc' = "restore"
      PROVE  /\ ~misnumbered' => \A d \in Valid(turn)' : d.id <= chosen'.id
             /\ chosen' \in Valid(turn)'
  BY DEF NewestRestored
<1>3. MoveAway
  BY <1>1, <1>2
     DEF Next, Snapshotting, Verifying, Boot, BeginCheck, TakeSnapshot, AnnounceRaises, Announce,
         OpenMetadata, FillMetadata, Prune, Created, VerifyPasses, NoneValid, CopyBack, Stop,
         DieRestoring, Down, AppendEntry, Damage, process, TypeOK
<1>4. UNCHANGED <<turn, dirs, misnumbered>> /\ chosen' \in Latest(turn) /\ turn \in Sources
  BY <1>1, <1>3 DEF MoveAway, history, TypeOK
<1>5. Valid(turn)' = Valid(turn)
  BY <1>4 DEF Valid
<1>6. chosen' \in Valid(turn)
  BY <1>4 DEF Latest
<1>7. ~misnumbered => \A d \in Valid(turn) : d.id <= chosen'.id
  BY <1>1, <1>4, LatestIsNewest
<1>. QED
  BY <1>4, <1>5, <1>6, <1>7

\* No file falls behind its snapshots in any step (CopyBack, TakeSnapshot).
LEMMA ContentStep ==
  ASSUME IInv, TypeOK', Next, ~misnumbered', ~cutShort'
  PROVE  SnapshotsGrow' /\ FilesCovered'
<1>1. ~misnumbered /\ ~cutShort /\ ~DieRestoring
  <2>1. ~DieRestoring
    BY DEF DieRestoring
  <2>2. CASE Boot
    BY <2>1, <2>2 DEF Boot
  <2>3. CASE ~Boot
    <3>1. UNCHANGED <<misnumbered, cutShort>>
      BY <2>1, <2>3
         DEF Next, Snapshotting, Verifying, BeginCheck, TakeSnapshot, AnnounceRaises, Announce,
             OpenMetadata, FillMetadata, Prune, Created, VerifyPasses, NoneValid, MoveAway, CopyBack,
             Stop, AppendEntry, Damage, history
    <3>. QED
      BY <2>1, <3>1
  <2>. QED
    BY <2>2, <2>3
<1>2. SnapshotsGrow /\ FilesCovered /\ NewestRestored /\ TypeOK
  BY <1>1 DEF IInv
<1>3. /\ \A s \in Sources : file[s] \in File /\ file'[s] \in File
      /\ \A s \in Sources : \A d \in Valid(s) : d.entries \in Nat /\ d.id \in 1..lastId
      /\ turn \in Sources /\ lastId \in Nat
  BY DEF IInv, TypeOK, Valid, Snapshot
<1>4. CASE TakeSnapshot
  <2>. DEFINE new == [id |-> lastId + 1, seq |-> nextSeq, source |-> turn,
                      entries |-> file[turn].entries, sound |-> file[turn].sound]
  <2>1. dirs' = dirs \cup {new} /\ UNCHANGED <<file, turn>> /\ pc = "copy" /\ pc' = "announce"
    BY <1>4 DEF TakeSnapshot
  <2>2. new.id = lastId + 1 /\ new.source = turn /\ new.entries = file[turn].entries
    OBVIOUS
  <2>. HIDE DEF new
  <2>3. \A s \in Sources : \A d \in Valid(s)' : d \in Valid(s) \/ (d = new /\ s = turn)
    BY <2>1, <2>2 DEF Valid
  <2>4. \A s \in Sources : \A d \in Valid(s) : d.entries <= file[s].entries
    BY <1>2, <2>1 DEF FilesCovered
  <2>5. SnapshotsGrow'
    <3>1. ASSUME NEW s \in Sources, NEW d \in Valid(s)', NEW e \in Valid(s)', d.id < e.id
          PROVE  d.entries <= e.entries
      <4>1. CASE d \in Valid(s) /\ e \in Valid(s)
        BY <4>1, <3>1, <1>2 DEF SnapshotsGrow
      <4>2. CASE d \in Valid(s) /\ e = new /\ s = turn
        BY <4>2, <2>2, <2>4
      <4>3. d = new => e \in Valid(s) \/ e = new
        BY <2>3
      <4>4. d # new
        BY <4>3, <3>1, <2>2, <1>3
      <4>. QED
        BY <4>1, <4>2, <4>4, <2>3
    <3>. QED
      BY <3>1 DEF SnapshotsGrow
  <2>6. FilesCovered'
    <3>1. ASSUME NEW s \in Sources, NEW d \in Valid(s)' PROVE d.entries <= file'[s].entries
      <4>1. CASE d \in Valid(s)
        BY <4>1, <2>1, <2>4
      <4>2. CASE d = new /\ s = turn
        <5>1. d.entries = file'[s].entries /\ file'[s].entries \in Nat
          BY <4>2, <2>1, <2>2, <1>3 DEF File
        <5>. QED
          BY <5>1
      <4>. QED
        BY <4>1, <4>2, <2>3
    <3>. QED
      BY <3>1, <2>1 DEF FilesCovered
  <2>. QED
    BY <2>5, <2>6
<1>5. ASSUME dirs' \in SUBSET dirs
      PROVE  (\A s \in Sources : Valid(s)' \in SUBSET Valid(s)) /\ SnapshotsGrow'
  BY <1>5, <1>2 DEF Valid, SnapshotsGrow
<1>6. CASE CopyBack
  <2>1. /\ UNCHANGED <<dirs, turn>> /\ pc = "restore" /\ pc' = "up"
        /\ file' = [file EXCEPT ![turn] = [entries |-> chosen.entries, sound |-> chosen.sound]]
    BY <1>6 DEF CopyBack
  <2>2. /\ \A s \in Sources : s # turn => file'[s] = file[s]
        /\ file'[turn].entries = chosen.entries
    BY <2>1, <1>2, <1>3 DEF TypeOK
  <2>3. FilesCovered'
    BY <2>1, <2>2, <1>2, <1>5 DEF FilesCovered
  <2>. QED
    BY <2>1, <2>3, <1>5
<1>7. CASE MoveAway
  <2>1. /\ UNCHANGED <<dirs, turn, misnumbered>> /\ pc' = "restore" /\ pc = "verify"
        /\ file' = [file EXCEPT ![turn] = Empty]
    BY <1>7 DEF MoveAway, history
  <2>2. \A s \in Sources : s # turn => file'[s] = file[s]
    BY <2>1, <1>2 DEF TypeOK
  <2>3. Valid(turn)' = Valid(turn) /\ chosen' \in Valid(turn) /\ \A d \in Valid(turn) : d.id <= chosen'.id
    <3>1. Valid(turn)' = Valid(turn)
      BY <2>1 DEF Valid
    <3>. QED
      BY <3>1, <2>1, <1>1, RestoreStep DEF NewestRestored
  <2>4. \A d \in Valid(turn) : d.entries <= chosen'.entries
    <3>1. ASSUME NEW d \in Valid(turn) PROVE d.entries <= chosen'.entries
      <4>1. d.id < chosen'.id \/ d.id = chosen'.id
        BY <2>3, <1>3
      <4>2. d.id = chosen'.id => d = chosen'
        BY <2>3, <1>2 DEF TypeOK, Valid
      <4>. QED
        BY <4>1, <4>2, <2>3, <1>2, <1>3 DEF SnapshotsGrow
    <3>. QED
      BY <3>1
  <2>5. FilesCovered'
    BY <2>1, <2>2, <2>4, <1>2, <1>5 DEF FilesCovered
  <2>. QED
    BY <2>1, <2>5, <1>5
<1>8. CASE ~TakeSnapshot /\ ~CopyBack /\ ~MoveAway
  <2>1. CASE \E s \in Sources : AppendEntry(s) \/ Damage(s)
    <3>1. PICK s \in Sources : AppendEntry(s) \/ Damage(s)
      BY <2>1
    <3>2. /\ pc # "restore" /\ UNCHANGED <<pc, dirs>>
          /\ \A z \in Sources : z # s => file'[z] = file[z]
      BY <3>1, <1>2 DEF AppendEntry, Damage, process, TypeOK
    <3>3. file'[s].entries >= file[s].entries
      <4>1. file[s] \in File /\ file[s].entries \in Nat /\ file \in [Sources -> File]
        BY <1>2 DEF TypeOK, File
      <4>2. CASE AppendEntry(s)
        <5>1. file'[s] = [file[s] EXCEPT !.entries = @ + 1]
          BY <4>1, <4>2 DEF AppendEntry
        <5>. QED
          BY <4>1, <5>1 DEF File
      <4>3. CASE Damage(s)
        <5>1. file'[s] = [file[s] EXCEPT !.sound = FALSE]
          BY <4>1, <4>3 DEF Damage
        <5>. QED
          BY <4>1, <5>1 DEF File
      <4>. QED
        BY <3>1, <4>2, <4>3
    <3>4. \A z \in Sources : \A d \in Valid(z)' : d \in Valid(z) /\ d.entries <= file[z].entries
      BY <3>2, <1>2, <1>5 DEF FilesCovered
    <3>5. \A z \in Sources : file[z].entries \in Nat /\ file'[z].entries \in Nat
      BY <1>3 DEF File
    <3>6. \A z \in Sources : \A d \in Valid(z)' : d.entries <= file'[z].entries
      BY <3>2, <3>3, <3>4, <3>5, <1>3
    <3>7. FilesCovered'
      BY <3>2, <3>6 DEF FilesCovered
    <3>. QED
      BY <3>2, <3>7, <1>5
  <2>2. CASE Announce
    <3>1. /\ UNCHANGED dirs /\ pc = "announce" /\ pc' = "open"
          /\ file' = [file EXCEPT !["journal"].entries = @ + 1]
      BY <2>2 DEF Announce, history
    <3>2. \A z \in Sources : file[z].entries \in Nat /\ file'[z].entries >= file[z].entries
      <4>1. file \in [Sources -> File] /\ \A z \in Sources : file[z].entries \in Nat
        BY <1>2 DEF TypeOK, File
      <4>2. file'["journal"] = [file["journal"] EXCEPT !.entries = @ + 1]
        BY <3>1, <4>1 DEF Sources
      <4>3. file'["journal"].entries = file["journal"].entries + 1
        BY <4>1, <4>2 DEF File, Sources
      <4>4. \A z \in Sources : z # "journal" => file'[z] = file[z]
        BY <3>1, <4>1
      <4>. QED
        BY <4>1, <4>3, <4>4 DEF Sources
    <3>3. file' \in [Sources -> File] /\ \A z \in Sources : file'[z].entries \in Nat
      BY <1>3, <1>2 DEF TypeOK, File
    <3>4. \A z \in Sources : \A d \in Valid(z)' : d \in Valid(z) /\ d.entries <= file[z].entries
      BY <3>1, <1>2, <1>5 DEF FilesCovered
    <3>5. \A z \in Sources : \A d \in Valid(z)' : d.entries <= file'[z].entries
      BY <3>2, <3>3, <3>4, <1>3
    <3>6. FilesCovered'
      BY <3>1, <3>5 DEF FilesCovered
    <3>. QED
      BY <3>1, <3>6, <1>5
  <2>3. CASE ~Announce /\ ~\E s \in Sources : AppendEntry(s) \/ Damage(s)
    <3>0. ~DieRestoring
      BY <1>1, <1>2 DEF DieRestoring
    <3>1. /\ dirs' \in SUBSET dirs /\ UNCHANGED file
          /\ pc # "restore" /\ pc' # "restore"
      <4>1. CASE Boot \/ Stop
        BY <4>1, <1>1, <1>2 DEF Boot, Stop, Down, disk
      <4>2. CASE BeginCheck \/ AnnounceRaises \/ OpenMetadata \/ Created
        BY <4>2 DEF BeginCheck, AnnounceRaises, OpenMetadata, Created, disk
      <4>3. CASE FillMetadata
        BY <4>3, <1>2 DEF FillMetadata, TypeOK
      <4>4. CASE Prune
        BY <4>4 DEF Prune
      <4>5. CASE VerifyPasses \/ NoneValid
        BY <4>5 DEF VerifyPasses, NoneValid, disk
      <4>. QED
        BY <1>1, <1>8, <2>3, <3>0, <4>1, <4>2, <4>3, <4>4, <4>5 DEF Next, Snapshotting, Verifying
    <3>2. FilesCovered'
      BY <3>1, <1>2, <1>5 DEF FilesCovered
    <3>. QED
      BY <3>1, <3>2, <1>5
  <2>. QED
    BY <2>1, <2>2, <2>3
<1>. QED
  BY <1>4, <1>6, <1>7, <1>8

\* The invariant holds before the first boot.
LEMMA InitInv == Init => IInv
<1>. SUFFICES ASSUME Init PROVE IInv
  OBVIOUS
<1>. USE SnapshotAssumption DEF Init
<1>1. TypeOK
  <2>1. DOMAIN NoMetadata = {}
    BY DEF NoMetadata
  <2>2. NumbersFollowIds(metadata) /\ NumbersFollowIds(metaFile)
    BY <2>1 DEF NumbersFollowIds
  <2>3. file \in [Sources -> File]
    BY DEF File, Empty
  <2>4. \A i \in DOMAIN metadata : metadata[i] < nextSeq
    BY <2>1
  <2>5. pc = "down" /\ turn \in Sources /\ then \in {"prune", "created"}
    BY DEF Sources
  <2>6. chosen \in Snapshot \union {NoSnapshot} /\ dirs \in SUBSET Snapshot /\ dirs = {}
    OBVIOUS
  <2>7. lastId \in Nat /\ nextSeq \in Nat \ {0}
    OBVIOUS
  <2>8. boots \in 0..MaxBoots /\ damages \in 0..MaxDamages
    OBVIOUS
  <2>9. misnumbered \in BOOLEAN /\ cutShort \in BOOLEAN
    OBVIOUS
  <2>. QED
    BY <2>2, <2>3, <2>4, <2>5, <2>6, <2>7, <2>8, <2>9 DEF TypeOK
<1>2. SequenceFollowsCreation /\ NewestRestored
  BY DEF SequenceFollowsCreation, NewestRestored
<1>3. NumbersBounded
  BY DEF NumbersBounded, NumbersUpTo, JournalNext, LineageNext, Listing
<1>4. SnapshotsGrow /\ FilesCovered
  BY DEF SnapshotsGrow, FilesCovered, Valid
<1>. QED
  BY <1>1, <1>2, <1>3, <1>4 DEF IInv

\* Every step of the specification keeps the invariant.
LEMMA StepInv == IInv /\ [Next]_vars => IInv'
<1>. SUFFICES ASSUME IInv, [Next]_vars PROVE IInv'
  OBVIOUS
<1>1. CASE UNCHANGED vars
  <2>. USE <1>1 DEF vars, process, disk, history
  <2>1. TypeOK'
    BY DEF IInv, TypeOK, NumbersFollowIds
  <2>2. SequenceFollowsCreation' /\ NewestRestored' /\ (pc' = "restore" => chosen' \in Valid(turn)')
    BY DEF IInv, SequenceFollowsCreation, NewestRestored, Valid
  <2>3. ~misnumbered' => NumbersBounded'
    BY DEF IInv, NumbersBounded, NumbersUpTo, Kept, JournalNext, LineageNext, Surplussed
  <2>4. ~misnumbered' /\ ~cutShort' => SnapshotsGrow' /\ FilesCovered'
    BY DEF IInv, SnapshotsGrow, FilesCovered, Valid
  <2>. QED
    BY <2>1, <2>2, <2>3, <2>4 DEF IInv
<1>2. CASE Next
  <2>1. TypeOK'
    BY <1>2, TypeStep DEF IInv
  <2>. QED
    BY <1>2, <2>1, NumbersStep, RestoreStep, ContentStep DEF IInv
<1>. QED
  BY <1>1, <1>2

\* The inductive invariant holds always.
LEMMA Invariance == Spec => []IInv
BY InitInv, StepInv, PTL DEF Spec

\* The variables keep their types, and every list of snapshots numbers them in the
\* order in which they were made (_repair_creation_sequences, list_snapshots).
THEOREM TypeCorrect == Spec => []TypeOK
<1>1. IInv => TypeOK
  BY DEF IInv
<1>. QED
  BY <1>1, Invariance, PTL

\* The numbers in the snapshot directories follow the order of creation over any number
\* of boots, prunes and renumberings (create_snapshot_set).
THEOREM NumbersFollowCreation == Spec => []SequenceFollowsCreation
<1>1. IInv => SequenceFollowsCreation
  BY DEF IInv
<1>. QED
  BY <1>1, Invariance, PTL

\* A recovery restores the newest valid snapshot (get_latest_valid_snapshot).
THEOREM RecoveryTakesNewest == Spec => []NewestRestored
<1>1. IInv => NewestRestored
  BY DEF IInv
<1>. QED
  BY <1>1, Invariance, PTL

\* What a snapshot has kept of a ledger is never silently missing from it
\* (_restore_from_snapshot).
THEOREM NothingKeptIsLost == Spec => []SnapshotsNeverAhead
<1>1. IInv => SnapshotsNeverAhead
  BY DEF IInv, SnapshotsNeverAhead, FilesCovered
<1>. QED
  BY <1>1, Invariance, PTL

\* Pruning removes the oldest snapshots on record first (_prune_old_snapshots).
THEOREM OldestGoFirst == Spec => OldestPruned
<1>1. IInv /\ [Next]_vars => [\A d \in dirs \ dirs' : \A i \in DOMAIN metadata' : d.id < i]_vars
  <2>. SUFFICES ASSUME IInv, Next, NEW d \in dirs \ dirs', NEW i \in DOMAIN metadata'
       PROVE  d.id < i
    OBVIOUS
  <2>1. Prune
    BY DEF Next, Snapshotting, Verifying, Boot, BeginCheck, TakeSnapshot, AnnounceRaises, Announce,
           OpenMetadata, FillMetadata, Created, VerifyPasses, NoneValid, MoveAway, CopyBack, Stop,
           DieRestoring, AppendEntry, Damage, disk
  <2>2. d.id \in Surplus /\ i \in DOMAIN metadata \ Surplus
    BY <2>1 DEF Prune
  <2>. QED
    BY <2>2, SurplusIsLower DEF IInv
<1>. QED
  BY <1>1, Invariance, PTL DEF Spec, OldestPruned
=============================================================================
