------------------------- MODULE EpochManagerProofs -------------------------
(***************************************************************************)
(* Proofs about EpochManager for any limits, any set of entropy costs, and *)
(* any number of epochs, events and restarts.                              *)
(***************************************************************************)
EXTENDS EpochManager, SequenceTheorems, FiniteSetTheorems, TLAPS

Events == Kinds \X Epochs

\* What an append of lineage events changes (append_event).
LEMMA LedgerGrows ==
  ASSUME TypeOK, NEW k \in Kinds, NEW e \in Epochs, Ledgered(k, e)
  PROVE  /\ ledger' \in Seq(Events)
         /\ Len(ledger) \in Nat /\ Len(ledger') = Len(ledger) + 1
         /\ \A i \in 1..Len(ledger) : ledger'[i] = ledger[i]
         /\ ledger'[Len(ledger')] = <<k, e>>
         /\ Tracked' = Tracked \cup {e}
         /\ \A kk \in Kinds, f \in Epochs :
              Recorded(kk, f)' <=> Recorded(kk, f) \/ (kk = k /\ f = e)
<1>. DEFINE n == Len(ledger)
<1>1. ledger \in Seq(Events) /\ <<k, e>> \in Events /\ n \in Nat
  BY DEF TypeOK, Events
<1>2. /\ ledger' \in Seq(Events) /\ Len(ledger') = n + 1
      /\ \A i \in 1..n : ledger'[i] = ledger[i]
      /\ ledger'[n + 1] = <<k, e>>
  BY <1>1, AppendProperties DEF Ledgered
<1>3. DOMAIN ledger = 1..n /\ DOMAIN ledger' = 1..(n + 1)
  BY <1>1, <1>2, LenProperties
<1>4. Tracked' = Tracked \cup {e}
  <2>1. ASSUME NEW f \in Tracked' PROVE f \in Tracked \cup {e}
    <3>1. PICK i \in 1..(n + 1) : f = ledger'[i][2]
      BY <2>1, <1>3 DEF Tracked
    <3>2. CASE i = n + 1
      BY <3>1, <3>2, <1>2
    <3>3. CASE i # n + 1
      <4>1. i \in 1..n
        BY <3>3, <1>1
      <4>. QED
        BY <3>1, <4>1, <1>2, <1>3 DEF Tracked
    <3>. QED
      BY <3>2, <3>3
  <2>2. ASSUME NEW f \in Tracked PROVE f \in Tracked'
    <3>1. PICK i \in 1..n : f = ledger[i][2]
      BY <2>2, <1>3 DEF Tracked
    <3>2. i \in 1..(n + 1)
      BY <1>1
    <3>. QED
      BY <3>1, <3>2, <1>2, <1>3 DEF Tracked
  <2>3. e \in Tracked'
    <3>1. n + 1 \in 1..(n + 1) /\ ledger'[n + 1][2] = e
      BY <1>1, <1>2
    <3>. QED
      BY <3>1, <1>3 DEF Tracked
  <2>. QED
    BY <2>1, <2>2, <2>3
<1>5. ASSUME NEW kk \in Kinds, NEW f \in Epochs
      PROVE  Recorded(kk, f)' <=> Recorded(kk, f) \/ (kk = k /\ f = e)
  <2>1. ASSUME Recorded(kk, f)' PROVE Recorded(kk, f) \/ (kk = k /\ f = e)
    <3>1. PICK i \in 1..(n + 1) : ledger'[i] = <<kk, f>>
      BY <2>1, <1>3 DEF Recorded
    <3>2. CASE i = n + 1
      BY <3>1, <3>2, <1>2
    <3>3. CASE i # n + 1
      <4>1. i \in 1..n
        BY <3>3, <1>1
      <4>. QED
        BY <3>1, <4>1, <1>2, <1>3 DEF Recorded
    <3>. QED
      BY <3>2, <3>3
  <2>2. ASSUME Recorded(kk, f) PROVE Recorded(kk, f)'
    <3>1. PICK i \in 1..n : ledger[i] = <<kk, f>>
      BY <2>2, <1>3 DEF Recorded
    <3>2. i \in 1..(n + 1)
      BY <1>1
    <3>. QED
      BY <3>1, <3>2, <1>2, <1>3 DEF Recorded
  <2>3. ASSUME kk = k, f = e PROVE Recorded(kk, f)'
    <3>1. n + 1 \in 1..(n + 1) /\ ledger'[n + 1] = <<kk, f>>
      BY <1>1, <1>2, <2>3
    <3>. QED
      BY <3>1, <1>3 DEF Recorded
  <2>. QED
    BY <2>1, <2>2, <2>3
<1>. QED
  BY <1>1, <1>2, <1>4, <1>5

\* The epochs the ledger knows, and those of the states (_epoch_started).
LEMMA EpochFacts ==
  ASSUME TypeOK
  PROVE  /\ Tracked \subseteq Epochs /\ Epochs \subseteq Nat
         /\ \A k \in Kinds, e \in Epochs : Recorded(k, e) => e \in Tracked
         /\ state # NoState => state \in State /\ state.epoch \in Epochs
         /\ stateFile \in State => stateFile.epoch \in Epochs
<1>1. ASSUME NEW i \in DOMAIN ledger PROVE ledger[i] \in Events
  BY <1>1, ElementOfSeq, LenProperties DEF TypeOK, Events
<1>2. Tracked \subseteq Epochs
  BY <1>1 DEF Tracked, Events
<1>3. Epochs \subseteq Nat
  BY EpochAssumption DEF Epochs
<1>4. \A k \in Kinds, e \in Epochs : Recorded(k, e) => e \in Tracked
  BY DEF Recorded, Tracked
<1>. QED
  BY <1>2, <1>3, <1>4 DEF TypeOK, State

\* A new epoch has the next number, which no event has (start_new_epoch).
LEMMA NewEpochIsNext ==
  ASSUME TypeOK, EpochsNumbered
  PROVE  /\ NewEpoch \in Nat /\ NewEpoch \notin Tracked
         /\ \A f \in Tracked : f < NewEpoch
         /\ Tracked \cup {NewEpoch} = 1..NewEpoch
<1>1. PICK n \in 0..MaxEpochs : Tracked = 1..n
  BY DEF EpochsNumbered
<1>2. n \in Nat /\ n \in Int /\ 1 \in Int
  BY EpochAssumption
<1>3. Cardinality(1..n) = n
  BY <1>2, FS_Interval
<1>4. NewEpoch = n + 1
  BY <1>1, <1>3 DEF NewEpoch
<1>. QED
  BY <1>1, <1>2, <1>4

\* The history of the ledger stays in order if a bundle is only added to an epoch
\* that has not ended and that no later one has followed (_epoch_started).
LEMMA HistoryStays ==
  ASSUME TypeOK, NoBundleAfterEnd, OneEpochAtATime,
         NEW k \in Kinds, NEW e \in Epochs, Ledgered(k, e),
         k = "bundle" => ~Ended(e) /\ \A f \in Tracked : f <= e
  PROVE  NoBundleAfterEnd' /\ OneEpochAtATime'
<1>. DEFINE n == Len(ledger)
<1>1. /\ n \in Nat /\ Len(ledger') = n + 1 /\ ledger' \in Seq(Events)
      /\ \A i \in 1..n : ledger'[i] = ledger[i]
      /\ ledger'[n + 1] = <<k, e>>
  BY LedgerGrows
<1>2. DOMAIN ledger = 1..n /\ DOMAIN ledger' = 1..(n + 1)
  BY <1>1, LenProperties DEF TypeOK
<1>3. SUFFICES ASSUME NEW j \in 1..(n + 1), NEW i \in 1..(j - 1), ledger'[j][1] = "bundle"
      PROVE  /\ ledger'[i] # <<"end", ledger'[j][2]>>
             /\ ledger'[i][1] = "start" => ledger'[i][2] <= ledger'[j][2]
  BY <1>2 DEF NoBundleAfterEnd, OneEpochAtATime
<1>4. i \in 1..n /\ ledger'[i] = ledger[i]
  BY <1>1
<1>5. CASE j = n + 1
  <2>1. k = "bundle" /\ ledger'[j][2] = e
    BY <1>1, <1>3, <1>5
  <2>2. ledger[i] # <<"end", e>>
    BY <2>1, <1>2, <1>4 DEF Ended, Recorded
  <2>3. ledger[i][2] \in Tracked
    BY <1>2, <1>4 DEF Tracked
  <2>. QED
    BY <2>1, <2>2, <2>3, <1>4
<1>6. CASE j # n + 1
  <2>1. j \in 1..n /\ ledger'[j] = ledger[j]
    BY <1>6, <1>1
  <2>. QED
    BY <2>1, <1>2, <1>3, <1>4 DEF NoBundleAfterEnd, OneEpochAtATime
<1>. QED
  BY <1>5, <1>6

\* The states that start_new_epoch, increment_mutation_count and add_entropy_bits make.
LEMMA NewStates ==
  ASSUME NEW s \in State, NEW e \in Epochs, NEW b \in Nat
  PROVE  /\ [epoch |-> e, count |-> 0, bits |-> 0] \in State
         /\ s.count \in Nat /\ s.bits \in Nat /\ s.epoch \in Epochs
         /\ [s EXCEPT !.count = @ + 1] \in State
         /\ [s EXCEPT !.count = @ + 1].count = s.count + 1
         /\ [s EXCEPT !.count = @ + 1].bits = s.bits
         /\ [s EXCEPT !.count = @ + 1].epoch = s.epoch
         /\ [s EXCEPT !.bits = @ + b] \in State
         /\ [s EXCEPT !.bits = @ + b].count = s.count
         /\ [s EXCEPT !.bits = @ + b].bits = s.bits + b
         /\ [s EXCEPT !.bits = @ + b].epoch = s.epoch
BY DEF State

\* The type invariant is kept by every step.
LEMMA TypeStep == TypeOK /\ Next => TypeOK'
<1>. SUFFICES ASSUME TypeOK, Next PROVE TypeOK'
  OBVIOUS
<1>. USE EpochAssumption, NoStateAssumption
<1>1. /\ state # NoState => state \in State /\ state.epoch \in Epochs
      /\ stateFile \in State => stateFile.epoch \in Epochs
      /\ Tracked \subseteq Epochs
  BY EpochFacts
<1>2. ASSUME NEW k \in Kinds, NEW e \in Epochs, Ledgered(k, e)
      PROVE  ledger' \in Seq(Kinds \X Epochs)
  BY <1>2, LedgerGrows DEF Events
<1>3. CASE BootLoads
  <2>1. ledger' \in Seq(Kinds \X Epochs)
    BY <1>1, <1>2, <1>3 DEF BootLoads, TypeOK, Kinds
  <2>. QED
    BY <1>1, <1>3, <2>1 DEF BootLoads, TypeOK, Labels
<1>4. CASE BootCreates
  BY <1>4 DEF BootCreates, TypeOK, Labels
<1>5. CASE StartEpoch
  <2>1. ledger' \in Seq(Kinds \X Epochs)
    BY <1>2, <1>5 DEF StartEpoch, Kinds
  <2>2. state' \in State
    BY <1>5, Zenon DEF StartEpoch, State
  <2>. QED
    BY <1>5, <2>1, <2>2 DEF StartEpoch, TypeOK, Labels
<1>6. CASE FirstCheckpoint
  <2>1. state \in State /\ ledger' \in Seq(Kinds \X Epochs)
    BY <1>1, <1>2, <1>6 DEF FirstCheckpoint, Kinds, TypeOK
  <2>. QED
    BY <1>6, <2>1 DEF FirstCheckpoint, Persist, TypeOK, Labels
<1>7. CASE Written
  <2>1. state \in State
    BY <1>7 DEF Written, TypeOK
  <2>. QED
    BY <1>7, <2>1 DEF Written, TypeOK, Labels
<1>8. CASE EndEpoch \/ Rotate \/ ContinuityHolds \/ BundleAccepted
  <2>1. state \in State /\ ledger' \in Seq(Kinds \X Epochs)
    BY <1>1, <1>2, <1>8
       DEF EndEpoch, Rotate, ContinuityHolds, CanBegin, BundleAccepted, Kinds, TypeOK
  <2>. QED
    BY <1>8, <2>1
       DEF EndEpoch, Rotate, ContinuityHolds, CanBegin, BundleAccepted, TypeOK, Labels
<1>9. CASE ContinuityFails
  <2>1. ledger' \in Seq(Kinds \X Epochs)
    BY <1>1, <1>2, <1>9 DEF ContinuityFails, CanBegin, Kinds, TypeOK
  <2>. QED
    BY <1>9, <2>1 DEF ContinuityFails, Die, TypeOK, Labels
<1>10. CASE CountMutation
  <2>1. state \in State /\ [state EXCEPT !.count = @ + 1] \in State
    <3>1. state \in State
      BY <1>10 DEF CountMutation, TypeOK
    <3>. QED
      BY <3>1, <1>1, NewStates
  <2>2. state' \in State
    BY <1>10, <2>1, Zenon DEF CountMutation, Persist
  <2>. QED
    BY <1>10, <2>2 DEF CountMutation, Persist, TypeOK, Labels
<1>11. CASE Charge
  <2>1. PICK b \in Bits :
          /\ charged' = [charged EXCEPT ![state.epoch] = @ + b]
          /\ Persist([state EXCEPT !.bits = @ + b], "after")
    BY <1>11 DEF Charge
  <2>2. state \in State /\ [state EXCEPT !.bits = @ + b] \in State /\ b \in Nat
    <3>1. state \in State /\ b \in Nat
      BY <1>11 DEF Charge, TypeOK
    <3>. QED
      BY <3>1, <1>1, NewStates
  <2>3. charged' \in [Epochs -> Nat]
    BY <1>1, <2>1, <2>2 DEF TypeOK
  <2>4. state' \in State
    BY <2>1, <2>2, Zenon DEF Persist
  <2>. QED
    BY <1>11, <2>1, <2>3, <2>4 DEF Charge, Persist, TypeOK, Labels
<1>12. CASE BundleRefused \/ NotCharged \/ ReplayMatches \/ ReplayDiverges \/ ExecuteAlone
            \/ Recover
  BY <1>12 DEF BundleRefused, NotCharged, ReplayMatches, ReplayDiverges, ExecuteAlone, CanBegin,
               Recover, TypeOK, Labels
<1>13. CASE VerifyEpoch
  <2>1. ledger' \in Seq(Kinds \X Epochs)
    BY <1>1, <1>2, <1>13 DEF VerifyEpoch, Kinds
  <2>. QED
    BY <1>13, <2>1 DEF VerifyEpoch, process, TypeOK
<1>14. CASE Crash
  BY <1>14 DEF Crash, Die, TypeOK, Labels
<1>. QED
  BY <1>3, <1>4, <1>5, <1>6, <1>7, <1>8, <1>9, <1>10, <1>11, <1>12, <1>13, <1>14
     DEF Next, Work, Request

\* What IInv says of the ledger and the charges when one event is appended whose
\* epoch the ledger knows, or is the next (append_event).
LEMMA LedgerStep ==
  ASSUME IInv, NEW k \in Kinds, NEW e \in Epochs, Ledgered(k, e),
         e \in Tracked \/ e = NewEpoch, UNCHANGED charged,
         k = "bundle" => ~Ended(e) /\ Newest(e)
  PROVE  /\ NoBundleAfterEnd' /\ OneEpochAtATime'
         /\ EpochsNumbered' /\ UnmetUncharged'
<1>1. NoBundleAfterEnd' /\ OneEpochAtATime'
  BY HistoryStays DEF IInv, Newest
<1>2. Tracked' = Tracked \cup {e}
  BY LedgerGrows DEF IInv
<1>3. EpochsNumbered'
  <2>1. CASE e \in Tracked
    BY <1>2, <2>1 DEF IInv, EpochsNumbered
  <2>2. CASE e = NewEpoch
    <3>1. Tracked' = 1..e /\ e \in 0..MaxEpochs
      BY <1>2, <2>2, NewEpochIsNext, EpochAssumption DEF IInv, Epochs
    <3>. QED
      BY <3>1 DEF EpochsNumbered
  <2>. QED
    BY <2>1, <2>2
<1>4. UnmetUncharged'
  BY <1>2 DEF IInv, UnmetUncharged
<1>. QED
  BY <1>1, <1>3, <1>4

\* A state that is known stays known when an event of a known epoch is appended.
LEMMA StaysKnown ==
  ASSUME TypeOK, NEW s, Known(s), NEW k \in Kinds, NEW e \in Epochs, Ledgered(k, e),
         e \in Tracked \/ (s \in State => Ended(s.epoch)), UNCHANGED charged
  PROVE  /\ s \in State =>
              /\ s.epoch \in Tracked'
              /\ Ended(s.epoch)' \/ \A f \in Tracked' : f <= s.epoch
              /\ s.count <= MaxMutations
              /\ s.bits = charged'[s.epoch]
         /\ s \in State /\ Ended(s.epoch) => Ended(s.epoch)'
         /\ s \in State /\ k = "end" /\ e = s.epoch => Ended(s.epoch)'
<1>1. Tracked' = Tracked \cup {e}
  BY LedgerGrows
<1>2. "end" \in Kinds /\ (s \in State => s.epoch \in Epochs)
  BY DEF Kinds, State
<1>3. s \in State => (Ended(s.epoch)' <=> Ended(s.epoch) \/ (k = "end" /\ e = s.epoch))
  BY <1>2, LedgerGrows DEF Ended
<1>. QED
  BY <1>1, <1>3 DEF Known, Newest

\* The rest of IInv when an event is appended and memory, file and charges stay.
LEMMA QuietLedgerStep ==
  ASSUME IInv, NEW k \in Kinds, NEW e \in Tracked, Ledgered(k, e),
         k = "bundle" => ~Ended(e) /\ Newest(e),
         UNCHANGED <<state, stateFile, charged>>
  PROVE  /\ NoBundleAfterEnd' /\ OneEpochAtATime' /\ EpochBudgetHolds'
         /\ EpochsNumbered' /\ UnmetUncharged'
         /\ Known(state)' /\ Known(stateFile)'
         /\ stateFile \in State /\ Ended(stateFile.epoch) => Ended(stateFile.epoch)'
<1>1. e \in Epochs
  BY EpochFacts DEF IInv
<1>2. NoBundleAfterEnd' /\ OneEpochAtATime' /\ EpochsNumbered' /\ UnmetUncharged'
  BY <1>1, LedgerStep
<1>3. Known(state)'
  BY <1>1, StaysKnown DEF IInv, Known, Newest
<1>4. Known(stateFile)'
  BY <1>1, StaysKnown DEF IInv, Known, Newest
<1>5. stateFile \in State /\ Ended(stateFile.epoch) => Ended(stateFile.epoch)'
  BY <1>1, StaysKnown DEF IInv
<1>6. EpochBudgetHolds'
  BY DEF IInv, EpochBudgetHolds
<1>. QED
  BY <1>2, <1>3, <1>4, <1>5, <1>6

\* The parts of IInv about ledger, memory and file, when none of them changes.
LEMMA QuietStep ==
  ASSUME IInv, UNCHANGED <<state, stateFile, ledger, charged>>
  PROVE  /\ NoBundleAfterEnd' /\ OneEpochAtATime' /\ EpochBudgetHolds'
         /\ EpochsNumbered' /\ UnmetUncharged'
         /\ Known(state)' /\ Known(stateFile)'
         /\ stateFile \in State /\ Ended(stateFile.epoch) => Ended(stateFile.epoch)'
<1>1. Tracked' = Tracked /\ \A k, f : Recorded(k, f)' <=> Recorded(k, f)
  BY DEF Tracked, Recorded
<1>. QED
  BY <1>1 DEF IInv, NoBundleAfterEnd, OneEpochAtATime, EpochBudgetHolds, EpochsNumbered,
              UnmetUncharged, Known, Ended, Newest

\* The invariant holds before the first boot.
LEMMA InitInv == Init => IInv
<1>. SUFFICES ASSUME Init PROVE IInv
  OBVIOUS
<1>. USE EpochAssumption, NoStateAssumption DEF Init
<1>1. TypeOK
  <2>1. ledger \in Seq(Kinds \X Epochs)
    BY EmptySeq
  <2>2. charged \in [Epochs -> Nat]
    OBVIOUS
  <2>. QED
    BY <2>1, <2>2 DEF TypeOK, Labels
<1>2. Tracked = {}
  BY DEF Tracked
<1>3. EpochsNumbered
  <2>1. Tracked = 1..0 /\ 0 \in 0..MaxEpochs
    BY <1>2
  <2>. QED
    BY <2>1 DEF EpochsNumbered
<1>4. NoBundleAfterEnd /\ OneEpochAtATime
  BY DEF NoBundleAfterEnd, OneEpochAtATime
<1>5. EpochBudgetHolds /\ UnmetUncharged
  BY DEF EpochBudgetHolds, UnmetUncharged
<1>6. Known(state) /\ Known(stateFile) /\ FileFollows
  BY DEF Known, FileFollows, Settled
<1>. QED
  BY <1>1, <1>3, <1>4, <1>5, <1>6 DEF IInv

\* Every step keeps IInv.  First the steps that leave memory, file and charges alone:
\* what they append to the ledger is about an epoch it knows.
LEMMA LedgerActions ==
  ASSUME IInv, TypeOK',
         \/ ContinuityHolds \/ EndEpoch \/ Rotate \/ BundleAccepted \/ VerifyEpoch \/ BundleRefused
         \/ NotCharged \/ ReplayMatches \/ ReplayDiverges \/ ExecuteAlone \/ Recover
  PROVE  IInv'
<1>. USE EpochAssumption, NoStateAssumption DEF IInv
<1>1. UNCHANGED <<state, stateFile, charged>>
  BY DEF ContinuityHolds, EndEpoch, Rotate, BundleAccepted, VerifyEpoch, process, BundleRefused,
         NotCharged, ReplayMatches, ReplayDiverges, ExecuteAlone, Recover
<1>2. pc \in Settled /\ stateFile = state /\ state \in State /\ state.epoch \in Tracked
  <2>1. pc \in Settled /\ pc \notin {"down", "start"}
    BY DEF ContinuityHolds, CanBegin, EndEpoch, Rotate, BundleAccepted, VerifyEpoch, BundleRefused,
           NotCharged, ReplayMatches, ReplayDiverges, ExecuteAlone, Recover, Settled
  <2>. QED
    BY <2>1 DEF TypeOK, FileFollows, Known
<1>3. state.epoch \in Epochs
  BY <1>2, EpochFacts
<1>4. CASE \/ BundleRefused \/ NotCharged \/ ReplayMatches \/ ReplayDiverges
           \/ ExecuteAlone \/ Recover
           \/ ContinuityHolds /\ state.epoch = 1
  <2>1. UNCHANGED ledger /\ pc' \in Settled \ {"rotate", "start"}
    BY <1>4
       DEF BundleRefused, NotCharged, ReplayMatches, ReplayDiverges, ExecuteAlone, CanBegin,
           Recover, ContinuityHolds, Settled
  <2>2. FileFollows'
    BY <2>1, <1>1, <1>2 DEF FileFollows
  <2>. QED
    BY <2>1, <2>2, <1>1, QuietStep
<1>5. CASE ContinuityHolds /\ state.epoch > 1
  <2>1. Ledgered("cont_ok", state.epoch) /\ pc' = "cycle"
    BY <1>5, <1>3 DEF ContinuityHolds
  <2>2. FileFollows'
    BY <2>1, <1>1, <1>2 DEF FileFollows, Settled
  <2>. QED
    BY <2>1, <2>2, <1>1, <1>2, QuietLedgerStep DEF Kinds
<1>6. CASE EndEpoch
  <2>1. Ledgered("end", state.epoch) /\ pc' = "rotate" /\ "end" \in Kinds
    BY <1>6 DEF EndEpoch, Kinds
  <2>2. Ended(stateFile.epoch)'
    BY <2>1, <1>1, <1>2, <1>3, LedgerGrows DEF Ended
  <2>3. FileFollows'
    BY <2>1, <2>2, <1>1, <1>2 DEF FileFollows
  <2>. QED
    BY <2>1, <2>3, <1>1, <1>2, QuietLedgerStep
<1>7. CASE Rotate
  <2>1. Ledgered("rotated", state.epoch) /\ pc = "rotate" /\ pc' = "start" /\ "rotated" \in Kinds
    BY <1>7 DEF Rotate, Kinds
  <2>2. Ended(stateFile.epoch)
    BY <2>1, <1>2 DEF FileFollows
  <2>3. Ended(stateFile.epoch)'
    BY <2>1, <2>2, <1>1, <1>2, QuietLedgerStep
  <2>4. FileFollows'
    BY <2>1, <2>3, <1>1 DEF FileFollows, Settled
  <2>. QED
    BY <2>1, <2>4, <1>1, <1>2, QuietLedgerStep
<1>8. CASE BundleAccepted
  <2>1. Ledgered("bundle", state.epoch) /\ pc' = "charge" /\ "bundle" \in Kinds
    BY <1>8 DEF BundleAccepted, Kinds
  <2>2. ~Ended(state.epoch) /\ Newest(state.epoch)
    BY <1>8, <1>2 DEF BundleAccepted, Started, Ended, Known
  <2>3. FileFollows'
    BY <2>1, <1>1, <1>2 DEF FileFollows, Settled
  <2>. QED
    BY <2>1, <2>2, <2>3, <1>1, <1>2, QuietLedgerStep
<1>9. CASE VerifyEpoch
  <2>1. PICK e \in Tracked : Ledgered("sound", e)
    BY <1>9 DEF VerifyEpoch
  <2>2. pc' = "ready" /\ "sound" \in Kinds
    BY <1>9 DEF VerifyEpoch, process, Kinds
  <2>3. FileFollows'
    BY <2>2, <1>1, <1>2 DEF FileFollows, Settled
  <2>. QED
    BY <2>1, <2>2, <2>3, <1>1, QuietLedgerStep
<1>10. ContinuityHolds => state.epoch = 1 \/ state.epoch > 1
  BY DEF ContinuityHolds
<1>. QED
  BY <1>4, <1>5, <1>6, <1>7, <1>8, <1>9, <1>10

\* The process ends, by a crash or in the continuity check.
LEMMA DeathActions ==
  ASSUME IInv, TypeOK', Crash \/ ContinuityFails
  PROVE  IInv'
<1>. USE EpochAssumption, NoStateAssumption DEF IInv
<1>1. pc' = "down" /\ state' = NoState /\ UNCHANGED <<stateFile, charged>>
  BY DEF Crash, ContinuityFails, Die
<1>2. FileFollows' /\ Known(state)'
  BY <1>1 DEF FileFollows, Settled, Known
<1>3. EpochBudgetHolds'
  BY <1>1 DEF EpochBudgetHolds
<1>4. NoBundleAfterEnd' /\ OneEpochAtATime' /\ EpochsNumbered' /\ UnmetUncharged' /\ Known(stateFile)'
  <2>1. CASE Crash
    <3>1. UNCHANGED ledger
      BY <2>1 DEF Crash
    <3>2. Tracked' = Tracked /\ \A k, f : Recorded(k, f)' <=> Recorded(k, f)
      BY <3>1 DEF Tracked, Recorded
    <3>. QED
      BY <3>1, <3>2, <1>1 DEF NoBundleAfterEnd, OneEpochAtATime, EpochsNumbered, UnmetUncharged,
                              Known, Ended, Newest
  <2>2. CASE ContinuityFails
    <3>1. Ledgered("cont_failed", state.epoch) /\ "cont_failed" \in Kinds
      BY <2>2 DEF ContinuityFails, Kinds
    <3>2. state \in State /\ state.epoch \in Tracked /\ state.epoch \in Epochs
      BY <2>2, EpochFacts DEF ContinuityFails, CanBegin, TypeOK, Known
    <3>3. Known(stateFile)'
      BY <3>1, <3>2, <1>1, StaysKnown DEF Known, Newest
    <3>. QED
      BY <3>1, <3>2, <3>3, <1>1, LedgerStep
  <2>. QED
    BY <2>1, <2>2
<1>. QED
  BY <1>1, <1>2, <1>3, <1>4

\* A boot with a state file, which may append the start of its epoch again
\* (load_or_create).
LEMMA BootLoadsStep ==
  ASSUME IInv, TypeOK', BootLoads
  PROVE  IInv'
<1>. USE EpochAssumption, NoStateAssumption DEF IInv
<1>1. /\ stateFile \in State /\ state' = stateFile /\ pc' = "ready"
      /\ UNCHANGED <<stateFile, charged>>
  BY DEF BootLoads
<1>2. stateFile.epoch \in Epochs /\ stateFile.epoch \in Tracked
  BY <1>1, EpochFacts DEF Known
<1>3. FileFollows'
  BY <1>1 DEF FileFollows, Settled
<1>4. Known(stateFile)' => Known(state)'
  BY <1>1 DEF Known, Newest
<1>5. EpochBudgetHolds'
  BY <1>1 DEF EpochBudgetHolds, Known
<1>6. NoBundleAfterEnd' /\ OneEpochAtATime' /\ EpochsNumbered' /\ UnmetUncharged' /\ Known(stateFile)'
  <2>1. CASE UNCHANGED ledger
    <3>1. Tracked' = Tracked /\ \A k, f : Recorded(k, f)' <=> Recorded(k, f)
      BY <2>1 DEF Tracked, Recorded
    <3>. QED
      BY <2>1, <3>1, <1>1 DEF NoBundleAfterEnd, OneEpochAtATime, EpochsNumbered, UnmetUncharged,
                              Known, Ended, Newest
  <2>2. CASE Ledgered("start", stateFile.epoch)
    <3>1. "start" \in Kinds
      BY DEF Kinds
    <3>2. Known(stateFile)'
      BY <2>2, <3>1, <1>1, <1>2, StaysKnown DEF Known, Newest
    <3>. QED
      BY <2>2, <3>1, <3>2, <1>1, <1>2, LedgerStep
  <2>. QED
    BY <2>1, <2>2 DEF BootLoads
<1>. QED
  BY <1>1, <1>3, <1>4, <1>5, <1>6

\* The first write of a new epoch (start_new_epoch, mark_epoch_start).
LEMMA StartStep ==
  ASSUME IInv, TypeOK', StartEpoch
  PROVE  IInv'
<1>. USE EpochAssumption, NoStateAssumption DEF IInv
<1>. DEFINE e == NewEpoch
<1>1. /\ e \in Epochs /\ Ledgered("start", e) /\ "start" \in Kinds
      /\ pc = "start" /\ pc' = "checkpoint"
      /\ state' = [epoch |-> e, count |-> 0, bits |-> 0]
      /\ UNCHANGED <<stateFile, charged>>
  BY DEF StartEpoch, Kinds
<1>2. /\ e \notin Tracked /\ Tracked' = Tracked \cup {e}
      /\ \A f \in Tracked : f < e
      /\ e \in Nat
  BY <1>1, NewEpochIsNext, LedgerGrows
<1>3. charged[e] = 0
  BY <1>1, <1>2 DEF UnmetUncharged
<1>4. NoBundleAfterEnd' /\ OneEpochAtATime' /\ EpochsNumbered' /\ UnmetUncharged'
  BY <1>1, LedgerStep
<1>5. state'.epoch = e /\ state'.count = 0 /\ state'.bits = 0
  BY <1>1
<1>6. /\ \A f \in Tracked' : f <= e
      /\ e \in Tracked'
  BY <1>2, EpochFacts
<1>7. Known(state)'
  BY <1>1, <1>3, <1>5, <1>6 DEF Known, Newest
<1>8. EpochBudgetHolds'
  BY <1>1, <1>3, <1>5 DEF EpochBudgetHolds
<1>9. stateFile \in State => Ended(stateFile.epoch)
  BY <1>1 DEF FileFollows
<1>10. Known(stateFile)'
  BY <1>1, <1>9, StaysKnown DEF Known, Newest
<1>11. FileFollows'
  BY <1>1 DEF FileFollows, Settled
<1>. QED
  BY <1>4, <1>7, <1>8, <1>10, <1>11

\* The steps that empty the state file (_persist).
LEMMA PersistActions ==
  ASSUME IInv, TypeOK', FirstCheckpoint \/ CountMutation \/ Charge
  PROVE  IInv'
<1>. USE EpochAssumption, NoStateAssumption DEF IInv
<1>1. stateFile' = Torn /\ pc' = "write"
  BY DEF FirstCheckpoint, CountMutation, Charge, Persist
<1>2. FileFollows' /\ Known(stateFile)'
  BY <1>1 DEF FileFollows, Settled, Known
<1>3. state \in State /\ state.epoch \in Epochs /\ state.epoch \in Tracked
  BY EpochFacts DEF FirstCheckpoint, CountMutation, Charge, TypeOK, Known
<1>4. state' \in State
  BY <1>1 DEF TypeOK
<1>5. CASE FirstCheckpoint
  <2>1. Ledgered("blank", state.epoch) /\ "blank" \in Kinds /\ UNCHANGED <<state, charged>>
    BY <1>5 DEF FirstCheckpoint, Persist, Kinds
  <2>2. Known(state)'
    BY <2>1, <1>3, StaysKnown DEF Known, Newest
  <2>3. NoBundleAfterEnd' /\ OneEpochAtATime' /\ EpochsNumbered' /\ UnmetUncharged'
    BY <2>1, <1>3, LedgerStep
  <2>4. EpochBudgetHolds'
    BY <2>1 DEF EpochBudgetHolds
  <2>. QED
    BY <2>2, <2>3, <2>4, <1>2
<1>6. ASSUME UNCHANGED ledger
      PROVE  /\ Tracked' = Tracked /\ \A k, f : Recorded(k, f)' <=> Recorded(k, f)
             /\ NoBundleAfterEnd' /\ OneEpochAtATime' /\ EpochsNumbered'
  <2>1. Tracked' = Tracked /\ \A k, f : Recorded(k, f)' <=> Recorded(k, f)
    BY <1>6 DEF Tracked, Recorded
  <2>. QED
    BY <2>1, <1>6 DEF NoBundleAfterEnd, OneEpochAtATime, EpochsNumbered
<1>7. CASE CountMutation
  <2>1. UNCHANGED <<ledger, charged>> /\ state' = [state EXCEPT !.count = @ + 1]
    BY <1>7 DEF CountMutation, Persist
  <2>2. /\ state'.count = state.count + 1 /\ state'.bits = state.bits
        /\ state'.epoch = state.epoch /\ state.count \in Nat
    BY <2>1, <1>3, NewStates
  <2>3. state.count + 1 <= MaxMutations
    BY <1>7, <2>2 DEF CountMutation, MustRotate
  <2>4. Known(state)'
    BY <2>1, <2>2, <2>3, <1>3, <1>6 DEF Known, Ended, Newest
  <2>5. EpochBudgetHolds'
    BY <2>1, <2>2, <2>3, <1>3 DEF EpochBudgetHolds, Known
  <2>6. UnmetUncharged'
    BY <2>1, <1>6 DEF UnmetUncharged
  <2>. QED
    BY <2>1, <2>4, <2>5, <2>6, <1>2, <1>6
<1>8. CASE Charge
  <2>1. PICK b \in Bits :
          /\ state.bits + b <= Ceiling
          /\ charged' = [charged EXCEPT ![state.epoch] = @ + b]
          /\ state' = [state EXCEPT !.bits = @ + b]
    BY <1>8 DEF Charge, Persist
  <2>2. UNCHANGED ledger /\ b \in Nat
    BY <1>8 DEF Charge
  <2>3. /\ state'.count = state.count /\ state'.bits = state.bits + b
        /\ state'.epoch = state.epoch
    BY <2>1, <2>2, <1>3, NewStates
  <2>4. /\ charged'[state.epoch] = charged[state.epoch] + b
        /\ \A f \in Epochs : f # state.epoch => charged'[f] = charged[f]
    BY <2>1, <1>3 DEF TypeOK
  <2>5. state.bits = charged[state.epoch] /\ state.count <= MaxMutations
    BY <1>3 DEF Known
  <2>6. Known(state)'
    BY <2>2, <2>3, <2>4, <2>5, <1>3, <1>6 DEF Known, Ended, Newest
  <2>7. EpochBudgetHolds'
    BY <2>1, <2>3, <2>4, <2>5, <1>3 DEF EpochBudgetHolds
  <2>8. UnmetUncharged'
    BY <2>2, <2>4, <1>3, <1>6 DEF UnmetUncharged
  <2>. QED
    BY <2>2, <2>6, <2>7, <2>8, <1>2, <1>6
<1>. QED
  BY <1>5, <1>7, <1>8

\* The state file is filled (_persist), and a boot without one (load_or_create).
LEMMA FileActions ==
  ASSUME IInv, TypeOK', Written \/ BootCreates
  PROVE  IInv'
<1>. USE EpochAssumption, NoStateAssumption DEF IInv
<1>1. CASE BootCreates
  <2>1. /\ UNCHANGED <<state, stateFile, ledger, charged>>
        /\ pc' = "start" /\ stateFile \notin State
    BY <1>1 DEF BootCreates
  <2>2. FileFollows'
    BY <2>1 DEF FileFollows, Settled
  <2>. QED
    BY <2>1, <2>2, QuietStep
<1>2. CASE Written
  <2>1. /\ UNCHANGED <<state, ledger, charged>> /\ stateFile' = state /\ pc' = then
        /\ then \in Settled \ {"rotate", "start"}
    BY <1>2 DEF Written, TypeOK, Settled
  <2>2. FileFollows'
    BY <2>1 DEF FileFollows
  <2>3. Tracked' = Tracked /\ \A k, f : Recorded(k, f)' <=> Recorded(k, f)
    BY <2>1 DEF Tracked, Recorded
  <2>4. /\ NoBundleAfterEnd' /\ OneEpochAtATime' /\ EpochBudgetHolds'
        /\ EpochsNumbered' /\ UnmetUncharged'
    BY <2>1, <2>3 DEF NoBundleAfterEnd, OneEpochAtATime, EpochBudgetHolds, EpochsNumbered,
                      UnmetUncharged
  <2>5. Known(state)' /\ Known(stateFile)'
    BY <2>1, <2>3 DEF Known, Ended, Newest
  <2>. QED
    BY <2>2, <2>4, <2>5
<1>. QED
  BY <1>1, <1>2

\* Every step of the specification keeps the invariant.
LEMMA StepInv == IInv /\ [Next]_vars => IInv'
<1>. SUFFICES ASSUME IInv, [Next]_vars PROVE IInv'
  OBVIOUS
<1>1. CASE UNCHANGED vars
  <2>1. UNCHANGED <<pc, then, state, forceEnd, failClosed, stateFile, ledger, boots, charged>>
    BY <1>1 DEF vars, process
  <2>2. TypeOK' /\ FileFollows'
    <3>1. stateFile \in State => (Ended(stateFile.epoch)' <=> Ended(stateFile.epoch))
      BY <2>1 DEF Ended, Recorded
    <3>. QED
      BY <2>1, <3>1 DEF IInv, TypeOK, FileFollows
  <2>. QED
    BY <2>1, <2>2, QuietStep DEF IInv
<1>2. CASE Next
  <2>1. TypeOK'
    BY <1>2, TypeStep DEF IInv
  <2>. QED
    BY <1>2, <2>1, LedgerActions, DeathActions, BootLoadsStep, StartStep, PersistActions, FileActions
       DEF Next, Work, Request
<1>. QED
  BY <1>1, <1>2

\* The inductive invariant holds always.
LEMMA Invariance == Spec => []IInv
BY InitInv, StepInv, PTL DEF Spec

\* The epoch manager's variables keep their types, and a process that is up and not
\* creating its first epoch has an epoch in memory (get_active).
THEOREM TypeCorrect == Spec => []TypeOK
<1>1. IInv => TypeOK
  BY DEF IInv
<1>. QED
  BY <1>1, Invariance, PTL

\* Wherever a rotation is cut short, an epoch whose end is recorded takes no
\* mutation any more (rotate_epoch, _epoch_started).
THEOREM EndedEpochsStayClosed == Spec => []NoBundleAfterEnd
<1>1. IInv => NoBundleAfterEnd
  BY DEF IInv
<1>. QED
  BY <1>1, Invariance, PTL

\* Mutations are accepted into epochs in the order in which these began
\* (start_new_epoch, load_or_create).
THEOREM EpochsTakeTurns == Spec => []OneEpochAtATime
<1>1. IInv => OneEpochAtATime
  BY DEF IInv
<1>. QED
  BY <1>1, Invariance, PTL

\* No epoch exceeds its ceiling or its number of mutations, and no restart forgets
\* what it was charged (add_entropy_bits, increment_mutation_count).
THEOREM BudgetsHold == Spec => []EpochBudgetHolds
<1>1. IInv => EpochBudgetHolds
  BY DEF IInv
<1>. QED
  BY <1>1, Invariance, PTL
=============================================================================
