---------------------------- MODULE EpochManager ----------------------------
(***************************************************************************)
(* The epochs of the evolution runtime: EpochManager and its state file    *)
(* (runtime/evolution/epoch.py), the cycle hooks of EvolutionRuntime, the  *)
(* governor's epoch check and the checkpoint continuity check, in one      *)
(* process that may die and start again.                                   *)
(*                                                                         *)
(* Epochs are numbered in the order in which the ledger meets them.  The   *)
(* ledger is a sequence of <<kind, epoch>>: "start", "end", "bundle" for   *)
(* an accepted mutation, "blank" for the checkpoint of start_new_epoch     *)
(* (checkpoint_hash ""), "sound" for one of the checkpoint registry, and   *)
(* the two outcomes of the continuity checks.                              *)
(***************************************************************************)
EXTENDS Integers, Sequences, FiniteSets

CONSTANTS MaxMutations,  \* max_mutations of an epoch
          Bits,          \* entropy a mutation may cost
          Ceiling,       \* per_epoch_ceiling_bits
          MaxEpochs,     \* bound on the epochs
          MaxEvents,     \* bound on the ledger when a cycle begins
          MaxBoots,      \* bound on the starts of the process
          NoState,       \* _state before load_or_create()
          Missing,       \* no state file
          Torn           \* a state file a crash left half written

ASSUME EpochAssumption ==
    /\ MaxMutations \in Nat \ {0}
    /\ Bits \subseteq Nat /\ Bits # {} /\ IsFiniteSet(Bits)
    /\ Ceiling \in Nat
    /\ MaxEpochs \in Nat /\ MaxEvents \in Nat /\ MaxBoots \in Nat

VARIABLES
    pc,          \* where the process stands
    then,        \* where it goes on after writing the state file
    state,       \* EpochManager._state
    forceEnd,    \* EpochManager._force_end
    failClosed,  \* governor.fail_closed
    stateFile,   \* current_epoch.json
    ledger,      \* lineage events
    boots,       \* starts of the process
    charged      \* history: the bits charged in each epoch

process == <<pc, then, state, forceEnd, failClosed>>
vars == <<process, stateFile, ledger, boots, charged>>

Epochs == 1..MaxEpochs
State  == [epoch : Epochs, count : Nat, bits : Nat]

ASSUME NoStateAssumption == {NoState, Missing, Torn} \cap State = {}

Init ==
    /\ pc = "down" /\ then = "ready" /\ state = NoState
    /\ forceEnd = FALSE /\ failClosed = FALSE
    /\ stateFile = Missing /\ ledger = <<>> /\ boots = 0
    /\ charged = [e \in Epochs |-> 0]

Recorded(kind, e) == \E i \in DOMAIN ledger : ledger[i] = <<kind, e>>
Ledgered(kind, e) == ledger' = Append(ledger, <<kind, e>>)
Tracked == {ledger[i][2] : i \in DOMAIN ledger}

\* Mutant: the end of the epoch is not looked for.
Started_EvenEnded(e) == Recorded("start", e)

\* EvolutionGovernor._epoch_started().
Started(e) == Recorded("start", e) /\ ~Recorded("end", e)

\* The chain of the epoch before: no checkpoint, or one without a hash, fails.
PriorChainHolds(e) == Recorded("sound", e - 1) /\ ~Recorded("blank", e - 1)

\* write_text(): the file is emptied, then filled.
Persist(s, label) ==
    /\ state' = s /\ stateFile' = Torn
    /\ pc' = "write" /\ then' = label

Die == /\ pc' = "down" /\ then' = "ready" /\ state' = NoState
       /\ forceEnd' = FALSE /\ failClosed' = FALSE

-----------------------------------------------------------------------------
(* load_or_create().                                                       *)

BootLoads ==
    /\ pc = "down" /\ boots < MaxBoots /\ stateFile \in State
    /\ boots' = boots + 1 /\ state' = stateFile /\ pc' = "ready"
    /\ IF Started(stateFile.epoch) THEN UNCHANGED ledger
                                   ELSE Ledgered("start", stateFile.epoch)
    /\ UNCHANGED <<then, forceEnd, failClosed, stateFile, charged>>

BootCreates ==
    /\ pc = "down" /\ boots < MaxBoots /\ stateFile \in {Missing, Torn}
    /\ boots' = boots + 1 /\ pc' = "start" /\ then' = "ready"
    /\ UNCHANGED <<state, forceEnd, failClosed, stateFile, ledger, charged>>

\* start_new_epoch(), in its three writes.
NewEpoch == Cardinality(Tracked) + 1

StartEpoch ==
    /\ pc = "start" /\ NewEpoch \in Epochs
    /\ Ledgered("start", NewEpoch)
    /\ state' = [epoch |-> NewEpoch, count |-> 0, bits |-> 0]
    /\ pc' = "checkpoint"
    /\ UNCHANGED <<then, forceEnd, failClosed, stateFile, boots, charged>>

FirstCheckpoint ==
    /\ pc = "checkpoint"
    /\ Ledgered("blank", state.epoch)
    /\ Persist(state, then)
    /\ UNCHANGED <<forceEnd, failClosed, boots, charged>>

Written ==
    /\ pc = "write"
    /\ stateFile' = state /\ pc' = then
    /\ UNCHANGED <<then, state, forceEnd, failClosed, ledger, boots, charged>>

-----------------------------------------------------------------------------
(* before_mutation_cycle().                                                *)

CanBegin == pc = "ready" /\ ~failClosed /\ Len(ledger) < MaxEvents

\* The continuity check raises and the process ends with it.
ContinuityFails ==
    /\ CanBegin /\ state.epoch > 1 /\ ~PriorChainHolds(state.epoch)
    /\ Ledgered("cont_failed", state.epoch)
    /\ Die
    /\ UNCHANGED <<stateFile, boots, charged>>

ContinuityHolds ==
    /\ CanBegin
    /\ \/ state.epoch = 1 /\ UNCHANGED ledger
       \/ /\ state.epoch > 1 /\ PriorChainHolds(state.epoch)
          /\ Ledgered("cont_ok", state.epoch)
    /\ pc' = "cycle"
    /\ UNCHANGED <<then, state, forceEnd, failClosed, stateFile, boots, charged>>

\* should_rotate() apart from the clock.
MustRotate == forceEnd \/ state.count >= MaxMutations

\* Mutant: the rotation does not record the end of the epoch.
EndEpoch_Unrecorded ==
    /\ pc = "cycle"
    /\ pc' = "rotate"
    /\ UNCHANGED <<then, state, forceEnd, failClosed, stateFile, ledger, boots, charged>>

\* The end is in the ledger before anything of the rotation is checked; the
\* clock may ask for a rotation at any time.
EndEpoch ==
    /\ pc = "cycle"
    /\ Ledgered("end", state.epoch)
    /\ pc' = "rotate"
    /\ UNCHANGED <<then, state, forceEnd, failClosed, stateFile, boots, charged>>

\* The terminal check skips the checkpoints without a hash and accepts an
\* epoch that has no other.
Rotate ==
    /\ pc = "rotate"
    /\ Ledgered("rotated", state.epoch)
    /\ forceEnd' = FALSE
    /\ pc' = "start" /\ then' = "execute"
    /\ UNCHANGED <<state, failClosed, stateFile, boots, charged>>

CountMutation ==
    /\ pc = "cycle" /\ ~MustRotate
    /\ Persist([state EXCEPT !.count = @ + 1], "execute")
    /\ UNCHANGED <<forceEnd, failClosed, ledger, boots, charged>>

-----------------------------------------------------------------------------
(* The mutation of the cycle, or one executed without the hooks.           *)

ExecuteAlone ==
    /\ CanBegin
    /\ pc' = "execute"
    /\ UNCHANGED <<then, state, forceEnd, failClosed, stateFile, ledger, boots, charged>>

BundleAccepted ==
    /\ pc = "execute" /\ Started(state.epoch)
    /\ Ledgered("bundle", state.epoch)
    /\ pc' = "charge"
    /\ UNCHANGED <<then, state, forceEnd, failClosed, stateFile, boots, charged>>

\* epoch_not_started.
BundleRefused ==
    /\ pc = "execute" /\ ~Started(state.epoch)
    /\ pc' = "ready"
    /\ UNCHANGED <<then, state, forceEnd, failClosed, stateFile, ledger, boots, charged>>

\* Mutant: the charge stays in memory.
Charge_Unpersisted ==
    /\ pc = "charge"
    /\ \E b \in Bits :
          /\ state.bits + b <= Ceiling
          /\ charged' = [charged EXCEPT ![state.epoch] = @ + b]
          /\ state' = [state EXCEPT !.bits = @ + b]
    /\ pc' = "after"
    /\ UNCHANGED <<then, forceEnd, failClosed, stateFile, ledger, boots>>

\* enforce_entropy_policy() passes, add_entropy_bits() charges and persists.
Charge ==
    /\ pc = "charge"
    /\ \E b \in Bits :
          /\ state.bits + b <= Ceiling
          /\ charged' = [charged EXCEPT ![state.epoch] = @ + b]
          /\ Persist([state EXCEPT !.bits = @ + b], "after")
    /\ UNCHANGED <<forceEnd, failClosed, ledger, boots>>

\* The ceiling, or a gate before it, stops the mutation: nothing is charged.
NotCharged ==
    /\ pc = "charge"
    /\ pc' = "after"
    /\ UNCHANGED <<then, state, forceEnd, failClosed, stateFile, ledger, boots, charged>>

\* after_mutation_cycle(): the replay digest matches, or it does not.
ReplayMatches ==
    /\ pc = "after"
    /\ pc' = "ready"
    /\ UNCHANGED <<then, state, forceEnd, failClosed, stateFile, ledger, boots, charged>>

ReplayDiverges ==
    /\ pc = "after"
    /\ forceEnd' = TRUE /\ failClosed' = TRUE /\ pc' = "ready"
    /\ UNCHANGED <<then, state, stateFile, ledger, boots, charged>>

-----------------------------------------------------------------------------
(* verify_epoch() of the replay preflight, and what comes from outside.    *)

VerifyEpoch ==
    /\ pc = "ready" /\ Len(ledger) < MaxEvents
    /\ \E e \in Tracked : Ledgered("sound", e)
    /\ UNCHANGED <<process, stateFile, boots, charged>>

\* apply_recovery_event() with a human signature and a constitutional reset.
Recover ==
    /\ pc = "ready" /\ failClosed
    /\ failClosed' = FALSE
    /\ UNCHANGED <<pc, then, state, forceEnd, stateFile, ledger, boots, charged>>

Crash ==
    /\ pc # "down" /\ Die
    /\ UNCHANGED <<stateFile, ledger, boots, charged>>

Work ==
    \/ BootLoads \/ BootCreates \/ StartEpoch \/ FirstCheckpoint \/ Written
    \/ EndEpoch \/ Rotate \/ CountMutation
    \/ BundleAccepted \/ BundleRefused \/ Charge \/ NotCharged
    \/ ReplayMatches \/ ReplayDiverges

Request == ContinuityFails \/ ContinuityHolds \/ ExecuteAlone \/ VerifyEpoch \/ Recover

Next == Work \/ Request \/ Crash

Spec == Init /\ [][Next]_vars

-----------------------------------------------------------------------------
(* Properties.                                                             *)

Kinds == {"start", "end", "blank", "sound", "bundle", "rotated", "cont_ok", "cont_failed"}
Labels == {"down", "ready", "start", "checkpoint", "write", "cycle", "rotate",
           "execute", "charge", "after"}

\* Type invariant; a process that is up and not creating its first epoch has
\* an epoch in memory.
TypeOK ==
    /\ pc \in Labels /\ then \in {"ready", "execute", "after"}
    /\ state \in State \cup {NoState}
    /\ state = NoState => pc \in {"down", "start"}
    /\ forceEnd \in BOOLEAN /\ failClosed \in BOOLEAN
    /\ stateFile \in State \cup {Missing, Torn}
    /\ ledger \in Seq(Kinds \X Epochs)
    /\ boots \in Nat /\ charged \in [Epochs -> Nat]

\* No mutation is accepted into an epoch whose end is in the ledger, whatever
\* was lost of the rotation (governor.py 672-676, epoch.py 146-153).
NoBundleAfterEnd ==
    \A j \in DOMAIN ledger : \A i \in 1..(j - 1) :
        ledger[j][1] = "bundle" => ledger[i] # <<"end", ledger[j][2]>>

\* Once an epoch has started no earlier one takes a mutation any more, although
\* a crash between the start event and the state file (epoch.py 287-292) makes
\* the process come back with the epoch before.
OneEpochAtATime ==
    \A j \in DOMAIN ledger : \A i \in 1..(j - 1) :
        ledger[j][1] = "bundle" /\ ledger[i][1] = "start" => ledger[i][2] <= ledger[j][2]

\* An epoch stays within its limits across restarts (epoch.py 295-311): the count
\* never passes max_mutations, no epoch is charged more bits than the ceiling, and a
\* process that comes back knows all that its epoch was charged or begins a new one.
EpochBudgetHolds ==
    /\ \A e \in Epochs : charged[e] <= Ceiling
    /\ state # NoState =>
         state.count <= MaxMutations /\ state.bits = charged[state.epoch]

\* What makes these inductive.  The ledger meets the epochs in the order of their
\* numbers, and one it has not met was charged nothing.
EpochsNumbered == \E n \in 0..MaxEpochs : Tracked = 1..n
UnmetUncharged == \A e \in Epochs \ Tracked : charged[e] = 0

\* An epoch in memory or in the file has ended or is the newest there is.
Ended(e)  == Recorded("end", e)
Newest(e) == \A f \in Tracked : f <= e
Known(s) ==
    s \in State =>
        /\ s.epoch \in Tracked
        /\ Ended(s.epoch) \/ Newest(s.epoch)
        /\ s.count <= MaxMutations
        /\ s.bits = charged[s.epoch]

\* The file is behind only while it is being replaced, and by an epoch that ended.
Settled == {"ready", "cycle", "rotate", "execute", "charge", "after"}
FileFollows ==
    /\ pc \in Settled => stateFile = state
    /\ pc \in {"rotate", "start"} /\ stateFile \in State => Ended(stateFile.epoch)

IInv ==
    /\ TypeOK
    /\ NoBundleAfterEnd /\ OneEpochAtATime /\ EpochBudgetHolds
    /\ EpochsNumbered /\ UnmetUncharged
    /\ Known(state) /\ Known(stateFile)
    /\ FileFollows

\* "legacy-format checkpoint (no checkpoint_hash field) so that
\* _verify_terminal_checkpoint_continuity takes the legacy epoch path and allows
\* rotation without strict chain verification" (tests/test_epoch_law_transition.py
\* 37-39): an untampered ledger never fails the continuity check of a cycle.
ContinuityNeverFails == \A e \in Epochs : ~Recorded("cont_failed", e)

=============================================================================
