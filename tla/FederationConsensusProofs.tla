---------------------- MODULE FederationConsensusProofs ----------------------
(***************************************************************************)
(* Proofs about FederationConsensus for any finite set of nodes and any    *)
(* bounds.  The election argument: a node that counts a majority has that  *)
(* many distinct voters behind it, two majorities share a voter, and a     *)
(* voter votes once in a term.  The first part survives restarts; the last *)
(* holds until a node restarts, since votes are in memory only.  All of it *)
(* needs the embedding code to filter the replies.                         *)
(***************************************************************************)
EXTENDS FederationConsensus, FiniteSetTheorems, SequenceTheorems, TLAPS

-----------------------------------------------------------------------------
(* Types *)

\* Marking an entry as committed keeps the log a log (commit_entry).
LEMMA CommittedLog ==
  ASSUME NEW s \in Seq(Entry), NEW i \in DOMAIN s
  PROVE  /\ [s EXCEPT ![i].committed = TRUE] \in Seq(Entry)
         /\ Len([s EXCEPT ![i].committed = TRUE]) = Len(s)
         /\ \A j \in 1..Len(s) : [s EXCEPT ![i].committed = TRUE][j].term = s[j].term
<1>. DEFINE e == [s[i] EXCEPT !.committed = TRUE]
<1>1. i \in 1..Len(s) /\ \A j \in 1..Len(s) : s[j] \in Entry
  BY ElementOfSeq
<1>2. e \in Entry /\ e.term = s[i].term
  BY <1>1 DEF Entry
<1>3. [s EXCEPT ![i].committed = TRUE] = [s EXCEPT ![i] = e]
  OBVIOUS
<1>. HIDE DEF e
<1>4. /\ [s EXCEPT ![i] = e] \in Seq(Entry)
      /\ Len([s EXCEPT ![i] = e]) = Len(s)
      /\ \A j \in 1..Len(s) : [s EXCEPT ![i] = e][j] = IF j = i THEN e ELSE s[j]
  BY <1>1, <1>2, ExceptSeq
<1>. QED
  BY <1>1, <1>2, <1>3, <1>4

\* What counting votes changes stays in its type (receive_vote).
LEMMA LeaderTypes ==
  ASSUME TypeOK, NEW n \in Node, NEW count, BecomesLeader(n, term[n], count)
  PROVE  /\ role' \in [Node -> Role]
         /\ leader' \in [Node -> Node \cup {None}]
         /\ elected' \subseteq Candidacy
<1>1. [node |-> n, term |-> term[n]] \in Candidacy
  BY DEF TypeOK, Candidacy
<1>2. CASE Quorum(count)
  BY <1>1, <1>2 DEF TypeOK, BecomesLeader, Role
<1>3. CASE ~Quorum(count)
  BY <1>3 DEF TypeOK, BecomesLeader
<1>. QED
  BY <1>2, <1>3

\* A new engine has its types (__init__).
LEMMA TypeInit == Init => TypeOK
  BY ConsensusBounds DEF Init, TypeOK, Term, Role

\* Every handler keeps the types (all of FederationConsensusEngine).
LEMMA TypeStep == TypeOK /\ [Next]_vars => TypeOK'
<1>. SUFFICES ASSUME TypeOK, [Next]_vars
              PROVE  TypeOK'
  OBVIOUS
<1>. USE DEF TypeOK
<1>1. ASSUME NEW n \in Node, StartElection(n) PROVE TypeOK'
  <2>1. term[n] + 1 \in Term
    BY <1>1, ConsensusBounds DEF StartElection, Term
  <2>. QED
    BY <2>1, <1>1 DEF StartElection, logVars, Role, Candidacy, Grant
<1>2. ASSUME NEW n \in Node, Restart(n) PROVE TypeOK'
  BY <1>2, ConsensusBounds DEF Restart, Term, Role
<1>3. ASSUME NEW n \in Node, NEW c \in asked, RequestVote(n, c) PROVE TypeOK'
  BY <1>3 DEF RequestVote, MayVote, logVars, Role, Candidacy, Grant
<1>4. ASSUME NEW n \in Node, NEW x \in elected, ReceiveHeartbeat(n, x) PROVE TypeOK'
  BY <1>4 DEF ReceiveHeartbeat, logVars, Role, Candidacy
<1>5. ASSUME NEW n \in Node, NEW type \in EntryType, AppendEntry(n, type) PROVE TypeOK'
  <2>1. [term |-> term[n], type |-> type, committed |-> FALSE] \in Entry
    BY DEF Entry
  <2>. QED
    BY <2>1, <1>5 DEF AppendEntry, nodeVars
<1>6. ASSUME NEW n \in Node, NEW i \in 1..MaxLog, CommitEntry(n, i) PROVE TypeOK'
  <2>1. i \in DOMAIN log[n]
    BY <1>6 DEF CommitEntry
  <2>2. [log[n] EXCEPT ![i].committed = TRUE] \in Seq(Entry)
    BY <2>1, CommittedLog
  <2>3. log' \in [Node -> Seq(Entry)]
    BY <2>2, <1>6 DEF CommitEntry
  <2>. QED
    BY <2>3, <1>6 DEF CommitEntry, nodeVars
<1>7. ASSUME NEW g \in grants, ReceiveVote(g) PROVE TypeOK'
  <2>1. g.candidate \in Node /\ g.term \in Term
    BY DEF Grant
  <2>2. BecomesLeader(g.candidate, term[g.candidate], votes[g.candidate][g.term] + 1)
    BY <1>7 DEF ReceiveVote
  <2>3. role' \in [Node -> Role] /\ leader' \in [Node -> Node \cup {None}] /\ elected' \subseteq Candidacy
    BY <2>1, <2>2, LeaderTypes
  <2>. QED
    BY <2>1, <2>3, <1>7 DEF ReceiveVote, logVars
<1>8. ASSUME NEW c \in asked, ReceiveRefusal(c) PROVE TypeOK'
  <2>1. c.node \in Node
    BY DEF Candidacy
  <2>2. BecomesLeader(c.node, term[c.node], votes[c.node][c.term])
    BY <1>8 DEF ReceiveRefusal
  <2>3. role' \in [Node -> Role] /\ leader' \in [Node -> Node \cup {None}] /\ elected' \subseteq Candidacy
    BY <2>1, <2>2, LeaderTypes
  <2>. QED
    BY <2>3, <1>8 DEF ReceiveRefusal, logVars
<1>9. CASE UNCHANGED vars
  BY <1>9 DEF vars
<1>. QED
  BY <1>1, <1>2, <1>3, <1>4, <1>5, <1>6, <1>7, <1>8, <1>9 DEF Next

\* The variables stay in their types, whatever the embedding code hands over and
\* however often nodes restart (every handler of FederationConsensusEngine).
THEOREM TypeCorrect == Spec => []TypeOK
<1>1. Init => TypeOK
  BY TypeInit
<1>2. TypeOK /\ [Next]_vars => TypeOK'
  BY TypeStep
<1>. QED
  BY <1>1, <1>2, PTL DEF Spec

-----------------------------------------------------------------------------
(* Votes *)

\* Restarts are counted and never forgotten.
LEMMA NoRestartYet ==
  ASSUME TypeOK, [Next]_vars, restarts' = 0
  PROVE  restarts = 0 /\ \A n \in Node : ~Restart(n)
<1>1. restarts \in Nat
  BY ConsensusBounds DEF TypeOK
<1>2. ASSUME NEW n \in Node, Restart(n) PROVE FALSE
  BY <1>1, <1>2 DEF Restart
<1>3. restarts' = restarts
  BY <1>2 DEF Next, vars, nodeVars, logVars, StartElection, RequestVote, ReceiveHeartbeat,
              AppendEntry, CommitEntry, ReceiveVote, ReceiveRefusal
<1>. QED
  BY <1>2, <1>3

\* Until a node restarts each votes once in a term, and its vote in its own term is
\* voted_for (start_election, request_vote; receive_heartbeat keeps an older vote).
LEMMA VoteStep ==
  ASSUME TypeOK, VoteOnce, VoteCurrent, [Next]_vars
  PROVE  VoteOnce' /\ VoteCurrent'
<1>. SUFFICES ASSUME restarts' = 0 PROVE VoteOnce' /\ VoteCurrent'
  BY DEF VoteOnce, VoteCurrent
<1>9. restarts = 0 /\ \A n \in Node : ~Restart(n)
  BY NoRestartYet
<1>. USE <1>9 DEF VoteOnce, VoteCurrent
<1>t. /\ \A n \in Node : term[n] \in Nat
      /\ \A g \in grants : g.voter \in Node /\ g.candidate \in Node /\ g.term \in Nat
  BY ConsensusBounds DEF TypeOK, Term, Grant
<1>1. ASSUME NEW n \in Node, StartElection(n) PROVE VoteOnce' /\ VoteCurrent'
  <2>. DEFINE t == term[n] + 1
              own == [voter |-> n, candidate |-> n, term |-> t]
  <2>1. /\ grants' = grants \cup {own}
        /\ term' = [term EXCEPT ![n] = t]
        /\ votedFor' = [votedFor EXCEPT ![n] = n]
    BY <1>1 DEF StartElection
  <2>2. \A g \in grants : g.voter = n => g.term < t
    BY <1>t
  <2>3. own.voter = n /\ own.candidate = n /\ own.term = t /\ t \in Nat
    BY <1>t
  <2>. HIDE DEF own, t
  <2>4. VoteOnce'
    BY <2>1, <2>2, <2>3, <1>t
  <2>5. ASSUME NEW m \in Node, NEW g \in grants', g.voter = m, g.term >= term'[m]
        PROVE  g.term = term'[m] /\ g.candidate = votedFor'[m]
    <3>1. CASE m = n
      BY <3>1, <2>1, <2>2, <2>3, <2>5, <1>t DEF TypeOK
    <3>2. CASE m # n
      BY <3>2, <2>1, <2>3, <2>5 DEF TypeOK
    <3>. QED
      BY <3>1, <3>2
  <2>. QED
    BY <2>4, <2>5
<1>2. ASSUME NEW n \in Node, NEW c \in asked, RequestVote(n, c)
      PROVE  VoteOnce' /\ VoteCurrent'
  <2>. DEFINE cast == [voter |-> n, candidate |-> c.node, term |-> c.term]
              newer == c.term > term[n]
              vote == IF newer THEN None ELSE votedFor[n]
              granted == c.term >= term[n] /\ MayVote(vote, c.node)
  <2>c. c.node \in Node /\ c.term \in Nat
    BY ConsensusBounds DEF TypeOK, Candidacy, Term
  <2>1. /\ term' = [term EXCEPT ![n] = IF newer THEN c.term ELSE @]
        /\ votedFor' = [votedFor EXCEPT ![n] = IF granted THEN c.node ELSE vote]
        /\ grants' = IF granted THEN grants \cup {cast} ELSE grants
    BY <1>2 DEF RequestVote
  <2>2. cast.voter = n /\ cast.candidate = c.node /\ cast.term = c.term
    OBVIOUS
  <2>3. ASSUME granted, NEW h \in grants, h.voter = n, h.term >= c.term
        PROVE  h.term = c.term /\ h.candidate = c.node /\ ~newer
    BY <2>3, <2>c, <1>t, NodeAssumption DEF MayVote
  <2>4. VoteOnce'
    <3>1. CASE granted
      BY <3>1, <2>1, <2>2, <2>3, <2>c, <1>t
    <3>2. CASE ~granted
      BY <3>2, <2>1
    <3>. QED
      BY <3>1, <3>2
  <2>5. ASSUME NEW m \in Node, NEW g \in grants', g.voter = m, g.term >= term'[m]
        PROVE  g.term = term'[m] /\ g.candidate = votedFor'[m]
    <3>1. CASE m # n
      BY <3>1, <2>1, <2>2, <2>5 DEF TypeOK
    <3>2. CASE m = n /\ granted
      <4>1. term'[n] = c.term /\ votedFor'[n] = c.node
        BY <3>2, <2>1, <2>c, <1>t DEF TypeOK
      <4>. QED
        BY <4>1, <3>2, <2>1, <2>2, <2>3, <2>5
    <3>3. CASE m = n /\ ~granted
      <4>1. g \in grants /\ g.term >= term[n]
        BY <3>3, <2>1, <2>5, <2>c, <1>t DEF TypeOK
      <4>2. ~newer
        BY <3>3, <2>c, <1>t DEF MayVote
      <4>. QED
        BY <4>1, <4>2, <3>3, <2>1, <2>5 DEF TypeOK
    <3>. QED
      BY <3>1, <3>2, <3>3
  <2>. QED
    BY <2>4, <2>5
<1>3. ASSUME NEW n \in Node, NEW x \in elected, ReceiveHeartbeat(n, x)
      PROVE  VoteOnce' /\ VoteCurrent'
  <2>1. x.term \in Nat
    BY ConsensusBounds DEF TypeOK, Candidacy, Term
  <2>2. grants' = grants /\ votedFor' = votedFor /\ x.term >= term[n] /\ term' = [term EXCEPT ![n] = x.term]
    BY <1>3 DEF ReceiveHeartbeat
  <2>3. VoteOnce'
    BY <2>2
  <2>4. ASSUME NEW m \in Node, NEW g \in grants, g.voter = m, g.term >= term'[m]
        PROVE  g.term = term'[m] /\ g.candidate = votedFor[m]
    <3>1. g.term >= term[m] /\ term'[m] >= term[m] /\ term'[m] \in Nat
      BY <2>1, <2>2, <2>4, <1>t DEF TypeOK
    <3>2. g.term = term[m] /\ g.candidate = votedFor[m]
      BY <3>1, <2>4
    <3>. QED
      BY <3>1, <3>2, <2>4, <1>t
  <2>. QED
    BY <2>2, <2>3, <2>4
<1>4. ASSUME UNCHANGED <<term, votedFor, grants>> PROVE VoteOnce' /\ VoteCurrent'
  BY <1>4
<1>5. ASSUME NEW n \in Node, NEW type \in EntryType, AppendEntry(n, type)
      PROVE  UNCHANGED <<term, votedFor, grants>>
  BY <1>5 DEF AppendEntry, nodeVars
<1>6. ASSUME NEW n \in Node, NEW i \in 1..MaxLog, CommitEntry(n, i)
      PROVE  UNCHANGED <<term, votedFor, grants>>
  BY <1>6 DEF CommitEntry, nodeVars
<1>7. ASSUME NEW g \in grants, ReceiveVote(g) PROVE UNCHANGED <<term, votedFor, grants>>
  BY <1>7 DEF ReceiveVote
<1>8. ASSUME NEW c \in asked, ReceiveRefusal(c) PROVE UNCHANGED <<term, votedFor, grants>>
  BY <1>8 DEF ReceiveRefusal
<1>10. CASE UNCHANGED vars
  BY <1>10, <1>4 DEF vars
<1>. QED
  BY <1>1, <1>2, <1>3, <1>4, <1>5, <1>6, <1>7, <1>8, <1>9, <1>10 DEF Next

\* Until a node restarts no node votes twice in a term (request_vote, start_election).
THEOREM NoSecondVote == Spec => []VoteOnce
<1>1. Init => TypeOK /\ VoteOnce /\ VoteCurrent
  BY TypeInit DEF Init, VoteOnce, VoteCurrent
<1>2. TypeOK /\ VoteOnce /\ VoteCurrent /\ [Next]_vars
      => TypeOK' /\ VoteOnce' /\ VoteCurrent'
  BY TypeStep, VoteStep
<1>. QED
  BY <1>1, <1>2, PTL DEF Spec

\* Until a node restarts, a vote it gave in its own term or later is the one it
\* remembers, also after heartbeats (receive_heartbeat, request_vote).
THEOREM VoteIsRemembered == Spec => []VoteCurrent
<1>1. Init => TypeOK /\ VoteOnce /\ VoteCurrent
  BY TypeInit DEF Init, VoteOnce, VoteCurrent
<1>2. TypeOK /\ VoteOnce /\ VoteCurrent /\ [Next]_vars
      => TypeOK' /\ VoteOnce' /\ VoteCurrent'
  BY TypeStep, VoteStep
<1>. QED
  BY <1>1, <1>2, PTL DEF Spec

-----------------------------------------------------------------------------
(* Majorities *)

\* A set of nodes that contains a majority is one (quorum of receive_vote).
LEMMA QuorumGrows ==
  ASSUME NEW S \in SUBSET Node, NEW T \in SUBSET Node, S \subseteq T, Quorum(Cardinality(S))
  PROVE  Quorum(Cardinality(T))
<1>1. IsFiniteSet(T) /\ IsFiniteSet(S)
  BY NodeAssumption, FS_Subset
<1>2. /\ Cardinality(S) <= Cardinality(T)
      /\ Cardinality(S) \in Nat /\ Cardinality(T) \in Nat /\ Cardinality(Node) \in Nat
  BY <1>1, NodeAssumption, FS_Subset, FS_CardinalityType
<1>. QED
  BY <1>2 DEF Quorum

\* A candidate and the others it counted are a majority of distinct voters (receive_vote).
LEMMA QuorumOfVoters ==
  ASSUME NEW S \in SUBSET Node, NEW n \in Node, n \notin S, Quorum(1 + Cardinality(S)),
         NEW T \in SUBSET Node, S \cup {n} \subseteq T
  PROVE  Quorum(Cardinality(T))
<1>1. IsFiniteSet(S)
  BY NodeAssumption, FS_Subset
<1>2. Cardinality(S \cup {n}) = Cardinality(S) + 1 /\ Cardinality(S) \in Nat
  BY <1>1, FS_AddElement, FS_CardinalityType
<1>3. Cardinality(S \cup {n}) = 1 + Cardinality(S)
  BY <1>2
<1>. QED
  BY <1>3, QuorumGrows

\* Two majorities of the nodes share one (what 0.51 of the nodes means for elections).
LEMMA QuorumsMeet ==
  ASSUME NEW S \in SUBSET Node, NEW T \in SUBSET Node,
         Quorum(Cardinality(S)), Quorum(Cardinality(T))
  PROVE  \E v \in Node : v \in S /\ v \in T
<1>1. IsFiniteSet(S) /\ IsFiniteSet(T)
  BY NodeAssumption, FS_Subset
<1>2. /\ Cardinality(S \cup T) = Cardinality(S) + Cardinality(T) - Cardinality(S \cap T)
      /\ Cardinality(S \cup T) <= Cardinality(Node)
  BY <1>1, NodeAssumption, FS_Union, FS_Subset
<1>3. /\ Cardinality(S) \in Nat /\ Cardinality(T) \in Nat /\ Cardinality(Node) \in Nat
      /\ IsFiniteSet(S \cap T) /\ Cardinality(S \cap T) \in Nat
  BY <1>1, NodeAssumption, FS_CardinalityType, FS_Intersection
<1>4. Cardinality(S \cap T) # 0
  BY <1>2, <1>3 DEF Quorum
<1>. QED
  BY <1>3, <1>4, FS_EmptySet

-----------------------------------------------------------------------------
(* Elections *)

Started(n, t) == [voter |-> n, candidate |-> n, term |-> t] \in grants
Counted(n, t) == {v \in Node : [voter |-> v, candidate |-> n, term |-> t] \in counted}

\* A candidate votes for itself first.
GrantsStarted == \A g \in grants : Started(g.candidate, g.term)
AskedStarted == \A c \in asked : Started(c.node, c.term)
CountedGranted == counted \subseteq grants /\ \A g \in counted : g.voter # g.candidate

\* _votes_received counts distinct voters, and fewer once a restart has emptied it.
VotesCounted ==
  \A n \in Node, t \in Term : votes[n][t] <= 1 + Cardinality(Counted(n, t))
ElectedBacked == \A x \in elected : Quorum(Cardinality(Backers(x.node, x.term)))
LeadersElected == \A n \in Node : role[n] = "leader" => [node |-> n, term |-> term[n]] \in elected

ElectionInv ==
  /\ TypeOK /\ GrantsStarted /\ AskedStarted /\ CountedGranted /\ VotesCounted
  /\ ElectedBacked /\ LeadersElected

\* The voters counted for a candidacy are finitely many (receive_vote).
LEMMA CountedTypes ==
  \A n, t : Counted(n, t) \in SUBSET Node /\ Cardinality(Counted(n, t)) \in Nat
<1>1. \A n, t : Counted(n, t) \in SUBSET Node
  BY DEF Counted
<1>2. \A S \in SUBSET Node : Cardinality(S) \in Nat
  BY NodeAssumption, FS_Subset, FS_CardinalityType
<1>. QED
  BY <1>1, <1>2

\* More than a majority is one (quorum of receive_vote).
LEMMA QuorumUp ==
  ASSUME NEW i \in Nat, NEW j \in Nat, i <= j, Quorum(i)
  PROVE  Quorum(j)
<1>1. Cardinality(Node) \in Nat
  BY NodeAssumption, FS_CardinalityType
<1>. QED
  BY <1>1 DEF Quorum

\* No engine has voted, asked or been elected yet (__init__).
LEMMA ElectionInit == Init => ElectionInv
<1>. SUFFICES ASSUME Init PROVE ElectionInv
  OBVIOUS
<1>1. TypeOK
  BY TypeInit
<1>2. VotesCounted
  BY CountedTypes, <1>1 DEF Init, VotesCounted
<1>. QED
  BY <1>1, <1>2 DEF Init, ElectionInv, GrantsStarted, AskedStarted, CountedGranted,
                    ElectedBacked, LeadersElected, Started

\* Votes are never taken back, so what backs an election stays (start_election,
\* request_vote).
LEMMA BackersGrow ==
  ASSUME grants \subseteq grants', NEW n \in Node, NEW t, Quorum(Cardinality(Backers(n, t)))
  PROVE  Quorum(Cardinality(Backers(n, t)'))
<1>1. /\ Backers(n, t) \subseteq Backers(n, t)'
      /\ Backers(n, t) \in SUBSET Node /\ Backers(n, t)' \in SUBSET Node
  BY DEF Backers
<1>. QED
  BY <1>1, QuorumGrows

\* What the proofs below use of the types.
LEMMA ElectionTypes ==
  ASSUME TypeOK
  PROVE  /\ term \in [Node -> Nat]
         /\ role \in [Node -> Role]
         /\ votes \in [Node -> [Term -> Nat]]
         /\ \A n \in Node : term[n] \in Term
         /\ \A t \in Term : t \in Nat
         /\ \A g \in grants : g \in Grant /\ g.voter \in Node /\ g.candidate \in Node /\ g.term \in Term
         /\ \A c \in asked \cup elected : c \in Candidacy /\ c.node \in Node /\ c.term \in Term
<1>1. \A t \in Term : t \in Nat
  BY ConsensusBounds DEF Term
<1>2. term \in [Node -> Nat]
  BY <1>1 DEF TypeOK
<1>. QED
  BY <1>1, <1>2 DEF TypeOK, Grant, Candidacy

\* A new election counts the candidate's own vote and nobody else's (start_election).
LEMMA StartElectionInv ==
  ASSUME ElectionInv, TypeOK', NEW n \in Node, StartElection(n)
  PROVE  ElectionInv'
<1>. DEFINE t == term[n] + 1
            own == [voter |-> n, candidate |-> n, term |-> t]
<1>. USE DEF ElectionInv
<1>1. /\ grants' = grants \cup {own}
      /\ term' = [term EXCEPT ![n] = t]
      /\ role' = [role EXCEPT ![n] = "candidate"]
      /\ votes' = [votes EXCEPT ![n][t] = 1]
      /\ asked' \subseteq asked \cup {[node |-> n, term |-> t]}
      /\ UNCHANGED <<counted, elected>>
  BY DEF StartElection
<1>t. t \in Term
  BY ElectionTypes, ConsensusBounds DEF Term, StartElection
<1>3. own.voter = n /\ own.candidate = n /\ own.term = t
  OBVIOUS
<1>4. \A u : u = t => Started(n, u)'
  BY <1>1 DEF Started
<1>5. \A m, u : Started(m, u) => Started(m, u)'
  <2>1. grants \subseteq grants'
    BY <1>1
  <2>. QED
    BY <2>1 DEF Started
<1>. HIDE DEF own
<1>6. GrantsStarted'
  <2>. SUFFICES ASSUME NEW g \in grants' PROVE Started(g.candidate, g.term)'
    BY DEF GrantsStarted
  <2>1. CASE g \in grants
    BY <2>1, <1>5 DEF GrantsStarted
  <2>2. CASE g = own
    BY <2>2, <1>3, <1>4
  <2>. QED
    BY <2>1, <2>2, <1>1
<1>7. AskedStarted'
  <2>. SUFFICES ASSUME NEW c \in asked' PROVE Started(c.node, c.term)'
    BY DEF AskedStarted
  <2>1. CASE c \in asked
    BY <2>1, <1>5 DEF AskedStarted
  <2>2. CASE c = [node |-> n, term |-> t]
    BY <2>2, <1>4
  <2>. QED
    BY <2>1, <2>2, <1>1
<1>8. CountedGranted'
  BY <1>1 DEF CountedGranted
<1>9. VotesCounted'
  <2>. SUFFICES ASSUME NEW m \in Node, NEW u \in Term
                PROVE  votes'[m][u] <= 1 + Cardinality(Counted(m, u)')
    BY DEF VotesCounted
  <2>1. Counted(m, u)' = Counted(m, u) /\ Cardinality(Counted(m, u)) \in Nat
    BY <1>1, CountedTypes DEF Counted
  <2>2. votes'[m][u] = 1 \/ votes'[m][u] = votes[m][u]
    BY <1>1, <1>t DEF TypeOK
  <2>. QED
    BY <2>1, <2>2 DEF VotesCounted
<1>10. ElectedBacked'
  BY <1>1, BackersGrow DEF ElectedBacked, TypeOK, Candidacy
<1>11. LeadersElected'
  BY <1>1 DEF LeadersElected, TypeOK
<1>. QED
  BY <1>6, <1>7, <1>8, <1>9, <1>10, <1>11

\* A vote of another node starts no election and counts only once it is handed over
\* (request_vote).
LEMMA RequestVoteInv ==
  ASSUME ElectionInv, TypeOK', NEW n \in Node, NEW c \in asked, RequestVote(n, c)
  PROVE  ElectionInv'
<1>. DEFINE cast == [voter |-> n, candidate |-> c.node, term |-> c.term]
            newer == c.term > term[n]
<1>. USE DEF ElectionInv
<1>1. /\ n # c.node
      /\ grants' = grants \/ grants' = grants \cup {cast}
      /\ term' = [term EXCEPT ![n] = IF newer THEN c.term ELSE @]
      /\ role' = [role EXCEPT ![n] = IF newer THEN "follower" ELSE @]
      /\ UNCHANGED <<votes, asked, counted, elected>>
  BY DEF RequestVote
<1>4. \A m, u : Started(m, u)' <=> Started(m, u)
  BY <1>1 DEF Started
<1>5. Started(c.node, c.term)
  BY DEF AskedStarted
<1>7. GrantsStarted'
  <2>. SUFFICES ASSUME NEW g \in grants' PROVE Started(g.candidate, g.term)
    BY <1>4 DEF GrantsStarted
  <2>1. CASE g \in grants
    BY <2>1 DEF GrantsStarted
  <2>2. CASE g = cast
    BY <2>2, <1>5
  <2>. QED
    BY <2>1, <2>2, <1>1
<1>8. AskedStarted'
  BY <1>1, <1>4 DEF AskedStarted
<1>9. CountedGranted'
  BY <1>1 DEF CountedGranted
<1>10. VotesCounted'
  BY <1>1 DEF VotesCounted, Counted
<1>11. ElectedBacked'
  BY <1>1, BackersGrow DEF ElectedBacked, TypeOK, Candidacy
<1>12. LeadersElected'
  BY <1>1 DEF LeadersElected, TypeOK
<1>. QED
  BY <1>7, <1>8, <1>9, <1>10, <1>11, <1>12

\* A reply counts a voter that was not counted before, and a majority of replies to a
\* running election is a majority of distinct voters for its term (receive_vote).
LEMMA ReceiveVoteInv ==
  ASSUME ElectionInv, TypeOK', CallerChecks, NEW g \in grants, ReceiveVote(g)
  PROVE  ElectionInv'
<1>. DEFINE n == g.candidate
            t == g.term
            count == votes[n][t] + 1
            win == [node |-> n, term |-> term[n]]
<1>. USE DEF ElectionInv
<1>1. /\ g.voter # n /\ g \notin counted /\ term[n] = t
      /\ counted' = counted \cup {g}
      /\ votes' = [votes EXCEPT ![n][t] = count]
      /\ UNCHANGED <<term, asked, grants>>
  BY DEF ReceiveVote, StillRuns
<1>2. \/ role' = [role EXCEPT ![n] = "leader"] /\ elected' = elected \cup {win} /\ Quorum(count)
      \/ UNCHANGED <<role, elected>>
  BY DEF ReceiveVote, BecomesLeader
<1>3. n \in Node /\ t \in Term /\ g.voter \in Node /\ g \in Grant /\ votes \in [Node -> [Term -> Nat]]
  BY ElectionTypes
<1>4. Started(n, t) /\ \A m, u : Started(m, u)' <=> Started(m, u)
  BY <1>1 DEF GrantsStarted, Started
<1>5. g = [voter |-> g.voter, candidate |-> n, term |-> t]
  BY <1>3 DEF Grant
<1>6. /\ g.voter \notin Counted(n, t) /\ Counted(n, t) \in SUBSET Node
      /\ \A m, u : m = n /\ u = t => Counted(m, u)' = Counted(m, u) \cup {g.voter}
      /\ \A m, u : ~(m = n /\ u = t) => Counted(m, u)' = Counted(m, u)
  BY <1>1, <1>3, <1>5 DEF Counted
<1>7. /\ Cardinality(Counted(n, t) \cup {g.voter}) = Cardinality(Counted(n, t)) + 1
      /\ Cardinality(Counted(n, t)) \in Nat
  BY <1>6, NodeAssumption, FS_Subset, FS_AddElement, FS_CardinalityType
<1>8. /\ votes[n][t] \in Nat /\ votes[n][t] <= 1 + Cardinality(Counted(n, t))
      /\ count \in Nat /\ count <= 1 + Cardinality(Counted(n, t) \cup {g.voter})
  BY <1>3, <1>7 DEF VotesCounted
<1>9. GrantsStarted' /\ AskedStarted' /\ CountedGranted'
  BY <1>1, <1>4 DEF GrantsStarted, AskedStarted, CountedGranted
<1>10. VotesCounted'
  <2>. SUFFICES ASSUME NEW m \in Node, NEW u \in Term
                PROVE  votes'[m][u] <= 1 + Cardinality(Counted(m, u)')
    BY DEF VotesCounted
  <2>1. CASE m = n /\ u = t
    <3>1. votes'[m][u] = count
      BY <2>1, <1>1, <1>3
    <3>. QED
      BY <3>1, <2>1, <1>6, <1>8
  <2>2. CASE ~(m = n /\ u = t)
    <3>1. votes'[m][u] = votes[m][u] /\ Counted(m, u)' = Counted(m, u)
      BY <2>2, <1>1, <1>3, <1>6
    <3>. QED
      BY <3>1 DEF VotesCounted
  <2>. QED
    BY <2>1, <2>2
<1>11. Quorum(count) => Quorum(Cardinality(Backers(n, t)))
  <2>. DEFINE S == Counted(n, t) \cup {g.voter}
  <2>1. n \notin S /\ S \in SUBSET Node
    BY <1>1, <1>3, <1>6 DEF Counted, CountedGranted
  <2>2. S \cup {n} \subseteq Backers(n, t) /\ Backers(n, t) \in SUBSET Node
    BY <1>3, <1>4, <1>5 DEF Counted, Backers, Started, CountedGranted
  <2>. HIDE DEF S
  <2>3. Quorum(1 + Cardinality(S)) => Quorum(Cardinality(Backers(n, t)))
    BY <2>1, <2>2, <1>3, QuorumOfVoters
  <2>4. 1 + Cardinality(S) \in Nat /\ count <= 1 + Cardinality(S)
    BY <1>7, <1>8 DEF S
  <2>. QED
    BY <2>3, <2>4, <1>8, QuorumUp
<1>12. ElectedBacked'
  <2>. SUFFICES ASSUME NEW x \in elected' PROVE Quorum(Cardinality(Backers(x.node, x.term)))
    BY <1>1 DEF ElectedBacked, Backers
  <2>1. CASE x \in elected
    BY <2>1 DEF ElectedBacked
  <2>2. CASE x = win /\ Quorum(count)
    BY <2>2, <1>1, <1>11
  <2>. QED
    BY <2>1, <2>2, <1>2
<1>13. LeadersElected'
  BY <1>1, <1>2, <1>3, ElectionTypes DEF LeadersElected
<1>. QED
  BY <1>9, <1>10, <1>12, <1>13

\* A refusal makes a node leader only of votes it already had (receive_vote).
LEMMA ReceiveRefusalInv ==
  ASSUME ElectionInv, TypeOK', CallerChecks, NEW c \in asked, ReceiveRefusal(c)
  PROVE  ElectionInv'
<1>. DEFINE n == c.node
            t == c.term
            win == [node |-> n, term |-> term[n]]
<1>. USE DEF ElectionInv
<1>1. term[n] = t /\ UNCHANGED <<term, votes, asked, grants, counted>>
  BY DEF ReceiveRefusal, StillRuns
<1>2. \/ /\ role' = [role EXCEPT ![n] = "leader"] /\ elected' = elected \cup {win}
         /\ Quorum(votes[n][t])
      \/ UNCHANGED <<role, elected>>
  BY DEF ReceiveRefusal, BecomesLeader
<1>3. n \in Node /\ t \in Term
  BY ElectionTypes
<1>4. Started(n, t)
  BY DEF AskedStarted
<1>5. GrantsStarted' /\ AskedStarted' /\ CountedGranted' /\ VotesCounted'
  BY <1>1 DEF GrantsStarted, AskedStarted, CountedGranted, VotesCounted, Started, Counted
<1>6. Quorum(votes[n][t]) => Quorum(Cardinality(Backers(n, t)))
  <2>1. n \notin Counted(n, t) /\ Counted(n, t) \in SUBSET Node
    BY DEF Counted, CountedGranted
  <2>2. Counted(n, t) \cup {n} \subseteq Backers(n, t) /\ Backers(n, t) \in SUBSET Node
    BY <1>3, <1>4 DEF Counted, Backers, Started, CountedGranted
  <2>3. /\ votes[n][t] \in Nat /\ 1 + Cardinality(Counted(n, t)) \in Nat
        /\ votes[n][t] <= 1 + Cardinality(Counted(n, t))
    BY <1>3, CountedTypes, ElectionTypes DEF VotesCounted
  <2>4. Quorum(1 + Cardinality(Counted(n, t))) => Quorum(Cardinality(Backers(n, t)))
    BY <2>1, <2>2, <1>3, QuorumOfVoters
  <2>. QED
    BY <2>3, <2>4, QuorumUp
<1>7. ElectedBacked'
  <2>. SUFFICES ASSUME NEW x \in elected' PROVE Quorum(Cardinality(Backers(x.node, x.term)))
    BY <1>1 DEF ElectedBacked, Backers
  <2>1. CASE x \in elected
    BY <2>1 DEF ElectedBacked
  <2>2. CASE x = win /\ Quorum(votes[n][t])
    BY <2>2, <1>1, <1>6
  <2>. QED
    BY <2>1, <2>2, <1>2
<1>8. LeadersElected'
  BY <1>1, <1>2, <1>3, ElectionTypes DEF LeadersElected
<1>. QED
  BY <1>5, <1>7, <1>8

\* A restart forgets the votes counted, not who granted and counted them (__init__).
LEMMA RestartInv ==
  ASSUME ElectionInv, TypeOK', NEW n \in Node, Restart(n)
  PROVE  ElectionInv'
<1>. USE DEF ElectionInv
<1>1. /\ role' = [role EXCEPT ![n] = "follower"] /\ term' = [term EXCEPT ![n] = 0]
      /\ votes' = [votes EXCEPT ![n] = [t \in Term |-> 0]]
      /\ UNCHANGED <<asked, grants, counted, elected>>
  BY DEF Restart
<1>2. GrantsStarted' /\ AskedStarted' /\ CountedGranted' /\ ElectedBacked'
  BY <1>1 DEF GrantsStarted, AskedStarted, CountedGranted, ElectedBacked, Started, Backers
<1>3. VotesCounted'
  <2>. SUFFICES ASSUME NEW m \in Node, NEW u \in Term
                PROVE  votes'[m][u] <= 1 + Cardinality(Counted(m, u)')
    BY DEF VotesCounted
  <2>1. Counted(m, u)' = Counted(m, u) /\ Cardinality(Counted(m, u)) \in Nat
    BY <1>1, CountedTypes DEF Counted
  <2>2. votes'[m][u] = 0 \/ votes'[m][u] = votes[m][u]
    BY <1>1 DEF TypeOK
  <2>. QED
    BY <2>1, <2>2 DEF VotesCounted
<1>4. LeadersElected'
  BY <1>1 DEF LeadersElected, TypeOK
<1>. QED
  BY <1>2, <1>3, <1>4

\* Every handler keeps the election invariant, and so does a restart (all of
\* FederationConsensusEngine).
LEMMA ElectionStep ==
  ASSUME ElectionInv, [Next]_vars, CallerChecks
  PROVE  ElectionInv'
<1>1. TypeOK'
  BY TypeStep DEF ElectionInv
<1>2. ASSUME NEW n \in Node, NEW x \in elected, ReceiveHeartbeat(n, x) PROVE ElectionInv'
  <2>1. /\ term' = [term EXCEPT ![n] = x.term]
        /\ role' = [role EXCEPT ![n] = "follower"]
        /\ UNCHANGED <<votes, asked, grants, counted, elected>>
    BY <1>2 DEF ReceiveHeartbeat
  <2>2. GrantsStarted' /\ AskedStarted' /\ CountedGranted' /\ VotesCounted' /\ ElectedBacked'
    BY <2>1 DEF ElectionInv, GrantsStarted, AskedStarted, CountedGranted, VotesCounted,
                ElectedBacked, Started, Counted, Backers
  <2>3. LeadersElected'
    BY <2>1 DEF ElectionInv, TypeOK, LeadersElected
  <2>. QED
    BY <1>1, <2>2, <2>3 DEF ElectionInv
<1>3. ASSUME UNCHANGED <<term, role, votes, asked, grants, counted, elected>> PROVE ElectionInv'
  BY <1>1, <1>3 DEF ElectionInv, GrantsStarted, AskedStarted, CountedGranted, VotesCounted,
                    ElectedBacked, LeadersElected, Started, Counted, Backers
<1>4. ASSUME NEW n \in Node, NEW type \in EntryType, AppendEntry(n, type) PROVE ElectionInv'
  BY <1>3, <1>4 DEF AppendEntry, nodeVars
<1>5. ASSUME NEW n \in Node, NEW i \in 1..MaxLog, CommitEntry(n, i) PROVE ElectionInv'
  BY <1>3, <1>5 DEF CommitEntry, nodeVars
<1>6. CASE UNCHANGED vars
  BY <1>3, <1>6 DEF vars
<1>. QED
  BY <1>1, <1>2, <1>4, <1>5, <1>6, StartElectionInv, RequestVoteInv, ReceiveVoteInv,
     ReceiveRefusalInv, RestartInv DEF Next

\* Elections of the same term share a voter, who voted once (receive_vote).
LEMMA ElectionsAgree ==
  ASSUME ElectionInv, VoteOnce, restarts = 0
  PROVE  OneLeaderPerTerm
<1>. SUFFICES ASSUME NEW x \in elected, NEW y \in elected, x.term = y.term
              PROVE  x = y
  BY DEF OneLeaderPerTerm
<1>1. /\ Quorum(Cardinality(Backers(x.node, x.term))) /\ Quorum(Cardinality(Backers(y.node, x.term)))
      /\ Backers(x.node, x.term) \in SUBSET Node /\ Backers(y.node, x.term) \in SUBSET Node
  BY DEF ElectionInv, ElectedBacked, Backers
<1>2. PICK v \in Node : v \in Backers(x.node, x.term) /\ v \in Backers(y.node, x.term)
  BY <1>1, QuorumsMeet
<1>3. x.node = y.node
  BY <1>2 DEF Backers, VoteOnce
<1>4. x \in Candidacy /\ y \in Candidacy
  BY DEF ElectionInv, TypeOK
<1>. QED
  BY <1>3, <1>4 DEF Candidacy

\* The election invariant holds always, single votes until a node restarts.
ElectedSoFar == VoteOnce /\ VoteCurrent /\ ElectionInv

LEMMA ElectedInit == Init => ElectedSoFar
  BY ElectionInit DEF Init, VoteOnce, VoteCurrent, ElectedSoFar

LEMMA ElectedStep ==
  ASSUME ElectedSoFar, [Next]_vars, CallerChecks
  PROVE  ElectedSoFar'
<1>1. VoteOnce' /\ VoteCurrent'
  BY VoteStep DEF ElectedSoFar, ElectionInv
<1>2. ElectionInv'
  BY ElectionStep DEF ElectedSoFar
<1>. QED
  BY <1>1, <1>2 DEF ElectedSoFar

\* No two nodes are elected in the same term, for any number of nodes, until one
\* restarts, if replies are filtered (start_election, request_vote, receive_vote).
THEOREM LeadersUnique ==
  ASSUME CallerChecks
  PROVE  Spec => []OneLeaderPerTerm
<1>1. Init => ElectedSoFar
  BY ElectedInit
<1>2. ElectedSoFar /\ [Next]_vars => ElectedSoFar'
  BY ElectedStep
<1>3. ElectedSoFar => OneLeaderPerTerm
  BY ElectionsAgree DEF ElectedSoFar, OneLeaderPerTerm
<1>. QED
  BY <1>1, <1>2, <1>3, PTL DEF Spec

\* Within a term a leader stays leader and a vote stays cast, and terms only advance
\* (start_election, request_vote, receive_heartbeat).
LEMMA TermStep ==
  ASSUME ElectionInv, OneLeaderPerTerm, [Next]_vars, restarts' = 0, NEW m \in Node
  PROVE  /\ term'[m] >= term[m]
         /\ term'[m] = term[m] /\ votedFor[m] # None => votedFor'[m] = votedFor[m]
         /\ term'[m] = term[m] /\ role[m] = "leader" => role'[m] = "leader"
<1>. DEFINE Goal == /\ term'[m] >= term[m]
                    /\ term'[m] = term[m] /\ votedFor[m] # None => votedFor'[m] = votedFor[m]
                    /\ term'[m] = term[m] /\ role[m] = "leader" => role'[m] = "leader"
<1>t. /\ term \in [Node -> Nat] /\ role \in [Node -> Role] /\ votedFor \in [Node -> Node \cup {None}]
      /\ \A c \in asked \cup elected : c.node \in Node /\ c.term \in Nat
  BY ElectionTypes DEF ElectionInv, TypeOK
<1>10. restarts = 0 /\ \A n \in Node : ~Restart(n)
  BY NoRestartYet DEF ElectionInv
<1>1. ASSUME NEW n \in Node, StartElection(n) PROVE Goal
  BY <1>1, <1>t DEF StartElection
<1>2. ASSUME NEW n \in Node, NEW c \in asked, RequestVote(n, c) PROVE Goal
  BY <1>2, <1>t DEF RequestVote, MayVote
<1>3. ASSUME NEW n \in Node, NEW x \in elected, ReceiveHeartbeat(n, x) PROVE Goal
  <2>1. /\ n # x.node /\ x.term >= term[n] /\ votedFor' = votedFor
        /\ term' = [term EXCEPT ![n] = x.term]
        /\ role' = [role EXCEPT ![n] = "follower"]
    BY <1>3 DEF ReceiveHeartbeat
  <2>2. ASSUME x.term = term[n], role[n] = "leader" PROVE FALSE
    <3>1. [node |-> n, term |-> x.term] \in elected
      BY <2>2 DEF ElectionInv, LeadersElected
    <3>. QED
      BY <3>1, <2>1, <1>10 DEF OneLeaderPerTerm
  <2>. QED
    BY <2>1, <2>2, <1>t
<1>4. ASSUME UNCHANGED <<term, role, votedFor>> PROVE Goal
  BY <1>4, <1>t
<1>5. ASSUME NEW n \in Node, NEW type \in EntryType, AppendEntry(n, type) PROVE Goal
  BY <1>4, <1>5 DEF AppendEntry, nodeVars
<1>6. ASSUME NEW n \in Node, NEW i \in 1..MaxLog, CommitEntry(n, i) PROVE Goal
  BY <1>4, <1>6 DEF CommitEntry, nodeVars
<1>7. ASSUME NEW n \in Node, NEW count, BecomesLeader(n, term[n], count), UNCHANGED <<term, votedFor>>
      PROVE  Goal
  BY <1>7, <1>t DEF BecomesLeader
<1>8. ASSUME NEW g \in grants, ReceiveVote(g) PROVE Goal
  BY <1>7, <1>8, ElectionTypes DEF ReceiveVote, ElectionInv
<1>9. ASSUME NEW c \in asked, ReceiveRefusal(c) PROVE Goal
  BY <1>7, <1>9, <1>t DEF ReceiveRefusal
<1>11. ASSUME UNCHANGED vars PROVE Goal
  BY <1>4, <1>11 DEF vars
<1>. HIDE DEF Goal
<1>12. Goal
  BY <1>1, <1>2, <1>3, <1>5, <1>6, <1>8, <1>9, <1>10, <1>11 DEF Next
<1>. QED
  BY <1>12 DEF Goal

\* The action property of the runs: terms only advance, and within one neither a vote
\* nor a leader is taken back (request_vote, receive_heartbeat).
THEOREM TermsAdvance ==
  ASSUME CallerChecks
  PROVE  Spec => TermAdvances
<1>. DEFINE Step == restarts' = 0 => \A n \in Node :
              /\ term'[n] >= term[n]
              /\ term'[n] = term[n] /\ votedFor[n] # None => votedFor'[n] = votedFor[n]
              /\ term'[n] = term[n] /\ role[n] = "leader" => role'[n] = "leader"
<1>1. Init => ElectedSoFar
  BY ElectedInit
<1>2. ElectedSoFar /\ [Next]_vars => ElectedSoFar'
  BY ElectedStep
<1>3. ElectedSoFar /\ [Next]_vars => [Step]_vars
  <2>. SUFFICES ASSUME ElectedSoFar, [Next]_vars, restarts' = 0, NEW n \in Node
                PROVE  /\ term'[n] >= term[n]
                       /\ term'[n] = term[n] /\ votedFor[n] # None
                            => votedFor'[n] = votedFor[n]
                       /\ term'[n] = term[n] /\ role[n] = "leader" => role'[n] = "leader"
    OBVIOUS
  <2>1. ElectionInv /\ OneLeaderPerTerm
    BY NoRestartYet, ElectionsAgree DEF ElectedSoFar, ElectionInv
  <2>. QED
    BY <2>1, TermStep
<1>4. TermAdvances <=> [][Step]_vars
  BY DEF TermAdvances
<1>. HIDE DEF Step
<1>. QED
  BY <1>1, <1>2, <1>3, <1>4, PTL DEF Spec

\* Whoever calls itself leader has the votes of a majority of distinct nodes for the term it
\* is in, however late replies arrive and whoever restarts (receive_vote).
THEOREM LeadersAreBacked ==
  ASSUME CallerChecks
  PROVE  Spec => [](\A n \in Node : role[n] = "leader" => Quorum(Cardinality(Backers(n, term[n]))))
<1>. DEFINE Backed == \A n \in Node : role[n] = "leader" => Quorum(Cardinality(Backers(n, term[n])))
<1>1. ElectionInv => Backed
  BY DEF ElectionInv, LeadersElected, ElectedBacked
<1>2. Init => ElectionInv
  BY ElectionInit
<1>3. ElectionInv /\ [Next]_vars => ElectionInv'
  BY ElectionStep
<1>. HIDE DEF Backed
<1>4. Spec => []Backed
  BY <1>1, <1>2, <1>3, PTL DEF Spec
<1>. QED
  BY <1>4 DEF Backed

\* Every entry was appended in a term in which a majority of distinct nodes had voted for
\* its node, also after restarts that forget votes and counts (append_entry, receive_vote).
THEOREM AppendedByMajority ==
  ASSUME CallerChecks
  PROVE  Spec => []EntriesBacked
<1>1. Init => ElectionInv /\ EntriesBacked
  BY ElectionInit DEF Init, EntriesBacked
<1>2. ElectionInv /\ EntriesBacked /\ [Next]_vars => EntriesBacked'
  <2>. SUFFICES ASSUME ElectionInv, EntriesBacked, [Next]_vars, NEW m \in Node,
                       NEW j \in DOMAIN log'[m]
                PROVE  \A u : u = log'[m][j].term => Quorum(Cardinality(Backers(m, u)'))
    BY DEF EntriesBacked, Backers
  <2>t. log \in [Node -> Seq(Entry)] /\ role \in [Node -> Role]
    BY DEF ElectionInv, TypeOK
  <2>1. grants \subseteq grants'
    BY DEF Next, vars, nodeVars, StartElection, RequestVote, ReceiveHeartbeat, AppendEntry,
           CommitEntry, Restart, ReceiveVote, ReceiveRefusal
  <2>2. ASSUME NEW n \in Node, NEW type \in EntryType, AppendEntry(n, type)
        PROVE  Quorum(Cardinality(Backers(m, log'[m][j].term)))
    <3>. DEFINE e == [term |-> term[n], type |-> type, committed |-> FALSE]
    <3>1. role[n] = "leader" /\ log' = [log EXCEPT ![n] = Append(@, e)]
      BY <2>2 DEF AppendEntry
    <3>2. Quorum(Cardinality(Backers(n, term[n])))
      BY <3>1 DEF ElectionInv, LeadersElected, ElectedBacked
    <3>3. CASE m = n /\ j = Len(log[n]) + 1
      BY <3>1, <3>2, <3>3, <2>t
    <3>4. CASE m = n /\ j # Len(log[n]) + 1
      <4>1. log'[n] = Append(log[n], e)
        BY <3>1, <2>t
      <4>2. j \in 1..Len(log[n]) /\ log'[n][j] = log[n][j]
        BY <4>1, <3>4, <2>t
      <4>. QED
        BY <4>2, <3>4, <2>t DEF EntriesBacked
    <3>5. CASE m # n
      BY <3>1, <3>5, <2>t DEF EntriesBacked
    <3>. QED
      BY <3>3, <3>4, <3>5
  <2>3. ASSUME NEW n \in Node, NEW i \in 1..MaxLog, CommitEntry(n, i)
        PROVE  Quorum(Cardinality(Backers(m, log'[m][j].term)))
    <3>1. i \in DOMAIN log[n] /\ log' = [log EXCEPT ![n] = [@ EXCEPT ![i].committed = TRUE]]
      BY <2>3 DEF CommitEntry
    <3>2. /\ Len([log[n] EXCEPT ![i].committed = TRUE]) = Len(log[n])
          /\ [log[n] EXCEPT ![i].committed = TRUE] \in Seq(Entry)
          /\ \A k \in 1..Len(log[n]) : [log[n] EXCEPT ![i].committed = TRUE][k].term = log[n][k].term
      BY <3>1, <2>t, CommittedLog
    <3>3. j \in DOMAIN log[m] /\ log'[m][j].term = log[m][j].term
      BY <3>1, <3>2, <2>t
    <3>. QED
      BY <3>3 DEF EntriesBacked
  <2>4. ASSUME NEW n \in Node, Restart(n)
        PROVE  Quorum(Cardinality(Backers(m, log'[m][j].term)))
    BY <2>4, <2>t DEF Restart, EntriesBacked
  <2>5. ASSUME log' = log PROVE Quorum(Cardinality(Backers(m, log'[m][j].term)))
    BY <2>5 DEF EntriesBacked
  <2>6. \/ \E n \in Node : Restart(n)
        \/ \E n \in Node : \E type \in EntryType : AppendEntry(n, type)
        \/ \E n \in Node : \E i \in 1..MaxLog : CommitEntry(n, i)
        \/ log' = log
    BY DEF Next, vars, logVars, StartElection, RequestVote, ReceiveHeartbeat, ReceiveVote,
           ReceiveRefusal
  <2>7. Quorum(Cardinality(Backers(m, log'[m][j].term)))
    BY <2>2, <2>3, <2>4, <2>5, <2>6
  <2>. QED
    BY <2>1, <2>7, BackersGrow
<1>3. ElectionInv /\ [Next]_vars => ElectionInv'
  BY ElectionStep
<1>. QED
  BY <1>1, <1>2, <1>3, PTL DEF Spec
=============================================================================
