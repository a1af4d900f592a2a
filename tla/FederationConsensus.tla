------------------------- MODULE FederationConsensus -------------------------
(***************************************************************************)
(* FederationConsensusEngine of runtime/governance/federation/consensus.py *)
(* on every node of a federation: term-based election and a local log of   *)
(* entries that are appended by a leader and marked committed.             *)
(*                                                                         *)
(* The engine has no transport: whoever embeds it carries vote requests,   *)
(* replies and heartbeats (external; heartbeats follow the broadcast of    *)
(* node_supervisor.py).  Messages may be lost, reordered and delivered     *)
(* again, so what was ever sent can arrive at any time: a request of       *)
(* whoever asked, a reply of whoever granted its vote, a heartbeat of      *)
(* whoever was elected.  CallerChecks says whether the embedding code      *)
(* hands receive_vote only one reply of each voter, and only while the     *)
(* node is a candidate in the term it asked for; the engine checks neither.*)
(*                                                                         *)
(* Abstractions.  An election id stands for the node and the term that     *)
(* started it.  Payloads are not altered once appended, so a digest always *)
(* verifies.  last_heartbeat only serves is_election_timeout: an election  *)
(* may start at any time.                                                  *)
(***************************************************************************)
EXTENDS Naturals, Sequences, FiniteSets

CONSTANTS
  Node,
  None,          \* voted_for and leader_id of a node that has none
  CallerChecks,  \* the embedding code filters the replies it hands over
  JournalFails,  \* journal_fn may raise
  MaxTerm,       \* bound: terms
  MaxVotes,      \* bound: replies counted in one election
  MaxLog,        \* bound: log entries of a node
  MaxRestarts    \* bound: restarts of a node

Term == 0..MaxTerm
Role == {"follower", "candidate", "leader"}
EntryType == {"proposal", "policy_change"}
Entry == [term : Term, type : EntryType, committed : BOOLEAN]
Candidacy == [node : Node, term : Term]
Grant == [voter : Node, candidate : Node, term : Term]

ASSUME NodeAssumption == IsFiniteSet(Node) /\ Node # {} /\ None \notin Node
ASSUME ConsensusFlags == CallerChecks \in BOOLEAN /\ JournalFails \in BOOLEAN
ASSUME ConsensusBounds == MaxTerm \in Nat /\ MaxVotes \in Nat /\ MaxLog \in Nat /\ MaxRestarts \in Nat

VARIABLES
  term, role, votedFor, leader,  \* ConsensusState of each node
  log, commitIndex,              \* entries; index of the last committed one, from 0
  votes,     \* _votes_received, by the term of the election
  asked,     \* candidacies whose vote requests were sent
  grants,    \* votes granted
  counted,   \* granted votes handed to receive_vote so far
  elected,   \* nodes that became leader, with the term they were in
  restarts

nodeVars == <<term, role, votedFor, leader>>
logVars == <<log, commitIndex>>
vars == <<term, role, votedFor, leader, log, commitIndex, votes, asked, grants, counted,
          elected, restarts>>

\* More than the fraction 0.51 of all nodes.
Quorum(n) == n * 100 > 51 * Cardinality(Node)

Init ==
  /\ term = [n \in Node |-> 0]
  /\ role = [n \in Node |-> "follower"]
  /\ votedFor = [n \in Node |-> None]
  /\ leader = [n \in Node |-> None]
  /\ log = [n \in Node |-> <<>>]
  /\ commitIndex = [n \in Node |-> 0]
  /\ votes = [n \in Node |-> [t \in Term |-> 0]]
  /\ asked = {} /\ grants = {} /\ counted = {} /\ elected = {}
  /\ restarts = 0

-----------------------------------------------------------------------------
(* Election *)

\* start_election.  The state has changed when the journal raises; the caller then
\* has no election id and asks nobody.
StartElection(n) ==
  LET t == term[n] + 1 IN
  /\ t <= MaxTerm
  /\ term' = [term EXCEPT ![n] = t]
  /\ role' = [role EXCEPT ![n] = "candidate"]
  /\ votedFor' = [votedFor EXCEPT ![n] = n]
  /\ votes' = [votes EXCEPT ![n][t] = 1]
  /\ grants' = grants \cup {[voter |-> n, candidate |-> n, term |-> t]}
  /\ \/ asked' = asked \cup {[node |-> n, term |-> t]}
     \/ JournalFails /\ UNCHANGED asked
  /\ UNCHANGED <<leader, logVars, counted, elected, restarts>>

\* Mutant: a node in the candidate's term votes again.
MayVote_Again(vote, candidate) == TRUE

MayVote(vote, candidate) == vote \in {None, candidate}

\* request_vote
RequestVote(n, c) ==
  LET newer == c.term > term[n]
      vote == IF newer THEN None ELSE votedFor[n]
      granted == c.term >= term[n] /\ MayVote(vote, c.node)
  IN
  /\ n # c.node
  /\ term' = [term EXCEPT ![n] = IF newer THEN c.term ELSE @]
  /\ role' = [role EXCEPT ![n] = IF newer THEN "follower" ELSE @]
  /\ votedFor' = [votedFor EXCEPT ![n] = IF granted THEN c.node ELSE vote]
  /\ grants' = IF granted
               THEN grants \cup {[voter |-> n, candidate |-> c.node, term |-> c.term]}
               ELSE grants
  /\ UNCHANGED <<leader, logVars, votes, asked, counted, elected, restarts>>

\* Mutant: any number of votes is a majority.
BecomesLeader_AnyVote(n, t, count) ==
  /\ role' = [role EXCEPT ![n] = "leader"]
  /\ leader' = [leader EXCEPT ![n] = n]
  /\ elected' = elected \cup {[node |-> n, term |-> t]}

\* A node with a majority becomes leader of whatever term it is in by now, also when
\* the journal then raises.
BecomesLeader(n, t, count) ==
  IF Quorum(count)
  THEN /\ role' = [role EXCEPT ![n] = "leader"]
       /\ leader' = [leader EXCEPT ![n] = n]
       /\ elected' = elected \cup {[node |-> n, term |-> t]}
  ELSE UNCHANGED <<role, leader, elected>>

\* The embedding code's check of a reply to an election of the given term.
StillRuns(n, t) == CallerChecks => role[n] = "candidate" /\ term[n] = t

\* receive_vote with granted=True
ReceiveVote(g) ==
  LET n == g.candidate
      count == votes[n][g.term] + 1
  IN
  /\ g.voter # n
  /\ count <= MaxVotes
  /\ StillRuns(n, g.term)
  /\ CallerChecks => g \notin counted
  /\ counted' = counted \cup {g}
  /\ votes' = [votes EXCEPT ![n][g.term] = count]
  /\ BecomesLeader(n, term[n], count)
  /\ UNCHANGED <<term, votedFor, logVars, asked, grants, restarts>>

\* receive_vote with granted=False: a refusal, or a request that got no answer.
ReceiveRefusal(c) ==
  /\ StillRuns(c.node, c.term)
  /\ BecomesLeader(c.node, term[c.node], votes[c.node][c.term])
  /\ UNCHANGED <<term, votedFor, logVars, votes, asked, grants, counted, restarts>>

\* Mutant: a heartbeat of an older term is obeyed too.
ReceiveHeartbeat_AnyTerm(n, x) ==
  /\ n # x.node
  /\ term' = [term EXCEPT ![n] = x.term]
  /\ role' = [role EXCEPT ![n] = "follower"]
  /\ leader' = [leader EXCEPT ![n] = x.node]
  /\ UNCHANGED <<votedFor, logVars, votes, asked, grants, counted, elected, restarts>>

\* receive_heartbeat: voted_for keeps the vote of an older term.
ReceiveHeartbeat(n, x) ==
  /\ n # x.node
  /\ x.term >= term[n]
  /\ term' = [term EXCEPT ![n] = x.term]
  /\ role' = [role EXCEPT ![n] = "follower"]
  /\ leader' = [leader EXCEPT ![n] = x.node]
  /\ UNCHANGED <<votedFor, logVars, votes, asked, grants, counted, elected, restarts>>

-----------------------------------------------------------------------------
(* The log of a node.  Nothing in the engine sends entries to other nodes. *)

\* Mutant: a node that is not leader appends as well.
AppendEntry_AnyRole(n, type) ==
  /\ Len(log[n]) < MaxLog
  /\ log' = [log EXCEPT ![n] = Append(@, [term |-> term[n], type |-> type, committed |-> FALSE])]
  /\ UNCHANGED <<nodeVars, commitIndex, votes, asked, grants, counted, elected, restarts>>

\* append_entry: the entry is in the log also when the journal raises.
AppendEntry(n, type) ==
  /\ role[n] = "leader"
  /\ Len(log[n]) < MaxLog
  /\ log' = [log EXCEPT ![n] = Append(@, [term |-> term[n], type |-> type, committed |-> FALSE])]
  /\ UNCHANGED <<nodeVars, commitIndex, votes, asked, grants, counted, elected, restarts>>

\* commit_entry: of any entry, on any node.
CommitEntry(n, i) ==
  /\ i \in DOMAIN log[n]
  /\ ~log[n][i].committed
  /\ log' = [log EXCEPT ![n][i].committed = TRUE]
  /\ commitIndex' = [commitIndex EXCEPT ![n] = IF i > @ THEN i ELSE @]
  /\ UNCHANGED <<nodeVars, votes, asked, grants, counted, elected, restarts>>

\* Nothing of the state is persisted.
Restart(n) ==
  /\ restarts < MaxRestarts
  /\ restarts' = restarts + 1
  /\ term' = [term EXCEPT ![n] = 0]
  /\ role' = [role EXCEPT ![n] = "follower"]
  /\ votedFor' = [votedFor EXCEPT ![n] = None]
  /\ leader' = [leader EXCEPT ![n] = None]
  /\ log' = [log EXCEPT ![n] = <<>>]
  /\ commitIndex' = [commitIndex EXCEPT ![n] = 0]
  /\ votes' = [votes EXCEPT ![n] = [t \in Term |-> 0]]
  /\ UNCHANGED <<asked, grants, counted, elected>>

Next ==
  \/ \E n \in Node :
       \/ StartElection(n) \/ Restart(n)
       \/ \E c \in asked : RequestVote(n, c)
       \/ \E x \in elected : ReceiveHeartbeat(n, x)
       \/ \E type \in EntryType : AppendEntry(n, type)
       \/ \E i \in 1..MaxLog : CommitEntry(n, i)
  \/ \E g \in grants : ReceiveVote(g)
  \/ \E c \in asked : ReceiveRefusal(c)

Spec == Init /\ [][Next]_vars

-----------------------------------------------------------------------------
(* Correctness *)

TypeOK ==
  /\ term \in [Node -> Term]
  /\ role \in [Node -> Role]
  /\ votedFor \in [Node -> Node \cup {None}]
  /\ leader \in [Node -> Node \cup {None}]
  /\ log \in [Node -> Seq(Entry)]
  /\ commitIndex \in [Node -> Nat]
  /\ votes \in [Node -> [Term -> Nat]]
  /\ asked \subseteq Candidacy /\ elected \subseteq Candidacy
  /\ grants \subseteq Grant /\ counted \subseteq Grant
  /\ restarts \in 0..MaxRestarts

\* As long as no node has restarted, a node grants its vote to one candidate in a term,
\* although a heartbeat moves it to a new term with the vote of the old one
\* (request_vote, receive_heartbeat).
VoteOnce ==
  restarts = 0 =>
  \A g, h \in grants : g.voter = h.voter /\ g.term = h.term => g.candidate = h.candidate

\* Leader election is term-based and needs a majority: as long as no node has restarted,
\* two nodes are never elected in the same term (class docstring of
\* FederationConsensusEngine).
OneLeaderPerTerm ==
  restarts = 0 => \A x, y \in elected : x.term = y.term => x = y

\* Every entry was appended in a term its node was elected in, by a majority of votes
\* for that term: what split brain would break first (append_entry, receive_vote).
Backers(n, t) == {v \in Node : [voter |-> v, candidate |-> n, term |-> t] \in grants}
EntriesBacked ==
  \A n \in Node : \A i \in DOMAIN log[n] : Quorum(Cardinality(Backers(n, log[n][i].term)))

\* No message moves a node to an older term, and within a term a leader or a vote is
\* not taken back (request_vote, receive_heartbeat), until a node restarts.
TermAdvances ==
  [][restarts' = 0 =>
     \A n \in Node :
       /\ term'[n] >= term[n]
       /\ term'[n] = term[n] /\ votedFor[n] # None => votedFor'[n] = votedFor[n]
       /\ term'[n] = term[n] /\ role[n] = "leader" => role'[n] = "leader"]_vars

\* What a vote in the node's own term can be: the one it has granted, or one a heartbeat
\* carried over from an older term.  A restart forgets it.
VoteCurrent ==
  restarts = 0 =>
  \A n \in Node : \A g \in grants :
    g.voter = n /\ g.term >= term[n] => g.term = term[n] /\ g.candidate = votedFor[n]
=============================================================================
