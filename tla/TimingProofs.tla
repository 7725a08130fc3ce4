----------------------------- MODULE TimingProofs -----------------------------
(***************************************************************************)
(* What the tick counters guarantee, for every number of servers, every    *)
(* length of the timeouts and every choice of faults: a leader that nobody *)
(* answers steps down before two election timeouts have passed, and a      *)
(* transfer of the leadership holds proposals back for less than one.      *)
(*                                                                         *)
(* Both follow from what one method of a node may do to the voters it      *)
(* counts, to the servers it has heard from and to the transfer: an answer *)
(* brings news, everything else leaves them as they are or takes away.     *)
(***************************************************************************)
EXTENDS Timing, RaftNodeProofs

\* A transfer may have ended, and none has begun.
Ends(n, q) == q \in Node /\ q.transferee \in {n.transferee, None}

\* If q leads so did n, with no voter less; q has heard from no other one.
Stays(n, q) ==
  /\ Ends(n, q)
  /\ q.state = "Leader" =>
       /\ n.state = "Leader" /\ q.id = n.id /\ Config(q) \subseteq Config(n)
       /\ \A v \in Config(q) : q.prs[v].recentActive => n.prs[v].recentActive

\* q leads over itself alone.
Alone(q) == q.state = "Leader" => Quorum(Config(q)) <= 1

-----------------------------------------------------------------------------
(* Quorums *)

LEMMA QuorumOf ==
  ASSUME NEW C \in SUBSET Server
  PROVE  /\ IsFiniteSet(C) /\ Cardinality(C) \in Nat /\ Quorum(C) \in Nat
         /\ Quorum(C) > 1 => Cardinality(C) >= 2
<1>1. IsFiniteSet(C) /\ Cardinality(C) \in Nat
  BY ServerAssumption, FS_Subset, FS_CardinalityType
<1> DEFINE k == Cardinality(C)
<1>2. k \in Nat
  BY <1>1
<1> HIDE DEF k
<1>3. k \div 2 + 1 \in Nat /\ (k \div 2 + 1 > 1 => k >= 2)
  BY <1>2
<1> QED
  BY <1>1, <1>3 DEF Quorum, k

LEMMA QuorumShrinks ==
  ASSUME NEW C \in SUBSET Server, NEW D \in SUBSET Server, D \subseteq C
  PROVE  Quorum(D) <= Quorum(C)
<1>1. /\ IsFiniteSet(C) /\ Cardinality(C) \in Nat /\ Cardinality(D) \in Nat
  BY QuorumOf
<1>2. Cardinality(D) <= Cardinality(C)
  BY <1>1, FS_Subset
<1> DEFINE c == Cardinality(C)
           d == Cardinality(D)
<1>3. c \in Nat /\ d \in Nat /\ d <= c
  BY <1>1, <1>2
<1> HIDE DEF c, d
<1>4. d \div 2 + 1 <= c \div 2 + 1
  BY <1>3
<1> QED
  BY <1>4 DEF Quorum, c, d

\* Who is the only active voter of two or more has no quorum.
LEMMA OneIsNoQuorum ==
  ASSUME NEW C \in SUBSET Server, Quorum(C) > 1, NEW S, NEW i, S \subseteq {i}
  PROVE  ~(Cardinality(S) >= Quorum(C))
<1>1. Cardinality({i}) = 1 /\ IsFiniteSet({i})
  BY FS_Singleton
<1>2. Cardinality(S) <= 1 /\ Cardinality(S) \in Nat
  BY <1>1, FS_Subset, FS_CardinalityType
<1> QED
  BY <1>2, QuorumOf

-----------------------------------------------------------------------------
(* Configurations *)

\* Compaction of the history leaves the configuration in force alone.
LEMMA PrunedConfig ==
  ASSUME NEW h \in SUBSET ConfRecord, NEW i \in Nat
  PROVE  CfgOf(PruneConfHistory(h, i)) = CfgOf(h)
<1> DEFINE u == UpToOrOldest(h, i)
           p == PruneConfHistory(h, i)
<1>1. \A r \in h : r.index \in Nat
  BY DEF ConfRecord
<1>2. u \subseteq h
  BY DEF UpToOrOldest, Oldest
<1>3. p = {r \in h : r.index > i} \cup Newest(u)
  BY DEF PruneConfHistory
<1>4. Newest(p) = Newest(h)
  <2>1. CASE \E r \in h : r.index > i
    <3>1. PICK a \in h : a.index > i
      BY <2>1
    <3>2. p \subseteq h /\ a \in p /\ \A r \in h : r.index > i => r \in p
      BY <1>2, <1>3, <3>1 DEF Newest
    <3> HIDE DEF p
    <3>3. \A r \in Newest(h) : r \in p /\ \A q \in p : q.index <= r.index
      BY <1>1, <3>1, <3>2 DEF Newest
    <3>4. \A r \in Newest(p) : r \in h /\ \A q \in h : q.index <= r.index
      <4> SUFFICES ASSUME NEW r \in Newest(p), NEW q \in h
                   PROVE  r \in h /\ q.index <= r.index
        BY <3>2 DEF Newest
      <4>1. r \in h /\ a.index <= r.index /\ (q \in p => q.index <= r.index)
        BY <3>2 DEF Newest
      <4> QED
        BY <1>1, <3>1, <3>2, <4>1
    <3> QED
      BY <3>3, <3>4 DEF Newest
  <2>2. CASE \A r \in h : ~(r.index > i)
    <3>1. u = h
      BY <1>1, <2>2 DEF UpToOrOldest, Oldest
    <3>2. p = Newest(h)
      BY <1>3, <2>2, <3>1
    <3> QED
      BY <3>2 DEF Newest
  <2> QED
    BY <2>1, <2>2
<1> QED
  BY <1>4 DEF CfgOf

LEMMA NoRecords ==
  ASSUME NEW e, e.type # "Config"
  PROVE  ConfigRecords(<<e>>) = {}
BY DEF ConfigRecords

LEMMA OneRecord ==
  ASSUME NEW e, e.type = "Config"
  PROVE  ConfigRecords(<<e>>) = {[index |-> e.index, cfg |-> e.data]}
<1>1. {j \in 1 .. Len(<<e>>) : <<e>>[j].type = "Config"} = {1}
  OBVIOUS
<1>2. ConfigRecords(<<e>>) = {[index |-> x.index, cfg |-> x.data] : x \in {<<e>>[k] : k \in {1}}}
  BY <1>1 DEF ConfigRecords
<1> QED
  BY <1>2

\* A record of fewer voters takes effect or does not: none is added.
LEMMA NarrowerRecord ==
  ASSUME NEW h, NEW r, r.cfg \subseteq CfgOf(h)
  PROVE  CfgOf(h \cup {r}) \subseteq CfgOf(h)
<1>1. Newest(h \cup {r}) \subseteq Newest(h) \cup {r}
  BY DEF Newest
<1> QED
  BY <1>1 DEF CfgOf

-----------------------------------------------------------------------------
(* Methods of a node *)

LEMMA StaysSelf ==
  ASSUME NEW n \in Node
  PROVE  Stays(n, n)
BY DEF Stays, Ends

LEMMA StaysTwice ==
  ASSUME NEW n, NEW p, NEW q, Stays(n, p), Stays(p, q)
  PROVE  Stays(n, q)
BY DEF Stays, Ends

LEMMA EndsTwice ==
  ASSUME NEW n, NEW p, NEW q, Ends(n, p), Ends(p, q)
  PROVE  Ends(n, q)
BY DEF Ends

\* q differs from n in nothing that the lead depends on.
LEMMA SameStays ==
  ASSUME NEW n \in Node, NEW q \in Node, q.transferee = n.transferee,
         q.state = n.state, q.id = n.id, q.confHistory = n.confHistory,
         \A v \in Server : q.prs[v].recentActive = n.prs[v].recentActive
  PROVE  Stays(n, q)
<1>1. Config(q) = Config(n) /\ Config(q) \in SUBSET Server
  BY ReplicationTargetsType DEF Config
<1> QED
  BY <1>1 DEF Stays, Ends

LEMMA FollowerStays ==
  ASSUME NEW n, NEW q, Ends(n, q), q.state # "Leader"
  PROVE  Stays(n, q)
BY DEF Stays

LEMMA SendStays ==
  ASSUME NEW n \in Node, NEW msgs, Send(n, msgs) \in Node
  PROVE  Stays(n, Send(n, msgs))
<1> DEFINE q == Send(n, msgs)
<1>1. /\ q.transferee = n.transferee /\ q.state = n.state /\ q.id = n.id
      /\ q.confHistory = n.confHistory /\ q.prs = n.prs
  BY DEF Send, Node
<1> HIDE DEF q
<1> QED
  BY <1>1, SameStays DEF q

LEMMA SendAppendsStays ==
  ASSUME NEW n \in Node, NEW targets \in SUBSET Server
  PROVE  Stays(n, SendAppends(n, targets))
<1> DEFINE o == n.out \cup UNION {AppsFor(n, to) : to \in targets}
           r == [s \in Server |->
                   IF s \in targets /\ NeedsSnapshot(n, s)
                   THEN [n.prs[s] EXCEPT !.pendingSnap = TRUE] ELSE n.prs[s]]
           x == n.panic \/ \E to \in targets : CannotSend(n, to)
           q == SendAppends(n, targets)
<1>1. \A s \in Server : r[s].recentActive = n.prs[s].recentActive
  BY NodeFields DEF Progress, NoProgress, NewProgress
<1>2. q = [n EXCEPT !.out = o, !.prs = r, !.panic = x]
  BY Zenon DEF SendAppends
<1> HIDE DEF o, r, x
<1>3. /\ q.transferee = n.transferee /\ q.state = n.state /\ q.id = n.id
      /\ q.confHistory = n.confHistory /\ q.prs = r
  BY <1>2 DEF Node
<1>4. q \in Node
  BY SendAppendsQuiet DEF Quiet
<1> HIDE DEF q
<1> QED
  BY <1>1, <1>3, <1>4, SameStays DEF q

LEMMA BroadcastStays ==
  ASSUME NEW n \in Node
  PROVE  Stays(n, BroadcastAppend(n))
BY ReplicationTargetsType, SendAppendsStays DEF BroadcastAppend

LEMMA BecomeFollowerStays ==
  ASSUME NEW n \in Node, NEW term \in Nat, NEW leader \in OptServer
  PROVE  /\ Stays(n, BecomeFollower(n, term, leader))
         /\ BecomeFollower(n, term, leader).state = "Follower"
<1> DEFINE q == BecomeFollower(n, term, leader)
<1>1. q \in Node
  BY BecomeFollowerFollows DEF Follows
<1>2. q.transferee = None /\ q.state = "Follower"
  BY DEF BecomeFollower, Node
<1> HIDE DEF q
<1> QED
  BY <1>1, <1>2 DEF Stays, Ends, q

LEMMA ApplyCommittedStays ==
  ASSUME NEW n \in Node
  PROVE  Stays(n, ApplyCommitted(n))
<1> DEFINE q == ApplyCommitted(n)
<1>1. q \in Node
  BY ApplyCommittedQuiet DEF Quiet
<1>2. /\ q.transferee = n.transferee /\ q.state = n.state /\ q.id = n.id
      /\ q.confHistory = n.confHistory /\ q.prs = n.prs
  BY DEF ApplyCommitted, Node
<1> HIDE DEF q
<1> QED
  BY <1>1, <1>2, SameStays DEF q

LEMMA MaybeCommitStays ==
  ASSUME NEW n \in Node
  PROVE  Stays(n, MaybeCommit(n))
<1> DEFINE k == QuorumMatch(n)
           b == [n EXCEPT !.commitIndex = k]
           a == ApplyCommitted(b)
           c == AfterCommit(a)
<1>1. CASE n.state = "Leader" /\ k \in n.commitIndex + 1 .. LastIndex(n.log)
             /\ CommittableAt(n, k)
  <2>1. k \in Nat
    BY <1>1, NodeFields, IndexType
  <2>2. MaybeCommit(n) = IF c.state = "Leader" THEN BroadcastAppend(c) ELSE c
    BY <1>1, Zenon DEF MaybeCommit
  <2> HIDE DEF k
  <2>3. /\ b \in Node /\ b.transferee = n.transferee /\ b.state = n.state /\ b.id = n.id
        /\ b.confHistory = n.confHistory /\ b.prs = n.prs
    BY <2>1 DEF Node
  <2> HIDE DEF b
  <2>4. Stays(n, b)
    BY <2>3, SameStays
  <2>5. Stays(b, a) /\ a \in Node
    BY <2>3, ApplyCommittedStays DEF Stays, Ends
  <2> HIDE DEF a
  <2>6. Stays(a, c)
    <3>1. Stays(a, BecomeFollower(a, a.term, None))
      BY <2>5, BecomeFollowerStays, NodeFields DEF OptServer
    <3> QED
      BY <2>5, <3>1, StaysSelf DEF AfterCommit
  <2> HIDE DEF c
  <2>7. Stays(n, c) /\ c \in Node
    BY <2>4, <2>5, <2>6, StaysTwice DEF Stays, Ends
  <2>8. Stays(n, BroadcastAppend(c))
    BY <2>7, BroadcastStays, StaysTwice
  <2> QED
    BY <2>2, <2>7, <2>8
<1>2. CASE ~(n.state = "Leader" /\ k \in n.commitIndex + 1 .. LastIndex(n.log)
               /\ CommittableAt(n, k))
  <2>1. MaybeCommit(n) = n
    BY <1>2, Zenon DEF MaybeCommit
  <2> QED
    BY <2>1, StaysSelf
<1> QED
  BY <1>1, <1>2

LEMMA MaybeCommitThenBroadcastStays ==
  ASSUME NEW n \in Node
  PROVE  Stays(n, MaybeCommitThenBroadcast(n))
<1> DEFINE c == MaybeCommit(n)
<1>1. Stays(n, c) /\ c \in Node
  BY MaybeCommitStays DEF Stays, Ends
<1> HIDE DEF c
<1>2. Stays(n, BroadcastAppend(c))
  BY <1>1, BroadcastStays, StaysTwice
<1> QED
  BY <1>1, <1>2 DEF MaybeCommitThenBroadcast, c

LEMMA AppendEntryParts ==
  ASSUME NEW n \in Node, NEW type, NEW data,
         \/ type = "Normal" /\ data \in Value
         \/ type = "Noop"   /\ data = None
         \/ type = "Config" /\ data \in SUBSET Server
  PROVE  LET q == AppendEntry(n, type, data)
             e == [index |-> LastIndex(n.log) + 1, term |-> n.term, type |-> type,
                   data |-> data]
         IN  /\ q \in Node /\ q.transferee = n.transferee /\ q.state = n.state
             /\ q.id = n.id /\ q.confHistory = n.confHistory \cup ConfigRecords(<<e>>)
             /\ \A v \in Server : q.prs[v].recentActive => n.prs[v].recentActive
<1> DEFINE e == [index |-> LastIndex(n.log) + 1, term |-> n.term, type |-> type,
                 data |-> data]
           fresh == IF type = "Config"
                    THEN {v \in data \ {n.id} : n.prs[v] = NoProgress} ELSE {}
           l == AppendLog(n.log, <<e>>)
           h == n.confHistory \cup ConfigRecords(<<e>>)
           r == [s \in Server |-> IF s \in fresh THEN NewProgress(e.index + 1)
                                  ELSE n.prs[s]]
           i == MarkAppended(n, e.index)
           q == AppendEntry(n, type, data)
<1>1. q \in Node
  BY AppendEntryQuiet DEF Quiet
<1>2. q = [n EXCEPT !.log = l, !.appendedFrom = i, !.confHistory = h, !.prs = r]
  BY Zenon DEF AppendEntry
<1>3. \A v \in Server : r[v].recentActive => n.prs[v].recentActive
  BY DEF NewProgress
<1> HIDE DEF l, h, r, i, q
<1>4. /\ q.transferee = n.transferee /\ q.state = n.state /\ q.id = n.id
      /\ q.confHistory = h /\ q.prs = r
  BY <1>2 DEF Node
<1> QED
  BY <1>1, <1>3, <1>4 DEF q, h

LEMMA AppendEntryEnds ==
  ASSUME NEW n \in Node, NEW type, NEW data,
         \/ type = "Normal" /\ data \in Value
         \/ type = "Noop"   /\ data = None
         \/ type = "Config" /\ data \in SUBSET Server
  PROVE  Ends(n, AppendEntry(n, type, data))
<1>1. AppendEntry(n, type, data) \in Node
  BY AppendEntryQuiet DEF Quiet
<1>2. AppendEntry(n, type, data).transferee = n.transferee
  BY DEF AppendEntry, Node
<1> QED
  BY <1>1, <1>2 DEF Ends

LEMMA AppendEntryStays ==
  ASSUME NEW n \in Node, NEW type, NEW data,
         \/ type = "Normal" /\ data \in Value
         \/ type = "Noop"   /\ data = None
         \/ type = "Config" /\ data \in SUBSET Config(n)
  PROVE  Stays(n, AppendEntry(n, type, data))
<1> DEFINE q == AppendEntry(n, type, data)
           e == [index |-> LastIndex(n.log) + 1, term |-> n.term, type |-> type,
                 data |-> data]
           h == n.confHistory
<1>1. Config(n) \in SUBSET Server
  BY ReplicationTargetsType
<1>2. /\ q \in Node /\ q.transferee = n.transferee /\ q.state = n.state
      /\ q.id = n.id /\ q.confHistory = h \cup ConfigRecords(<<e>>)
      /\ \A v \in Server : q.prs[v].recentActive => n.prs[v].recentActive
  BY <1>1, AppendEntryParts
<1>3. e.type = type /\ e.data = data
  OBVIOUS
<1> HIDE DEF q, e, h
<1>4. Config(q) \subseteq Config(n)
  <2>1. CASE type = "Config"
    <3> DEFINE r == [index |-> e.index, cfg |-> e.data]
    <3>1. q.confHistory = h \cup {r} /\ r.cfg \subseteq CfgOf(h)
      BY <1>2, <1>3, <2>1, OneRecord DEF Config, h
    <3> HIDE DEF r
    <3> QED
      BY <3>1, NarrowerRecord DEF Config, h
  <2>2. CASE type # "Config"
    BY <1>2, <1>3, <2>2, NoRecords DEF Config, h
  <2> QED
    BY <2>1, <2>2
<1> QED
  BY <1>1, <1>2, <1>4 DEF Stays, Ends, q

LEMMA ProposeStays ==
  ASSUME NEW n \in Node, NEW v \in Value
  PROVE  Stays(n, Propose(n, v))
<1> DEFINE a == AppendEntry(n, "Normal", v)
<1>1. Stays(n, a) /\ a \in Node
  BY AppendEntryStays DEF Stays, Ends
<1> HIDE DEF a
<1>2. Stays(n, MaybeCommitThenBroadcast(a))
  BY <1>1, MaybeCommitThenBroadcastStays, StaysTwice
<1> QED
  BY <1>2, StaysSelf DEF Propose, a

-----------------------------------------------------------------------------
(* Elections *)

\* A new leader has the voters it had as a candidate, and no transfer.
LEMMA BecomeLeaderEnds ==
  ASSUME NEW n \in Node
  PROVE  LET q == BecomeLeader(n)
         IN  Ends(n, q) /\ (q.state = "Leader" => Config(q) \subseteq Config(n))
<1> DEFINE r == [s \in Server |->
                   IF s \in Config(n) \ {n.id} THEN NewProgress(LastIndex(n.log) + 1)
                   ELSE NoProgress]
           lead == [n EXCEPT !.state = "Leader", !.leaderID = n.id, !.votes = NoVotes,
                             !.transferee = None, !.prs = r]
           a == AppendEntry(lead, "Noop", None)
           c == MaybeCommit(a)
<1>1. r \in [Server -> Progress]
  BY NodeFields, IndexType, NewProgressType DEF Progress
<1>2. NoVotes \in [Server -> {"none", "yes", "no"}] /\ n.id \in OptServer
      /\ None \in OptServer /\ "Leader" \in States
  BY NodeFields DEF NoVotes, OptServer, States
<1> HIDE DEF r
<1>3. lead \in Node /\ lead.transferee = None /\ lead.confHistory = n.confHistory
  BY <1>1, <1>2 DEF Node
<1>4. BecomeLeader(n) = BroadcastAppend(c)
  BY Zenon DEF BecomeLeader, r
<1> HIDE DEF lead
<1>5. Stays(lead, a) /\ a \in Node
  BY <1>3, AppendEntryStays DEF Stays, Ends
<1> HIDE DEF a
<1>6. Stays(lead, c) /\ c \in Node
  BY <1>5, MaybeCommitStays, StaysTwice DEF Stays, Ends
<1> HIDE DEF c
<1>7. Stays(lead, BroadcastAppend(c))
  BY <1>6, BroadcastStays, StaysTwice
<1> QED
  BY <1>3, <1>4, <1>7 DEF Stays, Ends, Config

LEMMA OwnVoteAlone ==
  ASSUME NEW n \in Node, n.votes = OwnVote(n), VotesReach(n, "yes")
  PROVE  Quorum(Config(n)) <= 1
<1> DEFINE S == {v \in Config(n) : n.votes[v] = "yes"}
<1>1. Config(n) \in SUBSET Server /\ n.id \in Server
  BY ReplicationTargetsType, NodeFields
<1>2. S \subseteq {n.id}
  BY <1>1 DEF OwnVote, NoVotes
<1>3. Cardinality(S) >= Quorum(Config(n))
  BY DEF VotesReach
<1> HIDE DEF S
<1> QED
  BY <1>1, <1>2, <1>3, OneIsNoQuorum, QuorumOf

LEMMA RequestVotesOf ==
  ASSUME NEW n \in Node, NEW term \in Nat, NEW pre \in BOOLEAN, NEW force \in BOOLEAN
  PROVE  Stays(n, RequestVotes(n, term, pre, force))
<1>1. RequestVotes(n, term, pre, force) \in Node
  BY RequestVotesQuiet DEF Quiet
<1> QED
  BY <1>1, SendStays DEF RequestVotes

LEMMA ElectCalm ==
  ASSUME NEW n \in Node, NEW force \in BOOLEAN
  PROVE  Ends(n, Elect(n, force)) /\ Alone(Elect(n, force))
<1> DEFINE c == BecomeCandidate(n)
           q == Elect(n, force)
<1>1. c \in Node
  BY BecomeCandidateFollows DEF Follows
<1>2. /\ c.transferee = n.transferee /\ c.state = "Candidate" /\ c.id = n.id
      /\ c.confHistory = n.confHistory /\ c.votes = OwnVote(n)
  BY DEF BecomeCandidate, Node
<1> HIDE DEF c
<1>3. q = IF VotesReach(c, "yes") THEN BecomeLeader(c)
          ELSE RequestVotes(c, c.term, FALSE, force)
  BY Zenon DEF Elect, c
<1> HIDE DEF q
<1>4. CASE VotesReach(c, "yes")
  <2>1. Quorum(Config(c)) <= 1
    BY <1>1, <1>2, <1>4, OwnVoteAlone DEF OwnVote
  <2>2. Ends(c, q) /\ (q.state = "Leader" => Config(q) \subseteq Config(c))
    BY <1>1, <1>3, <1>4, BecomeLeaderEnds
  <2>3. q \in Node /\ Config(q) \in SUBSET Server /\ Config(c) \in SUBSET Server
    BY <1>1, <2>2, ReplicationTargetsType DEF Ends
  <2>4. Quorum(Config(q)) \in Nat /\ Quorum(Config(c)) \in Nat
    BY <2>3, QuorumOf
  <2>5. Alone(q)
    BY <2>1, <2>2, <2>3, <2>4, QuorumShrinks DEF Alone
  <2> QED
    BY <1>2, <2>2, <2>5 DEF Ends, q
<1>5. CASE ~VotesReach(c, "yes")
  <2>1. Stays(c, q)
    BY <1>1, <1>3, <1>5, RequestVotesOf, NodeFields
  <2> QED
    BY <1>2, <2>1 DEF Stays, Ends, Alone, q
<1> QED
  BY <1>4, <1>5

LEMMA CampaignCalm ==
  ASSUME NEW n \in Node, n.state # "Leader", NEW pre \in BOOLEAN, NEW force \in BOOLEAN
  PROVE  Ends(n, Campaign(n, pre, force)) /\ Alone(Campaign(n, pre, force))
<1> DEFINE c == BecomePreCandidate(n)
           q == PreElect(n, force)
<1>1. c \in Node
  BY BecomePreCandidateQuiet DEF Quiet
<1>2. c.transferee = n.transferee /\ c.state = "PreCandidate" /\ c.term \in Nat
  BY <1>1, NodeFields DEF BecomePreCandidate, Node
<1> HIDE DEF c
<1>3. q = IF VotesReach(c, "yes") THEN Elect(c, force)
          ELSE RequestVotes(c, c.term + 1, TRUE, force)
  BY Zenon DEF PreElect, c
<1>4. Ends(c, Elect(c, force)) /\ Alone(Elect(c, force))
  BY <1>1, ElectCalm
<1>5. Stays(c, RequestVotes(c, c.term + 1, TRUE, force))
  <2>1. c.term + 1 \in Nat /\ TRUE \in BOOLEAN
    BY <1>2
  <2> QED
    BY <1>1, <2>1, RequestVotesOf, Zenon
<1>6. Ends(n, q) /\ Alone(q)
  BY <1>2, <1>3, <1>4, <1>5 DEF Stays, Ends, Alone
<1>7. Ends(n, Elect(n, force)) /\ Alone(Elect(n, force))
  BY ElectCalm
<1>8. Ends(n, n) /\ Alone(n)
  BY DEF Ends, Alone
<1> HIDE DEF q
<1> QED
  BY <1>6, <1>7, <1>8 DEF Campaign, q

-----------------------------------------------------------------------------
(* Answers *)

LEMMA HandleVoteRespEnds ==
  ASSUME NEW n \in Node, NEW m \in VoteResp
  PROVE  Ends(n, HandleVoteResp(n, m))
<1> DEFINE c == Counted(n, m)
           f == BecomeFollower(c, c.term, None)
<1>1. c \in Node
  BY CountedQuiet DEF Quiet
<1>2. c.transferee = n.transferee /\ c.state = n.state
  BY DEF Counted, Node
<1> HIDE DEF c
<1>3. Ends(c, f)
  BY <1>1, BecomeFollowerStays, NodeFields DEF OptServer, Stays
<1> HIDE DEF f
<1>4. n.state # "Leader" => Ends(c, Campaign(c, FALSE, FALSE))
  BY <1>1, <1>2, CampaignCalm
<1>5. Ends(c, BecomeLeader(c))
  BY <1>1, BecomeLeaderEnds
<1>6. Ends(n, n) /\ Ends(n, c)
  BY <1>1, <1>2 DEF Ends
<1>7. n.state # "Leader" => Ends(n, HandlePreVoteResp(n, m))
  BY <1>3, <1>4, <1>6, EndsTwice DEF HandlePreVoteResp, c, f
<1>8. Ends(n, HandleRealVoteResp(n, m))
  BY <1>3, <1>5, <1>6, EndsTwice DEF HandleRealVoteResp, c, f
<1> QED
  BY <1>6, <1>7, <1>8 DEF HandleVoteResp

LEMMA MaybePromoteLearnerEnds ==
  ASSUME NEW n \in Node, NEW from \in Server
  PROVE  Ends(n, MaybePromoteLearner(n, from))
<1> DEFINE b == [n EXCEPT !.learner = None]
           data == Config(n) \cup {from}
           a == AppendEntry(b, "Config", data)
<1>1. b \in Node /\ b.transferee = n.transferee
  BY DEF Node, OptServer
<1>2. data \in SUBSET Server
  BY ReplicationTargetsType
<1> HIDE DEF b, data
<1>3. Ends(b, a)
  BY <1>1, <1>2, AppendEntryEnds
<1> HIDE DEF a
<1>4. Ends(a, MaybeCommitThenBroadcast(a))
  BY <1>3, MaybeCommitThenBroadcastStays DEF Stays, Ends
<1>5. Ends(n, MaybeCommitThenBroadcast(a))
  BY <1>1, <1>3, <1>4 DEF Ends
<1> QED
  BY <1>5 DEF MaybePromoteLearner, a, b, data, Ends

LEMMA AfterAckEnds ==
  ASSUME NEW n \in Node, NEW from \in Server, NEW match \in Nat, NEW isApp \in BOOLEAN
  PROVE  Ends(n, AfterAck(n, from, match, isApp))
<1> DEFINE k == Ack(n, from, match)
           a == MaybeCommit(k)
           b == IF isApp /\ a.transferee = from /\ CaughtUp(a, from)
                THEN SendTimeoutNow(a, from) ELSE a
           c == MaybePromoteLearner(b, from)
           s == SendAppends(c, {from})
<1>1. k \in Node
  BY AckQuiet DEF Quiet
<1>2. k.transferee = n.transferee
  BY DEF Ack, Node
<1> HIDE DEF k
<1>3. Ends(k, a) /\ a \in Node
  BY <1>1, MaybeCommitStays DEF Stays, Ends
<1> HIDE DEF a
<1>4. Ends(a, b) /\ b \in Node
  <2>1. SendTimeoutNow(a, from) \in Node
    BY <1>3, SendTimeoutNowQuiet DEF Quiet
  <2>2. Stays(a, SendTimeoutNow(a, from))
    BY <1>3, <2>1, SendStays DEF SendTimeoutNow
  <2> QED
    BY <1>3, <2>1, <2>2 DEF Stays, Ends
<1> HIDE DEF b
<1>5. Ends(b, c) /\ c \in Node
  BY <1>4, MaybePromoteLearnerEnds DEF Ends
<1> HIDE DEF c
<1>6. Ends(c, s)
  BY <1>5, SendAppendsStays DEF Stays
<1> HIDE DEF s
<1>7. Ends(n, a) /\ Ends(n, c) /\ Ends(n, s)
  BY <1>2, <1>3, <1>4, <1>5, <1>6 DEF Ends
<1>8. AfterAck(n, from, match, isApp) =
        IF a.state # "Leader" THEN a
        ELSE IF c.prs[from].next <= LastIndex(c.log) THEN s ELSE c
  BY Zenon DEF AfterAck, s, c, b, a, k
<1> QED
  BY <1>7, <1>8

LEMMA HandleAppRespEnds ==
  ASSUME NEW n \in Node, NEW m \in AppResp
  PROVE  Ends(n, HandleAppResp(n, m))
<1> DEFINE r == [n EXCEPT !.prs[m.from].recentActive = TRUE,
                          !.prs[m.from].next = NextAfterReject(n, m)]
<1>1. m.from \in Server /\ m.matchIndex \in Nat
  BY DEF AppResp
<1>2. Ends(n, n) /\ Ends(n, AfterAck(n, m.from, m.matchIndex, TRUE))
  BY <1>1, AfterAckEnds DEF Ends
<1>3. Ends(n, r) \/ IgnoresAck(n, m)
  <2> SUFFICES ASSUME ~IgnoresAck(n, m) PROVE Ends(n, r)
    BY DEF Ends
  <2> DEFINE k == NextAfterReject(n, m)
             pr == n.prs[m.from]
             p == [pr EXCEPT !.recentActive = TRUE, !.next = k]
             ps == [n.prs EXCEPT ![m.from] = p]
  <2>1. k \in Nat \ {0} /\ pr \in Progress /\ pr # NoProgress
    BY <1>1, NodeFields, NextAfterRejectType DEF IgnoresAck
  <2>2. r = [n EXCEPT !.prs = ps]
    BY <1>1, NodeFields DEF pr, Node
  <2> HIDE DEF k, pr, r
  <2>3. p \in Progress
    <3>1. pr \in [next : Nat \ {0}, match : Nat, recentActive : BOOLEAN, pendingSnap : BOOLEAN]
      BY <2>1 DEF Progress
    <3> QED
      BY <2>1, <3>1 DEF Progress
  <2>4. ps \in [Server -> Progress]
    BY <2>3, NodeFields
  <2> HIDE DEF ps
  <2> QED
    BY <2>2, <2>4 DEF Node, Ends
<1> HIDE DEF r
<1>4. IgnoresAck(n, m) \/ Ends(n, SendAppends(r, {m.from}))
  BY <1>1, <1>3, SendAppendsStays DEF Stays, Ends
<1> QED
  BY <1>2, <1>4 DEF HandleAppResp, r

LEMMA HandleSnapRespEnds ==
  ASSUME NEW n \in Node, NEW m \in SnapResp
  PROVE  Ends(n, HandleSnapResp(n, m))
<1>1. m.from \in Server /\ m.matchIndex \in Nat
  BY DEF SnapResp
<1>2. Ends(n, n) /\ Ends(n, AfterAck(n, m.from, m.matchIndex, FALSE))
  BY <1>1, AfterAckEnds DEF Ends
<1> QED
  BY <1>2 DEF HandleSnapResp

-----------------------------------------------------------------------------
(* Requests *)

\* q plays the part that n plays.
Still(n, q) == q \in Node /\ q.state = n.state /\ q.transferee = n.transferee

LEMMA StillStays ==
  ASSUME NEW n \in Node, NEW p, NEW q, Stays(n, p), p.state # "Leader", Still(p, q)
  PROVE  Stays(n, q)
BY DEF Stays, Ends, Still

LEMMA SendStill ==
  ASSUME NEW n \in Node, NEW msgs, Send(n, msgs) \in Node
  PROVE  Still(n, Send(n, msgs))
BY DEF Send, Still, Node

LEMMA HandleVoteStays ==
  ASSUME NEW n \in Node, NEW m \in VoteReq, NEW fresh \in BOOLEAN
  PROVE  Stays(n, HandleVote(n, m, fresh))
<1> DEFINE b == [n EXCEPT !.votedFor = m.from, !.hsDirty = TRUE]
           q == HandleVote(n, m, fresh)
<1>1. q \in Node
  BY HandleVoteFollows DEF Follows
<1>2. \/ \E msgs : q = Send(n, msgs)
      \/ \E msgs : q = Send(b, msgs)
  BY Zenon DEF HandleVote, HandlePreVote, HandleRealVote
<1>3. /\ b.transferee = n.transferee /\ b.state = n.state /\ b.id = n.id
      /\ b.confHistory = n.confHistory /\ b.prs = n.prs
  BY DEF Node
<1>4. \A msgs : /\ Send(b, msgs).transferee = b.transferee
                /\ Send(b, msgs).state = b.state /\ Send(b, msgs).id = b.id
                /\ Send(b, msgs).confHistory = b.confHistory /\ Send(b, msgs).prs = b.prs
  BY DEF Send, Node
<1> HIDE DEF b, q
<1>5. CASE \E msgs : q = Send(n, msgs)
  BY <1>1, <1>5, SendStays DEF q
<1>6. CASE \E msgs : q = Send(b, msgs)
  <2>1. /\ q.transferee = n.transferee /\ q.state = n.state /\ q.id = n.id
        /\ q.confHistory = n.confHistory /\ q.prs = n.prs
    BY <1>3, <1>4, <1>6
  <2> QED
    BY <1>1, <2>1, SameStays DEF q
<1> QED
  BY <1>2, <1>5, <1>6

LEMMA AcceptEntriesStill ==
  ASSUME NEW n \in Node, NEW ents \in Seq(Entry)
  PROVE  Still(n, AcceptEntries(n, ents))
<1> DEFINE q == AcceptEntries(n, ents)
<1>1. q \in Node
  BY AcceptEntriesQuiet DEF Quiet
<1>2. q.state = n.state /\ q.transferee = n.transferee
  BY DEF AcceptEntries, Node
<1> QED
  BY <1>1, <1>2 DEF Still

LEMMA ApplyCommittedStill ==
  ASSUME NEW n \in Node
  PROVE  Still(n, ApplyCommitted(n))
<1>1. ApplyCommitted(n) \in Node
  BY ApplyCommittedQuiet DEF Quiet
<1>2. ApplyCommitted(n).state = n.state /\ ApplyCommitted(n).transferee = n.transferee
  BY DEF ApplyCommitted, Node
<1> QED
  BY <1>1, <1>2 DEF Still

LEMMA AdvanceCommitStill ==
  ASSUME NEW n \in Node, NEW commit \in Nat, NEW lastNew \in Nat
  PROVE  Still(n, AdvanceCommit(n, commit, lastNew))
<1> DEFINE c == Min({commit, lastNew})
           b == [n EXCEPT !.commitIndex = c]
<1>1. c \in Nat
  BY MinOfTwo
<1> HIDE DEF c
<1>2. b \in Node /\ b.state = n.state /\ b.transferee = n.transferee
  BY <1>1 DEF Node
<1>3. AdvanceCommit(n, commit, lastNew) = IF c > n.commitIndex THEN ApplyCommitted(b) ELSE n
  BY Zenon DEF AdvanceCommit, c
<1> HIDE DEF b
<1>4. Still(b, ApplyCommitted(b))
  BY <1>2, ApplyCommittedStill
<1> QED
  BY <1>2, <1>3, <1>4 DEF Still

LEMMA AppReplyStill ==
  ASSUME NEW n \in Node, NEW m \in Message, NEW success \in BOOLEAN,
         NEW match \in Nat, NEW ci \in Nat, NEW ct \in Nat
  PROVE  Still(n, AppReply(n, m, success, match, ci, ct))
<1>1. AppReply(n, m, success, match, ci, ct) \in Node
  BY AppReplyQuiet DEF Quiet
<1> QED
  BY <1>1, SendStill DEF AppReply

LEMMA SnapReplyStill ==
  ASSUME NEW n \in Node, NEW m \in Message, NEW match \in Nat
  PROVE  Still(n, SnapReply(n, m, match))
<1>1. SnapReply(n, m, match) \in Node
  BY SnapReplyQuiet DEF Quiet
<1> QED
  BY <1>1, SendStill DEF SnapReply

LEMMA HandleAppAsFollowerStill ==
  ASSUME NEW n \in Node, NEW m \in App
  PROVE  Still(n, HandleAppAsFollower(n, m))
<1> DEFINE q == HandleAppAsFollower(n, m)
<1>1. q \in Node
  BY HandleAppAsFollowerQuiet DEF Quiet
<1>2. q.state = n.state /\ q.transferee = n.transferee
  <2> DEFINE covered == m.prevLogIndex < n.log.snapIndex
             skip == IF covered THEN n.log.snapIndex - m.prevLogIndex ELSE 0
             ents == SubSeq(m.entries, skip + 1, Len(m.entries))
             prev == m.prevLogIndex + skip
             lastNew == prev + Len(ents)
             a == AcceptEntries(n, ents)
             c == AdvanceCommit(a, m.commit, lastNew)
  <2>1. /\ m.prevLogIndex \in Nat /\ m.entries \in Seq(Entry) /\ m.commit \in Nat
        /\ n.log.snapIndex \in Nat
    BY NodeFields, LogFields DEF App
  <2>2. skip \in Nat /\ prev \in Nat
    BY <2>1
  <2>3. ents \in Seq(Entry)
    BY <2>1, <2>2, PartType, LenProperties
  <2> HIDE DEF skip, prev, ents
  <2>4. lastNew \in Nat
    BY <2>2, <2>3, LenProperties
  <2> HIDE DEF lastNew
  <2>5. Still(n, a)
    BY <2>3, AcceptEntriesStill
  <2> HIDE DEF a
  <2>6. Still(a, c)
    BY <2>1, <2>4, <2>5, AdvanceCommitStill DEF Still
  <2> HIDE DEF c
  <2>7. \E p \in {n, c} : \E msgs : q = Send(p, msgs)
    BY Zenon DEF HandleAppAsFollower, AppReply, RejectApp, c, a, lastNew, prev, ents, skip
  <2>8. \A p \in Node : \A msgs : /\ Send(p, msgs).state = p.state
                          /\ Send(p, msgs).transferee = p.transferee
    BY DEF Send, Node
  <2> HIDE DEF q
  <2> QED
    BY <2>5, <2>6, <2>7, <2>8 DEF Still
<1> QED
  BY <1>1, <1>2 DEF Still

LEMMA FollowerOfStays ==
  ASSUME NEW n \in Node, NEW m \in Message
  PROVE  Stays(n, FollowerOf(n, m)) /\ FollowerOf(n, m).state = "Follower"
<1> DEFINE b == [n EXCEPT !.leaderID = m.from]
<1>1. m.from \in OptServer /\ m.term \in Nat
  BY MessageEnds DEF OptServer
<1>2. n.state = "Follower" => Stays(n, b) /\ b.state = "Follower"
  BY <1>1 DEF Node, Stays, Ends
<1> HIDE DEF b
<1> QED
  BY <1>1, <1>2, BecomeFollowerStays DEF FollowerOf, b

LEMMA HandleAppStays ==
  ASSUME NEW n \in Node, NEW m \in App
  PROVE  Stays(n, HandleApp(n, m))
<1> DEFINE f == FollowerOf(n, m)
           q == HandleAppAsFollower(f, m)
<1>1. Stays(n, f) /\ f.state = "Follower" /\ f \in Node
  BY FollowerOfStays DEF Message, Stays, Ends
<1> HIDE DEF f
<1>2. Still(f, q)
  BY <1>1, HandleAppAsFollowerStill
<1>3. Stays(n, q)
  BY <1>1, <1>2, StillStays
<1> QED
  BY <1>3, StaysSelf DEF HandleApp, f

LEMMA InstallStill ==
  ASSUME NEW n \in Node, NEW s \in Snapshot
  PROVE  Still(n, InstallKeepingSuffix(n, s)) /\ Still(n, InstallReplacing(n, s))
<1> DEFINE b == [n EXCEPT !.commitIndex = s.index]
           a == ApplyCommitted(b)
<1>1. InstallKeepingSuffix(n, s) \in Node /\ InstallReplacing(n, s) \in Node
  BY InstallKeepingSuffixQuiet, InstallReplacingQuiet DEF Quiet
<1>2. b \in Node /\ b.state = n.state /\ b.transferee = n.transferee
  BY SnapshotFields DEF Node
<1> HIDE DEF b
<1>3. Still(b, a)
  BY <1>2, ApplyCommittedStill
<1> HIDE DEF a
<1>4. /\ InstallKeepingSuffix(n, s).state = a.state
      /\ InstallKeepingSuffix(n, s).transferee = a.transferee
  BY <1>3 DEF InstallKeepingSuffix, a, b, Still, Node
<1>5. /\ InstallReplacing(n, s).state = n.state
      /\ InstallReplacing(n, s).transferee = n.transferee
  BY DEF InstallReplacing, Node
<1> QED
  BY <1>1, <1>2, <1>3, <1>4, <1>5 DEF Still

LEMMA HandleSnapStays ==
  ASSUME NEW n \in Node, NEW m \in Snap
  PROVE  Stays(n, HandleSnap(n, m))
<1> DEFINE f == FollowerOf(n, m)
           s == m.snapshot
           k == InstallKeepingSuffix(f, s)
           r == InstallReplacing(f, s)
           q == HandleSnap(n, m)
<1>1. m \in Message /\ s \in Snapshot /\ s.index \in Nat
  BY SnapshotFields DEF Message, Snap
<1>2. Stays(n, f) /\ f.state = "Follower" /\ f \in Node
  BY <1>1, FollowerOfStays DEF Stays, Ends
<1>3. q \in {SnapReply(f, m, f.commitIndex), SnapReply(k, m, s.index), SnapReply(r, m, s.index)}
  BY Zenon DEF HandleSnap
<1> HIDE DEF f, s, q
<1>4. Still(f, k) /\ Still(f, r) /\ k \in Node /\ r \in Node /\ f.commitIndex \in Nat
  BY <1>1, <1>2, InstallStill, NodeFields DEF Still
<1> HIDE DEF k, r
<1>5. /\ Still(f, SnapReply(f, m, f.commitIndex)) /\ Still(k, SnapReply(k, m, s.index))
      /\ Still(r, SnapReply(r, m, s.index))
  BY <1>1, <1>2, <1>4, SnapReplyStill
<1>6. Still(f, q)
  BY <1>3, <1>4, <1>5 DEF Still
<1> QED
  BY <1>2, <1>6, StillStays DEF q

LEMMA StaleReplyStays ==
  ASSUME NEW n \in Node, NEW m \in Message
  PROVE  Stays(n, StaleReply(n, m))
<1> DEFINE q == StaleReply(n, m)
<1>1. q \in Node
  BY StaleReplyQuiet DEF Quiet
<1>2. q = n \/ \E msgs : q = Send(n, msgs)
  BY DEF StaleReply, AppReply
<1> HIDE DEF q
<1> QED
  BY <1>1, <1>2, StaysSelf, SendStays DEF q

LEMMA AtMessageTermStays ==
  ASSUME NEW n \in Node, NEW m \in Message
  PROVE  Stays(n, AtMessageTerm(n, m))
<1> DEFINE leader == IF m.type \in {"App", "Snap"} THEN m.from ELSE None
<1>1. leader \in OptServer /\ m.term \in Nat
  BY MessageEnds DEF OptServer
<1> HIDE DEF leader
<1>2. AtMessageTerm(n, m) = n \/ AtMessageTerm(n, m) = BecomeFollower(n, m.term, leader)
  BY Zenon DEF AtMessageTerm, leader
<1> QED
  BY <1>1, <1>2, BecomeFollowerStays, StaysSelf

\* Whatever a node receives, it begins no transfer; and what is not an answer
\* neither makes it the leader of others nor brings it news of them.
LEMMA ReceiveStays ==
  ASSUME NEW n \in Node, NEW m \in Message, NEW fresh \in BOOLEAN
  PROVE  LET q == Receive(n, m, fresh)
         IN  Ends(n, q) /\ (Answers(m) \/ Stays(n, q) \/ Alone(q))
<1> DEFINE a == AtMessageTerm(n, m)
           q == Receive(n, m, fresh)
           S == Send(n, VoteReply(n, m, n.term, FALSE, FALSE))
           F(x) == Ends(a, x) /\ (Answers(m) \/ Stays(a, x) \/ Alone(x))
           G(x) == Ends(n, x) /\ (Answers(m) \/ Stays(n, x) \/ Alone(x))
<1>1. Stays(n, a) /\ a \in Node
  BY AtMessageTermStays DEF Stays, Ends
<1>2. G(StaleReply(n, m))
  BY StaleReplyStays DEF Stays
<1>3. G(S)
  <2>1. Quiet(n, S)
    BY NodeFields, VoteReplyType, SendQuiet
  <2>2. Stays(n, S)
    BY <2>1, SendStays DEF Quiet
  <2> QED
    BY <2>2 DEF Stays
<1> HIDE DEF a, S
<1>4. ASSUME NEW x, F(x) PROVE G(x)
  BY <1>1, <1>4, StaysTwice, EndsTwice DEF Stays
<1>5. m.type = "Vote" => F(HandleVote(a, m, fresh))
  BY <1>1, MessageOfType, HandleVoteStays DEF Stays
<1>6. m.type = "VoteResp" => F(HandleVoteResp(a, m))
  BY <1>1, MessageOfType, HandleVoteRespEnds DEF Answers
<1>7. m.type = "App" => F(HandleApp(a, m))
  BY <1>1, MessageOfType, HandleAppStays DEF Stays
<1>8. m.type = "AppResp" => F(HandleAppResp(a, m))
  BY <1>1, MessageOfType, HandleAppRespEnds DEF Answers
<1>9. m.type = "Snap" => F(HandleSnap(a, m))
  BY <1>1, MessageOfType, HandleSnapStays DEF Stays
<1>10. m.type = "SnapResp" => F(HandleSnapResp(a, m))
  BY <1>1, MessageOfType, HandleSnapRespEnds DEF Answers
<1>11. m.type = "TimeoutNow" => F(HandleTimeoutNow(a, m))
  <2>1. a.state # "Leader" => Ends(a, Campaign(a, FALSE, TRUE)) /\ Alone(Campaign(a, FALSE, TRUE))
    BY <1>1, CampaignCalm
  <2>2. Ends(a, a) /\ Stays(a, a)
    BY <1>1, StaysSelf DEF Stays
  <2> QED
    BY <2>1, <2>2 DEF HandleTimeoutNow
<1> HIDE DEF F, G
<1>12. m.type \in {"Vote", "VoteResp", "App", "AppResp", "Snap", "SnapResp", "TimeoutNow"}
  BY MessageOfType
<1>13. ASSUME m.term < n.term PROVE G(q)
  <2>1. q = StaleReply(n, m)
    BY <1>13, Zenon DEF Receive
  <2> QED
    BY <1>2, <2>1, Zenon
<1>14. ASSUME ~(m.term < n.term), StickyVote(n, m, fresh) PROVE G(q)
  <2>1. q = S
    BY <1>14, Zenon DEF Receive, S
  <2> QED
    BY <1>3, <2>1, Zenon
<1>15. ASSUME ~(m.term < n.term), ~StickyVote(n, m, fresh) PROVE G(q)
  <2>1. q = CASE m.type = "Vote"       -> HandleVote(a, m, fresh)
              [] m.type = "VoteResp"   -> HandleVoteResp(a, m)
              [] m.type = "App"        -> HandleApp(a, m)
              [] m.type = "AppResp"    -> HandleAppResp(a, m)
              [] m.type = "Snap"       -> HandleSnap(a, m)
              [] m.type = "SnapResp"   -> HandleSnapResp(a, m)
              [] m.type = "TimeoutNow" -> HandleTimeoutNow(a, m)
    BY <1>15, Zenon DEF Receive, a
  <2> HIDE DEF q
  <2>2. F(q)
    BY <2>1, <1>5, <1>6, <1>7, <1>8, <1>9, <1>10, <1>11, <1>12
  <2> QED
    BY <2>2, <1>4
<1>16. G(q)
  BY <1>13, <1>14, <1>15
<1> QED
  BY <1>16 DEF G

-----------------------------------------------------------------------------
(* Inputs *)

\* The second half of Stays, without the end of a transfer.
LeadsNoMore(n, q) ==
  /\ q \in Node
  /\ q.state = "Leader" =>
       /\ n.state = "Leader" /\ q.id = n.id /\ Config(q) \subseteq Config(n)
       /\ \A v \in Config(q) : q.prs[v].recentActive => n.prs[v].recentActive

LEMMA StaysLeadsNoMore ==
  ASSUME NEW n, NEW q, Stays(n, q)
  PROVE  LeadsNoMore(n, q)
BY DEF Stays, Ends, LeadsNoMore

LEMMA AddServerStays ==
  ASSUME NEW n \in Node, NEW s \in Server
  PROVE  Stays(n, AddServer(n, s))
<1> DEFINE p == NewProgress(LastIndex(n.log) + 1)
           r == [n.prs EXCEPT ![s] = p]
           b == [n EXCEPT !.learner = s, !.prs = r]
           d == SendAppends(b, {s})
<1>1. p \in Progress /\ s \in OptServer /\ ~p.recentActive
  BY NodeFields, IndexType, NewProgressType DEF OptServer, NewProgress
<1> HIDE DEF p
<1>2. /\ r \in [Server -> Progress]
      /\ \A v \in Server : r[v].recentActive => n.prs[v].recentActive
  BY <1>1, NodeFields
<1>3. [n EXCEPT !.learner = s, !.prs[s] = p] = b
  BY DEF Node
<1> HIDE DEF r
<1>4. b \in Node
  BY <1>1, <1>2 DEF Node
<1>5. /\ b.transferee = n.transferee /\ b.state = n.state /\ b.id = n.id
      /\ b.confHistory = n.confHistory /\ b.prs = r
  BY DEF Node
<1>6. AddServer(n, s) = n \/ AddServer(n, s) = d
  BY <1>3, Zenon DEF AddServer, p
<1> HIDE DEF b
<1>7. Config(b) = Config(n) /\ Config(b) \in SUBSET Server
  BY <1>4, <1>5, ReplicationTargetsType DEF Config
<1>8. Stays(n, b)
  BY <1>2, <1>4, <1>5, <1>7 DEF Stays, Ends
<1>9. Stays(b, d)
  BY <1>4, SendAppendsStays
<1> QED
  BY <1>6, <1>8, <1>9, StaysTwice, StaysSelf

LEMMA RemoveServerStays ==
  ASSUME NEW n \in Node, NEW s \in Server
  PROVE  Stays(n, RemoveServer(n, s))
<1> DEFINE data == Config(n) \ {s}
           a == AppendEntry(n, "Config", data)
           r == [a.prs EXCEPT ![s] = NoProgress]
           c == [a EXCEPT !.prs = r]
           b == IF s = n.id THEN a ELSE [a EXCEPT !.prs[s] = NoProgress]
           q == MaybeCommitThenBroadcast(b)
<1>1. data \in SUBSET Config(n)
  OBVIOUS
<1>2. RemoveServer(n, s) = n \/ RemoveServer(n, s) = q
  BY Zenon DEF RemoveServer
<1> HIDE DEF data
<1>3. Stays(n, a) /\ a \in Node
  BY <1>1, AppendEntryStays DEF Stays, Ends
<1> HIDE DEF a
<1>4. /\ r \in [Server -> Progress]
      /\ \A v \in Server : r[v].recentActive => a.prs[v].recentActive
  BY <1>3, NodeFields DEF Progress, NoProgress, NewProgress
<1>5. [a EXCEPT !.prs[s] = NoProgress] = c
  BY Zenon DEF Node
<1> HIDE DEF r
<1>6. /\ c \in Node /\ c.transferee = a.transferee /\ c.state = a.state /\ c.id = a.id
      /\ c.confHistory = a.confHistory /\ c.prs = r
  BY <1>3, <1>4 DEF Node
<1> HIDE DEF c
<1>7. Config(c) = Config(a) /\ Config(c) \in SUBSET Server
  BY <1>6, ReplicationTargetsType DEF Config
<1>8. Stays(a, c)
  BY <1>4, <1>6, <1>7 DEF Stays, Ends
<1>9. Stays(a, b) /\ b \in Node
  BY <1>3, <1>5, <1>6, <1>8, StaysSelf
<1> HIDE DEF b
<1>10. Stays(b, q)
  BY <1>9, MaybeCommitThenBroadcastStays
<1> QED
  BY <1>2, <1>3, <1>9, <1>10, StaysTwice, StaysSelf

\* A transfer begins: the lead and what is known of the others stay.
LEMMA TransferLeadsNoMore ==
  ASSUME NEW n \in Node, NEW target \in Server
  PROVE  LeadsNoMore(n, TransferLeadership(n, target))
<1> DEFINE t == [n EXCEPT !.transferee = target]
           q == TransferLeadership(n, target)
<1>1. q \in {n, SendTimeoutNow(t, target), SendAppends(t, {target})}
  BY Zenon DEF TransferLeadership
<1>2. /\ t \in Node /\ t.state = n.state /\ t.id = n.id
      /\ t.confHistory = n.confHistory /\ t.prs = n.prs
  BY DEF Node, OptServer
<1> HIDE DEF t, q
<1>3. Config(t) = Config(n)
  BY <1>2 DEF Config
<1>4. Stays(t, SendTimeoutNow(t, target)) /\ Stays(t, SendAppends(t, {target}))
  <2>1. SendTimeoutNow(t, target) \in Node
    BY <1>2, SendTimeoutNowQuiet DEF Quiet
  <2> QED
    BY <1>2, <2>1, SendStays, SendAppendsStays DEF SendTimeoutNow
<1>5. Stays(t, q) \/ q = n
  BY <1>1, <1>4
<1> QED
  BY <1>2, <1>3, <1>5, StaysSelf DEF Stays, Ends, LeadsNoMore, q

-----------------------------------------------------------------------------
(* Ticks of a leader *)

\* If q leads, n had a quorum, and q starts to wait for news anew.
NewPeriodBegins(n, q) ==
  q.state = "Leader" =>
    QuorumActive(n) /\ \A v \in Config(q) \ {q.id} : ~q.prs[v].recentActive

\* A transfer that is due ends; a leader that stays one when the period is
\* over has heard from another voter in it, and starts anew.
LEMMA TickLeaderStays ==
  ASSUME NEW n \in Node, NEW transferDue \in BOOLEAN, NEW quorumDue \in BOOLEAN,
         NEW heartbeatDue \in BOOLEAN
  PROVE  LET q == TickLeader(n, transferDue, quorumDue, heartbeatDue)
         IN  /\ Stays(n, q) /\ (transferDue => q.transferee = None)
             /\ quorumDue => NewPeriodBegins(n, q)
<1> DEFINE a == AfterTransferTick(n, transferDue)
           r == [s \in Server |->
                   IF s \in ReplicationTargets(a) /\ a.prs[s] # NoProgress
                   THEN NewPeriod(a.prs[s]) ELSE a.prs[s]]
           e == [a EXCEPT !.prs = r]
           b == IF quorumDue THEN e ELSE a
           f == BecomeFollower(a, a.term, None)
           q == TickLeader(n, transferDue, quorumDue, heartbeatDue)
<1>1. q = IF quorumDue /\ ~QuorumActive(a) THEN f
          ELSE IF heartbeatDue THEN BroadcastAppend(b) ELSE b
  BY Zenon DEF TickLeader
<1>2. /\ a \in Node /\ a.transferee \in {n.transferee, None}
      /\ (transferDue => a.transferee = None)
      /\ a.state = n.state /\ a.id = n.id /\ a.confHistory = n.confHistory
      /\ a.prs = n.prs
  BY DEF AfterTransferTick, Node, OptServer
<1> HIDE DEF a, q
<1>3. Config(a) = Config(n) /\ Config(n) \in SUBSET Server /\ Stays(n, a)
      /\ QuorumActive(a) = QuorumActive(n)
  BY <1>2, ReplicationTargetsType DEF Config, Stays, Ends, QuorumActive
<1>4. /\ r \in [Server -> Progress]
      /\ \A v \in Server : r[v].recentActive => a.prs[v].recentActive
      /\ \A v \in ReplicationTargets(a) : ~r[v].recentActive
  <2>1. /\ \A s \in Server : a.prs[s] \in Progress
        /\ ReplicationTargets(a) \in SUBSET Server
    BY <1>2, NodeFields, ReplicationTargetsType
  <2>2. ASSUME NEW s \in Server, a.prs[s] # NoProgress
        PROVE  NewPeriod(a.prs[s]) \in Progress /\ ~NewPeriod(a.prs[s]).recentActive
    <3>1. a.prs[s] \in [next : Nat \ {0}, match : Nat, recentActive : BOOLEAN,
                        pendingSnap : BOOLEAN]
      BY <2>1, <2>2 DEF Progress
    <3> QED
      BY <3>1 DEF NewPeriod, Progress
  <2>3. ~NoProgress.recentActive
    BY DEF NoProgress, NewProgress
  <2> QED
    BY <2>1, <2>2, <2>3
<1> HIDE DEF r
<1>5. /\ e \in Node /\ e.transferee = a.transferee /\ e.state = a.state /\ e.id = a.id
      /\ e.confHistory = a.confHistory /\ e.learner = a.learner /\ e.prs = r
  BY <1>2, <1>4 DEF Node
<1> HIDE DEF e
<1>6. Config(e) = Config(a) /\ Config(e) \ {e.id} \subseteq ReplicationTargets(a)
  BY <1>5 DEF Config, ReplicationTargets
<1>7. Stays(a, e) /\ \A v \in Config(e) \ {e.id} : ~e.prs[v].recentActive
  BY <1>3, <1>4, <1>5, <1>6 DEF Stays, Ends
<1>8. Stays(a, b) /\ b \in Node /\ (transferDue => b.transferee = None)
      /\ (quorumDue => b = e)
  BY <1>2, <1>5, <1>7, StaysSelf
<1> HIDE DEF b
<1>9. Stays(b, BroadcastAppend(b))
  BY <1>8, BroadcastStays
<1>10. Stays(a, f) /\ f.state = "Follower" /\ (transferDue => f.transferee = None)
  BY <1>2, BecomeFollowerStays, NodeFields DEF OptServer, Stays, Ends
<1> HIDE DEF f
<1>11. CASE quorumDue /\ ~QuorumActive(a)
  BY <1>1, <1>3, <1>10, <1>11, StaysTwice DEF q, NewPeriodBegins
<1>12. CASE ~(quorumDue /\ ~QuorumActive(a))
  <2>1. Stays(b, q)
    BY <1>1, <1>8, <1>9, <1>12, StaysSelf
  <2>2. Stays(n, q)
    BY <1>3, <1>8, <2>1, StaysTwice
  <2>3. transferDue => q.transferee = None
    BY <1>8, <2>1 DEF Stays, Ends
  <2>4. quorumDue /\ q.state = "Leader" =>
           \A v \in Config(q) \ {q.id} : ~q.prs[v].recentActive
    BY <1>7, <1>8, <2>1 DEF Stays
  <2> QED
    BY <1>3, <1>12, <2>2, <2>3, <2>4 DEF q, NewPeriodBegins
<1> QED
  BY <1>11, <1>12

\* Who has a quorum of two or more has heard from another voter.
LEMMA QuorumActiveHeard ==
  ASSUME NEW n \in Node, QuorumActive(n), Quorum(Config(n)) > 1
  PROVE  \E v \in Config(n) \ {n.id} : n.prs[v].recentActive
<1> SUFFICES ASSUME \A v \in Config(n) \ {n.id} : ~n.prs[v].recentActive
             PROVE  FALSE
  OBVIOUS
<1> DEFINE S == {v \in Config(n) : v = n.id \/ n.prs[v].recentActive}
<1>1. S \subseteq {n.id}
  OBVIOUS
<1>2. Cardinality(S) >= Quorum(Config(n))
  BY DEF QuorumActive
<1> HIDE DEF S
<1> QED
  BY <1>1, <1>2, OneIsNoQuorum, ReplicationTargetsType

-----------------------------------------------------------------------------
(* The output of a step *)

LEMMA SettledSame ==
  ASSUME NEW n \in Node
  PROVE  LET q == Settled(n)
         IN  /\ q \in Node /\ q.state = n.state /\ q.id = n.id /\ q.prs = n.prs
             /\ q.transferee = n.transferee /\ q.confHistory = n.confHistory
BY EmptySeq DEF Settled, Node

\* The output is handled, and a snapshot taken, behind the back of the lead.
LEMMA HandledSame ==
  ASSUME NEW n \in Node
  PROVE  LET q == Handled(n)
         IN  /\ q \in Node /\ q.state = n.state /\ q.id = n.id /\ q.prs = n.prs
             /\ q.transferee = n.transferee /\ Config(q) = Config(n)
<1> DEFINE s == Settled(n)
           data == UpTo(FullLog(s), s.lastApplied)
           c == CreateSnapshot(s, s.lastApplied, data)
<1>1. /\ s \in Node /\ s.state = n.state /\ s.id = n.id /\ s.prs = n.prs
      /\ s.transferee = n.transferee /\ s.confHistory = n.confHistory
  BY SettledSame
<1> HIDE DEF s
<1>2. FullLog(s) \in Seq(Entry)
  BY <1>1, NodeFields, LogFields, SnapshotFields, ConcatProperties DEF FullLog
<1>3. data \in Seq(Entry)
  BY <1>2, UpToType
<1> HIDE DEF data
<1>4. c \in Node
  BY <1>1, <1>3, NodeFields, CreateSnapshotQuiet DEF Quiet
<1>5. /\ c.state = s.state /\ c.id = s.id /\ c.prs = s.prs /\ c.transferee = s.transferee
      /\ \/ c.confHistory = s.confHistory
         \/ c.confHistory = PruneConfHistory(s.confHistory, s.lastApplied)
  BY <1>1 DEF CreateSnapshot, c, Node
<1> HIDE DEF c
<1>6. Config(c) = Config(n)
  BY <1>1, <1>5, NodeFields, PrunedConfig DEF Config
<1>7. /\ Settled(c) \in Node /\ Settled(c).state = c.state /\ Settled(c).id = c.id
      /\ Settled(c).prs = c.prs /\ Settled(c).transferee = c.transferee
      /\ Config(Settled(c)) = Config(c)
  BY <1>4, SettledSame DEF Config
<1>8. Handled(n) \in {s, Settled(c)}
  BY Zenon DEF Handled, s, c, data
<1> QED
  BY <1>1, <1>5, <1>6, <1>7, <1>8 DEF Config

-----------------------------------------------------------------------------
(* The invariant *)

\* A leader n of others with the counters c has ticked k times since it was
\* last answered or elected: all of them in this period, or at most one whole
\* period more, and then nobody has been active in this one.
Attended(n, c, k) ==
  n.state = "Leader" =>
    /\ c.quorum < ElectionTicks
    /\ Quorum(Config(n)) > 1 =>
         \/ k <= c.quorum
         \/ /\ k <= c.quorum + ElectionTicks
            /\ \A v \in Config(n) \ {n.id} : ~n.prs[v].recentActive

Timely(n, c, k) ==
  (n.transferee # None => c.transfer < ElectionTicks) /\ Attended(n, c, k)

TimelyInv == \A i \in Server : Timely(node[i], clock[i], silent[i])

LEMMA TicksOf ==
  /\ ElectionTicks \in Nat \ {0} /\ Limit \in Nat /\ Limit = ElectionTicks + ElectionTicks
  /\ Draws \in SUBSET Nat /\ Draws \subseteq 0 .. Limit
BY TimingAssumption DEF Limit, Draws

LEMMA ClockFields ==
  ASSUME NEW c \in Clock
  PROVE  /\ c.election \in 0 .. Limit /\ c.timeout \in Draws /\ c.heartbeat \in 0 .. Limit
         /\ c.quorum \in 0 .. Limit /\ c.transfer \in 0 .. Limit
BY DEF Clock

LEMMA Plus1Type ==
  ASSUME NEW k \in 0 .. Limit
  PROVE  Plus1(k) \in 0 .. Limit /\ Plus1(k) <= k + 1
         /\ (k < ElectionTicks => Plus1(k) = k + 1)
BY TicksOf DEF Plus1

LEMMA QuorumsOf ==
  ASSUME NEW n \in Node
  PROVE  Config(n) \in SUBSET Server /\ Quorum(Config(n)) \in Nat
BY ReplicationTargetsType, QuorumOf

\* What is said of a node survives the handling of its output.
LEMMA HandledTimely ==
  ASSUME NEW n \in Node, NEW c, NEW k, Timely(n, c, k)
  PROVE  Handled(n) \in Node /\ Timely(Handled(n), c, k)
BY HandledSame DEF Timely, Attended

\* A step that stays, or that ends with a lead over nobody else.
LEMMA CalmTimely ==
  ASSUME NEW n \in Node, NEW q \in Node, NEW c \in Clock, NEW d \in Clock,
         NEW k \in 0 .. Limit, Attended(n, c, k), LeadsNoMore(n, q) \/ Alone(q),
         d.quorum = IF Elected(n, q) THEN 0 ELSE c.quorum
  PROVE  Attended(q, d, k)
<1> SUFFICES ASSUME q.state = "Leader" PROVE Attended(q, d, k)
  BY DEF Attended
<1>1. d.quorum < ElectionTicks
  BY TicksOf DEF Elected, Attended
<1>2. CASE Alone(q)
  BY <1>1, <1>2, QuorumsOf DEF Alone, Attended
<1>3. CASE LeadsNoMore(n, q)
  <2>1. /\ n.state = "Leader" /\ q.id = n.id /\ Config(q) \subseteq Config(n)
        /\ \A v \in Config(q) : q.prs[v].recentActive => n.prs[v].recentActive
    BY <1>3 DEF LeadsNoMore
  <2>2. d.quorum = c.quorum
    BY <2>1 DEF Elected
  <2>3. Quorum(Config(q)) > 1 => Quorum(Config(n)) > 1
    BY <2>1, QuorumsOf, QuorumShrinks
  <2> QED
    BY <1>1, <2>1, <2>2, <2>3 DEF Attended
<1> QED
  BY <1>2, <1>3

\* An answer, or an election, starts the count again.
LEMMA AnsweredTimely ==
  ASSUME NEW n, NEW q, NEW c \in Clock, NEW d \in Clock, NEW k, Attended(n, c, k),
         d.quorum = IF Elected(n, q) THEN 0 ELSE c.quorum
  PROVE  Attended(q, d, 0)
<1> SUFFICES ASSUME q.state = "Leader" PROVE Attended(q, d, 0)
  BY DEF Attended
<1>1. d.quorum < ElectionTicks
  BY TicksOf DEF Elected, Attended
<1>2. 0 <= d.quorum
  BY ClockFields, TicksOf
<1> QED
  BY <1>1, <1>2 DEF Attended

\* What an action leaves behind that moves one server.
LEMMA OneMoves ==
  ASSUME TypeOK, TimelyInv, NEW i \in Server, NEW n \in Node, NEW c \in Clock,
         NEW k \in 0 .. Limit, Timely(n, c, k),
         node' = [node EXCEPT ![i] = n], clock' = [clock EXCEPT ![i] = c],
         silent' = [silent EXCEPT ![i] = k]
  PROVE  /\ node' \in [Server -> Node] /\ clock' \in [Server -> Clock]
         /\ silent' \in [Server -> 0 .. Limit] /\ TimelyInv'
<1>1. /\ node' \in [Server -> Node] /\ clock' \in [Server -> Clock]
      /\ silent' \in [Server -> 0 .. Limit]
  BY DEF TypeOK
<1>2. /\ node'[i] = n /\ clock'[i] = c /\ silent'[i] = k
      /\ \A j \in Server \ {i} :
           node'[j] = node[j] /\ clock'[j] = clock[j] /\ silent'[j] = silent[j]
  BY DEF TypeOK
<1>3. \A j \in Server : Timely(node'[j], clock'[j], silent'[j])
  BY <1>2 DEF TimelyInv
<1> QED
  BY <1>1, <1>3 DEF TimelyInv

\* Server i has moved from n to q, its counters being c at first.
Moved(i, n, q, c) ==
  /\ faults' \in [FaultKinds -> Nat]
  /\ node' = [node EXCEPT ![i] = Handled(q)]
  /\ \E d \in Clock : /\ clock' = [clock EXCEPT ![i] = d]
                      /\ d.transfer = c.transfer
                      /\ d.quorum = IF Elected(n, q) THEN 0 ELSE c.quorum

\* What a step leaves behind, whatever timeout it draws.
LEMMA StepToParts ==
  ASSUME TypeOK, NEW i \in Server, NEW n, NEW q, NEW c \in Clock,
         NEW restart, NEW redraw, NEW used \in [FaultKinds -> Nat],
         StepTo(i, n, q, c, restart, redraw, used)
  PROVE  Moved(i, n, q, c)
<1>1. PICK timeout \in Draws :
        /\ faults' \in {used, Used(used, "unlucky")}
        /\ node' = [node EXCEPT ![i] = Handled(q)]
        /\ clock' = [clock EXCEPT ![i] = CountersAfter(c, n, q, restart, timeout)]
  BY Zenon DEF StepTo
<1> DEFINE d == CountersAfter(c, n, q, restart, timeout)
<1>2. Used(used, "unlucky") \in [FaultKinds -> Nat]
  BY DEF Used, FaultKinds
<1>3. /\ d \in Clock /\ d.transfer = c.transfer
      /\ d.quorum = IF Elected(n, q) THEN 0 ELSE c.quorum
  <2> DEFINE e == IF restart \/ NewRole(n, q) THEN 0 ELSE c.election
             h == IF Elected(n, q) THEN 0 ELSE c.heartbeat
             k == IF Elected(n, q) THEN 0 ELSE c.quorum
  <2>1. d = [c EXCEPT !.election = e, !.timeout = timeout, !.heartbeat = h, !.quorum = k]
    BY Zenon DEF CountersAfter
  <2>2. e \in 0 .. Limit /\ h \in 0 .. Limit /\ k \in 0 .. Limit
    BY ClockFields, TicksOf
  <2> HIDE DEF d, e, h, k
  <2>3. d \in Clock /\ d.transfer = c.transfer /\ d.quorum = k
    BY <2>1, <2>2 DEF Clock
  <2> QED
    BY <2>3 DEF k
<1>4. clock' = [clock EXCEPT ![i] = d]
  BY <1>1
<1> HIDE DEF d
<1> QED
  BY <1>1, <1>2, <1>3, <1>4 DEF Moved

LEMMA SentType ==
  ASSUME NEW q \in Node
  PROVE  Sent(q) \in SUBSET Message
BY NodeFields DEF Sent

\* The types of what a step of one server does not touch.
TypesLeft == flight' \in SUBSET Message /\ ticked' \in SUBSET Server /\ cut' \in SUBSET Server

LEMMA TypesTogether ==
  ASSUME TypesLeft, faults' \in [FaultKinds -> Nat],
         node' \in [Server -> Node], clock' \in [Server -> Clock],
         silent' \in [Server -> 0 .. Limit]
  PROVE  TypeOK'
BY DEF TypesLeft, TypeOK

-----------------------------------------------------------------------------
(* Actions *)

LEMMA InitTimely ==
  ASSUME Init
  PROVE  TypeOK /\ TimelyInv
<1>1. \A i \in Server : RestartNode(i, NewDurable) \in Node
  BY NewDurableType, RestartType
<1>2. \A i \in Server : Timeouts[i] \in Draws
  BY TimingAssumption
<1>3. /\ node \in [Server -> Node]
      /\ \A i \in Server : node[i] = RestartNode(i, NewDurable)
  BY <1>1 DEF Init
<1>4. \A i \in Server : node[i].state = "Follower" /\ node[i].transferee = None
  BY <1>3 DEF RestartNode
<1>5. clock \in [Server -> Clock] /\ silent \in [Server -> 0 .. Limit]
  BY <1>2, TicksOf DEF Init, Clock
<1>6. TypeOK
  BY <1>3, <1>5 DEF Init, TypeOK
<1>7. TimelyInv
  BY <1>4 DEF TimelyInv, Timely, Attended
<1> QED
  BY <1>6, <1>7

LEMMA TickFollowerTimely ==
  ASSUME TypeOK, TimelyInv, NEW i \in Server, NEW used \in [FaultKinds -> Nat],
         TickFollower(i, used), silent' = [silent EXCEPT ![i] = IF node'[i].state = "Leader" THEN Plus1(@) ELSE 0],
         ticked' \in SUBSET Server, cut' = cut
  PROVE  TypeOK' /\ TimelyInv'
<1> DEFINE n == node[i]
           c == [clock[i] EXCEPT !.election = Plus1(@)]
           due == c.election >= c.timeout /\ n.term < MaxTerm
           q == IF due THEN Campaign(n, PreVote, FALSE) ELSE n
           started == due /\ i \in Config(n)
           k == IF node'[i].state = "Leader" THEN Plus1(silent[i]) ELSE 0
<1>1. /\ n \in Node /\ clock[i] \in Clock /\ silent[i] \in 0 .. Limit
      /\ Timely(n, clock[i], silent[i])
  BY DEF TypeOK, TimelyInv
<1>2. c \in Clock /\ c.quorum = clock[i].quorum /\ c.transfer = clock[i].transfer
      /\ k \in 0 .. Limit
  BY <1>1, Plus1Type, TicksOf DEF Clock
<1>3. n.state # "Leader" /\ StepTo(i, n, q, c, started, started, used)
      /\ flight' = flight \cup Sent(q)
  BY Zenon DEF TickFollower
<1>4. started \in BOOLEAN
  OBVIOUS
<1> HIDE DEF c, due, started, n, k
<1>5. Ends(n, q) /\ (Alone(q) \/ q = n)
  BY <1>1, <1>3, CampaignCalm, ParamsAssumption DEF Ends
<1> HIDE DEF q
<1>6. PICK d \in Clock :
        /\ faults' \in [FaultKinds -> Nat] /\ node' = [node EXCEPT ![i] = Handled(q)]
        /\ clock' = [clock EXCEPT ![i] = d] /\ d.transfer = c.transfer
        /\ d.quorum = IF Elected(n, q) THEN 0 ELSE c.quorum
  <2>1. Moved(i, n, q, c)
    BY <1>2, <1>3, StepToParts
  <2> QED
    BY <2>1 DEF Moved
<1>7. q \in Node /\ Attended(n, c, k)
  BY <1>3, <1>5 DEF Ends, Attended
<1>8. Attended(q, d, k)
  BY <1>1, <1>2, <1>5, <1>6, <1>7, CalmTimely, StaysLeadsNoMore, StaysSelf
<1>9. Timely(q, d, k)
  BY <1>1, <1>2, <1>5, <1>6, <1>8 DEF Timely, Ends
<1>10. Handled(q) \in Node /\ Timely(Handled(q), d, k)
  BY <1>7, <1>9, HandledTimely
<1>11. silent' = [silent EXCEPT ![i] = k]
  BY DEF k, TypeOK
<1>12. TypesLeft
  BY <1>3, <1>7, SentType DEF TypesLeft, TypeOK
<1> QED
  BY <1>2, <1>6, <1>10, <1>11, <1>12, OneMoves, TypesTogether

\* At the end of a period a leader that stays one has counted no more ticks
\* than the period has, and from then on it waits for news.
LEMMA TickLeaderTimely ==
  ASSUME TypeOK, TimelyInv, NEW i \in Server, NEW used \in [FaultKinds -> Nat],
         TickLeaderOf(i, used), silent' = [silent EXCEPT ![i] = IF node'[i].state = "Leader" THEN Plus1(@) ELSE 0],
         ticked' \in SUBSET Server, cut' = cut
  PROVE  TypeOK' /\ TimelyInv'
<1> DEFINE n == node[i]
           o == clock[i]
           c == [o EXCEPT !.heartbeat = Plus1(@), !.quorum = Plus1(@),
                          !.transfer = IF n.transferee = None THEN @ ELSE Plus1(@)]
           transferDue == n.transferee # None /\ c.transfer >= ElectionTicks
           quorumDue == c.quorum >= ElectionTicks
           heartbeatDue == c.heartbeat >= HeartbeatTicks
           q == TickLeader(n, transferDue, quorumDue, heartbeatDue)
           d == [c EXCEPT !.quorum = IF quorumDue THEN 0 ELSE @,
                          !.heartbeat = IF heartbeatDue /\ q.state = "Leader" THEN 0 ELSE @]
           k == IF node'[i].state = "Leader" THEN Plus1(silent[i]) ELSE 0
<1>1. /\ n \in Node /\ o \in Clock /\ silent[i] \in 0 .. Limit
      /\ Timely(n, o, silent[i])
  BY DEF TypeOK, TimelyInv
<1>2. n.state = "Leader" /\ StepTo(i, n, q, d, FALSE, NewRole(n, q), used)
      /\ flight' = flight \cup Sent(q)
  BY Zenon DEF TickLeaderOf
<1> HIDE DEF n, o
<1>3. /\ c \in Clock /\ c.quorum = Plus1(o.quorum)
      /\ c.transfer = IF n.transferee = None THEN o.transfer ELSE Plus1(o.transfer)
  BY <1>1, Plus1Type DEF Clock
<1> HIDE DEF c
<1>4. /\ transferDue \in BOOLEAN /\ quorumDue \in BOOLEAN /\ heartbeatDue \in BOOLEAN
      /\ (transferDue <=> (n.transferee # None /\ c.transfer >= ElectionTicks))
      /\ (quorumDue <=> c.quorum >= ElectionTicks)
  OBVIOUS
<1> HIDE DEF transferDue, quorumDue, heartbeatDue
<1>5. /\ Stays(n, q) /\ (transferDue => q.transferee = None)
      /\ quorumDue => NewPeriodBegins(n, q)
  BY <1>1, <1>4, TickLeaderStays
<1> HIDE DEF q
<1>6. /\ d \in Clock /\ d.quorum = (IF quorumDue THEN 0 ELSE c.quorum)
      /\ d.transfer = c.transfer
  <2> DEFINE h == IF heartbeatDue /\ q.state = "Leader" THEN 0 ELSE c.heartbeat
             p == IF quorumDue THEN 0 ELSE c.quorum
  <2>1. d = [c EXCEPT !.quorum = p, !.heartbeat = h]
    OBVIOUS
  <2>2. h \in 0 .. Limit /\ p \in 0 .. Limit
    BY <1>3, ClockFields, TicksOf
  <2> HIDE DEF d, h, p
  <2>3. d \in Clock /\ d.quorum = p /\ d.transfer = c.transfer
    BY <1>3, <2>1, <2>2 DEF Clock
  <2> QED
    BY <2>3 DEF p
<1>7. k \in 0 .. Limit /\ k <= silent[i] + 1 /\ k \in Nat
  BY <1>1, Plus1Type, TicksOf
<1> HIDE DEF d, k
<1>8. PICK e \in Clock :
        /\ faults' \in [FaultKinds -> Nat] /\ node' = [node EXCEPT ![i] = Handled(q)]
        /\ clock' = [clock EXCEPT ![i] = e] /\ e.transfer = d.transfer
        /\ e.quorum = IF Elected(n, q) THEN 0 ELSE d.quorum
  <2>1. Moved(i, n, q, d)
    BY <1>2, <1>6, StepToParts
  <2> QED
    BY <2>1 DEF Moved
<1>9. q \in Node /\ e.quorum = d.quorum
  BY <1>2, <1>5, <1>8 DEF Stays, Ends, Elected
<1>10. /\ o.quorum \in Nat /\ o.quorum < ElectionTicks /\ c.quorum = o.quorum + 1
       /\ silent[i] \in Nat /\ ElectionTicks \in Nat
  BY <1>1, <1>2, <1>3, ClockFields, Plus1Type, TicksOf DEF Timely, Attended
<1>11. Attended(q, e, k)
  <2> SUFFICES ASSUME q.state = "Leader" PROVE Attended(q, e, k)
    BY DEF Attended
  <2>1. /\ q.id = n.id /\ Config(q) \subseteq Config(n)
        /\ \A v \in Config(q) : q.prs[v].recentActive => n.prs[v].recentActive
    BY <1>5 DEF Stays
  <2>2. Quorum(Config(q)) > 1 => Quorum(Config(n)) > 1
    BY <1>1, <1>9, <2>1, QuorumsOf, QuorumShrinks
  <2>3. Quorum(Config(n)) > 1 =>
          \/ silent[i] <= o.quorum
          \/ /\ silent[i] <= o.quorum + ElectionTicks
             /\ \A v \in Config(n) \ {n.id} : ~n.prs[v].recentActive
    BY <1>1, <1>2 DEF Timely, Attended
  <2>4. CASE quorumDue
    <3>1. o.quorum + 1 = ElectionTicks /\ e.quorum = 0
      BY <1>4, <1>6, <1>9, <1>10, <2>4
    <3>2. Quorum(Config(n)) > 1 => silent[i] <= o.quorum
      BY <1>1, <1>5, <2>3, <2>4, QuorumActiveHeard DEF NewPeriodBegins
    <3>3. Quorum(Config(q)) > 1 => k <= e.quorum + ElectionTicks
      BY <1>7, <1>10, <2>2, <3>1, <3>2
    <3>4. \A v \in Config(q) \ {q.id} : ~q.prs[v].recentActive
      BY <1>5, <2>4 DEF NewPeriodBegins
    <3>5. e.quorum < ElectionTicks
      BY <3>1, TicksOf
    <3> QED
      BY <3>3, <3>4, <3>5 DEF Attended
  <2>5. CASE ~quorumDue
    <3>1. e.quorum = o.quorum + 1 /\ e.quorum < ElectionTicks
      BY <1>4, <1>6, <1>9, <1>10, <2>5
    <3>2. Quorum(Config(q)) > 1 =>
            \/ k <= e.quorum
            \/ /\ k <= e.quorum + ElectionTicks
               /\ \A v \in Config(n) \ {n.id} : ~n.prs[v].recentActive
      BY <1>7, <1>10, <2>2, <2>3, <3>1
    <3>3. \A v \in Config(q) \ {q.id} : q.prs[v].recentActive =>
            v \in Config(n) \ {n.id} /\ n.prs[v].recentActive
      BY <2>1
    <3> QED
      BY <3>1, <3>2, <3>3 DEF Attended
  <2> QED
    BY <2>4, <2>5
<1>12. q.transferee # None => e.transfer < ElectionTicks
  <2>1. q.transferee # None => n.transferee # None /\ ~transferDue
    BY <1>5 DEF Stays, Ends
  <2>2. c.transfer \in Nat
    BY <1>3, ClockFields, TicksOf
  <2> QED
    BY <1>4, <1>6, <1>8, <2>1, <2>2, TicksOf
<1>13. Handled(q) \in Node /\ Timely(Handled(q), e, k)
  BY <1>9, <1>11, <1>12, HandledTimely DEF Timely
<1>14. silent' = [silent EXCEPT ![i] = k]
  BY DEF k, TypeOK
<1>15. TypesLeft
  BY <1>2, <1>9, SentType DEF TypesLeft, TypeOK
<1> QED
  BY <1>7, <1>8, <1>13, <1>14, <1>15, OneMoves, TypesTogether

LEMMA TickTimely ==
  ASSUME TypeOK, TimelyInv, NEW i \in Server, Tick(i)
  PROVE  TypeOK' /\ TimelyInv'
<1> DEFINE used == IF flight = {} THEN faults ELSE Used(faults, "delayed")
<1>1. used \in [FaultKinds -> Nat]
  BY DEF TypeOK, Used, FaultKinds
<1>2. /\ TickFollower(i, used) \/ TickLeaderOf(i, used)
      /\ silent' = [silent EXCEPT ![i] = IF node'[i].state = "Leader" THEN Plus1(@) ELSE 0]
      /\ cut' = cut
      /\ ticked' = IF ticked \cup {i} = Server THEN {} ELSE ticked \cup {i}
  BY Zenon DEF Tick
<1>3. ticked' \in SUBSET Server
  BY <1>2 DEF TypeOK
<1> HIDE DEF used
<1> QED
  BY <1>1, <1>2, <1>3, TickFollowerTimely, TickLeaderTimely

LEMMA DeliverTimely ==
  ASSUME TypeOK, TimelyInv, NEW m \in flight, Deliver(m)
  PROVE  TypeOK' /\ TimelyInv'
<1> DEFINE i == m.to
           n == node[i]
           o == clock[i]
           fresh == o.election < ElectionTicks
           q == Receive(n, m, fresh)
           k == IF Answers(m) THEN 0 ELSE silent[i]
<1>1. m \in Message /\ i \in Server
  BY MessageEnds DEF TypeOK
<1>2. /\ n \in Node /\ o \in Clock /\ silent[i] \in 0 .. Limit /\ Timely(n, o, silent[i])
  BY <1>1 DEF TypeOK, TimelyInv
<1>3. /\ StepTo(i, n, q, o, Heard(n, m, q), NewRole(n, q), faults)
      /\ flight' = (flight \ {m}) \cup Sent(q)
      /\ silent' = [silent EXCEPT ![i] = IF Answers(m) THEN 0 ELSE @]
      /\ ticked' = ticked /\ cut' = cut
  BY Zenon DEF Deliver
<1>4. Ends(n, q) /\ (Answers(m) \/ Stays(n, q) \/ Alone(q))
  <2>1. fresh \in BOOLEAN
    OBVIOUS
  <2> HIDE DEF fresh
  <2> QED
    BY <1>1, <1>2, <2>1, ReceiveStays, Zenon
<1>5. k \in 0 .. Limit /\ silent' = [silent EXCEPT ![i] = k]
  BY <1>1, <1>2, <1>3, TicksOf DEF TypeOK
<1> HIDE DEF i, n, o, q
<1>6. PICK d \in Clock :
        /\ faults' \in [FaultKinds -> Nat] /\ node' = [node EXCEPT ![i] = Handled(q)]
        /\ clock' = [clock EXCEPT ![i] = d] /\ d.transfer = o.transfer
        /\ d.quorum = IF Elected(n, q) THEN 0 ELSE o.quorum
  <2>1. faults \in [FaultKinds -> Nat]
    BY DEF TypeOK
  <2>2. Moved(i, n, q, o)
    BY <1>1, <1>2, <1>3, <2>1, StepToParts
  <2> QED
    BY <2>2 DEF Moved
<1>7. q \in Node
  BY <1>4 DEF Ends
<1>8. Attended(q, d, k)
  <2>1. Attended(n, o, silent[i])
    BY <1>2 DEF Timely
  <2>2. CASE Answers(m)
    BY <1>2, <1>6, <2>1, <2>2, AnsweredTimely
  <2>3. CASE ~Answers(m)
    BY <1>2, <1>4, <1>6, <1>7, <2>1, <2>3, CalmTimely, StaysLeadsNoMore
  <2> QED
    BY <2>2, <2>3
<1> HIDE DEF k
<1>9. Handled(q) \in Node /\ Timely(Handled(q), d, k)
  BY <1>2, <1>4, <1>6, <1>7, <1>8, HandledTimely DEF Timely, Ends
<1>10. TypesLeft
  BY <1>3, <1>7, SentType DEF TypesLeft, TypeOK
<1> QED
  BY <1>1, <1>5, <1>6, <1>9, <1>10, OneMoves, TypesTogether

LEMMA InputTimely ==
  ASSUME TypeOK, TimelyInv, NEW i \in Server, NEW q, Input(i, q), LeadsNoMore(node[i], q),
         faults' \in [FaultKinds -> Nat]
  PROVE  TypeOK' /\ TimelyInv'
<1> DEFINE n == node[i]
           o == clock[i]
           d == [o EXCEPT !.transfer = IF q.transferee # None THEN 0 ELSE @]
<1>1. /\ n \in Node /\ o \in Clock /\ silent[i] \in 0 .. Limit /\ Timely(n, o, silent[i])
  BY DEF TypeOK, TimelyInv
<1>2. /\ node' = [node EXCEPT ![i] = Handled(q)]
      /\ clock' = [clock EXCEPT ![i].transfer = IF q.transferee # None THEN 0 ELSE @]
      /\ flight' = flight \cup Sent(q)
      /\ ticked' = ticked /\ cut' = cut /\ silent' = silent
  BY Zenon DEF Input
<1>3. q \in Node
  BY DEF LeadsNoMore
<1>4. clock' = [clock EXCEPT ![i] = d] /\ silent' = [silent EXCEPT ![i] = silent[i]]
  BY <1>2 DEF TypeOK
<1>5. d \in Clock /\ d.quorum = o.quorum /\ (q.transferee # None => d.transfer = 0)
  BY <1>1, TicksOf DEF Clock
<1> HIDE DEF d
<1>6. ~Elected(n, q)
  BY DEF LeadsNoMore, Elected
<1> HIDE DEF n, o
<1>7. Attended(q, d, silent[i])
  BY <1>1, <1>3, <1>5, <1>6, CalmTimely DEF Timely, n
<1>8. Handled(q) \in Node /\ Timely(Handled(q), d, silent[i])
  BY <1>3, <1>5, <1>7, TicksOf, HandledTimely DEF Timely
<1>9. TypesLeft
  BY <1>2, <1>3, SentType DEF TypesLeft, TypeOK
<1> QED
  BY <1>1, <1>2, <1>4, <1>5, <1>8, <1>9, OneMoves, TypesTogether

\* The invariant holds after every step.
LEMMA NextTimely ==
  ASSUME TypeOK, TimelyInv, [Next]_vars
  PROVE  TypeOK' /\ TimelyInv'
<1>1. \A i \in Server : node[i] \in Node
  BY DEF TypeOK
<1>2. faults \in [FaultKinds -> Nat]
  BY DEF TypeOK
<1>3. \A kind \in FaultKinds : Used(faults, kind) \in [FaultKinds -> Nat]
  BY <1>2 DEF Used
<1>4. ASSUME NEW i \in Server, Tick(i) PROVE TypeOK' /\ TimelyInv'
  BY <1>4, TickTimely
<1>5. ASSUME NEW m \in flight, Deliver(m) PROVE TypeOK' /\ TimelyInv'
  BY <1>5, DeliverTimely
<1>6. ASSUME NEW i \in Server, NEW v \in Value, ClientPropose(i, v)
      PROVE  TypeOK' /\ TimelyInv'
  <2>1. LeadsNoMore(node[i], Propose(node[i], v))
    BY <1>1, ProposeStays, StaysLeadsNoMore
  <2> QED
    BY <1>2, <1>6, <2>1, InputTimely DEF ClientPropose
<1>7. ASSUME NEW i \in Server, NEW s \in Joining, Join(i, s)
      PROVE  TypeOK' /\ TimelyInv'
  <2>1. LeadsNoMore(node[i], AddServer(node[i], s))
    BY <1>1, TimingAssumption, AddServerStays, StaysLeadsNoMore
  <2> QED
    BY <1>2, <1>7, <2>1, InputTimely DEF Join
<1>8. ASSUME NEW i \in Server, NEW s \in Leaving, Leave(i, s)
      PROVE  TypeOK' /\ TimelyInv'
  <2>1. LeadsNoMore(node[i], RemoveServer(node[i], s))
    BY <1>1, TimingAssumption, RemoveServerStays, StaysLeadsNoMore
  <2> QED
    BY <1>2, <1>8, <2>1, InputTimely DEF Leave
<1>9. ASSUME NEW i \in Server, NEW t \in TransferTargets, Transfer(i, t)
      PROVE  TypeOK' /\ TimelyInv'
  <2>1. LeadsNoMore(node[i], TransferLeadership(node[i], t))
    BY <1>1, TimingAssumption, TransferLeadsNoMore
  <2>2. faults' \in [FaultKinds -> Nat]
    BY <1>3, <1>9 DEF Transfer, FaultKinds
  <2> QED
    BY <1>9, <2>1, <2>2, InputTimely DEF Transfer
<1>10. ASSUME NEW m \in flight, Lose(m) PROVE TypeOK' /\ TimelyInv'
  BY <1>3, <1>10 DEF Lose, TypeOK, TimelyInv, FaultKinds
<1>11. ASSUME NEW group \in Groups, Partition(group) PROVE TypeOK' /\ TimelyInv'
  BY <1>3, <1>11, TimingAssumption DEF Partition, TypeOK, TimelyInv, FaultKinds
<1>12. ASSUME Heal PROVE TypeOK' /\ TimelyInv'
  BY <1>12 DEF Heal, TypeOK, TimelyInv
<1>13. ASSUME UNCHANGED vars PROVE TypeOK' /\ TimelyInv'
  BY <1>13 DEF vars, TypeOK, TimelyInv
<1> QED
  BY <1>4, <1>5, <1>6, <1>7, <1>8, <1>9, <1>10, <1>11, <1>12, <1>13 DEF Next

-----------------------------------------------------------------------------
(* Theorems *)

\* The state of the timed cluster is well formed, whatever the number of
\* servers, the timeouts and the faults: no counter passes the largest timeout
\* and nothing but messages is on its way.
THEOREM TimingTyped == Spec => []TypeOK
<1>1. Init => TypeOK /\ TimelyInv
  BY InitTimely
<1>2. TypeOK /\ TimelyInv /\ [Next]_vars => (TypeOK /\ TimelyInv)'
  BY NextTimely
<1> QED
  BY <1>1, <1>2, PTL DEF Spec

\* A transfer of the leadership holds proposals back for less than an election
\* timeout of the leader's own ticks, whatever becomes of its target (tickLeader).
THEOREM TransfersEnd == Spec => []ProposalsResume
<1>1. Init => TypeOK /\ TimelyInv
  BY InitTimely
<1>2. TypeOK /\ TimelyInv /\ [Next]_vars => (TypeOK /\ TimelyInv)'
  BY NextTimely
<1>3. TimelyInv => ProposalsResume
  BY DEF TimelyInv, Timely, ProposalsResume
<1> QED
  BY <1>1, <1>2, <1>3, PTL DEF Spec

\* A leader of others whom nobody answers steps down before two election
\* timeouts of its own ticks have passed: CheckQuorum looks once per timeout, and
\* what it cleared the time before shows who has answered since (tickLeader).
THEOREM LeadersAreAnswered == Spec => []IsolatedLeaderStepsDown
<1>1. Init => TypeOK /\ TimelyInv
  BY InitTimely
<1>2. TypeOK /\ TimelyInv /\ [Next]_vars => (TypeOK /\ TimelyInv)'
  BY NextTimely
<1>3. TypeOK /\ TimelyInv => IsolatedLeaderStepsDown
  <2> SUFFICES ASSUME TypeOK, TimelyInv, NEW i \in Server, node[i].state = "Leader",
                      Quorum(Config(node[i])) > 1
               PROVE  silent[i] < Limit
    BY DEF IsolatedLeaderStepsDown
  <2>1. /\ clock[i].quorum < ElectionTicks
        /\ silent[i] <= clock[i].quorum \/ silent[i] <= clock[i].quorum + ElectionTicks
    BY DEF TimelyInv, Timely, Attended
  <2>2. clock[i].quorum \in Nat /\ silent[i] \in Nat
    BY ClockFields, TicksOf DEF TypeOK
  <2> QED
    BY <2>1, <2>2, TicksOf
<1> QED
  BY <1>1, <1>2, <1>3, PTL DEF Spec
==============================================================================
