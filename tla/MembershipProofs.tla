--------------------------- MODULE MembershipProofs ---------------------------
(***************************************************************************)
(* What holds of the cluster while its configuration changes.              *)
(*                                                                         *)
(* First the leadership transfer, with membership changes or with          *)
(* snapshots: the log of a leader that hands over grows by the promotion   *)
(* of its learner alone.                                                   *)
(*                                                                         *)
(* Then the logs.  As the code begins a change before the leader has       *)
(* committed an entry of its own term, rival changes may elect two leaders *)
(* in a term.  What is said of the logs is therefore said of the           *)
(* executions in which no term has had two leaders so far; once broken     *)
(* the rule stays broken, because the record of leaders only grows.  As    *)
(* long as it holds, L gives each term the log of its leader: what stores, *)
(* nodes and messages hold is rooted in L, and of the configurations in a  *)
(* log of L all but the last were seen committed.                          *)
(*                                                                         *)
(* This half is about servers that take no snapshots: a leader that        *)
(* crashes at the fsync of a snapshot, in the event in which it won, is    *)
(* recorded nowhere.                                                       *)
(***************************************************************************)
EXTENDS SafetyProofs

-----------------------------------------------------------------------------
(* The log of a leader that hands over *)

\* q results from n by steps that leave the log and the configurations alone,
\* and, as long as q leads, the server that catches up and the transfer too.
Calm(n, q) ==
  /\ q \in Node
  /\ q.log = n.log /\ q.snapshot = n.snapshot /\ q.confHistory = n.confHistory
  /\ q.state = "Leader" => q.learner = n.learner /\ q.transferee = n.transferee

\* q has n's whole log.
SameWhole(n, q) == q.log = n.log /\ q.snapshot = n.snapshot

\* q has n's whole log and the promotion of n's learner after it.
Promoted(n, q) ==
  /\ n.learner # None /\ q.snapshot = n.snapshot
  /\ q.state = "Leader" => q.learner = None
  /\ \E e \in Entry : /\ e.type = "Config" /\ e.data = Config(n) \cup {n.learner}
                      /\ q.log = AppendLog(n.log, <<e>>)

\* What a step may do to the log of a leader that hands over and leads on.
Abstains(n, q) ==
  n.state = "Leader" /\ q.state = "Leader" /\ q.term = n.term /\ n.transferee # None
    => SameWhole(n, q) \/ Promoted(n, q)

LEMMA CalmTwice ==
  ASSUME NEW n, NEW p, NEW q, Calm(n, p), Calm(p, q), q.state = "Leader" => p.state = "Leader"
  PROVE  Calm(n, q)
BY DEF Calm

LEMMA CalmAbstains ==
  ASSUME NEW n, NEW q, Calm(n, q)
  PROVE  Abstains(n, q)
BY DEF Calm, Abstains, SameWhole

LEMMA SendAppendsCalm ==
  ASSUME NEW n \in Node, NEW targets \in SUBSET Server
  PROVE  Calm(n, SendAppends(n, targets)) /\ SendAppends(n, targets).state = n.state
<1> DEFINE o == n.out \cup UNION {AppsFor(n, to) : to \in targets}
           r == [s \in Server |->
                   IF s \in targets /\ NeedsSnapshot(n, s)
                   THEN [n.prs[s] EXCEPT !.pendingSnap = TRUE] ELSE n.prs[s]]
           x == n.panic \/ \E to \in targets : CannotSend(n, to)
           q == [n EXCEPT !.out = o, !.prs = r, !.panic = x]
<1>1. SendAppends(n, targets) = q
  BY Zenon DEF SendAppends
<1>2. q \in Node
  BY <1>1, SendAppendsQuiet DEF Quiet
<1> HIDE DEF o, r, x
<1>3. /\ q.log = n.log /\ q.snapshot = n.snapshot /\ q.confHistory = n.confHistory
      /\ q.learner = n.learner /\ q.transferee = n.transferee /\ q.state = n.state
  BY DEF Node
<1> QED
  BY <1>1, <1>2, <1>3 DEF Calm

LEMMA BroadcastCalm ==
  ASSUME NEW n \in Node
  PROVE  Calm(n, BroadcastAppend(n)) /\ BroadcastAppend(n).state = n.state
BY ReplicationTargetsType, SendAppendsCalm DEF BroadcastAppend

LEMMA ApplyCommittedCalm ==
  ASSUME NEW n \in Node
  PROVE  Calm(n, ApplyCommitted(n)) /\ ApplyCommitted(n).state = n.state
<1> DEFINE a == n.applied \o Slice(n.log, n.lastApplied + 1, n.commitIndex + 1, 0)
<1>1. ApplyCommitted(n) =
        IF n.commitIndex <= n.lastApplied THEN n
        ELSE [n EXCEPT !.applied = a, !.lastApplied = n.commitIndex]
  BY Zenon DEF ApplyCommitted
<1>2. ApplyCommitted(n) \in Node
  BY ApplyCommittedQuiet DEF Quiet
<1> HIDE DEF a
<1> QED
  BY <1>1, <1>2 DEF Node, Calm

\* A leader that steps down has its log all the same.
LEMMA BecomeFollowerCalm ==
  ASSUME NEW n \in Node, NEW term \in Nat, NEW leader \in OptServer
  PROVE  Calm(n, BecomeFollower(n, term, leader))
         /\ BecomeFollower(n, term, leader).state = "Follower"
<1>1. BecomeFollower(n, term, leader) \in Node
  BY BecomeFollowerFollows DEF Follows
<1> QED
  BY <1>1 DEF BecomeFollower, Calm, Node

LEMMA AfterCommitCalm ==
  ASSUME NEW n \in Node
  PROVE  Calm(n, AfterCommit(n)) /\ (AfterCommit(n).state = "Leader" => n.state = "Leader")
<1> DEFINE f == BecomeFollower(n, n.term, None)
<1>1. Calm(n, f) /\ f.state = "Follower"
  BY BecomeFollowerCalm, NodeFields DEF OptServer
<1>2. Calm(n, n)
  BY DEF Calm
<1>3. AfterCommit(n) = f \/ AfterCommit(n) = n
  BY DEF AfterCommit
<1> HIDE DEF f
<1> QED
  BY <1>1, <1>2, <1>3

LEMMA MaybeCommitCalm ==
  ASSUME NEW n \in Node
  PROVE  Calm(n, MaybeCommit(n)) /\ (MaybeCommit(n).state = "Leader" => n.state = "Leader")
<1> DEFINE k == QuorumMatch(n)
           b == [n EXCEPT !.commitIndex = k]
           a == ApplyCommitted(b)
           c == AfterCommit(a)
           g == BroadcastAppend(c)
           Go == n.state = "Leader" /\ k \in n.commitIndex + 1 .. LastIndex(n.log)
                   /\ CommittableAt(n, k)
<1>1. MaybeCommit(n) = IF Go THEN (IF c.state = "Leader" THEN g ELSE c) ELSE n
  BY Zenon DEF MaybeCommit
<1>2. Go => k \in Nat /\ n.state = "Leader"
  BY NodeFields, IndexType
<1>3. CASE Go
  <2>1. k \in Nat
    BY <1>2, <1>3
  <2> HIDE DEF k
  <2>2. Calm(n, b) /\ b.state = n.state /\ b \in Node
    BY <2>1 DEF Node, Calm
  <2> HIDE DEF b
  <2>3. Calm(b, a) /\ a.state = b.state /\ a \in Node
    BY <2>2, ApplyCommittedCalm DEF Calm
  <2> HIDE DEF a
  <2>4. Calm(a, c) /\ (c.state = "Leader" => a.state = "Leader") /\ c \in Node
    BY <2>3, AfterCommitCalm DEF Calm
  <2> HIDE DEF c
  <2>5. Calm(c, g) /\ g.state = c.state
    BY <2>4, BroadcastCalm
  <2> HIDE DEF g
  <2>6. Calm(n, c) /\ (c.state = "Leader" => n.state = "Leader")
    BY <2>2, <2>3, <2>4, CalmTwice
  <2>7. Calm(n, g) /\ (g.state = "Leader" => n.state = "Leader")
    BY <2>5, <2>6, CalmTwice
  <2>8. MaybeCommit(n) = g \/ MaybeCommit(n) = c
    BY <1>1, <1>3
  <2> QED
    BY <2>6, <2>7, <2>8
<1>4. CASE ~Go
  <2>1. MaybeCommit(n) = n
    BY <1>1, <1>4, Zenon
  <2>2. Calm(n, n)
    BY DEF Calm
  <2> QED
    BY <2>1, <2>2
<1> QED
  BY <1>3, <1>4

LEMMA MaybeCommitThenBroadcastCalm ==
  ASSUME NEW n \in Node
  PROVE  /\ Calm(n, MaybeCommitThenBroadcast(n))
         /\ MaybeCommitThenBroadcast(n).state = "Leader" => n.state = "Leader"
<1> DEFINE c == MaybeCommit(n)
           g == BroadcastAppend(c)
<1>1. Calm(n, c) /\ (c.state = "Leader" => n.state = "Leader") /\ c \in Node
  BY MaybeCommitCalm DEF Calm
<1>2. MaybeCommitThenBroadcast(n) = g \/ MaybeCommitThenBroadcast(n) = c
  BY DEF MaybeCommitThenBroadcast
<1> HIDE DEF c
<1>3. Calm(c, g) /\ g.state = c.state
  BY <1>1, BroadcastCalm
<1> HIDE DEF g
<1>4. Calm(n, g) /\ (g.state = "Leader" => n.state = "Leader")
  BY <1>1, <1>3, CalmTwice
<1> QED
  BY <1>1, <1>2, <1>4

LEMMA SendCalm ==
  ASSUME NEW n \in Node, NEW msgs \in SUBSET Message
  PROVE  Calm(n, Send(n, msgs)) /\ Send(n, msgs).state = n.state
BY DEF Send, Node, Calm

LEMMA SendTimeoutNowCalm ==
  ASSUME NEW n \in Node, NEW to \in Server
  PROVE  Calm(n, SendTimeoutNow(n, to)) /\ SendTimeoutNow(n, to).state = n.state
<1>1. SendTimeoutNow(n, to) \in Node
  BY SendTimeoutNowQuiet DEF Quiet
<1> QED
  BY <1>1 DEF SendTimeoutNow, Send, Node, Calm

LEMMA AckCalm ==
  ASSUME NEW n \in Node, NEW from \in Server, NEW match \in Nat
  PROVE  Calm(n, Ack(n, from, match)) /\ Ack(n, from, match).state = n.state
<1>1. Ack(n, from, match) \in Node
  BY AckQuiet DEF Quiet
<1> QED
  BY <1>1 DEF Ack, Node, Calm

\* The promotion of the learner is the entry that follows the log.
LEMMA PromotionAppends ==
  ASSUME NEW n \in Node, NEW data \in SUBSET Server
  PROVE  LET a == AppendEntry([n EXCEPT !.learner = None], "Config", data) IN
         /\ a \in Node /\ a.snapshot = n.snapshot /\ a.learner = None
         /\ \E e \in Entry : /\ e.type = "Config" /\ e.data = data
                             /\ a.log = AppendLog(n.log, <<e>>)
<1> DEFINE x == [n EXCEPT !.learner = None]
           e == [index |-> LastIndex(n.log) + 1, term |-> n.term, type |-> "Config",
                 data |-> data]
           fresh == {v \in data \ {x.id} : x.prs[v] = NoProgress}
           l == AppendLog(n.log, <<e>>)
           h == n.confHistory \cup ConfigRecords(<<e>>)
           r == [s \in Server |-> IF s \in fresh THEN NewProgress(e.index + 1)
                                  ELSE x.prs[s]]
           i == MarkAppended(x, e.index)
           q == [x EXCEPT !.log = l, !.appendedFrom = i, !.confHistory = h, !.prs = r]
           a == AppendEntry(x, "Config", data)
<1>1. x \in Node /\ x.log = n.log /\ x.term = n.term /\ x.confHistory = n.confHistory
      /\ x.snapshot = n.snapshot /\ x.learner = None
  BY DEF Node, OptServer
<1>2. e \in Entry /\ e.type = "Config" /\ e.data = data
  BY NodeFields, IndexType DEF Entry
<1> HIDE DEF x
<1>3. a \in Node
  BY <1>1, AppendEntryQuiet DEF Quiet
<1>4. a = q
  BY <1>1, Zenon DEF AppendEntry
<1> HIDE DEF a, e, fresh, h, r, i
<1>5. q.log = l /\ q.snapshot = x.snapshot /\ q.learner = x.learner
  BY <1>1 DEF Node
<1> QED
  BY <1>1, <1>2, <1>3, <1>4, <1>5 DEF a, x

LEMMA MaybePromoteLearnerAbstains ==
  ASSUME NEW n \in Node, NEW from \in Server
  PROVE  LET c == MaybePromoteLearner(n, from) IN
         c \in Node /\ (c = n \/ Promoted(n, c)) /\ (c.state = "Leader" => n.state = "Leader")
<1> DEFINE data == Config(n) \cup {from}
           a == AppendEntry([n EXCEPT !.learner = None], "Config", data)
           c == MaybeCommitThenBroadcast(a)
           p == MaybePromoteLearner(n, from)
<1>1. p \in Node
  BY MaybePromoteLearnerQuiet DEF Quiet
<1>2. p = n \/ (p = c /\ n.state = "Leader" /\ n.learner = from)
  BY Zenon DEF MaybePromoteLearner
<1>3. data \in SUBSET Server
  BY ReplicationTargetsType
<1>4. /\ a \in Node /\ a.snapshot = n.snapshot /\ a.learner = None
      /\ \E e \in Entry : /\ e.type = "Config" /\ e.data = data
                          /\ a.log = AppendLog(n.log, <<e>>)
  BY <1>3, PromotionAppends
<1> HIDE DEF a
<1>5. Calm(a, c)
  BY <1>4, MaybeCommitThenBroadcastCalm
<1> HIDE DEF c, p
<1>6. from # None
  BY ServerAssumption
<1>7. ASSUME p = c, n.learner = from PROVE Promoted(n, p)
  BY <1>4, <1>5, <1>6, <1>7 DEF Promoted, Calm
<1> QED
  BY <1>1, <1>2, <1>7 DEF p

\* Steps before and after a promotion that leave the log alone.
LEMMA PromotedBetween ==
  ASSUME NEW n, NEW b, NEW c, NEW d, Calm(n, b), b.state = "Leader", Calm(c, d),
         c = b \/ Promoted(b, c), d.state = "Leader" => c.state = "Leader"
  PROVE  SameWhole(n, d) \/ Promoted(n, d)
<1>1. CASE c = b
  BY <1>1 DEF Calm, SameWhole
<1>2. CASE Promoted(b, c)
  <2>1. Config(b) = Config(n) /\ b.log = n.log /\ b.snapshot = n.snapshot
        /\ b.learner = n.learner
    BY DEF Calm, Config
  <2>2. d.log = c.log /\ d.snapshot = c.snapshot /\ (d.state = "Leader" => d.learner = c.learner)
    BY DEF Calm
  <2> QED
    BY <1>2, <2>1, <2>2 DEF Promoted
<1> QED
  BY <1>1, <1>2

LEMMA AfterAckAbstains ==
  ASSUME NEW n \in Node, NEW from \in Server, NEW match \in Nat, NEW isApp \in BOOLEAN
  PROVE  Abstains(n, AfterAck(n, from, match, isApp))
<1> DEFINE k == Ack(n, from, match)
           a == MaybeCommit(k)
           b == IF isApp /\ a.transferee = from /\ CaughtUp(a, from)
                THEN SendTimeoutNow(a, from) ELSE a
           c == MaybePromoteLearner(b, from)
           d == SendAppends(c, {from})
           z == AfterAck(n, from, match, isApp)
<1>1. z = IF a.state # "Leader" THEN a
          ELSE IF c.prs[from].next <= LastIndex(c.log) THEN d ELSE c
  BY Zenon DEF AfterAck
<1> HIDE DEF z
<1>2. Calm(n, k) /\ k.state = n.state /\ k \in Node
  BY AckCalm DEF Calm
<1> HIDE DEF k
<1>3. Calm(k, a) /\ (a.state = "Leader" => k.state = "Leader") /\ a \in Node
  BY <1>2, MaybeCommitCalm DEF Calm
<1> HIDE DEF a
<1>4. Calm(a, b) /\ b.state = a.state /\ b \in Node
  <2>1. Calm(a, a)
    BY <1>3 DEF Calm
  <2> QED
    BY <1>3, <2>1, SendTimeoutNowCalm DEF Calm
<1> HIDE DEF b
<1>5. c \in Node /\ (c = b \/ Promoted(b, c)) /\ (c.state = "Leader" => b.state = "Leader")
  BY <1>4, MaybePromoteLearnerAbstains
<1> HIDE DEF c
<1>6. Calm(c, d) /\ d.state = c.state /\ Calm(c, c)
  <2>1. Calm(c, c)
    BY <1>5 DEF Calm
  <2> QED
    BY <1>5, <2>1, SendAppendsCalm
<1> HIDE DEF d
<1>7. Calm(n, a)
  BY <1>2, <1>3, CalmTwice
<1>8. Calm(n, b)
  BY <1>4, <1>7, CalmTwice
<1>9. CASE a.state # "Leader"
  BY <1>1, <1>9 DEF Abstains, z
<1>10. CASE a.state = "Leader"
  <2>1. SameWhole(n, c) \/ Promoted(n, c)
    BY <1>4, <1>5, <1>6, <1>8, <1>10, PromotedBetween
  <2>2. SameWhole(n, d) \/ Promoted(n, d)
    BY <1>4, <1>5, <1>6, <1>8, <1>10, PromotedBetween
  <2>3. z = c \/ z = d
    BY <1>1, <1>10
  <2> QED
    BY <2>1, <2>2, <2>3 DEF Abstains, z
<1> QED
  BY <1>9, <1>10

LEMMA HandleAppRespAbstains ==
  ASSUME NEW n \in Node, NEW m \in AppResp
  PROVE  Abstains(n, HandleAppResp(n, m))
<1> DEFINE k == NextAfterReject(n, m)
           b == [n EXCEPT !.prs[m.from].recentActive = TRUE, !.prs[m.from].next = k]
           d == SendAppends(b, {m.from})
           z == HandleAppResp(n, m)
<1>1. m.from \in Server /\ m.matchIndex \in Nat
  BY DEF AppResp
<1>2. z = n \/ z = AfterAck(n, m.from, m.matchIndex, TRUE) \/ z = d
  BY Zenon DEF HandleAppResp
<1> HIDE DEF z, k
<1>3. b.log = n.log /\ b.snapshot = n.snapshot
  BY DEF Node
<1> HIDE DEF b
<1>4. d.log = b.log /\ d.snapshot = b.snapshot
  BY DEF SendAppends, Node
<1> QED
  BY <1>1, <1>2, <1>3, <1>4, AfterAckAbstains DEF z, Abstains, SameWhole

LEMMA HandleSnapRespAbstains ==
  ASSUME NEW n \in Node, NEW m \in SnapResp
  PROVE  Abstains(n, HandleSnapResp(n, m))
<1>1. m.from \in Server /\ m.matchIndex \in Nat
  BY DEF SnapResp
<1>2. \/ HandleSnapResp(n, m) = n
      \/ HandleSnapResp(n, m) = AfterAck(n, m.from, m.matchIndex, FALSE)
  BY Zenon DEF HandleSnapResp
<1> QED
  BY <1>1, <1>2, AfterAckAbstains DEF Abstains, SameWhole

LEMMA HandleVoteSame ==
  ASSUME NEW n \in Node, NEW m \in VoteReq, NEW fresh \in BOOLEAN
  PROVE  SameWhole(n, HandleVote(n, m, fresh))
<1>1. SameWhole(n, HandlePreVote(n, m, fresh))
  <2> DEFINE g == /\ m.term > n.term
                  /\ LogUpToDate(n, m.lastLogIndex, m.lastLogTerm)
                  /\ ~Sticky(n, m, fresh)
             r == VoteReply(n, m, IF g THEN m.term ELSE n.term, TRUE, g)
  <2>1. HandlePreVote(n, m, fresh) = [n EXCEPT !.out = n.out \cup r]
    BY Zenon DEF HandlePreVote, Send
  <2> HIDE DEF r, g
  <2> QED
    BY <2>1 DEF SameWhole, Node
<1>2. SameWhole(n, HandleRealVote(n, m))
  <2> DEFINE g == CanVote(n, m) /\ LogUpToDate(n, m.lastLogIndex, m.lastLogTerm)
             r == VoteReply(n, m, n.term, FALSE, g)
             v == [n EXCEPT !.votedFor = m.from, !.hsDirty = TRUE]
  <2>1. HandleRealVote(n, m) = IF g THEN [v EXCEPT !.out = v.out \cup r]
                               ELSE [n EXCEPT !.out = n.out \cup r]
    BY Zenon DEF HandleRealVote, Send
  <2> HIDE DEF r, g
  <2> QED
    BY <2>1 DEF SameWhole, Node
<1> QED
  BY <1>1, <1>2, Zenon DEF HandleVote

\* A leader that takes in a snapshot does not lead on.
LEMMA HandleSnapFollower ==
  ASSUME NEW n \in Node, NEW m \in Snap
  PROVE  n.state = "Leader" => HandleSnap(n, m).state = "Follower"
<1> DEFINE f == FollowerOf(n, m)
           s == m.snapshot
           k == InstallKeepingSuffix(f, s)
           r == InstallReplacing(f, s)
           z == HandleSnap(n, m)
<1>1. z = SnapReply(f, m, f.commitIndex) \/ z = SnapReply(k, m, s.index)
        \/ z = SnapReply(r, m, s.index)
  BY Zenon DEF HandleSnap
<1> HIDE DEF z
<1>2. m.from \in OptServer /\ m.term \in Nat /\ s \in Snapshot
  BY DEF Snap, OptServer
<1>3. f \in Node /\ f.state = "Follower"
  <2>1. \/ FollowerOf(n, m) = [n EXCEPT !.leaderID = m.from] /\ n.state = "Follower"
        \/ FollowerOf(n, m) = BecomeFollower(n, m.term, m.from)
    BY DEF FollowerOf
  <2> QED
    BY <1>2, <2>1, BecomeFollowerCalm DEF Calm, Node
<1> HIDE DEF f
<1>4. k.state = "Follower"
  <2> DEFINE a == ApplyCommitted([f EXCEPT !.commitIndex = s.index])
             b == [f EXCEPT !.commitIndex = s.index]
  <2>1. b \in Node /\ b.state = "Follower"
    BY <1>2, <1>3, SnapshotFields DEF Node
  <2>2. a \in Node /\ a.state = "Follower"
    <3> HIDE DEF b
    <3>1. ApplyCommitted(b) \in Node /\ ApplyCommitted(b).state = "Follower"
      BY <2>1, ApplyCommittedCalm DEF Calm
    <3> QED
      BY <3>1 DEF b
  <2> HIDE DEF a
  <2>3. k = [a EXCEPT !.log = Compact(a.log, s.index, s.term), !.snapshot = s,
                      !.confHistory = PruneConfHistory(a.confHistory, s.index),
                      !.snapDirty = "keep"]
    BY Zenon DEF InstallKeepingSuffix, a
  <2> HIDE DEF k
  <2> QED
    BY <2>2, <2>3 DEF Node
<1>5. r.state = "Follower"
  BY <1>3 DEF InstallReplacing, Node
<1>6. ASSUME NEW x, NEW i PROVE SnapReply(x, m, i).state = x.state
  BY DEF SnapReply, Send
<1> HIDE DEF k, r
<1> QED
  BY <1>1, <1>3, <1>4, <1>5, <1>6 DEF z


LEMMA ReceiveAbstains ==
  ASSUME NEW n \in Node, NEW m \in Message, NEW fresh \in BOOLEAN
  PROVE  Abstains(n, Receive(n, m, fresh))
<1> DEFINE a == AtMessageTerm(n, m)
           q == Receive(n, m, fresh)
           S == Send(n, VoteReply(n, m, n.term, FALSE, FALSE))
           F(x) == n.state = "Leader" =>
                     IF a = n THEN Abstains(n, x) ELSE Follows(a, x)
<1>1. a \in Node /\ n.term \in Nat /\ m.term \in Nat
  BY AtMessageTermFollows, NodeFields, MessageEnds DEF Follows
<1>2. a = n \/ n.term < a.term
  <2> DEFINE leader == IF m.type \in {"App", "Snap"} THEN m.from ELSE None
  <2>1. leader \in OptServer
    BY MessageEnds DEF OptServer
  <2> HIDE DEF leader
  <2>2. a = n \/ (a = BecomeFollower(n, m.term, leader) /\ ~(m.term <= n.term))
    BY Zenon DEF AtMessageTerm, leader
  <2>3. m.term <= BecomeFollower(n, m.term, leader).term
    BY <1>1, <2>1, BecomeFollowerFollows
  <2>4. BecomeFollower(n, m.term, leader).term \in Nat
    BY <1>1, <2>1, BecomeFollowerCalm, NodeFields DEF Calm
  <2> HIDE DEF a
  <2> QED
    BY <1>1, <2>2, <2>3, <2>4
<1>3. ASSUME NEW x, F(x) PROVE Abstains(n, x)
  <2>1. CASE a = n
    BY <1>3, <2>1 DEF Abstains
  <2>2. CASE a # n
    <3>1. n.state = "Leader" => n.term < a.term /\ a.term <= x.term /\ a.term \in Nat /\ x.term \in Nat
      BY <1>1, <1>2, <1>3, <2>2, NodeFields DEF Follows
    <3>2. n.state = "Leader" => x.term # n.term
      BY <1>1, <3>1
    <3> QED
      BY <3>2 DEF Abstains
  <2> QED
    BY <2>1, <2>2
<1>4. Abstains(n, n)
  BY DEF Abstains, SameWhole
<1>5. m.type = "Vote" => F(HandleVote(a, m, fresh))
  BY <1>1, MessageOfType, HandleVoteFollows, HandleVoteSame DEF Abstains
<1>6. m.type = "VoteResp" => F(HandleVoteResp(a, m))
  <2>1. n.state = "Leader" => HandleVoteResp(n, m) = n
    BY DEF HandleVoteResp
  <2> QED
    BY <1>1, <1>4, <2>1, MessageOfType, HandleVoteRespFollows
<1>7. m.type = "App" => F(HandleApp(a, m))
  <2>1. n.state = "Leader" => HandleApp(n, m) = n
    BY DEF HandleApp
  <2> QED
    BY <1>1, <1>4, <2>1, MessageOfType, HandleAppFollows
<1>8. m.type = "AppResp" => F(HandleAppResp(a, m))
  BY <1>1, MessageOfType, HandleAppRespQuiet, QuietFollows, HandleAppRespAbstains
<1>9. m.type = "Snap" => F(HandleSnap(a, m))
  <2>1. m.type = "Snap" /\ n.state = "Leader" => Abstains(n, HandleSnap(n, m))
    BY MessageOfType, HandleSnapFollower DEF Abstains
  <2> QED
    BY <1>1, <2>1, MessageOfType, HandleSnapFollows
<1>10. m.type = "SnapResp" => F(HandleSnapResp(a, m))
  BY <1>1, MessageOfType, HandleSnapRespQuiet, QuietFollows, HandleSnapRespAbstains
<1>11. m.type = "TimeoutNow" => F(HandleTimeoutNow(a, m))
  <2>1. n.state = "Leader" => HandleTimeoutNow(n, m) = n
    BY DEF HandleTimeoutNow
  <2> QED
    BY <1>1, <1>4, <2>1, HandleTimeoutNowFollows
<1> HIDE DEF F, a
<1>12. CASE m.term < n.term
  <2>1. StaleReply(n, m).log = n.log /\ StaleReply(n, m).snapshot = n.snapshot
    BY DEF StaleReply, AppReply, Send
  <2>2. q = StaleReply(n, m)
    BY <1>12 DEF Receive
  <2> HIDE DEF q
  <2> QED
    BY <2>1, <2>2 DEF Abstains, SameWhole, q
<1>13. CASE ~(m.term < n.term) /\ StickyVote(n, m, fresh)
  <2>1. S.log = n.log /\ S.snapshot = n.snapshot
    BY DEF Send
  <2>2. q = S
    BY <1>13 DEF Receive
  <2> HIDE DEF q, S
  <2> QED
    BY <2>1, <2>2 DEF Abstains, SameWhole, q
<1>14. CASE ~(m.term < n.term) /\ ~StickyVote(n, m, fresh)
  <2>1. q = CASE m.type = "Vote"       -> HandleVote(a, m, fresh)
              [] m.type = "VoteResp"   -> HandleVoteResp(a, m)
              [] m.type = "App"        -> HandleApp(a, m)
              [] m.type = "AppResp"    -> HandleAppResp(a, m)
              [] m.type = "Snap"       -> HandleSnap(a, m)
              [] m.type = "SnapResp"   -> HandleSnapResp(a, m)
              [] m.type = "TimeoutNow" -> HandleTimeoutNow(a, m)
    BY <1>14, Zenon DEF Receive, a
  <2> HIDE DEF q
  <2>2. F(q)
    BY <2>1, <1>5, <1>6, <1>7, <1>8, <1>9, <1>10, <1>11, MessageOfType
  <2> QED
    BY <2>2, <1>3 DEF q
<1> QED
  BY <1>12, <1>13, <1>14

\* The inputs a client or an operator gives to a leader that hands over.
LEMMA InputsAbstain ==
  ASSUME NEW n \in Node
  PROVE  /\ \A v \in Value : Abstains(n, Propose(n, v))
         /\ \A s \in Server : Abstains(n, AddServer(n, s)) /\ Abstains(n, RemoveServer(n, s))
<1>1. ASSUME n.transferee # None, NEW v \in Value PROVE Propose(n, v) = n
  BY <1>1 DEF Propose
<1>2. ASSUME n.transferee # None, NEW s \in Server
      PROVE  AddServer(n, s) = n /\ RemoveServer(n, s) = n
  BY <1>2 DEF AddServer, RemoveServer, MayChangeConfig
<1> QED
  BY <1>1, <1>2 DEF Abstains, SameWhole

LEMMA TransferLeadershipAbstains ==
  ASSUME NEW n \in Node, NEW target \in Server
  PROVE  Abstains(n, TransferLeadership(n, target))
<1> DEFINE t == [n EXCEPT !.transferee = target]
           z == TransferLeadership(n, target)
<1>1. z = n \/ z = SendTimeoutNow(t, target) \/ z = SendAppends(t, {target})
  BY Zenon DEF TransferLeadership
<1>2. t \in Node /\ t.log = n.log /\ t.snapshot = n.snapshot
  BY DEF Node, OptServer
<1> HIDE DEF t, z
<1> QED
  BY <1>1, <1>2, SendTimeoutNowCalm, SendAppendsCalm DEF Abstains, SameWhole, Calm, z

LEMMA TickLeaderAbstains ==
  ASSUME NEW n \in Node, NEW t \in BOOLEAN, NEW u \in BOOLEAN, NEW b \in BOOLEAN
  PROVE  Abstains(n, TickLeader(n, t, u, b))
<1> DEFINE a == AfterTransferTick(n, t)
           r == [s \in Server |->
                   IF s \in ReplicationTargets(a) /\ a.prs[s] # NoProgress
                   THEN NewPeriod(a.prs[s]) ELSE a.prs[s]]
           p == IF u THEN [a EXCEPT !.prs = r] ELSE a
           f == BecomeFollower(a, a.term, None)
           g == BroadcastAppend(p)
           z == TickLeader(n, t, u, b)
<1>1. z = IF u /\ ~QuorumActive(a) THEN f ELSE IF b THEN g ELSE p
  BY Zenon DEF TickLeader
<1>2. a \in Node /\ a.log = n.log /\ a.snapshot = n.snapshot
  BY DEF AfterTransferTick, Node, OptServer
<1> HIDE DEF a, r
<1>3. p.log = a.log /\ p.snapshot = a.snapshot
  BY <1>2 DEF Node
<1>4. f.state = "Follower"
  BY <1>2, BecomeFollowerCalm, NodeFields DEF OptServer
<1> HIDE DEF p, f, z
<1>5. g.log = p.log /\ g.snapshot = p.snapshot
  BY DEF BroadcastAppend, SendAppends
<1> HIDE DEF g
<1> QED
  BY <1>1, <1>2, <1>3, <1>4, <1>5 DEF Abstains, SameWhole, z


-----------------------------------------------------------------------------
(* The output of such a step *)

\* What p, at the end of a step of n, may show of its log.
HandsOver(n, p) ==
  LET log == FullLog(n)  new == FullLog(p) IN
  /\ n.state = "Leader" /\ p.state = "Leader" /\ n.term = p.term
  /\ n.transferee # None /\ p.transferee = n.transferee
  /\ new # log
  => /\ n.learner # None /\ p.learner = None
     /\ Len(new) = Len(log) + 1
     /\ Last(new).type = "Config" /\ Last(new).data = Config(n) \cup {n.learner}

\* p is q as far as a transfer is concerned.
SameHand(q, p) ==
  /\ p.state = q.state /\ p.term = q.term /\ p.transferee = q.transferee
  /\ p.learner = q.learner /\ FullLog(p) = FullLog(q)

LEMMA SameHandTwice ==
  ASSUME NEW n, NEW p, NEW q, SameHand(n, p), SameHand(p, q)
  PROVE  SameHand(n, q)
BY DEF SameHand

LEMMA AbstainsHands ==
  ASSUME NEW n \in Node, NEW q \in Node, Abstains(n, q), NEW p, SameHand(q, p)
  PROVE  HandsOver(n, p)
<1> SUFFICES ASSUME n.state = "Leader", p.state = "Leader", n.term = p.term,
                    n.transferee # None, p.transferee = n.transferee,
                    FullLog(p) # FullLog(n)
             PROVE  /\ n.learner # None /\ p.learner = None
                    /\ Len(FullLog(p)) = Len(FullLog(n)) + 1
                    /\ Last(FullLog(p)).type = "Config"
                    /\ Last(FullLog(p)).data = Config(n) \cup {n.learner}
  BY DEF HandsOver
<1>1. q.state = "Leader" /\ q.term = n.term /\ FullLog(p) = FullLog(q) /\ p.learner = q.learner
  BY DEF SameHand
<1>2. ~SameWhole(n, q)
  BY <1>1 DEF SameWhole, FullLog
<1>3. Promoted(n, q)
  BY <1>1, <1>2 DEF Abstains
<1>4. PICK e \in Entry : /\ e.type = "Config" /\ e.data = Config(n) \cup {n.learner}
                         /\ q.log = AppendLog(n.log, <<e>>)
  BY <1>3 DEF Promoted
<1> DEFINE s == n.snapshot.data
           l == n.log.entries
           L == FullLog(n)
           M == FullLog(q)
<1>5. s \in Seq(Entry) /\ l \in Seq(Entry) /\ L = s \o l /\ L \in Seq(Entry)
  <2>1. s \in Seq(Entry) /\ l \in Seq(Entry)
    BY NodeFields, SnapshotFields, LogFields
  <2>2. L = s \o l
    BY DEF FullLog
  <2> HIDE DEF s, l, L
  <2> QED
    BY <2>1, <2>2, ConcatProperties
<1>6. q.log.entries = l \o <<e>>
  BY <1>4, NodeFields DEF AppendLog, Log
<1>7. M = s \o (l \o <<e>>)
  BY <1>3, <1>6 DEF FullLog, Promoted
<1> HIDE DEF s, l, L, M
<1>8. M = L \o <<e>>
  BY <1>5, <1>7, ConcatAssociative, <<e>> \in Seq(Entry)
<1>9. Len(M) = Len(L) + 1 /\ M[Len(L) + 1] = e
  BY <1>5, <1>8
<1>10. Last(M) = e
  BY <1>9 DEF Last
<1> QED
  BY <1>1, <1>3, <1>4, <1>9, <1>10 DEF L, M, Promoted

LEMMA SyncedHand ==
  ASSUME NEW n \in Node, NEW d
  PROVE  SameHand(n, Synced(n, d))
<1> DEFINE m == Settled(n)
           x == m.panic \/ Discontinuous(d, PersistOf(n))
           q == [m EXCEPT !.panic = x]
<1>1. /\ m \in Node /\ m.state = n.state /\ m.term = n.term /\ m.transferee = n.transferee
      /\ m.learner = n.learner /\ m.log = n.log /\ m.snapshot = n.snapshot
  BY EmptySeq DEF Settled, Node
<1>2. Synced(n, d) = q
  BY Zenon DEF Synced
<1> HIDE DEF m, x
<1>3. /\ q.state = m.state /\ q.term = m.term /\ q.transferee = m.transferee
      /\ q.learner = m.learner /\ q.log = m.log /\ q.snapshot = m.snapshot
  BY <1>1 DEF Node
<1> HIDE DEF q
<1> QED
  BY <1>1, <1>2, <1>3 DEF SameHand, FullLog

\* The snapshot of what the application has applied is the log it covers.
LEMMA SnapshotHand ==
  ASSUME SnapshotThreshold # 0,
         NEW d, NEW h, NEW R, NEW a, NEW n, Resting(d, h, R, a, n)
  PROVE  SameHand(n, CreateSnapshot(n, n.lastApplied, a))
<1> DEFINE index == n.lastApplied
           t == TermAt(n.log, index)
           c == PruneConfHistory(n.confHistory, index)
           s == [index |-> index, term |-> t,
                 config |-> ConfigAt(n.confHistory, index), data |-> a]
           x == n.panic \/ index > n.lastApplied \/ ~HasTerm(n.log, index)
           q == [n EXCEPT !.log = Compact(n.log, index, t), !.snapshot = s,
                          !.confHistory = c, !.snapDirty = "keep", !.panic = x]
<1>1. /\ Good(d, h, R, a, n) /\ n.appendedFrom = 0 /\ n.applied = <<>>
      /\ \A k \in 1 .. Len(a) : a[k] \in R
  BY DEF Resting
<1>2. /\ n \in Node /\ Shape(n) /\ Covers(n.snapshot) /\ n.lastApplied \in Nat
      /\ n.log.snapIndex \in Nat
  BY <1>1, GoodFacts, NodeFields, LogFields
<1>3. CreateSnapshot(n, index, a) = IF index <= n.log.snapIndex THEN n ELSE q
  BY Zenon DEF CreateSnapshot
<1>4. CASE index <= n.log.snapIndex
  BY <1>3, <1>4 DEF SameHand
<1>5. CASE ~(index <= n.log.snapIndex)
  <2>1. CreateSnapshot(n, index, a) = q
    BY <1>3, <1>5
  <2>2. Final(d, h, R, a, CreateSnapshot(n, index, a))
    BY <1>1, CreateSnapshotFinal
  <2>3. s.index = index /\ s.term = t /\ s.data = a
    OBVIOUS
  <2> HIDE DEF s, x, c, t
  <2>4. /\ q.log = Compact(n.log, index, t) /\ q.snapshot = s /\ q.state = n.state
        /\ q.term = n.term /\ q.transferee = n.transferee /\ q.learner = n.learner
    BY <1>2 DEF Node
  <2> HIDE DEF q
  <2>5. q \in Node /\ Covers(s) /\ s \in Snapshot
    BY <2>1, <2>2, <2>4, FinalFacts, NodeFields
  <2>6. Agree(s.data, FullLog(n), s.index)
    <3>1. Agree(a, FullLog(n), Len(a)) /\ Len(a) = n.commitIndex /\ n.lastApplied = n.commitIndex
      BY RestingApp
    <3> QED
      BY <2>3, <3>1
  <2>7. n.log.snapIndex < s.index
    BY <1>2, <1>5, <2>3
  <2>8. s.data \o Compact(n.log, s.index, s.term).entries = FullLog(n)
    BY <1>2, <2>5, <2>6, <2>7, CompactLog
  <2>9. FullLog(q) = FullLog(n)
    BY <2>3, <2>4, <2>8 DEF FullLog
  <2> QED
    BY <2>1, <2>4, <2>9 DEF SameHand
<1> QED
  BY <1>4, <1>5 DEF index


\* With fixed members, the node n at the end of a step is one that the history
\* has room for.
Accounted(h, i, n) ==
  ConfChanges = {} => Ended(durable[i], h, Vouchers, app[i], i, n)

Known(h) == ConfChanges = {} => ElectionInv /\ DurabilityInv /\ Tells(h)

\* A step of server i that its node ends as n.
Yields(h, i, n) ==
  HandleOutput(i, n) /\ n \in Node /\ Abstains(node[i], n) /\ Accounted(h, i, n)

Yielded(h) == \E i \in up : \E n : Yields(h, i, n)

LEMMA DeliverYields ==
  ASSUME VoteInv, NEW h, Known(h), NEW m \in net, Deliver(m)
  PROVE  Yielded(h)
<1>1. m \in Message /\ m.to \in up /\ m.to \in Server /\ node[m.to] \in Node
  BY DEF VoteInv, TypeOK, Deliver
<1>2. PICK fresh \in BOOLEAN :
        HandleOutput(m.to, Receive(node[m.to], m, fresh))
  BY DEF Deliver
<1> DEFINE i == m.to
           n == Receive(node[i], m, fresh)
<1>3. n \in Node /\ Abstains(node[i], n)
  BY <1>1, ReceiveFollows, ReceiveAbstains DEF Follows
<1>4. Accounted(h, i, n)
  <2> SUFFICES ASSUME ConfChanges = {} PROVE Ended(durable[i], h, Vouchers, app[i], i, n)
    BY DEF Accounted
  <2>1. Linked(m) /\ Sound(m) /\ Truthful(h, Vouchers, m) /\ Tells(h)
    BY DEF Known, DurabilityInv, ElectionInv, AllStatic, Tells
  <2>2. /\ node[i] \in Node /\ node[i].id = i
        /\ Good(durable[i], h, Vouchers, app[i], node[i])
        /\ node[i].appendedFrom = 0 /\ node[i].applied = <<>>
    BY <1>1, <2>1, UpRests
  <2> QED
    BY <1>1, <2>1, <2>2, ReceiveEnds
<1>5. HandleOutput(i, n) /\ i \in up
  BY <1>1, <1>2
<1> HIDE DEF n, i
<1> QED
  BY <1>3, <1>4, <1>5 DEF Yielded, Yields

\* Every event is a crash, a restart, or a step of a node that abstains.
LEMMA EventYields ==
  ASSUME VoteInv, NEW h, Known(h), Next
  PROVE  (\E i \in Server : Crash(i) \/ Restart(i)) \/ Yielded(h)
<1>0. ASSUME NEW i \in up
      PROVE  /\ i \in Server /\ node[i] \in Node
             /\ ConfChanges = {} => /\ node[i].id = i
                                    /\ Good(durable[i], h, Vouchers, app[i], node[i])
  <2>1. i \in Server /\ node[i] \in Node
    BY DEF VoteInv, TypeOK
  <2>2. ASSUME ConfChanges = {}
        PROVE  node[i].id = i /\ Good(durable[i], h, Vouchers, app[i], node[i])
    <3>1. Tells(h)
      BY <2>2 DEF Known
    <3> QED
      BY <3>1, UpRests
  <2> QED
    BY <2>1, <2>2
<1>1. ASSUME NEW i \in Server, ElectionTimeout(i) PROVE Yielded(h)
  <2> DEFINE n == Campaign(node[i], PreVote, FALSE)
  <2>1. i \in up /\ HandleOutput(i, n) /\ node[i].state # "Leader"
    BY <1>1 DEF ElectionTimeout
  <2>2. PreVote \in BOOLEAN /\ FALSE \in BOOLEAN
    BY ParamsAssumption
  <2>3. n \in Node
    BY <1>0, <2>1, <2>2, CampaignFollows DEF Follows
  <2>4. ASSUME ConfChanges = {} PROVE Moved(durable[i], h, Vouchers, app[i], i, n)
    <3>1. node[i].id = i /\ Good(durable[i], h, Vouchers, app[i], node[i])
      BY <1>0, <2>1, <2>4
    <3> QED
      BY <2>2, <3>1, CampaignMoves
  <2> HIDE DEF n
  <2>5. Abstains(node[i], n)
    BY <2>1 DEF Abstains
  <2> QED
    BY <2>1, <2>3, <2>4, <2>5, MovedEnds DEF Yielded, Yields, Accounted
<1>2. ASSUME NEW i \in Server, NEW due \in SUBSET LeaderTicks, LeaderTick(i, due)
      PROVE  Yielded(h)
  <2> DEFINE t == "transfer" \in due
             u == "quorum" \in due
             b == "heartbeat" \in due
             n == TickLeader(node[i], t, u, b)
  <2>0. t \in BOOLEAN /\ u \in BOOLEAN /\ b \in BOOLEAN
    OBVIOUS
  <2>1. i \in up /\ HandleOutput(i, n) /\ node[i].state = "Leader"
    BY <1>2 DEF LeaderTick
  <2> HIDE DEF t, u, b
  <2>2. n \in Node /\ Abstains(node[i], n)
    BY <1>0, <2>0, <2>1, TickLeaderQuiet, TickLeaderAbstains DEF Quiet
  <2>3. ConfChanges = {} => Good(durable[i], h, Vouchers, app[i], n)
    BY <1>0, <2>0, <2>1, TickLeaderGood
  <2> HIDE DEF n
  <2> QED
    BY <2>1, <2>2, <2>3, GoodMoved, MovedEnds DEF Yielded, Yields, Accounted
<1>3. ASSUME NEW i \in Server, NEW v \in Value, ClientPropose(i, v) PROVE Yielded(h)
  <2> DEFINE n == Propose(node[i], v)
  <2>1. i \in up /\ HandleOutput(i, n)
    BY <1>3 DEF ClientPropose
  <2>2. n \in Node /\ Abstains(node[i], n)
    BY <1>0, <2>1, ProposeQuiet, InputsAbstain DEF Quiet
  <2>3. ConfChanges = {} => Moved(durable[i], h, Vouchers, app[i], i, n)
    BY <1>0, <2>1, ProposeMoves
  <2> HIDE DEF n
  <2> QED
    BY <2>1, <2>2, <2>3, MovedEnds DEF Yielded, Yields, Accounted
<1>4. ASSUME NEW i \in Server, NEW t \in TransferTargets, Transfer(i, t) PROVE Yielded(h)
  <2> DEFINE n == TransferLeadership(node[i], t)
  <2>1. i \in up /\ HandleOutput(i, n) /\ t \in Server
    BY <1>4, ClusterAssumption DEF Transfer
  <2>2. n \in Node /\ Abstains(node[i], n)
    BY <1>0, <2>1, TransferLeadershipQuiet, TransferLeadershipAbstains DEF Quiet
  <2>3. ConfChanges = {} => Good(durable[i], h, Vouchers, app[i], n)
    BY <1>0, <2>1, TransferLeadershipGood
  <2> HIDE DEF n
  <2> QED
    BY <2>1, <2>2, <2>3, GoodMoved, MovedEnds DEF Yielded, Yields, Accounted
<1>5. ASSUME NEW c \in ConfChanges, ProposeConfChange(c) PROVE Yielded(h)
  <2> DEFINE i == c.at
             n == IF c.type = "AddServer" THEN AddServer(node[i], c.id)
                  ELSE RemoveServer(node[i], c.id)
  <2>1. i \in up /\ HandleOutput(i, n)
    BY <1>5, Zenon DEF ProposeConfChange
  <2>2. c.id \in Server
    BY ClusterAssumption DEF ConfChange
  <2>3. n \in Node /\ Abstains(node[i], n)
    BY <1>0, <2>1, <2>2, AddServerQuiet, RemoveServerQuiet, InputsAbstain DEF Quiet
  <2> HIDE DEF n, i
  <2>4. ConfChanges # {}
    BY <1>5
  <2> QED
    BY <2>1, <2>3, <2>4 DEF Yielded, Yields, Accounted
<1>6. ASSUME NEW m \in net, Deliver(m) PROVE Yielded(h)
  BY <1>6, DeliverYields
<1>7. \/ \E i \in Server : ElectionTimeout(i) \/ Crash(i) \/ Restart(i)
      \/ \E i \in Server, due \in SUBSET LeaderTicks : LeaderTick(i, due)
      \/ \E i \in Server, v \in Value : ClientPropose(i, v)
      \/ \E i \in Server, t \in TransferTargets : Transfer(i, t)
      \/ \E c \in ConfChanges : ProposeConfChange(c)
      \/ \E m \in net : Deliver(m)
  BY DEF Next, ReceiveVote, ReceiveVoteResp, ReceiveApp, ReceiveAppResp, ReceiveSnap,
         ReceiveSnapResp, ReceiveTimeoutNow
<1> QED
  BY <1>1, <1>2, <1>3, <1>4, <1>5, <1>6, <1>7

\* The node that a finished step leaves behind.
LEMMA YieldedHand ==
  ASSUME SnapshotThreshold = 0 \/ ConfChanges = {}, VoteInv, NEW h, Known(h),
         NEW i \in up, NEW n, Yields(h, i, n), i \in up'
  PROVE  SameHand(n, node'[i]) /\ \A j \in Server : j # i => node'[j] = node[j]
<1> DEFINE o == durable[i]
           d == ApplyPersist(o, PersistOf(n))
           m == Synced(n, o)
           a == AppAfter(app[i], n)
           s == CreateSnapshot(m, m.lastApplied, a)
           q == Synced(s, d)
<1>1. /\ i \in Server /\ n \in Node /\ HandleOutput(i, n) /\ node \in [Server -> Node]
      /\ a \in Seq(Entry)
  BY AppAfterType DEF VoteInv, TypeOK, Yields
<1>2. m \in Node /\ SameHand(n, m)
  BY <1>1, SyncedType, SyncedHand
<1>3. SnapshotDue(n) => SnapshotThreshold # 0 /\ ConfChanges = {}
  BY DEF SnapshotDue
<1>4. ASSUME SnapshotDue(n) PROVE SameHand(n, q)
  <2>1. ElectionInv /\ DurabilityInv /\ Tells(h) /\ SnapshotThreshold # 0
    BY <1>3, <1>4 DEF Known
  <2>2. PICK g : Final(o, g, Vouchers, app[i], n)
    BY <1>3, <1>4 DEF Yields, Accounted, Ended
  <2> DEFINE R == Vouchers
             T == R \cup CommittedEntries(n)
             b == app[i]
  <2>3. R \subseteq T /\ CommittedEntries(n) \subseteq T
    OBVIOUS
  <2>4. StoredByIndex(o)
    BY <1>1, <2>1 DEF DurabilityInv, GoodStore
  <2>5. d = ApplyPersist(o, PersistOf(n)) /\ m = Synced(n, o) /\ a = AppAfter(b, n)
        /\ Final(o, g, R, b, n)
    BY <2>2
  <2> HIDE DEF o, d, m, a, R, T, b
  <2>6. \A k \in 1 .. Len(a) : a[k] \in T
    BY <2>3, <2>5, AppliedSeen
  <2>7. Resting(d, g, T, a, m)
    BY <2>3, <2>4, <2>5, <2>6, SyncedRests
  <2>8. SameHand(m, s)
    BY <2>1, <2>7, SnapshotHand
  <2>9. s \in Node
    BY <2>1, <2>7, CreateSnapshotFinal, FinalFacts DEF Resting
  <2> HIDE DEF s
  <2>10. SameHand(s, q)
    BY <2>9, SyncedHand
  <2> QED
    BY <1>2, <2>8, <2>10, SameHandTwice
<1> HIDE DEF m, q
<1>5. ~FsyncCrash(i, n) /\ ~CrashServer(i)
  BY <1>1 DEF FsyncCrash, CrashServer
<1>6. \/ node' = [node EXCEPT ![i] = m]
      \/ SnapshotDue(n) /\ node' = [node EXCEPT ![i] = q]
  BY <1>1, <1>5, Zenon DEF HandleOutput, Complete, m, q, s, d, a, o
<1>7. node'[i] = m \/ (SnapshotDue(n) /\ node'[i] = q)
  BY <1>1, <1>6
<1>8. \A j \in Server : j # i => node'[j] = node[j]
  BY <1>1, <1>6
<1> QED
  BY <1>2, <1>4, <1>7, <1>8

LEMMA HandsOverSelf ==
  ASSUME NEW n
  PROVE  HandsOver(n, n)
BY DEF HandsOver

LEMMA NextHandsOver ==
  ASSUME SnapshotThreshold = 0 \/ ConfChanges = {}, VoteInv,
         ConfChanges = {} => SafetyInv, Next
  PROVE  \A j \in up \cap up' : HandsOver(node[j], node'[j])
<1>0. PICK h : Known(h)
  BY DEF Known, SafetyInv, Told
<1>00. node \in [Server -> Node] /\ up \in SUBSET Server
  BY DEF VoteInv, TypeOK
<1> SUFFICES ASSUME NEW j \in up \cap up' PROVE HandsOver(node[j], node'[j])
  OBVIOUS
<1>1. j \in Server /\ node[j] \in Node
  BY <1>00
<1>2. ASSUME NEW i \in Server, Crash(i) PROVE node'[j] = node[j]
  <2>1. j # i /\ node' = [node EXCEPT ![i] = Wiped(i)]
    BY <1>2 DEF Crash, CrashServer
  <2> QED
    BY <1>00, <1>1, <2>1
<1>3. ASSUME NEW i \in Server, Restart(i) PROVE node'[j] = node[j]
  <2>1. j # i /\ node' = [node EXCEPT ![i] = RestartNode(i, durable[i])]
    BY <1>3 DEF Restart
  <2> QED
    BY <1>00, <1>1, <2>1
<1>4. ASSUME NEW i \in up, NEW n, Yields(h, i, n) PROVE HandsOver(node[j], node'[j])
  <2>1. CASE i = j
    <3>1. SameHand(n, node'[j])
      BY <1>0, <1>4, <2>1, YieldedHand
    <3> QED
      BY <1>1, <1>4, <2>1, <3>1, AbstainsHands DEF Yields
  <2>2. CASE i # j
    <3>1. CASE i \in up'
      BY <1>0, <1>1, <1>4, <2>2, <3>1, YieldedHand, HandsOverSelf
    <3>2. CASE i \notin up'
      <4>1. \/ node' = [node EXCEPT ![i] = Wiped(i)]
            \/ up' = up
        BY <1>4, Zenon DEF Yields, HandleOutput, Complete, FsyncCrash, CrashServer
      <4>2. node'[j] = node[j]
        BY <1>00, <1>1, <2>2, <3>2, <4>1
      <4> QED
        BY <4>2, HandsOverSelf
    <3> QED
      BY <3>1, <3>2
  <2> QED
    BY <2>1, <2>2
<1>5. (\E i \in Server : Crash(i) \/ Restart(i)) \/ Yielded(h)
  BY <1>0, EventYields
<1> QED
  BY <1>2, <1>3, <1>4, <1>5, HandsOverSelf DEF Yielded

\* While a leader hands over, its log grows by nothing but the promotion of the
\* server that was catching up: no client command and no membership change gets
\* between the target and the log it must have, whatever the faults, membership
\* changes and ticks.  That a snapshot does not change the log it compacts rests on
\* the application that it takes in, hence on the safety of the cluster, which is
\* proved with fixed members; without snapshots nothing is compacted.
THEOREM TransferPromotesOnly ==
  ASSUME SnapshotThreshold = 0 \/ ConfChanges = {}
  PROVE  Spec => OnlyPromotionDuringTransfer
<1> DEFINE A == \A j \in up \cap up' : HandsOver(node[j], node'[j])
<1>1. VoteInv /\ (ConfChanges = {} => SafetyInv) /\ [Next]_vars => [A]_vars
  BY NextHandsOver
<1>2. Spec => [](ConfChanges = {} => SafetyInv)
  <2>1. CASE ConfChanges = {}
    BY <2>1, SafetyInvariant, PTL
  <2>2. CASE ConfChanges # {}
    <3>1. ConfChanges = {} => SafetyInv
      BY <2>2
    <3> QED
      BY <3>1, PTL
  <2> QED
    BY <2>1, <2>2
<1>3. Spec => [][A]_vars
  BY <1>1, <1>2, VoteInvariant, PTL DEF Spec
<1>4. A <=> \A i \in up \cap up' :
              LET n == node[i]  log == FullLog(n)  new == FullLog(node'[i]) IN
              /\ n.state = "Leader" /\ node'[i].state = "Leader" /\ n.term = node'[i].term
              /\ n.transferee # None /\ node'[i].transferee = n.transferee
              /\ new # log
              => /\ n.learner # None /\ node'[i].learner = None
                 /\ Len(new) = Len(log) + 1
                 /\ Last(new).type = "Config" /\ Last(new).data = Config(n) \cup {n.learner}
  BY Zenon DEF HandsOver
<1> QED
  BY <1>3, <1>4, PTL DEF OnlyPromotionDuringTransfer

-----------------------------------------------------------------------------
(* The logs of leaders *)

\* Every entry of a, and all before it, are those of its term's leader, whose
\* log got as far as L says.
RootedIn(L, a) == \A k \in 1 .. Len(a) : Agree(a, L[a[k].term], k)

\* Of the configuration entries of a, all but the last are in V.
AllButLast(V, a) ==
  \A j, k \in 1 .. Len(a) :
    j < k /\ a[j].type = "Config" /\ a[k].type = "Config" => a[j] \in V

\* The logs of leaders grow out of those of earlier ones, and a configuration
\* is changed only when the one before has been seen committed.
LedSound(L, V) ==
  /\ L \in [Nat -> Seq(Entry)]
  /\ \A t \in Nat : RootedIn(L, L[t]) /\ AtMost(L[t], t) /\ AllButLast(V, L[t])

\* The logs in M continue those in L.
Continue(L, M) == \A t \in Nat : Agree(L[t], M[t], Len(L[t]))

LEMMA RootedContinued ==
  ASSUME NEW L \in [Nat -> Seq(Entry)], NEW M \in [Nat -> Seq(Entry)], Continue(L, M),
         NEW a \in Seq(Entry), RootedIn(L, a)
  PROVE  RootedIn(M, a)
<1> SUFFICES ASSUME NEW k \in 1 .. Len(a)
             PROVE  Agree(a, M[a[k].term], k)
  BY DEF RootedIn
<1>1. a[k].term \in Nat
  BY EntryFields, LenProperties
<1> DEFINE b == L[a[k].term]
           c == M[a[k].term]
<1>2. /\ Agree(a, b, k) /\ Agree(b, c, Len(b))
      /\ Len(a) \in Nat /\ Len(b) \in Nat /\ Len(c) \in Nat
  BY <1>1, LenProperties DEF RootedIn, Continue
<1> HIDE DEF b, c
<1>3. k <= Len(b) /\ k \in Nat /\ k <= Len(c)
  BY <1>2 DEF Agree
<1>4. \A j \in 1 .. k : j \in 1 .. Len(b)
  BY <1>2, <1>3
<1>5. Agree(a, c, k)
  BY <1>2, <1>3, <1>4 DEF Agree
<1> QED
  BY <1>5 DEF c

\* Two such logs with an entry of one term at one index agree up to it.
LEMMA RootedAgree ==
  ASSUME NEW L \in [Nat -> Seq(Entry)], NEW a \in Seq(Entry), NEW b \in Seq(Entry),
         RootedIn(L, a), RootedIn(L, b),
         NEW k \in 1 .. Len(a), k \in 1 .. Len(b), a[k].term = b[k].term
  PROVE  Agree(a, b, k)
<1>1. Agree(a, L[a[k].term], k) /\ Agree(b, L[a[k].term], k)
  BY DEF RootedIn
<1> QED
  BY <1>1 DEF Agree

LEMMA RootedBegin ==
  ASSUME NEW L, NEW a \in Seq(Entry), RootedIn(L, a), NEW b \in Seq(Entry),
         Agree(b, a, Len(b))
  PROVE  RootedIn(L, b)
<1> SUFFICES ASSUME NEW k \in 1 .. Len(b)
             PROVE  Agree(b, L[b[k].term], k)
  BY DEF RootedIn
<1>1. Len(b) \in Nat /\ Len(a) \in Nat /\ Len(b) <= Len(a) /\ b[k] = a[k] /\ k \in 1 .. Len(a)
  BY LenProperties DEF Agree
<1>2. Agree(a, L[b[k].term], k)
  BY <1>1 DEF RootedIn
<1> QED
  BY <1>1, <1>2 DEF Agree

LEMMA RootedAllButLast ==
  ASSUME NEW L, NEW V, LedSound(L, V), NEW a \in Seq(Entry), RootedIn(L, a)
  PROVE  AllButLast(V, a)
<1> SUFFICES ASSUME NEW j \in 1 .. Len(a), NEW k \in 1 .. Len(a), j < k,
                    a[j].type = "Config", a[k].type = "Config"
             PROVE  a[j] \in V
  BY DEF AllButLast
<1>1. a[k].term \in Nat
  BY EntryFields, LenProperties
<1> DEFINE b == L[a[k].term]
<1>2. Agree(a, b, k) /\ AllButLast(V, b) /\ b \in Seq(Entry)
  BY <1>1 DEF RootedIn, LedSound
<1>3. Len(a) \in Nat /\ Len(b) \in Nat
  BY <1>2, LenProperties
<1> HIDE DEF b
<1>4. j \in 1 .. k /\ k \in 1 .. k /\ j \in 1 .. Len(b) /\ k \in 1 .. Len(b)
  BY <1>2, <1>3 DEF Agree
<1>5. b[j] = a[j] /\ b[k] = a[k]
  BY <1>2, <1>4 DEF Agree
<1> QED
  BY <1>2, <1>4, <1>5 DEF AllButLast

\* A leader appends: its log is the one recorded, or it is new in its term.
Grown(L, W, a, t, e) ==
  LET b == Append(a, e)
      M == [L EXCEPT ![t] = b]
  IN  LedSound(M, W) /\ Continue(L, M) /\ RootedIn(M, b) /\ AtMost(b, t) /\ M[t] = b

LEMMA LeadersLogGrows ==
  ASSUME NEW L, NEW V, LedSound(L, V), NEW W, V \subseteq W,
         NEW a \in Seq(Entry), RootedIn(L, a), NEW t \in Nat, AtMost(a, t),
         L[t] = a \/ L[t] = <<>>,
         NEW e \in Entry, e.term = t,
         e.type = "Config" =>
           \A k \in 1 .. Len(a) : a[k].type = "Config" => a[k] \in W
  PROVE  Grown(L, W, a, t, e)
<1> DEFINE b == Append(a, e)
           M == [L EXCEPT ![t] = b]
<1>1. L \in [Nat -> Seq(Entry)]
  BY DEF LedSound
<1>2. /\ b \in Seq(Entry) /\ Len(b) = Len(a) + 1 /\ Len(a) \in Nat
      /\ \A k \in 1 .. Len(a) : b[k] = a[k]
      /\ b[Len(a) + 1] = e
  BY AppendProperties, LenProperties
<1>3. M \in [Nat -> Seq(Entry)] /\ M[t] = b /\ \A u \in Nat : u # t => M[u] = L[u]
  BY <1>1, <1>2
<1> HIDE DEF b, M
<1>4. Continue(L, M)
  <2> SUFFICES ASSUME NEW u \in Nat PROVE Agree(L[u], M[u], Len(L[u]))
    BY DEF Continue
  <2>1. L[u] \in Seq(Entry) /\ Len(L[u]) \in Nat
    BY <1>1, LenProperties
  <2>2. CASE u # t
    <3>1. M[u] = L[u]
      BY <1>3, <2>2
    <3> QED
      BY <2>1, <3>1 DEF Agree
  <2>3. CASE u = t /\ L[t] = a
    BY <1>2, <1>3, <2>3 DEF Agree
  <2>4. CASE u = t /\ L[t] = <<>>
    BY <1>2, <1>3, <2>4 DEF Agree
  <2> QED
    BY <2>2, <2>3, <2>4
<1>5. RootedIn(M, a) /\ \A u \in Nat : RootedIn(M, L[u])
  BY <1>1, <1>3, <1>4, RootedContinued DEF LedSound
<1>6. RootedIn(M, b)
  <2> SUFFICES ASSUME NEW k \in 1 .. Len(b) PROVE Agree(b, M[b[k].term], k)
    BY DEF RootedIn
  <2>1. CASE k \in 1 .. Len(a)
    <3> DEFINE c == M[a[k].term]
    <3>1. Agree(a, c, k) /\ b[k] = a[k]
      BY <1>2, <1>5, <2>1 DEF RootedIn
    <3> HIDE DEF c
    <3>2. Agree(b, c, k)
      BY <1>2, <2>1, <3>1 DEF Agree
    <3> QED
      BY <3>1, <3>2 DEF c
  <2>2. CASE k = Len(a) + 1
    <3>1. M[b[k].term] = b
      BY <1>2, <1>3, <2>2
    <3> QED
      BY <1>2, <2>2, <3>1 DEF Agree
  <2> QED
    BY <1>2, <2>1, <2>2
<1>7. AtMost(b, t)
  <2>1. \A k \in 1 .. Len(b) : k \in 1 .. Len(a) \/ k = Len(a) + 1
    BY <1>2
  <2> QED
    BY <1>2, <2>1 DEF AtMost
<1>8. AllButLast(W, b)
  <2> SUFFICES ASSUME NEW j \in 1 .. Len(b), NEW k \in 1 .. Len(b), j < k,
                      b[j].type = "Config", b[k].type = "Config"
               PROVE  b[j] \in W
    BY DEF AllButLast
  <2>1. j \in 1 .. Len(a) /\ b[j] = a[j]
    BY <1>2
  <2>2. CASE k \in 1 .. Len(a)
    <3>1. AllButLast(V, a) /\ b[k] = a[k]
      BY <1>2, <2>2, RootedAllButLast
    <3> QED
      BY <2>1, <2>2, <3>1 DEF AllButLast
  <2>3. CASE k = Len(a) + 1
    BY <1>2, <2>1, <2>3
  <2> QED
    BY <1>2, <2>2, <2>3
<1>9. ASSUME NEW u \in Nat
      PROVE  RootedIn(M, M[u]) /\ AtMost(M[u], u) /\ AllButLast(W, M[u])
  <2>1. CASE u = t
    BY <1>3, <1>6, <1>7, <1>8, <2>1
  <2>2. CASE u # t
    <3>1. M[u] = L[u]
      BY <1>3, <2>2
    <3>2. AtMost(L[u], u) /\ AllButLast(V, L[u])
      BY DEF LedSound
    <3>3. AllButLast(W, L[u])
      BY <3>2 DEF AllButLast
    <3> QED
      BY <1>5, <3>1, <3>2, <3>3
  <2> QED
    BY <2>1, <2>2
<1>10. LedSound(M, W)
  BY <1>3, <1>9 DEF LedSound
<1> QED
  BY <1>3, <1>4, <1>6, <1>7, <1>10 DEF b, M, Grown

-----------------------------------------------------------------------------
(* A leader's step, without snapshots *)

\* An AppendEntries carries a part of the log c.
Quoted(c, m) ==
  /\ m.prevLogIndex + Len(m.entries) <= Len(c)
  /\ \A k \in 1 .. Len(m.entries) : m.entries[k] = c[m.prevLogIndex + k]
  /\ m.prevLogTerm = TermOf(c, m.prevLogIndex)

\* n sends m from its log in its term.
Quotes(n, m) == m.term = n.term /\ Quoted(n.log.entries, m)

\* The AppendEntries that q has sent since n are q's, unless it panics.
Sends(n, q) ==
  q.panic \/ \A m \in q.out : m.type = "App" => m \in n.out \/ Quotes(q, m)

\* Only a leader has a server catching up, and no configuration to commit
\* meanwhile.
Orderly(n) == n.learner # None => n.state = "Leader" /\ ~ConfigPending(n)

\* A node that has had its whole log since the start: no snapshot was taken.
Whole(n) ==
  /\ n.log.snapIndex = 0 /\ n.log.snapTerm = 0
  /\ WellLogged(0, n.log.entries) /\ n.confHistory = HistoryOf(n.log.entries)

Sane(n) == n \in Node /\ Whole(n) /\ Orderly(n)

\* What a leader's methods have in common: they stay in the term.
StaysInTerm(n, q) ==
  /\ Sane(q) /\ q.id = n.id /\ q.term = n.term
  /\ q.state \in {n.state, "Follower"}
  /\ n.commitIndex <= q.commitIndex
  /\ n.panic => q.panic
  /\ Sends(n, q)

\* q has n's log, or one entry more; a configuration follows only those that
\* are committed.
Rests(n, q) == StaysInTerm(n, q) /\ q.log = n.log

Extends(a, b, term, commit) ==
  \E e \in Entry :
    /\ e.term = term /\ b = Append(a, e)
    /\ e.type = "Config" =>
         \A k \in 1 .. Len(a) : a[k].type = "Config" => k <= commit

Adds(n, q) ==
  StaysInTerm(n, q) /\ Extends(n.log.entries, q.log.entries, q.term, q.commitIndex)

\* A log and a continuation of it.
LEMMA AppendedAgree ==
  ASSUME NEW a \in Seq(Entry), NEW b, NEW t, NEW c, Extends(a, b, t, c)
  PROVE  b \in Seq(Entry) /\ Agree(a, b, Len(a))
<1>1. PICK e \in Entry : b = Append(a, e)
  BY DEF Extends
<1>2. /\ b \in Seq(Entry) /\ Len(b) = Len(a) + 1 /\ Len(a) \in Nat
      /\ \A k \in 1 .. Len(a) : b[k] = a[k]
  BY <1>1, AppendProperties, LenProperties
<1> QED
  BY <1>2 DEF Agree

LEMMA QuotedLater ==
  ASSUME NEW a \in Seq(Entry), NEW b \in Seq(Entry), Agree(a, b, Len(a)),
         NEW m \in App, Quoted(a, m)
  PROVE  Quoted(b, m)
<1>1. /\ m.prevLogIndex \in Nat /\ Len(m.entries) \in Nat
      /\ Len(a) \in Nat /\ Len(b) \in Nat /\ Len(a) <= Len(b)
  BY LenProperties DEF App, Agree
<1>2. /\ m.prevLogIndex + Len(m.entries) <= Len(a)
      /\ \A k \in 1 .. Len(m.entries) : m.entries[k] = a[m.prevLogIndex + k]
      /\ m.prevLogTerm = TermOf(a, m.prevLogIndex)
  BY DEF Quoted
<1>3. \A k \in 1 .. Len(m.entries) : m.prevLogIndex + k \in 1 .. Len(a)
  BY <1>1, <1>2
<1>4. m.prevLogIndex # 0 => m.prevLogIndex \in 1 .. Len(a)
  BY <1>1, <1>2
<1>5. \A k \in 1 .. Len(a) : a[k] = b[k]
  BY DEF Agree
<1>6. TermOf(b, m.prevLogIndex) = TermOf(a, m.prevLogIndex)
  BY <1>4, <1>5 DEF TermOf
<1> QED
  BY <1>1, <1>2, <1>3, <1>5, <1>6 DEF Quoted

LEMMA OnwardTwice ==
  ASSUME NEW n \in Node, NEW p, NEW q, StaysInTerm(n, p), StaysInTerm(p, q),
         Agree(p.log.entries, q.log.entries, Len(p.log.entries))
  PROVE  StaysInTerm(n, q)
<1>1. /\ p \in Node /\ q \in Node /\ n.commitIndex \in Nat /\ p.commitIndex \in Nat
      /\ q.commitIndex \in Nat
      /\ p.log.entries \in Seq(Entry) /\ q.log.entries \in Seq(Entry) /\ q.out \in SUBSET Message
  BY NodeFields, LogFields DEF StaysInTerm, Sane
<1>2. n.commitIndex <= q.commitIndex
  BY <1>1 DEF StaysInTerm, Sane
<1>3. Sends(n, q)
  <2> SUFFICES ASSUME ~q.panic, NEW m \in q.out, m.type = "App"
               PROVE  m \in n.out \/ Quotes(q, m)
    BY DEF Sends
  <2>1. ~p.panic /\ (m \in p.out \/ Quotes(q, m))
    BY DEF StaysInTerm, Sends
  <2>2. m \in n.out \/ Quotes(p, m) \/ Quotes(q, m)
    BY <2>1 DEF StaysInTerm, Sends
  <2>3. m \in App
    BY <1>1, MessageOfType
  <2>4. ASSUME Quotes(p, m) PROVE Quotes(q, m)
    <3>1. Quoted(p.log.entries, m) /\ m.term = p.term /\ p.term = q.term
      BY <2>4 DEF Quotes, StaysInTerm
    <3> QED
      BY <1>1, <2>3, <3>1, QuotedLater DEF Quotes
  <2> QED
    BY <2>2, <2>4
<1> QED
  BY <1>2, <1>3 DEF StaysInTerm, Sane

LEMMA AgreeSelf ==
  ASSUME NEW a \in Seq(Entry)
  PROVE  Agree(a, a, Len(a))
BY LenProperties DEF Agree

LEMMA RestsTwice ==
  ASSUME NEW n \in Node, NEW p, NEW q, Rests(n, p), Rests(p, q)
  PROVE  Rests(n, q)
<1>1. p \in Node /\ q.log = p.log
  BY DEF Rests, StaysInTerm, Sane
<1>2. Agree(p.log.entries, q.log.entries, Len(p.log.entries))
  BY <1>1, NodeFields, LogFields, AgreeSelf
<1> QED
  BY <1>2, OnwardTwice DEF Rests

LEMMA RestsAdds ==
  ASSUME NEW n \in Node, NEW p, NEW q, Rests(n, p), Adds(p, q)
  PROVE  Adds(n, q)
<1>1. p \in Node /\ p.log = n.log
  BY DEF Rests, StaysInTerm, Sane
<1>2. Agree(p.log.entries, q.log.entries, Len(p.log.entries))
  BY <1>1, NodeFields, LogFields, AppendedAgree DEF Adds
<1> QED
  BY <1>1, <1>2, OnwardTwice DEF Rests, Adds

LEMMA AddsRests ==
  ASSUME NEW n \in Node, NEW p, NEW q, Adds(n, p), Rests(p, q)
  PROVE  Adds(n, q)
<1>1. p \in Node /\ q \in Node /\ q.log = p.log /\ q.term = p.term
      /\ p.commitIndex <= q.commitIndex
  BY DEF Rests, Adds, StaysInTerm, Sane
<1>2. Agree(p.log.entries, q.log.entries, Len(p.log.entries))
  BY <1>1, NodeFields, LogFields, AgreeSelf
<1>3. PICK e \in Entry :
        /\ e.term = p.term /\ p.log.entries = Append(n.log.entries, e)
        /\ e.type = "Config" =>
             \A k \in 1 .. Len(n.log.entries) :
               n.log.entries[k].type = "Config" => k <= p.commitIndex
  BY DEF Adds, Extends
<1>4. p.commitIndex \in Nat /\ q.commitIndex \in Nat
  BY <1>1, NodeFields
<1>5. \A k \in Nat : k <= p.commitIndex => k <= q.commitIndex
  BY <1>1, <1>4
<1>6. Extends(n.log.entries, q.log.entries, q.term, q.commitIndex)
  BY <1>1, <1>3, <1>5 DEF Extends
<1> QED
  BY <1>2, <1>6, OnwardTwice DEF Rests, Adds

\* What must not change for a step to rest.
LEMMA RestsStep ==
  ASSUME NEW n, Sane(n), NEW q \in Node, q.log = n.log, q.confHistory = n.confHistory,
         q.id = n.id, q.term = n.term, q.state = n.state \/ q.state = "Follower",
         n.commitIndex <= q.commitIndex, n.panic => q.panic,
         q.learner = None \/ (q.learner = n.learner /\ q.state = n.state),
         Sends(n, q)
  PROVE  Rests(n, q)
<1>1. /\ n \in Node /\ n.commitIndex \in Nat /\ q.commitIndex \in Nat
      /\ \A r \in n.confHistory : r.index \in Nat
  BY NodeFields DEF Sane, ConfRecord
<1>2. ConfigPending(q) => ConfigPending(n)
  <2>1. \A k \in Nat : k > q.commitIndex => k > n.commitIndex
    BY <1>1
  <2> QED
    BY <1>1, <2>1 DEF ConfigPending
<1>3. Orderly(q)
  BY <1>2 DEF Orderly, Sane
<1>4. Whole(q)
  BY DEF Whole, Sane
<1> QED
  BY <1>3, <1>4 DEF Rests, StaysInTerm, Sane

LEMMA RestsSelf ==
  ASSUME NEW n, Sane(n)
  PROVE  Rests(n, n)
<1>1. n \in Node /\ n.commitIndex <= n.commitIndex
  BY NodeFields DEF Sane
<1>2. Sends(n, n)
  BY DEF Sends
<1> QED
  BY <1>1, <1>2, RestsStep

\* The entries that are sent to a peer are a part of the log.
LEMMA AppsForQuotes ==
  ASSUME NEW n, Sane(n), NEW to \in Server, ~CannotSend(n, to),
         NEW m \in AppsFor(n, to), m.type = "App"
  PROVE  Quotes(n, m)
<1> DEFINE l == n.log
           es == l.entries
           pr == n.prs[to]
           prev == PrevIndex(pr)
           x == Slice(l, pr.next, LastIndex(l) + 1, MaxBatch)
<1>1. /\ n \in Node /\ l \in Log /\ es \in Seq(Entry) /\ Len(es) \in Nat
      /\ l.snapIndex = 0 /\ l.snapTerm = 0 /\ pr \in Progress
      /\ LastIndex(l) = Len(es) /\ FirstIndex(l) = 1
  BY NodeFields, LogFields DEF Sane, Whole, LastIndex, FirstIndex
<1>2. pr # NoProgress /\ ~NeedsSnapshot(n, to)
  BY DEF AppsFor
<1>3. pr.next \in Nat \ {0}
  BY <1>1, <1>2, ProgressFields
<1>4. HasTerm(l, prev) /\ prev = pr.next - 1
  BY <1>2 DEF CannotSend, PrevIndex
<1>5. m = [type |-> "App", from |-> n.id, to |-> to, term |-> n.term,
           prevLogIndex |-> prev, prevLogTerm |-> TermAt(l, prev),
           entries |-> x, commit |-> n.commitIndex]
  BY <1>2 DEF AppsFor
<1>6. prev \in 0 .. Len(es)
  BY <1>1, <1>4 DEF HasTerm
<1>7. TermAt(l, prev) = TermOf(es, prev)
  BY <1>1, <1>4, <1>6 DEF TermAt, TermOf
<1>8. PICK c \in Int : c <= Len(es) /\ x = SubSeq(es, pr.next, c)
  <2>1. pr.next \in Int /\ pr.next >= FirstIndex(l) /\ MaxBatch \in Nat
        /\ pr.next - l.snapIndex = pr.next
    BY <1>1, <1>3, ParamsAssumption
  <2> HIDE DEF l
  <2>2. \E c \in Int : /\ c <= Len(l.entries)
                       /\ Slice(l, pr.next, LastIndex(l) + 1, MaxBatch)
                            = SubSeq(l.entries, pr.next - l.snapIndex, c)
    BY <1>1, <2>1, SliceToEnd
  <2> QED
    BY <2>1, <2>2
<1> HIDE DEF l, x, prev
<1>9. /\ x \in Seq(Entry) /\ Len(x) = IF pr.next <= c THEN c - pr.next + 1 ELSE 0
      /\ \A k \in 1 .. Len(x) : x[k] = es[pr.next + k - 1]
  BY <1>1, <1>3, <1>8, PartFields
<1>10. /\ prev + Len(x) <= Len(es)
       /\ \A k \in 1 .. Len(x) : pr.next + k - 1 = prev + k
  <2>1. Len(es) \in Nat /\ Len(x) \in Nat /\ pr.next \in Nat /\ prev \in Int
    BY <1>1, <1>3, <1>6, <1>9, LenProperties
  <2> HIDE DEF pr, es
  <2>2. prev + Len(x) <= Len(es)
    BY <2>1, <1>4, <1>6, <1>8, <1>9
  <2>3. \A k \in Int : pr.next + k - 1 = prev + k
    BY <2>1, <1>4
  <2> QED
    BY <2>1, <2>2, <2>3
<1>11. /\ m.prevLogIndex = prev /\ m.entries = x /\ m.prevLogTerm = TermOf(es, prev)
       /\ m.term = n.term
  BY <1>5, <1>7
<1>12. Quoted(es, m)
  BY <1>9, <1>10, <1>11 DEF Quoted
<1> QED
  BY <1>11, <1>12 DEF Quotes, l

LEMMA SendAppendsRests ==
  ASSUME NEW n, Sane(n), NEW targets \in SUBSET Server
  PROVE  Rests(n, SendAppends(n, targets)) /\ SendAppends(n, targets).state = n.state
<1> DEFINE o == n.out \cup UNION {AppsFor(n, to) : to \in targets}
           r == [s \in Server |->
                   IF s \in targets /\ NeedsSnapshot(n, s)
                   THEN [n.prs[s] EXCEPT !.pendingSnap = TRUE] ELSE n.prs[s]]
           x == n.panic \/ \E to \in targets : CannotSend(n, to)
           q == [n EXCEPT !.out = o, !.prs = r, !.panic = x]
<1>1. SendAppends(n, targets) = q /\ n \in Node
  BY Zenon DEF SendAppends, Sane
<1>2. q \in Node
  BY <1>1, SendAppendsQuiet DEF Quiet
<1>3. ASSUME ~x, NEW m \in o, m.type = "App"
      PROVE  m \in n.out \/ Quotes(n, m)
  BY <1>3, AppsForQuotes
<1> HIDE DEF o, r, x
<1>4. /\ q.log = n.log /\ q.confHistory = n.confHistory /\ q.id = n.id /\ q.term = n.term
      /\ q.state = n.state /\ q.commitIndex = n.commitIndex /\ q.learner = n.learner
      /\ q.out = o /\ q.panic = x
  BY <1>1 DEF Node
<1>5. Sends(n, q)
  BY <1>3, <1>4 DEF Sends, Quotes
<1>6. n.panic => q.panic
  BY <1>4 DEF x
<1>7. n.commitIndex <= q.commitIndex
  BY <1>1, <1>4, NodeFields
<1> QED
  BY <1>1, <1>2, <1>4, <1>5, <1>6, <1>7, RestsStep

LEMMA BroadcastRests ==
  ASSUME NEW n, Sane(n)
  PROVE  Rests(n, BroadcastAppend(n)) /\ BroadcastAppend(n).state = n.state
BY ReplicationTargetsType, SendAppendsRests DEF BroadcastAppend, Sane

\* Changes that send nothing and leave the log, the term and the role alone.
LEMMA PrivateRests ==
  ASSUME NEW n, Sane(n), NEW q \in Node, q.log = n.log, q.confHistory = n.confHistory,
         q.id = n.id, q.term = n.term, q.state = n.state, q.out = n.out,
         q.panic = n.panic, n.commitIndex <= q.commitIndex, q.learner \in {None, n.learner}
  PROVE  Rests(n, q)
<1>1. Sends(n, q)
  BY DEF Sends
<1> QED
  BY <1>1, RestsStep

LEMMA ApplyCommittedRests ==
  ASSUME NEW n, Sane(n)
  PROVE  Rests(n, ApplyCommitted(n)) /\ ApplyCommitted(n).state = n.state
<1> DEFINE a == n.applied \o Slice(n.log, n.lastApplied + 1, n.commitIndex + 1, 0)
           q == ApplyCommitted(n)
<1>1. q = IF n.commitIndex <= n.lastApplied THEN n
          ELSE [n EXCEPT !.applied = a, !.lastApplied = n.commitIndex]
  BY Zenon DEF ApplyCommitted
<1>2. q \in Node /\ n \in Node /\ n.commitIndex <= n.commitIndex
  BY ApplyCommittedQuiet, NodeFields DEF Quiet, Sane
<1> HIDE DEF a
<1>3. /\ q.log = n.log /\ q.confHistory = n.confHistory /\ q.id = n.id /\ q.term = n.term
      /\ q.state = n.state /\ q.out = n.out /\ q.panic = n.panic
      /\ q.commitIndex = n.commitIndex /\ q.learner = n.learner
  BY <1>1, <1>2 DEF Node
<1> HIDE DEF q
<1>4. Rests(n, q)
  BY <1>2, <1>3, PrivateRests
<1> QED
  BY <1>3, <1>4 DEF q

LEMMA CommitRests ==
  ASSUME NEW n, Sane(n), NEW k \in Nat, n.commitIndex <= k
  PROVE  LET b == [n EXCEPT !.commitIndex = k] IN Rests(n, b) /\ b.state = n.state
<1> DEFINE b == [n EXCEPT !.commitIndex = k]
<1>1. n \in Node
  BY DEF Sane
<1>2. /\ b \in Node /\ b.log = n.log /\ b.confHistory = n.confHistory /\ b.id = n.id
      /\ b.term = n.term /\ b.state = n.state /\ b.out = n.out /\ b.panic = n.panic
      /\ b.commitIndex = k /\ b.learner = n.learner
  BY <1>1 DEF Node
<1> HIDE DEF b
<1>3. Rests(n, b)
  BY <1>2, PrivateRests
<1> QED
  BY <1>2, <1>3 DEF b

LEMMA StepDownRests ==
  ASSUME NEW n, Sane(n), NEW leader \in OptServer, NEW term \in Nat, term <= n.term
  PROVE  /\ Rests(n, BecomeFollower(n, term, leader))
         /\ BecomeFollower(n, term, leader).state = "Follower"
         /\ BecomeFollower(n, term, leader).out = n.out
<1> DEFINE q == BecomeFollower(n, term, leader)
<1>1. n \in Node /\ n.term \in Nat /\ ~(term > n.term) /\ n.commitIndex <= n.commitIndex
  BY NodeFields DEF Sane
<1>2. q \in Node
  BY <1>1, BecomeFollowerFollows DEF Follows
<1>3. /\ q.log = n.log /\ q.confHistory = n.confHistory /\ q.id = n.id /\ q.term = n.term
      /\ q.state = "Follower" /\ q.out = n.out /\ q.panic = n.panic
      /\ q.commitIndex = n.commitIndex /\ q.learner = None
  BY <1>1 DEF BecomeFollower, Node
<1> HIDE DEF q
<1>4. Sends(n, q)
  BY <1>3 DEF Sends
<1>5. Rests(n, q)
  BY <1>1, <1>2, <1>3, <1>4, RestsStep
<1> QED
  BY <1>3, <1>5 DEF q

LEMMA AfterCommitRests ==
  ASSUME NEW n, Sane(n)
  PROVE  Rests(n, AfterCommit(n))
<1> DEFINE f == BecomeFollower(n, n.term, None)
<1>1. n.term \in Nat /\ n.term <= n.term /\ None \in OptServer
  BY NodeFields DEF Sane, OptServer
<1>2. Rests(n, f) /\ Rests(n, n)
  BY <1>1, StepDownRests, RestsSelf
<1>3. AfterCommit(n) = f \/ AfterCommit(n) = n
  BY DEF AfterCommit
<1> HIDE DEF f
<1> QED
  BY <1>2, <1>3

LEMMA RestsSane ==
  ASSUME NEW n, NEW q, Rests(n, q) \/ Adds(n, q)
  PROVE  Sane(q) /\ q \in Node
BY DEF Rests, Adds, StaysInTerm, Sane

LEMMA MaybeCommitRests ==
  ASSUME NEW n, Sane(n)
  PROVE  Rests(n, MaybeCommit(n))
<1> DEFINE k == QuorumMatch(n)
           b == [n EXCEPT !.commitIndex = k]
           a == ApplyCommitted(b)
           c == AfterCommit(a)
           g == BroadcastAppend(c)
           Go == n.state = "Leader" /\ k \in n.commitIndex + 1 .. LastIndex(n.log)
                   /\ CommittableAt(n, k)
<1>1. MaybeCommit(n) = IF Go THEN (IF c.state = "Leader" THEN g ELSE c) ELSE n
  BY Zenon DEF MaybeCommit
<1>2. n \in Node /\ (Go => k \in Nat /\ n.commitIndex <= k)
  BY NodeFields, IndexType DEF Sane
<1>3. CASE Go
  <2>1. k \in Nat /\ n.commitIndex <= k
    BY <1>2, <1>3
  <2> HIDE DEF k
  <2>2. Rests(n, b) /\ Sane(b) /\ b \in Node
    BY <2>1, CommitRests, RestsSane
  <2> HIDE DEF b
  <2>3. Rests(b, a) /\ Sane(a) /\ a \in Node
    BY <2>2, ApplyCommittedRests, RestsSane
  <2> HIDE DEF a
  <2>4. Rests(a, c) /\ Sane(c) /\ c \in Node
    BY <2>3, AfterCommitRests, RestsSane
  <2> HIDE DEF c
  <2>5. Rests(c, g)
    BY <2>4, BroadcastRests
  <2> HIDE DEF g
  <2>6. Rests(n, c)
    BY <1>2, <2>2, <2>3, <2>4, RestsTwice
  <2>7. Rests(n, g)
    BY <1>2, <2>5, <2>6, RestsTwice
  <2>8. MaybeCommit(n) = g \/ MaybeCommit(n) = c
    BY <1>1, <1>3
  <2> QED
    BY <2>6, <2>7, <2>8
<1>4. CASE ~Go
  <2>1. MaybeCommit(n) = n
    BY <1>1, <1>4, Zenon
  <2> QED
    BY <2>1, RestsSelf
<1> QED
  BY <1>3, <1>4

LEMMA MaybeCommitThenBroadcastRests ==
  ASSUME NEW n, Sane(n)
  PROVE  Rests(n, MaybeCommitThenBroadcast(n))
<1> DEFINE c == MaybeCommit(n)
           g == BroadcastAppend(c)
<1>1. Rests(n, c) /\ Sane(c) /\ n \in Node
  BY MaybeCommitRests, RestsSane DEF Sane
<1>2. MaybeCommitThenBroadcast(n) = g \/ MaybeCommitThenBroadcast(n) = c
  BY DEF MaybeCommitThenBroadcast
<1> HIDE DEF c
<1>3. Rests(c, g)
  BY <1>1, BroadcastRests
<1> HIDE DEF g
<1>4. Rests(n, g)
  BY <1>1, <1>3, RestsTwice
<1> QED
  BY <1>1, <1>2, <1>4

-----------------------------------------------------------------------------
(* A leader's appends *)

\* q is n with an entry of its term at the end of its log.
Appended(n, q, type) ==
  /\ q \in Node /\ q.id = n.id /\ q.term = n.term /\ q.state = n.state
  /\ q.commitIndex = n.commitIndex /\ q.out = n.out /\ q.panic = n.panic
  /\ q.learner = n.learner /\ q.votedFor = n.votedFor
  /\ q.log.snapIndex = n.log.snapIndex /\ q.log.snapTerm = n.log.snapTerm
  /\ type # "Config" => q.prs = n.prs
  /\ \E e \in Entry :
       /\ e.type = type /\ e.term = n.term /\ e.index = LastIndex(n.log) + 1
       /\ q.log.entries = Append(n.log.entries, e)
       /\ q.confHistory = n.confHistory \cup ConfigRecords(<<e>>)

LEMMA AppendEntryAppended ==
  ASSUME NEW n \in Node, NEW type, NEW data,
         \/ type = "Normal" /\ data \in Value
         \/ type = "Noop"   /\ data = None
         \/ type = "Config" /\ data \in SUBSET Server
  PROVE  Appended(n, AppendEntry(n, type, data), type)
<1> DEFINE e == [index |-> LastIndex(n.log) + 1, term |-> n.term, type |-> type,
                 data |-> data]
           fresh == IF type = "Config"
                    THEN {v \in data \ {n.id} : n.prs[v] = NoProgress} ELSE {}
           l == AppendLog(n.log, <<e>>)
           h == n.confHistory \cup ConfigRecords(<<e>>)
           r == [s \in Server |-> IF s \in fresh THEN NewProgress(e.index + 1)
                                  ELSE n.prs[s]]
           i == MarkAppended(n, e.index)
           q == [n EXCEPT !.log = l, !.appendedFrom = i, !.confHistory = h, !.prs = r]
<1>1. n.log \in Log /\ n.term \in Nat /\ LastIndex(n.log) \in Nat
      /\ n.prs \in [Server -> Progress] /\ n.log.entries \in Seq(Entry)
  BY NodeFields, IndexType, LogFields
<1>2. e \in Entry /\ e.type = type /\ e.term = n.term /\ e.index = LastIndex(n.log) + 1
  BY <1>1 DEF Entry
<1>3. AppendEntry(n, type, data) = q
  BY Zenon DEF AppendEntry
<1>4. q \in Node
  BY <1>3, AppendEntryQuiet DEF Quiet
<1>5. type # "Config" => r = n.prs
  BY <1>1
<1> HIDE DEF e
<1>6. /\ l.entries = n.log.entries \o <<e>> /\ l.snapIndex = n.log.snapIndex
      /\ l.snapTerm = n.log.snapTerm
  BY <1>1 DEF AppendLog, Log
<1>7. n.log.entries \o <<e>> = Append(n.log.entries, e)
  BY <1>1, <1>2, AppendIsConcat
<1> HIDE DEF l, r, i, h, fresh
<1>8. /\ q.id = n.id /\ q.term = n.term /\ q.state = n.state
      /\ q.commitIndex = n.commitIndex /\ q.out = n.out /\ q.panic = n.panic
      /\ q.learner = n.learner /\ q.votedFor = n.votedFor
      /\ q.log = l /\ q.confHistory = h /\ q.prs = r
  BY DEF Node
<1> HIDE DEF q
<1>9. \E f \in Entry :
         /\ f.type = type /\ f.term = n.term /\ f.index = LastIndex(n.log) + 1
         /\ q.log.entries = Append(n.log.entries, f)
         /\ q.confHistory = n.confHistory \cup ConfigRecords(<<f>>)
  BY <1>2, <1>6, <1>7, <1>8 DEF h
<1> QED
  BY <1>3, <1>4, <1>5, <1>6, <1>8, <1>9 DEF Appended

\* A configuration only follows committed ones, because none is pending.
LEMMA NonePending ==
  ASSUME NEW n, Sane(n), ~ConfigPending(n),
         NEW k \in 1 .. Len(n.log.entries), n.log.entries[k].type = "Config"
  PROVE  k <= n.commitIndex
<1> DEFINE es == n.log.entries
<1>1. /\ n \in Node /\ es \in Seq(Entry) /\ Len(es) \in Nat /\ n.commitIndex \in Nat
      /\ WellLogged(0, es) /\ n.confHistory = HistoryOf(es)
  BY NodeFields, LogFields DEF Sane, Whole
<1>2. es[k].index = k /\ k \in Nat
  BY <1>1 DEF WellLogged
<1>3. [index |-> es[k].index, cfg |-> es[k].data] \in n.confHistory
  BY <1>1 DEF HistoryOf, ConfigRecords
<1>4. ~(es[k].index > n.commitIndex)
  BY <1>3 DEF ConfigPending
<1> QED
  BY <1>1, <1>2, <1>4

LEMMA AppendEntryAdds ==
  ASSUME NEW n, Sane(n), NEW type, NEW data,
         \/ type = "Normal" /\ data \in Value
         \/ type = "Noop"   /\ data = None
         \/ type = "Config" /\ data \in SUBSET Server,
         type = "Config" => ~ConfigPending(n) /\ n.learner = None
  PROVE  Adds(n, AppendEntry(n, type, data))
<1> DEFINE q == AppendEntry(n, type, data)
           es == n.log.entries
<1>1. /\ n \in Node /\ es \in Seq(Entry) /\ Len(es) \in Nat /\ n.commitIndex \in Nat
      /\ n.log.snapIndex = 0 /\ n.log.snapTerm = 0 /\ n.term \in Nat
      /\ WellLogged(0, es) /\ n.confHistory = HistoryOf(es) /\ Orderly(n)
  BY NodeFields, LogFields DEF Sane, Whole
<1>a. Appended(n, q, type)
  BY <1>1, AppendEntryAppended
<1> HIDE DEF q
<1>2. /\ q \in Node /\ q.id = n.id /\ q.term = n.term /\ q.state = n.state
      /\ q.commitIndex = n.commitIndex /\ q.out = n.out /\ q.panic = n.panic
      /\ q.learner = n.learner
      /\ q.log.snapIndex = n.log.snapIndex /\ q.log.snapTerm = n.log.snapTerm
  BY <1>a DEF Appended
<1>3. PICK e \in Entry :
           /\ e.type = type /\ e.term = n.term /\ e.index = LastIndex(n.log) + 1
           /\ q.log.entries = Append(es, e)
           /\ q.confHistory = n.confHistory \cup ConfigRecords(<<e>>)
  BY <1>a DEF Appended
<1> HIDE DEF es
<1>4. LastIndex(n.log) + 1 = 0 + Len(es) + 1
  BY <1>1 DEF LastIndex, es
<1>5. /\ Append(es, e) = es \o <<e>> /\ <<e>> \in Seq(Entry)
      /\ Len(<<e>>) = 1 /\ <<e>>[1] = e
  BY <1>1, AppendIsConcat
<1>6. WellLogged(0 + Len(es), <<e>>)
  BY <1>3, <1>4, <1>5 DEF WellLogged
<1>7. WellLogged(0, q.log.entries)
  <2>1. 0 \in Int
    OBVIOUS
  <2>2. WellLogged(0, es \o <<e>>)
    BY <1>1, <1>5, <1>6, <2>1, WellLoggedConcat, Zenon
  <2> QED
    BY <1>3, <1>5, <2>2
<1>8. q.confHistory = HistoryOf(q.log.entries)
  BY <1>1, <1>3, <1>5, HistoryConcat
<1>9. Whole(q)
  BY <1>1, <1>2, <1>7, <1>8 DEF Whole
<1>10. ConfigPending(q) /\ q.learner # None => ConfigPending(n)
  <2>1. CASE type = "Config"
    BY <1>2, <2>1
  <2>2. CASE type # "Config"
    <3>1. Plain(<<e>>)
      BY <1>3, <1>5, <2>2 DEF Plain
    <3>2. q.confHistory = n.confHistory
      BY <1>3, <3>1, PlainRecords
    <3> QED
      BY <1>2, <3>2 DEF ConfigPending
  <2> QED
    BY <2>1, <2>2
<1>11. Orderly(q)
  BY <1>1, <1>2, <1>10 DEF Orderly
<1>12. Sends(n, q)
  BY <1>2 DEF Sends
<1>13. StaysInTerm(n, q)
  BY <1>1, <1>2, <1>9, <1>11, <1>12 DEF StaysInTerm, Sane
<1>14. type = "Config" => \A k \in 1 .. Len(es) : es[k].type = "Config" => k <= n.commitIndex
  BY NonePending DEF es
<1>15. Extends(es, q.log.entries, q.term, q.commitIndex)
  BY <1>2, <1>3, <1>14 DEF Extends
<1> QED
  BY <1>13, <1>15 DEF Adds, q, es

LEMMA AppendThenRests ==
  ASSUME NEW n, Sane(n), NEW p, Rests(n, p), NEW q, Adds(p, q)
  PROVE  Adds(n, MaybeCommitThenBroadcast(q))
<1>1. Sane(q) /\ n \in Node
  BY RestsSane DEF Sane
<1>2. Rests(q, MaybeCommitThenBroadcast(q))
  BY <1>1, MaybeCommitThenBroadcastRests
<1>3. Adds(n, q)
  BY <1>1, RestsAdds
<1> QED
  BY <1>1, <1>2, <1>3, AddsRests

-----------------------------------------------------------------------------
(* What a leader does *)

\* A leader's step adds at most one entry to its log.
Leads(n, q) == Rests(n, q) \/ Adds(n, q)

LEMMA LeadsSelf ==
  ASSUME NEW n, Sane(n)
  PROVE  Leads(n, n)
BY RestsSelf DEF Leads

LEMMA SendRests ==
  ASSUME NEW n, Sane(n), NEW msgs \in SUBSET Message, \A m \in msgs : m.type # "App"
  PROVE  Rests(n, Send(n, msgs)) /\ Send(n, msgs).state = n.state
<1> DEFINE q == Send(n, msgs)
<1>1. n \in Node /\ n.commitIndex <= n.commitIndex
  BY NodeFields DEF Sane
<1>2. /\ q \in Node /\ q.log = n.log /\ q.confHistory = n.confHistory /\ q.id = n.id
      /\ q.term = n.term /\ q.state = n.state /\ q.out = n.out \cup msgs
      /\ q.panic = n.panic /\ q.commitIndex = n.commitIndex /\ q.learner = n.learner
  BY <1>1 DEF Send, Node
<1> HIDE DEF q
<1>3. Sends(n, q)
  BY <1>2 DEF Sends
<1>4. Rests(n, q)
  BY <1>1, <1>2, <1>3, RestsStep
<1> QED
  BY <1>2, <1>4 DEF q

LEMMA SendTimeoutNowRests ==
  ASSUME NEW n, Sane(n), NEW to \in Server
  PROVE  Rests(n, SendTimeoutNow(n, to))
<1> DEFINE m == [type |-> "TimeoutNow", from |-> n.id, to |-> to, term |-> n.term]
<1>1. m \in Message /\ m.type # "App"
  <2>1. n.id \in Server /\ n.term \in Nat
    BY NodeFields DEF Sane
  <2>2. m \in TimeoutNow
    BY <2>1 DEF TimeoutNow
  <2> QED
    BY <2>2 DEF Message
<1>2. SendTimeoutNow(n, to) = Send(n, {m})
  BY DEF SendTimeoutNow
<1> HIDE DEF m
<1> QED
  BY <1>1, <1>2, SendRests

LEMMA ProposeLeads ==
  ASSUME NEW n, Sane(n), NEW v \in Value
  PROVE  Leads(n, Propose(n, v))
<1> DEFINE a == AppendEntry(n, "Normal", v)
<1>1. Adds(n, a)
  BY AppendEntryAdds
<1>2. Propose(n, v) = n \/ Propose(n, v) = MaybeCommitThenBroadcast(a)
  BY DEF Propose
<1> HIDE DEF a
<1> QED
  BY <1>1, <1>2, RestsSelf, AppendThenRests DEF Leads

LEMMA AckRests ==
  ASSUME NEW n, Sane(n), NEW from \in Server, NEW match \in Nat
  PROVE  Rests(n, Ack(n, from, match)) /\ Ack(n, from, match).state = n.state
<1> DEFINE q == Ack(n, from, match)
           pr == n.prs[from]
           mt == Max({match, pr.match})
           r == [next |-> Max({mt + 1, pr.next}), match |-> mt,
                 recentActive |-> TRUE, pendingSnap |-> FALSE]
<1>1. n \in Node /\ n.commitIndex <= n.commitIndex
  BY NodeFields DEF Sane
<1>2. q \in Node
  BY <1>1, AckQuiet DEF Quiet
<1>3. q = [n EXCEPT !.prs[from] = r]
  BY Zenon DEF Ack
<1> HIDE DEF r
<1>4. /\ q.log = n.log /\ q.confHistory = n.confHistory /\ q.id = n.id
      /\ q.term = n.term /\ q.state = n.state /\ q.out = n.out
      /\ q.panic = n.panic /\ q.commitIndex = n.commitIndex /\ q.learner = n.learner
  BY <1>1, <1>3 DEF Node
<1> HIDE DEF q
<1>5. Rests(n, q)
  BY <1>1, <1>2, <1>4, PrivateRests
<1> QED
  BY <1>4, <1>5 DEF q

\* The learner becomes a voter: there was no configuration to commit.
LEMMA MaybePromoteLearnerLeads ==
  ASSUME NEW n, Sane(n), NEW from \in Server
  PROVE  Leads(n, MaybePromoteLearner(n, from))
<1> DEFINE data == Config(n) \cup {from}
           x == [n EXCEPT !.learner = None]
           a == AppendEntry(x, "Config", data)
           p == MaybePromoteLearner(n, from)
<1>1. p = n \/ (p = MaybeCommitThenBroadcast(a) /\ n.learner = from)
  BY Zenon DEF MaybePromoteLearner
<1> HIDE DEF p
<1>2. CASE n.learner # from
  BY <1>1, <1>2, LeadsSelf DEF p
<1>3. CASE n.learner = from
  <2>1. data \in SUBSET Server /\ from # None /\ n \in Node /\ n.commitIndex <= n.commitIndex
    BY ReplicationTargetsType, ServerAssumption, NodeFields DEF Sane
  <2>2. ~ConfigPending(n)
    BY <1>3, <2>1 DEF Sane, Orderly
  <2>3. /\ x \in Node /\ x.log = n.log /\ x.confHistory = n.confHistory /\ x.id = n.id
        /\ x.term = n.term /\ x.state = n.state /\ x.out = n.out
        /\ x.panic = n.panic /\ x.commitIndex = n.commitIndex /\ x.learner = None
    BY <2>1 DEF Node, OptServer
  <2> HIDE DEF x, data
  <2>4. Rests(n, x) /\ Sane(x)
    BY <2>1, <2>3, PrivateRests, RestsSane
  <2>5. ~ConfigPending(x)
    BY <2>2, <2>3 DEF ConfigPending
  <2>6. Adds(x, a)
    BY <2>1, <2>3, <2>4, <2>5, AppendEntryAdds
  <2> HIDE DEF a
  <2> QED
    BY <1>1, <2>4, <2>6, RestsSelf, AppendThenRests DEF Leads, p
<1> QED
  BY <1>2, <1>3

LEMMA LeadsTwice ==
  ASSUME NEW n, Sane(n), NEW p, NEW q, Leads(n, p), Rests(p, q)
  PROVE  Leads(n, q)
BY RestsTwice, AddsRests DEF Leads, Sane

LEMMA RestsLeads ==
  ASSUME NEW n, Sane(n), NEW p, NEW q, Rests(n, p), Leads(p, q)
  PROVE  Leads(n, q)
BY RestsTwice, RestsAdds DEF Leads, Sane

LEMMA AfterAckLeads ==
  ASSUME NEW n, Sane(n), NEW from \in Server, NEW match \in Nat, NEW isApp \in BOOLEAN
  PROVE  Leads(n, AfterAck(n, from, match, isApp))
<1> DEFINE k == Ack(n, from, match)
           a == MaybeCommit(k)
           b == IF isApp /\ a.transferee = from /\ CaughtUp(a, from)
                THEN SendTimeoutNow(a, from) ELSE a
           c == MaybePromoteLearner(b, from)
           d == SendAppends(c, {from})
           z == AfterAck(n, from, match, isApp)
<1>1. z = a \/ z = c \/ z = d
  BY Zenon DEF AfterAck
<1> HIDE DEF z
<1>2. Rests(n, k) /\ Sane(k)
  BY AckRests, RestsSane
<1> HIDE DEF k
<1>3. Rests(k, a) /\ Sane(a)
  BY <1>2, MaybeCommitRests, RestsSane
<1> HIDE DEF a
<1>4. Rests(a, b) /\ Sane(b)
  BY <1>3, RestsSelf, SendTimeoutNowRests, RestsSane
<1> HIDE DEF b
<1>5. Leads(b, c) /\ Sane(c)
  BY <1>4, MaybePromoteLearnerLeads, RestsSane DEF Leads
<1> HIDE DEF c
<1>6. Rests(c, d)
  BY <1>5, SendAppendsRests
<1> HIDE DEF d
<1>7. Leads(n, a) /\ Rests(n, a)
  BY <1>2, <1>3, RestsTwice DEF Leads, Sane
<1>8. Rests(n, b)
  BY <1>4, <1>7, RestsTwice DEF Sane
<1>9. Leads(n, c)
  BY <1>5, <1>8, RestsLeads
<1>10. Leads(n, d)
  BY <1>6, <1>9, LeadsTwice
<1> QED
  BY <1>1, <1>7, <1>9, <1>10 DEF z

LEMMA PeersRest ==
  ASSUME NEW n, Sane(n), NEW r \in [Server -> Progress]
  PROVE  LET q == [n EXCEPT !.prs = r] IN Rests(n, q) /\ q.state = n.state
<1> DEFINE q == [n EXCEPT !.prs = r]
<1>1. n \in Node /\ n.commitIndex <= n.commitIndex
  BY NodeFields DEF Sane
<1>2. /\ q \in Node /\ q.log = n.log /\ q.confHistory = n.confHistory /\ q.id = n.id
      /\ q.term = n.term /\ q.state = n.state /\ q.out = n.out
      /\ q.panic = n.panic /\ q.commitIndex = n.commitIndex /\ q.learner = n.learner
  BY <1>1 DEF Node
<1> HIDE DEF q
<1>3. Rests(n, q)
  BY <1>1, <1>2, PrivateRests
<1> QED
  BY <1>2, <1>3 DEF q

LEMMA HandleAppRespLeads ==
  ASSUME NEW n, Sane(n), NEW m \in AppResp
  PROVE  Leads(n, HandleAppResp(n, m))
<1> DEFINE k == NextAfterReject(n, m)
           r == [n.prs EXCEPT ![m.from].recentActive = TRUE, ![m.from].next = k]
           b == [n EXCEPT !.prs = r]
<1>0. n \in Node
  BY DEF Sane
<1>1. m.from \in Server /\ m.matchIndex \in Nat /\ m.success \in BOOLEAN
  BY DEF AppResp
<1>2. Leads(n, AfterAck(n, m.from, m.matchIndex, TRUE)) /\ Leads(n, n)
  BY <1>1, AfterAckLeads, LeadsSelf
<1>3. ASSUME ~IgnoresAck(n, m), ~m.success
      PROVE  Leads(n, HandleAppResp(n, m))
  <2>1. k \in Nat \ {0} /\ n.prs[m.from] \in Progress /\ n.prs[m.from] # NoProgress
    BY <1>0, <1>1, <1>3, NodeFields, NextAfterRejectType DEF IgnoresAck
  <2> HIDE DEF k
  <2>2. r \in [Server -> Progress]
    <3> DEFINE p == [n.prs[m.from] EXCEPT !.recentActive = TRUE, !.next = k]
    <3>1. n.prs[m.from] \in [next : Nat \ {0}, match : Nat, recentActive : BOOLEAN,
                             pendingSnap : BOOLEAN]
      BY <2>1 DEF Progress
    <3>2. p \in Progress
      BY <2>1, <3>1 DEF Progress
    <3>3. r = [n.prs EXCEPT ![m.from] = p]
      BY <1>0, <1>1, NodeFields
    <3> HIDE DEF p, r
    <3> QED
      BY <1>0, <3>2, <3>3, NodeFields
  <2>3. HandleAppResp(n, m) =
          SendAppends([n EXCEPT !.prs[m.from].recentActive = TRUE,
                                !.prs[m.from].next = k], {m.from})
    BY <1>3, Zenon DEF HandleAppResp, k
  <2>4. [n EXCEPT !.prs[m.from].recentActive = TRUE, !.prs[m.from].next = k] = b
    BY <1>0, <1>1, NodeFields DEF Node
  <2> HIDE DEF r
  <2>5. Rests(n, b) /\ Sane(b)
    BY <2>2, PeersRest, RestsSane
  <2> HIDE DEF b
  <2>6. Rests(b, SendAppends(b, {m.from}))
    BY <1>1, <2>5, SendAppendsRests
  <2>7. Leads(n, SendAppends(b, {m.from}))
    BY <1>0, <2>5, <2>6, RestsTwice DEF Leads
  <2> QED
    BY <2>3, <2>4, <2>7, Zenon
<1> QED
  BY <1>2, <1>3, Zenon DEF HandleAppResp

LEMMA HandleSnapRespLeads ==
  ASSUME NEW n, Sane(n), NEW m \in SnapResp
  PROVE  Leads(n, HandleSnapResp(n, m))
<1>1. m.from \in Server /\ m.matchIndex \in Nat
  BY DEF SnapResp
<1>2. Leads(n, AfterAck(n, m.from, m.matchIndex, FALSE)) /\ Leads(n, n)
  BY <1>1, AfterAckLeads, LeadsSelf
<1> QED
  BY <1>2, Zenon DEF HandleSnapResp

LEMMA AddServerLeads ==
  ASSUME NEW n, Sane(n), NEW s \in Server
  PROVE  Leads(n, AddServer(n, s))
<1> DEFINE p == NewProgress(LastIndex(n.log) + 1)
           r == [n.prs EXCEPT ![s] = p]
           b == [n EXCEPT !.learner = s, !.prs = r]
<1>0. n \in Node /\ n.commitIndex <= n.commitIndex
  BY NodeFields DEF Sane
<1>1. p \in Progress /\ s \in OptServer
  BY <1>0, NodeFields, IndexType, NewProgressType DEF OptServer
<1> HIDE DEF p
<1>2. r \in [Server -> Progress]
  BY <1>0, <1>1, NodeFields
<1>3. [n EXCEPT !.learner = s, !.prs[s] = p] = b
  BY <1>0 DEF Node
<1> HIDE DEF r
<1>4. AddServer(n, s) = n \/ (AddServer(n, s) = SendAppends(b, {s}) /\ MayChangeConfig(n))
  BY <1>3, Zenon DEF AddServer, p
<1>5. /\ b \in Node /\ b.log = n.log /\ b.confHistory = n.confHistory /\ b.id = n.id
      /\ b.term = n.term /\ b.state = n.state /\ b.out = n.out
      /\ b.panic = n.panic /\ b.commitIndex = n.commitIndex
  BY <1>0, <1>1, <1>2 DEF Node
<1> HIDE DEF b
<1>6. ASSUME MayChangeConfig(n) PROVE Rests(n, b)
  <2>1. b.state = "Leader" /\ ~ConfigPending(b)
    BY <1>5, <1>6 DEF MayChangeConfig, ConfigPending
  <2>2. Sends(n, b)
    BY <1>5 DEF Sends
  <2>3. Sane(b)
    BY <1>5, <2>1 DEF Sane, Whole, Orderly
  <2> QED
    BY <1>0, <1>5, <2>2, <2>3 DEF Rests, StaysInTerm
<1>7. ASSUME MayChangeConfig(n) PROVE Rests(n, SendAppends(b, {s}))
  <2>1. Rests(n, b) /\ Sane(b)
    BY <1>6, <1>7, RestsSane
  <2>2. Rests(b, SendAppends(b, {s}))
    BY <2>1, SendAppendsRests
  <2> QED
    BY <1>0, <2>1, <2>2, RestsTwice
<1> QED
  BY <1>4, <1>7, RestsSelf DEF Leads

LEMMA RemoveServerLeads ==
  ASSUME NEW n, Sane(n), NEW s \in Server
  PROVE  Leads(n, RemoveServer(n, s))
<1> DEFINE data == Config(n) \ {s}
           a == AppendEntry(n, "Config", data)
           r == [a.prs EXCEPT ![s] = NoProgress]
           b == IF s = n.id THEN a ELSE [a EXCEPT !.prs[s] = NoProgress]
           q == MaybeCommitThenBroadcast(b)
<1>1. data \in SUBSET Server /\ n \in Node
  BY ReplicationTargetsType DEF Sane
<1>2. RemoveServer(n, s) = n \/ (RemoveServer(n, s) = q /\ MayChangeConfig(n))
  BY Zenon DEF RemoveServer
<1> HIDE DEF data
<1>3. CASE ~MayChangeConfig(n)
  BY <1>2, <1>3, LeadsSelf
<1>4. CASE MayChangeConfig(n)
  <2>1. Adds(n, a) /\ Sane(a) /\ a \in Node
    BY <1>1, <1>4, AppendEntryAdds, RestsSane DEF MayChangeConfig
  <2> HIDE DEF a
  <2>2. r \in [Server -> Progress]
    BY <2>1, NodeFields DEF Progress
  <2>3. [a EXCEPT !.prs[s] = NoProgress] = [a EXCEPT !.prs = r]
    BY <2>1, Zenon DEF Node
  <2> HIDE DEF r
  <2>4. Rests(a, [a EXCEPT !.prs = r])
    BY <2>1, <2>2, PeersRest
  <2>5. Rests(a, b)
    BY <2>1, <2>3, <2>4, RestsSelf
  <2> HIDE DEF b
  <2>6. Adds(n, b) /\ Sane(b)
    BY <1>1, <2>1, <2>5, AddsRests, RestsSane
  <2>7. Rests(b, q)
    BY <2>6, MaybeCommitThenBroadcastRests
  <2> HIDE DEF q
  <2>8. Adds(n, q)
    BY <1>1, <2>6, <2>7, AddsRests
  <2> QED
    BY <1>2, <2>8, LeadsSelf DEF Leads
<1> QED
  BY <1>3, <1>4

LEMMA TransferLeadershipLeads ==
  ASSUME NEW n, Sane(n), NEW target \in Server
  PROVE  Leads(n, TransferLeadership(n, target))
<1> DEFINE t == [n EXCEPT !.transferee = target]
<1>1. TransferLeadership(n, target)
        \in {n, SendTimeoutNow(t, target), SendAppends(t, {target})}
  BY Zenon DEF TransferLeadership
<1>2. n \in Node /\ n.commitIndex <= n.commitIndex /\ target \in OptServer
  BY NodeFields DEF Sane, OptServer
<1>3. /\ t \in Node /\ t.log = n.log /\ t.confHistory = n.confHistory /\ t.id = n.id
      /\ t.term = n.term /\ t.state = n.state /\ t.out = n.out
      /\ t.panic = n.panic /\ t.commitIndex = n.commitIndex /\ t.learner = n.learner
  BY <1>2 DEF Node
<1> HIDE DEF t
<1>4. Rests(n, t) /\ Sane(t)
  BY <1>2, <1>3, PrivateRests, RestsSane
<1>5. Rests(t, SendTimeoutNow(t, target)) /\ Rests(t, SendAppends(t, {target}))
  BY <1>4, SendTimeoutNowRests, SendAppendsRests
<1>6. Rests(n, SendTimeoutNow(t, target)) /\ Rests(n, SendAppends(t, {target}))
  BY <1>2, <1>4, <1>5, RestsTwice
<1> QED
  BY <1>1, <1>6, RestsSelf DEF Leads

LEMMA TickLeaderLeads ==
  ASSUME NEW n, Sane(n), NEW transferDue \in BOOLEAN,
         NEW quorumDue \in BOOLEAN, NEW heartbeatDue \in BOOLEAN
  PROVE  Leads(n, TickLeader(n, transferDue, quorumDue, heartbeatDue))
<1> DEFINE a == AfterTransferTick(n, transferDue)
           r == [s \in Server |->
                   IF s \in ReplicationTargets(a) /\ a.prs[s] # NoProgress
                   THEN NewPeriod(a.prs[s]) ELSE a.prs[s]]
           b == IF quorumDue THEN [a EXCEPT !.prs = r] ELSE a
           f == BecomeFollower(a, a.term, None)
<1>0. n \in Node /\ n.commitIndex <= n.commitIndex
  BY NodeFields DEF Sane
<1>1. TickLeader(n, transferDue, quorumDue, heartbeatDue) \in {f, BroadcastAppend(b), b}
  BY Zenon DEF TickLeader
<1>2. Rests(n, a) /\ Sane(a)
  <2> DEFINE t == [n EXCEPT !.transferee = None]
  <2>1. None \in OptServer
    BY DEF OptServer
  <2>2. /\ t \in Node /\ t.log = n.log /\ t.confHistory = n.confHistory /\ t.id = n.id
        /\ t.term = n.term /\ t.state = n.state /\ t.out = n.out
        /\ t.panic = n.panic /\ t.commitIndex = n.commitIndex /\ t.learner = n.learner
    BY <1>0, <2>1 DEF Node
  <2>3. a = t \/ a = n
    BY DEF AfterTransferTick
  <2> HIDE DEF t, a
  <2>4. Rests(n, t)
    BY <1>0, <2>2, PrivateRests
  <2> QED
    BY <2>3, <2>4, RestsSelf, RestsSane
<1> HIDE DEF a
<1>3. a \in Node /\ a.term \in Nat /\ a.term <= a.term /\ None \in OptServer
  BY <1>2, NodeFields DEF Sane, OptServer
<1>4. r \in [Server -> Progress]
  <2>1. \A s \in Server : a.prs[s] \in Progress
    BY <1>3, NodeFields
  <2>2. ASSUME NEW s \in Server, a.prs[s] # NoProgress
        PROVE  NewPeriod(a.prs[s]) \in Progress
    <3>1. a.prs[s] \in [next : Nat \ {0}, match : Nat, recentActive : BOOLEAN,
                        pendingSnap : BOOLEAN]
      BY <2>1, <2>2 DEF Progress
    <3> QED
      BY <3>1 DEF NewPeriod, Progress
  <2> QED
    BY <2>1, <2>2
<1> HIDE DEF r
<1>5. Rests(a, [a EXCEPT !.prs = r])
  BY <1>2, <1>4, PeersRest
<1>6. Rests(a, b) /\ Sane(b)
  BY <1>2, <1>5, RestsSelf, RestsSane
<1> HIDE DEF b
<1>7. Rests(b, BroadcastAppend(b)) /\ Rests(a, f)
  BY <1>2, <1>3, <1>6, BroadcastRests, StepDownRests
<1> HIDE DEF f
<1>8. Rests(n, b) /\ Rests(n, f)
  BY <1>0, <1>2, <1>6, <1>7, RestsTwice
<1>9. Rests(n, BroadcastAppend(b))
  BY <1>0, <1>7, <1>8, RestsTwice
<1> QED
  BY <1>1, <1>8, <1>9 DEF Leads

-----------------------------------------------------------------------------
(* What the other servers do *)

\* q is in a later term than n, or in one that n has stood for and not won.
Unled(n, q) == n.term < q.term \/ (n.state = "Candidate" /\ q.term = n.term)

\* q does not lead and has sent no entries.
Waits(n, q) ==
  /\ q \in Node /\ q.id = n.id /\ n.term <= q.term /\ q.state # "Leader"
  /\ q.learner = None
  /\ q.state = "Candidate" => Unled(n, q)
  /\ \A m \in q.out : m.type = "App" => m \in n.out

Idles(n, q) == Waits(n, q) /\ q.log = n.log /\ q.confHistory = n.confHistory

\* q has become the leader, and appended the first entry of its term.
TakesOver(n, q) ==
  /\ Sane(q) /\ q.id = n.id /\ n.term <= q.term /\ q.state = "Leader" /\ Unled(n, q)
  /\ Extends(n.log.entries, q.log.entries, q.term, q.commitIndex)
  /\ Sends(n, q)

LEMMA WaitsTwice ==
  ASSUME NEW n \in Node, NEW p, NEW q, Waits(n, p), Waits(p, q)
  PROVE  Waits(n, q)
<1>1. n.term \in Nat /\ p.term \in Nat /\ q.term \in Nat
  BY NodeFields DEF Waits
<1>2. n.term <= p.term /\ p.term <= q.term
  BY DEF Waits
<1>3. n.term <= q.term /\ (p.term < q.term => n.term < q.term)
      /\ (n.term < p.term => n.term < q.term)
  BY <1>1, <1>2
<1>4. q.state = "Candidate" => Unled(n, q)
  BY <1>3 DEF Waits, Unled
<1> QED
  BY <1>3, <1>4 DEF Waits

LEMMA IdlesTwice ==
  ASSUME NEW n \in Node, NEW p, NEW q, Idles(n, p), Idles(p, q)
  PROVE  Idles(n, q)
BY WaitsTwice DEF Idles

LEMMA IdlesSane ==
  ASSUME NEW n, Sane(n), NEW q, Idles(n, q)
  PROVE  Sane(q) /\ q \in Node /\ q.state # "Leader"
BY DEF Sane, Idles, Waits, Whole, Orderly

LEMMA IdlesTakesOver ==
  ASSUME NEW n \in Node, NEW p, NEW q, Idles(n, p), TakesOver(p, q)
  PROVE  TakesOver(n, q)
<1>1. n.term \in Nat /\ p.term \in Nat /\ q.term \in Nat
  BY NodeFields DEF Idles, Waits, TakesOver, Sane
<1>2. n.term <= p.term /\ p.term <= q.term
  BY DEF Idles, Waits, TakesOver
<1>3. n.term <= q.term /\ (p.term < q.term => n.term < q.term)
      /\ (n.term < p.term => n.term < q.term)
  BY <1>1, <1>2
<1>4. Unled(n, q)
  BY <1>3 DEF Idles, Waits, TakesOver, Unled
<1>5. Sends(n, q)
  BY DEF Sends, Idles, Waits, TakesOver
<1> QED
  BY <1>3, <1>4, <1>5 DEF TakesOver, Idles, Waits

\* Steps that change neither the log nor the role, for the better.
LEMMA IdlesStep ==
  ASSUME NEW n, Sane(n), NEW q \in Node, q.log = n.log, q.confHistory = n.confHistory,
         q.id = n.id, n.term <= q.term, q.state # "Leader",
         q.learner = None \/ (q.learner = n.learner /\ n.state # "Leader"),
         q.state = "Candidate" => Unled(n, q),
         \A m \in q.out : m \in n.out \/ m.type # "App"
  PROVE  Idles(n, q)
BY DEF Idles, Waits, Sane, Orderly

LEMMA IdlesSelf ==
  ASSUME NEW n, Sane(n), n.state # "Leader"
  PROVE  Idles(n, n)
<1>1. n \in Node /\ n.term <= n.term
  BY NodeFields DEF Sane
<1> QED
  BY <1>1, IdlesStep DEF Unled

LEMMA SendIdles ==
  ASSUME NEW n, Sane(n), n.state # "Leader", NEW msgs \in SUBSET Message,
         \A m \in msgs : m.type # "App"
  PROVE  Idles(n, Send(n, msgs))
<1> DEFINE q == Send(n, msgs)
<1>1. n \in Node /\ n.term <= n.term
  BY NodeFields DEF Sane
<1>2. /\ q \in Node /\ q.log = n.log /\ q.confHistory = n.confHistory /\ q.id = n.id
      /\ q.term = n.term /\ q.state = n.state /\ q.out = n.out \cup msgs
      /\ q.learner = n.learner
  BY <1>1 DEF Send, Node
<1> HIDE DEF q
<1>3. Idles(n, q)
  BY <1>1, <1>2, IdlesStep DEF Unled
<1> QED
  BY <1>3 DEF q

\* A node that steps down, in its term or for a later one.
LEMMA BecomeFollowerIdles ==
  ASSUME NEW n, Sane(n), NEW term \in Nat, NEW leader \in OptServer
  PROVE  /\ Idles(n, BecomeFollower(n, term, leader))
         /\ BecomeFollower(n, term, leader).state = "Follower"
         /\ term >= n.term => BecomeFollower(n, term, leader).term = term
<1> DEFINE q == BecomeFollower(n, term, leader)
<1>1. n \in Node /\ n.term \in Nat
  BY NodeFields DEF Sane
<1>2. q \in Node
  BY <1>1, BecomeFollowerFollows DEF Follows
<1>3. /\ q.log = n.log /\ q.confHistory = n.confHistory /\ q.id = n.id
      /\ q.term = IF term > n.term THEN term ELSE n.term
      /\ q.state = "Follower" /\ q.out = n.out /\ q.learner = None
  BY <1>1 DEF BecomeFollower, Node
<1> HIDE DEF q
<1>4. n.term <= q.term /\ (term >= n.term => q.term = term)
  BY <1>1, <1>3
<1>5. Idles(n, q)
  BY <1>2, <1>3, <1>4, IdlesStep
<1> QED
  BY <1>3, <1>4, <1>5 DEF q

-----------------------------------------------------------------------------
(* Elections *)

\* A new leader that is not in its configuration counts nobody's log.
LEMMA OutsideCountsNothing ==
  ASSUME NEW n \in Node, n.id \notin Config(n), \A v \in Config(n) : n.prs[v].match = 0,
         Cardinality(Config(n)) >= Quorum(Config(n)), Config(n) # {}
  PROVE  QuorumMatch(n) = 0
<1> DEFINE C == Config(n)
           K == {MatchOf(n, v) : v \in C}
           S == {k \in K : Cardinality({v \in C : MatchOf(n, v) >= k}) >= Quorum(C)}
<1>1. \A v \in C : MatchOf(n, v) = 0
  BY DEF MatchOf
<1>2. K = {0}
  BY <1>1
<1>3. {v \in C : MatchOf(n, v) >= 0} = C
  BY <1>1
<1>4. S = {0}
  BY <1>2, <1>3
<1>5. QuorumMatch(n) = Max(S)
  BY Zenon DEF QuorumMatch
<1>6. 0 \in Int /\ {0, 0} = {0} /\ Max({0, 0}) = 0
  BY MaxOfTwo
<1> QED
  BY <1>4, <1>5, <1>6, Zenon

\* A new leader does not step down at once, be it alone in its configuration.
LEMMA CommitsLeading ==
  ASSUME NEW n, Sane(n), n.state = "Leader", \A v \in Server : n.prs[v].match = 0,
         Cardinality(Config(n)) >= Quorum(Config(n)), Config(n) # {}
  PROVE  MaybeCommit(n).state = "Leader"
<1> DEFINE k == QuorumMatch(n)
           b == [n EXCEPT !.commitIndex = k]
           a == ApplyCommitted(b)
           c == AfterCommit(a)
           g == BroadcastAppend(c)
           Go == n.state = "Leader" /\ k \in n.commitIndex + 1 .. LastIndex(n.log)
                   /\ CommittableAt(n, k)
<1>1. MaybeCommit(n) = IF Go THEN (IF c.state = "Leader" THEN g ELSE c) ELSE n
  BY Zenon DEF MaybeCommit
<1>2. n \in Node /\ n.commitIndex \in Nat /\ LastIndex(n.log) \in Nat
      /\ Config(n) \in SUBSET Server
  BY NodeFields, IndexType, ReplicationTargetsType DEF Sane
<1>3. CASE Go
  <2>1. k \in Nat /\ n.commitIndex <= k /\ k # 0
    BY <1>2, <1>3
  <2>2. n.id \in Config(n)
    BY <1>2, <2>1, OutsideCountsNothing
  <2> HIDE DEF k
  <2>3. Sane(b) /\ b.state = "Leader"
    BY <2>1, CommitRests, RestsSane
  <2>4. b.id = n.id /\ b.confHistory = n.confHistory
    BY <1>2, <2>1 DEF Node
  <2> HIDE DEF b
  <2>5. Rests(b, a) /\ Sane(a) /\ a.state = "Leader"
    BY <2>3, ApplyCommittedRests, RestsSane
  <2>6. a.id = b.id /\ a.confHistory = b.confHistory
    BY <2>5, <2>3 DEF Rests, StaysInTerm, Sane, Whole
  <2>7. a.id \in Config(a)
    BY <2>2, <2>4, <2>6 DEF Config
  <2> HIDE DEF a
  <2>8. c = a
    BY <2>7 DEF AfterCommit
  <2>9. g.state = "Leader" /\ c.state = "Leader"
    BY <2>5, <2>8, BroadcastRests
  <2> QED
    BY <1>1, <1>3, <2>9
<1>4. CASE ~Go
  <2>1. MaybeCommit(n) = n
    BY <1>1, <1>4, Zenon
  <2> QED
    BY <2>1
<1> QED
  BY <1>3, <1>4

\* Votes of a quorum are votes of somebody.
LEMMA VotersExist ==
  ASSUME NEW n \in Node, VotesReach(n, "yes")
  PROVE  Cardinality(Config(n)) >= Quorum(Config(n)) /\ Config(n) # {}
<1> DEFINE C == Config(n)
           A == {v \in C : n.votes[v] = "yes"}
<1>1. C \in SUBSET Server /\ IsFiniteSet(C)
  BY ReplicationTargetsType, ServerAssumption, FS_Subset
<1>2. IsFiniteSet(A) /\ Cardinality(A) <= Cardinality(C)
  BY <1>1, FS_Subset
<1>3. Cardinality(A) \in Nat /\ Cardinality(C) \in Nat
  BY <1>1, <1>2, FS_CardinalityType
<1>4. Cardinality(A) >= Quorum(C)
  BY DEF VotesReach
<1> HIDE DEF A, C
<1>5. Quorum(C) \in Nat /\ Quorum(C) > 0
  BY <1>3 DEF Quorum
<1>6. Cardinality(C) >= Quorum(C) /\ Cardinality(C) # 0
  BY <1>2, <1>3, <1>4, <1>5
<1>7. C # {}
  BY <1>6, FS_EmptySet
<1> QED
  BY <1>6, <1>7 DEF C

LEMMA BecomeLeaderTakesOver ==
  ASSUME NEW n, Sane(n), n.state = "Candidate", VotesReach(n, "yes")
  PROVE  TakesOver(n, BecomeLeader(n))
<1> DEFINE r == [s \in Server |->
                   IF s \in Config(n) \ {n.id} THEN NewProgress(LastIndex(n.log) + 1)
                   ELSE NoProgress]
           lead == [n EXCEPT !.state = "Leader", !.leaderID = n.id, !.votes = NoVotes,
                             !.transferee = None, !.prs = r]
           a == AppendEntry(lead, "Noop", None)
           c == MaybeCommit(a)
           q == BroadcastAppend(c)
<1>0. n \in Node /\ n.learner = None /\ n.term \in Nat
  BY NodeFields DEF Sane, Orderly
<1>1. r \in [Server -> Progress] /\ \A s \in Server : r[s].match = 0
  <2>1. NewProgress(LastIndex(n.log) + 1) \in Progress /\ NoProgress \in Progress
    BY <1>0, NodeFields, IndexType, NewProgressType DEF Progress
  <2>2. NewProgress(LastIndex(n.log) + 1).match = 0 /\ NoProgress.match = 0
    BY DEF NewProgress, NoProgress
  <2> QED
    BY <2>1, <2>2
<1>2. NoVotes \in [Server -> {"none", "yes", "no"}] /\ n.id \in OptServer
      /\ None \in OptServer /\ "Leader" \in States
  BY <1>0, NodeFields DEF NoVotes, OptServer, States
<1>3. BecomeLeader(n) = q
  BY Zenon DEF BecomeLeader
<1> HIDE DEF r
<1>4. /\ lead \in Node /\ lead.id = n.id /\ lead.term = n.term /\ lead.state = "Leader"
      /\ lead.log = n.log /\ lead.confHistory = n.confHistory /\ lead.learner = None
      /\ lead.prs = r /\ lead.out = n.out /\ lead.panic = n.panic
      /\ lead.commitIndex = n.commitIndex
  BY <1>0, <1>1, <1>2 DEF Node
<1> HIDE DEF lead
<1>5. Sane(lead)
  BY <1>4 DEF Sane, Whole, Orderly
<1>6. Adds(lead, a) /\ Sane(a)
  BY <1>5, AppendEntryAdds, RestsSane
<1>7. Appended(lead, a, "Noop")
  BY <1>4, AppendEntryAppended
<1> HIDE DEF a
<1>8. a.prs = r /\ a.state = "Leader" /\ a.id = n.id
  BY <1>4, <1>7 DEF Appended
<1>9. a.confHistory = n.confHistory
  <2>1. PICK e \in Entry : e.type = "Noop" /\ a.confHistory = lead.confHistory \cup ConfigRecords(<<e>>)
    BY <1>7 DEF Appended
  <2>2. Plain(<<e>>)
    BY <2>1 DEF Plain
  <2> QED
    BY <1>4, <2>1, <2>2, PlainRecords
<1>10. Cardinality(Config(a)) >= Quorum(Config(a)) /\ Config(a) # {}
  BY <1>0, <1>9, VotersExist DEF Config
<1>11. c.state = "Leader" /\ Rests(a, c) /\ Sane(c)
  BY <1>1, <1>6, <1>8, <1>10, CommitsLeading, MaybeCommitRests, RestsSane
<1> HIDE DEF c
<1>12. q.state = "Leader" /\ Rests(c, q) /\ Sane(q)
  BY <1>11, BroadcastRests, RestsSane
<1> HIDE DEF q
<1>13. Adds(lead, c)
  BY <1>4, <1>6, <1>11, AddsRests
<1>14. Adds(lead, q)
  BY <1>4, <1>12, <1>13, AddsRests
<1>15. q.id = n.id /\ q.term = n.term /\ Sends(n, q) /\ n.term <= n.term
       /\ Extends(n.log.entries, q.log.entries, q.term, q.commitIndex)
  BY <1>0, <1>4, <1>14 DEF Adds, StaysInTerm, Sends
<1> QED
  BY <1>3, <1>12, <1>15 DEF TakesOver, Unled

\* What comes of standing for election.
RunsFor(n, q) == Idles(n, q) \/ TakesOver(n, q)

LEMMA IdlesStands ==
  ASSUME NEW n \in Node, NEW p, NEW q, Idles(n, p), RunsFor(p, q)
  PROVE  RunsFor(n, q)
BY IdlesTwice, IdlesTakesOver DEF RunsFor

LEMMA RequestVotesIdles ==
  ASSUME NEW n, Sane(n), n.state # "Leader", NEW term \in Nat, NEW pre \in BOOLEAN,
         NEW force \in BOOLEAN
  PROVE  Idles(n, RequestVotes(n, term, pre, force))
<1> DEFINE msgs ==
             {[type |-> "Vote", from |-> n.id, to |-> v, term |-> term,
               preVote |-> pre, force |-> force,
               lastLogIndex |-> LastIndex(n.log), lastLogTerm |-> LastTerm(n.log)] :
              v \in Config(n) \ {n.id}}
<1>1. /\ n.id \in Server /\ Config(n) \in SUBSET Server
      /\ LastIndex(n.log) \in Nat /\ LastTerm(n.log) \in Nat
  BY NodeFields, ReplicationTargetsType, IndexType, TermAtType DEF LastTerm, Sane
<1>2. \A m \in msgs : m \in Message /\ m.type # "App"
  BY <1>1 DEF VoteReq, Message
<1>3. RequestVotes(n, term, pre, force) = Send(n, msgs)
  BY Zenon DEF RequestVotes
<1> HIDE DEF msgs
<1> QED
  BY <1>2, <1>3, SendIdles

LEMMA ElectStands ==
  ASSUME NEW n, Sane(n), n.state # "Leader", NEW force \in BOOLEAN
  PROVE  RunsFor(n, Elect(n, force))
<1> DEFINE c == BecomeCandidate(n)
<1>1. n \in Node /\ n.term \in Nat
  BY NodeFields DEF Sane
<1>a. c \in Node
  BY <1>1, BecomeCandidateFollows DEF Follows
<1>2. /\ c.log = n.log /\ c.confHistory = n.confHistory
      /\ c.id = n.id /\ c.term = n.term + 1 /\ c.state = "Candidate"
      /\ c.out = n.out /\ c.learner = n.learner
  BY <1>1 DEF BecomeCandidate, Node
<1> HIDE DEF c
<1>3. n.term <= c.term /\ n.term < c.term
  BY <1>1, <1>2
<1>4. Idles(n, c) /\ Sane(c) /\ c.term \in Nat
  BY <1>a, <1>2, <1>3, IdlesStep, IdlesSane, NodeFields DEF Unled
<1>5. VotesReach(c, "yes") => TakesOver(c, BecomeLeader(c))
  BY <1>2, <1>4, BecomeLeaderTakesOver
<1>6. Idles(c, RequestVotes(c, c.term, FALSE, force))
  BY <1>2, <1>4, RequestVotesIdles
<1>7. Elect(n, force) = IF VotesReach(c, "yes") THEN BecomeLeader(c)
                        ELSE RequestVotes(c, c.term, FALSE, force)
  BY Zenon DEF Elect, c
<1> QED
  BY <1>1, <1>4, <1>5, <1>6, <1>7, IdlesTwice, IdlesTakesOver DEF RunsFor

LEMMA PreElectStands ==
  ASSUME NEW n, Sane(n), n.state # "Leader", NEW force \in BOOLEAN
  PROVE  RunsFor(n, PreElect(n, force))
<1> DEFINE c == BecomePreCandidate(n)
<1>1. n \in Node /\ n.term \in Nat /\ OwnVote(n) \in [Server -> {"none", "yes", "no"}]
      /\ None \in OptServer
  BY NodeFields, OwnVoteType DEF Sane, OptServer
<1>2. /\ c \in Node /\ c.log = n.log /\ c.confHistory = n.confHistory
      /\ c.id = n.id /\ c.term = n.term /\ c.state = "PreCandidate"
      /\ c.out = n.out /\ c.learner = n.learner
  BY <1>1 DEF BecomePreCandidate, Node, States, OptServer
<1> HIDE DEF c
<1>3. n.term <= c.term /\ c.term + 1 \in Nat
  BY <1>1, <1>2
<1>4. Idles(n, c) /\ Sane(c)
  BY <1>2, <1>3, IdlesStep, IdlesSane
<1>5. RunsFor(c, Elect(c, force)) /\ RunsFor(c, RequestVotes(c, c.term + 1, TRUE, force))
  BY <1>2, <1>3, <1>4, ElectStands, RequestVotesIdles DEF RunsFor
<1>6. PreElect(n, force) = IF VotesReach(c, "yes") THEN Elect(c, force)
                           ELSE RequestVotes(c, c.term + 1, TRUE, force)
  BY Zenon DEF PreElect, c
<1> QED
  BY <1>1, <1>4, <1>5, <1>6, IdlesStands

LEMMA CampaignStands ==
  ASSUME NEW n, Sane(n), n.state # "Leader", NEW pre \in BOOLEAN, NEW force \in BOOLEAN
  PROVE  RunsFor(n, Campaign(n, pre, force))
BY IdlesSelf, ElectStands, PreElectStands DEF Campaign, RunsFor

LEMMA CountedIdles ==
  ASSUME NEW n, Sane(n), n.state # "Leader", NEW m \in VoteResp
  PROVE  /\ Idles(n, Counted(n, m)) /\ Counted(n, m).state = n.state
         /\ Counted(n, m).term = n.term
<1> DEFINE q == Counted(n, m)
<1>1. n \in Node /\ n.term <= n.term /\ q \in Node
  BY NodeFields, CountedQuiet DEF Sane, Quiet
<1>2. /\ q.log = n.log /\ q.confHistory = n.confHistory /\ q.id = n.id
      /\ q.term = n.term /\ q.state = n.state /\ q.out = n.out /\ q.learner = n.learner
  BY <1>1 DEF Counted, Node
<1> HIDE DEF q
<1>3. Idles(n, q)
  BY <1>1, <1>2, IdlesStep DEF Unled
<1> QED
  BY <1>2, <1>3 DEF q

LEMMA HandleVoteRespStands ==
  ASSUME NEW n, Sane(n), n.state # "Leader", NEW m \in VoteResp
  PROVE  RunsFor(n, HandleVoteResp(n, m))
<1> DEFINE c == Counted(n, m)
           q == HandleVoteResp(n, m)
           f == BecomeFollower(c, c.term, None)
<1>1. Idles(n, c) /\ Sane(c) /\ c.state = n.state /\ n \in Node /\ c \in Node
      /\ c.term \in Nat /\ None \in OptServer
  BY CountedIdles, IdlesSane, NodeFields DEF Sane, OptServer
<1>2. \/ q = n \/ q = c \/ q = f \/ q = Campaign(c, FALSE, FALSE)
      \/ (n.state = "Candidate" /\ VotesReach(c, "yes") /\ q = BecomeLeader(c))
  BY Zenon DEF HandleVoteResp, HandlePreVoteResp, HandleRealVoteResp
<1> HIDE DEF c, q
<1>3. Idles(c, f) /\ Idles(c, c)
  BY <1>1, BecomeFollowerIdles, IdlesSelf
<1>4. RunsFor(c, Campaign(c, FALSE, FALSE))
  BY <1>1, CampaignStands
<1>5. CASE n.state = "Candidate" /\ VotesReach(c, "yes") /\ q = BecomeLeader(c)
  <2>1. TakesOver(c, q)
    BY <1>1, <1>5, BecomeLeaderTakesOver
  <2> QED
    BY <1>1, <2>1, IdlesStands DEF RunsFor, q
<1>6. CASE q = n
  BY <1>6, IdlesSelf DEF RunsFor, q
<1>7. CASE q = c \/ q = f \/ q = Campaign(c, FALSE, FALSE)
  <2>1. RunsFor(c, q)
    BY <1>3, <1>4, <1>7 DEF RunsFor
  <2> QED
    BY <1>1, <2>1, IdlesStands DEF q
<1> QED
  BY <1>2, <1>5, <1>6, <1>7

LEMMA HandleTimeoutNowStands ==
  ASSUME NEW n, Sane(n), n.state # "Leader", NEW m
  PROVE  RunsFor(n, HandleTimeoutNow(n, m))
BY CampaignStands DEF HandleTimeoutNow

-----------------------------------------------------------------------------
(* AppendEntries at a follower *)

\* A log with an entry of c's, by index and term, agrees with c up to it.
LEMMA SameRooted ==
  ASSUME NEW L \in [Nat -> Seq(Entry)], NEW l \in Log, l.snapIndex = 0,
         RootedIn(L, l.entries), NEW c \in Seq(Entry), RootedIn(L, c),
         NEW i \in Nat, i <= Len(c), SameAt(l, i, TermOf(c, i))
  PROVE  Agree(l.entries, c, i)
<1> DEFINE a == l.entries
<1>1. a \in Seq(Entry) /\ Len(a) \in Nat /\ Len(c) \in Nat /\ LastIndex(l) = Len(a)
  BY LogFields, LenProperties DEF LastIndex
<1>2. i \in 0 .. Len(a) /\ TermAt(l, i) = TermOf(c, i)
  BY <1>1 DEF SameAt, HasTerm
<1>3. CASE i = 0
  BY <1>1, <1>3 DEF Agree
<1>4. CASE i # 0
  <2>1. i \in 1 .. Len(a) /\ i \in 1 .. Len(c)
    BY <1>1, <1>2, <1>4
  <2>2. a[i].term = c[i].term
    <3>1. TermAt(l, i) = a[i].term
      BY <1>1, <1>2, <1>4 DEF TermAt, HasTerm
    <3> QED
      BY <1>2, <1>4, <3>1 DEF TermOf
  <2> HIDE DEF a
  <2> QED
    BY <1>1, <2>1, <2>2, RootedAgree DEF a
<1> QED
  BY <1>3, <1>4

\* The log's first prev + k - 1 entries, then those of ents from k on.
Splices(a, b, prev, ents, k) ==
  /\ k \in 1 .. Len(ents) /\ prev + k - 1 <= Len(a)
  /\ b = SubSeq(a, 1, prev + k - 1) \o SubSeq(ents, k, Len(ents))

LEMMA SpliceIndex ==
  ASSUME NEW prev \in Nat, NEW k \in Nat \ {0}, NEW m \in Nat, k <= m,
         NEW lo, lo = prev + k - 1, NEW i \in 1 .. prev + m, ~(i <= lo),
         NEW u, u = i - lo, NEW w, w = k + u - 1
  PROVE  u \in 1 .. m - k + 1 /\ w \in 1 .. m /\ prev + w = i
OBVIOUS

LEMMA SplicedAgrees ==
  ASSUME NEW a \in Seq(Entry), NEW b, NEW c \in Seq(Entry), NEW prev \in Nat,
         NEW ents \in Seq(Entry), NEW k, Splices(a, b, prev, ents, k),
         prev + Len(ents) <= Len(c), \A j \in 1 .. Len(ents) : ents[j] = c[prev + j],
         Agree(a, c, prev + k - 1)
  PROVE  b \in Seq(Entry) /\ Agree(b, c, Len(b))
<1> DEFINE lo == prev + k - 1
           x == SubSeq(a, 1, lo)
           y == SubSeq(ents, k, Len(ents))
<1>1. /\ k \in Nat \ {0} /\ k <= Len(ents) /\ Len(ents) \in Nat /\ Len(a) \in Nat
      /\ Len(c) \in Nat /\ lo \in Nat /\ lo <= Len(a)
  BY LenProperties DEF Splices
<1>2. x \in Seq(Entry) /\ Len(x) = lo /\ \A i \in 1 .. lo : x[i] = a[i]
  <2>1. lo \in Int /\ 1 \in Nat \ {0}
    BY <1>1
  <2> HIDE DEF lo
  <2>2. Len(x) = IF 1 <= lo THEN lo - 1 + 1 ELSE 0
    BY <1>1, <2>1, PartFields
  <2>3. x \in Seq(Entry) /\ \A i \in 1 .. Len(x) : x[i] = a[1 + i - 1]
    BY <1>1, <2>1, PartFields
  <2>4. Len(x) = lo /\ \A i \in 1 .. lo : 1 + i - 1 = i
    BY <1>1, <2>2
  <2> QED
    BY <2>3, <2>4
<1>3. y \in Seq(Entry) /\ Len(y) = Len(ents) - k + 1
      /\ \A i \in 1 .. Len(y) : y[i] = ents[k + i - 1]
  <2>1. Len(ents) \in Int /\ Len(ents) <= Len(ents)
    BY <1>1
  <2>2. Len(y) = IF k <= Len(ents) THEN Len(ents) - k + 1 ELSE 0
    BY <1>1, <2>1, PartFields
  <2>3. y \in Seq(Entry) /\ \A i \in 1 .. Len(y) : y[i] = ents[k + i - 1]
    BY <1>1, <2>1, PartFields
  <2> QED
    BY <1>1, <2>2, <2>3
<1>4. b = x \o y
  BY DEF Splices
<1> HIDE DEF x, y
<1>a. /\ x \o y \in Seq(Entry) /\ Len(x \o y) = Len(x) + Len(y)
      /\ \A i \in 1 .. Len(x) + Len(y) :
           (x \o y)[i] = IF i <= Len(x) THEN x[i] ELSE y[i - Len(x)]
  <2>1. x \in Seq(Entry) /\ y \in Seq(Entry)
    BY <1>2, <1>3
  <2> QED
    BY <2>1, ConcatProperties
<1>5. /\ b \in Seq(Entry) /\ Len(b) = Len(x) + Len(y)
      /\ \A i \in 1 .. Len(b) : b[i] = IF i <= Len(x) THEN x[i] ELSE y[i - Len(x)]
  BY <1>4, <1>a
<1>6. Len(b) = prev + Len(ents) /\ Len(b) <= Len(c) /\ Len(b) \in Nat
  BY <1>1, <1>2, <1>3, <1>5
<1>7. ASSUME NEW i \in 1 .. Len(b) PROVE b[i] = c[i]
  <2>1. CASE i <= lo
    <3>1. i \in 1 .. lo
      BY <1>1, <2>1
    <3> HIDE DEF lo
    <3> QED
      BY <1>2, <1>5, <2>1, <3>1 DEF Agree, lo
  <2>2. CASE ~(i <= lo)
    <3> DEFINE u == i - lo
               w == k + u - 1
    <3>1. u \in 1 .. Len(y) /\ w \in 1 .. Len(ents) /\ prev + w = i
      <4>1. i \in 1 .. prev + Len(ents)
        BY <1>6
      <4>2. Len(y) = Len(ents) - k + 1
        BY <1>3
      <4>3. lo = prev + k - 1 /\ u = i - lo /\ w = k + u - 1
        OBVIOUS
      <4> HIDE DEF lo, u, w
      <4>4. u \in 1 .. Len(ents) - k + 1 /\ w \in 1 .. Len(ents) /\ prev + w = i
        BY <1>1, <2>2, <4>1, <4>3, SpliceIndex
      <4> QED
        BY <4>2, <4>4
    <3>2. b[i] = y[u]
      BY <1>2, <1>5, <2>2
    <3> HIDE DEF u
    <3>3. y[u] = ents[w]
      BY <1>3, <3>1
    <3> HIDE DEF w
    <3>4. ents[w] = c[prev + w]
      BY <3>1
    <3> QED
      BY <3>1, <3>2, <3>3, <3>4
  <2> QED
    BY <2>1, <2>2
<1> QED
  BY <1>5, <1>6, <1>7 DEF Agree

\* q is n with the entries of ents from the first that n lacks.
Accepted(n, q, prev, ents) ==
  /\ q \in Node /\ q.id = n.id /\ q.term = n.term /\ q.state = n.state
  /\ q.out = n.out /\ q.learner = n.learner
  /\ \E k : /\ Splices(n.log.entries, q.log.entries, prev, ents, k)
            /\ \A u \in 1 .. k - 1 : SameAt(n.log, ents[u].index, ents[u].term)

LEMMA AcceptEntriesAccepted ==
  ASSUME NEW n \in Node, n.log.snapIndex = 0, NEW prev \in Nat, HasTerm(n.log, prev),
         NEW ents \in Seq(Entry), WellLogged(prev, ents)
  PROVE  AcceptEntries(n, ents) = n \/ Accepted(n, AcceptEntries(n, ents), prev, ents)
<1> DEFINE differs  == {k \in 1 .. Len(ents) : ~SameAt(n.log, ents[k].index, ents[k].term)}
           k        == Min(differs)
           at       == ents[k].index
           new      == SubSeq(ents, k, Len(ents))
           conflict == HasTerm(n.log, at)
           base     == IF conflict THEN TruncateFrom(n.log, at) ELSE n.log
           confs    == IF conflict THEN TruncateConfigsFrom(n.confHistory, at)
                       ELSE n.confHistory
           l        == AppendLog(base, new)
           h        == confs \cup ConfigRecords(new)
           i        == MarkAppended(n, at)
           x        == \/ n.panic
                       \/ conflict /\ at <= n.commitIndex
                       \/ at # LastIndex(base) + 1
           q        == [n EXCEPT !.log = l, !.confHistory = h, !.appendedFrom = i,
                                 !.panic = x]
           es       == n.log.entries
<1>1. n.log \in Log /\ es \in Seq(Entry) /\ Len(es) \in Nat /\ LastIndex(n.log) = Len(es)
      /\ Len(ents) \in Nat
  BY NodeFields, LogFields, LenProperties DEF LastIndex
<1>2. CASE differs = {}
  BY <1>2, Zenon DEF AcceptEntries
<1>3. CASE differs # {}
  <2>1. k \in 1 .. Len(ents) /\ \A u \in 1 .. k - 1 : SameAt(n.log, ents[u].index, ents[u].term)
    <3>1. differs \in SUBSET Nat
      BY LenProperties
    <3>2. k \in differs /\ \A u \in differs : k <= u
      BY <1>3, <3>1, MinOfNat, Zenon
    <3>3. Len(ents) \in Nat /\ k \in 1 .. Len(ents)
      BY <3>2, LenProperties
    <3> HIDE DEF k
    <3>4. \A u \in 1 .. k - 1 : u \in 1 .. Len(ents) /\ ~(k <= u)
      BY <3>3
    <3> QED
      BY <3>2, <3>3, <3>4
  <2>2. AcceptEntries(n, ents) = q
    BY <1>3, Zenon DEF AcceptEntries
  <2>3. q \in Node
    <3>1. Quiet(n, AcceptEntries(n, ents))
      BY AcceptEntriesQuiet
    <3>2. AcceptEntries(n, ents) \in Node
      BY <3>1, Zenon DEF Quiet
    <3> QED
      BY <2>2, <3>2, Zenon
  <2> HIDE DEF k
  <2>4. at = prev + k /\ n.log.snapIndex < at /\ at <= LastIndex(n.log) + 1
    BY <1>1, <2>1, FirstDiffers
  <2> HIDE DEF new, at
  <2>5. k \in Nat /\ at \in Nat /\ at - 1 = prev + k - 1 /\ at - 1 <= Len(es)
        /\ at - n.log.snapIndex - 1 = at - 1
    BY <1>1, <2>1, <2>4
  <2>6. ~conflict => at - 1 = Len(es)
    BY <1>1, <2>4, <2>5 DEF HasTerm
  <2>7. base.entries = SubSeq(es, 1, at - 1) /\ base \in Log
    <3>1. CASE conflict
      <4>1. TruncateFrom(n.log, at) \in Log
        BY <1>1, <2>4, <2>5, TruncateFromType
      <4> QED
        BY <1>1, <2>5, <3>1, <4>1 DEF TruncateFrom, Log
    <3>2. CASE ~conflict
      <4>1. SubSeq(es, 1, at - 1) = es
        BY <1>1, <2>6, <3>2, SubSeqFull
      <4> QED
        BY <1>1, <3>2, <4>1
    <3> QED
      BY <3>1, <3>2
  <2>8. l.entries = SubSeq(es, 1, prev + k - 1) \o new
    BY <2>5, <2>7 DEF AppendLog, Log
  <2> HIDE DEF base, confs, conflict, l, h, i, x
  <2>9. /\ q.log = l /\ q.id = n.id /\ q.term = n.term /\ q.state = n.state
        /\ q.out = n.out /\ q.learner = n.learner
    BY DEF Node
  <2> HIDE DEF q
  <2>10. Splices(es, q.log.entries, prev, ents, k)
    BY <2>1, <2>5, <2>8, <2>9 DEF Splices, new
  <2> QED
    BY <2>1, <2>2, <2>3, <2>9, <2>10 DEF Accepted
<1> QED
  BY <1>2, <1>3

\* Answers and commitment leave the log of a follower alone.
Passive(n) == n \in Node /\ n.state # "Leader" /\ n.learner = None

LEMMA PassiveIdles ==
  ASSUME NEW n, Passive(n), NEW q \in Node, q.log = n.log, q.confHistory = n.confHistory,
         q.id = n.id, q.term = n.term, q.state = n.state, q.learner = n.learner,
         \A m \in q.out : m \in n.out \/ m.type # "App"
  PROVE  Idles(n, q)
<1>1. n.term <= n.term
  BY NodeFields DEF Passive
<1> QED
  BY <1>1 DEF Passive, Idles, Waits, Unled

LEMMA AppReplyIdles ==
  ASSUME NEW n, Passive(n), NEW m \in Message, NEW success \in BOOLEAN,
         NEW match \in Nat, NEW ci \in Nat, NEW ct \in Nat
  PROVE  Idles(n, AppReply(n, m, success, match, ci, ct))
<1> DEFINE r == [type |-> "AppResp", from |-> n.id, to |-> m.from, term |-> n.term,
                 success |-> success, matchIndex |-> match,
                 conflictIndex |-> ci, conflictTerm |-> ct]
           q == Send(n, {r})
<1>1. n \in Node /\ r \in Message /\ r.type # "App"
  <2>1. n \in Node
    BY DEF Passive
  <2>2. r \in AppResp
    BY <2>1, NodeFields, MessageEnds DEF AppResp
  <2> QED
    BY <2>1, <2>2 DEF Message
<1>2. AppReply(n, m, success, match, ci, ct) = q
  BY Zenon DEF AppReply
<1> HIDE DEF r
<1>3. /\ q \in Node /\ q.log = n.log /\ q.confHistory = n.confHistory /\ q.id = n.id
      /\ q.term = n.term /\ q.state = n.state /\ q.out = n.out \cup {r}
      /\ q.learner = n.learner
  BY <1>1 DEF Send, Node
<1> HIDE DEF q
<1> QED
  BY <1>1, <1>2, <1>3, PassiveIdles

LEMMA RejectAppIdles ==
  ASSUME NEW n, Passive(n), NEW m \in Message, NEW prev \in Nat
  PROVE  Idles(n, RejectApp(n, m, prev))
<1>0. n \in Node
  BY DEF Passive
<1>1. TermAt(n.log, prev) \in Nat
  BY <1>0, NodeFields, TermAtType
<1>2. FirstIndexOfTerm(n.log, prev, TermAt(n.log, prev)) \in Nat
  BY <1>0, NodeFields, FirstIndexOfTermType
<1>3. LastIndex(n.log) + 1 \in Nat
  BY <1>0, NodeFields, IndexType
<1> QED
  BY <1>1, <1>2, <1>3, AppReplyIdles DEF RejectApp

LEMMA AdvanceCommitIdles ==
  ASSUME NEW n, Passive(n), NEW commit \in Nat, NEW lastNew \in Nat
  PROVE  Idles(n, AdvanceCommit(n, commit, lastNew)) /\ Passive(AdvanceCommit(n, commit, lastNew))
<1> DEFINE c == Min({commit, lastNew})
           b == [n EXCEPT !.commitIndex = c]
           x == b.applied \o Slice(b.log, b.lastApplied + 1, b.commitIndex + 1, 0)
           e == [b EXCEPT !.applied = x, !.lastApplied = b.commitIndex]
           q == AdvanceCommit(n, commit, lastNew)
<1>1. n \in Node /\ c \in Nat
  BY MinOfTwo DEF Passive
<1>2. q = n \/ q = b \/ q = e
  BY Zenon DEF AdvanceCommit, ApplyCommitted
<1>3. q \in Node
  BY <1>1, AdvanceCommitQuiet DEF Quiet
<1> HIDE DEF c
<1>4. /\ b \in Node /\ b.log = n.log /\ b.confHistory = n.confHistory /\ b.id = n.id
      /\ b.term = n.term /\ b.state = n.state /\ b.out = n.out /\ b.learner = n.learner
  BY <1>1 DEF Node
<1> HIDE DEF b, x
<1>5. /\ e.log = n.log /\ e.confHistory = n.confHistory /\ e.id = n.id
      /\ e.term = n.term /\ e.state = n.state /\ e.out = n.out /\ e.learner = n.learner
  BY <1>4 DEF Node
<1> HIDE DEF e, q
<1>6. /\ q.log = n.log /\ q.confHistory = n.confHistory /\ q.id = n.id
      /\ q.term = n.term /\ q.state = n.state /\ q.out = n.out /\ q.learner = n.learner
  BY <1>2, <1>4, <1>5
<1>7. Idles(n, q)
  BY <1>3, <1>6, PassiveIdles
<1> QED
  BY <1>3, <1>6, <1>7 DEF q, Passive

\* q's log is the beginning of c, the log of its term's leader.
CatchesUp(n, q, c) ==
  Waits(n, q) /\ Agree(q.log.entries, c, Len(q.log.entries))

\* Of the first k places after p, the last but one.
LEMMA BeforeKth ==
  ASSUME NEW p \in Nat, NEW k \in Nat, NEW z \in Nat, NEW w \in Nat,
         k >= 1, k <= z, k # 1, p + z <= w
  PROVE  /\ k - 1 \in 1 .. k - 1 /\ k - 1 \in 1 .. z /\ p + (k - 1) \in Nat
         /\ p + (k - 1) # 0 /\ p + (k - 1) <= w /\ p + k - 1 = p + (k - 1)
OBVIOUS

LEMMA AcceptedCatchesUp ==
  ASSUME NEW L \in [Nat -> Seq(Entry)], NEW n, Passive(n), n.log.snapIndex = 0,
         RootedIn(L, n.log.entries), NEW c \in Seq(Entry), RootedIn(L, c),
         NEW m \in App, Quoted(c, m), WellLogged(m.prevLogIndex, m.entries),
         SameAt(n.log, m.prevLogIndex, m.prevLogTerm),
         NEW q, Accepted(n, q, m.prevLogIndex, m.entries)
  PROVE  CatchesUp(n, q, c) /\ Passive(q)
<1> DEFINE a == n.log.entries
           ents == m.entries
           prev == m.prevLogIndex
<1>1. /\ n.log \in Log /\ a \in Seq(Entry) /\ ents \in Seq(Entry) /\ prev \in Nat
      /\ Len(c) \in Nat /\ Len(ents) \in Nat
  BY NodeFields, LogFields, LenProperties DEF App, Passive
<1>2. /\ prev + Len(ents) <= Len(c) /\ \A j \in 1 .. Len(ents) : ents[j] = c[prev + j]
      /\ m.prevLogTerm = TermOf(c, prev)
  BY DEF Quoted
<1>3. PICK k : /\ Splices(a, q.log.entries, prev, ents, k)
               /\ \A u \in 1 .. k - 1 : SameAt(n.log, ents[u].index, ents[u].term)
  BY DEF Accepted
<1>4. SameAt(n.log, prev, TermOf(c, prev))
  BY <1>2
<1>5. WellLogged(prev, ents)
  OBVIOUS
<1> HIDE DEF a, ents, prev
<1>6. Agree(a, c, prev + k - 1)
  <2>0. k \in 1 .. Len(ents)
    BY <1>3 DEF Splices
  <2>1. CASE k = 1
    <3>1. prev <= Len(c) /\ prev + k - 1 = prev
      BY <1>1, <1>2, <2>1
    <3>2. Agree(a, c, prev)
      BY <1>1, <1>4, <3>1, SameRooted DEF a
    <3> QED
      BY <3>1, <3>2
  <2>2. CASE k # 1
    <3> DEFINE u == k - 1
               i == prev + u
    <3>0. /\ prev \in Nat /\ Len(c) \in Nat /\ Len(ents) \in Nat /\ k \in Nat
          /\ k >= 1 /\ k <= Len(ents) /\ k # 1 /\ prev + Len(ents) <= Len(c)
      BY <1>1, <1>2, <2>0, <2>2
    <3>1. /\ u \in 1 .. k - 1 /\ u \in 1 .. Len(ents) /\ i \in Nat /\ i # 0 /\ i <= Len(c)
          /\ prev + k - 1 = i
      BY <3>0, BeforeKth
    <3>2. ents[u] = c[i] /\ ents[u].index = i
      BY <1>2, <1>5, <3>1 DEF WellLogged
    <3>3. SameAt(n.log, ents[u].index, ents[u].term)
      BY <1>3, <3>1
    <3> HIDE DEF u, i
    <3>4. SameAt(n.log, i, TermOf(c, i))
      BY <3>1, <3>2, <3>3 DEF TermOf
    <3>5. Agree(a, c, i)
      BY <1>1, <3>1, <3>4, SameRooted DEF a
    <3> QED
      BY <3>1, <3>5
  <2> QED
    BY <2>1, <2>2
<1>7. Agree(q.log.entries, c, Len(q.log.entries))
  BY <1>1, <1>2, <1>3, <1>6, SplicedAgrees
<1>8. n.term <= n.term
  BY NodeFields DEF Passive
<1> QED
  BY <1>7, <1>8 DEF CatchesUp, Waits, Accepted, Passive, Unled

LEMMA IdlesCatchesUp ==
  ASSUME NEW n \in Node, NEW p, NEW q, NEW c, Idles(n, p), CatchesUp(p, q, c)
  PROVE  CatchesUp(n, q, c)
BY WaitsTwice DEF Idles, CatchesUp

LEMMA CatchesUpIdles ==
  ASSUME NEW n \in Node, NEW p, NEW q, NEW c, CatchesUp(n, p, c), Idles(p, q)
  PROVE  CatchesUp(n, q, c)
BY WaitsTwice DEF Idles, CatchesUp

\* What a follower makes of its leader's entries.
Trails(n, q, c) == Idles(n, q) \/ CatchesUp(n, q, c)

LEMMA TrailsIdles ==
  ASSUME NEW n \in Node, NEW p, NEW q, NEW c, Trails(n, p, c), Idles(p, q)
  PROVE  Trails(n, q, c)
BY CatchesUpIdles, IdlesTwice DEF Trails

LEMMA IdlesTrails ==
  ASSUME NEW n \in Node, NEW p, NEW q, NEW c, Idles(n, p), Trails(p, q, c)
  PROVE  Trails(n, q, c)
BY IdlesCatchesUp, IdlesTwice DEF Trails

LEMMA SanePassive ==
  ASSUME NEW n, Sane(n), n.state # "Leader"
  PROVE  Passive(n) /\ n.log.snapIndex = 0 /\ n \in Node
BY DEF Sane, Whole, Orderly, Passive

LEMMA WholePart ==
  ASSUME NEW s \in Seq(Entry)
  PROVE  SubSeq(s, 0 + 1, Len(s)) = s
<1>1. 0 + 1 = 1 /\ Len(s) \in Nat
  BY LenProperties
<1>2. SubSeq(s, 1, Len(s)) = s
  OBVIOUS
<1> QED
  BY <1>1, <1>2

LEMMA HandleAppAsFollowerTrails ==
  ASSUME NEW L \in [Nat -> Seq(Entry)], NEW n, Sane(n), n.state # "Leader",
         RootedIn(L, n.log.entries), NEW c \in Seq(Entry), RootedIn(L, c),
         NEW m \in App, Quoted(c, m), WellLogged(m.prevLogIndex, m.entries)
  PROVE  Trails(n, HandleAppAsFollower(n, m), c)
<1>1. Passive(n) /\ n.log.snapIndex = 0 /\ n \in Node
  BY SanePassive
<1>2. /\ m.prevLogIndex \in Nat /\ m.entries \in Seq(Entry) /\ Len(m.entries) \in Nat
      /\ m.commit \in Nat /\ m \in Message /\ m.prevLogTerm \in Nat
  <2>1. /\ m.prevLogIndex \in Nat /\ m.entries \in Seq(Entry)
        /\ m.commit \in Nat /\ m.prevLogTerm \in Nat
    BY DEF App
  <2>2. m \in Message
    BY DEF Message
  <2> QED
    BY <2>1, <2>2, LenProperties
<1>3. ~(m.prevLogIndex < n.log.snapIndex)
  <2>1. \A i \in Nat : ~(i < 0)
    OBVIOUS
  <2> QED
    BY <1>1, <1>2, <2>1
<1>4. SubSeq(m.entries, 0 + 1, Len(m.entries)) = m.entries
  BY <1>2, WholePart
<1> DEFINE prev == m.prevLogIndex
           lastNew == prev + Len(m.entries)
           a == AcceptEntries(n, m.entries)
           b == AdvanceCommit(a, m.commit, lastNew)
           e == AppReply(b, m, TRUE, lastNew, 0, 0)
           q == HandleAppAsFollower(n, m)
<1>5. prev + 0 = prev /\ lastNew \in Nat
  <2>1. \A i, j \in Nat : i + 0 = i /\ i + j \in Nat
    OBVIOUS
  <2> QED
    BY <1>2, <2>1
<1>6. q = IF ~SameAt(n.log, prev, m.prevLogTerm) THEN RejectApp(n, m, prev) ELSE e
  BY <1>3, <1>4, <1>5, Zenon DEF HandleAppAsFollower
<1> HIDE DEF lastNew, a, b, e, q
<1>7. CASE ~SameAt(n.log, prev, m.prevLogTerm)
  BY <1>1, <1>2, <1>6, <1>7, RejectAppIdles DEF Trails, q
<1>8. CASE SameAt(n.log, prev, m.prevLogTerm)
  <2>1. a = n \/ Accepted(n, a, prev, m.entries)
    BY <1>1, <1>2, <1>8, AcceptEntriesAccepted DEF SameAt, a
  <2>2. Trails(n, a, c) /\ Passive(a)
    <3>1. CASE a = n
      BY <1>1, <3>1, IdlesSelf DEF Trails
    <3>2. CASE Accepted(n, a, prev, m.entries)
      BY <1>1, <1>8, <3>2, AcceptedCatchesUp DEF Trails
    <3> QED
      BY <2>1, <3>1, <3>2
  <2>3. Idles(a, b) /\ Passive(b)
    BY <1>2, <1>5, <2>2, AdvanceCommitIdles DEF b
  <2>4. Idles(b, e)
    BY <1>2, <1>5, <2>3, AppReplyIdles DEF e
  <2>5. Trails(n, b, c)
    BY <1>1, <2>2, <2>3, TrailsIdles
  <2>6. Trails(n, e, c)
    BY <1>1, <2>4, <2>5, TrailsIdles
  <2> QED
    BY <1>6, <1>8, <2>6 DEF q
<1> QED
  BY <1>7, <1>8

LEMMA FollowerOfIdles ==
  ASSUME NEW n, Sane(n), n.state # "Leader", NEW m \in Message, m.term = n.term
  PROVE  Idles(n, FollowerOf(n, m)) /\ FollowerOf(n, m).state = "Follower"
<1>1. n \in Node /\ m.term \in Nat /\ m.from \in OptServer
  BY NodeFields, MessageEnds DEF Sane, OptServer
<1>2. CASE n.state = "Follower"
  <2> DEFINE q == [n EXCEPT !.leaderID = m.from]
  <2>1. /\ q \in Node /\ q.log = n.log /\ q.confHistory = n.confHistory /\ q.id = n.id
        /\ q.term = n.term /\ q.state = n.state /\ q.learner = n.learner /\ q.out = n.out
    BY <1>1 DEF Node
  <2>2. FollowerOf(n, m) = q
    BY <1>2 DEF FollowerOf
  <2> HIDE DEF q
  <2>3. n.term <= q.term
    BY <1>1, <2>1, NodeFields
  <2>4. Idles(n, q)
    BY <1>2, <2>1, <2>3, IdlesStep
  <2> QED
    BY <1>2, <2>1, <2>2, <2>4
<1>3. CASE n.state # "Follower"
  BY <1>1, <1>3, BecomeFollowerIdles DEF FollowerOf
<1> QED
  BY <1>2, <1>3

LEMMA HandleAppTrails ==
  ASSUME NEW L \in [Nat -> Seq(Entry)], NEW n, Sane(n), n.state # "Leader",
         RootedIn(L, n.log.entries), NEW c \in Seq(Entry), RootedIn(L, c),
         NEW m \in App, m.term = n.term, Quoted(c, m),
         WellLogged(m.prevLogIndex, m.entries)
  PROVE  Trails(n, HandleApp(n, m), c)
<1> DEFINE f == FollowerOf(n, m)
<1>1. Idles(n, f) /\ f.state = "Follower"
  BY FollowerOfIdles DEF Message
<1>2. HandleApp(n, m) = HandleAppAsFollower(f, m)
  BY DEF HandleApp
<1> HIDE DEF f
<1>3. Sane(f) /\ f.log = n.log
  BY <1>1, IdlesSane DEF Idles
<1>4. Trails(f, HandleAppAsFollower(f, m), c)
  BY <1>1, <1>3, HandleAppAsFollowerTrails
<1> QED
  BY <1>1, <1>2, <1>4, IdlesTrails DEF Sane

\* q is n with answers to send, and perhaps a vote cast.
Replies(n, q) ==
  /\ q \in Node /\ q.log = n.log /\ q.confHistory = n.confHistory /\ q.id = n.id
  /\ q.term = n.term /\ q.state = n.state /\ q.learner = n.learner
  /\ q.commitIndex = n.commitIndex /\ q.panic = n.panic
  /\ \A m \in q.out : m \in n.out \/ m.type # "App"

LEMMA RepliesRests ==
  ASSUME NEW n, Sane(n), NEW q, Replies(n, q)
  PROVE  Rests(n, q)
<1>1. n \in Node /\ n.commitIndex \in Nat
  BY NodeFields DEF Sane
<1>2. n.commitIndex <= q.commitIndex
  BY <1>1 DEF Replies
<1>3. Sends(n, q)
  BY DEF Replies, Sends
<1> QED
  BY <1>1, <1>2, <1>3, RestsStep DEF Replies

LEMMA RepliesIdles ==
  ASSUME NEW n, Sane(n), n.state # "Leader", NEW q, Replies(n, q)
  PROVE  Idles(n, q)
BY SanePassive, PassiveIdles DEF Replies

LEMMA SendReplies ==
  ASSUME NEW n \in Node, NEW msgs \in SUBSET Message, \A m \in msgs : m.type # "App"
  PROVE  Replies(n, Send(n, msgs))
<1> DEFINE q == Send(n, msgs)
<1>1. q \in Node /\ q.out = n.out \cup msgs
  BY DEF Send, Node
<1>2. /\ q.log = n.log /\ q.confHistory = n.confHistory /\ q.id = n.id
      /\ q.term = n.term /\ q.state = n.state /\ q.learner = n.learner
      /\ q.commitIndex = n.commitIndex /\ q.panic = n.panic
  BY DEF Send, Node
<1> HIDE DEF q
<1> QED
  BY <1>1, <1>2 DEF Replies, q

LEMMA VoteSendReplies ==
  ASSUME NEW n \in Node, NEW m \in Message, NEW term \in Nat, NEW pre \in BOOLEAN,
         NEW granted \in BOOLEAN
  PROVE  Replies(n, Send(n, VoteReply(n, m, term, pre, granted)))
<1> DEFINE msgs == VoteReply(n, m, term, pre, granted)
<1>1. msgs \in SUBSET Message
  BY VoteReplyType
<1>2. \A r \in msgs : r.type # "App"
  BY DEF VoteReply
<1> HIDE DEF msgs
<1>3. Replies(n, Send(n, msgs))
  BY <1>1, <1>2, SendReplies
<1> QED
  BY <1>3 DEF msgs

LEMMA HandleVoteReplies ==
  ASSUME NEW n \in Node, NEW m \in VoteReq, NEW fresh \in BOOLEAN
  PROVE  Replies(n, HandleVote(n, m, fresh))
<1>1. /\ m \in Message /\ n.term \in Nat /\ m.term \in Nat /\ m.from \in OptServer
  BY NodeFields DEF Message, VoteReq, OptServer
<1>2. Replies(n, HandlePreVote(n, m, fresh))
  <2> DEFINE granted == /\ m.term > n.term
                        /\ LogUpToDate(n, m.lastLogIndex, m.lastLogTerm)
                        /\ ~Sticky(n, m, fresh)
             term == IF granted THEN m.term ELSE n.term
  <2>1. granted \in BOOLEAN /\ term \in Nat
    BY <1>1
  <2>2. HandlePreVote(n, m, fresh) = Send(n, VoteReply(n, m, term, TRUE, granted))
    BY Zenon DEF HandlePreVote
  <2> HIDE DEF granted, term
  <2> QED
    BY <1>1, <2>1, <2>2, VoteSendReplies
<1>3. Replies(n, HandleRealVote(n, m))
  <2> DEFINE granted == CanVote(n, m) /\ LogUpToDate(n, m.lastLogIndex, m.lastLogTerm)
             reply   == VoteReply(n, m, n.term, FALSE, granted)
             p       == [n EXCEPT !.votedFor = m.from, !.hsDirty = TRUE]
  <2>1. granted \in BOOLEAN
    OBVIOUS
  <2>2. HandleRealVote(n, m) = IF granted THEN Send(p, reply) ELSE Send(n, reply)
    BY Zenon DEF HandleRealVote
  <2> HIDE DEF granted
  <2>3. reply \in SUBSET Message /\ \A r \in reply : r.type # "App"
    <3>1. reply \in SUBSET Message
      BY <1>1, <2>1, VoteReplyType
    <3> QED
      BY <3>1 DEF VoteReply
  <2>4. /\ p \in Node /\ p.log = n.log /\ p.confHistory = n.confHistory /\ p.id = n.id
        /\ p.term = n.term /\ p.state = n.state /\ p.learner = n.learner
        /\ p.commitIndex = n.commitIndex /\ p.panic = n.panic /\ p.out = n.out
    BY <1>1 DEF Node
  <2> HIDE DEF p, reply
  <2>5. Replies(p, Send(p, reply)) /\ Replies(n, Send(n, reply))
    BY <2>3, <2>4, SendReplies
  <2>6. Replies(n, Send(p, reply))
    BY <2>4, <2>5 DEF Replies
  <2> QED
    BY <2>2, <2>5, <2>6
<1> QED
  BY <1>2, <1>3, Zenon DEF HandleVote

LEMMA StaleReplyReplies ==
  ASSUME NEW n \in Node, NEW m \in Message
  PROVE  Replies(n, StaleReply(n, m))
<1>0. n.term \in Nat /\ LastIndex(n.log) + 1 \in Nat
  BY NodeFields, IndexType
<1>1. CASE m.type \in {"App", "Snap"}
  <2> DEFINE r == [type |-> "AppResp", from |-> n.id, to |-> m.from, term |-> n.term,
                   success |-> FALSE, matchIndex |-> 0,
                   conflictIndex |-> LastIndex(n.log) + 1, conflictTerm |-> 0]
  <2>1. r \in AppResp /\ r.type # "App"
    BY <1>0, NodeFields, MessageEnds DEF AppResp
  <2>2. StaleReply(n, m) = AppReply(n, m, FALSE, 0, LastIndex(n.log) + 1, 0)
    BY <1>1 DEF StaleReply
  <2>3. StaleReply(n, m) = Send(n, {r})
    BY <2>2, Zenon DEF AppReply
  <2> HIDE DEF r
  <2>4. {r} \in SUBSET Message
    BY <2>1 DEF Message
  <2> QED
    BY <2>1, <2>3, <2>4, SendReplies
<1>2. CASE m.type = "Vote"
  <2>1. m.preVote \in BOOLEAN
    BY <1>2, MessageOfType DEF VoteReq
  <2>2. StaleReply(n, m) = Send(n, VoteReply(n, m, n.term, m.preVote, FALSE))
    BY <1>2 DEF StaleReply
  <2> QED
    BY <1>0, <2>1, <2>2, VoteSendReplies
<1>3. CASE m.type \notin {"App", "Snap", "Vote"}
  <2>1. StaleReply(n, m) = n
    BY <1>3 DEF StaleReply
  <2> QED
    BY <2>1 DEF Replies
<1> QED
  BY <1>1, <1>2, <1>3

-----------------------------------------------------------------------------
(* What comes of an event *)

\* What may become of a node's log, where L has the logs of the leaders.
Fate(L, n, q) ==
  \/ n.state = "Leader" /\ Leads(n, q)
  \/ RunsFor(n, q)
  \/ \E t \in Nat : t <= q.term /\ CatchesUp(n, q, L[t])

LEMMA RepliesFate ==
  ASSUME NEW L, NEW n, Sane(n), NEW q, Replies(n, q)
  PROVE  Fate(L, n, q)
BY RepliesRests, RepliesIdles DEF Fate, Leads, RunsFor

LEMMA StaysFate ==
  ASSUME NEW L, NEW n, Sane(n)
  PROVE  Fate(L, n, n)
BY LeadsSelf, IdlesSelf DEF Fate, RunsFor

LEMMA IdlesFate ==
  ASSUME NEW L, NEW n \in Node, NEW a, NEW q, Idles(n, a), a.state # "Leader", Fate(L, a, q)
  PROVE  Fate(L, n, q)
<1>1. CASE RunsFor(a, q)
  BY <1>1, IdlesStands DEF Fate
<1>2. ASSUME NEW t \in Nat, t <= q.term, CatchesUp(a, q, L[t])
      PROVE  Fate(L, n, q)
  BY <1>2, IdlesCatchesUp DEF Fate
<1> QED
  BY <1>1, <1>2 DEF Fate

\* A message of a newer term makes a follower of any node.
LEMMA AtMessageTermIdles ==
  ASSUME NEW n, Sane(n), NEW m \in Message
  PROVE  LET a == AtMessageTerm(n, m) IN
         /\ a = n \/ (Idles(n, a) /\ a.state = "Follower")
         /\ Sane(a) /\ a \in Node
         /\ ~(m.term < n.term) /\ ~KeepsTerm(m) => m.term = a.term
<1> DEFINE leader == IF m.type \in {"App", "Snap"} THEN m.from ELSE None
           a == AtMessageTerm(n, m)
           b == BecomeFollower(n, m.term, leader)
<1>1. leader \in OptServer /\ m.term \in Nat /\ n.term \in Nat /\ n \in Node
  BY MessageEnds, NodeFields DEF OptServer, Sane
<1>2. a = IF m.term <= n.term \/ KeepsTerm(m) THEN n ELSE b
  BY Zenon DEF AtMessageTerm
<1> HIDE DEF leader
<1>3. /\ Idles(n, b) /\ b.state = "Follower"
      /\ m.term >= n.term => b.term = m.term
  BY <1>1, BecomeFollowerIdles
<1> HIDE DEF a, b
<1>4. Sane(b) /\ b \in Node
  BY <1>3, IdlesSane
<1>5. ~(m.term < n.term) /\ m.term <= n.term => m.term = n.term
  BY <1>1
<1>6. ~(m.term < n.term) => m.term >= n.term
  BY <1>1
<1>7. a = n \/ (Idles(n, a) /\ a.state = "Follower")
  BY <1>2, <1>3
<1>8. Sane(a) /\ a \in Node
  BY <1>1, <1>2, <1>4
<1>9. ~(m.term < n.term) /\ ~KeepsTerm(m) => m.term = a.term
  BY <1>2, <1>3, <1>5, <1>6
<1> QED
  BY <1>7, <1>8, <1>9 DEF a

\* An AppendEntries in the network is a part of its leader's log.
Quoting(L, m) == m.type = "App" => Quoted(L[m.term], m)

LEMMA HandleAppFate ==
  ASSUME NEW L, NEW V, LedSound(L, V), NEW n, Sane(n), RootedIn(L, n.log.entries),
         NEW m \in App, m.term = n.term, Quoting(L, m), Linked(m)
  PROVE  Fate(L, n, HandleApp(n, m))
<1> DEFINE q == HandleApp(n, m)
           c == L[m.term]
<1>1. m.type = "App" /\ m.term \in Nat
  BY DEF App
<1>2. CASE n.state = "Leader"
  BY <1>2, StaysFate DEF HandleApp
<1>3. CASE n.state # "Leader"
  <2>1. /\ L \in [Nat -> Seq(Entry)] /\ c \in Seq(Entry) /\ RootedIn(L, c)
        /\ Quoted(c, m) /\ WellLogged(m.prevLogIndex, m.entries)
    BY <1>1 DEF LedSound, Quoting, Linked
  <2> HIDE DEF c
  <2>2. Trails(n, q, c)
    BY <1>3, <2>1, HandleAppTrails
  <2> HIDE DEF q
  <2>3. CatchesUp(n, q, c) => m.term <= q.term
    BY DEF CatchesUp, Waits
  <2>4. Fate(L, n, q)
    BY <1>1, <2>2, <2>3 DEF Trails, Fate, RunsFor, c
  <2> QED
    BY <2>4 DEF q
<1> QED
  BY <1>2, <1>3

LEMMA ReceiveFate ==
  ASSUME SnapshotThreshold = 0, NEW L, NEW V, LedSound(L, V),
         NEW n, Sane(n), RootedIn(L, n.log.entries),
         NEW m \in Message, Quoting(L, m), Linked(m), NEW fresh \in BOOLEAN
  PROVE  Fate(L, n, Receive(n, m, fresh))
<1> DEFINE a == AtMessageTerm(n, m)
           q == Receive(n, m, fresh)
           S == Send(n, VoteReply(n, m, n.term, FALSE, FALSE))
<1>1. /\ a = n \/ (Idles(n, a) /\ a.state = "Follower")
      /\ Sane(a) /\ a \in Node /\ n \in Node
      /\ ~(m.term < n.term) /\ ~KeepsTerm(m) => m.term = a.term
  BY AtMessageTermIdles DEF Sane
<1> HIDE DEF a
<1>2. a.log = n.log
  BY <1>1 DEF Idles
<1>3. ASSUME NEW x, Fate(L, a, x) PROVE Fate(L, n, x)
  BY <1>1, <1>3, IdlesFate
<1>4. m.type = "Vote" => Fate(L, a, HandleVote(a, m, fresh))
  BY <1>1, MessageOfType, HandleVoteReplies, RepliesFate
<1>5. m.type = "VoteResp" => Fate(L, a, HandleVoteResp(a, m))
  <2>1. a.state = "Leader" => HandleVoteResp(a, m) = a
    BY DEF HandleVoteResp
  <2>2. a.state # "Leader" /\ m.type = "VoteResp" => RunsFor(a, HandleVoteResp(a, m))
    BY <1>1, MessageOfType, HandleVoteRespStands
  <2> QED
    BY <1>1, <2>1, <2>2, StaysFate DEF Fate
<1>6. m.type = "App" /\ ~(m.term < n.term) => Fate(L, a, HandleApp(a, m))
  <2>1. m.type = "App" => ~KeepsTerm(m)
    BY DEF KeepsTerm
  <2> QED
    BY <1>1, <1>2, <2>1, MessageOfType, HandleAppFate
<1>7. m.type = "AppResp" => Fate(L, a, HandleAppResp(a, m))
  <2>1. a.state # "Leader" => HandleAppResp(a, m) = a
    BY DEF HandleAppResp, IgnoresAck
  <2>2. m.type = "AppResp" => Leads(a, HandleAppResp(a, m))
    BY <1>1, MessageOfType, HandleAppRespLeads
  <2> QED
    BY <1>1, <2>1, <2>2, StaysFate DEF Fate
<1>8. m.type # "Snap"
  BY DEF Linked
<1>9. m.type = "SnapResp" => Fate(L, a, HandleSnapResp(a, m))
  <2>1. a.state # "Leader" => HandleSnapResp(a, m) = a
    BY DEF HandleSnapResp, IgnoresAck
  <2>2. m.type = "SnapResp" => Leads(a, HandleSnapResp(a, m))
    BY <1>1, MessageOfType, HandleSnapRespLeads
  <2> QED
    BY <1>1, <2>1, <2>2, StaysFate DEF Fate
<1>10. m.type = "TimeoutNow" => Fate(L, a, HandleTimeoutNow(a, m))
  <2>1. a.state = "Leader" => HandleTimeoutNow(a, m) = a
    BY DEF HandleTimeoutNow
  <2>2. a.state # "Leader" => RunsFor(a, HandleTimeoutNow(a, m))
    BY <1>1, HandleTimeoutNowStands
  <2> QED
    BY <1>1, <2>1, <2>2, StaysFate DEF Fate
<1>11. CASE m.term < n.term
  <2>1. q = StaleReply(n, m)
    BY <1>11 DEF Receive
  <2> HIDE DEF q
  <2>2. Fate(L, n, q)
    BY <1>1, <2>1, StaleReplyReplies, RepliesFate
  <2> QED
    BY <2>2 DEF q
<1>12. CASE ~(m.term < n.term) /\ StickyVote(n, m, fresh)
  <2>1. q = S
    BY <1>12 DEF Receive
  <2>2. Replies(n, S)
    BY <1>1, VoteSendReplies, NodeFields
  <2> HIDE DEF q, S
  <2>3. Fate(L, n, q)
    BY <2>1, <2>2, RepliesFate
  <2> QED
    BY <2>3 DEF q
<1>13. CASE ~(m.term < n.term) /\ ~StickyVote(n, m, fresh)
  <2>1. q = CASE m.type = "Vote"       -> HandleVote(a, m, fresh)
              [] m.type = "VoteResp"   -> HandleVoteResp(a, m)
              [] m.type = "App"        -> HandleApp(a, m)
              [] m.type = "AppResp"    -> HandleAppResp(a, m)
              [] m.type = "Snap"       -> HandleSnap(a, m)
              [] m.type = "SnapResp"   -> HandleSnapResp(a, m)
              [] m.type = "TimeoutNow" -> HandleTimeoutNow(a, m)
    BY <1>13, Zenon DEF Receive, a
  <2> HIDE DEF q
  <2>2. Fate(L, a, q)
    BY <2>1, <1>4, <1>5, <1>6, <1>7, <1>8, <1>9, <1>10, <1>13, MessageOfType
  <2> QED
    BY <2>2, <1>3 DEF q
<1> QED
  BY <1>11, <1>12, <1>13

\* M continues L with what q has appended, and W are the entries seen committed.
CarriesLogs(L, M, W, n, q) ==
  /\ LedSound(M, W) /\ Continue(L, M) /\ Orderly(q)
  /\ RootedIn(M, q.log.entries) /\ AtMost(q.log.entries, q.term)
  /\ \A t \in Nat : \/ M[t] = L[t]
                    \/ t = q.term /\ M[t] # <<>>
                       /\ (q.state = "Leader" \/ (n.state = "Leader" /\ n.term = q.term))
  /\ q.state = "Leader" => q.log.entries = M[q.term]
  /\ q.panic \/ \A m \in q.out : Quoting(M, m)

\* The term and the role of q.
FateTerm(n, q) ==
  /\ n.term <= q.term
  /\ q.state = "Candidate" => Unled(n, q)
  /\ q.state = "Leader" => Unled(n, q) \/ (n.state = "Leader" /\ n.term = q.term)

LEMMA FateGoesOn ==
  ASSUME NEW L, NEW n, Sane(n), NEW q, Fate(L, n, q)
  PROVE  FateTerm(n, q)
<1>1. n.term <= n.term
  BY NodeFields DEF Sane
<1>2. CASE n.state = "Leader" /\ Leads(n, q)
  BY <1>1, <1>2 DEF Leads, Rests, Adds, StaysInTerm, FateTerm
<1>3. CASE RunsFor(n, q)
  BY <1>3 DEF RunsFor, Idles, Waits, TakesOver, FateTerm
<1>4. CASE \E t \in Nat : t <= q.term /\ CatchesUp(n, q, L[t])
  BY <1>4 DEF CatchesUp, Waits, FateTerm
<1> QED
  BY <1>2, <1>3, <1>4 DEF Fate

LEMMA LedSoundMore ==
  ASSUME NEW L, NEW V, LedSound(L, V), NEW W, V \subseteq W
  PROVE  LedSound(L, W) /\ Continue(L, L)
<1>1. LedSound(L, W)
  BY DEF LedSound, AllButLast
<1>2. \A t \in Nat : Agree(L[t], L[t], Len(L[t]))
  BY AgreeSelf DEF LedSound
<1> QED
  BY <1>1, <1>2 DEF Continue

\* Without an append, the logs of leaders are what they were.
LEMMA SameCarries ==
  ASSUME NEW L, NEW V, LedSound(L, V), NEW W, V \subseteq W, NEW n, NEW q, Orderly(q),
         RootedIn(L, q.log.entries), AtMost(q.log.entries, q.term),
         q.state = "Leader" => q.log.entries = L[q.term],
         q.panic \/ \A m \in q.out : Quoting(L, m)
  PROVE  CarriesLogs(L, L, W, n, q)
BY LedSoundMore DEF CarriesLogs

\* The committed entries of a log from the start.
LEMMA CommittedOfWhole ==
  ASSUME NEW q, Sane(q), NEW k \in 1 .. Len(q.log.entries), k <= q.commitIndex
  PROVE  q.log.entries[k] \in CommittedEntries(q)
<1> DEFINE b == Min({q.commitIndex - q.log.snapIndex, Len(q.log.entries)})
<1>1. q.commitIndex \in Nat /\ q.log.snapIndex = 0 /\ Len(q.log.entries) \in Nat
  BY NodeFields, LogFields, LenProperties DEF Sane, Whole
<1>2. q.commitIndex - q.log.snapIndex = q.commitIndex
  BY <1>1
<1>3. b \in {q.commitIndex, Len(q.log.entries)}
  BY <1>1, <1>2, MinOfTwo
<1>4. b \in Nat /\ k <= b
  BY <1>1, <1>3
<1>5. CommittedEntries(q) = {q.log.entries[j] : j \in 1 .. b}
  BY Zenon DEF CommittedEntries
<1> HIDE DEF b
<1>6. k \in 1 .. b
  BY <1>4
<1> QED
  BY <1>5, <1>6

LEMMA GrowsCarries ==
  ASSUME NEW L, NEW V, LedSound(L, V), NEW W, V \subseteq W, NEW n, Sane(n), NEW q, Sane(q),
         CommittedEntries(q) \subseteq W,
         RootedIn(L, n.log.entries), AtMost(n.log.entries, q.term),
         L[q.term] = n.log.entries \/ L[q.term] = <<>>,
         Extends(n.log.entries, q.log.entries, q.term, q.commitIndex),
         q.state = "Leader" \/ (n.state = "Leader" /\ n.term = q.term),
         q.panic \/ \A m \in q.out : m.type = "App" => Quotes(q, m)
  PROVE  \E M : CarriesLogs(L, M, W, n, q)
<1> DEFINE a == n.log.entries
           b == q.log.entries
           t == q.term
           M == [L EXCEPT ![t] = b]
<1>1. a \in Seq(Entry) /\ t \in Nat /\ b \in Seq(Entry) /\ Len(a) \in Nat
  BY NodeFields, LogFields, LenProperties DEF Sane
<1>2. PICK e \in Entry :
        /\ e.term = t /\ b = Append(a, e)
        /\ e.type = "Config" =>
             \A k \in 1 .. Len(a) : a[k].type = "Config" => k <= q.commitIndex
  BY DEF Extends
<1>3. ASSUME NEW k \in 1 .. Len(a), k <= q.commitIndex
      PROVE  a[k] \in W
  <2>1. k \in 1 .. Len(b) /\ b[k] = a[k]
    BY <1>1, <1>2
  <2>2. b[k] \in CommittedEntries(q)
    BY <1>3, <2>1, CommittedOfWhole
  <2> QED
    BY <2>1, <2>2
<1>4. e.type = "Config" => \A k \in 1 .. Len(a) : a[k].type = "Config" => a[k] \in W
  BY <1>2, <1>3
<1>5. Grown(L, W, a, t, e)
  <2>1. RootedIn(L, a) /\ AtMost(a, t) /\ (L[t] = a \/ L[t] = <<>>)
    OBVIOUS
  <2>2. LedSound(L, V) /\ V \subseteq W
    OBVIOUS
  <2> HIDE DEF a, b, t, M
  <2> QED
    BY <1>1, <1>2, <1>4, <2>1, <2>2, LeadersLogGrows
<1>6. LedSound(M, W) /\ Continue(L, M) /\ RootedIn(M, b) /\ AtMost(b, t) /\ M[t] = b
  BY <1>2, <1>5 DEF Grown
<1>7. b # <<>>
  BY <1>1, <1>2
<1>8. \A u \in Nat : u # t => M[u] = L[u]
  BY DEF LedSound
<1> HIDE DEF M
<1>9. \A u \in Nat : M[u] = L[u] \/ (u = t /\ M[u] # <<>>)
  BY <1>6, <1>7, <1>8
<1>10. q.panic \/ \A m \in q.out : Quoting(M, m)
  BY <1>6 DEF Quoting, Quotes
<1>11. Orderly(q)
  BY DEF Sane
<1>12. CarriesLogs(L, M, W, n, q)
  BY <1>6, <1>9, <1>10, <1>11 DEF CarriesLogs
<1> QED
  BY <1>12

LEMMA FateCarries ==
  ASSUME NEW L, NEW V, LedSound(L, V), NEW W, V \subseteq W,
         NEW n, Sane(n), n.out = {},
         RootedIn(L, n.log.entries), AtMost(n.log.entries, n.term),
         n.state = "Leader" => n.log.entries = L[n.term],
         NEW q \in Node, Fate(L, n, q), CommittedEntries(q) \subseteq W,
         q.state = "Leader" /\ Unled(n, q) => L[q.term] = <<>>
  PROVE  \E M : CarriesLogs(L, M, W, n, q)
<1>1. /\ n \in Node /\ n.term \in Nat /\ q.term \in Nat /\ n.term <= q.term
      /\ n.log.entries \in Seq(Entry) /\ q.log.entries \in Seq(Entry)
      /\ Len(n.log.entries) \in Nat /\ Len(q.log.entries) \in Nat
  BY FateGoesOn, NodeFields, LogFields, LenProperties DEF FateTerm, Sane
<1>2. AtMost(n.log.entries, q.term)
  <2>1. \A k \in 1 .. Len(n.log.entries) : n.log.entries[k].term \in Nat
    BY <1>1, EntryFields
  <2> QED
    BY <1>1, <2>1 DEF AtMost
<1>3. CASE n.state = "Leader" /\ Rests(n, q)
  <2>1. /\ q.log = n.log /\ q.term = n.term /\ Orderly(q) /\ n.log.entries = L[n.term]
        /\ q.panic \/ \A m \in q.out : m.type = "App" => Quotes(q, m)
    BY <1>3 DEF Rests, StaysInTerm, Sane, Sends
  <2>2. q.panic \/ \A m \in q.out : Quoting(L, m)
    BY <2>1 DEF Quoting, Quotes
  <2> QED
    BY <1>2, <2>1, <2>2, SameCarries
<1>4. CASE n.state = "Leader" /\ Adds(n, q)
  <2>1. /\ Extends(n.log.entries, q.log.entries, q.term, q.commitIndex)
        /\ q.term = n.term /\ Sane(q) /\ n.log.entries = L[n.term]
        /\ q.panic \/ \A m \in q.out : m.type = "App" => Quotes(q, m)
    BY <1>4 DEF Adds, StaysInTerm, Sends
  <2> QED
    BY <1>2, <1>4, <2>1, GrowsCarries
<1>5. CASE TakesOver(n, q)
  <2>1. /\ Extends(n.log.entries, q.log.entries, q.term, q.commitIndex)
        /\ Sane(q) /\ q.state = "Leader" /\ L[q.term] = <<>>
        /\ q.panic \/ \A m \in q.out : m.type = "App" => Quotes(q, m)
    BY <1>5 DEF TakesOver, Sends
  <2> QED
    BY <1>2, <2>1, GrowsCarries
<1>6. ASSUME Waits(n, q) PROVE /\ Orderly(q) /\ q.state # "Leader"
                               /\ \A m \in q.out : Quoting(L, m)
  BY <1>6 DEF Waits, Orderly, Quoting
<1>7. CASE Idles(n, q)
  <2>1. Waits(n, q) /\ q.log = n.log
    BY <1>7 DEF Idles
  <2> QED
    BY <1>2, <1>6, <2>1, SameCarries
<1>8. ASSUME NEW t \in Nat, t <= q.term, CatchesUp(n, q, L[t])
      PROVE  CarriesLogs(L, L, W, n, q)
  <2> DEFINE c == L[t]
             b == q.log.entries
  <2>1. Waits(n, q) /\ Agree(b, c, Len(b))
    BY <1>8 DEF CatchesUp
  <2>2. c \in Seq(Entry) /\ RootedIn(L, c) /\ AtMost(c, t) /\ Len(c) \in Nat
    BY LenProperties DEF LedSound
  <2> HIDE DEF c
  <2>3. RootedIn(L, b)
    BY <1>1, <2>1, <2>2, RootedBegin
  <2>4. AtMost(b, q.term)
    <3>1. SUFFICES ASSUME NEW k \in 1 .. Len(b) PROVE b[k].term <= q.term
      BY DEF AtMost
    <3>2. k \in 1 .. Len(c) /\ b[k] = c[k]
      BY <1>1, <2>1, <2>2 DEF Agree
    <3>3. c[k].term \in Nat /\ c[k].term <= t
      BY <2>2, <3>2, EntryFields DEF AtMost
    <3> QED
      BY <1>1, <1>8, <3>2, <3>3
  <2> QED
    BY <1>6, <2>1, <2>3, <2>4, SameCarries
<1> QED
  BY <1>3, <1>4, <1>5, <1>7, <1>8 DEF Fate, Leads, RunsFor

-----------------------------------------------------------------------------
(* The logs of leaders in the cluster *)

\* Only recorded leaders have appended.
LedRecorded(L) == \A t \in Nat : L[t] # <<>> => \E a \in leaders : a.term = t

\* The stored logs come from leaders, up to the stored term.
LogsRooted(L) ==
  \A i \in Server :
    RootedIn(L, durable[i].entries) /\ AtMost(durable[i].entries, durable[i].term)

\* A leader is recorded, its log is its term's; a candidate has not led its term.
InOffice(L, i) ==
  LET n == node[i]
      a == [term |-> n.term, id |-> i]
  IN  /\ Orderly(n)
      /\ n.state = "Leader" => a \in leaders /\ n.log.entries = L[n.term]
      /\ n.state = "Candidate" => a \notin leaders

\* Until a panic, what is under way quotes the leaders' logs.
AppsQuoted(L) == Running => \A m \in net : Quoting(L, m)

Traced(L) ==
  /\ LedSound(L, Vouchers) /\ LedRecorded(L) /\ LogsRooted(L) /\ AppsQuoted(L)
  /\ \A i \in up : InOffice(L, i)

\* Recorded leaders have their term on disk.
LedPast == \A a \in leaders : a.term <= durable[a.id].term

MemberInv ==
  /\ DurabilityInv /\ RecordsOnce /\ LedPast
  /\ ElectionSafety => \E L : Traced(L)

LEMMA SyncedSame ==
  ASSUME NEW n \in Node, NEW d
  PROVE  LET q == Synced(n, d) IN
         /\ q.log = n.log /\ q.confHistory = n.confHistory /\ q.term = n.term
         /\ q.state = n.state /\ q.learner = n.learner /\ q.commitIndex = n.commitIndex
         /\ n.panic => q.panic
<1> DEFINE m == Settled(n)
           x == m.panic \/ Discontinuous(d, PersistOf(n))
           q == [m EXCEPT !.panic = x]
<1>1. /\ m.log = n.log /\ m.confHistory = n.confHistory /\ m.term = n.term
      /\ m.state = n.state /\ m.learner = n.learner /\ m.commitIndex = n.commitIndex
      /\ m.panic = n.panic /\ m \in Node
  BY EmptySeq DEF Settled, Node
<1>2. Synced(n, d) = q
  BY Zenon DEF Synced
<1>3. n.panic => x
  BY <1>1
<1> HIDE DEF m, x
<1>4. /\ q.log = m.log /\ q.confHistory = m.confHistory /\ q.term = m.term
      /\ q.state = m.state /\ q.learner = m.learner /\ q.commitIndex = m.commitIndex
      /\ q.panic = x
  BY <1>1 DEF Node
<1> HIDE DEF q
<1>5. n.panic => q.panic
  BY <1>3, <1>4
<1> QED
  BY <1>1, <1>2, <1>4, <1>5

LEMMA RestWhole ==
  ASSUME SnapshotThreshold = 0, NEW d, NEW n, AtRest(d, n)
  PROVE  n \in Node /\ Whole(n) /\ d.entries = n.log.entries
<1>1. n \in Node /\ Shape(n) /\ n.appendedFrom = 0 /\ Appending(d, n)
  BY DEF AtRest, Tracks
<1>2. /\ n.snapshot = NoSnapshot /\ n.confHistory = HistoryOf(n.log.entries)
      /\ n.log.snapIndex = n.snapshot.index /\ n.log.snapTerm = n.snapshot.term
      /\ WellLogged(n.log.snapIndex, n.log.entries)
  BY <1>1 DEF Shape
<1>3. NoSnapshot.index = 0 /\ NoSnapshot.term = 0
  BY DEF NoSnapshot
<1>4. Whole(n)
  BY <1>2, <1>3 DEF Whole
<1>5. FirstIndex(n.log) \in Nat /\ FirstIndex(n.log) >= 1 /\ LastIndex(n.log) \in Nat
  BY <1>1, NodeFields, LogFields, LenProperties DEF FirstIndex, LastIndex
<1>6. 0 \notin FirstIndex(n.log) .. LastIndex(n.log)
  BY <1>5
<1> QED
  BY <1>1, <1>4, <1>6 DEF Appending

LEMMA UpWhole ==
  ASSUME SnapshotThreshold = 0, DurabilityInv, NEW i \in up
  PROVE  /\ node[i] \in Node /\ Whole(node[i]) /\ i \in Server
         /\ node[i].out = {} /\ node[i].id = i
         /\ durable[i].entries = node[i].log.entries /\ durable[i].term = node[i].term
<1>1. /\ i \in Server /\ node[i].out = {} /\ node[i].id = i
      /\ durable[i].term = node[i].term /\ AtRest(durable[i], node[i])
  BY DEF DurabilityInv, VoteInv, TypeOK, HardStateSaved, HardStateOf
<1> QED
  BY <1>1, RestWhole

LEMMA QuotingLater ==
  ASSUME NEW L \in [Nat -> Seq(Entry)], NEW M \in [Nat -> Seq(Entry)], Continue(L, M),
         NEW m \in Message, Quoting(L, m)
  PROVE  Quoting(M, m)
<1>1. CASE m.type = "App"
  <2>1. m \in App /\ m.term \in Nat
    BY <1>1, MessageOfType, MessageEnds
  <2>2. /\ L[m.term] \in Seq(Entry) /\ M[m.term] \in Seq(Entry)
        /\ Agree(L[m.term], M[m.term], Len(L[m.term]))
    BY <2>1 DEF Continue
  <2>3. Quoted(M[m.term], m)
    BY <1>1, <2>1, <2>2, QuotedLater DEF Quoting
  <2> QED
    BY <2>3 DEF Quoting
<1>2. CASE m.type # "App"
  BY <1>2 DEF Quoting
<1> QED
  BY <1>1, <1>2

LEMMA OrderlySame ==
  ASSUME NEW n, Orderly(n), NEW q, q.learner = n.learner, q.state = n.state,
         q.confHistory = n.confHistory, q.commitIndex = n.commitIndex
  PROVE  Orderly(q)
BY DEF Orderly, ConfigPending

-----------------------------------------------------------------------------
(* A step that completes *)

\* Server i has become q, persisted it and sent its messages.
Completed(i, q) ==
  /\ i \in up /\ q \in Node /\ q.id = i /\ Running /\ up' = up
  /\ net' = net \cup Carried(q.out)
  /\ committed' = RecordCommitted(q) /\ leaders' = RecordLeader(q)
  /\ node'[i] = Synced(q, durable[i])
  /\ \A j \in Server : j # i => durable'[j] = durable[j] /\ node'[j] = node[j]

LEMMA CompletedStores ==
  ASSUME SnapshotThreshold = 0, DurabilityInv', NEW i, NEW q, Completed(i, q)
  PROVE  durable'[i].entries = q.log.entries /\ durable'[i].term = q.term
<1>1. i \in up' /\ q \in Node /\ node'[i] = Synced(q, durable[i])
  BY DEF Completed
<1>2. AtRest(durable'[i], node'[i]) /\ durable'[i].term = node'[i].term
  BY <1>1 DEF DurabilityInv, VoteInv, HardStateSaved, HardStateOf
<1>3. durable'[i].entries = node'[i].log.entries
  BY <1>2, RestWhole
<1>4. node'[i].log = q.log /\ node'[i].term = q.term
  BY <1>1, SyncedSame
<1> QED
  BY <1>2, <1>3, <1>4

LEMMA CompletedRecords ==
  ASSUME TypeOK, RecordsOnce, NEW i, NEW q, Completed(i, q)
  PROVE  /\ RecordsOnce' /\ Vouchers \subseteq Vouchers'
         /\ CommittedEntries(q) \subseteq Vouchers'
<1>1. q \in Node /\ committed' = RecordCommitted(q)
  BY DEF Completed
<1>2. /\ \A c, d \in committed' : c.entry = d.entry => c = d
      /\ \A c \in committed : \E d \in committed' : d.entry = c.entry
      /\ \A e \in CommittedEntries(q) : \E d \in committed' : d.entry = e
  BY <1>1, RecordsKept
<1> QED
  BY <1>2 DEF RecordsOnce, Vouchers

LEMMA CompletedLeaders ==
  ASSUME TypeOK, NEW i, NEW q, Completed(i, q)
  PROVE  LET a == [term |-> q.term, id |-> i] IN
         /\ leaders \subseteq leaders' /\ leaders \subseteq Leadership
         /\ \A b \in leaders' : b \in leaders \/ (q.state = "Leader" /\ b = a)
         /\ q.state = "Leader" => a \in leaders'
         /\ a.term = q.term /\ a.id = i
BY DEF Completed, RecordLeader, TypeOK

LEMMA CompletedPast ==
  ASSUME SnapshotThreshold = 0, DurabilityInv, DurabilityInv', DurableVotesKept, LedPast,
         NEW i, NEW q, Completed(i, q)
  PROVE  LedPast'
<1>1. SUFFICES ASSUME NEW b \in leaders' PROVE b.term <= durable'[b.id].term
  BY DEF LedPast
<1>2. TypeOK /\ q \in Node
  BY DEF DurabilityInv, VoteInv, Completed
<1>3. CASE b \in leaders
  <2>1. b.term \in Nat /\ b.id \in Server /\ b.term <= durable[b.id].term
    BY <1>2, <1>3 DEF LedPast, TypeOK, Leadership
  <2>2. durable[b.id].term <= durable'[b.id].term
    BY <2>1 DEF DurableVotesKept
  <2>3. durable[b.id].term \in Nat /\ durable'[b.id].term \in Nat
    BY <2>1 DEF DurabilityInv, VoteInv, TypeOK, Durable
  <2> QED
    BY <2>1, <2>2, <2>3
<1>4. CASE b.term = q.term /\ b.id = i
  <2>1. durable'[i].term = q.term /\ q.term \in Nat
    BY <1>2, CompletedStores, NodeFields
  <2> QED
    BY <1>4, <2>1
<1> QED
  BY <1>2, <1>3, <1>4, CompletedLeaders

\* Who comes to stand or to lead in a term has not led it.
LEMMA UnledUnrecorded ==
  ASSUME SnapshotThreshold = 0, DurabilityInv, LedPast, NEW L, NEW i \in up, InOffice(L, i),
         NEW q \in Node, Unled(node[i], q)
  PROVE  [term |-> q.term, id |-> i] \notin leaders
<1> DEFINE n == node[i]
           a == [term |-> q.term, id |-> i]
<1>1. /\ n \in Node /\ durable[i].term = n.term /\ n.term \in Nat /\ q.term \in Nat
  BY UpWhole, NodeFields
<1>2. CASE n.term < q.term
  <2>1. a \in leaders => q.term <= n.term
    BY <1>1 DEF LedPast
  <2> QED
    BY <1>1, <1>2, <2>1
<1>3. CASE n.state = "Candidate" /\ q.term = n.term
  BY <1>3 DEF InOffice
<1> QED
  BY <1>2, <1>3 DEF Unled

\* With one leader to a term, nobody else has appended in the new leader's.
LEMMA NewLeadersLog ==
  ASSUME SnapshotThreshold = 0, DurabilityInv, LedPast, NEW L, LedSound(L, Vouchers),
         LedRecorded(L), NEW i, NEW q, Completed(i, q), InOffice(L, i), ElectionSafety',
         q.state = "Leader", Unled(node[i], q)
  PROVE  L[q.term] = <<>>
<1> DEFINE a == [term |-> q.term, id |-> i]
<1>1. i \in up /\ q \in Node /\ q.term \in Nat /\ TypeOK
  BY NodeFields DEF Completed, DurabilityInv, VoteInv
<1>2. a \notin leaders
  BY <1>1, UnledUnrecorded
<1>3. a \in leaders' /\ leaders \subseteq leaders' /\ leaders \subseteq Leadership
  BY <1>1, CompletedLeaders
<1>4. SUFFICES ASSUME L[q.term] # <<>> PROVE FALSE
  OBVIOUS
<1>5. PICK b \in leaders : b.term = q.term
  BY <1>1, <1>4 DEF LedRecorded
<1>6. b.id = i
  <2>1. b \in leaders' /\ a.term = q.term /\ a.id = i
    BY <1>3
  <2> HIDE DEF a
  <2> QED
    BY <1>3, <1>5, <2>1 DEF ElectionSafety
<1>7. b = a
  BY <1>3, <1>5, <1>6 DEF Leadership
<1> QED
  BY <1>2, <1>7

LEMMA CarriesRecorded ==
  ASSUME TypeOK, NEW L, Traced(L), NEW i, NEW q, Completed(i, q), NEW M, NEW W,
         CarriesLogs(L, M, W, node[i], q)
  PROVE  LedRecorded(M)'
<1> DEFINE a == [term |-> q.term, id |-> i]
<1>1. SUFFICES ASSUME NEW t \in Nat, M[t] # <<>> PROVE \E b \in leaders' : b.term = t
  BY DEF LedRecorded
<1>2. leaders \subseteq leaders' /\ (q.state = "Leader" => a \in leaders') /\ a.term = q.term
  BY CompletedLeaders
<1>3. CASE M[t] = L[t]
  BY <1>1, <1>2, <1>3 DEF Traced, LedRecorded
<1>4. CASE t = q.term /\ q.state = "Leader"
  BY <1>2, <1>4
<1>5. CASE t = q.term /\ node[i].state = "Leader" /\ node[i].term = q.term
  <2>1. InOffice(L, i)
    BY DEF Traced, Completed
  <2>2. a \in leaders
    BY <1>5, <2>1 DEF InOffice
  <2> QED
    BY <1>2, <1>5, <2>2
<1> QED
  BY <1>3, <1>4, <1>5 DEF CarriesLogs

LEMMA CarriesRooted ==
  ASSUME SnapshotThreshold = 0, DurabilityInv, DurabilityInv', NEW L, Traced(L),
         NEW i, NEW q, Completed(i, q), NEW M, NEW W, CarriesLogs(L, M, W, node[i], q)
  PROVE  LogsRooted(M)'
<1>1. SUFFICES ASSUME NEW j \in Server
               PROVE  /\ RootedIn(M, durable'[j].entries)
                      /\ AtMost(durable'[j].entries, durable'[j].term)
  BY DEF LogsRooted
<1>2. CASE j = i
  BY <1>2, CompletedStores DEF CarriesLogs
<1>3. CASE j # i
  <2>1. durable'[j] = durable[j]
    BY <1>3 DEF Completed
  <2>2. RootedIn(L, durable[j].entries) /\ AtMost(durable[j].entries, durable[j].term)
    BY DEF Traced, LogsRooted
  <2>3. durable[j].entries \in Seq(Entry)
    BY DEF DurabilityInv, VoteInv, TypeOK, Durable
  <2>4. RootedIn(M, durable[j].entries)
    BY <2>2, <2>3, RootedContinued DEF CarriesLogs, Traced, LedSound
  <2> QED
    BY <2>1, <2>2, <2>4
<1> QED
  BY <1>2, <1>3

LEMMA CarriesQuoted ==
  ASSUME TypeOK, NEW L, Traced(L), NEW i, NEW q, Completed(i, q), NEW M, NEW W,
         CarriesLogs(L, M, W, node[i], q)
  PROVE  AppsQuoted(M)'
<1>1. SUFFICES ASSUME Running', NEW m \in net' PROVE Quoting(M, m)
  BY DEF AppsQuoted
<1>2. /\ i \in Server /\ q \in Node /\ node'[i] = Synced(q, durable[i])
      /\ net' = net \cup Carried(q.out) /\ Running
  BY DEF Completed, TypeOK
<1>3. ~q.panic
  <2>1. ~node'[i].panic
    BY <1>1, <1>2 DEF Running
  <2> QED
    BY <1>2, <2>1, SyncedSame
<1>4. CASE m \in net
  <2>1. m \in Message /\ Quoting(L, m)
    BY <1>2, <1>4 DEF TypeOK, Traced, AppsQuoted
  <2> QED
    BY <2>1, QuotingLater DEF CarriesLogs, Traced, LedSound
<1>5. CASE m \in q.out
  BY <1>3, <1>5 DEF CarriesLogs
<1> QED
  BY <1>2, <1>4, <1>5 DEF Carried

LEMMA CarriesOffice ==
  ASSUME SnapshotThreshold = 0, DurabilityInv, LedPast, ElectionSafety',
         NEW L, Traced(L), NEW i, NEW q, Completed(i, q), FateTerm(node[i], q),
         NEW M, NEW W, CarriesLogs(L, M, W, node[i], q), NEW j \in up'
  PROVE  InOffice(M, j)'
<1> DEFINE a == [term |-> q.term, id |-> i]
<1>1. /\ i \in up /\ j \in up /\ q \in Node /\ j \in Server /\ TypeOK
      /\ node'[i] = Synced(q, durable[i]) /\ InOffice(L, i) /\ InOffice(L, j)
  BY DEF Completed, Traced, DurabilityInv, VoteInv, TypeOK
<1>2. /\ leaders \subseteq leaders' /\ (q.state = "Leader" => a \in leaders')
      /\ a.term = q.term /\ a.id = i
      /\ \A b \in leaders' : b \in leaders \/ (q.state = "Leader" /\ b = a)
  BY <1>1, CompletedLeaders
<1>3. CASE j = i
  <2> DEFINE n == node'[i]
  <2>1. /\ n.log = q.log /\ n.confHistory = q.confHistory /\ n.term = q.term
        /\ n.state = q.state /\ n.learner = q.learner /\ n.commitIndex = q.commitIndex
    BY <1>1, SyncedSame
  <2> HIDE DEF n
  <2>2. Orderly(n)
    BY <2>1, OrderlySame DEF CarriesLogs
  <2>3. n.state = "Leader" => [term |-> n.term, id |-> i] \in leaders'
                              /\ n.log.entries = M[n.term]
    BY <1>2, <2>1 DEF CarriesLogs
  <2>4. n.state = "Candidate" => [term |-> n.term, id |-> i] \notin leaders'
    <3>1. SUFFICES ASSUME q.state = "Candidate" PROVE a \notin leaders'
      BY <2>1
    <3>2. Unled(node[i], q)
      BY <3>1 DEF FateTerm
    <3>3. a \notin leaders
      BY <1>1, <3>2, UnledUnrecorded
    <3> QED
      BY <1>2, <3>1, <3>3
  <2> QED
    BY <1>3, <2>2, <2>3, <2>4 DEF InOffice, n
<1>4. CASE j # i
  <2> DEFINE n == node[j]
             b == [term |-> n.term, id |-> j]
  <2>1. node'[j] = n /\ Orderly(n)
    BY <1>1, <1>4 DEF Completed, InOffice
  <2>2. n.term \in Nat /\ b.term = n.term /\ b.id = j
    BY <1>1, NodeFields DEF TypeOK
  <2>3. n.state = "Leader" => b \in leaders /\ n.log.entries = L[n.term]
    BY <1>1 DEF InOffice
  <2>4. n.state = "Candidate" => b \notin leaders
    BY <1>1 DEF InOffice
  <2>5. node[i].state = "Leader" /\ node[i].term = q.term => a \in leaders
    BY <1>1 DEF InOffice
  <2>6. b \in leaders' => b \in leaders
    BY <1>2, <1>4, <2>2
  <2> HIDE DEF n, b, a
  <2>7. n.state = "Leader" => M[n.term] = L[n.term]
    <3>1. SUFFICES ASSUME n.state = "Leader", M[n.term] # L[n.term] PROVE FALSE
      OBVIOUS
    <3>2. n.term = q.term /\ (q.state = "Leader" \/ (node[i].state = "Leader" /\ node[i].term = q.term))
      BY <2>2, <3>1 DEF CarriesLogs
    <3>3. a \in leaders' /\ b \in leaders'
      BY <1>2, <2>3, <2>5, <3>1, <3>2
    <3> QED
      BY <1>2, <1>4, <2>2, <3>2, <3>3 DEF ElectionSafety
  <2> QED
    BY <1>2, <2>1, <2>3, <2>4, <2>6, <2>7 DEF InOffice, b
<1> QED
  BY <1>3, <1>4

LEMMA TracedStep ==
  ASSUME SnapshotThreshold = 0, DurabilityInv, DurabilityInv', RecordsOnce, LedPast,
         ElectionSafety', NEW i, NEW q, Completed(i, q),
         NEW L, Traced(L), Fate(L, node[i], q)
  PROVE  \E M : Traced(M)'
<1> DEFINE n == node[i]
<1>1. /\ i \in up /\ q \in Node /\ TypeOK /\ InOffice(L, i) /\ LedSound(L, Vouchers)
      /\ LedRecorded(L)
  BY DEF Completed, DurabilityInv, VoteInv, Traced
<1>2. /\ n \in Node /\ Whole(n) /\ i \in Server /\ n.out = {}
      /\ durable[i].entries = n.log.entries /\ durable[i].term = n.term
  BY <1>1, UpWhole
<1>3. Sane(n) /\ (n.state = "Leader" => n.log.entries = L[n.term])
  BY <1>1, <1>2 DEF Sane, InOffice
<1>4. RootedIn(L, n.log.entries) /\ AtMost(n.log.entries, n.term)
  BY <1>2 DEF Traced, LogsRooted
<1>5. /\ RecordsOnce' /\ Vouchers \subseteq Vouchers'
      /\ CommittedEntries(q) \subseteq Vouchers'
  BY <1>1, CompletedRecords
<1>6. q.state = "Leader" /\ Unled(n, q) => L[q.term] = <<>>
  BY <1>1, NewLeadersLog
<1>7. Fate(L, n, q) /\ FateTerm(n, q)
  BY <1>3, FateGoesOn
<1> HIDE DEF n
<1>8. PICK M : CarriesLogs(L, M, Vouchers', n, q)
  BY <1>1, <1>2, <1>3, <1>4, <1>5, <1>6, <1>7, FateCarries
<1>9. LedRecorded(M)' /\ LogsRooted(M)' /\ AppsQuoted(M)'
  BY <1>1, <1>8, CarriesRecorded, CarriesRooted, CarriesQuoted DEF n
<1>10. \A j \in up' : InOffice(M, j)'
  BY <1>7, <1>8, CarriesOffice DEF n
<1>11. LedSound(M, Vouchers')
  BY <1>8 DEF CarriesLogs
<1>12. Traced(M)'
  BY <1>9, <1>10, <1>11 DEF Traced
<1> QED
  BY <1>12

-----------------------------------------------------------------------------
(* The invariant is kept *)

\* Nothing changed on disk or in the network; servers went down or came up.
LEMMA QuietMember ==
  ASSUME MemberInv, DurabilityInv', Running,
         UNCHANGED <<durable, net, leaders, committed>>,
         \A j \in up' : (j \in up /\ node'[j] = node[j])
                        \/ (node'[j].learner = None /\ node'[j].state = "Follower")
  PROVE  MemberInv'
<1>1. RecordsOnce' /\ LedPast' /\ Vouchers' = Vouchers
  BY DEF MemberInv, RecordsOnce, LedPast, Vouchers
<1>2. ASSUME NEW L, Traced(L) PROVE Traced(L)'
  <2>1. LedSound(L, Vouchers') /\ LedRecorded(L)' /\ LogsRooted(L)' /\ AppsQuoted(L)'
    BY <1>1, <1>2 DEF Traced, LedRecorded, LogsRooted, AppsQuoted
  <2>2. ASSUME NEW j \in up' PROVE InOffice(L, j)'
    <3>1. CASE j \in up /\ node'[j] = node[j]
      BY <1>2, <3>1 DEF Traced, InOffice
    <3>2. CASE node'[j].learner = None /\ node'[j].state = "Follower"
      BY <3>2 DEF InOffice, Orderly
    <3> QED
      BY <3>1, <3>2
  <2> QED
    BY <2>1, <2>2 DEF Traced
<1>3. ElectionSafety' => ElectionSafety
  BY DEF ElectionSafety
<1> QED
  BY <1>1, <1>2, <1>3 DEF MemberInv

LEMMA CrashMember ==
  ASSUME MemberInv, NEW i \in Server, Running, CrashServer(i),
         UNCHANGED <<durable, net, leaders, committed>>
  PROVE  MemberInv'
<1>1. DurabilityInv'
  BY CrashDurability DEF MemberInv
<1>2. \A j \in up' : j \in up /\ node'[j] = node[j]
  BY CrashKeeps DEF MemberInv, DurabilityInv
<1> QED
  BY <1>1, <1>2, QuietMember

LEMMA RestartMember ==
  ASSUME MemberInv, NEW i \in Server, Restart(i)
  PROVE  MemberInv'
<1>1. DurabilityInv'
  BY RestartDurability DEF MemberInv
<1> DEFINE q == RestartNode(i, durable[i])
<1>2. q.learner = None /\ q.state = "Follower"
  BY DEF RestartNode
<1>3. /\ node' = [node EXCEPT ![i] = q] /\ up' = up \cup {i} /\ Running
      /\ UNCHANGED <<durable, net, leaders, committed>>
      /\ node \in [Server -> Node] /\ up \in SUBSET Server
  BY DEF Restart, MemberInv, DurabilityInv, VoteInv, TypeOK
<1> HIDE DEF q
<1>4. \A j \in up' : (j \in up /\ node'[j] = node[j])
                     \/ (node'[j].learner = None /\ node'[j].state = "Follower")
  BY <1>2, <1>3
<1> QED
  BY <1>1, <1>3, <1>4, QuietMember

LEMMA CompletedMember ==
  ASSUME SnapshotThreshold = 0, MemberInv, DurabilityInv', DurableVotesKept,
         NEW i, NEW q, Completed(i, q),
         \A L : Traced(L) => Fate(L, node[i], q)
  PROVE  MemberInv'
<1>1. DurabilityInv /\ RecordsOnce /\ LedPast /\ TypeOK
  BY DEF MemberInv, DurabilityInv, VoteInv
<1>2. RecordsOnce' /\ LedPast'
  BY <1>1, CompletedRecords, CompletedPast
<1>3. ASSUME ElectionSafety' PROVE \E M : Traced(M)'
  <2>1. ElectionSafety
    BY <1>1, <1>3, CompletedLeaders DEF ElectionSafety
  <2>2. PICK L : Traced(L)
    BY <2>1 DEF MemberInv
  <2> QED
    BY <1>1, <1>3, <2>2, TracedStep
<1> QED
  BY <1>2, <1>3 DEF MemberInv

LEMMA HandleOutputMember ==
  ASSUME SnapshotThreshold = 0, MemberInv, NEW i \in up, NEW q, Follows(node[i], q),
         Ready(durable[i], q), HandleOutput(i, q),
         \A L : Traced(L) => Fate(L, node[i], q)
  PROVE  MemberInv'
<1> DEFINE d == ApplyPersist(durable[i], PersistOf(q))
<1>1. DurabilityInv /\ VoteInv /\ TypeOK /\ i \in Server
  BY DEF MemberInv, DurabilityInv, VoteInv, TypeOK
<1>2. DurabilityInv' /\ DurableVotesKept
  BY <1>1, HandleOutputDurability, HandleOutputStep
<1>3. Running
  BY DEF HandleOutput
<1>4. CASE FsyncCrash(i, q)
  BY <1>1, <1>3, <1>4, CrashMember DEF FsyncCrash
<1>5. CASE /\ Release(i, q, d) /\ node' = [node EXCEPT ![i] = Synced(q, durable[i])]
           /\ leaders' = RecordLeader(q) /\ UNCHANGED <<up, crashes>>
  <2>1. q \in Node /\ q.id = i
    BY <1>1 DEF Follows, VoteInv, HardStateSaved
  <2> HIDE DEF d
  <2>2. /\ node \in [Server -> Node] /\ durable \in [Server -> Durable]
        /\ durable' = [durable EXCEPT ![i] = d]
        /\ net' = net \cup Carried(q.out) /\ committed' = RecordCommitted(q)
    BY <1>1, <1>5 DEF Release, TypeOK
  <2>3. /\ node'[i] = Synced(q, durable[i])
        /\ \A j \in Server : j # i => durable'[j] = durable[j] /\ node'[j] = node[j]
    BY <1>1, <1>5, <2>2
  <2>4. Completed(i, q)
    BY <1>3, <1>5, <2>1, <2>2, <2>3 DEF Completed
  <2> QED
    BY <1>2, <2>4, CompletedMember
<1>6. ~SnapshotDue(q)
  BY ClusterAssumption DEF SnapshotDue
<1> QED
  BY <1>4, <1>5, <1>6, Zenon DEF HandleOutput, Complete

LEMMA TracedSane ==
  ASSUME SnapshotThreshold = 0, DurabilityInv, NEW L, Traced(L), NEW i \in up
  PROVE  /\ Sane(node[i]) /\ LedSound(L, Vouchers) /\ RootedIn(L, node[i].log.entries)
BY UpWhole DEF Sane, Traced, InOffice, LogsRooted

-----------------------------------------------------------------------------
(* The events *)

LEMMA OutputMember ==
  ASSUME SnapshotThreshold = 0, MemberInv, NEW i \in up, NEW q, Follows(node[i], q),
         Tracks(durable[i], q), HandleOutput(i, q),
         \A L : Sane(node[i]) => Fate(L, node[i], q)
  PROVE  MemberInv'
<1>1. Ready(durable[i], q)
  BY TracksReady
<1>2. \A L : Traced(L) => Fate(L, node[i], q)
  BY TracedSane DEF MemberInv
<1> QED
  BY <1>1, <1>2, HandleOutputMember

LEMMA DeliverMember ==
  ASSUME SnapshotThreshold = 0, MemberInv, NEW m \in net, Deliver(m)
  PROVE  MemberInv'
<1>1. m \in Message /\ m.to \in up /\ Linked(m) /\ DurabilityInv
  BY DEF MemberInv, DurabilityInv, VoteInv, TypeOK, Deliver
<1>2. PICK fresh \in BOOLEAN :
        HandleOutput(m.to, Receive(node[m.to], m, fresh))
  BY DEF Deliver
<1> DEFINE q == Receive(node[m.to], m, fresh)
<1>3. Follows(node[m.to], q) /\ Ready(durable[m.to], q)
  BY <1>1, UpTracks, ReceiveFollows, ReceiveReady
<1>4. HandleOutput(m.to, q)
  BY <1>2
<1>5. ASSUME NEW L, Traced(L) PROVE Fate(L, node[m.to], q)
  <2>1. Running
    BY <1>4 DEF HandleOutput
  <2>2. Quoting(L, m)
    BY <1>5, <2>1 DEF Traced, AppsQuoted
  <2>3. Sane(node[m.to]) /\ LedSound(L, Vouchers) /\ RootedIn(L, node[m.to].log.entries)
    BY <1>1, <1>5, TracedSane
  <2> QED
    BY <1>1, <2>2, <2>3, ReceiveFate
<1> HIDE DEF q
<1> QED
  BY <1>1, <1>3, <1>4, <1>5, HandleOutputMember

LEMMA NextMember ==
  ASSUME SnapshotThreshold = 0, MemberInv, Next
  PROVE  MemberInv'
<1>0. DurabilityInv
  BY DEF MemberInv
<1>1. ASSUME NEW i \in Server, ElectionTimeout(i) PROVE MemberInv'
  <2> DEFINE q == Campaign(node[i], PreVote, FALSE)
  <2>1. i \in up /\ HandleOutput(i, q) /\ node[i].state # "Leader"
    BY <1>1 DEF ElectionTimeout
  <2>2. PreVote \in BOOLEAN /\ FALSE \in BOOLEAN
    BY ParamsAssumption
  <2>3. Follows(node[i], q) /\ Tracks(durable[i], q)
    BY <1>0, <2>1, <2>2, UpTracks, CampaignFollows, CampaignTracks
  <2>4. \A L : Sane(node[i]) => Fate(L, node[i], q)
    BY <2>1, <2>2, CampaignStands DEF Fate
  <2> HIDE DEF q
  <2> QED
    BY <2>1, <2>3, <2>4, OutputMember
<1>2. ASSUME NEW i \in Server, NEW due \in SUBSET LeaderTicks, LeaderTick(i, due)
      PROVE  MemberInv'
  <2> DEFINE t == "transfer" \in due
             u == "quorum" \in due
             h == "heartbeat" \in due
             q == TickLeader(node[i], t, u, h)
  <2>0. t \in BOOLEAN /\ u \in BOOLEAN /\ h \in BOOLEAN
    OBVIOUS
  <2>1. i \in up /\ HandleOutput(i, q) /\ node[i].state = "Leader"
    BY <1>2 DEF LeaderTick
  <2> HIDE DEF t, u, h
  <2>2. Quiet(node[i], q) /\ Tracks(durable[i], q)
    BY <1>0, <2>0, <2>1, UpTracks, TickLeaderQuiet, TickLeaderTracks
  <2>3. Follows(node[i], q)
    BY <1>0, <2>1, <2>2, UpTracks, QuietFollows
  <2>4. \A L : Sane(node[i]) => Fate(L, node[i], q)
    BY <2>0, <2>1, TickLeaderLeads DEF Fate
  <2> HIDE DEF q
  <2> QED
    BY <2>1, <2>2, <2>3, <2>4, OutputMember
<1>3. ASSUME NEW i \in Server, NEW v \in Value, ClientPropose(i, v) PROVE MemberInv'
  <2> DEFINE q == Propose(node[i], v)
  <2>1. i \in up /\ HandleOutput(i, q)
    BY <1>3 DEF ClientPropose
  <2>2. Follows(node[i], q) /\ Tracks(durable[i], q)
    BY <1>0, <2>1, UpTracks, ProposeQuiet, QuietFollows, ProposeTracks
  <2>3. node[i].state # "Leader" => q = node[i]
    BY DEF Propose
  <2>4. Sane(node[i]) => Leads(node[i], q)
    BY ProposeLeads
  <2> HIDE DEF q
  <2>5. \A L : Sane(node[i]) => Fate(L, node[i], q)
    BY <2>3, <2>4, StaysFate DEF Fate
  <2> QED
    BY <2>1, <2>2, <2>5, OutputMember
<1>4. ASSUME NEW i \in Server, NEW s \in TransferTargets, Transfer(i, s) PROVE MemberInv'
  <2> DEFINE q == TransferLeadership(node[i], s)
  <2>1. i \in up /\ HandleOutput(i, q) /\ s \in Server
    BY <1>4, ClusterAssumption DEF Transfer
  <2>2. Follows(node[i], q) /\ Tracks(durable[i], q)
    BY <1>0, <2>1, UpTracks, TransferLeadershipQuiet, QuietFollows, TransferLeadershipTracks
  <2>3. node[i].state # "Leader" => q = node[i]
    BY DEF TransferLeadership
  <2>4. Sane(node[i]) => Leads(node[i], q)
    BY <2>1, TransferLeadershipLeads
  <2> HIDE DEF q
  <2>5. \A L : Sane(node[i]) => Fate(L, node[i], q)
    BY <2>3, <2>4, StaysFate DEF Fate
  <2> QED
    BY <2>1, <2>2, <2>5, OutputMember
<1>5. ASSUME NEW c \in ConfChanges, ProposeConfChange(c) PROVE MemberInv'
  <2> DEFINE n == node[c.at]
             q == IF c.type = "AddServer" THEN AddServer(n, c.id) ELSE RemoveServer(n, c.id)
  <2>1. c.at \in up /\ HandleOutput(c.at, q)
    BY <1>5, Zenon DEF ProposeConfChange
  <2>2. c.id \in Server
    BY ClusterAssumption DEF ConfChange
  <2>3. Follows(n, q)
    BY <1>0, <2>1, <2>2, UpTracks, AddServerQuiet, RemoveServerQuiet, QuietFollows
  <2>4. Tracks(durable[c.at], q)
    BY <1>0, <2>1, <2>2, UpTracks, AddServerTracks, RemoveServerTracks
  <2>5. n.state # "Leader" => AddServer(n, c.id) = n /\ RemoveServer(n, c.id) = n
    BY DEF AddServer, RemoveServer, MayChangeConfig
  <2>6. Sane(n) => Leads(n, AddServer(n, c.id)) /\ Leads(n, RemoveServer(n, c.id))
    BY <2>2, AddServerLeads, RemoveServerLeads
  <2>7. (n.state # "Leader" => q = n) /\ (Sane(n) => Leads(n, q))
    BY <2>5, <2>6
  <2> HIDE DEF q, n
  <2>8. \A L : Sane(n) => Fate(L, n, q)
    BY <2>7, StaysFate DEF Fate
  <2> QED
    BY <2>1, <2>3, <2>4, <2>8, OutputMember DEF n
<1>6. ASSUME NEW i \in Server, Crash(i) PROVE MemberInv'
  BY <1>6, CrashMember DEF Crash
<1>7. ASSUME NEW i \in Server, Restart(i) PROVE MemberInv'
  BY <1>7, RestartMember
<1>8. ASSUME NEW m \in net, Deliver(m) PROVE MemberInv'
  BY <1>8, DeliverMember
<1>9. \/ \E i \in Server : ElectionTimeout(i) \/ Crash(i) \/ Restart(i)
      \/ \E i \in Server, due \in SUBSET LeaderTicks : LeaderTick(i, due)
      \/ \E i \in Server, v \in Value : ClientPropose(i, v)
      \/ \E i \in Server, s \in TransferTargets : Transfer(i, s)
      \/ \E c \in ConfChanges : ProposeConfChange(c)
      \/ \E m \in net : Deliver(m)
  BY DEF Next, ReceiveVote, ReceiveVoteResp, ReceiveApp, ReceiveAppResp, ReceiveSnap,
         ReceiveSnapResp, ReceiveTimeoutNow
<1> QED
  BY <1>1, <1>2, <1>3, <1>4, <1>5, <1>6, <1>7, <1>8, <1>9

LEMMA StutterMember ==
  ASSUME MemberInv, UNCHANGED vars
  PROVE  MemberInv'
<1>1. DurabilityInv'
  BY StutterDurability DEF MemberInv
<1>2. RecordsOnce' /\ LedPast' /\ Vouchers' = Vouchers
  BY DEF MemberInv, RecordsOnce, LedPast, Vouchers, vars
<1>3. ASSUME NEW L, Traced(L) PROVE Traced(L)'
  BY <1>2, <1>3 DEF Traced, LedRecorded, LogsRooted, AppsQuoted, InOffice, Running, vars
<1>4. ElectionSafety' => ElectionSafety
  BY DEF ElectionSafety, vars
<1> QED
  BY <1>1, <1>2, <1>3, <1>4 DEF MemberInv

LEMMA InitMember == Init => MemberInv
<1> SUFFICES ASSUME Init PROVE MemberInv
  OBVIOUS
<1>1. DurabilityInv
  BY InitDurabilityInv
<1>2. RecordsOnce /\ LedPast
  BY DEF Init, RecordsOnce, LedPast
<1> DEFINE L == [t \in Nat |-> <<>>]
<1>3. LedSound(L, Vouchers)
  BY EmptySeq DEF LedSound, RootedIn, AtMost, AllButLast
<1>4. LedRecorded(L)
  BY DEF LedRecorded
<1> HIDE DEF L
<1>5. LogsRooted(L)
  BY DEF LogsRooted, Init, NewDurable, RootedIn, AtMost
<1>6. AppsQuoted(L)
  BY DEF AppsQuoted, Init
<1>7. \A i \in up : InOffice(L, i)
  <2>1. \A i \in up : node[i] = RestartNode(i, NewDurable)
    BY DEF Init
  <2>2. ASSUME NEW i \in up
        PROVE  node[i].learner = None /\ node[i].state = "Follower"
    <3> DEFINE q == RestartNode(i, NewDurable)
    <3>1. q.learner = None /\ q.state = "Follower"
      BY DEF RestartNode
    <3> HIDE DEF q
    <3>2. node[i] = q
      BY <2>1 DEF q
    <3> QED
      BY <3>1, <3>2
  <2> QED
    BY <2>2 DEF InOffice, Orderly
<1> QED
  BY <1>1, <1>2, <1>3, <1>4, <1>5, <1>6, <1>7 DEF MemberInv, Traced

-----------------------------------------------------------------------------
(* The theorems *)

\* Without snapshots, and for any membership changes, the invariant of this
\* module holds: as long as every term has had one leader, there are logs of
\* the leaders that stores, nodes and messages quote, and in such a log a
\* configuration follows only ones that were seen committed
\* (proposeConfChange and maybePromoteLearner refuse a second change).
THEOREM Membership == ASSUME SnapshotThreshold = 0 PROVE Spec => []MemberInv
<1>1. Init => MemberInv
  BY InitMember
<1>2. MemberInv /\ [Next]_vars => MemberInv'
  BY NextMember, StutterMember
<1> QED
  BY <1>1, <1>2, PTL DEF Spec

LEMMA NoFront ==
  ASSUME NEW s, s.data = <<>>, NEW a \in Seq(Entry)
  PROVE  s.data \o a = a
<1>1. <<>> \o a = a
  OBVIOUS
<1> QED
  BY <1>1

LEMMA TracedMatches ==
  ASSUME SnapshotThreshold = 0, DurabilityInv, NEW L, Traced(L)
  PROVE  LogMatching
<1>1. \A i \in Server : durable[i].entries \in Seq(Entry)
  BY DEF DurabilityInv, VoteInv, TypeOK, Durable
<1>2. \A i \in Server : durable[i].snap.data = <<>>
  BY DEF DurabilityInv, GoodStore, NoSnapshot
<1>3. \A i \in Server : DurableLog(i) = durable[i].entries
  BY <1>1, <1>2, NoFront DEF DurableLog
<1>4. SUFFICES ASSUME NEW i \in Server, NEW j \in Server,
                      NEW k \in DOMAIN durable[i].entries \cap DOMAIN durable[j].entries,
                      durable[i].entries[k].term = durable[j].entries[k].term
               PROVE  \A h \in 1 .. k : durable[i].entries[h] = durable[j].entries[h]
  BY <1>3 DEF LogMatching
<1> DEFINE a == durable[i].entries
           b == durable[j].entries
<1>5. /\ a \in Seq(Entry) /\ b \in Seq(Entry) /\ k \in 1 .. Len(a) /\ k \in 1 .. Len(b)
  BY <1>1
<1>6. RootedIn(L, a) /\ RootedIn(L, b) /\ L \in [Nat -> Seq(Entry)]
  BY DEF Traced, LogsRooted, LedSound
<1>7. a[k].term = b[k].term
  BY <1>4
<1> HIDE DEF a, b
<1>8. Agree(a, b, k)
  BY <1>5, <1>6, <1>7, RootedAgree
<1> QED
  BY <1>8 DEF Agree, a, b

LEMMA AtMostOne ==
  ASSUME NEW V, NEW a \in Seq(Entry), AllButLast(V, a)
  PROVE  Cardinality({k \in DOMAIN a : a[k].type = "Config" /\ a[k] \notin V}) <= 1
<1> DEFINE S == {k \in DOMAIN a : a[k].type = "Config" /\ a[k] \notin V}
<1>1. DOMAIN a = 1 .. Len(a) /\ Len(a) \in Nat
  BY LenProperties
<1>2. \A j, k \in S : ~(j < k)
  BY <1>1 DEF AllButLast
<1>3. \A j \in S : j \in Int
  BY <1>1
<1> HIDE DEF S
<1>4. \A j, k \in S : j = k
  BY <1>2, <1>3
<1>5. ASSUME S = {} PROVE Cardinality(S) <= 1
  BY <1>5, FS_EmptySet
<1>6. ASSUME S # {} PROVE Cardinality(S) <= 1
  <2>1. PICK k \in S : TRUE
    BY <1>6
  <2>2. S = {k}
    BY <1>4, <2>1
  <2>3. Cardinality({k}) = 1
    BY FS_Singleton
  <2>4. Cardinality(S) = 1
    BY <2>2, <2>3
  <2> QED
    BY <2>4
<1>7. Cardinality(S) <= 1
  BY <1>5, <1>6
<1> QED
  BY <1>7 DEF S

LEMMA TracedOneConfig ==
  ASSUME SnapshotThreshold = 0, DurabilityInv, NEW L, Traced(L)
  PROVE  OneConfigInFlight
<1>1. SUFFICES ASSUME NEW i \in up
               PROVE  Cardinality({k \in DOMAIN FullLog(node[i]) :
                        /\ FullLog(node[i])[k].type = "Config"
                        /\ \A c \in committed : c.entry # FullLog(node[i])[k]}) <= 1
  BY DEF OneConfigInFlight
<1> DEFINE n == node[i]
           a == n.log.entries
<1>2. n \in Node /\ a \in Seq(Entry)
  BY UpWhole, NodeFields, LogFields
<1>3. n.snapshot.data = <<>>
  BY DEF DurabilityInv, AtRest, Tracks, Shape, NoSnapshot
<1>4. FullLog(n) = a
  BY <1>2, <1>3, NoFront DEF FullLog
<1>5. AllButLast(Vouchers, a)
  <2>1. LedSound(L, Vouchers) /\ RootedIn(L, a)
    BY TracedSane
  <2> HIDE DEF a
  <2> QED
    BY <1>2, <2>1, RootedAllButLast
<1> HIDE DEF a
<1>6. {k \in DOMAIN a : a[k].type = "Config" /\ \A c \in committed : c.entry # a[k]}
        = {k \in DOMAIN a : a[k].type = "Config" /\ a[k] \notin Vouchers}
  BY DEF Vouchers
<1>7. Cardinality({k \in DOMAIN a : /\ a[k].type = "Config"
                                    /\ \A c \in committed : c.entry # a[k]}) <= 1
  BY <1>2, <1>5, <1>6, AtMostOne
<1> QED
  BY <1>4, <1>7

\* The logs match, whatever the membership changes, as long as no term has had
\* two leaders: every entry of a log is that of the leader of its term.
THEOREM LogsMatchWithChanges ==
  ASSUME SnapshotThreshold = 0
  PROVE  Spec => [](ElectionSafety => LogMatching)
<1>1. MemberInv => (ElectionSafety => LogMatching)
  BY TracedMatches DEF MemberInv
<1> QED
  BY <1>1, Membership, PTL

\* A leader appends a configuration only when the one before it is committed
\* (ConfigPending): no log holds two that have not been seen committed, as long
\* as no term has had two leaders.
THEOREM OneConfigAtATime ==
  ASSUME SnapshotThreshold = 0
  PROVE  Spec => [](ElectionSafety => OneConfigInFlight)
<1>1. MemberInv => (ElectionSafety => OneConfigInFlight)
  BY TracedOneConfig DEF MemberInv
<1> QED
  BY <1>1, Membership, PTL
==============================================================================
