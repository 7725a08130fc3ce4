---------------------------- MODULE RaftNodeProofs ----------------------------
(***************************************************************************)
(* What every method of a Raft node preserves, for any set of servers:     *)
(* the node stays well formed, and its term and its vote change only in    *)
(* the ways that are safe to persist.  The second part (History) leaves    *)
(* single nodes behind and shows why the logs that they keep agree.        *)
(***************************************************************************)
EXTENDS RaftNode, TLAPS, FiniteSetTheorems, SequenceTheorems, WellFoundedInduction

-----------------------------------------------------------------------------
(* Smallest and largest elements *)

\* A set of naturals has a smallest element, and Min is it: the scans of the
\* log for the first index with some property stop inside it.
LEMMA MinOfNat ==
  ASSUME NEW S \in SUBSET Nat, S # {}
  PROVE  Min(S) \in S /\ \A y \in S : Min(S) <= y
<1>1. PICK x \in S : \A y \in S : <<y, x>> \notin OpToRel(<, Nat)
  BY WFMin, NatLessThanWellFounded, Zenon
<1>2. \A y \in S : y \in Nat /\ x \in Nat /\ <<y, x>> \in Nat \X Nat
  OBVIOUS
<1>3. \A y \in S : ~(y < x)
  BY <1>1, <1>2, Zenon DEF OpToRel
<1>4. \A y \in S : x <= y
  BY <1>2, <1>3
<1> QED
  BY <1>4, Zenon DEF Min

\* A non-empty set of naturals below a bound has a largest element.
LEMMA MaxOfNat ==
  ASSUME NEW b \in Nat, NEW S \in SUBSET (0 .. b), S # {}
  PROVE  Max(S) \in S /\ \A y \in S : Max(S) >= y
<1> DEFINE T == {x \in Nat : b - x \in S}
<1>1. \A y \in S : b - y \in T /\ y \in 0 .. b /\ b - (b - y) = y
  OBVIOUS
<1>2. T \in SUBSET Nat /\ T # {}
  BY <1>1
<1> HIDE DEF T
<1>3. Min(T) \in T /\ \A x \in T : Min(T) <= x
  BY <1>2, MinOfNat, Zenon
<1>4. Min(T) \in Nat /\ b - Min(T) \in S
  BY <1>3 DEF T
<1>5. \A y \in S : b - Min(T) >= y
  BY <1>1, <1>3, <1>4
<1> QED
  BY <1>4, <1>5, Zenon DEF Max

LEMMA MinOfTwo ==
  ASSUME NEW x \in Int, NEW y \in Int
  PROVE  Min({x, y}) = IF x <= y THEN x ELSE y
BY DEF Min

LEMMA MaxOfTwo ==
  ASSUME NEW x \in Int, NEW y \in Int
  PROVE  Max({x, y}) = IF x >= y THEN x ELSE y
BY DEF Max

-----------------------------------------------------------------------------
(* The log *)

LEMMA LogFields ==
  ASSUME NEW l \in Log
  PROVE  /\ l.snapIndex \in Nat /\ l.snapTerm \in Nat /\ l.entries \in Seq(Entry)
         /\ Len(l.entries) \in Nat
         /\ \A k \in 1 .. Len(l.entries) : l.entries[k] \in Entry
BY LenProperties, ElementOfSeq DEF Log

LEMMA EntryFields ==
  ASSUME NEW e \in Entry
  PROVE  e.index \in Nat /\ e.term \in Nat
BY DEF Entry

LEMMA IndexType ==
  ASSUME NEW l \in Log
  PROVE  LastIndex(l) \in Nat /\ FirstIndex(l) \in Nat \ {0}
BY LogFields DEF LastIndex, FirstIndex

\* Every index the code asks the term of yields a term, in the log or not.
LEMMA TermAtType ==
  ASSUME NEW l \in Log, NEW i \in Int
  PROVE  TermAt(l, i) \in Nat
<1>1. CASE HasTerm(l, i) /\ i # l.snapIndex
  <2>1. i - l.snapIndex \in 1 .. Len(l.entries)
    BY <1>1, LogFields DEF HasTerm, LastIndex
  <2> QED
    BY <1>1, <2>1, LogFields, EntryFields DEF TermAt
<1>2. CASE ~(HasTerm(l, i) /\ i # l.snapIndex)
  BY <1>2, LogFields DEF TermAt
<1> QED
  BY <1>1, <1>2

\* A part of a sequence of entries that starts within it.
LEMMA PartType ==
  ASSUME NEW s \in Seq(Entry), NEW a \in Nat \ {0}, NEW b \in Int, b <= Len(s)
  PROVE  SubSeq(s, a, b) \in Seq(Entry)
<1>1. \A i \in a .. b : i \in 1 .. Len(s)
  BY LenProperties
<1>2. \A i \in a .. b : s[i] \in Entry
  BY <1>1, ElementOfSeq, Zenon
<1> QED
  BY <1>2, SubSeqProperties

LEMMA SliceType ==
  ASSUME NEW l \in Log, NEW lo \in Int, NEW hi \in Int, NEW max \in Nat
  PROVE  Slice(l, lo, hi, max) \in Seq(Entry)
<1> DEFINE end == Min({hi - 1, LastIndex(l)})
           cut == IF max > 0 THEN Min({end, lo + max - 1}) ELSE end
<1>1. end \in Int /\ end <= LastIndex(l)
  BY MinOfTwo, IndexType
<1>2. cut \in Int /\ cut <= LastIndex(l)
  BY <1>1, MinOfTwo, IndexType
<1>3. CASE lo < FirstIndex(l)
  BY <1>3, EmptySeq DEF Slice
<1>4. CASE ~(lo < FirstIndex(l))
  <2>1. lo - l.snapIndex \in Nat \ {0} /\ cut - l.snapIndex \in Int
         /\ cut - l.snapIndex <= Len(l.entries)
    BY <1>2, <1>4, LogFields DEF FirstIndex, LastIndex
  <2>2. SubSeq(l.entries, lo - l.snapIndex, cut - l.snapIndex) \in Seq(Entry)
    BY <2>1, PartType, LogFields, Zenon
  <2> QED
    BY <1>4, <2>2 DEF Slice
<1> QED
  BY <1>3, <1>4

LEMMA AppendLogType ==
  ASSUME NEW l \in Log, NEW ents \in Seq(Entry)
  PROVE  /\ AppendLog(l, ents) \in Log
         /\ LastIndex(AppendLog(l, ents)) = LastIndex(l) + Len(ents)
<1>1. l.entries \o ents \in Seq(Entry) /\ Len(l.entries \o ents) = Len(l.entries) + Len(ents)
  BY LogFields, ConcatProperties
<1> DEFINE new == l.entries \o ents
<1> HIDE DEF new
<1>2. /\ [l EXCEPT !.entries = new] \in Log
      /\ [l EXCEPT !.entries = new].entries = new
      /\ [l EXCEPT !.entries = new].snapIndex = l.snapIndex
  BY <1>1 DEF Log, new
<1>3. Len(ents) \in Nat /\ Len(l.entries) \in Nat
  BY LogFields, LenProperties
<1>4. AppendLog(l, ents) = [l EXCEPT !.entries = new]
  BY DEF AppendLog, new
<1> QED
  BY <1>1, <1>2, <1>3, <1>4, LogFields DEF LastIndex, new

LEMMA TruncateFromType ==
  ASSUME NEW l \in Log, NEW i \in Int, i <= LastIndex(l) + 1
  PROVE  TruncateFrom(l, i) \in Log
<1>1. SubSeq(l.entries, 1, i - l.snapIndex - 1) \in Seq(Entry)
  BY PartType, LogFields DEF LastIndex
<1> QED
  BY <1>1 DEF TruncateFrom, Log

LEMMA CompactType ==
  ASSUME NEW l \in Log, NEW i \in Nat, NEW t \in Nat
  PROVE  Compact(l, i, t) \in Log
<1>1. CASE i <= l.snapIndex
  BY <1>1 DEF Compact
<1>2. CASE ~(i <= l.snapIndex)
  <2>1. SubSeq(l.entries, i - l.snapIndex + 1, Len(l.entries)) \in Seq(Entry)
    BY <1>2, PartType, LogFields
  <2> QED
    BY <1>2, <2>1 DEF Compact, Log
<1> QED
  BY <1>1, <1>2

LEMMA ResetLogType ==
  ASSUME NEW i \in Nat, NEW t \in Nat
  PROVE  ResetLog(i, t) \in Log
BY EmptySeq DEF ResetLog, Log

\* The conflict hint of a rejection is an index of the log, at most the one
\* the scan starts from.
LEMMA FirstIndexOfTermType ==
  ASSUME NEW l \in Log, NEW from \in Nat, NEW t
  PROVE  FirstIndexOfTerm(l, from, t) \in Nat /\ FirstIndexOfTerm(l, from, t) <= from
<1> DEFINE S == {from} \cup {i \in FirstIndex(l) .. from :
                               \A j \in i .. from : TermAt(l, j) = t}
<1>1. S \in SUBSET Nat /\ from \in S
  BY IndexType
<1>2. Min(S) \in S /\ \A y \in S : Min(S) <= y
  BY <1>1, MinOfNat, Zenon
<1>3. FirstIndexOfTerm(l, from, t) = Min(S)
  BY Zenon DEF FirstIndexOfTerm
<1> QED
  BY <1>1, <1>2, <1>3

LEMMA LastIndexOfTermType ==
  ASSUME NEW l \in Log, NEW t
  PROVE  LastIndexOfTerm(l, t) \in 0 .. LastIndex(l)
<1> DEFINE S == {0} \cup {i \in FirstIndex(l) .. LastIndex(l) :
                            /\ TermAt(l, i) = t
                            /\ \A j \in i .. LastIndex(l) : TermAt(l, j) >= t}
<1>1. S \in SUBSET (0 .. LastIndex(l)) /\ S # {} /\ LastIndex(l) \in Nat
  BY IndexType
<1>2. Max(S) \in S
  BY <1>1, MaxOfNat, Zenon
<1>3. LastIndexOfTerm(l, t) = Max(S)
  BY Zenon DEF LastIndexOfTerm
<1> QED
  BY <1>1, <1>2, <1>3

-----------------------------------------------------------------------------
(* Sequences in ascending index order *)

LEMMA CountUpToType ==
  ASSUME NEW s \in Seq(Entry), NEW i
  PROVE  CountUpTo(s, i) \in 0 .. Len(s)
<1> DEFINE K == {k \in 1 .. Len(s) : s[k].index <= i}
<1>1. Len(s) \in Nat
  BY LenProperties
<1>2. IsFiniteSet(1 .. Len(s)) /\ Cardinality(1 .. Len(s)) = Len(s)
  BY <1>1, FS_Interval
<1>3. IsFiniteSet(K) /\ Cardinality(K) <= Cardinality(1 .. Len(s))
  BY <1>2, FS_Subset, K \in SUBSET (1 .. Len(s)), Zenon
<1>4. Cardinality(K) \in Nat
  BY <1>3, FS_CardinalityType, Zenon
<1>5. CountUpTo(s, i) = Cardinality(K)
  BY Zenon DEF CountUpTo
<1> HIDE DEF K
<1> QED
  BY <1>1, <1>2, <1>3, <1>4, <1>5

LEMMA UpToType ==
  ASSUME NEW s \in Seq(Entry), NEW i
  PROVE  UpTo(s, i) \in Seq(Entry)
<1>1. CountUpTo(s, i) \in Int /\ CountUpTo(s, i) <= Len(s)
  BY CountUpToType, LenProperties
<1> QED
  BY <1>1, PartType DEF UpTo

LEMMA AfterType ==
  ASSUME NEW s \in Seq(Entry), NEW i
  PROVE  After(s, i) \in Seq(Entry)
<1>1. CountUpTo(s, i) + 1 \in Nat \ {0} /\ Len(s) \in Int
  BY CountUpToType, LenProperties
<1> QED
  BY <1>1, PartType DEF After

-----------------------------------------------------------------------------
(* Configurations *)

LEMMA CfgOfType ==
  ASSUME NEW h \in SUBSET ConfRecord
  PROVE  CfgOf(h) \in SUBSET Server
BY DEF CfgOf, Newest, ConfRecord

LEMMA ConfigRecordsType ==
  ASSUME NEW ents \in Seq(Entry)
  PROVE  ConfigRecords(ents) \in SUBSET ConfRecord
<1>1. \A k \in 1 .. Len(ents) : ents[k] \in Entry
  BY ElementOfSeq
<1>2. \A k \in 1 .. Len(ents) : ents[k].type = "Config" =>
        ents[k].index \in Nat /\ ents[k].data \in SUBSET Server
  BY <1>1 DEF Entry
<1> QED
  BY <1>2 DEF ConfigRecords, ConfRecord

LEMMA ConfHistoryTypes ==
  ASSUME NEW h \in SUBSET ConfRecord, NEW i
  PROVE  /\ UpToOrOldest(h, i) \in SUBSET ConfRecord
         /\ TruncateConfigsFrom(h, i) \in SUBSET ConfRecord
         /\ PruneConfHistory(h, i) \in SUBSET ConfRecord
         /\ ConfigAt(h, i) \in SUBSET Server
<1>1. \A j : UpToOrOldest(h, j) \in SUBSET ConfRecord
  BY DEF UpToOrOldest, Oldest
<1>2. Newest(UpToOrOldest(h, i)) \in SUBSET ConfRecord
  BY <1>1 DEF Newest
<1> QED
  BY <1>1, <1>2, CfgOfType DEF TruncateConfigsFrom, PruneConfHistory, ConfigAt

LEMMA InitConfHistoryType ==
  ASSUME NEW i \in Nat, NEW cfg \in SUBSET Server
  PROVE  InitConfHistory(i, cfg) \in SUBSET ConfRecord
BY DEF InitConfHistory, ConfRecord

-----------------------------------------------------------------------------
(* The durable store *)

LEMMA NoSnapshotType == NoSnapshot \in Snapshot
BY EmptySeq DEF NoSnapshot, Snapshot

LEMMA NewDurableType == NewDurable \in Durable
BY EmptySeq, NoSnapshotType DEF NewDurable, Durable

LEMMA KeptEntriesType ==
  ASSUME NEW d \in Durable, NEW p \in Persist
  PROVE  KeptEntries(d, p) \in Seq(Entry)
<1> DEFINE s == CASE p.snap = "none"    -> d.entries
                  [] p.snap = "keep"    -> After(d.entries, p.snapshot.index)
                  [] p.snap = "replace" -> <<>>
<1>1. d.entries \in Seq(Entry) /\ p.snap \in {"none", "keep", "replace"}
  BY DEF Durable, Persist
<1>2. After(d.entries, p.snapshot.index) \in Seq(Entry)
  BY <1>1, AfterType
<1>3. s \in Seq(Entry)
  BY <1>1, <1>2, EmptySeq
<1> HIDE DEF s
<1>4. UpTo(s, p.entries[1].index - 1) \in Seq(Entry)
  BY <1>3, UpToType
<1>5. KeptEntries(d, p) = IF p.entries = <<>> THEN s ELSE UpTo(s, p.entries[1].index - 1)
  BY Zenon DEF KeptEntries, s
<1> QED
  BY <1>3, <1>4, <1>5

\* What is durable after an fsync, whatever was asked of it, is well formed.
LEMMA ApplyPersistType ==
  ASSUME NEW d \in Durable, NEW p \in Persist
  PROVE  ApplyPersist(d, p) \in Durable
<1>1. KeptEntries(d, p) \o p.entries \in Seq(Entry)
  BY KeptEntriesType, ConcatProperties DEF Persist
<1> QED
  BY <1>1 DEF ApplyPersist, Durable, Persist

-----------------------------------------------------------------------------
(* Quorums of the initial voters *)

LEMMA InitialQuorum ==
  /\ IsFiniteSet(InitialVoters) /\ Cardinality(InitialVoters) \in Nat
  /\ Quorum(InitialVoters) \in Nat
  /\ 2 * Quorum(InitialVoters) > Cardinality(InitialVoters)
<1>1. IsFiniteSet(InitialVoters) /\ Cardinality(InitialVoters) \in Nat
  BY ServerAssumption, VotersAssumption, FS_Subset, FS_CardinalityType
<1> DEFINE k == Cardinality(InitialVoters)
<1>2. k \in Nat
  BY <1>1
<1> HIDE DEF k
<1>3. (k \div 2) + 1 \in Nat /\ 2 * ((k \div 2) + 1) > k
  BY <1>2
<1> QED
  BY <1>1, <1>3 DEF Quorum, k

Majority(Q) == Q \subseteq InitialVoters /\ Cardinality(Q) >= Quorum(InitialVoters)

\* Two quorums share a voter.
LEMMA MajoritiesMeet ==
  ASSUME NEW P, NEW Q, Majority(P), Majority(Q)
  PROVE  \E v \in Server : v \in P /\ v \in Q
<1>1. /\ IsFiniteSet(InitialVoters) /\ Cardinality(InitialVoters) \in Nat
      /\ Quorum(InitialVoters) \in Nat
      /\ 2 * Quorum(InitialVoters) > Cardinality(InitialVoters)
  BY InitialQuorum
<1>2. P \subseteq InitialVoters /\ Q \subseteq InitialVoters
  BY DEF Majority
<1>3. Cardinality(P) \in Nat /\ Cardinality(Q) \in Nat
  BY <1>1, <1>2, FS_Subset, FS_CardinalityType
<1>4. Cardinality(P) + Cardinality(Q) > Cardinality(InitialVoters)
  BY <1>1, <1>3 DEF Majority
<1>5. P \cap Q # {}
  BY <1>1, <1>2, <1>4, FS_MajoritiesIntersect
<1> QED
  BY <1>2, <1>5, VotersAssumption

-----------------------------------------------------------------------------
(* The methods of a node *)

\* A granted vote: the only messages that commit their sender to something.
Granted(m) == m.type = "VoteResp" /\ ~m.preVote /\ m.granted

\* The node n stands by the vote that m carries.
StandsBy(n, m) ==
  /\ m.from = n.id
  /\ n.term > m.term \/ (n.term = m.term /\ n.votedFor = m.to)

\* q results from n by steps that leave the hard state alone.
Quiet(n, q) ==
  /\ q \in Node
  /\ q.id = n.id /\ q.term = n.term /\ q.votedFor = n.votedFor
  /\ q.hsDirty = n.hsDirty
  /\ \A m \in q.out : m \in n.out \/ ~Granted(m)

\* q results from n by steps that may move to a later term and cast votes:
\* terms never go back, a vote stands for its term, a change is marked for
\* the fsync of the step, and a vote goes out only once it is cast.
Follows(n, q) ==
  /\ q \in Node
  /\ q.id = n.id /\ n.term <= q.term
  /\ n.term = q.term /\ n.votedFor # None => q.votedFor = n.votedFor
  /\ q.hsDirty \/ (q.term = n.term /\ q.votedFor = n.votedFor)
  /\ \A m \in q.out : m \in n.out \/ ~Granted(m) \/ StandsBy(q, m)

-----------------------------------------------------------------------------
(* Composition *)

LEMMA NodeFields ==
  ASSUME NEW n \in Node
  PROVE  /\ n.id \in Server /\ n.state \in States /\ n.term \in Nat
         /\ n.votedFor \in OptServer /\ n.log \in Log /\ n.commitIndex \in Nat
         /\ n.lastApplied \in Nat /\ n.leaderID \in OptServer
         /\ n.confHistory \in SUBSET ConfRecord
         /\ n.votes \in [Server -> {"none", "yes", "no"}]
         /\ n.prs \in [Server -> Progress] /\ n.transferee \in OptServer
         /\ n.learner \in OptServer /\ n.snapshot \in Snapshot
         /\ n.out \in SUBSET Message /\ n.hsDirty \in BOOLEAN
         /\ n.appendedFrom \in Nat /\ n.snapDirty \in {"none", "keep", "replace"}
         /\ n.applied \in Seq(Entry) /\ n.panic \in BOOLEAN
BY DEF Node

LEMMA QuietSelf ==
  ASSUME NEW n \in Node
  PROVE  Quiet(n, n) /\ Follows(n, n)
BY NodeFields DEF Quiet, Follows

LEMMA QuietTwice ==
  ASSUME NEW n, NEW p, NEW q, Quiet(n, p), Quiet(p, q)
  PROVE  Quiet(n, q)
BY DEF Quiet

LEMMA QuietFollows ==
  ASSUME NEW n \in Node, NEW q, Quiet(n, q)
  PROVE  Follows(n, q)
BY NodeFields DEF Quiet, Follows

\* A vote that stands still stands later.
LEMMA StandsByLater ==
  ASSUME NEW p \in Node, NEW q \in Node, Follows(p, q),
         NEW m \in Message, Granted(m), StandsBy(p, m)
  PROVE  StandsBy(q, m)
<1>1. m.to \in Server /\ m.term \in Nat
  BY DEF Granted, Message, VoteReq, VoteResp, App, AppResp, Snap, SnapResp, TimeoutNow
<1>2. m.to # None
  BY <1>1, ServerAssumption
<1> QED
  BY <1>1, <1>2, NodeFields DEF Follows, StandsBy

LEMMA FollowsTwice ==
  ASSUME NEW n \in Node, NEW p \in Node, NEW q \in Node,
         Follows(n, p), Follows(p, q),
         p.hsDirty => q.hsDirty
  PROVE  Follows(n, q)
<1>1. ASSUME NEW m \in q.out, m \notin n.out, Granted(m)
      PROVE  StandsBy(q, m)
  <2>1. CASE m \in p.out
    BY <1>1, <2>1, StandsByLater, NodeFields DEF Follows
  <2>2. CASE m \notin p.out
    BY <1>1, <2>2 DEF Follows
  <2> QED
    BY <2>1, <2>2
<1>2. /\ q \in Node /\ q.id = n.id /\ n.term <= q.term
      /\ n.term = q.term /\ n.votedFor # None => q.votedFor = n.votedFor
      /\ q.hsDirty \/ (q.term = n.term /\ q.votedFor = n.votedFor)
  BY NodeFields DEF Follows
<1> QED
  BY <1>1, <1>2 DEF Follows

LEMMA QuietThenFollows ==
  ASSUME NEW n \in Node, NEW p, NEW q \in Node, Quiet(n, p), Follows(p, q)
  PROVE  Follows(n, q)
<1>1. q.hsDirty \/ (q.term = n.term /\ q.votedFor = n.votedFor)
  BY DEF Quiet, Follows
<1> QED
  BY <1>1, NodeFields DEF Quiet, Follows

LEMMA FollowsThenQuiet ==
  ASSUME NEW n \in Node, NEW p \in Node, NEW q \in Node, Follows(n, p), Quiet(p, q)
  PROVE  Follows(n, q)
<1>1. p.hsDirty => q.hsDirty
  BY DEF Quiet
<1> QED
  BY <1>1, FollowsTwice, QuietFollows, Zenon

-----------------------------------------------------------------------------
(* Messages *)

LEMMA SendQuiet ==
  ASSUME NEW n \in Node, NEW msgs \in SUBSET Message,
         \A m \in msgs : ~Granted(m)
  PROVE  Quiet(n, Send(n, msgs))
BY DEF Send, Node, Quiet

LEMMA ReplicationTargetsType ==
  ASSUME NEW n \in Node
  PROVE  ReplicationTargets(n) \in SUBSET Server /\ Config(n) \in SUBSET Server
BY NodeFields, CfgOfType DEF ReplicationTargets, Config, OptServer

LEMMA AppsForType ==
  ASSUME NEW n \in Node, NEW to \in Server
  PROVE  AppsFor(n, to) \in SUBSET Message /\ \A m \in AppsFor(n, to) : ~Granted(m)
<1> DEFINE pr == n.prs[to]
<1>1. pr \in Progress
  BY NodeFields
<1>2. CASE pr = NoProgress
  BY <1>2 DEF AppsFor
<1>3. CASE pr # NoProgress /\ NeedsSnapshot(n, to)
  <2> DEFINE s == [type |-> "Snap", from |-> n.id, to |-> to, term |-> n.term,
                   snapshot |-> n.snapshot]
  <2>1. s \in Snap /\ ~Granted(s)
    BY NodeFields DEF Snap, Granted
  <2>2. AppsFor(n, to) \in SUBSET {s}
    BY <1>3 DEF AppsFor
  <2> QED
    BY <2>1, <2>2 DEF Message
<1>4. CASE pr # NoProgress /\ ~NeedsSnapshot(n, to)
  <2> DEFINE a == [type |-> "App", from |-> n.id, to |-> to, term |-> n.term,
                   prevLogIndex |-> PrevIndex(pr),
                   prevLogTerm |-> TermAt(n.log, PrevIndex(pr)),
                   entries |-> Slice(n.log, pr.next, LastIndex(n.log) + 1, MaxBatch),
                   commit |-> n.commitIndex]
  <2>1. pr.next \in Nat \ {0} /\ PrevIndex(pr) \in Nat
    BY <1>1, <1>4 DEF Progress, PrevIndex
  <2>2. TermAt(n.log, PrevIndex(pr)) \in Nat
    BY <2>1, NodeFields, TermAtType
  <2>3. Slice(n.log, pr.next, LastIndex(n.log) + 1, MaxBatch) \in Seq(Entry)
    BY <2>1, NodeFields, IndexType, SliceType, ParamsAssumption
  <2>4. a \in App /\ ~Granted(a)
    BY <2>1, <2>2, <2>3, NodeFields DEF App, Granted
  <2>5. AppsFor(n, to) = {a}
    BY <1>4, Zenon DEF AppsFor
  <2> QED
    BY <2>4, <2>5 DEF Message
<1> QED
  BY <1>2, <1>3, <1>4

LEMMA SendAppendsQuiet ==
  ASSUME NEW n \in Node, NEW targets \in SUBSET Server
  PROVE  Quiet(n, SendAppends(n, targets))
<1> DEFINE o == UNION {AppsFor(n, to) : to \in targets}
           r == [s \in Server |->
                   IF s \in targets /\ NeedsSnapshot(n, s)
                   THEN [n.prs[s] EXCEPT !.pendingSnap = TRUE] ELSE n.prs[s]]
           x == n.panic \/ \E to \in targets : CannotSend(n, to)
<1>1. o \in SUBSET Message /\ \A m \in o : ~Granted(m)
  BY AppsForType
<1>2. r \in [Server -> Progress]
  <2>1. \A s \in Server : n.prs[s] \in Progress
    BY NodeFields
  <2>2. \A s \in Server : NeedsSnapshot(n, s) =>
          [n.prs[s] EXCEPT !.pendingSnap = TRUE] \in Progress
    BY <2>1 DEF NeedsSnapshot, Progress
  <2> QED
    BY <2>1, <2>2
<1>3. x \in BOOLEAN
  OBVIOUS
<1>4. SendAppends(n, targets) = [n EXCEPT !.out = @ \cup o, !.prs = r, !.panic = x]
  BY Zenon DEF SendAppends
<1> HIDE DEF o, r, x
<1> DEFINE q == [n EXCEPT !.out = @ \cup o, !.prs = r, !.panic = x]
<1>5. q \in Node
  BY <1>1, <1>2, <1>3 DEF Node
<1>6. /\ q.id = n.id /\ q.term = n.term /\ q.votedFor = n.votedFor
      /\ q.hsDirty = n.hsDirty /\ q.out = n.out \cup o
  BY DEF Node
<1> HIDE DEF q
<1>7. \A m \in q.out : m \in n.out \/ ~Granted(m)
  BY <1>1, <1>6
<1> QED
  BY <1>4, <1>5, <1>6, <1>7 DEF Quiet, q

LEMMA BroadcastQuiet ==
  ASSUME NEW n \in Node
  PROVE  Quiet(n, BroadcastAppend(n))
BY ReplicationTargetsType, SendAppendsQuiet DEF BroadcastAppend

-----------------------------------------------------------------------------
(* Commitment *)

LEMMA ApplyCommittedQuiet ==
  ASSUME NEW n \in Node
  PROVE  Quiet(n, ApplyCommitted(n)) /\ ApplyCommitted(n).state = n.state
<1> DEFINE a == n.applied \o Slice(n.log, n.lastApplied + 1, n.commitIndex + 1, 0)
<1>1. a \in Seq(Entry)
  BY NodeFields, SliceType, ConcatProperties
<1>2. ApplyCommitted(n) =
        IF n.commitIndex <= n.lastApplied THEN n
        ELSE [n EXCEPT !.applied = a, !.lastApplied = n.commitIndex]
  BY Zenon DEF ApplyCommitted
<1> HIDE DEF a
<1> QED
  BY <1>1, <1>2, QuietSelf DEF Node, Quiet

\* Within its term a node steps down without touching its vote; towards a
\* later term it forgets the vote of the old one, and marks both for fsync.
LEMMA BecomeFollowerFollows ==
  ASSUME NEW n \in Node, NEW term \in Nat, NEW leader \in OptServer
  PROVE  /\ Follows(n, BecomeFollower(n, term, leader))
         /\ n.hsDirty => BecomeFollower(n, term, leader).hsDirty
         /\ term <= n.term => Quiet(n, BecomeFollower(n, term, leader))
         /\ term <= BecomeFollower(n, term, leader).term
<1> DEFINE q == BecomeFollower(n, term, leader)
<1>1. NoVotes \in [Server -> {"none", "yes", "no"}] /\ NoPeers \in [Server -> Progress]
  BY DEF NoVotes, NoPeers, Progress
<1>2. None \in OptServer /\ "Follower" \in States
  BY DEF OptServer, States
<1>3. q \in Node
  BY <1>1, <1>2 DEF BecomeFollower, Node
<1>4. /\ q.id = n.id /\ q.out = n.out
      /\ q.term = IF term > n.term THEN term ELSE n.term
      /\ q.votedFor = IF term > n.term THEN None ELSE n.votedFor
      /\ q.hsDirty = (n.hsDirty \/ term > n.term)
  BY DEF BecomeFollower, Node
<1> HIDE DEF q
<1>5. n.term \in Nat /\ n.hsDirty \in BOOLEAN
  BY NodeFields
<1>6. n.term <= q.term /\ term <= q.term
      /\ (n.term = q.term => q.votedFor = n.votedFor)
  BY <1>4, <1>5
<1>7. q.hsDirty \/ ~(term > n.term)
  BY <1>4, Zenon
<1>8. n.hsDirty => q.hsDirty
  BY <1>4, Zenon
<1>9. q.hsDirty \/ (q.term = n.term /\ q.votedFor = n.votedFor)
  BY <1>4, <1>7
<1>10. Follows(n, q)
  BY <1>3, <1>4, <1>6, <1>9 DEF Follows
<1>11. ASSUME term <= n.term PROVE Quiet(n, q)
  <2>1. ~(term > n.term)
    BY <1>5, <1>11
  <2>2. q.hsDirty = n.hsDirty
    BY <1>4, <1>5, <2>1, Zenon
  <2> QED
    BY <1>3, <1>4, <2>1, <2>2 DEF Quiet
<1> QED
  BY <1>6, <1>8, <1>10, <1>11 DEF q

LEMMA AfterCommitQuiet ==
  ASSUME NEW n \in Node
  PROVE  Quiet(n, AfterCommit(n))
<1>1. Quiet(n, BecomeFollower(n, n.term, None))
  BY BecomeFollowerFollows, NodeFields DEF OptServer
<1> QED
  BY <1>1, QuietSelf DEF AfterCommit

LEMMA MaybeCommitQuiet ==
  ASSUME NEW n \in Node
  PROVE  Quiet(n, MaybeCommit(n))
<1> DEFINE k == QuorumMatch(n)
           b == [n EXCEPT !.commitIndex = k]
           c == AfterCommit(ApplyCommitted(b))
<1>1. CASE n.state = "Leader" /\ k \in n.commitIndex + 1 .. LastIndex(n.log)
             /\ CommittableAt(n, k)
  <2>1. k \in Nat
    BY <1>1, NodeFields, IndexType
  <2> HIDE DEF k
  <2>2. Quiet(n, b)
    BY <2>1 DEF Node, Quiet
  <2> HIDE DEF b
  <2>3. Quiet(b, ApplyCommitted(b))
    BY <2>2, ApplyCommittedQuiet DEF Quiet
  <2>4. Quiet(ApplyCommitted(b), c)
    BY <2>3, AfterCommitQuiet DEF Quiet
  <2>5. Quiet(n, c)
    BY <2>2, <2>3, <2>4, QuietTwice, Zenon
  <2>6. Quiet(c, BroadcastAppend(c))
    BY <2>5, BroadcastQuiet DEF Quiet
  <2>7. Quiet(n, BroadcastAppend(c))
    BY <2>5, <2>6, QuietTwice, Zenon
  <2>8. MaybeCommit(n) = IF c.state = "Leader" THEN BroadcastAppend(c) ELSE c
    BY <1>1, Zenon DEF MaybeCommit, b, k
  <2> QED
    BY <2>5, <2>7, <2>8, Zenon
<1>2. CASE ~(n.state = "Leader" /\ k \in n.commitIndex + 1 .. LastIndex(n.log)
               /\ CommittableAt(n, k))
  <2>1. MaybeCommit(n) = n
    BY <1>2, Zenon DEF MaybeCommit
  <2> QED
    BY <2>1, QuietSelf, Zenon
<1> QED
  BY <1>1, <1>2

LEMMA MaybeCommitThenBroadcastQuiet ==
  ASSUME NEW n \in Node
  PROVE  Quiet(n, MaybeCommitThenBroadcast(n))
<1> DEFINE c == MaybeCommit(n)
<1>1. Quiet(n, c)
  BY MaybeCommitQuiet
<1>2. Quiet(c, BroadcastAppend(c))
  BY <1>1, BroadcastQuiet DEF Quiet
<1>3. Quiet(n, BroadcastAppend(c))
  BY <1>1, <1>2, QuietTwice, Zenon
<1> QED
  BY <1>1, <1>3, Zenon DEF MaybeCommitThenBroadcast

-----------------------------------------------------------------------------
(* Appending *)

LEMMA MarkAppendedType ==
  ASSUME NEW n \in Node, NEW i \in Nat
  PROVE  MarkAppended(n, i) \in Nat
BY NodeFields DEF MarkAppended

LEMMA NewProgressType ==
  ASSUME NEW k \in Nat
  PROVE  NewProgress(k) \in Progress
BY DEF NewProgress, NoProgress, Progress

LEMMA AppendEntryQuiet ==
  ASSUME NEW n \in Node, NEW type, NEW data,
         \/ type = "Normal" /\ data \in Value
         \/ type = "Noop"   /\ data = None
         \/ type = "Config" /\ data \in SUBSET Server
  PROVE  Quiet(n, AppendEntry(n, type, data))
<1> DEFINE e == [index |-> LastIndex(n.log) + 1, term |-> n.term, type |-> type,
                 data |-> data]
           fresh == IF type = "Config"
                    THEN {v \in data \ {n.id} : n.prs[v] = NoProgress} ELSE {}
           l == AppendLog(n.log, <<e>>)
           h == n.confHistory \cup ConfigRecords(<<e>>)
           r == [s \in Server |-> IF s \in fresh THEN NewProgress(e.index + 1)
                                  ELSE n.prs[s]]
           i == MarkAppended(n, e.index)
<1>1. e \in Entry /\ e.index \in Nat
  BY NodeFields, IndexType DEF Entry
<1> HIDE DEF e
<1>2. <<e>> \in Seq(Entry)
  BY <1>1
<1>3. l \in Log
  BY <1>2, NodeFields, AppendLogType
<1>4. h \in SUBSET ConfRecord
  BY <1>2, NodeFields, ConfigRecordsType
<1>5. r \in [Server -> Progress]
  BY <1>1, NodeFields, NewProgressType
<1>6. i \in Nat
  BY <1>1, MarkAppendedType
<1>7. AppendEntry(n, type, data) =
        [n EXCEPT !.log = l, !.appendedFrom = i, !.confHistory = h, !.prs = r]
  BY Zenon DEF AppendEntry, e
<1> HIDE DEF l, h, r, i
<1> DEFINE q == [n EXCEPT !.log = l, !.appendedFrom = i, !.confHistory = h, !.prs = r]
<1>8. q \in Node
  BY <1>3, <1>4, <1>5, <1>6 DEF Node
<1>9. /\ q.id = n.id /\ q.term = n.term /\ q.votedFor = n.votedFor
      /\ q.hsDirty = n.hsDirty /\ q.out = n.out
  BY DEF Node
<1> HIDE DEF q
<1> QED
  BY <1>7, <1>8, <1>9 DEF Quiet, q

LEMMA ProposeQuiet ==
  ASSUME NEW n \in Node, NEW v \in Value
  PROVE  Quiet(n, Propose(n, v))
<1> DEFINE a == AppendEntry(n, "Normal", v)
<1>1. Quiet(n, a)
  BY AppendEntryQuiet
<1>2. Quiet(a, MaybeCommitThenBroadcast(a))
  BY <1>1, MaybeCommitThenBroadcastQuiet DEF Quiet
<1>3. Quiet(n, MaybeCommitThenBroadcast(a))
  BY <1>1, <1>2, QuietTwice, Zenon
<1> QED
  BY <1>3, QuietSelf, Zenon DEF Propose

-----------------------------------------------------------------------------
(* Elections *)

LEMMA BecomeLeaderQuiet ==
  ASSUME NEW n \in Node
  PROVE  Quiet(n, BecomeLeader(n))
<1> DEFINE r == [s \in Server |->
                   IF s \in Config(n) \ {n.id} THEN NewProgress(LastIndex(n.log) + 1)
                   ELSE NoProgress]
           lead == [n EXCEPT !.state = "Leader", !.leaderID = n.id, !.votes = NoVotes,
                             !.transferee = None, !.prs = r]
           a == AppendEntry(lead, "Noop", None)
           c == MaybeCommit(a)
<1>1. r \in [Server -> Progress]
  BY NodeFields, IndexType, NewProgressType DEF Progress
<1>2. NoVotes \in [Server -> {"none", "yes", "no"}] /\ n.id \in OptServer
      /\ None \in OptServer /\ "Leader" \in States
  BY NodeFields DEF NoVotes, OptServer, States
<1> HIDE DEF r
<1>3. Quiet(n, lead)
  BY <1>1, <1>2 DEF Node, Quiet
<1>4. BecomeLeader(n) = BroadcastAppend(c)
  BY Zenon DEF BecomeLeader, r
<1> HIDE DEF lead
<1>5. Quiet(lead, a)
  BY <1>3, AppendEntryQuiet DEF Quiet
<1> HIDE DEF a
<1>6. Quiet(a, c)
  BY <1>5, MaybeCommitQuiet DEF Quiet
<1> HIDE DEF c
<1>7. Quiet(c, BroadcastAppend(c))
  BY <1>6, BroadcastQuiet DEF Quiet
<1> QED
  BY <1>3, <1>4, <1>5, <1>6, <1>7, QuietTwice, Zenon

LEMMA OwnVoteType ==
  ASSUME NEW n \in Node
  PROVE  OwnVote(n) \in [Server -> {"none", "yes", "no"}]
BY DEF OwnVote, NoVotes

LEMMA BecomePreCandidateQuiet ==
  ASSUME NEW n \in Node
  PROVE  Quiet(n, BecomePreCandidate(n))
BY OwnVoteType DEF BecomePreCandidate, Node, Quiet, OptServer, States

LEMMA BecomeCandidateFollows ==
  ASSUME NEW n \in Node
  PROVE  Follows(n, BecomeCandidate(n)) /\ BecomeCandidate(n).hsDirty
<1> DEFINE q == BecomeCandidate(n)
<1> DEFINE t == n.term + 1
           w == OwnVote(n)
<1>0. t \in Nat /\ n.id \in OptServer /\ None \in OptServer /\ "Candidate" \in States
      /\ w \in [Server -> {"none", "yes", "no"}]
  BY OwnVoteType, NodeFields DEF OptServer, States
<1>1. q \in Node
  <2>1. q = [n EXCEPT !.term = t, !.votedFor = n.id, !.hsDirty = TRUE,
                      !.state = "Candidate", !.leaderID = None, !.votes = w]
    BY Zenon DEF BecomeCandidate
  <2> HIDE DEF t, w, q
  <2> QED
    BY <1>0, <2>1 DEF Node
<1>2. q.id = n.id /\ q.term = n.term + 1 /\ q.hsDirty /\ q.out = n.out
  BY DEF BecomeCandidate, Node
<1> QED
  BY <1>1, <1>2, NodeFields DEF Follows

LEMMA RequestVotesQuiet ==
  ASSUME NEW n \in Node, NEW term \in Nat, NEW pre \in BOOLEAN, NEW force \in BOOLEAN
  PROVE  Quiet(n, RequestVotes(n, term, pre, force))
<1> DEFINE V(v) == [type |-> "Vote", from |-> n.id, to |-> v, term |-> term,
                    preVote |-> pre, force |-> force,
                    lastLogIndex |-> LastIndex(n.log), lastLogTerm |-> LastTerm(n.log)]
<1>1. LastIndex(n.log) \in Nat /\ LastTerm(n.log) \in Nat
  BY NodeFields, IndexType, TermAtType DEF LastTerm
<1>2. \A v \in Server : V(v) \in VoteReq /\ ~Granted(V(v))
  BY <1>1, NodeFields DEF VoteReq, Granted
<1>3. {V(v) : v \in Config(n) \ {n.id}} \in SUBSET Message
  BY <1>2, ReplicationTargetsType DEF Message
<1>4. \A m \in {V(v) : v \in Config(n) \ {n.id}} : ~Granted(m)
  BY <1>2, ReplicationTargetsType
<1> QED
  BY <1>3, <1>4, SendQuiet DEF RequestVotes

LEMMA ElectFollows ==
  ASSUME NEW n \in Node, NEW force \in BOOLEAN
  PROVE  Follows(n, Elect(n, force)) /\ Elect(n, force).hsDirty
<1> DEFINE c == BecomeCandidate(n)
<1>1. Follows(n, c) /\ c.hsDirty /\ c \in Node
  BY BecomeCandidateFollows DEF Follows
<1>2. Quiet(c, BecomeLeader(c)) /\ Quiet(c, RequestVotes(c, c.term, FALSE, force))
  BY <1>1, BecomeLeaderQuiet, RequestVotesQuiet, NodeFields
<1>3. Quiet(c, Elect(n, force))
  BY <1>2, Zenon DEF Elect
<1> QED
  BY <1>1, <1>3, FollowsThenQuiet DEF Quiet

LEMMA PreElectFollows ==
  ASSUME NEW n \in Node, NEW force \in BOOLEAN
  PROVE  Follows(n, PreElect(n, force)) /\ (n.hsDirty => PreElect(n, force).hsDirty)
<1> DEFINE c == BecomePreCandidate(n)
           q == PreElect(n, force)
<1>1. Quiet(n, c) /\ c \in Node
  BY BecomePreCandidateQuiet DEF Quiet
<1>2. Quiet(c, RequestVotes(c, c.term + 1, TRUE, force))
  <2>1. c.term + 1 \in Nat
    BY <1>1, NodeFields
  <2> QED
    BY <1>1, <2>1, RequestVotesQuiet
<1>3. CASE q = Elect(c, force)
  <2>1. Follows(c, q) /\ q.hsDirty /\ q \in Node
    BY <1>1, <1>3, ElectFollows DEF Follows
  <2> QED
    BY <1>1, <2>1, QuietThenFollows
<1>4. CASE q = RequestVotes(c, c.term + 1, TRUE, force)
  <2>1. Quiet(n, q)
    BY <1>1, <1>2, <1>4, QuietTwice
  <2> QED
    BY <2>1, QuietFollows DEF Quiet
<1> QED
  BY <1>3, <1>4, Zenon DEF PreElect

LEMMA CampaignFollows ==
  ASSUME NEW n \in Node, NEW pre \in BOOLEAN, NEW force \in BOOLEAN
  PROVE  Follows(n, Campaign(n, pre, force)) /\ (n.hsDirty => Campaign(n, pre, force).hsDirty)
BY QuietSelf, ElectFollows, PreElectFollows DEF Campaign

LEMMA VoteReplyType ==
  ASSUME NEW n \in Node, NEW m \in Message, NEW term \in Nat,
         NEW pre \in BOOLEAN, NEW granted \in BOOLEAN
  PROVE  /\ VoteReply(n, m, term, pre, granted) \in SUBSET Message
         /\ pre \/ ~granted => \A r \in VoteReply(n, m, term, pre, granted) : ~Granted(r)
<1>1. m.from \in Server
  BY DEF Message, VoteReq, VoteResp, App, AppResp, Snap, SnapResp, TimeoutNow
<1> QED
  BY <1>1, NodeFields DEF VoteReply, Message, VoteResp, Granted

LEMMA HandlePreVoteQuiet ==
  ASSUME NEW n \in Node, NEW m \in VoteReq, NEW fresh \in BOOLEAN
  PROVE  Quiet(n, HandlePreVote(n, m, fresh))
<1> DEFINE granted == /\ m.term > n.term
                      /\ LogUpToDate(n, m.lastLogIndex, m.lastLogTerm)
                      /\ ~Sticky(n, m, fresh)
           term == IF granted THEN m.term ELSE n.term
<1>1. granted \in BOOLEAN /\ term \in Nat /\ m \in Message
  BY NodeFields DEF VoteReq, Message
<1>2. HandlePreVote(n, m, fresh) = Send(n, VoteReply(n, m, term, TRUE, granted))
  BY Zenon DEF HandlePreVote
<1> HIDE DEF granted, term
<1> QED
  BY <1>1, <1>2, VoteReplyType, SendQuiet

\* The one place where a vote is cast for another server.
LEMMA HandleRealVoteFollows ==
  ASSUME NEW n \in Node, NEW m \in VoteReq
  PROVE  Follows(n, HandleRealVote(n, m)) /\ (n.hsDirty => HandleRealVote(n, m).hsDirty)
<1> DEFINE granted == CanVote(n, m) /\ LogUpToDate(n, m.lastLogIndex, m.lastLogTerm)
           reply   == VoteReply(n, m, n.term, FALSE, granted)
           q       == Send([n EXCEPT !.votedFor = m.from, !.hsDirty = TRUE], reply)
<1>1. m \in Message /\ m.from \in Server /\ m.from \in OptServer
  BY DEF Message, VoteReq, OptServer
<1>2. reply \in SUBSET Message /\ (~granted => \A r \in reply : ~Granted(r))
  BY <1>1, VoteReplyType, NodeFields
<1>3. CASE granted
  <2>1. HandleRealVote(n, m) = q
    BY <1>3, Zenon DEF HandleRealVote
  <2>2. \A r \in reply : r.from = n.id /\ r.term = n.term /\ r.to = m.from
    BY DEF VoteReply
  <2> HIDE DEF reply
  <2>3. q \in Node
    BY <1>1, <1>2 DEF Send, Node
  <2>4. /\ q.id = n.id /\ q.term = n.term /\ q.votedFor = m.from /\ q.hsDirty
        /\ q.out = n.out \cup reply
    BY <1>1, <1>2 DEF Send, Node
  <2>5. n.votedFor # None => q.votedFor = n.votedFor
    BY <1>3, <2>4 DEF CanVote
  <2> HIDE DEF q
  <2>6. \A r \in q.out : r \in n.out \/ StandsBy(q, r)
    BY <2>2, <2>4 DEF StandsBy
  <2> QED
    BY <2>1, <2>3, <2>4, <2>5, <2>6, NodeFields DEF Follows
<1>4. CASE ~granted
  <2>1. HandleRealVote(n, m) = Send(n, reply)
    BY <1>4, Zenon DEF HandleRealVote
  <2>2. Quiet(n, Send(n, reply))
    BY <1>2, <1>4, SendQuiet
  <2> QED
    BY <2>1, <2>2, QuietFollows DEF Quiet
<1> QED
  BY <1>3, <1>4

LEMMA HandleVoteFollows ==
  ASSUME NEW n \in Node, NEW m \in VoteReq, NEW fresh \in BOOLEAN
  PROVE  Follows(n, HandleVote(n, m, fresh)) /\ (n.hsDirty => HandleVote(n, m, fresh).hsDirty)
<1>1. Quiet(n, HandlePreVote(n, m, fresh))
  BY HandlePreVoteQuiet
<1>2. Follows(n, HandlePreVote(n, m, fresh)) /\ (n.hsDirty => HandlePreVote(n, m, fresh).hsDirty)
  BY <1>1, QuietFollows DEF Quiet
<1> QED
  BY <1>2, HandleRealVoteFollows, Zenon DEF HandleVote

LEMMA CountedQuiet ==
  ASSUME NEW n \in Node, NEW m \in VoteResp
  PROVE  Quiet(n, Counted(n, m))
<1> DEFINE a == IF m.granted THEN "yes" ELSE "no"
<1>1. a \in {"none", "yes", "no"}
  OBVIOUS
<1>2. [n.votes EXCEPT ![m.from] = a] \in [Server -> {"none", "yes", "no"}]
  BY <1>1, NodeFields
<1> DEFINE v == [n.votes EXCEPT ![m.from] = a]
<1>3. Counted(n, m) = [n EXCEPT !.votes = v]
  BY DEF Counted, Node
<1> HIDE DEF v
<1> DEFINE q == [n EXCEPT !.votes = v]
<1>4. q \in Node
  BY <1>2 DEF Node, v
<1>5. /\ q.id = n.id /\ q.term = n.term /\ q.votedFor = n.votedFor
      /\ q.hsDirty = n.hsDirty /\ q.out = n.out
  BY DEF Node
<1> HIDE DEF q
<1> QED
  BY <1>3, <1>4, <1>5 DEF Quiet, q

LEMMA HandleVoteRespFollows ==
  ASSUME NEW n \in Node, NEW m \in VoteResp
  PROVE  /\ Follows(n, HandleVoteResp(n, m))
         /\ n.hsDirty => HandleVoteResp(n, m).hsDirty
<1> DEFINE c == Counted(n, m)
           d == BecomeFollower(c, c.term, None)
           k == Campaign(c, FALSE, FALSE)
           l == BecomeLeader(c)
           F(q) == Follows(n, q) /\ (n.hsDirty => q.hsDirty)
<1>1. Quiet(n, c) /\ c \in Node
  BY CountedQuiet DEF Quiet
<1>2. \A q : Quiet(n, q) => F(q)
  BY QuietFollows DEF Quiet
<1>3. F(n) /\ F(c)
  BY <1>1, <1>2, QuietSelf
<1>4. F(d)
  <2>1. Quiet(c, d)
    BY <1>1, BecomeFollowerFollows, NodeFields DEF OptServer
  <2> QED
    BY <1>1, <1>2, <2>1, QuietTwice
<1>5. F(l)
  BY <1>1, <1>2, BecomeLeaderQuiet, QuietTwice
<1>6. F(k)
  <2>1. Follows(c, k) /\ (c.hsDirty => k.hsDirty) /\ k \in Node
    BY <1>1, CampaignFollows DEF Follows
  <2> QED
    BY <1>1, <2>1, QuietThenFollows DEF Quiet
<1> HIDE DEF F, d, k, l
<1>7. F(HandlePreVoteResp(n, m))
  BY <1>3, <1>4, <1>6 DEF HandlePreVoteResp, d, k
<1>8. F(HandleRealVoteResp(n, m))
  BY <1>3, <1>4, <1>5 DEF HandleRealVoteResp, d, l
<1> QED
  BY <1>3, <1>7, <1>8 DEF HandleVoteResp, F

-----------------------------------------------------------------------------
(* AppendEntries at the receiver *)

LEMMA MessageEnds ==
  ASSUME NEW m \in Message
  PROVE  m.from \in Server /\ m.to \in Server /\ m.term \in Nat
BY DEF Message, VoteReq, VoteResp, App, AppResp, Snap, SnapResp, TimeoutNow

LEMMA AppReplyQuiet ==
  ASSUME NEW n \in Node, NEW m \in Message, NEW success \in BOOLEAN,
         NEW match \in Nat, NEW ci \in Nat, NEW ct \in Nat
  PROVE  Quiet(n, AppReply(n, m, success, match, ci, ct))
<1> DEFINE r == [type |-> "AppResp", from |-> n.id, to |-> m.from, term |-> n.term,
                 success |-> success, matchIndex |-> match,
                 conflictIndex |-> ci, conflictTerm |-> ct]
<1>1. r \in Message /\ ~Granted(r)
  BY NodeFields, MessageEnds DEF AppResp, Message, Granted
<1>2. AppReply(n, m, success, match, ci, ct) = Send(n, {r})
  BY Zenon DEF AppReply
<1> HIDE DEF r
<1> QED
  BY <1>1, <1>2, SendQuiet

\* Whatever the entries received, what they leave is a log with its
\* configurations.
LEMMA AcceptEntriesQuiet ==
  ASSUME NEW n \in Node, NEW ents \in Seq(Entry)
  PROVE  Quiet(n, AcceptEntries(n, ents))
<1> DEFINE differs  == {k \in 1 .. Len(ents) : ~SameAt(n.log, ents[k].index, ents[k].term)}
           k        == Min(differs)
           at       == ents[k].index
           new      == SubSeq(ents, k, Len(ents))
           conflict == HasTerm(n.log, at)
           base     == IF conflict THEN TruncateFrom(n.log, at) ELSE n.log
           confs    == IF conflict THEN TruncateConfigsFrom(n.confHistory, at)
                       ELSE n.confHistory
           l        == AppendLog(base, new)
           h        == confs \cup ConfigRecords(new)
           i        == MarkAppended(n, at)
           x        == \/ n.panic
                       \/ conflict /\ at <= n.commitIndex
                       \/ at # LastIndex(base) + 1
<1>1. CASE differs = {}
  <2>1. AcceptEntries(n, ents) = n
    BY <1>1, Zenon DEF AcceptEntries
  <2> QED
    BY <2>1, QuietSelf
<1>2. CASE differs # {}
  <2>1. k \in 1 .. Len(ents)
    <3>1. differs \in SUBSET Nat
      BY LenProperties
    <3>2. k \in differs
      BY <1>2, <3>1, MinOfNat, Zenon
    <3> QED
      BY <3>2
  <2> HIDE DEF k
  <2>2. ents[k] \in Entry /\ Len(ents) \in Nat
    BY <2>1, ElementOfSeq, LenProperties
  <2>3. at \in Nat
    BY <2>2, EntryFields
  <2>4. new \in Seq(Entry)
    BY <2>1, <2>2, PartType
  <2>5. base \in Log
    <3>1. conflict => at <= LastIndex(n.log) + 1
      BY <2>3, NodeFields, LogFields, IndexType DEF HasTerm
    <3> QED
      BY <2>3, <3>1, NodeFields, TruncateFromType
  <2>6. confs \in SUBSET ConfRecord
    BY NodeFields, ConfHistoryTypes
  <2>7. AcceptEntries(n, ents) =
          [n EXCEPT !.log = l, !.confHistory = h, !.appendedFrom = i, !.panic = x]
    BY <1>2, Zenon DEF AcceptEntries, k
  <2> HIDE DEF at, new, base, confs, conflict
  <2>8. l \in Log /\ h \in SUBSET ConfRecord /\ i \in Nat /\ x \in BOOLEAN
    BY <2>3, <2>4, <2>5, <2>6, AppendLogType, ConfigRecordsType, MarkAppendedType
  <2> HIDE DEF l, h, i, x
  <2> DEFINE q == [n EXCEPT !.log = l, !.confHistory = h, !.appendedFrom = i, !.panic = x]
  <2>9. q \in Node
    BY <2>8 DEF Node
  <2>10. /\ q.id = n.id /\ q.term = n.term /\ q.votedFor = n.votedFor
         /\ q.hsDirty = n.hsDirty /\ q.out = n.out
    BY DEF Node
  <2> HIDE DEF q
  <2> QED
    BY <2>7, <2>9, <2>10 DEF Quiet, q
<1> QED
  BY <1>1, <1>2

LEMMA AdvanceCommitQuiet ==
  ASSUME NEW n \in Node, NEW commit \in Nat, NEW lastNew \in Nat
  PROVE  Quiet(n, AdvanceCommit(n, commit, lastNew))
<1> DEFINE c == Min({commit, lastNew})
           b == [n EXCEPT !.commitIndex = c]
<1>1. c \in Nat
  BY MinOfTwo
<1> HIDE DEF c
<1>2. Quiet(n, b)
  BY <1>1 DEF Node, Quiet
<1> HIDE DEF b
<1>3. Quiet(b, ApplyCommitted(b))
  BY <1>2, ApplyCommittedQuiet DEF Quiet
<1>4. Quiet(n, ApplyCommitted(b))
  BY <1>2, <1>3, QuietTwice, Zenon
<1>5. AdvanceCommit(n, commit, lastNew) = IF c > n.commitIndex THEN ApplyCommitted(b) ELSE n
  BY Zenon DEF AdvanceCommit, b, c
<1> QED
  BY <1>4, <1>5, QuietSelf, Zenon

LEMMA RejectAppQuiet ==
  ASSUME NEW n \in Node, NEW m \in Message, NEW prev \in Nat
  PROVE  Quiet(n, RejectApp(n, m, prev))
<1>1. TermAt(n.log, prev) \in Nat
  BY NodeFields, TermAtType
<1>2. FirstIndexOfTerm(n.log, prev, TermAt(n.log, prev)) \in Nat
  BY NodeFields, FirstIndexOfTermType
<1>3. LastIndex(n.log) + 1 \in Nat
  BY NodeFields, IndexType
<1> QED
  BY <1>1, <1>2, <1>3, AppReplyQuiet DEF RejectApp

LEMMA HandleAppAsFollowerQuiet ==
  ASSUME NEW n \in Node, NEW m \in App
  PROVE  Quiet(n, HandleAppAsFollower(n, m))
<1> DEFINE covered == m.prevLogIndex < n.log.snapIndex
           skip == IF covered THEN n.log.snapIndex - m.prevLogIndex ELSE 0
           ents == SubSeq(m.entries, skip + 1, Len(m.entries))
           prev == m.prevLogIndex + skip
           lastNew == prev + Len(ents)
           a == AcceptEntries(n, ents)
           c == AdvanceCommit(a, m.commit, lastNew)
<1>1. /\ m \in Message /\ m.prevLogIndex \in Nat /\ m.entries \in Seq(Entry)
      /\ m.commit \in Nat
  BY DEF App, Message
<1>2. n.log.snapIndex \in Nat
  BY NodeFields, LogFields
<1>3. skip \in Nat /\ prev \in Nat /\ Len(m.entries) \in Nat
  BY <1>1, <1>2, LenProperties
<1>4. ents \in Seq(Entry)
  BY <1>1, <1>3, PartType
<1>5. HandleAppAsFollower(n, m) =
        IF covered /\ Len(m.entries) <= skip
        THEN AppReply(n, m, TRUE, n.log.snapIndex, 0, 0)
        ELSE IF ~SameAt(n.log, prev, m.prevLogTerm) THEN RejectApp(n, m, prev)
        ELSE AppReply(c, m, TRUE, lastNew, 0, 0)
  BY Zenon DEF HandleAppAsFollower
<1> HIDE DEF skip, prev, covered, ents
<1>6. lastNew \in Nat
  BY <1>3, <1>4, LenProperties
<1>7. Quiet(n, a) /\ a \in Node
  BY <1>4, AcceptEntriesQuiet DEF Quiet
<1> HIDE DEF a, lastNew
<1>8. Quiet(a, c) /\ c \in Node
  BY <1>1, <1>6, <1>7, AdvanceCommitQuiet DEF Quiet
<1> HIDE DEF c
<1>9. Quiet(c, AppReply(c, m, TRUE, lastNew, 0, 0))
  BY <1>1, <1>6, <1>8, AppReplyQuiet
<1>10. Quiet(n, AppReply(c, m, TRUE, lastNew, 0, 0))
  BY <1>7, <1>8, <1>9, QuietTwice, Zenon
<1>11. Quiet(n, AppReply(n, m, TRUE, n.log.snapIndex, 0, 0))
  BY <1>1, <1>2, AppReplyQuiet
<1>12. Quiet(n, RejectApp(n, m, prev))
  BY <1>1, <1>3, RejectAppQuiet
<1> QED
  BY <1>5, <1>10, <1>11, <1>12

LEMMA FollowerOfFollows ==
  ASSUME NEW n \in Node, NEW m \in Message
  PROVE  Follows(n, FollowerOf(n, m)) /\ (n.hsDirty => FollowerOf(n, m).hsDirty)
<1>1. m.from \in OptServer /\ m.term \in Nat
  BY MessageEnds DEF OptServer
<1>2. Quiet(n, [n EXCEPT !.leaderID = m.from])
  BY <1>1 DEF Node, Quiet
<1>3. Follows(n, [n EXCEPT !.leaderID = m.from])
      /\ (n.hsDirty => [n EXCEPT !.leaderID = m.from].hsDirty)
  BY <1>2, QuietFollows DEF Quiet
<1>4. /\ Follows(n, BecomeFollower(n, m.term, m.from))
      /\ n.hsDirty => BecomeFollower(n, m.term, m.from).hsDirty
  BY <1>1, BecomeFollowerFollows
<1> QED
  BY <1>3, <1>4, Zenon DEF FollowerOf

LEMMA HandleAppFollows ==
  ASSUME NEW n \in Node, NEW m \in App
  PROVE  Follows(n, HandleApp(n, m)) /\ (n.hsDirty => HandleApp(n, m).hsDirty)
<1> DEFINE f == FollowerOf(n, m)
           q == HandleAppAsFollower(f, m)
<1>1. m \in Message
  BY DEF Message
<1>2. Follows(n, f) /\ (n.hsDirty => f.hsDirty) /\ f \in Node
  BY <1>1, FollowerOfFollows DEF Follows
<1>3. Quiet(f, q) /\ q \in Node
  BY <1>2, HandleAppAsFollowerQuiet DEF Quiet
<1>4. Follows(n, q) /\ (n.hsDirty => q.hsDirty)
  BY <1>2, <1>3, FollowsThenQuiet DEF Quiet
<1> QED
  BY <1>4, QuietSelf, Zenon DEF HandleApp

-----------------------------------------------------------------------------
(* Answers at the leader *)

LEMMA ProgressFields ==
  ASSUME NEW pr \in Progress
  PROVE  /\ pr.next \in Nat /\ pr.match \in Nat
         /\ pr # NoProgress => pr.next \in Nat \ {0}
BY DEF Progress, NoProgress, NewProgress

LEMMA AckQuiet ==
  ASSUME NEW n \in Node, NEW from \in Server, NEW match \in Nat
  PROVE  Quiet(n, Ack(n, from, match))
<1> DEFINE pr == n.prs[from]
           mt == Max({match, pr.match})
           nx == Max({mt + 1, pr.next})
           p  == [next |-> nx, match |-> mt, recentActive |-> TRUE, pendingSnap |-> FALSE]
           r  == [n.prs EXCEPT ![from] = p]
<1>1. pr \in Progress
  BY NodeFields
<1>2. mt \in Nat
  BY <1>1, ProgressFields, MaxOfTwo
<1> HIDE DEF mt
<1>3. nx \in Nat \ {0}
  BY <1>1, <1>2, ProgressFields, MaxOfTwo
<1> HIDE DEF nx
<1>4. p \in Progress
  BY <1>2, <1>3 DEF Progress
<1> HIDE DEF p
<1>5. r \in [Server -> Progress]
  BY <1>4, NodeFields
<1>6. Ack(n, from, match) = [n EXCEPT !.prs[from] = p]
  BY Zenon DEF Ack, p, nx, mt
<1>7. [n EXCEPT !.prs[from] = p] = [n EXCEPT !.prs = r]
  BY Zenon DEF Node
<1> HIDE DEF r
<1>8. Ack(n, from, match) = [n EXCEPT !.prs = r]
  BY <1>6, <1>7, Zenon
<1> QED
  BY <1>5, <1>8 DEF Node, Quiet

LEMMA MaybePromoteLearnerQuiet ==
  ASSUME NEW n \in Node, NEW from \in Server
  PROVE  Quiet(n, MaybePromoteLearner(n, from))
<1> DEFINE b == [n EXCEPT !.learner = None]
           data == Config(n) \cup {from}
           a == AppendEntry(b, "Config", data)
<1>1. Quiet(n, b)
  BY DEF Node, Quiet, OptServer
<1>2. data \in SUBSET Server
  BY ReplicationTargetsType
<1> HIDE DEF b, data
<1>3. Quiet(b, a)
  BY <1>1, <1>2, AppendEntryQuiet DEF Quiet
<1> HIDE DEF a
<1>4. Quiet(a, MaybeCommitThenBroadcast(a))
  BY <1>3, MaybeCommitThenBroadcastQuiet DEF Quiet
<1>5. Quiet(n, MaybeCommitThenBroadcast(a))
  BY <1>1, <1>3, <1>4, QuietTwice, Zenon
<1> QED
  BY <1>5, QuietSelf, Zenon DEF MaybePromoteLearner, a, b, data

LEMMA SendTimeoutNowQuiet ==
  ASSUME NEW n \in Node, NEW to \in Server
  PROVE  Quiet(n, SendTimeoutNow(n, to))
<1> DEFINE r == [type |-> "TimeoutNow", from |-> n.id, to |-> to, term |-> n.term]
<1>1. r \in Message /\ ~Granted(r)
  BY NodeFields DEF TimeoutNow, Message, Granted
<1>2. SendTimeoutNow(n, to) = Send(n, {r})
  BY Zenon DEF SendTimeoutNow
<1> HIDE DEF r
<1> QED
  BY <1>1, <1>2, SendQuiet

LEMMA AfterAckQuiet ==
  ASSUME NEW n \in Node, NEW from \in Server, NEW match \in Nat, NEW isApp \in BOOLEAN
  PROVE  Quiet(n, AfterAck(n, from, match, isApp))
<1> DEFINE k == Ack(n, from, match)
           a == MaybeCommit(k)
           b == IF isApp /\ a.transferee = from /\ CaughtUp(a, from)
                THEN SendTimeoutNow(a, from) ELSE a
           c == MaybePromoteLearner(b, from)
           d == SendAppends(c, {from})
<1>1. AfterAck(n, from, match, isApp) =
        IF a.state # "Leader" THEN a
        ELSE IF c.prs[from].next <= LastIndex(c.log) THEN d ELSE c
  BY Zenon DEF AfterAck
<1>2. Quiet(n, k)
  BY AckQuiet
<1> HIDE DEF k
<1>3. Quiet(k, a)
  BY <1>2, MaybeCommitQuiet DEF Quiet
<1> HIDE DEF a
<1>4. Quiet(a, b)
  BY <1>3, SendTimeoutNowQuiet, QuietSelf DEF Quiet
<1> HIDE DEF b
<1>5. Quiet(b, c)
  BY <1>4, MaybePromoteLearnerQuiet DEF Quiet
<1> HIDE DEF c
<1>6. Quiet(c, d)
  BY <1>5, SendAppendsQuiet DEF Quiet
<1> HIDE DEF d
<1>7. Quiet(n, a) /\ Quiet(n, c) /\ Quiet(n, d)
  BY <1>2, <1>3, <1>4, <1>5, <1>6, QuietTwice, Zenon
<1> QED
  BY <1>1, <1>7

LEMMA NextAfterRejectType ==
  ASSUME NEW n \in Node, NEW m \in AppResp
  PROVE  NextAfterReject(n, m) \in Nat \ {0}
<1> DEFINE last  == LastIndex(n.log)
           li    == IF m.conflictTerm = 0 THEN 0 ELSE LastIndexOfTerm(n.log, m.conflictTerm)
           hint  == IF li # 0 THEN li + 1 ELSE m.conflictIndex
           bound == Min({Max({hint, 1}), last + 1})
<1>1. /\ m.from \in Server /\ m.conflictIndex \in Nat /\ last \in Nat
      /\ n.prs[m.from].match \in Nat
  BY NodeFields, IndexType, ProgressFields DEF AppResp
<1>2. li \in Nat
  BY <1>1, NodeFields, LastIndexOfTermType
<1> HIDE DEF li
<1>3. hint \in Nat
  BY <1>1, <1>2
<1> HIDE DEF hint, last
<1>4. bound \in Nat
  BY <1>1, <1>3, MinOfTwo, MaxOfTwo
<1>5. NextAfterReject(n, m) = Max({bound, n.prs[m.from].match + 1})
  BY Zenon DEF NextAfterReject, hint, li, last
<1> HIDE DEF bound
<1> QED
  BY <1>1, <1>4, <1>5, MaxOfTwo

LEMMA HandleAppRespQuiet ==
  ASSUME NEW n \in Node, NEW m \in AppResp
  PROVE  Quiet(n, HandleAppResp(n, m))
<1> DEFINE k == NextAfterReject(n, m)
           pr == n.prs[m.from]
           p == [pr EXCEPT !.recentActive = TRUE, !.next = k]
           r == [n.prs EXCEPT ![m.from] = p]
           b == [n EXCEPT !.prs = r]
           d == SendAppends(b, {m.from})
<1>1. m.from \in Server /\ m.matchIndex \in Nat /\ m.success \in BOOLEAN
  BY DEF AppResp
<1>2. Quiet(n, AfterAck(n, m.from, m.matchIndex, TRUE))
  BY <1>1, AfterAckQuiet
<1>3. ASSUME ~IgnoresAck(n, m), ~m.success
      PROVE  Quiet(n, HandleAppResp(n, m))
  <2>1. k \in Nat \ {0} /\ pr \in Progress /\ pr # NoProgress
    BY <1>1, <1>3, NodeFields, NextAfterRejectType DEF IgnoresAck
  <2> HIDE DEF k, pr
  <2>2. p \in Progress
    <3>1. pr \in [next : Nat \ {0}, match : Nat, recentActive : BOOLEAN, pendingSnap : BOOLEAN]
      BY <2>1 DEF Progress
    <3> QED
      BY <2>1, <3>1 DEF Progress
  <2>3. r \in [Server -> Progress]
    BY <2>2, NodeFields
  <2>4. HandleAppResp(n, m) =
          SendAppends([n EXCEPT !.prs[m.from].recentActive = TRUE,
                                !.prs[m.from].next = k], {m.from})
    BY <1>3, Zenon DEF HandleAppResp, k
  <2>5. [n EXCEPT !.prs[m.from].recentActive = TRUE, !.prs[m.from].next = k] = b
    BY <1>1, NodeFields DEF pr, Node
  <2>6. Quiet(n, b)
    BY <2>3 DEF Node, Quiet
  <2> HIDE DEF b
  <2>7. Quiet(b, d)
    BY <1>1, <2>6, SendAppendsQuiet DEF Quiet
  <2> QED
    BY <2>4, <2>5, <2>6, <2>7, QuietTwice, Zenon
<1> QED
  BY <1>2, <1>3, QuietSelf, Zenon DEF HandleAppResp

LEMMA HandleSnapRespQuiet ==
  ASSUME NEW n \in Node, NEW m \in SnapResp
  PROVE  Quiet(n, HandleSnapResp(n, m))
<1>1. m.from \in Server /\ m.matchIndex \in Nat
  BY DEF SnapResp
<1>2. Quiet(n, AfterAck(n, m.from, m.matchIndex, FALSE))
  BY <1>1, AfterAckQuiet
<1> QED
  BY <1>2, QuietSelf, Zenon DEF HandleSnapResp

-----------------------------------------------------------------------------
(* Snapshots *)

LEMMA CreateSnapshotQuiet ==
  ASSUME NEW n \in Node, NEW index \in Nat, NEW data \in Seq(Entry)
  PROVE  Quiet(n, CreateSnapshot(n, index, data))
<1> DEFINE t == TermAt(n.log, index)
           l == Compact(n.log, index, t)
           h == PruneConfHistory(n.confHistory, index)
           s == [index |-> index, term |-> t,
                 config |-> ConfigAt(n.confHistory, index), data |-> data]
           x == n.panic \/ index > n.lastApplied \/ ~HasTerm(n.log, index)
<1>1. t \in Nat
  BY NodeFields, TermAtType
<1>2. CreateSnapshot(n, index, data) =
        IF index <= n.log.snapIndex THEN n
        ELSE [n EXCEPT !.log = l, !.snapshot = s, !.confHistory = h,
                       !.snapDirty = "keep", !.panic = x]
  BY Zenon DEF CreateSnapshot
<1> HIDE DEF t
<1>3. l \in Log /\ h \in SUBSET ConfRecord /\ x \in BOOLEAN
  BY <1>1, NodeFields, CompactType, ConfHistoryTypes
<1>4. s \in Snapshot
  BY <1>1, NodeFields, ConfHistoryTypes DEF Snapshot
<1> HIDE DEF l, h, s, x
<1>5. Quiet(n, [n EXCEPT !.log = l, !.snapshot = s, !.confHistory = h,
                         !.snapDirty = "keep", !.panic = x])
  BY <1>3, <1>4 DEF Node, Quiet
<1> QED
  BY <1>2, <1>5, QuietSelf

LEMMA SnapshotFields ==
  ASSUME NEW s \in Snapshot
  PROVE  s.index \in Nat /\ s.term \in Nat /\ s.config \in SUBSET Server
         /\ s.data \in Seq(Entry)
BY DEF Snapshot

\* What the durable store gives back is a node.
LEMMA RestartType ==
  ASSUME NEW i \in Server, NEW d \in Durable
  PROVE  /\ RestartNode(i, d) \in Node
         /\ RestartNode(i, d).id = i /\ RestartNode(i, d).out = {}
         /\ RestartNode(i, d).term = d.term /\ RestartNode(i, d).votedFor = d.votedFor
<1> DEFINE cfg == IF d.snap = NoSnapshot THEN InitialVoters ELSE d.snap.config
           l == AppendLog(ResetLog(d.snap.index, d.snap.term), d.entries)
           h == InitConfHistory(d.snap.index, cfg) \cup ConfigRecords(d.entries)
           q == RestartNode(i, d)
<1>1. /\ d.term \in Nat /\ d.votedFor \in OptServer /\ d.snap \in Snapshot
      /\ d.entries \in Seq(Entry)
  BY DEF Durable, OptServer
<1>2. d.snap.index \in Nat /\ d.snap.term \in Nat /\ cfg \in SUBSET Server
  BY <1>1, SnapshotFields, VotersAssumption
<1>3. l \in Log
  BY <1>1, <1>2, ResetLogType, AppendLogType
<1>4. h \in SUBSET ConfRecord
  BY <1>1, <1>2, InitConfHistoryType, ConfigRecordsType
<1>5. /\ NoVotes \in [Server -> {"none", "yes", "no"}] /\ NoPeers \in [Server -> Progress]
      /\ "Follower" \in States /\ None \in OptServer
      /\ <<>> \in Seq(Entry)
  BY EmptySeq DEF NoVotes, NoPeers, Progress, States, OptServer
<1>6. q = [id |-> i, state |-> "Follower", term |-> d.term, votedFor |-> d.votedFor,
           log |-> l, commitIndex |-> d.snap.index, lastApplied |-> d.snap.index,
           leaderID |-> None, confHistory |-> h,
           votes |-> NoVotes, prs |-> NoPeers, transferee |-> None, learner |-> None,
           snapshot |-> d.snap,
           out |-> {}, hsDirty |-> FALSE, appendedFrom |-> 0, snapDirty |-> "none",
           applied |-> <<>>, panic |-> FALSE]
  BY Zenon DEF RestartNode
<1> HIDE DEF l, h, q
<1>7. q \in Node
  BY <1>1, <1>2, <1>3, <1>4, <1>5, <1>6 DEF Node
<1>8. q.id = i /\ q.out = {} /\ q.term = d.term /\ q.votedFor = d.votedFor
  BY <1>6
<1> QED
  BY <1>7, <1>8 DEF q

LEMMA SnapReplyQuiet ==
  ASSUME NEW n \in Node, NEW m \in Message, NEW match \in Nat
  PROVE  Quiet(n, SnapReply(n, m, match))
<1> DEFINE r == [type |-> "SnapResp", from |-> n.id, to |-> m.from, term |-> n.term,
                 matchIndex |-> match]
<1>1. r \in Message /\ ~Granted(r)
  BY NodeFields, MessageEnds DEF SnapResp, Message, Granted
<1>2. SnapReply(n, m, match) = Send(n, {r})
  BY Zenon DEF SnapReply
<1> HIDE DEF r
<1> QED
  BY <1>1, <1>2, SendQuiet

LEMMA InstallKeepingSuffixQuiet ==
  ASSUME NEW n \in Node, NEW s \in Snapshot
  PROVE  Quiet(n, InstallKeepingSuffix(n, s))
<1> DEFINE b == [n EXCEPT !.commitIndex = s.index]
           a == ApplyCommitted(b)
           l == Compact(a.log, s.index, s.term)
           h == PruneConfHistory(a.confHistory, s.index)
           q == [a EXCEPT !.log = l, !.snapshot = s, !.confHistory = h, !.snapDirty = "keep"]
<1>1. InstallKeepingSuffix(n, s) = q
  BY Zenon DEF InstallKeepingSuffix
<1>2. Quiet(n, b)
  BY SnapshotFields DEF Node, Quiet
<1> HIDE DEF b
<1>3. Quiet(b, a) /\ a \in Node
  BY <1>2, ApplyCommittedQuiet DEF Quiet
<1> HIDE DEF a
<1>4. l \in Log /\ h \in SUBSET ConfRecord
  BY <1>3, NodeFields, SnapshotFields, CompactType, ConfHistoryTypes
<1> HIDE DEF l, h
<1>5. Quiet(a, q)
  BY <1>3, <1>4 DEF Node, Quiet
<1> HIDE DEF q
<1> QED
  BY <1>1, <1>2, <1>3, <1>5, QuietTwice, Zenon

LEMMA InstallReplacingQuiet ==
  ASSUME NEW n \in Node, NEW s \in Snapshot
  PROVE  Quiet(n, InstallReplacing(n, s))
<1> DEFINE l == ResetLog(s.index, s.term)
           h == InitConfHistory(s.index, s.config)
           i == s.index
<1>1. l \in Log /\ h \in SUBSET ConfRecord /\ i \in Nat
  BY SnapshotFields, ResetLogType, InitConfHistoryType
<1>2. InstallReplacing(n, s) =
        [n EXCEPT !.log = l, !.commitIndex = i, !.lastApplied = i, !.snapshot = s,
                  !.confHistory = h, !.snapDirty = "replace"]
  BY Zenon DEF InstallReplacing
<1> DEFINE q == [n EXCEPT !.log = l, !.commitIndex = i, !.lastApplied = i,
                          !.snapshot = s, !.confHistory = h, !.snapDirty = "replace"]
<1> HIDE DEF l, h, i
<1>3. q \in Node
  BY <1>1 DEF Node
<1>4. /\ q.id = n.id /\ q.term = n.term /\ q.votedFor = n.votedFor
      /\ q.hsDirty = n.hsDirty /\ q.out = n.out
  BY DEF Node
<1> HIDE DEF q
<1> QED
  BY <1>2, <1>3, <1>4 DEF Quiet, q

LEMMA HandleSnapFollows ==
  ASSUME NEW n \in Node, NEW m \in Snap
  PROVE  Follows(n, HandleSnap(n, m)) /\ (n.hsDirty => HandleSnap(n, m).hsDirty)
<1> DEFINE f == FollowerOf(n, m)
           s == m.snapshot
           k == InstallKeepingSuffix(f, s)
           r == InstallReplacing(f, s)
           q == HandleSnap(n, m)
<1>1. m \in Message /\ s \in Snapshot
  BY DEF Message, Snap
<1>2. Follows(n, f) /\ (n.hsDirty => f.hsDirty) /\ f \in Node
  BY <1>1, FollowerOfFollows DEF Follows
<1>3. q \in {SnapReply(f, m, f.commitIndex), SnapReply(k, m, s.index), SnapReply(r, m, s.index)}
  BY Zenon DEF HandleSnap
<1> HIDE DEF f, s, q
<1>4. Quiet(f, SnapReply(f, m, f.commitIndex))
  BY <1>1, <1>2, NodeFields, SnapReplyQuiet
<1>5. Quiet(f, k) /\ k \in Node /\ Quiet(f, r) /\ r \in Node
  BY <1>1, <1>2, InstallKeepingSuffixQuiet, InstallReplacingQuiet DEF Quiet
<1> HIDE DEF k, r
<1>6. Quiet(k, SnapReply(k, m, s.index)) /\ Quiet(r, SnapReply(r, m, s.index))
  BY <1>1, <1>5, SnapshotFields, SnapReplyQuiet
<1>7. Quiet(f, q)
  BY <1>3, <1>4, <1>5, <1>6, QuietTwice
<1>8. q \in Node /\ q.hsDirty = f.hsDirty
  BY <1>7 DEF Quiet
<1> QED
  BY <1>2, <1>7, <1>8, FollowsThenQuiet DEF q

-----------------------------------------------------------------------------
(* Membership changes and leadership transfer *)

LEMMA AddServerQuiet ==
  ASSUME NEW n \in Node, NEW s \in Server
  PROVE  Quiet(n, AddServer(n, s))
<1> DEFINE p == NewProgress(LastIndex(n.log) + 1)
           r == [n.prs EXCEPT ![s] = p]
           b == [n EXCEPT !.learner = s, !.prs = r]
           d == SendAppends(b, {s})
<1>1. p \in Progress /\ s \in OptServer
  BY NodeFields, IndexType, NewProgressType DEF OptServer
<1> HIDE DEF p
<1>2. r \in [Server -> Progress]
  BY <1>1, NodeFields
<1>3. [n EXCEPT !.learner = s, !.prs[s] = p] = b
  BY DEF Node
<1> HIDE DEF r
<1>4. Quiet(n, b)
  BY <1>1, <1>2 DEF Node, Quiet
<1>5. AddServer(n, s) = n \/ AddServer(n, s) = d
  BY <1>3, Zenon DEF AddServer, p
<1> HIDE DEF b
<1>6. Quiet(b, d)
  BY <1>4, SendAppendsQuiet DEF Quiet
<1> QED
  BY <1>4, <1>5, <1>6, QuietTwice, QuietSelf, Zenon

LEMMA RemoveServerQuiet ==
  ASSUME NEW n \in Node, NEW s \in Server
  PROVE  Quiet(n, RemoveServer(n, s))
<1> DEFINE data == Config(n) \ {s}
           a == AppendEntry(n, "Config", data)
           r == [a.prs EXCEPT ![s] = NoProgress]
           b == IF s = n.id THEN a ELSE [a EXCEPT !.prs[s] = NoProgress]
           q == MaybeCommitThenBroadcast(b)
<1>1. data \in SUBSET Server
  BY ReplicationTargetsType
<1>2. RemoveServer(n, s) = n \/ RemoveServer(n, s) = q
  BY Zenon DEF RemoveServer
<1> HIDE DEF data
<1>3. Quiet(n, a) /\ a \in Node
  BY <1>1, AppendEntryQuiet DEF Quiet
<1> HIDE DEF a
<1>4. r \in [Server -> Progress]
  BY <1>3, NodeFields DEF Progress
<1>5. [a EXCEPT !.prs[s] = NoProgress] = [a EXCEPT !.prs = r]
  BY Zenon DEF Node
<1> HIDE DEF r
<1>6. Quiet(a, [a EXCEPT !.prs = r])
  BY <1>3, <1>4 DEF Node, Quiet
<1>7. Quiet(a, b)
  BY <1>3, <1>5, <1>6, QuietSelf, Zenon
<1> HIDE DEF b
<1>8. Quiet(b, q)
  BY <1>7, MaybeCommitThenBroadcastQuiet DEF Quiet
<1> QED
  BY <1>2, <1>3, <1>7, <1>8, QuietTwice, QuietSelf, Zenon

LEMMA TransferLeadershipQuiet ==
  ASSUME NEW n \in Node, NEW target \in Server
  PROVE  Quiet(n, TransferLeadership(n, target))
<1> DEFINE t == [n EXCEPT !.transferee = target]
           q == TransferLeadership(n, target)
<1>1. q \in {n, SendTimeoutNow(t, target), SendAppends(t, {target})}
  BY Zenon DEF TransferLeadership
<1>2. Quiet(n, t)
  BY DEF Node, Quiet, OptServer
<1> HIDE DEF t, q
<1>3. Quiet(t, SendTimeoutNow(t, target)) /\ Quiet(t, SendAppends(t, {target}))
  BY <1>2, SendTimeoutNowQuiet, SendAppendsQuiet DEF Quiet
<1>4. Quiet(n, q)
  BY <1>1, <1>2, <1>3, QuietTwice, QuietSelf
<1> QED
  BY <1>4 DEF q

LEMMA HandleTimeoutNowFollows ==
  ASSUME NEW n \in Node, NEW m
  PROVE  /\ Follows(n, HandleTimeoutNow(n, m))
         /\ n.hsDirty => HandleTimeoutNow(n, m).hsDirty
BY QuietSelf, CampaignFollows DEF HandleTimeoutNow

-----------------------------------------------------------------------------
(* Ticks *)

LEMMA TickLeaderQuiet ==
  ASSUME NEW n \in Node, NEW transferDue \in BOOLEAN, NEW quorumDue \in BOOLEAN,
         NEW heartbeatDue \in BOOLEAN
  PROVE  Quiet(n, TickLeader(n, transferDue, quorumDue, heartbeatDue))
<1> DEFINE a == AfterTransferTick(n, transferDue)
           r == [s \in Server |->
                   IF s \in ReplicationTargets(a) /\ a.prs[s] # NoProgress
                   THEN NewPeriod(a.prs[s]) ELSE a.prs[s]]
           b == IF quorumDue THEN [a EXCEPT !.prs = r] ELSE a
           f == BecomeFollower(a, a.term, None)
           q == TickLeader(n, transferDue, quorumDue, heartbeatDue)
<1>1. q \in {f, BroadcastAppend(b), b}
  BY Zenon DEF TickLeader
<1>2. Quiet(n, a)
  BY QuietSelf DEF AfterTransferTick, Node, Quiet, OptServer
<1> HIDE DEF a, q
<1>3. a \in Node
  BY <1>2 DEF Quiet
<1>4. r \in [Server -> Progress]
  <2>1. \A s \in Server : a.prs[s] \in Progress
    BY <1>3, NodeFields
  <2>2. ASSUME NEW s \in Server, a.prs[s] # NoProgress
        PROVE  NewPeriod(a.prs[s]) \in Progress
    <3>1. a.prs[s] \in [next : Nat \ {0}, match : Nat, recentActive : BOOLEAN,
                        pendingSnap : BOOLEAN]
      BY <2>1, <2>2 DEF Progress
    <3> QED
      BY <3>1 DEF NewPeriod, Progress
  <2> QED
    BY <2>1, <2>2
<1> HIDE DEF r
<1>5. Quiet(a, [a EXCEPT !.prs = r])
  BY <1>3, <1>4 DEF Node, Quiet
<1>6. Quiet(a, b)
  BY <1>3, <1>5, QuietSelf, Zenon
<1> HIDE DEF b
<1>7. Quiet(b, BroadcastAppend(b))
  BY <1>6, BroadcastQuiet DEF Quiet
<1>8. Quiet(a, f)
  BY <1>3, BecomeFollowerFollows, NodeFields DEF OptServer
<1> HIDE DEF f
<1>9. Quiet(n, q)
  BY <1>1, <1>2, <1>6, <1>7, <1>8, QuietTwice
<1> QED
  BY <1>9 DEF q

-----------------------------------------------------------------------------
(* receive *)

LEMMA StaleReplyQuiet ==
  ASSUME NEW n \in Node, NEW m \in Message
  PROVE  Quiet(n, StaleReply(n, m))
<1>1. CASE m.type \in {"App", "Snap"}
  <2>1. LastIndex(n.log) + 1 \in Nat
    BY NodeFields, IndexType
  <2>2. StaleReply(n, m) = AppReply(n, m, FALSE, 0, LastIndex(n.log) + 1, 0)
    BY <1>1 DEF StaleReply
  <2> QED
    BY <2>1, <2>2, AppReplyQuiet
<1>2. CASE m.type = "Vote"
  <2>1. m.preVote \in BOOLEAN
    BY <1>2 DEF Message, VoteReq, VoteResp, App, AppResp, Snap, SnapResp, TimeoutNow
  <2>2. StaleReply(n, m) = Send(n, VoteReply(n, m, n.term, m.preVote, FALSE))
    BY <1>2 DEF StaleReply
  <2> QED
    BY <2>1, <2>2, NodeFields, VoteReplyType, SendQuiet
<1>3. CASE m.type \notin {"App", "Snap", "Vote"}
  <2>1. StaleReply(n, m) = n
    BY <1>3 DEF StaleReply
  <2> QED
    BY <2>1, QuietSelf
<1> QED
  BY <1>1, <1>2, <1>3

LEMMA AtMessageTermFollows ==
  ASSUME NEW n \in Node, NEW m \in Message
  PROVE  /\ Follows(n, AtMessageTerm(n, m))
         /\ n.hsDirty => AtMessageTerm(n, m).hsDirty
<1> DEFINE leader == IF m.type \in {"App", "Snap"} THEN m.from ELSE None
<1>1. leader \in OptServer /\ m.term \in Nat
  BY MessageEnds DEF OptServer
<1> HIDE DEF leader
<1>2. AtMessageTerm(n, m) = n \/ AtMessageTerm(n, m) = BecomeFollower(n, m.term, leader)
  BY Zenon DEF AtMessageTerm, leader
<1> QED
  BY <1>1, <1>2, BecomeFollowerFollows, QuietSelf

LEMMA MessageOfType ==
  ASSUME NEW m \in Message
  PROVE  /\ m.type = "Vote" => m \in VoteReq
         /\ m.type = "VoteResp" => m \in VoteResp
         /\ m.type = "App" => m \in App
         /\ m.type = "AppResp" => m \in AppResp
         /\ m.type = "Snap" => m \in Snap
         /\ m.type = "SnapResp" => m \in SnapResp
         /\ m.type = "TimeoutNow" => m \in TimeoutNow
         /\ m.type \in {"Vote", "VoteResp", "App", "AppResp", "Snap", "SnapResp", "TimeoutNow"}
BY DEF Message, VoteReq, VoteResp, App, AppResp, Snap, SnapResp, TimeoutNow

\* Whatever message a node receives, it keeps to its votes.
LEMMA ReceiveFollows ==
  ASSUME NEW n \in Node, NEW m \in Message, NEW fresh \in BOOLEAN
  PROVE  Follows(n, Receive(n, m, fresh))
<1> DEFINE a == AtMessageTerm(n, m)
           q == Receive(n, m, fresh)
           F(x) == Follows(a, x) /\ (a.hsDirty => x.hsDirty)
           S == Send(n, VoteReply(n, m, n.term, FALSE, FALSE))
<1>1. Follows(n, a) /\ a \in Node
  BY AtMessageTermFollows DEF Follows
<1>2. Follows(n, StaleReply(n, m))
  BY StaleReplyQuiet, QuietFollows
<1>3. Follows(n, S)
  <2>1. Quiet(n, S)
    BY NodeFields, VoteReplyType, SendQuiet
  <2> QED
    BY <2>1, QuietFollows
<1>4. ASSUME NEW x, F(x) PROVE Follows(n, x)
  <2>1. x \in Node
    BY <1>4 DEF Follows
  <2> QED
    BY <1>1, <1>4, <2>1, FollowsTwice
<1>5. m.type = "Vote" => F(HandleVote(a, m, fresh))
  BY <1>1, MessageOfType, HandleVoteFollows
<1>6. m.type = "VoteResp" => F(HandleVoteResp(a, m))
  BY <1>1, MessageOfType, HandleVoteRespFollows
<1>7. m.type = "App" => F(HandleApp(a, m))
  BY <1>1, MessageOfType, HandleAppFollows
<1>8. m.type = "AppResp" => F(HandleAppResp(a, m))
  BY <1>1, MessageOfType, HandleAppRespQuiet, QuietFollows DEF Quiet
<1>9. m.type = "Snap" => F(HandleSnap(a, m))
  BY <1>1, MessageOfType, HandleSnapFollows
<1>10. m.type = "SnapResp" => F(HandleSnapResp(a, m))
  BY <1>1, MessageOfType, HandleSnapRespQuiet, QuietFollows DEF Quiet
<1>11. m.type = "TimeoutNow" => F(HandleTimeoutNow(a, m))
  BY <1>1, HandleTimeoutNowFollows
<1> HIDE DEF F, a, S
<1>12. CASE m.term < n.term
  BY <1>2, <1>12 DEF Receive
<1>13. CASE ~(m.term < n.term) /\ StickyVote(n, m, fresh)
  BY <1>3, <1>13 DEF Receive, S
<1>14. CASE ~(m.term < n.term) /\ ~StickyVote(n, m, fresh)
  <2>1. q = CASE m.type = "Vote"       -> HandleVote(a, m, fresh)
              [] m.type = "VoteResp"   -> HandleVoteResp(a, m)
              [] m.type = "App"        -> HandleApp(a, m)
              [] m.type = "AppResp"    -> HandleAppResp(a, m)
              [] m.type = "Snap"       -> HandleSnap(a, m)
              [] m.type = "SnapResp"   -> HandleSnapResp(a, m)
              [] m.type = "TimeoutNow" -> HandleTimeoutNow(a, m)
    BY <1>14, Zenon DEF Receive, a
  <2> HIDE DEF q
  <2>2. F(q)
    BY <2>1, <1>5, <1>6, <1>7, <1>8, <1>9, <1>10, <1>11, MessageOfType
  <2> QED
    BY <2>2, <1>4 DEF q
<1> QED
  BY <1>12, <1>13, <1>14

-----------------------------------------------------------------------------
(***************************************************************************)
(* Why logs agree: Raft over the history of a cluster with fixed members.  *)
(*                                                                         *)
(* A history records of every term what the servers' stores showed while   *)
(* they were in it, and what its leader's log grew to.  A server's step    *)
(* raises its term, casts its vote, catches up with the leader of its term *)
(* or, as the leader, appends; each of these keeps the invariant of the    *)
(* history, and loses nothing that was recorded before.                    *)
(***************************************************************************)
\* term   : the server's term
\* vote   : whom the server voted for in a term
\* held   : its log at the end of a term, or now if the term is its own
\* bid    : the log with which it stood for election in a term
\* led    : the log of the term's leader, as far as it got
\* owner  : the term's leader
History ==
  [term : [Server -> Nat],
   vote : [Server -> [Nat -> Server \cup {None}]],
   held : [Server -> [Nat -> Seq(Entry)]],
   bid  : [Server -> [Nat -> Seq(Entry)]],
   led  : [Nat -> Seq(Entry)],
   owner : [Nat -> Server \cup {None}]]

\* The log of a server now.
Mine(h, v) == h.held[v][h.term[v]]

\* a and b have the same first l entries.
Agree(a, b, l) == l <= Len(a) /\ l <= Len(b) /\ \A k \in 1 .. l : a[k] = b[k]

\* The terms of a's entries are at most t, or below t.
AtMost(a, t) == \A k \in 1 .. Len(a) : a[k].term <= t
Below(a, t)  == \A k \in 1 .. Len(a) : a[k].term < t

\* Every entry of a, and all before it, are those of its term's leader.
Rooted(h, a) == \A k \in 1 .. Len(a) : Agree(a, h.led[a[k].term], k)

\* The leader of t has appended the entry l itself.
Point(h, t, l) == l \in 1 .. Len(h.led[t]) /\ h.led[t][l].term = t

\* Server v has, or had when it left the term t, the leader's log up to l.
Holds(h, v, t, l) == Agree(h.held[v][t], h.led[t], l)

\* A quorum held the entry while in its term: it is committed.
Chosen(h, t, l) ==
  /\ Point(h, t, l)
  /\ \E Q \in SUBSET InitialVoters : Majority(Q) /\ \A v \in Q : Holds(h, v, t, l)

\* A quorum may still come to hold it.
Open(h, t, l) ==
  /\ Point(h, t, l)
  /\ \E Q \in SUBSET InitialVoters :
       Majority(Q) /\ \A v \in Q : h.term[v] <= t \/ Holds(h, v, t, l)

-----------------------------------------------------------------------------
(* The invariant of a history *)

\* Leaders' logs are stored by index and agree with those of earlier leaders;
\* a leader has the votes of a quorum and the log of its term while it stays.
LedOK(h) ==
  \A t \in Nat :
    /\ Rooted(h, h.led[t])
    /\ \A k \in 1 .. Len(h.led[t]) : h.led[t][k].index = k /\ h.led[t][k].term <= t
    /\ h.owner[t] = None => h.led[t] = <<>>
    /\ h.owner[t] # None =>
         /\ h.vote[h.owner[t]][t] = h.owner[t]
         /\ \E Q \in SUBSET InitialVoters :
              Majority(Q) /\ \A v \in Q : h.vote[v][t] = h.owner[t]
         /\ h.term[h.owner[t]] = t => h.held[h.owner[t]][t] = h.led[t]

PastOK(h) ==
  \A v \in Server, t \in Nat :
    /\ h.term[v] < t => h.vote[v][t] = None /\ h.held[v][t] = <<>>
    /\ Rooted(h, h.held[v][t]) /\ Rooted(h, h.bid[v][t])
    /\ AtMost(h.held[v][t], t)
    /\ h.vote[v][t] # None => h.vote[h.vote[v][t]][t] = h.vote[v][t]
    /\ h.vote[v][t] = v => Below(h.bid[v][t], t)

\* A later leader has every entry that may still be committed.
Inherited(h) ==
  \A t, u, l \in Nat :
    t < u /\ h.owner[u] # None /\ Open(h, t, l) => Agree(h.led[u], h.led[t], l)

\* Who held such an entry still has it.
Kept(h) ==
  \A v \in Server, t, l \in Nat :
    Open(h, t, l) /\ Holds(h, v, t, l) => Agree(Mine(h, v), h.led[t], l)

\* Who held such an entry votes only for candidates that have it.
Supported(h) ==
  \A v \in Server, t, u, l \in Nat :
    t < u /\ h.vote[v][u] # None /\ Open(h, t, l) /\ Holds(h, v, t, l) =>
      Agree(h.bid[h.vote[v][u]][u], h.led[t], l)

HistoryInv(h) ==
  h \in History /\ LedOK(h) /\ PastOK(h) /\ Inherited(h) /\ Kept(h) /\ Supported(h)

-----------------------------------------------------------------------------
(* Agreement of logs *)

LEMMA AgreeFacts ==
  ASSUME NEW a \in Seq(Entry), NEW b \in Seq(Entry), NEW c \in Seq(Entry), NEW l \in Nat
  PROVE  /\ Agree(a, b, l) => Agree(b, a, l)
         /\ Agree(a, b, l) /\ Agree(b, c, l) => Agree(a, c, l)
         /\ \A k \in Nat : k <= l /\ Agree(a, b, l) => Agree(a, b, k)
         /\ Agree(a, a, Len(a)) /\ Agree(a, b, 0)
         /\ (l <= Len(a) => Agree(a, a, l))
<1>1. Len(a) \in Nat /\ Len(b) \in Nat /\ Len(c) \in Nat
  BY LenProperties
<1> QED
  BY <1>1 DEF Agree

LEMMA HistoryFields ==
  ASSUME NEW h \in History
  PROVE  /\ \A v \in Server : h.term[v] \in Nat
         /\ \A v \in Server, t \in Nat :
              /\ h.vote[v][t] \in Server \cup {None}
              /\ h.held[v][t] \in Seq(Entry) /\ h.bid[v][t] \in Seq(Entry)
         /\ \A t \in Nat : h.led[t] \in Seq(Entry) /\ h.owner[t] \in Server \cup {None}
         /\ \A v \in Server : Mine(h, v) \in Seq(Entry)
<1>1. /\ h.term \in [Server -> Nat]
      /\ h.vote \in [Server -> [Nat -> Server \cup {None}]]
      /\ h.held \in [Server -> [Nat -> Seq(Entry)]]
      /\ h.bid \in [Server -> [Nat -> Seq(Entry)]]
      /\ h.led \in [Nat -> Seq(Entry)] /\ h.owner \in [Nat -> Server \cup {None}]
  BY DEF History
<1>2. \A v \in Server : h.term[v] \in Nat
  BY <1>1
<1>0. ASSUME NEW S, NEW f \in [Server -> [Nat -> S]], NEW v \in Server, NEW t \in Nat
      PROVE  f[v][t] \in S
  OBVIOUS
<1>3. \A v \in Server, t \in Nat : h.vote[v][t] \in Server \cup {None}
  BY <1>0, <1>1
<1>4. \A v \in Server, t \in Nat : h.held[v][t] \in Seq(Entry) /\ h.bid[v][t] \in Seq(Entry)
  BY <1>1
<1>5. \A t \in Nat : h.led[t] \in Seq(Entry) /\ h.owner[t] \in Server \cup {None}
  BY <1>1
<1> QED
  BY <1>2, <1>3, <1>4, <1>5 DEF Mine

\* Terms do not fall along a rooted log.
LEMMA RootedTerms ==
  ASSUME NEW h \in History, LedOK(h), NEW a \in Seq(Entry), Rooted(h, a),
         NEW k \in 1 .. Len(a)
  PROVE  /\ a[k].term \in Nat /\ a[k].index = k
         /\ k <= Len(h.led[a[k].term])
         /\ \A j \in 1 .. k : a[j].term <= a[k].term /\ a[j] = h.led[a[k].term][j]
<1>1. Len(a) \in Nat /\ k \in Nat /\ a[k] \in Entry
  BY LenProperties, ElementOfSeq
<1>2. a[k].term \in Nat
  BY <1>1, EntryFields
<1> DEFINE t == a[k].term
           b == h.led[t]
<1>3. Agree(a, b, k)
  BY DEF Rooted
<1>4. \A j \in 1 .. Len(b) : b[j].index = j /\ b[j].term <= t
  BY <1>2 DEF LedOK
<1>5. b \in Seq(Entry) /\ Len(b) \in Nat
  BY <1>2, HistoryFields, LenProperties
<1>6. k <= Len(b) /\ \A j \in 1 .. k : a[j] = b[j]
  BY <1>3 DEF Agree
<1> HIDE DEF b
<1>7. \A j \in 1 .. k : j \in 1 .. Len(b)
  BY <1>1, <1>5, <1>6
<1> QED
  BY <1>1, <1>2, <1>4, <1>6, <1>7 DEF b

LEMMA RootedPart ==
  ASSUME NEW h \in History, LedOK(h), NEW a \in Seq(Entry), Rooted(h, a),
         NEW b \in Seq(Entry), Agree(b, a, Len(b))
  PROVE  Rooted(h, b)
<1>1. Len(a) \in Nat /\ Len(b) \in Nat
  BY LenProperties
<1>2. Len(b) <= Len(a) /\ \A k \in 1 .. Len(b) : b[k] = a[k]
  BY DEF Agree
<1>3. ASSUME NEW k \in 1 .. Len(b)
      PROVE  Agree(b, h.led[b[k].term], k)
  <2>1. k \in 1 .. Len(a) /\ b[k] = a[k]
    BY <1>1, <1>2
  <2>2. Agree(a, h.led[b[k].term], k)
    BY <2>1 DEF Rooted
  <2> QED
    BY <1>1, <1>2, <2>2 DEF Agree
<1> QED
  BY <1>3 DEF Rooted

\* A log that reaches a point of term t has the leader's log up to it.
LEMMA ReachesPoint ==
  ASSUME NEW h \in History, NEW a \in Seq(Entry), Rooted(h, a), NEW t \in Nat,
         NEW l \in 1 .. Len(a), a[l].term = t
  PROVE  l <= Len(h.led[t]) /\ Agree(a, h.led[t], l)
BY DEF Rooted, Agree

LEMMA MineRooted ==
  ASSUME NEW h, HistoryInv(h), NEW v \in Server
  PROVE  /\ Mine(h, v) \in Seq(Entry) /\ Rooted(h, Mine(h, v)) /\ h.term[v] \in Nat
         /\ AtMost(Mine(h, v), h.term[v])
BY HistoryFields DEF HistoryInv, PastOK, Mine

-----------------------------------------------------------------------------
(* What steps of one server may change *)

Grows(h, g, i) ==
  /\ g \in History
  /\ \A v \in Server : h.term[v] <= g.term[v]
  /\ \A v \in Server \ {i}, t \in Nat :
       /\ g.term[v] = h.term[v] /\ g.vote[v][t] = h.vote[v][t]
       /\ g.held[v][t] = h.held[v][t] /\ g.bid[v][t] = h.bid[v][t]
  /\ \A t \in Nat :
       /\ g.owner[t] = h.owner[t] \/ (h.owner[t] = None /\ g.owner[t] = i)
       /\ g.led[t] = h.led[t] \/ g.owner[t] = i
       /\ Agree(h.led[t], g.led[t], Len(h.led[t]))
  /\ \A v \in Server, t \in Nat :
       /\ h.vote[v][t] # None => g.vote[v][t] = h.vote[v][t]
       /\ h.vote[v][t] = v => g.bid[v][t] = h.bid[v][t]
       /\ \A l \in Nat : Holds(h, v, t, l) => Holds(g, v, t, l)

LEMMA GrowsSelf ==
  ASSUME NEW h \in History, NEW i
  PROVE  Grows(h, h, i)
<1>1. \A t \in Nat : Agree(h.led[t], h.led[t], Len(h.led[t]))
  BY HistoryFields, AgreeFacts, EmptySeq
<1> QED
  BY <1>1, HistoryFields DEF Grows

LEMMA GrowsTwice ==
  ASSUME NEW h \in History, NEW g \in History, NEW f \in History, NEW i \in Server,
         Grows(h, g, i), Grows(g, f, i)
  PROVE  Grows(h, f, i)
<1>1. \A v \in Server : h.term[v] <= f.term[v]
  <2>1. \A v \in Server : h.term[v] \in Nat /\ g.term[v] \in Nat /\ f.term[v] \in Nat
    BY HistoryFields
  <2> QED
    BY <2>1 DEF Grows
<1>2. ASSUME NEW v \in Server \ {i}, NEW t \in Nat
      PROVE  /\ f.term[v] = h.term[v] /\ f.vote[v][t] = h.vote[v][t]
             /\ f.held[v][t] = h.held[v][t] /\ f.bid[v][t] = h.bid[v][t]
  <2>1. /\ g.term[v] = h.term[v] /\ g.vote[v][t] = h.vote[v][t]
        /\ g.held[v][t] = h.held[v][t] /\ g.bid[v][t] = h.bid[v][t]
    BY DEF Grows
  <2>2. /\ f.term[v] = g.term[v] /\ f.vote[v][t] = g.vote[v][t]
        /\ f.held[v][t] = g.held[v][t] /\ f.bid[v][t] = g.bid[v][t]
    BY DEF Grows
  <2> QED
    BY <2>1, <2>2
<1>3. ASSUME NEW t \in Nat
      PROVE  /\ f.owner[t] = h.owner[t] \/ (h.owner[t] = None /\ f.owner[t] = i)
             /\ f.led[t] = h.led[t] \/ f.owner[t] = i
  <2>1. /\ g.owner[t] = h.owner[t] \/ (h.owner[t] = None /\ g.owner[t] = i)
        /\ g.led[t] = h.led[t] \/ g.owner[t] = i
    BY DEF Grows
  <2>2. /\ f.owner[t] = g.owner[t] \/ (g.owner[t] = None /\ f.owner[t] = i)
        /\ f.led[t] = g.led[t] \/ f.owner[t] = i
    BY DEF Grows
  <2>3. i # None
    BY ServerAssumption
  <2> QED
    BY <2>1, <2>2, <2>3
<1>4. ASSUME NEW t \in Nat PROVE Agree(h.led[t], f.led[t], Len(h.led[t]))
  <2>1. /\ h.led[t] \in Seq(Entry) /\ g.led[t] \in Seq(Entry) /\ f.led[t] \in Seq(Entry)
        /\ Len(h.led[t]) \in Nat /\ Len(g.led[t]) \in Nat
    BY HistoryFields, LenProperties
  <2>2. Agree(h.led[t], g.led[t], Len(h.led[t])) /\ Agree(g.led[t], f.led[t], Len(g.led[t]))
    BY DEF Grows
  <2>3. Len(h.led[t]) <= Len(g.led[t])
    BY <2>2 DEF Agree
  <2>4. Agree(g.led[t], f.led[t], Len(h.led[t]))
    BY <2>1, <2>2, <2>3, AgreeFacts
  <2> QED
    BY <2>1, <2>2, <2>4, AgreeFacts
<1>5. ASSUME NEW v \in Server, NEW t \in Nat
      PROVE  /\ h.vote[v][t] # None => f.vote[v][t] = h.vote[v][t]
             /\ h.vote[v][t] = v => f.bid[v][t] = h.bid[v][t]
             /\ \A l \in Nat : Holds(h, v, t, l) => Holds(f, v, t, l)
  <2>1. /\ h.vote[v][t] # None => g.vote[v][t] = h.vote[v][t]
        /\ h.vote[v][t] = v => g.bid[v][t] = h.bid[v][t]
        /\ \A l \in Nat : Holds(h, v, t, l) => Holds(g, v, t, l)
    BY DEF Grows
  <2>2. /\ g.vote[v][t] # None => f.vote[v][t] = g.vote[v][t]
        /\ g.vote[v][t] = v => f.bid[v][t] = g.bid[v][t]
        /\ \A l \in Nat : Holds(g, v, t, l) => Holds(f, v, t, l)
    BY DEF Grows
  <2>3. v # None
    BY ServerAssumption
  <2> QED
    BY <2>1, <2>2, <2>3
<1> QED
  BY <1>1, <1>2, <1>3, <1>4, <1>5 DEF Grows

\* What is committed stays committed.
LEMMA ChosenStays ==
  ASSUME NEW h \in History, NEW g \in History, NEW i \in Server, Grows(h, g, i),
         NEW t \in Nat, NEW l \in Nat, Chosen(h, t, l)
  PROVE  Chosen(g, t, l) /\ Agree(h.led[t], g.led[t], l)
<1>1. /\ l \in 1 .. Len(h.led[t]) /\ h.led[t][l].term = t
      /\ \E Q \in SUBSET InitialVoters : Majority(Q) /\ \A v \in Q : Holds(h, v, t, l)
  BY DEF Chosen, Point
<1>2. Agree(h.led[t], g.led[t], Len(h.led[t]))
  BY DEF Grows
<1>3. h.led[t] \in Seq(Entry) /\ g.led[t] \in Seq(Entry) /\ Len(h.led[t]) \in Nat
      /\ Len(g.led[t]) \in Nat
  BY HistoryFields, LenProperties
<1>4. Point(g, t, l)
  BY <1>1, <1>2, <1>3, SMTT(30) DEF Point, Agree
<1>5. \A v \in InitialVoters : Holds(h, v, t, l) => Holds(g, v, t, l)
  BY VotersAssumption DEF Grows
<1>6. Agree(h.led[t], g.led[t], l)
  BY <1>1, <1>2, <1>3, AgreeFacts
<1> QED
  BY <1>1, <1>4, <1>5, <1>6 DEF Chosen

LEMMA ChosenOpen ==
  ASSUME NEW h, NEW t, NEW l, Chosen(h, t, l)
  PROVE  Open(h, t, l)
BY DEF Chosen, Open

\* An entry that is open after a step was open before.
LEMMA OpenBefore ==
  ASSUME NEW h, NEW g, NEW t, NEW l, Open(g, t, l), Point(h, t, l),
         \A v \in Server : g.term[v] <= t => h.term[v] <= t,
         \A v \in Server : Holds(g, v, t, l) => h.term[v] <= t \/ Holds(h, v, t, l)
  PROVE  Open(h, t, l)
BY VotersAssumption DEF Open

-----------------------------------------------------------------------------
(* Voting *)

TermOfLast(a) == IF a = <<>> THEN 0 ELSE a[Len(a)].term

\* The rule a voter applies to a candidate's log a, its own being b.
UpToDate(a, b) ==
  \/ TermOfLast(a) > TermOfLast(b)
  \/ TermOfLast(a) = TermOfLast(b) /\ Len(a) >= Len(b)

\* A log at least as up to date as v's has every open entry that v held.
LEMMA UpToDateHas ==
  ASSUME NEW h, HistoryInv(h), NEW v \in Server,
         NEW a \in Seq(Entry), Rooted(h, a), UpToDate(a, Mine(h, v)),
         NEW u \in Nat, Below(a, u),
         NEW t \in Nat, NEW l \in Nat, Open(h, t, l), Holds(h, v, t, l)
  PROVE  Agree(a, h.led[t], l)
<1> DEFINE b == Mine(h, v)
           c == h.led[t]
<1>1. /\ h \in History /\ LedOK(h) /\ b \in Seq(Entry) /\ c \in Seq(Entry) /\ Rooted(h, b)
      /\ Len(a) \in Nat /\ Len(b) \in Nat /\ Len(c) \in Nat
  BY MineRooted, HistoryFields, LenProperties DEF HistoryInv
<1>2. Agree(b, c, l) /\ l \in 1 .. Len(c) /\ c[l].term = t
  BY DEF HistoryInv, Kept, Open, Point
<1> HIDE DEF b, c
<1>3. l \in 1 .. Len(b) /\ b[l].term = t /\ Len(b) \in 1 .. Len(b)
  BY <1>1, <1>2 DEF Agree
<1>4. b[Len(b)].term \in Nat /\ t <= b[Len(b)].term
  BY <1>1, <1>3, RootedTerms
<1>5. TermOfLast(b) = b[Len(b)].term
  BY <1>1, <1>3 DEF TermOfLast
<1>6. a # <<>> /\ Len(a) \in 1 .. Len(a)
  <2>1. a # <<>>
    <3> SUFFICES ASSUME a = <<>> PROVE FALSE
      OBVIOUS
    <3>1. TermOfLast(a) = 0 /\ Len(a) = 0
      BY DEF TermOfLast
    <3> QED
      BY <1>1, <1>3, <1>4, <1>5, <3>1 DEF UpToDate, b
  <2> QED
    BY <1>1, <2>1, EmptySeq
<1> DEFINE T == a[Len(a)].term
<1>7. T \in Nat /\ T < u /\ Agree(a, h.led[T], Len(a))
  BY <1>1, <1>6, RootedTerms DEF Rooted, Below
<1>8. TermOfLast(a) = T
  BY <1>6 DEF TermOfLast
<1>9. UpToDate(a, b)
  BY DEF b
<1> HIDE DEF T
<1>10. T > b[Len(b)].term \/ (T = b[Len(b)].term /\ Len(a) >= Len(b))
  BY <1>5, <1>8, <1>9 DEF UpToDate
<1>11. CASE T = t
  <2>1. l <= Len(a)
    BY <1>1, <1>3, <1>4, <1>10, <1>11
  <2> QED
    BY <1>1, <1>7, <1>11, <2>1, AgreeFacts DEF c
<1>12. CASE T # t
  <2> DEFINE d == h.led[T]
  <2>1. t < T /\ d \in Seq(Entry) /\ Len(d) \in Nat /\ Rooted(h, d)
    BY <1>1, <1>4, <1>7, <1>10, <1>12, HistoryFields, LenProperties DEF LedOK
  <2>2. Len(a) <= Len(d) /\ d[Len(a)] = a[Len(a)] /\ d # <<>>
    BY <1>6, <1>7, <2>1 DEF Agree
  <2>3. h.owner[T] # None
    BY <1>1, <1>7, <2>2 DEF LedOK
  <2>4. Agree(d, c, l)
    BY <1>7, <2>1, <2>3 DEF HistoryInv, Inherited, c
  <2> HIDE DEF d
  <2>5. l \in 1 .. Len(d) /\ d[l] = c[l]
    BY <1>2, <2>4 DEF Agree
  <2>6. l <= Len(a)
    <3> SUFFICES ASSUME Len(a) < l PROVE FALSE
      BY <1>1, <1>2
    <3>1. Len(a) \in 1 .. l
      BY <1>2, <1>6
    <3>2. d[Len(a)].term <= d[l].term
      BY <1>1, <2>1, <2>5, <3>1, RootedTerms
    <3> QED
      BY <1>2, <1>7, <2>1, <2>2, <2>5, <3>2 DEF T
  <2>7. Agree(a, d, l)
    BY <1>1, <1>7, <2>1, <2>6, AgreeFacts DEF d
  <2> QED
    BY <1>1, <2>1, <2>4, <2>7, AgreeFacts DEF c
<1> QED
  BY <1>11, <1>12

\* Server i moves to term T with its vote there: for nobody, for itself with
\* its log as its bid, or for a candidate whose log is up to date.
Ballot(h, i, T, x) ==
  LET m == Mine(h, i)
      b == IF x = i /\ h.term[i] < T THEN m ELSE h.bid[i][T]
  IN  [h EXCEPT !.term = [h.term EXCEPT ![i] = T],
                !.vote = [h.vote EXCEPT ![i] = [h.vote[i] EXCEPT ![T] = x]],
                !.held = [h.held EXCEPT ![i] = [h.held[i] EXCEPT ![T] = m]],
                !.bid  = [h.bid EXCEPT ![i] = [h.bid[i] EXCEPT ![T] = b]]]

MayVote(h, i, T, x) ==
  /\ h.term[i] <= T
  /\ h.term[i] = T => h.vote[i][T] \in {None, x}
  /\ \/ x = None
     \/ h.term[i] = T /\ h.vote[i][T] = x
     \/ x = i /\ h.term[i] < T
     \/ x # i /\ h.vote[x][T] = x /\ UpToDate(h.bid[x][T], Mine(h, i))

\* g is the history h once server i is in term T with vote x, field by field.
IsBallot(g, h, i, T, x) ==
  /\ g \in History /\ g.led = h.led /\ g.owner = h.owner
  /\ \A v \in Server : g.term[v] = IF v = i THEN T ELSE h.term[v]
  /\ \A v \in Server, t \in Nat :
       /\ g.vote[v][t] = IF v = i /\ t = T THEN x ELSE h.vote[v][t]
       /\ g.held[v][t] = IF v = i /\ t = T THEN Mine(h, i) ELSE h.held[v][t]
       /\ g.bid[v][t] = IF v = i /\ t = T /\ x = i /\ h.term[i] < T
                        THEN Mine(h, i) ELSE h.bid[v][t]

LEMMA BallotFields ==
  ASSUME NEW h \in History, NEW i \in Server, NEW T \in Nat, NEW x \in Server \cup {None}
  PROVE  IsBallot(Ballot(h, i, T, x), h, i, T, x)
<1> DEFINE g == Ballot(h, i, T, x)
<1> DEFINE m == Mine(h, i)
           b == IF x = i /\ h.term[i] < T THEN m ELSE h.bid[i][T]
           tm == [h.term EXCEPT ![i] = T]
           vt == [h.vote EXCEPT ![i] = [h.vote[i] EXCEPT ![T] = x]]
           hd == [h.held EXCEPT ![i] = [h.held[i] EXCEPT ![T] = m]]
           bd == [h.bid EXCEPT ![i] = [h.bid[i] EXCEPT ![T] = b]]
<1>1. g = [h EXCEPT !.term = tm, !.vote = vt, !.held = hd, !.bid = bd]
  BY Zenon DEF Ballot
<1> HIDE DEF g
<1>2. m \in Seq(Entry) /\ b \in Seq(Entry)
  BY HistoryFields
<1> HIDE DEF m, b
<1>3. /\ h.term \in [Server -> Nat]
      /\ h.vote \in [Server -> [Nat -> Server \cup {None}]]
      /\ h.held \in [Server -> [Nat -> Seq(Entry)]]
      /\ h.bid \in [Server -> [Nat -> Seq(Entry)]]
  BY DEF History
<1>4. ASSUME NEW S, NEW f \in [Server -> [Nat -> S]], NEW y \in S
      PROVE  LET k == [f EXCEPT ![i] = [f[i] EXCEPT ![T] = y]] IN
             /\ k \in [Server -> [Nat -> S]]
             /\ \A v \in Server, t \in Nat : k[v][t] = IF v = i /\ t = T THEN y ELSE f[v][t]
  <2>1. f[i] \in [Nat -> S]
    OBVIOUS
  <2>2. [f[i] EXCEPT ![T] = y] \in [Nat -> S]
    BY <2>1
  <2> QED
    BY <2>1, <2>2
<1>5. tm \in [Server -> Nat] /\ \A v \in Server : tm[v] = IF v = i THEN T ELSE h.term[v]
  BY <1>3
<1>6. /\ vt \in [Server -> [Nat -> Server \cup {None}]]
      /\ \A v \in Server, t \in Nat : vt[v][t] = IF v = i /\ t = T THEN x ELSE h.vote[v][t]
  BY <1>3, <1>4
<1>7. /\ hd \in [Server -> [Nat -> Seq(Entry)]]
      /\ \A v \in Server, t \in Nat : hd[v][t] = IF v = i /\ t = T THEN m ELSE h.held[v][t]
  BY <1>2, <1>3, <1>4
<1>8. /\ bd \in [Server -> [Nat -> Seq(Entry)]]
      /\ \A v \in Server, t \in Nat : bd[v][t] = IF v = i /\ t = T THEN b ELSE h.bid[v][t]
  BY <1>2, <1>3, <1>4
<1> HIDE DEF tm, vt, hd, bd
<1>9. g \in History
  BY <1>1, <1>5, <1>6, <1>7, <1>8 DEF History
<1>10. /\ g.led = h.led /\ g.owner = h.owner /\ g.term = tm /\ g.vote = vt
       /\ g.held = hd /\ g.bid = bd
  BY <1>1 DEF History
<1>11. \A v \in Server, t \in Nat :
         bd[v][t] = IF v = i /\ t = T /\ x = i /\ h.term[i] < T THEN m ELSE h.bid[v][t]
  BY <1>8 DEF b
<1>12. IsBallot(g, h, i, T, x)
  BY <1>5, <1>6, <1>7, <1>9, <1>10, <1>11 DEF m, IsBallot
<1> QED
  BY <1>12 DEF g

\* Nothing is recorded of terms a server has not reached.
LEMMA PastEmpty ==
  ASSUME NEW h, PastOK(h), NEW v \in Server, NEW t \in Nat, h.term[v] < t
  PROVE  h.vote[v][t] = None /\ h.held[v][t] = <<>>
BY DEF PastOK

\* Two histories with the same logs of leaders root the same logs.
LEMMA RootedSame ==
  ASSUME NEW h, NEW g, g.led = h.led, NEW a
  PROVE  Rooted(g, a) <=> Rooted(h, a)
BY Zenon DEF Rooted

LEMMA BallotGrows ==
  ASSUME NEW h, HistoryInv(h), NEW i \in Server, NEW T \in Nat,
         NEW x \in Server \cup {None}, MayVote(h, i, T, x)
  PROVE  LET g == Ballot(h, i, T, x) IN
         /\ Grows(h, g, i)
         /\ \A v \in Server : Mine(g, v) = Mine(h, v)
         /\ \A v \in Server, t \in Nat :
              \/ g.held[v][t] = h.held[v][t]
              \/ v = i /\ t = T /\ h.term[i] < T /\ h.held[v][t] = <<>>
         /\ \A v \in Server, t \in Nat :
              g.vote[v][t] = h.vote[v][t] \/ (v = i /\ t = T)
<1> DEFINE g == Ballot(h, i, T, x)
           m == Mine(h, i)
<1>0. h \in History /\ PastOK(h)
  BY DEF HistoryInv
<1>a. IsBallot(g, h, i, T, x)
  BY <1>0, BallotFields
<1>1. /\ g \in History /\ g.led = h.led /\ g.owner = h.owner
      /\ \A v \in Server : g.term[v] = IF v = i THEN T ELSE h.term[v]
      /\ \A v \in Server, t \in Nat :
           /\ g.vote[v][t] = IF v = i /\ t = T THEN x ELSE h.vote[v][t]
           /\ g.held[v][t] = IF v = i /\ t = T THEN m ELSE h.held[v][t]
           /\ g.bid[v][t] = IF v = i /\ t = T /\ x = i /\ h.term[i] < T
                            THEN m ELSE h.bid[v][t]
  BY <1>a, Zenon DEF IsBallot
<1> HIDE DEF g
<1>2. /\ h.term[i] \in Nat /\ h.term[i] <= T /\ m \in Seq(Entry)
      /\ \A v \in Server : h.term[v] \in Nat
      /\ \A t \in Nat : h.led[t] \in Seq(Entry)
  BY <1>0, HistoryFields DEF MayVote
<1>3. h.term[i] < T => h.vote[i][T] = None /\ h.held[i][T] = <<>>
  BY <1>0 DEF PastOK
<1>4. h.term[i] = T => h.vote[i][T] \in {None, x} /\ h.held[i][T] = m
  BY DEF MayVote, Mine
<1>5. h.term[i] < T \/ h.term[i] = T
  BY <1>2
<1>6. \A v \in Server : Mine(g, v) = Mine(h, v)
  BY <1>1, <1>2 DEF Mine
<1>7. \A v \in Server, t \in Nat :
        \/ g.held[v][t] = h.held[v][t]
        \/ v = i /\ t = T /\ h.term[i] < T /\ h.held[v][t] = <<>>
  BY <1>1, <1>3, <1>4, <1>5
<1>8. \A v \in Server : h.term[v] <= g.term[v]
  BY <1>1, <1>2
<1>9. \A t \in Nat : Agree(h.led[t], g.led[t], Len(h.led[t]))
  BY <1>1, <1>2, AgreeFacts, EmptySeq
<1>10. ASSUME NEW v \in Server, NEW t \in Nat
       PROVE  /\ h.vote[v][t] # None => g.vote[v][t] = h.vote[v][t]
              /\ h.vote[v][t] = v => g.bid[v][t] = h.bid[v][t]
  <2>1. v # None
    BY ServerAssumption
  <2>2. CASE v = i /\ t = T
    BY <1>1, <1>3, <1>4, <1>5, <2>1, <2>2
  <2> QED
    BY <1>1, <2>2
<1>11. ASSUME NEW v \in Server, NEW t \in Nat, NEW l \in Nat, Holds(h, v, t, l)
       PROVE  Holds(g, v, t, l)
  <2>1. CASE g.held[v][t] = h.held[v][t]
    BY <1>1, <1>11, <2>1 DEF Holds
  <2>2. CASE v = i /\ t = T /\ h.held[v][t] = <<>>
    <3>1. l = 0 /\ g.held[v][t] = m
      BY <1>1, <1>11, <2>2 DEF Holds, Agree
    <3> QED
      BY <1>1, <1>2, <3>1, AgreeFacts DEF Holds
  <2> QED
    BY <1>7, <2>1, <2>2
<1>12. \A v \in Server \ {i}, t \in Nat :
         /\ g.term[v] = h.term[v] /\ g.vote[v][t] = h.vote[v][t]
         /\ g.held[v][t] = h.held[v][t] /\ g.bid[v][t] = h.bid[v][t]
  BY <1>1
<1>13. Grows(h, g, i)
  BY <1>1, <1>8, <1>9, <1>10, <1>11, <1>12 DEF Grows
<1>14. \A v \in Server, t \in Nat :
         g.vote[v][t] = h.vote[v][t] \/ (v = i /\ t = T)
  BY <1>1
<1> QED
  BY <1>6, <1>7, <1>13, <1>14 DEF g

\* Moving to a term and voting in it keeps the invariant.
LEMMA BallotKeeps ==
  ASSUME NEW h, HistoryInv(h), NEW i \in Server, NEW T \in Nat,
         NEW x \in Server \cup {None}, MayVote(h, i, T, x)
  PROVE  HistoryInv(Ballot(h, i, T, x))
<1> DEFINE g == Ballot(h, i, T, x)
           m == Mine(h, i)
<1>0. h \in History /\ LedOK(h) /\ PastOK(h) /\ Inherited(h) /\ Kept(h) /\ Supported(h)
  BY DEF HistoryInv
<1>a. IsBallot(g, h, i, T, x)
  BY <1>0, BallotFields
<1>1. /\ g \in History /\ g.led = h.led /\ g.owner = h.owner
      /\ \A v \in Server : g.term[v] = IF v = i THEN T ELSE h.term[v]
      /\ \A v \in Server, t \in Nat :
           /\ g.vote[v][t] = IF v = i /\ t = T THEN x ELSE h.vote[v][t]
           /\ g.held[v][t] = IF v = i /\ t = T THEN m ELSE h.held[v][t]
           /\ g.bid[v][t] = IF v = i /\ t = T /\ x = i /\ h.term[i] < T
                            THEN m ELSE h.bid[v][t]
  BY <1>a, Zenon DEF IsBallot
<1>2. /\ Grows(h, g, i)
      /\ \A v \in Server : Mine(g, v) = Mine(h, v)
      /\ \A v \in Server, t \in Nat :
           \/ g.held[v][t] = h.held[v][t]
           \/ v = i /\ t = T /\ h.term[i] < T /\ h.held[v][t] = <<>>
  BY BallotGrows
<1> HIDE DEF g
<1>3. /\ h.term[i] \in Nat /\ h.term[i] <= T /\ m \in Seq(Entry) /\ Rooted(h, m)
      /\ \A v \in Server : h.term[v] \in Nat
      /\ AtMost(m, h.term[i])
  BY <1>0, HistoryFields, MineRooted DEF MayVote
<1>4. \A a : Rooted(g, a) <=> Rooted(h, a)
  BY <1>1, RootedSame
<1>5. /\ \A v \in Server, t \in Nat :
           /\ h.vote[v][t] # None => g.vote[v][t] = h.vote[v][t]
           /\ h.vote[v][t] = v => g.bid[v][t] = h.bid[v][t]
  BY <1>2 DEF Grows
<1>6. /\ h.term[i] < T => h.vote[i][T] = None
      /\ h.term[i] < T \/ h.term[i] = T
  BY <1>0, <1>3, PastEmpty
<1>7. LedOK(g)
  <2> SUFFICES ASSUME NEW t \in Nat, h.owner[t] # None
               PROVE  /\ g.vote[h.owner[t]][t] = h.owner[t]
                      /\ \E Q \in SUBSET InitialVoters :
                           Majority(Q) /\ \A v \in Q : g.vote[v][t] = h.owner[t]
                      /\ g.term[h.owner[t]] = t => g.held[h.owner[t]][t] = h.led[t]
    BY <1>0, <1>1, <1>4 DEF LedOK
  <2> DEFINE o == h.owner[t]
  <2>1. o \in Server /\ h.vote[o][t] = o
    BY <1>0, HistoryFields DEF LedOK
  <2>2. PICK Q \in SUBSET InitialVoters : Majority(Q) /\ \A v \in Q : h.vote[v][t] = o
    BY <1>0 DEF LedOK
  <2>3. \A v \in Q : g.vote[v][t] = o
    BY <1>5, <2>2, VotersAssumption
  <2>4. h.term[o] = t => h.held[o][t] = h.led[t]
    BY <1>0 DEF LedOK
  <2> HIDE DEF o
  <2>5. o # None
    BY <2>1, ServerAssumption
  <2>6. ASSUME g.term[o] = t PROVE g.held[o][t] = h.led[t]
    <3>1. CASE o = i
      <4>1. t = T /\ h.vote[i][T] # None
        BY <1>1, <2>1, <2>5, <2>6, <3>1
      <4>2. h.term[i] = T
        BY <1>6, <4>1
      <4> QED
        BY <1>1, <2>4, <3>1, <4>1, <4>2 DEF Mine
    <3>2. CASE o # i
      BY <1>1, <2>1, <2>4, <2>6, <3>2
    <3> QED
      BY <3>1, <3>2
  <2> QED
    BY <1>5, <2>1, <2>2, <2>3, <2>5, <2>6 DEF o
<1>8. PastOK(g)
  <2> SUFFICES ASSUME NEW v \in Server, NEW t \in Nat
               PROVE  /\ g.term[v] < t => g.vote[v][t] = None /\ g.held[v][t] = <<>>
                      /\ Rooted(h, g.held[v][t]) /\ Rooted(h, g.bid[v][t])
                      /\ AtMost(g.held[v][t], t)
                      /\ g.vote[v][t] # None => g.vote[g.vote[v][t]][t] = g.vote[v][t]
                      /\ g.vote[v][t] = v => Below(g.bid[v][t], t)
    BY <1>4 DEF PastOK
  <2>1. ASSUME g.term[v] < t PROVE g.vote[v][t] = None /\ g.held[v][t] = <<>>
    <3>1. h.term[v] < t /\ ~(v = i /\ t = T)
      BY <1>1, <1>3, <2>1
    <3> QED
      BY <1>0, <1>1, <3>1, PastEmpty
  <2>2. Rooted(h, g.held[v][t]) /\ Rooted(h, g.bid[v][t])
    <3>1. Rooted(h, h.held[v][t]) /\ Rooted(h, h.bid[v][t])
      BY <1>0 DEF PastOK
    <3>2. (g.held[v][t] = h.held[v][t] \/ g.held[v][t] = m)
          /\ (g.bid[v][t] = h.bid[v][t] \/ g.bid[v][t] = m)
      BY <1>1
    <3> QED
      BY <1>3, <3>1, <3>2
  <2>3. AtMost(g.held[v][t], t)
    <3>1. CASE v = i /\ t = T
      <4>1. g.held[v][t] = m
        BY <1>1, <3>1
      <4>2. \A k \in 1 .. Len(m) : m[k].term \in Nat /\ m[k].term <= h.term[i]
        BY <1>0, <1>3, RootedTerms DEF AtMost
      <4>3. AtMost(m, T)
        BY <1>3, <4>2 DEF AtMost
      <4> QED
        BY <3>1, <4>1, <4>3
    <3>2. CASE ~(v = i /\ t = T)
      <4>1. g.held[v][t] = h.held[v][t]
        BY <1>1, <3>2
      <4> QED
        BY <1>0, <4>1 DEF PastOK
    <3> QED
      BY <3>1, <3>2
  <2>4. ASSUME g.vote[v][t] # None PROVE g.vote[g.vote[v][t]][t] = g.vote[v][t]
    <3> DEFINE y == g.vote[v][t]
    <3>1. y \in Server
      BY <1>1, <2>4, HistoryFields
    <3>2. CASE h.vote[v][t] = y
      <4>1. h.vote[y][t] = y
        BY <1>0, <2>4, <3>2 DEF PastOK
      <4> QED
        BY <1>5, <2>4, <3>1, <4>1
    <3>3. CASE h.vote[v][t] # y
      <4>1. v = i /\ t = T /\ y = x
        BY <1>1, <3>3
      <4>2. x = i \/ h.vote[x][T] = x
        BY <2>4, <3>3, <4>1 DEF MayVote
      <4> QED
        BY <1>1, <1>5, <2>4, <3>1, <4>1, <4>2
    <3> QED
      BY <3>2, <3>3
  <2>5. ASSUME g.vote[v][t] = v PROVE Below(g.bid[v][t], t)
    <3>1. CASE v = i /\ t = T /\ x = i /\ h.term[i] < T
      <4>1. g.bid[v][t] = m
        BY <1>1, <3>1
      <4>2. \A k \in 1 .. Len(m) : m[k].term \in Nat /\ m[k].term <= h.term[i]
        BY <1>0, <1>3, RootedTerms DEF AtMost
      <4>3. Below(m, T)
        BY <1>3, <3>1, <4>2 DEF Below
      <4> QED
        BY <3>1, <4>1, <4>3
    <3>2. CASE ~(v = i /\ t = T /\ x = i /\ h.term[i] < T)
      <4>1. g.bid[v][t] = h.bid[v][t]
        BY <1>1, <3>2
      <4>2. h.vote[v][t] = v
        <5>1. CASE v = i /\ t = T
          BY <1>1, <1>6, <2>5, <3>2, <5>1, ServerAssumption DEF MayVote
        <5>2. CASE ~(v = i /\ t = T)
          BY <1>1, <2>5, <5>2
        <5> QED
          BY <5>1, <5>2
      <4> QED
        BY <1>0, <4>1, <4>2 DEF PastOK
    <3> QED
      BY <3>1, <3>2
  <2> QED
    BY <2>1, <2>2, <2>3, <2>4, <2>5
<1>9. ASSUME NEW t \in Nat, NEW l \in Nat, Open(g, t, l) PROVE Open(h, t, l)
  <2>1. Point(h, t, l)
    BY <1>1, <1>9 DEF Open, Point
  <2>2. ASSUME NEW v \in Server, g.term[v] <= t PROVE h.term[v] <= t
    BY <1>1, <1>3, <2>2
  <2>3. ASSUME NEW v \in Server, Holds(g, v, t, l) PROVE h.term[v] <= t \/ Holds(h, v, t, l)
    <3>1. CASE g.held[v][t] = h.held[v][t]
      BY <1>1, <2>3, <3>1 DEF Holds
    <3>2. CASE v = i /\ t = T
      BY <1>3, <3>2
    <3> QED
      BY <1>2, <3>1, <3>2
  <2> QED
    BY <1>9, <2>1, <2>2, <2>3, OpenBefore
<1>10. Inherited(g)
  BY <1>0, <1>1, <1>9 DEF Inherited
<1>11. Kept(g)
  <2> SUFFICES ASSUME NEW v \in Server, NEW t \in Nat, NEW l \in Nat,
                      Open(g, t, l), Holds(g, v, t, l)
               PROVE  Agree(Mine(h, v), h.led[t], l)
    BY <1>1, <1>2 DEF Kept
  <2>1. CASE g.held[v][t] = h.held[v][t]
    BY <1>0, <1>1, <1>9, <2>1 DEF Kept, Holds
  <2>2. CASE v = i /\ t = T
    BY <1>1, <2>2 DEF Holds
  <2> QED
    BY <1>2, <2>1, <2>2
<1>12. Supported(g)
  <2> SUFFICES ASSUME NEW v \in Server, NEW t \in Nat, NEW u \in Nat, NEW l \in Nat,
                      t < u, g.vote[v][u] # None, Open(g, t, l), Holds(g, v, t, l)
               PROVE  Agree(g.bid[g.vote[v][u]][u], h.led[t], l)
    BY <1>1 DEF Supported
  <2>1. Open(h, t, l)
    BY <1>9
  <2>2. CASE v = i /\ u = T
    <3>1. g.vote[v][u] = x /\ x \in Server /\ g.held[v][t] = h.held[v][t]
      BY <1>1, <2>2
    <3>2. Holds(h, v, t, l)
      BY <1>1, <3>1 DEF Holds
    <3>3. CASE h.term[i] = T /\ h.vote[i][T] = x
      <4>1. g.bid[x][T] = h.bid[x][T]
        BY <1>1, <3>1, <3>3, <1>3
      <4> QED
        BY <1>0, <2>1, <2>2, <3>1, <3>2, <3>3, <4>1 DEF Supported
    <3>4. CASE x = i /\ h.term[i] < T
      <4>1. g.bid[x][T] = m
        BY <1>1, <3>1, <3>4
      <4>2. Agree(m, h.led[t], l)
        BY <1>0, <2>1, <2>2, <3>2 DEF Kept
      <4> QED
        BY <2>2, <3>1, <4>1, <4>2
    <3>5. CASE x # i /\ h.vote[x][T] = x /\ UpToDate(h.bid[x][T], m)
      <4> DEFINE a == h.bid[x][T]
      <4>1. g.bid[x][T] = a
        BY <1>1, <3>1, <3>5
      <4>2. a \in Seq(Entry) /\ Rooted(h, a) /\ Below(a, T)
        BY <1>0, <3>1, <3>5, HistoryFields DEF PastOK
      <4>3. UpToDate(a, Mine(h, i))
        BY <3>5
      <4>4. Holds(h, i, t, l)
        BY <2>2, <3>2
      <4> HIDE DEF a
      <4>5. Agree(a, h.led[t], l)
        BY <2>1, <4>2, <4>3, <4>4, UpToDateHas, Zenon
      <4> QED
        BY <2>2, <3>1, <4>1, <4>5
    <3> QED
      BY <3>1, <3>3, <3>4, <3>5, ServerAssumption DEF MayVote
  <2>3. CASE ~(v = i /\ u = T)
    <3>1. h.vote[v][u] = g.vote[v][u]
      BY <1>1, <2>3
    <3>2. ~(v = i /\ t = T)
      <4> SUFFICES ASSUME v = i, t = T PROVE FALSE
        OBVIOUS
      <4>1. h.term[i] < u
        BY <1>3
      <4> QED
        BY <1>0, <3>1, <4>1, PastEmpty
    <3>3. Holds(h, v, t, l)
      BY <1>1, <3>2 DEF Holds
    <3>4. h.vote[v][u] \in Server /\ h.vote[h.vote[v][u]][u] = h.vote[v][u]
      BY <1>0, <3>1, HistoryFields DEF PastOK
    <3>5. g.bid[h.vote[v][u]][u] = h.bid[h.vote[v][u]][u]
      BY <1>5, <3>4
    <3> QED
      BY <1>0, <2>1, <3>1, <3>3, <3>5 DEF Supported
  <2> QED
    BY <2>2, <2>3
<1> QED
  BY <1>1, <1>7, <1>8, <1>10, <1>11, <1>12 DEF HistoryInv, g

-----------------------------------------------------------------------------
(* Catching up *)

\* Server i's log becomes a, a part of what the leader of its term has.
Catch(h, i, a) ==
  [h EXCEPT !.held = [h.held EXCEPT ![i] = [h.held[i] EXCEPT ![h.term[i]] = a]]]

\* It loses nothing it had in common with the leader.
MayCatch(h, i, a) ==
  LET c == h.led[h.term[i]]
  IN  /\ a \in Seq(Entry) /\ h.owner[h.term[i]] # None
      /\ Agree(a, c, Len(a))
      /\ \A l \in Nat : Agree(Mine(h, i), c, l) => l <= Len(a)

LEMMA NestedExcept ==
  ASSUME NEW S, NEW f \in [Server -> [Nat -> S]], NEW i \in Server, NEW T \in Nat, NEW y \in S,
         NEW k, k = [f EXCEPT ![i] = [f[i] EXCEPT ![T] = y]]
  PROVE  /\ k \in [Server -> [Nat -> S]]
         /\ \A v \in Server, t \in Nat : k[v][t] = IF v = i /\ t = T THEN y ELSE f[v][t]
<1>1. f[i] \in [Nat -> S]
  OBVIOUS
<1>2. [f[i] EXCEPT ![T] = y] \in [Nat -> S]
  BY <1>1
<1> QED
  BY <1>1, <1>2

LEMMA CatchFields ==
  ASSUME NEW h \in History, NEW i \in Server, NEW a \in Seq(Entry)
  PROVE  LET g == Catch(h, i, a) IN
         /\ g \in History /\ g.led = h.led /\ g.owner = h.owner
         /\ g.term = h.term /\ g.vote = h.vote /\ g.bid = h.bid
         /\ \A v \in Server, t \in Nat :
              g.held[v][t] = IF v = i /\ t = h.term[i] THEN a ELSE h.held[v][t]
<1> DEFINE hd == [h.held EXCEPT ![i] = [h.held[i] EXCEPT ![h.term[i]] = a]]
           g == Catch(h, i, a)
<1>1. g = [h EXCEPT !.held = hd]
  BY Zenon DEF Catch
<1>2. h.held \in [Server -> [Nat -> Seq(Entry)]] /\ h.term[i] \in Nat
  BY DEF History
<1>3. /\ hd \in [Server -> [Nat -> Seq(Entry)]]
      /\ \A v \in Server, t \in Nat :
           hd[v][t] = IF v = i /\ t = h.term[i] THEN a ELSE h.held[v][t]
  <2> DEFINE f == h.held
             T == h.term[i]
  <2>1. f \in [Server -> [Nat -> Seq(Entry)]] /\ T \in Nat
    BY <1>2
  <2>2. hd = [f EXCEPT ![i] = [f[i] EXCEPT ![T] = a]]
    OBVIOUS
  <2> HIDE DEF f, T, hd
  <2>3. /\ hd \in [Server -> [Nat -> Seq(Entry)]]
        /\ \A v \in Server, t \in Nat : hd[v][t] = IF v = i /\ t = T THEN a ELSE f[v][t]
    BY <2>1, <2>2, NestedExcept, ZenonT(40)
  <2> QED
    BY <2>3 DEF f, T
<1> HIDE DEF hd, g
<1>4. g \in History
  BY <1>1, <1>3 DEF History
<1>5. /\ g.led = h.led /\ g.owner = h.owner /\ g.term = h.term /\ g.vote = h.vote
      /\ g.bid = h.bid /\ g.held = hd
  BY <1>1 DEF History
<1> QED
  BY <1>3, <1>4, <1>5 DEF g

\* Catching up with the leader keeps the invariant.
LEMMA CatchKeeps ==
  ASSUME NEW h, HistoryInv(h), NEW i \in Server, NEW a, MayCatch(h, i, a)
  PROVE  LET g == Catch(h, i, a) IN
         /\ HistoryInv(g) /\ Grows(h, g, i)
         /\ \A v \in Server : Mine(g, v) = IF v = i THEN a ELSE Mine(h, v)
<1> DEFINE g == Catch(h, i, a)
           m == Mine(h, i)
           T == h.term[i]
           c == h.led[T]
<1>0. h \in History /\ LedOK(h) /\ PastOK(h) /\ Inherited(h) /\ Kept(h) /\ Supported(h)
  BY DEF HistoryInv
<1>a. /\ a \in Seq(Entry) /\ h.owner[T] # None /\ Agree(a, c, Len(a))
      /\ \A l \in Nat : Agree(m, c, l) => l <= Len(a)
  BY DEF MayCatch
<1>1. /\ g \in History /\ g.led = h.led /\ g.owner = h.owner
      /\ g.term = h.term /\ g.vote = h.vote /\ g.bid = h.bid
      /\ \A v \in Server, t \in Nat :
           g.held[v][t] = IF v = i /\ t = T THEN a ELSE h.held[v][t]
  BY <1>0, <1>a, CatchFields
<1> HIDE DEF g
<1>2. /\ T \in Nat /\ m \in Seq(Entry) /\ c \in Seq(Entry) /\ h.held[i][T] = m
      /\ Len(a) \in Nat /\ Len(c) \in Nat /\ Rooted(h, c)
      /\ \A v \in Server : h.term[v] \in Nat
      /\ \A t \in Nat : h.led[t] \in Seq(Entry)
  BY <1>0, <1>a, HistoryFields, LenProperties DEF Mine, LedOK
<1> HIDE DEF m, c
<1>3. \A v \in Server : Mine(g, v) = IF v = i THEN a ELSE Mine(h, v)
  <2>1. Mine(g, i) = a
    BY <1>1, <1>2 DEF Mine
  <2>2. \A v \in Server \ {i} : Mine(g, v) = Mine(h, v)
    BY <1>1, <1>2 DEF Mine
  <2> QED
    BY <2>1, <2>2
<1> HIDE DEF T
<1>4. \A l \in Nat : Agree(m, c, l) => Agree(a, c, l)
  BY <1>a, <1>2, AgreeFacts
<1>5. \A x : Rooted(g, x) <=> Rooted(h, x)
  BY <1>1, RootedSame
<1>6. Grows(h, g, i)
  <2>1. \A t \in Nat : Agree(h.led[t], g.led[t], Len(h.led[t]))
    BY <1>1, <1>2, AgreeFacts, EmptySeq
  <2>2. ASSUME NEW v \in Server, NEW t \in Nat, NEW l \in Nat, Holds(h, v, t, l)
        PROVE  Holds(g, v, t, l)
    BY <1>1, <1>2, <1>4, <2>2 DEF Holds, c
  <2> QED
    BY <1>1, <1>2, <2>1, <2>2 DEF Grows
<1>7. LedOK(g)
  <2> SUFFICES ASSUME NEW t \in Nat, h.owner[t] # None, h.term[h.owner[t]] = t
               PROVE  g.held[h.owner[t]][t] = h.led[t]
    BY <1>0, <1>1, <1>5 DEF LedOK
  <2>1. h.owner[t] \in Server /\ h.held[h.owner[t]][t] = h.led[t]
    BY <1>0, HistoryFields DEF LedOK
  <2>2. CASE h.owner[t] = i
    <3>1. t = T /\ m = c
      BY <1>2, <2>1, <2>2 DEF c, T
    <3>2. Len(c) <= Len(a) /\ Len(a) <= Len(c)
      BY <1>a, <1>2, <3>1, AgreeFacts DEF Agree
    <3>3. \A k \in 1 .. Len(a) : a[k] = c[k]
      BY <1>a DEF Agree
    <3>4. a = c
      BY <1>a, <1>2, <3>2, <3>3, SeqEqual
    <3> QED
      BY <1>1, <2>2, <3>1, <3>4 DEF c
  <2>3. CASE h.owner[t] # i
    BY <1>1, <2>1, <2>3
  <2> QED
    BY <2>2, <2>3
<1>8. PastOK(g)
  <2>1. Rooted(h, a)
    BY <1>0, <1>a, <1>2, RootedPart
  <2>2. AtMost(a, T)
    <3>1. \A k \in 1 .. Len(c) : c[k].term <= T
      BY <1>0, <1>2 DEF LedOK, c
    <3>2. \A k \in 1 .. Len(a) : k \in 1 .. Len(c) /\ a[k] = c[k]
      BY <1>a, <1>2 DEF Agree
    <3> QED
      BY <3>1, <3>2 DEF AtMost
  <2>3. ASSUME NEW v \in Server, NEW t \in Nat
        PROVE  /\ h.term[v] < t => h.vote[v][t] = None /\ g.held[v][t] = <<>>
               /\ Rooted(h, g.held[v][t])
               /\ AtMost(g.held[v][t], t)
    <3>1. CASE v = i /\ t = T
      BY <1>1, <1>2, <2>1, <2>2, <3>1 DEF T
    <3>2. CASE ~(v = i /\ t = T)
      BY <1>0, <1>1, <3>2 DEF PastOK
    <3> QED
      BY <3>1, <3>2
  <2>4. ASSUME NEW v \in Server, NEW t \in Nat
        PROVE  /\ Rooted(h, h.bid[v][t])
               /\ h.vote[v][t] # None => h.vote[h.vote[v][t]][t] = h.vote[v][t]
               /\ h.vote[v][t] = v => Below(h.bid[v][t], t)
    BY <1>0 DEF PastOK
  <2> QED
    BY <1>1, <1>5, <2>3, <2>4 DEF PastOK
<1>9. ASSUME NEW t \in Nat, NEW l \in Nat, Open(g, t, l) PROVE Open(h, t, l)
  <2>1. Point(h, t, l)
    BY <1>1, <1>9 DEF Open, Point
  <2>2. ASSUME NEW v \in Server, Holds(g, v, t, l) PROVE h.term[v] <= t \/ Holds(h, v, t, l)
    BY <1>1, <1>2, <2>2 DEF Holds, T
  <2> QED
    BY <1>1, <1>9, <2>1, <2>2, OpenBefore
<1>10. Inherited(g)
  BY <1>0, <1>1, <1>9 DEF Inherited
<1>11. Kept(g)
  <2> SUFFICES ASSUME NEW v \in Server, NEW t \in Nat, NEW l \in Nat,
                      Open(g, t, l), Holds(g, v, t, l)
               PROVE  Agree(Mine(g, v), h.led[t], l)
    BY <1>1 DEF Kept
  <2>1. CASE v = i /\ t = T
    BY <1>1, <1>3, <2>1 DEF Holds
  <2>2. CASE ~(v = i /\ t = T)
    <3>1. Open(h, t, l) /\ Holds(h, v, t, l)
      BY <1>1, <1>9, <2>2 DEF Holds
    <3>2. Agree(Mine(h, v), h.led[t], l)
      BY <1>0, <3>1 DEF Kept
    <3>3. CASE v # i
      BY <1>3, <3>2, <3>3
    <3>4. CASE v = i
      <4>1. t < T
        <5> SUFFICES ASSUME T < t PROVE FALSE
          BY <1>2, <2>2, <3>4
        <5>1. h.held[i][t] = <<>>
          BY <1>0, PastEmpty DEF T
        <5>2. l >= 1
          BY <3>1 DEF Open, Point
        <5> QED
          BY <3>1, <3>4, <5>1, <5>2 DEF Holds, Agree
      <4>2. Agree(c, h.led[t], l)
        BY <1>0, <1>a, <1>2, <3>1, <4>1 DEF Inherited, c
      <4>3. Agree(m, c, l)
        BY <1>2, <3>2, <3>4, <4>2, AgreeFacts DEF m
      <4>4. Agree(a, h.led[t], l)
        BY <1>a, <1>2, <1>4, <4>2, <4>3, AgreeFacts
      <4> QED
        BY <1>3, <3>4, <4>4
    <3> QED
      BY <3>3, <3>4
  <2> QED
    BY <2>1, <2>2
<1>12. Supported(g)
  <2> SUFFICES ASSUME NEW v \in Server, NEW t \in Nat, NEW u \in Nat, NEW l \in Nat,
                      t < u, h.vote[v][u] # None, Open(g, t, l), Holds(g, v, t, l)
               PROVE  Agree(h.bid[h.vote[v][u]][u], h.led[t], l)
    BY <1>1 DEF Supported
  <2>1. ~(v = i /\ t = T)
    BY <1>0, PastEmpty DEF T
  <2>2. Open(h, t, l) /\ Holds(h, v, t, l)
    BY <1>1, <1>9, <2>1 DEF Holds
  <2> QED
    BY <1>0, <2>2 DEF Supported
<1>13. HistoryInv(g)
  BY <1>1, <1>7, <1>8, <1>10, <1>11, <1>12 DEF HistoryInv
<1> QED
  BY <1>3, <1>6, <1>13 DEF g

-----------------------------------------------------------------------------
(* Leading *)

\* Server i appends e to its log as the leader of its term.
Lead(h, i, e) ==
  LET a == Append(Mine(h, i), e)
  IN  [h EXCEPT !.held = [h.held EXCEPT ![i] = [h.held[i] EXCEPT ![h.term[i]] = a]],
                !.led  = [h.led EXCEPT ![h.term[i]] = a],
                !.owner = [h.owner EXCEPT ![h.term[i]] = i]]

\* It leads already, or has the votes and still the log it stood with.
Wins(h, i) ==
  LET T == h.term[i]
  IN  /\ h.owner[T] = None /\ h.vote[i][T] = i /\ h.bid[i][T] = Mine(h, i)
      /\ \E Q \in SUBSET InitialVoters : Majority(Q) /\ \A v \in Q : h.vote[v][T] = i

MayLead(h, i, e) ==
  /\ e \in Entry /\ e.term = h.term[i] /\ e.index = Len(Mine(h, i)) + 1
  /\ h.owner[h.term[i]] = i \/ Wins(h, i)

LEMMA LeadFields ==
  ASSUME NEW h \in History, NEW i \in Server, NEW e \in Entry
  PROVE  LET g == Lead(h, i, e)
             a == Append(Mine(h, i), e) IN
         /\ g \in History
         /\ g.term = h.term /\ g.vote = h.vote /\ g.bid = h.bid
         /\ \A t \in Nat : g.led[t] = IF t = h.term[i] THEN a ELSE h.led[t]
         /\ \A t \in Nat : g.owner[t] = IF t = h.term[i] THEN i ELSE h.owner[t]
         /\ \A v \in Server, t \in Nat :
              g.held[v][t] = IF v = i /\ t = h.term[i] THEN a ELSE h.held[v][t]
<1> DEFINE a == Append(Mine(h, i), e)
           f == h.held
           T == h.term[i]
           hd == [f EXCEPT ![i] = [f[i] EXCEPT ![T] = a]]
           ld == [h.led EXCEPT ![T] = a]
           ow == [h.owner EXCEPT ![T] = i]
           g == Lead(h, i, e)
<1>1. g = [h EXCEPT !.held = hd, !.led = ld, !.owner = ow]
  BY Zenon DEF Lead
<1>2. /\ f \in [Server -> [Nat -> Seq(Entry)]] /\ T \in Nat
      /\ h.led \in [Nat -> Seq(Entry)] /\ h.owner \in [Nat -> Server \cup {None}]
  BY DEF History
<1>3. a \in Seq(Entry)
  BY HistoryFields, AppendProperties
<1> HIDE DEF a
<1>4. /\ ld \in [Nat -> Seq(Entry)] /\ ow \in [Nat -> Server \cup {None}]
      /\ \A t \in Nat : ld[t] = IF t = T THEN a ELSE h.led[t]
      /\ \A t \in Nat : ow[t] = IF t = T THEN i ELSE h.owner[t]
  BY <1>2, <1>3
<1>5. hd = [f EXCEPT ![i] = [f[i] EXCEPT ![T] = a]]
  OBVIOUS
<1> HIDE DEF f, T, hd, ld, ow
<1>6. /\ hd \in [Server -> [Nat -> Seq(Entry)]]
      /\ \A v \in Server, t \in Nat : hd[v][t] = IF v = i /\ t = T THEN a ELSE f[v][t]
  BY <1>2, <1>3, <1>5, NestedExcept
<1> HIDE DEF g
<1>7. g \in History
  BY <1>1, <1>4, <1>6 DEF History
<1>8. /\ g.led = ld /\ g.owner = ow /\ g.term = h.term /\ g.vote = h.vote
      /\ g.bid = h.bid /\ g.held = hd
  BY <1>1 DEF History
<1> QED
  BY <1>4, <1>6, <1>7, <1>8 DEF g, f, T, a

\* A leader's append keeps the invariant.
LEMMA LeadKeeps ==
  ASSUME NEW h, HistoryInv(h), NEW i \in Server, NEW e, MayLead(h, i, e)
  PROVE  LET g == Lead(h, i, e) IN
         /\ HistoryInv(g) /\ Grows(h, g, i)
         /\ \A v \in Server : Mine(g, v) = IF v = i THEN Append(Mine(h, i), e) ELSE Mine(h, v)
<1> DEFINE g == Lead(h, i, e)
           m == Mine(h, i)
           T == h.term[i]
           a == Append(m, e)
<1>0. h \in History /\ LedOK(h) /\ PastOK(h) /\ Inherited(h) /\ Kept(h) /\ Supported(h)
  BY DEF HistoryInv
<1>b. /\ e \in Entry /\ e.term = T /\ e.index = Len(m) + 1
      /\ h.owner[T] = i \/ Wins(h, i)
  BY DEF MayLead
<1>1. /\ g \in History
      /\ g.term = h.term /\ g.vote = h.vote /\ g.bid = h.bid
      /\ \A t \in Nat : g.led[t] = IF t = T THEN a ELSE h.led[t]
      /\ \A t \in Nat : g.owner[t] = IF t = T THEN i ELSE h.owner[t]
      /\ \A v \in Server, t \in Nat :
           g.held[v][t] = IF v = i /\ t = T THEN a ELSE h.held[v][t]
  BY <1>0, <1>b, LeadFields
<1> HIDE DEF g
<1>2. /\ T \in Nat /\ m \in Seq(Entry) /\ h.held[i][T] = m
      /\ Rooted(h, m) /\ AtMost(m, T) /\ Len(m) \in Nat
      /\ \A v \in Server : h.term[v] \in Nat
      /\ \A t \in Nat : h.led[t] \in Seq(Entry) /\ Len(h.led[t]) \in Nat
  BY <1>0, HistoryFields, MineRooted, LenProperties DEF Mine
<1> HIDE DEF m
<1>3. /\ a \in Seq(Entry) /\ Len(a) = Len(m) + 1 /\ a[Len(m) + 1] = e
      /\ \A k \in 1 .. Len(m) : a[k] = m[k]
  BY <1>b, <1>2, AppendProperties
<1>a. Agree(m, a, Len(m)) /\ \A x \in Seq(Entry), l \in Nat : Agree(m, x, l) => Agree(a, x, l)
  BY <1>2, <1>3 DEF Agree
<1> HIDE DEF a
<1>4. \A v \in Server : Mine(g, v) = IF v = i THEN a ELSE Mine(h, v)
  BY <1>1, <1>2 DEF Mine
<1>5. i # None
  BY ServerAssumption
<1>6. /\ h.owner[T] = i => h.led[T] = m
      /\ h.owner[T] = None => h.led[T] = <<>>
  BY <1>0, <1>2, <1>5 DEF LedOK
<1> HIDE DEF T
<1>7. h.owner[T] = i \/ h.owner[T] = None
  BY <1>b DEF Wins, T
<1>8. \A t \in Nat : Agree(h.led[t], g.led[t], Len(h.led[t]))
  <2> SUFFICES ASSUME NEW t \in Nat PROVE Agree(h.led[t], g.led[t], Len(h.led[t]))
    OBVIOUS
  <2>1. CASE t # T
    BY <1>1, <1>2, <2>1, AgreeFacts, EmptySeq
  <2>2. CASE t = T /\ h.owner[T] = i
    BY <1>1, <1>6, <1>a, <2>2
  <2>3. CASE t = T /\ h.owner[T] = None
    <3>1. h.led[t] = <<>> /\ g.led[t] = a /\ Len(h.led[t]) = 0
      BY <1>1, <1>6, <2>3
    <3> QED
      BY <1>2, <1>3, <3>1, AgreeFacts
  <2> QED
    BY <1>7, <2>1, <2>2, <2>3
<1>9. \A t \in Nat : g.led[t] \in Seq(Entry) /\ Len(g.led[t]) \in Nat
  BY <1>1, HistoryFields, LenProperties
<1>10. \A t \in Nat, x \in Seq(Entry), l \in Nat :
         Agree(x, h.led[t], l) => Agree(x, g.led[t], l)
  <2> SUFFICES ASSUME NEW t \in Nat, NEW x \in Seq(Entry), NEW l \in Nat,
                      Agree(x, h.led[t], l)
               PROVE  Agree(x, g.led[t], l)
    OBVIOUS
  <2>1. l <= Len(h.led[t])
    BY DEF Agree
  <2>2. Agree(h.led[t], g.led[t], l)
    BY <1>2, <1>8, <1>9, <2>1, AgreeFacts
  <2> QED
    BY <1>2, <1>9, <2>2, AgreeFacts
<1>11. \A x \in Seq(Entry) : Rooted(h, x) => Rooted(g, x)
  <2> SUFFICES ASSUME NEW x \in Seq(Entry), Rooted(h, x), NEW k \in 1 .. Len(x)
               PROVE  Agree(x, g.led[x[k].term], k)
    BY DEF Rooted
  <2>1. x[k].term \in Nat /\ k \in Nat
    BY ElementOfSeq, EntryFields, LenProperties
  <2>2. Agree(x, h.led[x[k].term], k)
    BY DEF Rooted
  <2> QED
    BY <1>10, <2>1, <2>2
<1>12. Rooted(g, a)
  <2> SUFFICES ASSUME NEW k \in 1 .. Len(a) PROVE Agree(a, g.led[a[k].term], k)
    BY DEF Rooted
  <2>1. CASE k \in 1 .. Len(m)
    <3>1. Rooted(g, m) /\ k \in Nat /\ a[k] = m[k]
      BY <1>2, <1>3, <1>11, <2>1
    <3>2. m[k].term \in Nat
      BY <1>2, <2>1, ElementOfSeq, EntryFields
    <3>3. Agree(m, g.led[a[k].term], k)
      BY <2>1, <3>1 DEF Rooted
    <3> QED
      BY <1>9, <1>a, <3>1, <3>2, <3>3
  <2>2. CASE k = Len(m) + 1
    <3>1. a[k].term = T /\ k = Len(a)
      BY <1>b, <1>3, <2>2 DEF T
    <3>2. g.led[T] = a
      BY <1>1, <1>2
    <3> QED
      BY <1>2, <1>3, <3>1, <3>2, AgreeFacts
  <2> QED
    BY <1>2, <1>3, <2>1, <2>2
<1>13. AtMost(a, T) /\ \A k \in 1 .. Len(a) : a[k].index = k
  <2>1. \A k \in 1 .. Len(m) : a[k].index = k /\ a[k].term <= T
    BY <1>0, <1>2, <1>3, RootedTerms DEF AtMost
  <2>2. a[Len(m) + 1].index = Len(m) + 1 /\ a[Len(m) + 1].term = T
    BY <1>b, <1>3 DEF T, m
  <2>3. \A k \in 1 .. Len(a) : k \in 1 .. Len(m) \/ k = Len(m) + 1
    BY <1>2, <1>3
  <2>4. T <= T
    BY <1>2
  <2> QED
    BY <2>1, <2>2, <2>3, <2>4 DEF AtMost
<1>14. Grows(h, g, i)
  <2>1. ASSUME NEW v \in Server, NEW t \in Nat, NEW l \in Nat, Holds(h, v, t, l)
        PROVE  Holds(g, v, t, l)
    <3>1. h.held[v][t] \in Seq(Entry) /\ Agree(h.held[v][t], h.led[t], l)
      BY <1>0, <2>1, HistoryFields DEF Holds
    <3>2. Agree(h.held[v][t], g.led[t], l)
      BY <1>10, <3>1
    <3>3. CASE v = i /\ t = T
      <4>1. Agree(a, g.led[t], l)
        BY <1>2, <1>9, <1>a, <3>2, <3>3 DEF T
      <4> QED
        BY <1>1, <3>3, <4>1 DEF Holds, T
    <3>4. CASE ~(v = i /\ t = T)
      BY <1>1, <3>2, <3>4 DEF Holds, T
    <3> QED
      BY <3>3, <3>4
  <2>2. \A t \in Nat :
          /\ g.owner[t] = h.owner[t] \/ (h.owner[t] = None /\ g.owner[t] = i)
          /\ g.led[t] = h.led[t] \/ g.owner[t] = i
    BY <1>1, <1>7 DEF T
  <2>3. \A v \in Server \ {i}, t \in Nat : g.held[v][t] = h.held[v][t]
    BY <1>1
  <2> QED
    BY <1>1, <1>2, <1>8, <2>1, <2>2, <2>3 DEF Grows
<1>15. LedOK(g)
  <2> SUFFICES ASSUME NEW t \in Nat
               PROVE  /\ Rooted(g, g.led[t])
                      /\ \A k \in 1 .. Len(g.led[t]) :
                           g.led[t][k].index = k /\ g.led[t][k].term <= t
                      /\ g.owner[t] = None => g.led[t] = <<>>
                      /\ g.owner[t] # None =>
                           /\ g.vote[g.owner[t]][t] = g.owner[t]
                           /\ \E Q \in SUBSET InitialVoters :
                                Majority(Q) /\ \A v \in Q : g.vote[v][t] = g.owner[t]
                           /\ g.term[g.owner[t]] = t => g.held[g.owner[t]][t] = g.led[t]
    BY DEF LedOK
  <2>1. CASE t # T
    <3>1. g.led[t] = h.led[t] /\ g.owner[t] = h.owner[t]
      BY <1>1, <2>1 DEF T
    <3>2. \A v \in Server : g.held[v][t] = h.held[v][t]
      BY <1>1, <2>1 DEF T
    <3>3. Rooted(g, g.led[t])
      BY <1>0, <1>2, <1>11, <3>1 DEF LedOK
    <3>4. h.owner[t] # None => h.owner[t] \in Server
      BY <1>0, HistoryFields
    <3>5. /\ \A k \in 1 .. Len(h.led[t]) :
               h.led[t][k].index = k /\ h.led[t][k].term <= t
          /\ h.owner[t] = None => h.led[t] = <<>>
          /\ h.owner[t] # None =>
               /\ h.vote[h.owner[t]][t] = h.owner[t]
               /\ \E Q \in SUBSET InitialVoters :
                    Majority(Q) /\ \A v \in Q : h.vote[v][t] = h.owner[t]
               /\ h.term[h.owner[t]] = t => h.held[h.owner[t]][t] = h.led[t]
      BY <1>0, Zenon DEF LedOK
    <3> QED
      BY <1>1, <3>1, <3>2, <3>3, <3>4, <3>5
  <2>2. CASE t = T
    <3>1. g.led[t] = a /\ g.owner[t] = i /\ g.held[i][t] = a
      BY <1>1, <2>2 DEF T
    <3>2. /\ h.vote[i][T] = i
          /\ \E Q \in SUBSET InitialVoters : Majority(Q) /\ \A v \in Q : h.vote[v][T] = i
      <4>1. CASE h.owner[T] = i
        BY <1>0, <1>2, <1>5, <4>1 DEF LedOK
      <4>2. CASE Wins(h, i)
        BY <4>2 DEF Wins, T
      <4> QED
        BY <1>b, <4>1, <4>2 DEF T
    <3> QED
      BY <1>1, <1>5, <1>12, <1>13, <2>2, <3>1, <3>2 DEF AtMost
  <2> QED
    BY <2>1, <2>2
<1>16. PastOK(g)
  <2>1. ASSUME NEW v \in Server, NEW t \in Nat
        PROVE  /\ h.term[v] < t => h.vote[v][t] = None /\ g.held[v][t] = <<>>
               /\ Rooted(g, g.held[v][t])
               /\ AtMost(g.held[v][t], t)
    <3>1. CASE v = i /\ t = T
      BY <1>1, <1>2, <1>12, <1>13, <3>1 DEF T
    <3>2. CASE ~(v = i /\ t = T)
      <4>1. g.held[v][t] = h.held[v][t] /\ h.held[v][t] \in Seq(Entry)
        BY <1>0, <1>1, <3>2, HistoryFields DEF T
      <4>2. /\ h.term[v] < t => h.vote[v][t] = None /\ h.held[v][t] = <<>>
            /\ Rooted(h, h.held[v][t]) /\ AtMost(h.held[v][t], t)
        BY <1>0 DEF PastOK
      <4> QED
        BY <1>11, <4>1, <4>2
    <3> QED
      BY <3>1, <3>2
  <2>2. ASSUME NEW v \in Server, NEW t \in Nat
        PROVE  /\ Rooted(g, h.bid[v][t])
               /\ h.vote[v][t] # None => h.vote[h.vote[v][t]][t] = h.vote[v][t]
               /\ h.vote[v][t] = v => Below(h.bid[v][t], t)
    <3>1. /\ Rooted(h, h.bid[v][t])
          /\ h.vote[v][t] # None => h.vote[h.vote[v][t]][t] = h.vote[v][t]
          /\ h.vote[v][t] = v => Below(h.bid[v][t], t)
      BY <1>0 DEF PastOK
    <3> QED
      BY <1>0, <1>11, <3>1, HistoryFields
  <2> QED
    BY <1>1, <2>1, <2>2 DEF PastOK
\* Another server holds no entry its leader is only now appending.
<1>17. ASSUME NEW v \in Server, NEW t \in Nat, NEW l \in Nat, Point(g, t, l),
              Holds(g, v, t, l), ~(v = i /\ t = T)
       PROVE  Point(h, t, l) /\ Holds(h, v, t, l)
  <2>1. g.held[v][t] = h.held[v][t] /\ h.held[v][t] \in Seq(Entry)
    BY <1>0, <1>1, <1>17, HistoryFields DEF T
  <2> DEFINE b == h.held[v][t]
  <2>2. Agree(b, g.led[t], l) /\ l \in 1 .. Len(g.led[t]) /\ g.led[t][l].term = t
    BY <1>17, <2>1 DEF Holds, Point
  <2>3. Rooted(h, b)
    BY <1>0 DEF PastOK
  <2> HIDE DEF b
  <2>4. l \in 1 .. Len(b) /\ b[l] = g.led[t][l]
    BY <1>9, <2>1, <2>2, LenProperties DEF Agree, b
  <2>5. l <= Len(h.led[t]) /\ Agree(b, h.led[t], l)
    BY <1>0, <2>1, <2>2, <2>3, <2>4, ReachesPoint DEF b
  <2>6. l \in 1 .. Len(h.led[t]) /\ h.led[t][l].term = t
    BY <1>2, <2>2, <2>4, <2>5 DEF Agree
  <2> QED
    BY <2>5, <2>6 DEF Point, Holds, b
<1>18. ASSUME NEW t \in Nat, NEW l \in Nat, Open(g, t, l), Point(h, t, l)
       PROVE  Open(h, t, l)
  <2>1. ASSUME NEW v \in Server, Holds(g, v, t, l) PROVE h.term[v] <= t \/ Holds(h, v, t, l)
    <3>1. CASE v = i /\ t = T
      BY <1>2, <3>1 DEF T
    <3>2. CASE ~(v = i /\ t = T)
      BY <1>17, <1>18, <2>1, <3>2 DEF Open
    <3> QED
      BY <3>1, <3>2
  <2> QED
    BY <1>1, <1>18, <2>1, OpenBefore
<1>19. \A t \in Nat, l \in Nat : Point(h, t, l) => Agree(h.led[t], g.led[t], l)
  BY <1>2, <1>8, <1>9, AgreeFacts DEF Point
<1>20. \A t \in Nat, l \in Nat : t # T /\ Open(g, t, l) => Open(h, t, l)
  BY <1>1, <1>18 DEF Open, Point, T
<1>21. \A t \in Nat, l \in Nat : t # T => g.led[t] = h.led[t]
  BY <1>1 DEF T
\* Two majorities: one of the voters, one that may commit.
<1>22. ASSUME NEW u \in Nat, NEW o \in Server, NEW t \in Nat, t < u, NEW l \in Nat, Open(g, t, l),
              NEW Q \in SUBSET InitialVoters, Majority(Q), \A v \in Q : h.vote[v][u] = o
       PROVE  \E v \in Server : h.vote[v][u] = o /\ h.term[v] >= u /\ Holds(g, v, t, l)
  <2>1. PICK P \in SUBSET InitialVoters :
          Majority(P) /\ \A v \in P : g.term[v] <= t \/ Holds(g, v, t, l)
    BY <1>22 DEF Open
  <2>2. PICK v \in Server : v \in P /\ v \in Q
    BY <1>22, <2>1, MajoritiesMeet
  <2>3. h.vote[v][u] = o /\ o # None
    BY <1>22, <2>2, ServerAssumption
  <2>4. ~(h.term[v] < u)
    BY <1>0, <2>3, PastEmpty
  <2>5. h.term[v] >= u
    BY <1>2, <2>4
  <2>6. ~(g.term[v] <= t)
    BY <1>1, <1>2, <1>22, <2>5
  <2> QED
    BY <2>1, <2>2, <2>3, <2>5, <2>6
<1>23. Inherited(g)
  <2> SUFFICES ASSUME NEW t \in Nat, NEW u \in Nat, NEW l \in Nat, t < u,
                      g.owner[u] # None, Open(g, t, l)
               PROVE  Agree(g.led[u], g.led[t], l)
    BY DEF Inherited
  <2>1. CASE t # T /\ u # T
    <3>1. Open(h, t, l) /\ h.owner[u] # None /\ g.led[u] = h.led[u] /\ g.led[t] = h.led[t]
      BY <1>1, <1>20, <2>1 DEF T
    <3> QED
      BY <1>0, <3>1 DEF Inherited
  <2>2. CASE u = T
    <3>1. t # T /\ Open(h, t, l) /\ g.led[t] = h.led[t] /\ g.led[u] = a
      BY <1>1, <1>2, <1>20, <2>2 DEF T
    <3>2. Agree(m, h.led[t], l)
      <4>1. CASE h.owner[T] = i
        BY <1>0, <1>2, <1>5, <1>6, <2>2, <3>1, <4>1 DEF Inherited
      <4>2. CASE Wins(h, i)
        <5>1. PICK Q \in SUBSET InitialVoters : Majority(Q) /\ \A v \in Q : h.vote[v][T] = i
          BY <4>2 DEF Wins, T
        <5>2. PICK v \in Server : h.vote[v][T] = i /\ Holds(g, v, t, l)
          BY <1>2, <1>22, <2>2, <5>1
        <5>3. Holds(h, v, t, l)
          BY <1>17, <3>1, <5>2 DEF Open
        <5>4. Agree(h.bid[i][T], h.led[t], l)
          BY <1>0, <1>2, <1>5, <2>2, <3>1, <5>2, <5>3 DEF Supported
        <5> QED
          BY <4>2, <5>4 DEF Wins, T, m
      <4> QED
        BY <1>b, <4>1, <4>2 DEF T
    <3> QED
      BY <1>2, <1>a, <3>1, <3>2
  <2>3. CASE t = T
    <3>1. u # T /\ h.owner[u] # None /\ g.led[u] = h.led[u]
      BY <1>1, <1>2, <2>3 DEF T
    <3>2. PICK Q \in SUBSET InitialVoters : Majority(Q) /\ \A v \in Q : h.vote[v][u] = h.owner[u]
      BY <1>0, <3>1 DEF LedOK
    <3>3. PICK v \in Server : h.term[v] >= u /\ Holds(g, v, t, l)
      <4> DEFINE o == h.owner[u]
      <4>1. o \in Server
        BY <1>0, <3>1, HistoryFields
      <4> HIDE DEF o
      <4>2. \A v \in Q : h.vote[v][u] = o
        BY <3>2 DEF o
      <4> QED
        BY <1>22, <3>2, <4>1, <4>2
    <3>4. v # i
      BY <1>2, <2>3, <3>3 DEF T
    <3>5. Point(h, t, l)
      BY <1>17, <3>3, <3>4 DEF Open
    <3>6. Open(h, t, l)
      BY <1>18, <3>5
    <3>7. Agree(h.led[u], h.led[t], l)
      BY <1>0, <3>1, <3>6 DEF Inherited
    <3> QED
      BY <1>2, <1>10, <3>1, <3>7
  <2> QED
    BY <2>1, <2>2, <2>3
<1>24. ASSUME NEW v \in Server, NEW t \in Nat, NEW l \in Nat,
              Open(g, t, l), Holds(g, v, t, l), ~(v = i /\ t = T)
       PROVE  Open(h, t, l) /\ Holds(h, v, t, l)
  BY <1>17, <1>18, <1>24 DEF Open
<1>25. Kept(g)
  <2> SUFFICES ASSUME NEW v \in Server, NEW t \in Nat, NEW l \in Nat,
                      Open(g, t, l), Holds(g, v, t, l)
               PROVE  Agree(Mine(g, v), g.led[t], l)
    BY DEF Kept
  <2>1. CASE v = i /\ t = T
    <3>1. Mine(g, v) = g.held[v][t]
      BY <1>1, <2>1 DEF Mine, T
    <3> QED
      BY <3>1 DEF Holds
  <2>2. CASE ~(v = i /\ t = T)
    <3>1. Agree(Mine(h, v), h.led[t], l) /\ Mine(h, v) \in Seq(Entry)
      BY <1>0, <1>24, <2>2, HistoryFields DEF Kept
    <3>2. Agree(Mine(h, v), g.led[t], l)
      BY <1>10, <3>1
    <3> QED
      BY <1>4, <1>9, <1>a, <3>2 DEF m
  <2> QED
    BY <2>1, <2>2
<1>26. Supported(g)
  <2> SUFFICES ASSUME NEW v \in Server, NEW t \in Nat, NEW u \in Nat, NEW l \in Nat,
                      t < u, h.vote[v][u] # None, Open(g, t, l), Holds(g, v, t, l)
               PROVE  Agree(h.bid[h.vote[v][u]][u], g.led[t], l)
    BY <1>1 DEF Supported
  <2>1. ~(v = i /\ t = T)
    BY <1>0, PastEmpty DEF T
  <2>2. Open(h, t, l) /\ Holds(h, v, t, l)
    BY <1>24, <2>1
  <2>3. Agree(h.bid[h.vote[v][u]][u], h.led[t], l)
    BY <1>0, <2>2 DEF Supported
  <2>4. h.bid[h.vote[v][u]][u] \in Seq(Entry)
    BY <1>0, HistoryFields
  <2> QED
    BY <1>10, <2>3, <2>4
<1>27. HistoryInv(g)
  BY <1>1, <1>15, <1>16, <1>23, <1>25, <1>26 DEF HistoryInv
<1> QED
  BY <1>4, <1>14, <1>27 DEF g, a, m

-----------------------------------------------------------------------------
(* What the invariant says of commitment *)

\* The first k entries of a were committed by term u.
Sealed(h, a, k, u) ==
  k = 0 \/ \E t \in Nat, l \in Nat :
             t <= u /\ k <= l /\ Chosen(h, t, l) /\ Agree(a, h.led[t], k)

LEMMA SealedGrows ==
  ASSUME NEW h \in History, NEW g \in History, NEW i \in Server, Grows(h, g, i),
         NEW a \in Seq(Entry), NEW k \in Nat, NEW u \in Nat, NEW w \in Nat, u <= w,
         Sealed(h, a, k, u)
  PROVE  Sealed(g, a, k, w)
<1>1. CASE k = 0
  BY <1>1 DEF Sealed
<1>2. CASE k # 0
  <2>1. PICK t \in Nat, l \in Nat :
          t <= u /\ k <= l /\ Chosen(h, t, l) /\ Agree(a, h.led[t], k)
    BY <1>2 DEF Sealed
  <2>2. Chosen(g, t, l) /\ Agree(h.led[t], g.led[t], l)
    BY <2>1, ChosenStays
  <2>3. h.led[t] \in Seq(Entry) /\ g.led[t] \in Seq(Entry)
    BY HistoryFields
  <2>4. Agree(h.led[t], g.led[t], k)
    BY <2>1, <2>2, <2>3, AgreeFacts
  <2>5. Agree(a, g.led[t], k) /\ t <= w
    BY <2>1, <2>3, <2>4, AgreeFacts
  <2> QED
    BY <2>1, <2>2, <2>5 DEF Sealed
<1> QED
  BY <1>1, <1>2

LEMMA SealedPart ==
  ASSUME NEW h \in History, NEW a \in Seq(Entry), NEW b \in Seq(Entry),
         NEW k \in Nat, NEW j \in Nat, NEW u \in Nat, NEW w \in Nat, u <= w, j <= k,
         Sealed(h, a, k, u), Agree(b, a, j)
  PROVE  Sealed(h, b, j, w)
<1>1. CASE j = 0
  BY <1>1 DEF Sealed
<1>2. CASE j # 0
  <2>1. PICK t \in Nat, l \in Nat :
          t <= u /\ k <= l /\ Chosen(h, t, l) /\ Agree(a, h.led[t], k)
    BY <1>2 DEF Sealed
  <2>2. h.led[t] \in Seq(Entry)
    BY HistoryFields
  <2>3. Agree(a, h.led[t], j)
    BY <2>1, <2>2, AgreeFacts
  <2>4. Agree(b, h.led[t], j) /\ t <= w /\ j <= l
    BY <2>1, <2>2, <2>3, AgreeFacts
  <2> QED
    BY <2>1, <2>4 DEF Sealed
<1> QED
  BY <1>1, <1>2

\* The leader of a term has every entry committed by then.
LEMMA SealedLed ==
  ASSUME NEW h, HistoryInv(h), NEW u \in Nat, h.owner[u] # None,
         NEW a \in Seq(Entry), NEW k \in Nat, Sealed(h, a, k, u)
  PROVE  Agree(h.led[u], a, k)
<1>1. h \in History /\ h.led[u] \in Seq(Entry)
  BY HistoryFields DEF HistoryInv
<1>2. CASE k = 0
  BY <1>1, <1>2, AgreeFacts
<1>3. CASE k # 0
  <2>1. PICK t \in Nat, l \in Nat :
          t <= u /\ k <= l /\ Chosen(h, t, l) /\ Agree(a, h.led[t], k)
    BY <1>3 DEF Sealed
  <2>2. h.led[t] \in Seq(Entry)
    BY <1>1, HistoryFields
  <2>3. Agree(h.led[u], h.led[t], k)
    <3>1. CASE t = u
      <4>1. k <= Len(h.led[t])
        BY <2>1 DEF Agree
      <4> QED
        BY <1>1, <3>1, <4>1, AgreeFacts
    <3>2. CASE t < u
      <4>1. Agree(h.led[u], h.led[t], l)
        BY <2>1, <3>2, ChosenOpen DEF HistoryInv, Inherited
      <4> QED
        BY <1>1, <2>1, <2>2, <4>1, AgreeFacts
    <3> QED
      BY <2>1, <3>1, <3>2
  <2> QED
    BY <1>1, <2>1, <2>2, <2>3, AgreeFacts
<1> QED
  BY <1>2, <1>3

LEMMA ChosenOwned ==
  ASSUME NEW h, HistoryInv(h), NEW t \in Nat, NEW l, Chosen(h, t, l)
  PROVE  h.owner[t] # None
BY EmptySeq DEF HistoryInv, LedOK, Chosen, Point

\* Any two committed prefixes agree.
LEMMA SealedMeet ==
  ASSUME NEW h, HistoryInv(h), NEW a \in Seq(Entry), NEW b \in Seq(Entry),
         NEW k \in Nat, NEW j \in Nat, j <= k, NEW u \in Nat, NEW w \in Nat,
         Sealed(h, a, k, u), Sealed(h, b, j, w)
  PROVE  Agree(b, a, j)
<1>1. h \in History
  BY DEF HistoryInv
<1>2. CASE j = 0
  BY <1>2, AgreeFacts
<1>3. CASE j # 0
  <2>1. PICK t \in Nat, l \in Nat :
          t <= u /\ k <= l /\ Chosen(h, t, l) /\ Agree(a, h.led[t], k)
    BY <1>3 DEF Sealed
  <2>2. PICK s \in Nat, e \in Nat :
          s <= w /\ j <= e /\ Chosen(h, s, e) /\ Agree(b, h.led[s], j)
    BY <1>3 DEF Sealed
  <2>3. h.led[t] \in Seq(Entry) /\ h.led[s] \in Seq(Entry)
    BY <1>1, HistoryFields
  <2>4. Agree(a, h.led[t], j) /\ Agree(h.led[t], a, j)
    BY <2>1, <2>3, AgreeFacts
  <2>5. h.owner[t] # None /\ h.owner[s] # None
    BY <2>1, <2>2, ChosenOwned
  <2>6. CASE t <= s
    <3>1. Sealed(h, a, j, s)
      BY <2>1, <2>4, <2>6 DEF Sealed
    <3>2. Agree(h.led[s], a, j)
      BY <2>5, <3>1, SealedLed
    <3> QED
      BY <2>2, <2>3, <3>2, AgreeFacts
  <2>7. CASE s < t
    <3>1. Sealed(h, b, j, t)
      BY <2>2, <2>7, SMTT(30) DEF Sealed
    <3>2. Agree(h.led[t], b, j)
      BY <2>5, <3>1, SealedLed
    <3> QED
      BY <2>3, <2>4, <3>2, AgreeFacts
  <2> QED
    BY <2>6, <2>7
<1> QED
  BY <1>2, <1>3

\* A server with the votes of a quorum leads its term, or nobody does.
LEMMA OneWinner ==
  ASSUME NEW h, HistoryInv(h), NEW i \in Server, NEW u \in Nat,
         NEW Q, Majority(Q), \A v \in Q : h.vote[v][u] = i
  PROVE  h.owner[u] \in {None, i}
<1> SUFFICES ASSUME h.owner[u] # None PROVE h.owner[u] = i
  OBVIOUS
<1>1. PICK P \in SUBSET InitialVoters : Majority(P) /\ \A v \in P : h.vote[v][u] = h.owner[u]
  BY DEF HistoryInv, LedOK
<1>2. PICK v \in Server : v \in P /\ v \in Q
  BY <1>1, MajoritiesMeet
<1> QED
  BY <1>1, <1>2

\* Two rooted logs with entries of one term at one index agree up to it.
LEMMA RootedMatch ==
  ASSUME NEW h \in History, NEW a \in Seq(Entry), NEW b \in Seq(Entry),
         Rooted(h, a), Rooted(h, b),
         NEW k \in Nat, k \in 1 .. Len(a), k \in 1 .. Len(b), a[k].term = b[k].term
  PROVE  Agree(a, b, k)
<1> DEFINE t == a[k].term
<1>1. t \in Nat
  BY ElementOfSeq, EntryFields
<1>2. h.led[t] \in Seq(Entry)
  BY <1>1, HistoryFields
<1>3. Agree(a, h.led[t], k) /\ Agree(b, h.led[t], k)
  BY DEF Rooted
<1> QED
  BY <1>2, <1>3, AgreeFacts
================================================================================
